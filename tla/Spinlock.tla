------------------------------ MODULE Spinlock ------------------------------
(***************************************************************************)
(* spinlock.c: acquire, release, holding, pushcli and popcli on several    *)
(* CPUs, with the interrupts they disable.  Every access to a field of a   *)
(* lock that another CPU also accesses is a step of its own; ncli, intena  *)
(* and the interrupt flag belong to one CPU.                               *)
(***************************************************************************)
EXTENDS Integers, FiniteSets

CONSTANTS NCPU,   \* CPUs
          NLOCK,  \* locks, numbered in the order in which they are nested
          MaxCli  \* bound: explicit pushcli calls a CPU nests

ASSUME SpinlockAssumption == NCPU \in Nat /\ NLOCK \in Nat /\ MaxCli \in Nat

CPUs == 1 .. NCPU
Locks == 1 .. NLOCK

VARIABLES
  locked, owner, \* lk->locked and lk->cpu (0 for none) of every lock
  ie,            \* the interrupt enable flag of every CPU
  ncli, intena,  \* cpu()->ncli, cpu()->intena
  pc,            \* where a CPU is in acquire or release, "run" outside
  lk,            \* the argument of that call
  held,          \* the locks a CPU has acquired and not begun to release
  extra,         \* its explicit pushcli calls without popcli yet
  intr,          \* it runs an interrupt handler
  base,          \* what it held when the handler began
  was,           \* history: the interrupt flag at the outermost pushcli
  panicked

shared == <<locked, owner>>
vars == <<locked, owner, ie, ncli, intena, pc, lk, held, extra, intr, base,
          was, panicked>>

PCs == {"run", "check", "check2", "spin", "own", "unlock", "pop"}

TypeOK ==
  /\ locked \in [Locks -> BOOLEAN]
  /\ owner \in [Locks -> CPUs \cup {0}]
  /\ ie \in [CPUs -> BOOLEAN]
  /\ ncli \in [CPUs -> Int]
  /\ intena \in [CPUs -> BOOLEAN]
  /\ pc \in [CPUs -> PCs]
  /\ lk \in [CPUs -> Locks \cup {0}]
  /\ held \in [CPUs -> SUBSET Locks]
  /\ extra \in [CPUs -> Nat]
  /\ intr \in [CPUs -> BOOLEAN]
  /\ base \in [CPUs -> SUBSET Locks]
  /\ was \in [CPUs -> BOOLEAN]
  /\ panicked \in BOOLEAN

\* initlock on every lock; CPUs start with interrupts off (main).
Init ==
  /\ locked = [l \in Locks |-> FALSE]
  /\ owner = [l \in Locks |-> 0]
  /\ ie = [c \in CPUs |-> FALSE]
  /\ ncli = [c \in CPUs |-> 0]
  /\ intena = [c \in CPUs |-> FALSE]
  /\ pc = [c \in CPUs |-> "run"]
  /\ lk = [c \in CPUs |-> 0]
  /\ held = [c \in CPUs |-> {}]
  /\ extra = [c \in CPUs |-> 0]
  /\ intr = [c \in CPUs |-> FALSE]
  /\ base = [c \in CPUs |-> {}]
  /\ was = [c \in CPUs |-> FALSE]
  /\ panicked = FALSE

-----------------------------------------------------------------------------
\* Mutant: interrupts are not disabled.
pushcli_on(c) ==
  /\ ncli' = [ncli EXCEPT ![c] = @ + 1]
  /\ intena' = [intena EXCEPT ![c] = IF ncli[c] = 0 THEN FALSE ELSE @]
  /\ was' = [was EXCEPT ![c] = IF ncli[c] = 0 THEN ie[c] ELSE @]
  /\ UNCHANGED ie

\* srieiw_disable(); then intena = srieir(), read when interrupts are off.
pushcli(c) ==
  /\ ie' = [ie EXCEPT ![c] = FALSE]
  /\ ncli' = [ncli EXCEPT ![c] = @ + 1]
  /\ intena' = [intena EXCEPT ![c] = IF ncli[c] = 0 THEN ie'[c] ELSE @]
  /\ was' = [was EXCEPT ![c] = IF ncli[c] = 0 THEN ie[c] ELSE @]

\* The two panics, then the return of the flag at the outermost level.
popcli(c) ==
  /\ ncli' = [ncli EXCEPT ![c] = @ - 1]
  /\ panicked' = (ie[c] \/ ncli'[c] < 0)
  /\ ie' = [ie EXCEPT ![c] = @ \/ (ncli'[c] = 0 /\ intena[c])]
  /\ UNCHANGED <<intena, was>>

-----------------------------------------------------------------------------
(***************************************************************************)
(* acquire(l).  Code nests locks in one order; an interrupt handler does   *)
(* not know what the code it interrupted holds.                            *)
(***************************************************************************)
acquire(c, l) ==
  /\ pc[c] = "run"
  /\ \A h \in held[c] \ base[c] : h < l
  /\ pushcli(c)
  /\ pc' = [pc EXCEPT ![c] = "check"]
  /\ lk' = [lk EXCEPT ![c] = l]
  /\ UNCHANGED <<shared, held, extra, intr, base, panicked>>

\* holding(lk): lock->locked, then lock->cpu.
holding_locked(c) ==
  /\ pc[c] = "check"
  /\ pc' = [pc EXCEPT ![c] = IF locked[lk[c]] THEN "check2" ELSE "spin"]
  /\ UNCHANGED <<shared, ie, ncli, intena, lk, held, extra, intr, base, was, panicked>>

holding_cpu(c) ==
  /\ pc[c] = "check2"
  /\ panicked' = (owner[lk[c]] = c)
  /\ pc' = [pc EXCEPT ![c] = "spin"]
  /\ UNCHANGED <<shared, ie, ncli, intena, lk, held, extra, intr, base, was>>

\* Mutant: the test and the set are two steps of other code, so that the set
\* happens without the test.
acquire_tas_blind(c) ==
  /\ pc[c] = "spin"
  /\ locked' = [locked EXCEPT ![lk[c]] = TRUE]
  /\ pc' = [pc EXCEPT ![c] = "own"]
  /\ UNCHANGED <<owner, ie, ncli, intena, lk, held, extra, intr, base, was, panicked>>

\* The tas that finds the lock free; the others change nothing.
acquire_tas(c) ==
  /\ pc[c] = "spin"
  /\ ~locked[lk[c]]
  /\ locked' = [locked EXCEPT ![lk[c]] = TRUE]
  /\ pc' = [pc EXCEPT ![c] = "own"]
  /\ UNCHANGED <<owner, ie, ncli, intena, lk, held, extra, intr, base, was, panicked>>

\* Mutant: the CPU after this one is recorded.
acquire_own_next(c) ==
  /\ pc[c] = "own"
  /\ owner' = [owner EXCEPT ![lk[c]] = c + 1]
  /\ held' = [held EXCEPT ![c] = @ \cup {lk[c]}]
  /\ pc' = [pc EXCEPT ![c] = "run"]
  /\ UNCHANGED <<locked, ie, ncli, intena, lk, extra, intr, base, was, panicked>>

acquire_own(c) ==
  /\ pc[c] = "own"
  /\ owner' = [owner EXCEPT ![lk[c]] = c]
  /\ held' = [held EXCEPT ![c] = @ \cup {lk[c]}]
  /\ pc' = [pc EXCEPT ![c] = "run"]
  /\ UNCHANGED <<locked, ie, ncli, intena, lk, extra, intr, base, was, panicked>>

-----------------------------------------------------------------------------
\* Mutant: lk->cpu = 0 is missing.
release_stale(c, l) ==
  /\ pc[c] = "run"
  /\ l \in held[c]
  /\ panicked' = ~(locked[l] /\ owner[l] = c)
  /\ held' = [held EXCEPT ![c] = @ \ {l}]
  /\ pc' = [pc EXCEPT ![c] = "unlock"]
  /\ lk' = [lk EXCEPT ![c] = l]
  /\ UNCHANGED <<shared, ie, ncli, intena, extra, intr, base, was>>

\* release(l) up to lk->cpu = 0; sleep() releases locks in another order than
\* the reverse of their acquisition.
release(c, l) ==
  /\ pc[c] = "run"
  /\ l \in held[c]
  /\ panicked' = ~(locked[l] /\ owner[l] = c)
  /\ owner' = [owner EXCEPT ![l] = 0]
  /\ held' = [held EXCEPT ![c] = @ \ {l}]
  /\ pc' = [pc EXCEPT ![c] = "unlock"]
  /\ lk' = [lk EXCEPT ![c] = l]
  /\ UNCHANGED <<locked, ie, ncli, intena, extra, intr, base, was>>

release_unlock(c) ==
  /\ pc[c] = "unlock"
  /\ locked' = [locked EXCEPT ![lk[c]] = FALSE]
  /\ pc' = [pc EXCEPT ![c] = "pop"]
  /\ UNCHANGED <<owner, ie, ncli, intena, lk, held, extra, intr, base, was, panicked>>

release_pop(c) ==
  /\ pc[c] = "pop"
  /\ popcli(c)
  /\ pc' = [pc EXCEPT ![c] = "run"]
  /\ UNCHANGED <<shared, lk, held, extra, intr, base>>

-----------------------------------------------------------------------------
\* pushcli and popcli of switchuvm.
call_pushcli(c) ==
  /\ pc[c] = "run" /\ extra[c] < MaxCli
  /\ pushcli(c)
  /\ extra' = [extra EXCEPT ![c] = @ + 1]
  /\ UNCHANGED <<shared, pc, lk, held, intr, base, panicked>>

call_popcli(c) ==
  /\ pc[c] = "run" /\ extra[c] > 0
  /\ popcli(c)
  /\ extra' = [extra EXCEPT ![c] = @ - 1]
  /\ UNCHANGED <<shared, pc, lk, held, intr, base>>

\* The scheduler's srieiw_enable, and the return to user space.
enable(c) ==
  /\ pc[c] = "run" /\ ncli[c] = 0 /\ ~ie[c] /\ ~intr[c]
  /\ ie' = [ie EXCEPT ![c] = TRUE]
  /\ UNCHANGED <<shared, ncli, intena, pc, lk, held, extra, intr, base, was, panicked>>

\* An interrupt is taken between two instructions of code that allows it; the
\* CPU disables interrupts, and trapret restores the flag.
interrupt(c) ==
  /\ ie[c] /\ ~intr[c] /\ pc[c] = "run"
  /\ ie' = [ie EXCEPT ![c] = FALSE]
  /\ intr' = [intr EXCEPT ![c] = TRUE]
  /\ base' = [base EXCEPT ![c] = held[c]]
  /\ UNCHANGED <<shared, ncli, intena, pc, lk, held, extra, was, panicked>>

trapret(c) ==
  /\ intr[c] /\ pc[c] = "run" /\ ncli[c] = 0
  /\ ie' = [ie EXCEPT ![c] = TRUE]
  /\ intr' = [intr EXCEPT ![c] = FALSE]
  /\ base' = [base EXCEPT ![c] = {}]
  /\ UNCHANGED <<shared, ncli, intena, pc, lk, held, extra, was, panicked>>

Step(c) ==
  \/ \E l \in Locks : acquire(c, l) \/ release(c, l)
  \/ holding_locked(c) \/ holding_cpu(c) \/ acquire_tas(c) \/ acquire_own(c)
  \/ release_unlock(c) \/ release_pop(c)
  \/ call_pushcli(c) \/ call_popcli(c) \/ enable(c) \/ interrupt(c) \/ trapret(c)

Next == ~panicked /\ \E c \in CPUs : Step(c)

Spec == Init /\ [][Next]_vars

-----------------------------------------------------------------------------
\* Two CPUs never hold the same lock.
MutualExclusion ==
  \A c, d \in CPUs : c # d => held[c] \cap held[d] = {}

\* The checks of acquire, release and popcli never fire for code that nests
\* its locks in order: holding() is exact although it reads two fields of a
\* lock that other CPUs are changing, and pushcli and popcli balance.
NoPanic == ~panicked

\* A CPU that holds a lock, or is on its way to one, takes no interrupt: no
\* handler can spin on a lock of the code it interrupted.
NoInterruptWhileLocked ==
  \A c \in CPUs : held[c] # {} \/ pc[c] # "run" \/ extra[c] > 0 => ~ie[c]

\* ncli counts the locks held, the call in progress and explicit pushcli calls.
NcliCounts ==
  \A c \in CPUs :
    ncli[c] = Cardinality(held[c]) + extra[c] + (IF pc[c] = "run" THEN 0 ELSE 1)

\* spinlock.c:100 "Pushcli/popcli are like cli/sti except that they are
\* matched": the outermost popcli puts the interrupt flag back to what it was
\* at the outermost pushcli.
PopcliRestores ==
  [][\A c \in CPUs : ncli[c] = 1 /\ ncli'[c] = 0 => ie'[c] = was[c]]_vars
-----------------------------------------------------------------------------
(***************************************************************************)
(* The inductive invariant of the proofs.                                  *)
(***************************************************************************)
\* c has set lk->locked and not cleared it yet.
Owns(c, l) == l \in held[c] \/ (pc[c] \in {"own", "unlock"} /\ lk[c] = l)

\* lk->locked is set exactly while some CPU owns the lock, and no two do.
LockedIsOwned == \A l \in Locks : locked[l] <=> \E c \in CPUs : Owns(c, l)
OneOwner == \A c, d \in CPUs, l \in Locks : Owns(c, l) /\ Owns(d, l) => c = d

\* lk->cpu names the CPU exactly while it holds the lock.
OwnerHolds == \A c \in CPUs, l \in Locks : owner[l] = c <=> l \in held[c]

\* The lock that a call is about is not held yet, or no longer.
LockOfCall ==
  \A c \in CPUs : /\ pc[c] # "run" => lk[c] \in Locks
                  /\ pc[c] \notin {"run", "pop"} => lk[c] \notin held[c]

\* The interrupt flag is saved as off, and so never turned on by popcli; a
\* handler starts with no lock held.
Interrupts == \A c \in CPUs : ~intena[c] /\ base[c] = {}

\* The whole: what every step of the locks preserves.
SpinInv ==
  /\ TypeOK
  /\ NoPanic
  /\ NcliCounts
  /\ NoInterruptWhileLocked
  /\ LockedIsOwned
  /\ OneOwner
  /\ OwnerHolds
  /\ LockOfCall
  /\ Interrupts
=============================================================================
