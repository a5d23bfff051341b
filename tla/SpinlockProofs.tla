--------------------------- MODULE SpinlockProofs ---------------------------
(***************************************************************************)
(* Proofs about Spinlock for any number of CPUs and locks and any nesting  *)
(* of pushcli: SpinInv is inductive, and so two CPUs never hold one lock,  *)
(* no check panics, and no interrupt is taken under a lock.                *)
(***************************************************************************)
EXTENDS Spinlock, FiniteSetTheorems, TLAPS

\* Sets of locks are finite: Cardinality behaves.
LEMMA LockSets ==
  ASSUME NEW S \in SUBSET Locks
  PROVE  /\ IsFiniteSet(S)
         /\ Cardinality(S) \in Nat
         /\ Cardinality(S) = 0 <=> S = {}
         /\ \A l \in Locks :
              /\ l \notin S => Cardinality(S \cup {l}) = Cardinality(S) + 1
              /\ l \in S => Cardinality(S \ {l}) = Cardinality(S) - 1
<1>1. IsFiniteSet(Locks)
  BY SpinlockAssumption, FS_Interval DEF Locks
<1>2. IsFiniteSet(S)
  BY <1>1, FS_Subset
<1>3. Cardinality(S) \in Nat
  BY <1>2, FS_CardinalityType
<1>4. Cardinality(S) = 0 <=> S = {}
  BY <1>2, FS_EmptySet
<1>5. ASSUME NEW l \in Locks, l \notin S
      PROVE  Cardinality(S \cup {l}) = Cardinality(S) + 1
  BY <1>2, <1>5, FS_AddElement
<1>6. ASSUME NEW l \in Locks, l \in S
      PROVE  Cardinality(S \ {l}) = Cardinality(S) - 1
  BY <1>2, <1>6, FS_RemoveElement
<1> QED
  BY <1>2, <1>3, <1>4, <1>5, <1>6

\* The initial state: no lock is taken.
LEMMA InitSpinInv == Init => SpinInv
<1> SUFFICES ASSUME Init PROVE SpinInv
  OBVIOUS
<1>1. TypeOK
  <2>1. /\ locked \in [Locks -> BOOLEAN] /\ ie \in [CPUs -> BOOLEAN]
        /\ intena \in [CPUs -> BOOLEAN] /\ intr \in [CPUs -> BOOLEAN]
        /\ was \in [CPUs -> BOOLEAN] /\ panicked \in BOOLEAN
    BY DEF Init
  <2>2. /\ owner \in [Locks -> CPUs \cup {0}] /\ lk \in [CPUs -> Locks \cup {0}]
        /\ ncli \in [CPUs -> Int] /\ extra \in [CPUs -> Nat]
    BY DEF Init
  <2>3. /\ pc \in [CPUs -> PCs]
        /\ held \in [CPUs -> SUBSET Locks] /\ base \in [CPUs -> SUBSET Locks]
    BY DEF Init, PCs
  <2> HIDE DEF Init
  <2> QED
    BY <2>1, <2>2, <2>3 DEF TypeOK
<1>2. NoPanic
  BY DEF Init, NoPanic
<1>3. NcliCounts
  BY FS_EmptySet DEF Init, NcliCounts
<1>4. NoInterruptWhileLocked
  BY DEF Init, NoInterruptWhileLocked
<1>5. LockedIsOwned /\ OneOwner
  BY DEF Init, LockedIsOwned, OneOwner, Owns
<1>6. OwnerHolds
  BY SpinlockAssumption DEF Init, OwnerHolds, CPUs
<1>7. LockOfCall
  BY DEF Init, LockOfCall
<1>8. Interrupts
  BY DEF Init, Interrupts
<1> QED
  BY <1>1, <1>2, <1>3, <1>4, <1>5, <1>6, <1>7, <1>8 DEF SpinInv

\* acquire begins: the lock it asks for is not held.
LEMMA AcquireStep ==
  ASSUME SpinInv, NEW c \in CPUs, NEW l \in Locks, acquire(c, l)
  PROVE  SpinInv'
<1>1. TypeOK'
  <2>1. ie' \in [CPUs -> BOOLEAN]
    BY DEF SpinInv, TypeOK, acquire, pushcli
  <2>2. intena' \in [CPUs -> BOOLEAN]
    BY <2>1 DEF SpinInv, TypeOK, acquire, pushcli
  <2>3. was' \in [CPUs -> BOOLEAN]
    BY DEF SpinInv, TypeOK, acquire, pushcli
  <2>4. ncli' \in [CPUs -> Int]
    BY DEF SpinInv, TypeOK, acquire, pushcli
  <2>5. /\ pc' \in [CPUs -> PCs] /\ lk' \in [CPUs -> Locks \cup {0}]
        /\ extra' \in [CPUs -> Nat]
    BY DEF SpinInv, TypeOK, PCs, acquire
  <2>6. UNCHANGED <<locked, owner, held, intr, base, panicked>>
    BY DEF acquire, shared
  <2> QED
    BY <2>1, <2>2, <2>3, <2>4, <2>5, <2>6 DEF SpinInv, TypeOK
<1>2. NoPanic'
  BY LockSets DEF SpinInv, NoPanic, NcliCounts, NoInterruptWhileLocked,
     OwnerHolds, LockedIsOwned, LockOfCall, Owns, acquire, pushcli, shared
<1>3. NcliCounts'
  BY LockSets DEF SpinInv, TypeOK, NcliCounts, LockOfCall, acquire, pushcli, shared
<1>4. NoInterruptWhileLocked'
  BY LockSets DEF SpinInv, TypeOK, NcliCounts, NoInterruptWhileLocked,
     Interrupts, acquire, pushcli, shared
<1>5. LockedIsOwned'
  BY DEF SpinInv, LockedIsOwned, OneOwner, LockOfCall, Owns, acquire, pushcli,
     shared
<1>6. OneOwner'
  BY DEF SpinInv, LockedIsOwned, OneOwner, LockOfCall, Owns, acquire, pushcli,
     shared
<1>7. OwnerHolds'
  BY SpinlockAssumption DEF SpinInv, OneOwner, OwnerHolds, LockOfCall, Owns,
     CPUs, acquire, pushcli, shared
<1>8. LockOfCall'
  BY SpinlockAssumption DEF SpinInv, TypeOK, LockOfCall, LockedIsOwned,
     Interrupts, Owns, Locks, acquire, pushcli, shared
<1>9. Interrupts'
  BY DEF SpinInv, TypeOK, NoInterruptWhileLocked, Interrupts, acquire,
     pushcli, shared
<1> QED
  BY <1>1, <1>2, <1>3, <1>4, <1>5, <1>6, <1>7, <1>8, <1>9 DEF SpinInv

\* holding() reads lk->locked.
LEMMA HoldingLockedStep ==
  ASSUME SpinInv, NEW c \in CPUs, holding_locked(c)
  PROVE  SpinInv'
<1>1. TypeOK'
  BY DEF SpinInv, TypeOK, PCs, LockOfCall, holding_locked, shared
<1>2. NoPanic'
  BY LockSets DEF SpinInv, NoPanic, NcliCounts, NoInterruptWhileLocked,
     OwnerHolds, LockedIsOwned, LockOfCall, Owns, holding_locked, shared
<1>3. NcliCounts'
  BY LockSets DEF SpinInv, NcliCounts, LockOfCall, holding_locked, shared
<1>4. NoInterruptWhileLocked'
  BY LockSets DEF SpinInv, NcliCounts, NoInterruptWhileLocked, Interrupts,
     holding_locked, shared
<1>5. LockedIsOwned'
  BY DEF SpinInv, LockedIsOwned, OneOwner, LockOfCall, Owns, holding_locked, shared
<1>6. OneOwner'
  BY DEF SpinInv, LockedIsOwned, OneOwner, LockOfCall, Owns, holding_locked, shared
<1>7. OwnerHolds'
  BY SpinlockAssumption DEF SpinInv, OneOwner, OwnerHolds, LockOfCall, Owns,
     CPUs, holding_locked, shared
<1>8. LockOfCall'
  BY SpinlockAssumption DEF SpinInv, LockOfCall, LockedIsOwned, Interrupts,
     Owns, Locks, holding_locked, shared
<1>9. Interrupts'
  BY DEF SpinInv, NoInterruptWhileLocked, Interrupts, holding_locked, shared
<1> QED
  BY <1>1, <1>2, <1>3, <1>4, <1>5, <1>6, <1>7, <1>8, <1>9 DEF SpinInv

\* holding() reads lk->cpu, which cannot be this CPU.
LEMMA HoldingCpuStep ==
  ASSUME SpinInv, NEW c \in CPUs, holding_cpu(c)
  PROVE  SpinInv'
<1>1. TypeOK'
  BY DEF SpinInv, TypeOK, PCs, LockOfCall, holding_cpu, shared
<1>2. NoPanic'
  BY LockSets DEF SpinInv, NoPanic, NcliCounts, NoInterruptWhileLocked,
     OwnerHolds, LockedIsOwned, LockOfCall, Owns, holding_cpu, shared
<1>3. NcliCounts'
  BY LockSets DEF SpinInv, NcliCounts, LockOfCall, holding_cpu, shared
<1>4. NoInterruptWhileLocked'
  BY LockSets DEF SpinInv, NcliCounts, NoInterruptWhileLocked, Interrupts,
     holding_cpu, shared
<1>5. LockedIsOwned'
  BY DEF SpinInv, LockedIsOwned, OneOwner, LockOfCall, Owns, holding_cpu, shared
<1>6. OneOwner'
  BY DEF SpinInv, LockedIsOwned, OneOwner, LockOfCall, Owns, holding_cpu, shared
<1>7. OwnerHolds'
  BY SpinlockAssumption DEF SpinInv, OneOwner, OwnerHolds, LockOfCall, Owns,
     CPUs, holding_cpu, shared
<1>8. LockOfCall'
  BY SpinlockAssumption DEF SpinInv, LockOfCall, LockedIsOwned, Interrupts,
     Owns, Locks, holding_cpu, shared
<1>9. Interrupts'
  BY DEF SpinInv, NoInterruptWhileLocked, Interrupts, holding_cpu, shared
<1> QED
  BY <1>1, <1>2, <1>3, <1>4, <1>5, <1>6, <1>7, <1>8, <1>9 DEF SpinInv

\* A tas that succeeds makes this CPU the only owner.
LEMMA TasStep ==
  ASSUME SpinInv, NEW c \in CPUs, acquire_tas(c)
  PROVE  SpinInv'
<1>1. TypeOK'
  BY DEF SpinInv, TypeOK, PCs, LockOfCall, acquire_tas, shared
<1>2. NoPanic'
  BY LockSets DEF SpinInv, NoPanic, NcliCounts, NoInterruptWhileLocked,
     OwnerHolds, LockedIsOwned, LockOfCall, Owns, acquire_tas, shared
<1>3. NcliCounts'
  BY LockSets DEF SpinInv, NcliCounts, LockOfCall, acquire_tas, shared
<1>4. NoInterruptWhileLocked'
  BY LockSets DEF SpinInv, NcliCounts, NoInterruptWhileLocked, Interrupts,
     acquire_tas, shared
<1>5. LockedIsOwned'
  BY DEF SpinInv, TypeOK, LockedIsOwned, OneOwner, LockOfCall, Owns,
     acquire_tas, shared
<1>6. OneOwner'
  BY DEF SpinInv, LockedIsOwned, OneOwner, LockOfCall, Owns, acquire_tas, shared
<1>7. OwnerHolds'
  BY SpinlockAssumption DEF SpinInv, OneOwner, OwnerHolds, LockOfCall, Owns,
     CPUs, acquire_tas, shared
<1>8. LockOfCall'
  BY SpinlockAssumption DEF SpinInv, LockOfCall, LockedIsOwned, Interrupts,
     Owns, Locks, acquire_tas, shared
<1>9. Interrupts'
  BY DEF SpinInv, NoInterruptWhileLocked, Interrupts, acquire_tas, shared
<1> QED
  BY <1>1, <1>2, <1>3, <1>4, <1>5, <1>6, <1>7, <1>8, <1>9 DEF SpinInv

\* lk->cpu is written: the lock counts as held.
LEMMA OwnStep ==
  ASSUME SpinInv, NEW c \in CPUs, acquire_own(c)
  PROVE  SpinInv'
<1>1. TypeOK'
  BY DEF SpinInv, TypeOK, PCs, LockOfCall, acquire_own, shared
<1>2. NoPanic'
  BY LockSets DEF SpinInv, NoPanic, NcliCounts, NoInterruptWhileLocked,
     OwnerHolds, LockedIsOwned, LockOfCall, Owns, acquire_own, shared
<1>3. NcliCounts'
  <2>1. lk[c] \in Locks /\ lk[c] \notin held[c]
    BY DEF SpinInv, LockOfCall, acquire_own
  <2>2. Cardinality(held[c] \cup {lk[c]}) = Cardinality(held[c]) + 1
    BY <2>1, LockSets DEF SpinInv, TypeOK
  <2>3. Cardinality(held[c]) \in Nat
    BY LockSets DEF SpinInv, TypeOK
  <2> QED
    BY <2>2, <2>3 DEF SpinInv, TypeOK, NcliCounts, acquire_own
<1>4. NoInterruptWhileLocked'
  BY LockSets DEF SpinInv, NcliCounts, NoInterruptWhileLocked, Interrupts,
     acquire_own, shared
<1>5. LockedIsOwned'
  BY DEF SpinInv, TypeOK, LockedIsOwned, OneOwner, LockOfCall, Owns,
     acquire_own, shared
<1>6. OneOwner'
  BY DEF SpinInv, LockedIsOwned, OneOwner, LockOfCall, Owns, acquire_own, shared
<1>7. OwnerHolds'
  BY SpinlockAssumption DEF SpinInv, TypeOK, OneOwner, OwnerHolds, LockOfCall,
     Owns, CPUs, acquire_own, shared
<1>8. LockOfCall'
  BY SpinlockAssumption DEF SpinInv, TypeOK, LockOfCall, LockedIsOwned,
     Interrupts, Owns, Locks, acquire_own, shared
<1>9. Interrupts'
  BY DEF SpinInv, NoInterruptWhileLocked, Interrupts, acquire_own, shared
<1> QED
  BY <1>1, <1>2, <1>3, <1>4, <1>5, <1>6, <1>7, <1>8, <1>9 DEF SpinInv

\* release finds the lock held by this CPU and clears lk->cpu.
LEMMA ReleaseStep ==
  ASSUME SpinInv, NEW c \in CPUs, NEW l \in Locks, release(c, l)
  PROVE  SpinInv'
<1>1. TypeOK'
  BY DEF SpinInv, TypeOK, PCs, LockOfCall, release, shared
<1>2. NoPanic'
  BY LockSets DEF SpinInv, NoPanic, NcliCounts, NoInterruptWhileLocked,
     OwnerHolds, LockedIsOwned, LockOfCall, Owns, release, shared
<1>3. NcliCounts'
  <2>1. Cardinality(held[c] \ {l}) = Cardinality(held[c]) - 1
    BY LockSets DEF SpinInv, TypeOK, release
  <2>2. Cardinality(held[c]) \in Nat
    BY LockSets DEF SpinInv, TypeOK
  <2> QED
    BY <2>1, <2>2 DEF SpinInv, TypeOK, NcliCounts, release
<1>4. NoInterruptWhileLocked'
  BY DEF SpinInv, TypeOK, NoInterruptWhileLocked, release
<1>5. LockedIsOwned'
  BY DEF SpinInv, TypeOK, LockedIsOwned, OneOwner, LockOfCall, Owns, release, shared
<1>6. OneOwner'
  BY DEF SpinInv, TypeOK, LockedIsOwned, OneOwner, LockOfCall, Owns, release, shared
<1>7. OwnerHolds'
  BY SpinlockAssumption DEF SpinInv, TypeOK, OneOwner, OwnerHolds, LockOfCall,
     Owns, CPUs, release, shared
<1>8. LockOfCall'
  BY SpinlockAssumption DEF SpinInv, TypeOK, LockOfCall, LockedIsOwned,
     Interrupts, Owns, Locks, release, shared
<1>9. Interrupts'
  BY DEF SpinInv, NoInterruptWhileLocked, Interrupts, release, shared
<1> QED
  BY <1>1, <1>2, <1>3, <1>4, <1>5, <1>6, <1>7, <1>8, <1>9 DEF SpinInv

\* lk->locked = 0: nobody owns the lock.
LEMMA UnlockStep ==
  ASSUME SpinInv, NEW c \in CPUs, release_unlock(c)
  PROVE  SpinInv'
<1>1. TypeOK'
  BY DEF SpinInv, TypeOK, PCs, LockOfCall, release_unlock, shared
<1>2. NoPanic'
  BY LockSets DEF SpinInv, NoPanic, NcliCounts, NoInterruptWhileLocked,
     OwnerHolds, LockedIsOwned, LockOfCall, Owns, release_unlock, shared
<1>3. NcliCounts'
  BY LockSets DEF SpinInv, NcliCounts, LockOfCall, release_unlock, shared
<1>4. NoInterruptWhileLocked'
  BY LockSets DEF SpinInv, NcliCounts, NoInterruptWhileLocked, Interrupts,
     release_unlock, shared
<1>5. LockedIsOwned'
  BY DEF SpinInv, TypeOK, LockedIsOwned, OneOwner, LockOfCall, Owns,
     release_unlock, shared
<1>6. OneOwner'
  BY DEF SpinInv, LockedIsOwned, OneOwner, LockOfCall, Owns, release_unlock, shared
<1>7. OwnerHolds'
  BY SpinlockAssumption DEF SpinInv, OneOwner, OwnerHolds, LockOfCall, Owns,
     CPUs, release_unlock, shared
<1>8. LockOfCall'
  BY SpinlockAssumption DEF SpinInv, LockOfCall, LockedIsOwned, Interrupts,
     Owns, Locks, release_unlock, shared
<1>9. Interrupts'
  BY DEF SpinInv, NoInterruptWhileLocked, Interrupts, release_unlock, shared
<1> QED
  BY <1>1, <1>2, <1>3, <1>4, <1>5, <1>6, <1>7, <1>8, <1>9 DEF SpinInv

\* popcli at the end of release.
LEMMA ReleasePopStep ==
  ASSUME SpinInv, NEW c \in CPUs, release_pop(c)
  PROVE  SpinInv'
<1>1. TypeOK'
  BY DEF SpinInv, TypeOK, PCs, LockOfCall, release_pop, popcli, shared
<1>2. NoPanic'
  <2>1. held[c] \in SUBSET Locks /\ extra[c] \in Nat /\ ncli \in [CPUs -> Int]
    BY DEF SpinInv, TypeOK
  <2>2. Cardinality(held[c]) \in Nat
    BY <2>1, LockSets
  <2>3. ncli[c] > 0
    BY <2>1, <2>2 DEF SpinInv, NcliCounts, release_pop
  <2>4. ncli'[c] = ncli[c] - 1
    BY <2>1 DEF release_pop, popcli
  <2>5. ~(ncli'[c] < 0)
    BY <2>1, <2>3, <2>4
  <2>6. ~ie[c]
    BY DEF SpinInv, NoInterruptWhileLocked, release_pop
  <2> QED  BY <2>5, <2>6 DEF NoPanic, release_pop, popcli
<1>3. NcliCounts'
  BY LockSets DEF SpinInv, TypeOK, NcliCounts, LockOfCall, release_pop,
     popcli, shared
<1>4. NoInterruptWhileLocked'
  <2>1. \A d \in CPUs : ie'[d] => ie[d]
    BY DEF SpinInv, TypeOK, Interrupts, release_pop, popcli
  <2>2. ~ie[c]
    BY DEF SpinInv, NoInterruptWhileLocked, release_pop
  <2> QED
    BY <2>1, <2>2 DEF SpinInv, TypeOK, NoInterruptWhileLocked, release_pop
<1>5. LockedIsOwned'
  BY DEF SpinInv, LockedIsOwned, OneOwner, LockOfCall, Owns, release_pop,
     popcli, shared
<1>6. OneOwner'
  BY DEF SpinInv, LockedIsOwned, OneOwner, LockOfCall, Owns, release_pop,
     popcli, shared
<1>7. OwnerHolds'
  BY SpinlockAssumption DEF SpinInv, OneOwner, OwnerHolds, LockOfCall, Owns,
     CPUs, release_pop, popcli, shared
<1>8. LockOfCall'
  BY SpinlockAssumption DEF SpinInv, LockOfCall, LockedIsOwned, Interrupts,
     Owns, Locks, release_pop, popcli, shared
<1>9. Interrupts'
  BY DEF SpinInv, NoInterruptWhileLocked, Interrupts, release_pop, popcli, shared
<1> QED
  BY <1>1, <1>2, <1>3, <1>4, <1>5, <1>6, <1>7, <1>8, <1>9 DEF SpinInv

\* An explicit pushcli.
LEMMA PushcliStep ==
  ASSUME SpinInv, NEW c \in CPUs, call_pushcli(c)
  PROVE  SpinInv'
<1>1. TypeOK'
  <2>1. ie' \in [CPUs -> BOOLEAN]
    BY DEF SpinInv, TypeOK, call_pushcli, pushcli
  <2>2. intena' \in [CPUs -> BOOLEAN]
    BY <2>1 DEF SpinInv, TypeOK, call_pushcli, pushcli
  <2>3. was' \in [CPUs -> BOOLEAN]
    BY DEF SpinInv, TypeOK, call_pushcli, pushcli
  <2>4. ncli' \in [CPUs -> Int]
    BY DEF SpinInv, TypeOK, call_pushcli, pushcli
  <2>5. /\ pc' \in [CPUs -> PCs] /\ lk' \in [CPUs -> Locks \cup {0}]
        /\ extra' \in [CPUs -> Nat]
    BY DEF SpinInv, TypeOK, PCs, call_pushcli
  <2>6. UNCHANGED <<locked, owner, held, intr, base, panicked>>
    BY DEF call_pushcli, shared
  <2> QED
    BY <2>1, <2>2, <2>3, <2>4, <2>5, <2>6 DEF SpinInv, TypeOK
<1>2. NoPanic'
  BY LockSets DEF SpinInv, NoPanic, NcliCounts, NoInterruptWhileLocked,
     OwnerHolds, LockedIsOwned, LockOfCall, Owns, call_pushcli, pushcli,
     shared
<1>3. NcliCounts'
  <2>1. \A d \in CPUs : Cardinality(held[d]) \in Nat
    BY LockSets DEF SpinInv, TypeOK
  <2> QED
    BY <2>1 DEF SpinInv, TypeOK, NcliCounts, call_pushcli, pushcli
<1>4. NoInterruptWhileLocked'
  BY LockSets DEF SpinInv, TypeOK, NcliCounts, NoInterruptWhileLocked,
     Interrupts, call_pushcli, pushcli, shared
<1>5. LockedIsOwned'
  BY DEF SpinInv, LockedIsOwned, OneOwner, LockOfCall, Owns, call_pushcli,
     pushcli, shared
<1>6. OneOwner'
  BY DEF SpinInv, LockedIsOwned, OneOwner, LockOfCall, Owns, call_pushcli,
     pushcli, shared
<1>7. OwnerHolds'
  BY SpinlockAssumption DEF SpinInv, OneOwner, OwnerHolds, LockOfCall, Owns,
     CPUs, call_pushcli, pushcli, shared
<1>8. LockOfCall'
  BY SpinlockAssumption DEF SpinInv, LockOfCall, LockedIsOwned, Interrupts,
     Owns, Locks, call_pushcli, pushcli, shared
<1>9. Interrupts'
  BY DEF SpinInv, TypeOK, NoInterruptWhileLocked, Interrupts, call_pushcli,
     pushcli, shared
<1> QED
  BY <1>1, <1>2, <1>3, <1>4, <1>5, <1>6, <1>7, <1>8, <1>9 DEF SpinInv

\* An explicit popcli.
LEMMA PopcliStep ==
  ASSUME SpinInv, NEW c \in CPUs, call_popcli(c)
  PROVE  SpinInv'
<1>1. TypeOK'
  BY DEF SpinInv, TypeOK, PCs, LockOfCall, call_popcli, popcli, shared
<1>2. NoPanic'
  <2>1. held[c] \in SUBSET Locks /\ extra[c] \in Nat /\ ncli \in [CPUs -> Int]
    BY DEF SpinInv, TypeOK
  <2>2. Cardinality(held[c]) \in Nat
    BY <2>1, LockSets
  <2>3. ncli[c] > 0
    BY <2>1, <2>2 DEF SpinInv, NcliCounts, call_popcli
  <2>4. ncli'[c] = ncli[c] - 1
    BY <2>1 DEF call_popcli, popcli
  <2>5. ~(ncli'[c] < 0)
    BY <2>1, <2>3, <2>4
  <2>6. ~ie[c]
    BY DEF SpinInv, NoInterruptWhileLocked, call_popcli
  <2> QED  BY <2>5, <2>6 DEF NoPanic, call_popcli, popcli
<1>3. NcliCounts'
  BY LockSets DEF SpinInv, TypeOK, NcliCounts, LockOfCall, call_popcli,
     popcli, shared
<1>4. NoInterruptWhileLocked'
  <2>1. \A d \in CPUs : ie'[d] => ie[d]
    BY DEF SpinInv, TypeOK, Interrupts, call_popcli, popcli
  <2>2. ~ie[c]
    BY DEF SpinInv, NoInterruptWhileLocked, call_popcli
  <2> QED
    BY <2>1, <2>2 DEF SpinInv, TypeOK, NoInterruptWhileLocked, call_popcli
<1>5. LockedIsOwned'
  BY DEF SpinInv, LockedIsOwned, OneOwner, LockOfCall, Owns, call_popcli,
     popcli, shared
<1>6. OneOwner'
  BY DEF SpinInv, LockedIsOwned, OneOwner, LockOfCall, Owns, call_popcli,
     popcli, shared
<1>7. OwnerHolds'
  BY SpinlockAssumption DEF SpinInv, OneOwner, OwnerHolds, LockOfCall, Owns,
     CPUs, call_popcli, popcli, shared
<1>8. LockOfCall'
  BY SpinlockAssumption DEF SpinInv, LockOfCall, LockedIsOwned, Interrupts,
     Owns, Locks, call_popcli, popcli, shared
<1>9. Interrupts'
  BY DEF SpinInv, NoInterruptWhileLocked, Interrupts, call_popcli, popcli, shared
<1> QED
  BY <1>1, <1>2, <1>3, <1>4, <1>5, <1>6, <1>7, <1>8, <1>9 DEF SpinInv

\* Interrupts are enabled outside of all nesting.
LEMMA EnableStep ==
  ASSUME SpinInv, NEW c \in CPUs, enable(c)
  PROVE  SpinInv'
<1>1. TypeOK'
  BY DEF SpinInv, TypeOK, PCs, LockOfCall, enable, shared
<1>2. NoPanic'
  BY LockSets DEF SpinInv, NoPanic, NcliCounts, NoInterruptWhileLocked,
     OwnerHolds, LockedIsOwned, LockOfCall, Owns, enable, shared
<1>3. NcliCounts'
  BY LockSets DEF SpinInv, NcliCounts, LockOfCall, enable, shared
<1>4. NoInterruptWhileLocked'
  BY LockSets DEF SpinInv, TypeOK, NcliCounts, NoInterruptWhileLocked,
     Interrupts, enable, shared
<1>5. LockedIsOwned'
  BY DEF SpinInv, LockedIsOwned, OneOwner, LockOfCall, Owns, enable, shared
<1>6. OneOwner'
  BY DEF SpinInv, LockedIsOwned, OneOwner, LockOfCall, Owns, enable, shared
<1>7. OwnerHolds'
  BY SpinlockAssumption DEF SpinInv, OneOwner, OwnerHolds, LockOfCall, Owns,
     CPUs, enable, shared
<1>8. LockOfCall'
  BY SpinlockAssumption DEF SpinInv, LockOfCall, LockedIsOwned, Interrupts,
     Owns, Locks, enable, shared
<1>9. Interrupts'
  BY DEF SpinInv, NoInterruptWhileLocked, Interrupts, enable, shared
<1> QED
  BY <1>1, <1>2, <1>3, <1>4, <1>5, <1>6, <1>7, <1>8, <1>9 DEF SpinInv

\* An interrupt finds no lock held.
LEMMA InterruptStep ==
  ASSUME SpinInv, NEW c \in CPUs, interrupt(c)
  PROVE  SpinInv'
<1>1. TypeOK'
  BY DEF SpinInv, TypeOK, PCs, LockOfCall, interrupt, shared
<1>2. NoPanic'
  BY LockSets DEF SpinInv, NoPanic, NcliCounts, NoInterruptWhileLocked,
     OwnerHolds, LockedIsOwned, LockOfCall, Owns, interrupt, shared
<1>3. NcliCounts'
  BY LockSets DEF SpinInv, NcliCounts, LockOfCall, interrupt, shared
<1>4. NoInterruptWhileLocked'
  BY LockSets DEF SpinInv, NcliCounts, NoInterruptWhileLocked, Interrupts,
     interrupt, shared
<1>5. LockedIsOwned'
  BY DEF SpinInv, LockedIsOwned, OneOwner, LockOfCall, Owns, interrupt, shared
<1>6. OneOwner'
  BY DEF SpinInv, LockedIsOwned, OneOwner, LockOfCall, Owns, interrupt, shared
<1>7. OwnerHolds'
  BY SpinlockAssumption DEF SpinInv, OneOwner, OwnerHolds, LockOfCall, Owns,
     CPUs, interrupt, shared
<1>8. LockOfCall'
  BY SpinlockAssumption DEF SpinInv, LockOfCall, LockedIsOwned, Interrupts,
     Owns, Locks, interrupt, shared
<1>9. Interrupts'
  BY DEF SpinInv, NoInterruptWhileLocked, Interrupts, interrupt, shared
<1> QED
  BY <1>1, <1>2, <1>3, <1>4, <1>5, <1>6, <1>7, <1>8, <1>9 DEF SpinInv

\* A handler returns when its nesting is undone.
LEMMA TrapretStep ==
  ASSUME SpinInv, NEW c \in CPUs, trapret(c)
  PROVE  SpinInv'
<1>1. TypeOK'
  BY DEF SpinInv, TypeOK, PCs, LockOfCall, trapret, shared
<1>2. NoPanic'
  BY LockSets DEF SpinInv, NoPanic, NcliCounts, NoInterruptWhileLocked,
     OwnerHolds, LockedIsOwned, LockOfCall, Owns, trapret, shared
<1>3. NcliCounts'
  BY LockSets DEF SpinInv, NcliCounts, LockOfCall, trapret, shared
<1>4. NoInterruptWhileLocked'
  BY LockSets DEF SpinInv, TypeOK, NcliCounts, NoInterruptWhileLocked,
     Interrupts, trapret, shared
<1>5. LockedIsOwned'
  BY DEF SpinInv, LockedIsOwned, OneOwner, LockOfCall, Owns, trapret, shared
<1>6. OneOwner'
  BY DEF SpinInv, LockedIsOwned, OneOwner, LockOfCall, Owns, trapret, shared
<1>7. OwnerHolds'
  BY SpinlockAssumption DEF SpinInv, OneOwner, OwnerHolds, LockOfCall, Owns,
     CPUs, trapret, shared
<1>8. LockOfCall'
  BY SpinlockAssumption DEF SpinInv, LockOfCall, LockedIsOwned, Interrupts,
     Owns, Locks, trapret, shared
<1>9. Interrupts'
  BY DEF SpinInv, NoInterruptWhileLocked, Interrupts, trapret, shared
<1> QED
  BY <1>1, <1>2, <1>3, <1>4, <1>5, <1>6, <1>7, <1>8, <1>9 DEF SpinInv

\* Every step preserves the invariant.
LEMMA NextSpinInv == SpinInv /\ [Next]_vars => SpinInv'
<1> SUFFICES ASSUME SpinInv, [Next]_vars PROVE SpinInv'
  OBVIOUS
<1>1. CASE Next
  <2> PICK c \in CPUs : Step(c)
    BY <1>1 DEF Next
  <2>1. ASSUME NEW l \in Locks, acquire(c, l) PROVE SpinInv'
    BY <2>1, AcquireStep
  <2>2. ASSUME NEW l \in Locks, release(c, l) PROVE SpinInv'
    BY <2>2, ReleaseStep
  <2> QED
    BY <2>1, <2>2, HoldingLockedStep, HoldingCpuStep, TasStep, OwnStep,
       UnlockStep, ReleasePopStep, PushcliStep, PopcliStep, EnableStep,
       InterruptStep, TrapretStep DEF Step
<1>2. CASE UNCHANGED vars
  <2>1. TypeOK' /\ NoPanic' /\ NcliCounts'
    BY <1>2, SMTT(30) DEF vars, SpinInv, TypeOK, NoPanic, NcliCounts
  <2>2. NoInterruptWhileLocked' /\ LockOfCall' /\ Interrupts'
    BY <1>2 DEF vars, SpinInv, NoInterruptWhileLocked, LockOfCall, Interrupts
  <2>3. LockedIsOwned' /\ OneOwner' /\ OwnerHolds'
    BY <1>2 DEF vars, SpinInv, LockedIsOwned, OneOwner, OwnerHolds, Owns
  <2> QED  BY <2>1, <2>2, <2>3 DEF SpinInv
<1> QED
  BY <1>1, <1>2

\* SpinInv holds in every reachable state of spinlock.c, on any number of
\* CPUs with any number of locks.
THEOREM SpinlockInvariant == Spec => []SpinInv
<1>1. Init => SpinInv
  BY InitSpinInv
<1>2. SpinInv /\ [Next]_vars => SpinInv'
  BY NextSpinInv
<1> QED
  BY <1>1, <1>2, PTL DEF Spec

\* Two CPUs never hold the same lock (acquire, spinlock.c:34).
THEOREM SpinlockExcludes == Spec => []MutualExclusion
<1>1. SpinInv => MutualExclusion
  BY DEF SpinInv, TypeOK, OneOwner, MutualExclusion, Owns
<1> QED
  BY <1>1, SpinlockInvariant, PTL

\* The panics of acquire, release and popcli (spinlock.c:29, 47, 116, 118)
\* are not reached by code that nests its locks in order.
THEOREM SpinlockNeverPanics == Spec => []NoPanic
<1>1. SpinInv => NoPanic
  BY DEF SpinInv
<1> QED
  BY <1>1, SpinlockInvariant, PTL

\* A CPU that holds a lock or is taking one takes no interrupt
\* (spinlock.c:27 "disable interrupts to avoid deadlock").
THEOREM SpinlockMasksInterrupts == Spec => []NoInterruptWhileLocked
<1>1. SpinInv => NoInterruptWhileLocked
  BY DEF SpinInv
<1> QED
  BY <1>1, SpinlockInvariant, PTL
=============================================================================
