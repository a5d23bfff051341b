-------------------------- MODULE ProcFamilySteps --------------------------
(***************************************************************************)
(* The steps of fork, exit, wait and kill preserve the invariant of the    *)
(* process table.                                                          *)
(***************************************************************************)
EXTENDS ProcSteps

\* allocproc's critical section: fork fails, or the first free slot becomes an
\* EMBRYO with a fresh pid.
LEMMA Step_fork_allocproc ==
  ASSUME ProcInv, NEW c \in CPUs, NEW p \in Slots, cur[c] = p, fork_allocproc(c, p)
  PROVE  ProcInv'
<1>1. CASE FreeSlots = {}
  BY <1>1, Step_plain, Zenon DEF ProcInv, TypeOK, fork_allocproc, goto, Plain
<1>2. CASE FreeSlots # {}
  <2> DEFINE q == Min(FreeSlots)
  <2>1. Executes(c, p)
    BY Executing
  <2>2. q \in Slots /\ state[q] = "UNUSED"
    BY <1>2, MinIsIn, Numbers, <2>1, SMTT(30) DEF Executes, ProcInv, TypeOK, FreeSlots
  <2>3. /\ at[p] = "user" /\ at' = [at EXCEPT ![p] = "kstack"]
        /\ state' = [state EXCEPT ![q] = "EMBRYO"] /\ pid' = [pid EXCEPT ![q] = nextpid]
        /\ np' = [np EXCEPT ![p] = q] /\ nextpid' = nextpid + 1
        /\ UNCHANGED <<parent, chan, killed, kstack, left, cur, sch, next,
                       ptlock, tickslock, panicked>>
    BY <1>2, Numbers, <2>1 DEF Executes, ProcInv, TypeOK, fork_allocproc, goto,
        NextPid, cpus, locks
  <2> HIDE DEF q
  <2>4. q # p /\ at[q] = "none" /\ \A d \in CPUs : cur[d] # q
    BY <2>2, <2>3, Numbers, <2>1 DEF Executes, ProcInv, TypeOK, Threads,
        RunningOnOneCpu
  <2>5. ~kstack[q] /\ parent[q] = 0 /\ \A r \in Slots : np[r] # q
    BY <2>2, Numbers, <2>1 DEF Executes, ProcInv, TypeOK, StackOfProcess,
        Families, Forks
  <2>6. TypeOK' /\ Threads' /\ InScheduler' /\ RunningOnOneCpu' /\ LockHolders'
    BY <2>2, <2>3, <2>4, Numbers, <2>1, SMTT(30)
    DEF Executes, ProcInv, TypeOK, States, Locs, Threads, InScheduler,
        RunningOnOneCpu, Resumed, LockHolders, HasPtable, HasTicks
  <2>7. Forks' /\ StackOfProcess' /\ Families' /\ PidsGivenOut' /\ PidsDistinct' /\
        NoZombieWhileWaiting' /\ SleepsForTicks' /\ NoMissedTick'
    BY <2>2, <2>3, <2>4, <2>5, Numbers, <2>1
    DEF Executes, ProcInv, TypeOK, Forks, Forking, StackOfProcess, Families,
        Alive, PidsGivenOut, PidsDistinct, NoZombieWhileWaiting, SleepsForTicks,
        NoMissedTick
  <2> QED
    BY <2>6, <2>7 DEF ProcInv
<1> QED
  BY <1>1, <1>2

\* The child that fork() is making is an EMBRYO no CPU runs and no other fork()
\* has; it is not init, and nobody's parent.
LEMMA Child ==
  ASSUME ProcInv, NEW p \in Slots, at[p] \in Forking
  PROVE  \E q \in Slots \ {p, initproc} :
           /\ q = np[p] /\ np[q] = 0 /\ state[q] = "EMBRYO" /\ at[q] = "none"
           /\ kstack[q] <=> at[p] # "kstack"
           /\ parent[q] = IF at[p] = "start" THEN p ELSE 0
           /\ \A d \in CPUs : cur[d] # q
           /\ \A r \in Slots : parent[r] # q /\ (np[r] = q => r = p)
<1> DEFINE q == np[p]
<1>1. /\ q \in Slots /\ state[q] = "EMBRYO"
      /\ kstack[q] <=> at[p] # "kstack"
      /\ parent[q] = IF at[p] = "start" THEN p ELSE 0
      /\ \A r \in Slots : np[r] = q => r = p
  BY Numbers DEF ProcInv, TypeOK, Forks
<1> HIDE DEF q
<1>2. at[q] = "none" /\ \A d \in CPUs : cur[d] # q
  BY <1>1, Numbers DEF ProcInv, TypeOK, Threads, RunningOnOneCpu
<1>3. q # p /\ np[q] = 0
  BY <1>1, <1>2, Numbers DEF ProcInv, TypeOK, Forks, Forking
<1>4. q # initproc /\ \A r \in Slots : parent[r] # q
  BY <1>1, Numbers DEF ProcInv, TypeOK, Families, Alive
<1> QED
  BY <1>1, <1>2, <1>3, <1>4, Zenon DEF q, ProcInv

\* A failing fork() gives the slot back as it was before allocproc, without
\* ptable.lock.
LEMMA Step_fork_fails ==
  ASSUME ProcInv, NEW c \in CPUs, NEW p \in Slots, cur[c] = p,
         at[p] \in {"kstack", "copyuvm"}, at' = [at EXCEPT ![p] = "sysret"],
         kstack' = [kstack EXCEPT ![np[p]] = FALSE],
         state' = [state EXCEPT ![np[p]] = "UNUSED"],
         np' = [np EXCEPT ![p] = 0],
         UNCHANGED <<pid, parent, chan, killed, nextpid, left, cpus, locks, panicked>>
  PROVE  ProcInv'
<1>1. Executes(c, p)
  BY Executing
<1>2. PICK q \in Slots \ {p, initproc} :
           /\ q = np[p] /\ np[q] = 0 /\ parent[q] = 0
           /\ state[q] = "EMBRYO" /\ at[q] = "none"
           /\ \A d \in CPUs : cur[d] # q
           /\ \A r \in Slots : parent[r] # q /\ (np[r] = q => r = p)
  BY Child, Numbers, <1>1 DEF Executes, ProcInv, TypeOK, cpus, locks, Forking
<1>3. TypeOK' /\ Threads' /\ InScheduler' /\ RunningOnOneCpu' /\ LockHolders'
  BY <1>2, Numbers, <1>1, SMTT(30) DEF Executes, ProcInv, TypeOK, cpus, locks, States,
      Locs, Threads, InScheduler, RunningOnOneCpu, Resumed, LockHolders, HasPtable,
      HasTicks
<1>4. Forks' /\ StackOfProcess' /\ Families' /\ PidsGivenOut' /\ PidsDistinct' /\
      NoZombieWhileWaiting' /\ SleepsForTicks' /\ NoMissedTick'
  BY <1>2, Numbers, <1>1 DEF Executes, ProcInv, TypeOK, cpus, locks, Forks,
      Forking, StackOfProcess, Families, Alive, PidsGivenOut, PidsDistinct,
      NoZombieWhileWaiting, SleepsForTicks, NoMissedTick
<1> QED
  BY <1>3, <1>4 DEF ProcInv

\* The kernel stack of the child, or the slot given back without one.
LEMMA Step_fork_kstack ==
  ASSUME ProcInv, NEW c \in CPUs, NEW p \in Slots, cur[c] = p, fork_kstack(c, p)
  PROVE  ProcInv'
<1>1. Executes(c, p)
  BY Executing
<1>2. PICK q \in Slots \ {p, initproc} :
           /\ q = np[p] /\ np[q] = 0 /\ parent[q] = 0
           /\ state[q] = "EMBRYO" /\ at[q] = "none" /\ ~kstack[q]
           /\ \A d \in CPUs : cur[d] # q
           /\ \A r \in Slots : parent[r] # q /\ (np[r] = q => r = p)
  BY Child, Numbers, <1>1 DEF Executes, ProcInv, TypeOK, fork_kstack, Forking
<1>3. CASE /\ kstack' = [kstack EXCEPT ![q] = TRUE]
           /\ at[p] = "kstack" /\ at' = [at EXCEPT ![p] = "copyuvm"]
           /\ UNCHANGED <<state, np, pid, parent, chan, killed, nextpid, left,
                          cur, sch, next, ptlock, tickslock, panicked>>
  <2>1. TypeOK' /\ Threads' /\ InScheduler' /\ RunningOnOneCpu' /\ LockHolders'
    BY <1>2, <1>3, Numbers, <1>1, SMTT(30) DEF Executes, ProcInv, TypeOK, States, Locs,
        Threads, InScheduler, RunningOnOneCpu, Resumed, LockHolders, HasPtable,
        HasTicks
  <2>2. Forks' /\ StackOfProcess' /\ Families' /\ PidsGivenOut' /\ PidsDistinct' /\
        NoZombieWhileWaiting' /\ SleepsForTicks' /\ NoMissedTick'
    BY <1>2, <1>3, Numbers, <1>1 DEF Executes, ProcInv, TypeOK, Forks, Forking,
        StackOfProcess, Families, Alive, PidsGivenOut, PidsDistinct,
        NoZombieWhileWaiting, SleepsForTicks, NoMissedTick
  <2> QED
    BY <2>1, <2>2, Numbers, <1>1 DEF Executes, ProcInv, TypeOK
<1>4. CASE /\ state' = [state EXCEPT ![q] = "UNUSED"]
           /\ at[p] = "kstack" /\ at' = [at EXCEPT ![p] = "sysret"]
           /\ np' = [np EXCEPT ![p] = 0]
           /\ UNCHANGED <<pid, parent, chan, killed, kstack, nextpid, left, cpus,
                          locks, panicked>>
  <2>1. kstack' = [kstack EXCEPT ![np[p]] = FALSE]
    BY <1>2, <1>4, Numbers, <1>1, SMTT(30) DEF Executes, ProcInv, TypeOK
  <2> QED
    BY <1>2, <1>4, <2>1, Step_fork_fails, Numbers, <1>1, Zenon
    DEF Executes, ProcInv, TypeOK
<1> QED
  BY <1>2, <1>3, <1>4 DEF fork_kstack, goto, cpus, locks, ProcInv

\* The child gets its parent, or its stack is freed with the slot.
LEMMA Step_fork_copyuvm ==
  ASSUME ProcInv, NEW c \in CPUs, NEW p \in Slots, cur[c] = p, fork_copyuvm(c, p)
  PROVE  ProcInv'
<1>1. Executes(c, p)
  BY Executing
<1>2. PICK q \in Slots \ {p, initproc} :
           /\ q = np[p] /\ np[q] = 0 /\ parent[q] = 0
           /\ state[q] = "EMBRYO" /\ at[q] = "none" /\ kstack[q]
           /\ \A d \in CPUs : cur[d] # q
           /\ \A r \in Slots : parent[r] # q /\ (np[r] = q => r = p)
  BY Child, Numbers, <1>1 DEF Executes, ProcInv, TypeOK, fork_copyuvm, Forking
<1>3. CASE /\ parent' = [parent EXCEPT ![q] = p]
           /\ at[p] = "copyuvm" /\ at' = [at EXCEPT ![p] = "start"]
           /\ UNCHANGED <<state, np, pid, kstack, chan, killed, nextpid, left,
                          cur, sch, next, ptlock, tickslock, panicked>>
  <2>1. TypeOK' /\ Threads' /\ InScheduler' /\ RunningOnOneCpu' /\ LockHolders'
    BY <1>2, <1>3, Numbers, <1>1, SMTT(30) DEF Executes, ProcInv, TypeOK, States, Locs,
        Threads, InScheduler, RunningOnOneCpu, Resumed, LockHolders, HasPtable,
        HasTicks
  <2>2. Forks' /\ StackOfProcess' /\ Families' /\ PidsGivenOut' /\ PidsDistinct' /\
        NoZombieWhileWaiting' /\ SleepsForTicks' /\ NoMissedTick'
    BY <1>2, <1>3, Numbers, <1>1 DEF Executes, ProcInv, TypeOK, Forks, Forking,
        StackOfProcess, Families, Alive, PidsGivenOut, PidsDistinct,
        NoZombieWhileWaiting, SleepsForTicks, NoMissedTick
  <2> QED
    BY <2>1, <2>2, Numbers, <1>1 DEF Executes, ProcInv, TypeOK
<1>4. CASE /\ state' = [state EXCEPT ![q] = "UNUSED"]
           /\ kstack' = [kstack EXCEPT ![q] = FALSE]
           /\ at[p] = "copyuvm" /\ at' = [at EXCEPT ![p] = "sysret"]
           /\ np' = [np EXCEPT ![p] = 0]
           /\ UNCHANGED <<pid, parent, chan, killed, nextpid, left, cpus, locks,
                          panicked>>
  BY <1>2, <1>4, Step_fork_fails, Numbers, <1>1, Zenon DEF Executes, ProcInv, TypeOK
<1> QED
  BY <1>2, <1>3, <1>4 DEF fork_copyuvm, goto, cpus, locks, ProcInv

\* The child becomes RUNNABLE at forkret, without ptable.lock.
LEMMA Step_fork_start ==
  ASSUME ProcInv, NEW c \in CPUs, NEW p \in Slots, cur[c] = p, fork_start(c, p)
  PROVE  ProcInv'
<1>1. Executes(c, p)
  BY Executing
<1>2. PICK q \in Slots \ {p, initproc} :
           /\ q = np[p] /\ np[q] = 0 /\ parent[q] = p
           /\ state[q] = "EMBRYO" /\ at[q] = "none" /\ kstack[q]
           /\ \A d \in CPUs : cur[d] # q
           /\ \A r \in Slots : parent[r] # q /\ (np[r] = q => r = p)
  BY Child, Numbers, <1>1 DEF Executes, ProcInv, TypeOK, fork_start, Forking
<1>3. /\ at[p] = "start" /\ at' = [at EXCEPT ![p] = "sysret", ![q] = "forkret"]
      /\ state' = [state EXCEPT ![q] = "RUNNABLE"] /\ np' = [np EXCEPT ![p] = 0]
      /\ UNCHANGED <<pid, parent, kstack, chan, killed, nextpid, left,
                     cur, sch, next, ptlock, tickslock, panicked>>
  BY <1>2, Numbers, <1>1 DEF Executes, ProcInv, TypeOK, fork_start, cpus, locks
<1>4. TypeOK' /\ Threads' /\ InScheduler' /\ RunningOnOneCpu'
  BY <1>2, <1>3, Numbers, <1>1 DEF Executes, ProcInv, TypeOK, States, Locs,
      Threads, InScheduler, RunningOnOneCpu, Resumed
<1>5. /\ at[cur[c]] = "start" /\ at'[cur'[c]] = "sysret"
      /\ \A d \in CPUs \ {c} : cur[d] # 0 => at'[cur'[d]] = at[cur[d]]
  <2>1. at'[p] = "sysret" /\ \A r \in Slots \ {p, q} : at'[r] = at[r]
    BY <1>2, <1>3, Numbers, <1>1 DEF Executes, ProcInv, TypeOK
  <2>2. \A d \in CPUs \ {c} : cur[d] # 0 => cur[d] \in Slots \ {p, q}
    BY <1>2, Numbers, <1>1 DEF Executes, ProcInv, TypeOK
  <2>3. \A d \in CPUs \ {c} : cur[d] # 0 => at'[cur'[d]] = at[cur[d]]
    BY <1>3, <2>1, <2>2, Numbers, <1>1, Zenon DEF Executes, ProcInv, TypeOK
  <2> QED
    BY <1>3, <2>1, <2>3, Numbers, <1>1, Zenon DEF Executes, ProcInv, TypeOK
<1>6. LockHolders'
  <2>1. \A d \in CPUs : HasPtable(d)' <=> HasPtable(d)
    BY <1>3, <1>5, Numbers, <1>1, Zenon
    DEF Executes, ProcInv, TypeOK, HasPtable, Resumed
  <2>2. \A d \in CPUs : HasTicks(d)' <=> HasTicks(d)
    BY <1>3, <1>5, Numbers, <1>1, Zenon DEF Executes, ProcInv, TypeOK, HasTicks
  <2> QED
    BY <1>3, <2>1, <2>2, Numbers, <1>1 DEF Executes, ProcInv, TypeOK, LockHolders
<1>7. Forks' /\ StackOfProcess' /\ Families' /\ PidsGivenOut' /\ PidsDistinct' /\
      NoZombieWhileWaiting' /\ SleepsForTicks'
  BY <1>2, <1>3, Numbers, <1>1 DEF Executes, ProcInv, TypeOK, Forks, Forking,
      StackOfProcess, Families, Alive, PidsGivenOut, PidsDistinct,
      NoZombieWhileWaiting, SleepsForTicks
<1>8. NoMissedTick'
  <2> SUFFICES ASSUME NEW r \in Slots, state'[r] = "SLEEPING", chan'[r] = Ticks,
                      left'[r] = 0
               PROVE  \E d \in CPUs :
                        /\ tickslock' = d
                        /\ sch'[d] = "tick" \/ (cur'[d] # 0 /\ at'[cur'[d]] = "tick")
    BY Numbers, <1>1 DEF Executes, ProcInv, TypeOK, NoMissedTick
  <2>1. state[r] = "SLEEPING"
    BY <1>2, <1>3, Numbers, <1>1 DEF Executes, ProcInv, TypeOK
  <2>2. PICK d \in CPUs :
           /\ tickslock = d
           /\ sch[d] = "tick" \/ (cur[d] # 0 /\ at[cur[d]] = "tick")
    BY <1>3, <2>1, Numbers, <1>1 DEF Executes, ProcInv, TypeOK, NoMissedTick
  <2> QED
    BY <1>3, <1>5, <2>2, Numbers, <1>1, Zenon DEF Executes, ProcInv, TypeOK
<1> QED
  BY <1>4, <1>6, <1>7, <1>8 DEF ProcInv

\* The first thing a child does is to release ptable.lock.
LEMMA Step_forkret ==
  ASSUME ProcInv, NEW c \in CPUs, NEW p \in Slots, cur[c] = p,
         forkret(c, p)
  PROVE  ProcInv'
<1>1. Executes(c, p)
  BY Executing
<1>2. TypeOK' /\ Threads' /\ InScheduler' /\ RunningOnOneCpu' /\ LockHolders'
  BY Numbers, <1>1, SMTT(30) DEF Executes, ProcInv, TypeOK, forkret, goto, table, cpus,
      States, Locs, Threads, InScheduler, RunningOnOneCpu, Resumed, LockHolders,
      HasPtable, HasTicks
<1>3. Forks' /\ StackOfProcess' /\ Families' /\ PidsGivenOut' /\ PidsDistinct' /\
      NoZombieWhileWaiting' /\ SleepsForTicks' /\ NoMissedTick'
  BY Numbers, <1>1 DEF Executes, ProcInv, TypeOK, forkret, goto, table, cpus,
      Forks, Forking, StackOfProcess, Families, Alive, PidsGivenOut, PidsDistinct,
      NoZombieWhileWaiting, SleepsForTicks, NoMissedTick, LockHolders, HasTicks
<1> QED
  BY <1>2, <1>3 DEF ProcInv

\* init exiting is a panic; nothing else changes.
LEMMA Step_exit_init ==
  ASSUME ProcInv, NEW c \in CPUs, NEW p \in Slots, cur[c] = p,
         exit_init(c, p)
  PROVE  ProcInv'
<1>1. Executes(c, p)
  BY Executing
<1>2. TypeOK' /\ Threads' /\ InScheduler' /\ RunningOnOneCpu' /\ LockHolders'
  BY Numbers, <1>1, SMTT(30) DEF Executes, ProcInv, TypeOK, exit_init, table, locals,
      cpus, locks, States, Locs, Threads, InScheduler, RunningOnOneCpu, Resumed,
      LockHolders, HasPtable, HasTicks
<1>3. Forks' /\ StackOfProcess' /\ Families' /\ PidsGivenOut' /\ PidsDistinct' /\
      NoZombieWhileWaiting' /\ SleepsForTicks' /\ NoMissedTick'
  BY Numbers, <1>1 DEF Executes, ProcInv, TypeOK, exit_init, table, locals,
      cpus, locks, Forks, Forking, StackOfProcess, Families, Alive, PidsGivenOut,
      PidsDistinct, NoZombieWhileWaiting, SleepsForTicks, NoMissedTick, LockHolders,
      HasTicks
<1> QED
  BY <1>2, <1>3 DEF ProcInv

\* exit(): the parent is woken, the children go to init, the process becomes a
\* ZOMBIE and the scheduler gets ptable.lock with the CPU.
LEMMA Step_exit ==
  ASSUME ProcInv, NEW c \in CPUs, NEW p \in Slots, cur[c] = p, exit(c, p)
  PROVE  ProcInv'
<1>1. Executes(c, p)
  BY Executing
<1>2. /\ at[p] = "exit" /\ at' = [at EXCEPT ![p] = "none"] /\ p # initproc
      /\ ptlock = 0 /\ ptlock' = c
      /\ cur' = [cur EXCEPT ![c] = 0] /\ sch' = [sch EXCEPT ![c] = "scan"]
      /\ parent' = [q \in Slots |-> IF parent[q] = p THEN initproc ELSE parent[q]]
      /\ UNCHANGED <<pid, chan, killed, kstack, nextpid, np, left, next,
                     tickslock, panicked>>
  BY Numbers, <1>1 DEF Executes, ProcInv, TypeOK, exit, sched, goto, Kids
<1>3. /\ state' \in [Slots -> States] /\ state'[p] = "ZOMBIE"
      /\ \A q \in Slots \ {p} :
           \/ state'[q] = state[q]
           \/ state[q] = "SLEEPING" /\ state'[q] = "RUNNABLE"
  BY Numbers, <1>1 DEF Executes, ProcInv, TypeOK, exit, wakeup1, States
<1>4. \A q \in Slots :
        /\ state[q] = "SLEEPING" /\ chan[q] = parent[p] => state'[q] # "SLEEPING"
        /\ state[q] = "SLEEPING" /\ chan[q] = initproc
             /\ (\E r \in Slots : parent[r] = p /\ state[r] = "ZOMBIE")
           => state'[q] # "SLEEPING"
  BY Numbers, <1>1 DEF Executes, ProcInv, TypeOK, exit, wakeup1, Kids
<1>5. \A q \in Slots \ {p} : /\ state[q] # "SLEEPING" => state'[q] = state[q]
                             /\ state[q] \in Alive => state'[q] \in Alive
  BY <1>3, Numbers, <1>1 DEF Executes, ProcInv, TypeOK, Alive
<1>6. TypeOK'
  BY <1>2, <1>3, Numbers, <1>1, Zenon DEF Executes, ProcInv, TypeOK, Locs
<1>7. Threads' /\ InScheduler' /\ RunningOnOneCpu'
  BY <1>2, <1>3, Numbers, <1>1 DEF Executes, ProcInv, TypeOK, Threads,
      InScheduler, RunningOnOneCpu, Resumed
<1>8. LockHolders'
  BY <1>2, Numbers, <1>1 DEF Executes, ProcInv, TypeOK, LockHolders, HasPtable,
      HasTicks, Resumed
<1>9. Forks' /\ StackOfProcess' /\ Families'
  <2>1. StackOfProcess'
    BY <1>2, <1>3, Numbers, <1>1, SMTT(30) DEF Executes, ProcInv, TypeOK, StackOfProcess,
        Alive
  <2>2. Forks'
    <3>1. \A r \in Slots : at'[r] \in Forking => at'[r] = at[r] /\ np[r] \in Slots \ {p}
      BY <1>2, Numbers, <1>1 DEF Executes, ProcInv, TypeOK, Forks, Forking
    <3>2. \A r \in Slots : at'[r] \in Forking => state[np[r]] = "EMBRYO"
      BY <3>1, Numbers, <1>1 DEF Executes, ProcInv, TypeOK, Forks
    <3>3. \A r \in Slots : at'[r] \in Forking => state'[np[r]] = "EMBRYO"
      BY <1>5, <3>1, <3>2, Numbers, <1>1, Zenon DEF Executes, ProcInv, TypeOK
    <3>4. \A r \in Slots : at'[r] \in Forking => parent'[np[r]] = parent[np[r]]
      BY <1>2, <3>1, Numbers, <1>1 DEF Executes, ProcInv, TypeOK, Forks, Forking
    <3> QED
      BY <1>2, <3>1, <3>3, <3>4, Numbers, <1>1, SMTT(30)
      DEF Executes, ProcInv, TypeOK, Forks, Forking
  <2>3. state'[initproc] \in Alive /\ parent'[initproc] = 0
    BY <1>2, <1>3, Numbers, <1>1 DEF Executes, ProcInv, TypeOK, Families, Alive
  <2>4. \A q \in Slots : parent'[q] # 0 => parent'[q] # q /\ state'[parent'[q]] \in Alive
    <3> TAKE q \in Slots
    <3>1. CASE parent[q] = p
      BY <1>2, <2>3, <3>1, Numbers, <1>1 DEF Executes, ProcInv, TypeOK, Families
    <3>2. CASE parent[q] # p
      <4>1. parent[q] # 0 => parent[q] \in Slots \ {p} /\ state[parent[q]] \in Alive
        BY <3>2, Numbers, <1>1 DEF Executes, ProcInv, TypeOK, Families
      <4> QED
        BY <1>2, <1>5, <3>2, <4>1, Numbers, <1>1, Zenon
        DEF Executes, ProcInv, TypeOK, Families
    <3> QED
      BY <3>1, <3>2, Numbers, <1>1 DEF Executes, ProcInv, TypeOK
  <2>5. \A q \in Slots :
          /\ state'[q] \in Alive \cup {"ZOMBIE"} /\ q # initproc => parent'[q] # 0
          /\ state'[q] = "UNUSED" => parent'[q] = 0
    BY <1>2, <1>3, Numbers, <1>1 DEF Executes, ProcInv, TypeOK, Families, Alive
  <2> QED
    BY <2>1, <2>2, <2>3, <2>4, <2>5, Numbers, <1>1, SMTT(30)
    DEF Executes, ProcInv, TypeOK, Families
<1>10. PidsGivenOut' /\ PidsDistinct'
  BY <1>2, <1>3, Numbers, <1>1 DEF Executes, ProcInv, TypeOK, PidsGivenOut,
      PidsDistinct
<1>11. NoZombieWhileWaiting'
  <2> SUFFICES ASSUME NEW r \in Slots, NEW q \in Slots, state'[r] = "SLEEPING",
                      chan'[r] = r, parent'[q] = r, state'[q] = "ZOMBIE"
               PROVE  FALSE
    BY Numbers, <1>1 DEF Executes, ProcInv, TypeOK, NoZombieWhileWaiting
  <2>1. state[r] = "SLEEPING" /\ chan[r] = r /\ r # p
    BY <1>2, <1>3, Numbers, <1>1 DEF Executes, ProcInv, TypeOK
  <2>2. CASE parent[q] = p
    <3>1. r = initproc /\ q # p
      BY <1>2, <2>2, Numbers, <1>1, SMTT(30) DEF Executes, ProcInv, TypeOK, Families
    <3> QED
      BY <1>3, <1>4, <2>1, <2>2, <3>1, Numbers, <1>1, SMTT(30) DEF Executes, ProcInv, TypeOK
  <2>3. CASE parent[q] # p /\ q # p
    BY <1>2, <1>3, <2>1, <2>3, Numbers, <1>1, SMTT(30)
    DEF Executes, ProcInv, TypeOK, NoZombieWhileWaiting
  <2>4. CASE parent[q] # p /\ q = p
    BY <1>2, <1>4, <2>1, <2>4, Numbers, <1>1, SMTT(30) DEF Executes, ProcInv, TypeOK
  <2> QED
    BY <2>2, <2>3, <2>4, Numbers, <1>1 DEF Executes, ProcInv, TypeOK
<1>12. SleepsForTicks' /\ NoMissedTick'
  BY <1>2, <1>3, Numbers, <1>1, SMTT(30) DEF Executes, ProcInv, TypeOK, SleepsForTicks,
      NoMissedTick, LockHolders, HasTicks
<1> QED
  BY <1>6, <1>7, <1>8, <1>9, <1>10, <1>11, <1>12 DEF ProcInv

\* wait() is entered with ptable.lock free or in this CPU's hands, never with
\* tickslock.
LEMMA WaitLocks ==
  ASSUME ProcInv, NEW c \in CPUs, NEW p \in Slots, cur[c] = p, wait(c, p)
  PROVE  /\ at[p] \in {"wait", "waiting"}
         /\ ptlock \in {0, c} /\ tickslock # c
<1> Executes(c, p)
  BY Executing
<1> QED
  BY Numbers DEF Executes, ProcInv, TypeOK, LockHolders, HasPtable, HasTicks,
      Resumed, wait

\* wait() returns: without a child to reap, or having freed the slot q of one.
LEMMA Step_wait_returns ==
  ASSUME ProcInv, NEW c \in CPUs, NEW p \in Slots, cur[c] = p,
         at[p] \in {"wait", "waiting"}, at' = [at EXCEPT ![p] = "sysret"],
         ptlock \in {0, c}, ptlock' = 0, chan' = [chan EXCEPT ![p] = 0],
         UNCHANGED <<state, pid, parent, killed, kstack, nextpid, np, left, cpus,
                     tickslock, panicked>>
  PROVE  ProcInv'
<1>1. Executes(c, p)
  BY Executing
<1>2. TypeOK' /\ Threads' /\ InScheduler' /\ RunningOnOneCpu' /\ LockHolders'
  BY Numbers, <1>1, SMTT(30) DEF Executes, ProcInv, TypeOK, cpus, States, Locs, Threads,
      InScheduler, RunningOnOneCpu, Resumed, LockHolders, HasPtable, HasTicks
<1>3. Forks' /\ StackOfProcess' /\ Families' /\ PidsGivenOut' /\ PidsDistinct' /\
      NoZombieWhileWaiting' /\ SleepsForTicks' /\ NoMissedTick'
  BY Numbers, <1>1 DEF Executes, ProcInv, TypeOK, cpus, Forks, Forking,
      StackOfProcess, Families, Alive, PidsGivenOut, PidsDistinct,
      NoZombieWhileWaiting, SleepsForTicks, NoMissedTick, LockHolders, HasTicks
<1> QED
  BY <1>2, <1>3 DEF ProcInv

\* The effect of reaping the child q, written without the search for it.
Reap(c, p, q) ==
  /\ at[p] \in {"wait", "waiting"} /\ at' = [at EXCEPT ![p] = "sysret"]
  /\ ptlock \in {0, c} /\ ptlock' = 0 /\ chan' = [chan EXCEPT ![p] = 0]
  /\ parent[q] = p /\ state[q] = "ZOMBIE"
  /\ kstack' = [kstack EXCEPT ![q] = FALSE] /\ state' = [state EXCEPT ![q] = "UNUSED"]
  /\ pid' = [pid EXCEPT ![q] = 0] /\ parent' = [parent EXCEPT ![q] = 0]
  /\ killed' = [killed EXCEPT ![q] = FALSE]
  /\ UNCHANGED <<nextpid, np, left, cur, sch, next, tickslock, panicked>>

\* Reaping frees the slot of a ZOMBIE child, which no fork() and no CPU has.
LEMMA Step_wait_reaps ==
  ASSUME ProcInv, NEW c \in CPUs, NEW p \in Slots, cur[c] = p,
         NEW q \in Slots, Reap(c, p, q)
  PROVE  ProcInv'
<1>1. Executes(c, p)
  BY Executing
<1>2. TypeOK' /\ Threads' /\ InScheduler' /\ RunningOnOneCpu' /\ LockHolders'
  BY Numbers, <1>1, SMTT(30) DEF Executes, ProcInv, TypeOK, Reap, States, Locs, Threads,
      InScheduler, RunningOnOneCpu, Resumed, LockHolders, HasPtable, HasTicks
<1>3. Forks' /\ StackOfProcess' /\ Families' /\ PidsGivenOut' /\ PidsDistinct' /\
      NoZombieWhileWaiting' /\ SleepsForTicks' /\ NoMissedTick'
  BY Numbers, <1>1, SMTT(30) DEF Executes, ProcInv, TypeOK, Reap, Forks, Forking,
      StackOfProcess, Families, Alive, PidsGivenOut, PidsDistinct,
      NoZombieWhileWaiting, SleepsForTicks, NoMissedTick, LockHolders, HasTicks
<1> QED
  BY <1>2, <1>3 DEF ProcInv

\* Without a ZOMBIE child wait() sleeps on the process itself, handing
\* ptable.lock to the scheduler before an exit() can come in between.
LEMMA Step_wait_sleeps ==
  ASSUME ProcInv, NEW c \in CPUs, NEW p \in Slots, cur[c] = p,
         at[p] \in {"wait", "waiting"}, at' = [at EXCEPT ![p] = "waiting"],
         ptlock \in {0, c}, chan' = [chan EXCEPT ![p] = p], sched(c),
         \A q \in Slots : parent[q] = p => state[q] # "ZOMBIE",
         state' = [state EXCEPT ![p] = "SLEEPING"],
         UNCHANGED <<pid, parent, killed, kstack, nextpid, np, left, tickslock, panicked>>
  PROVE  ProcInv'
<1>1. Executes(c, p)
  BY Executing
<1>2. TypeOK' /\ Threads' /\ InScheduler' /\ RunningOnOneCpu' /\ LockHolders'
  BY Numbers, <1>1, SMTT(30) DEF Executes, ProcInv, TypeOK, sched, States, Locs, Threads,
      InScheduler, RunningOnOneCpu, Resumed, LockHolders, HasPtable, HasTicks
<1>3. Forks' /\ StackOfProcess' /\ Families' /\ PidsGivenOut' /\ PidsDistinct' /\
      NoZombieWhileWaiting' /\ SleepsForTicks' /\ NoMissedTick'
  BY Numbers, <1>1, SMTT(30) DEF Executes, ProcInv, TypeOK, sched, Forks, Forking,
      StackOfProcess, Families, Alive, PidsGivenOut, PidsDistinct,
      NoZombieWhileWaiting, SleepsForTicks, NoMissedTick, LockHolders, HasTicks
<1> QED
  BY <1>2, <1>3 DEF ProcInv

\* One pass of wait() over the table, entered from the system call or resumed.
LEMMA Step_wait ==
  ASSUME ProcInv, NEW c \in CPUs, NEW p \in Slots, cur[c] = p, wait(c, p)
  PROVE  ProcInv'
<1> DEFINE zombies == {q \in Kids(p) : state[q] = "ZOMBIE"}
<1>1. /\ at[p] \in {"wait", "waiting"} /\ ptlock \in {0, c}
      /\ UNCHANGED <<nextpid, np, left, tickslock, panicked>>
  BY WaitLocks, Zenon DEF wait
<1>2. CASE /\ zombies # {}
           /\ LET q == Min(zombies) IN
                /\ kstack' = [kstack EXCEPT ![q] = FALSE]
                /\ state' = [state EXCEPT ![q] = "UNUSED"]
                /\ pid' = [pid EXCEPT ![q] = 0]
                /\ parent' = [parent EXCEPT ![q] = 0]
                /\ killed' = [killed EXCEPT ![q] = FALSE]
           /\ chan' = [chan EXCEPT ![p] = 0] /\ ptlock' = 0
           /\ at' = [at EXCEPT ![p] = "sysret"] /\ UNCHANGED cpus
  <2> DEFINE q == Min(zombies)
  <2>1. q \in Slots /\ parent[q] = p /\ state[q] = "ZOMBIE"
    BY <1>2, MinIsIn, SMTT(30) DEF Kids
  <2> HIDE DEF q
  <2>2. /\ kstack' = [kstack EXCEPT ![q] = FALSE]
        /\ state' = [state EXCEPT ![q] = "UNUSED"]
        /\ pid' = [pid EXCEPT ![q] = 0] /\ parent' = [parent EXCEPT ![q] = 0]
        /\ killed' = [killed EXCEPT ![q] = FALSE]
    BY <1>2 DEF q
  <2>3. Reap(c, p, q)
    BY <1>1, <1>2, <2>1, <2>2, Zenon DEF Reap, cpus
  <2> QED
    BY <2>1, <2>3, Step_wait_reaps
<1>3. CASE /\ chan' = [chan EXCEPT ![p] = 0] /\ ptlock' = 0
           /\ at' = [at EXCEPT ![p] = "sysret"]
           /\ UNCHANGED <<state, pid, parent, killed, kstack, cpus>>
  BY <1>1, <1>3, Step_wait_returns, Zenon
<1>4. CASE /\ zombies = {}
           /\ chan' = [chan EXCEPT ![p] = p] /\ state' = [state EXCEPT ![p] = "SLEEPING"]
           /\ at' = [at EXCEPT ![p] = "waiting"] /\ sched(c)
           /\ UNCHANGED <<pid, parent, killed, kstack>>
  <2>1. \A q \in Slots : parent[q] = p => state[q] # "ZOMBIE"
    BY <1>4 DEF Kids
  <2> QED
    BY <1>1, <1>4, <2>1, Step_wait_sleeps, Zenon
<1> QED
  BY <1>2, <1>3, <1>4 DEF wait, goto

\* kill() marks a slot and makes it RUNNABLE when it sleeps.
LEMMA Step_kill ==
  ASSUME ProcInv, NEW c \in CPUs, NEW p \in Slots, cur[c] = p,
         NEW n \in 0 .. MaxPid, kill(c, p, n)
  PROVE  ProcInv'
<1> DEFINE found == {q \in Slots : pid[q] = n}
<1>1. CASE found = {}
  BY <1>1, Step_plain, Zenon DEF ProcInv, TypeOK, kill, goto, Plain
<1>2. CASE found # {}
  <2> DEFINE v == Min(found)
  <2>1. Executes(c, p)
    BY Executing
  <2>2. v \in Slots
    BY <1>2, MinIsIn, Numbers, <2>1, SMTT(30) DEF Executes, ProcInv, TypeOK
  <2>3. /\ at[p] = "user" /\ at' = [at EXCEPT ![p] = "sysret"]
        /\ killed' = [killed EXCEPT ![v] = TRUE]
        /\ state' = [state EXCEPT ![v] = IF @ = "SLEEPING" THEN "RUNNABLE" ELSE @]
        /\ UNCHANGED <<pid, parent, chan, kstack, nextpid, np, left, cur, sch, next,
                       ptlock, tickslock, panicked>>
    BY <1>2, Numbers, <2>1, SMTT(30) DEF Executes, ProcInv, TypeOK, kill, goto, cpus, locks
  <2> HIDE DEF v
  <2>4. TypeOK' /\ Threads' /\ InScheduler' /\ RunningOnOneCpu' /\ LockHolders'
    BY <2>2, <2>3, Numbers, <2>1, SMTT(30) DEF Executes, ProcInv, TypeOK, States, Locs,
        Threads, InScheduler, RunningOnOneCpu, Resumed, LockHolders, HasPtable,
        HasTicks
  <2>5. Forks' /\ StackOfProcess' /\ Families' /\ PidsGivenOut' /\ PidsDistinct'
    BY <2>2, <2>3, Numbers, <2>1, SMTT(30) DEF Executes, ProcInv, TypeOK, Forks, Forking,
        StackOfProcess, Families, Alive, PidsGivenOut, PidsDistinct
  <2>6. NoZombieWhileWaiting' /\ SleepsForTicks' /\ NoMissedTick'
    BY <2>2, <2>3, Numbers, <2>1 DEF Executes, ProcInv, TypeOK,
        NoZombieWhileWaiting, SleepsForTicks, NoMissedTick, LockHolders, HasTicks
  <2> QED
    BY <2>4, <2>5, <2>6 DEF ProcInv
<1> QED
  BY <1>1, <1>2, Zenon
=============================================================================
