----------------------------- MODULE ProcProofs ----------------------------
(***************************************************************************)
(* Safety of the process table for any number of slots and CPUs: a process *)
(* runs on one CPU at a time, ptable.lock is handed over with it, stacks   *)
(* and slots are freed once, and wait() and sys_sleep miss no wakeup.      *)
(***************************************************************************)
EXTENDS ProcFamilySteps

\* Every step preserves the invariant.
LEMMA NextProcInv == ASSUME ProcInv, [Next]_vars PROVE ProcInv'
<1>1. CASE UNCHANGED vars
  <2>1. TypeOK' /\ Threads' /\ InScheduler' /\ RunningOnOneCpu' /\ LockHolders'
    BY <1>1 DEF vars, table, locals, cpus, locks, ProcInv, TypeOK, Threads,
        InScheduler, RunningOnOneCpu, Resumed, LockHolders, HasPtable, HasTicks
  <2>2. Forks' /\ StackOfProcess' /\ Families' /\ PidsGivenOut' /\ PidsDistinct'
    BY <1>1 DEF vars, table, locals, ProcInv, Forks, StackOfProcess, Families,
        PidsGivenOut, PidsDistinct
  <2>3. NoZombieWhileWaiting' /\ SleepsForTicks' /\ NoMissedTick'
    BY <1>1 DEF vars, table, locals, cpus, locks, ProcInv,
        NoZombieWhileWaiting, SleepsForTicks, NoMissedTick, HasTicks
  <2> QED
    BY <2>1, <2>2, <2>3 DEF ProcInv
<1>2. CASE panic
  BY <1>1, <1>2 DEF panic
<1>3. ASSUME NEW c \in CPUs, SchedulerStep(c) \/ timer_idle(c) PROVE ProcInv'
  BY <1>3, Step_scheduler_acquire, Step_scheduler_switch,
      Step_scheduler_release, Step_timer_idle, Step_timer_idle_wakeup DEF
      SchedulerStep
<1>4. ASSUME NEW c \in CPUs, NEW p \in Slots, cur[c] = p, UserStep(c, p) PROVE ProcInv'
  BY <1>4, Step_trap, Step_fork_allocproc, Step_sys_sleep, Step_kill DEF UserStep
<1>5. ASSUME NEW c \in CPUs, NEW p \in Slots, cur[c] = p, KernelStep(c, p) PROVE ProcInv'
  BY <1>5, Step_trap, Step_forkret, Step_fork_kstack, Step_fork_copyuvm,
      Step_fork_start, Step_exit_init, Step_exit, Step_wait, Step_sleep_test,
      Step_sleep, Step_sleep_woken, Step_sleep_relock, Step_timer_wakeup,
      Step_trap_yield, Step_yielded DEF KernelStep
<1>6. ASSUME NEW c \in CPUs, NEW p \in Slots, cur[c] = p, timer_user(c, p) PROVE ProcInv'
  BY <1>6, Step_timer_user
<1> QED
  BY <1>1, <1>2, <1>3, <1>4, <1>5, <1>6 DEF Next, User, Kernel, Timer

-----------------------------------------------------------------------------
(***************************************************************************)
(* The theorems.                                                           *)
(***************************************************************************)
\* ProcInv is an invariant of the process table, with any number of slots and
\* CPUs.
THEOREM ProcInvariant == Spec => []ProcInv
<1>1. Init => ProcInv
  BY InitProcInv
<1>2. ProcInv /\ [Next]_vars => ProcInv'
  BY NextProcInv
<1> QED
  BY <1>1, <1>2, PTL DEF Spec

\* A process runs on one CPU at a time, and exactly the running ones are
\* RUNNING: ptable.lock handed across swtch() keeps a second scheduler away
\* from a context that is still being left.
THEOREM OneCpu == Spec => []RunningOnOneCpu
<1>1. ProcInv => RunningOnOneCpu
  BY DEF ProcInv
<1> QED
  BY <1>1, ProcInvariant, PTL

\* sched() is entered, and a process resumed, with ptable.lock held by the CPU
\* and without tickslock.
THEOREM HandOver == Spec => []LockHandOver
<1>1. ProcInv => LockHandOver
  BY Numbers DEF ProcInv, TypeOK, LockHandOver, LockHolders, HasPtable,
      HasTicks, InScheduler, Resumed
<1> QED
  BY <1>1, ProcInvariant, PTL

\* allocproc, fork, wait and exit leave every process its kernel stack and no
\* free slot one.
THEOREM Stacks == Spec => []StackOfProcess
<1>1. ProcInv => StackOfProcess
  BY DEF ProcInv
<1> QED
  BY <1>1, ProcInvariant, PTL

\* wait() does not sleep while one of its children is a ZOMBIE.
THEOREM NoLostExit == Spec => []NoZombieWhileWaiting
<1>1. ProcInv => NoZombieWhileWaiting
  BY DEF ProcInv
<1> QED
  BY <1>1, ProcInvariant, PTL

\* sleep(&ticks, &tickslock) does not sleep past the tick it waits for.
THEOREM NoLostTick == Spec => []NoMissedTick
<1>1. ProcInv => NoMissedTick
  BY DEF ProcInv
<1> QED
  BY <1>1, ProcInvariant, PTL

\* Every process but init has a live parent, and no two processes share a pid.
THEOREM FamiliesAndPids == Spec => [](ParentAlive /\ PidsDistinct)
<1>1. ProcInv => ParentAlive /\ PidsDistinct
  BY DEF ProcInv, Families, ParentAlive, Alive
<1> QED
  BY <1>1, ProcInvariant, PTL

\* Outside wait() a ZOMBIE stays one.
LEMMA ZombieStays ==
  ASSUME ProcInv, [Next]_vars, NEW q \in Slots, state[q] = "ZOMBIE",
         \A c \in CPUs, p \in Slots : cur[c] = p => ~wait(c, p)
  PROVE  state'[q] = "ZOMBIE"
<1>0. /\ state \in [Slots -> States]
      /\ \A p \in Slots : at[p] \in Forking => np[p] \in Slots /\ state[np[p]] = "EMBRYO"
  BY DEF ProcInv, TypeOK, Forks
<1>1. UNCHANGED state => state'[q] = "ZOMBIE"
  OBVIOUS
<1>2. CASE UNCHANGED vars \/ panic
  BY <1>2 DEF panic, vars, table
<1>3. ASSUME NEW c \in CPUs, SchedulerStep(c) \/ timer_idle(c)
      PROVE  state'[q] = "ZOMBIE"
  <2>1. CASE scheduler_switch(c)
    <3>1. Min(Runnable(c)) \in Runnable(c)
      BY <2>1, MinIsIn DEF scheduler_switch, Runnable
    <3>2. state[Min(Runnable(c))] = "RUNNABLE"
      BY <1>0, <3>1 DEF Runnable
    <3> QED
      BY <1>0, <2>1, <3>2 DEF scheduler_switch
  <2>2. CASE timer_idle_wakeup(c)
    BY <1>0, <2>2 DEF timer_idle_wakeup, wakeup1
  <2> QED
    BY <1>1, <1>3, <2>1, <2>2
    DEF SchedulerStep, scheduler_acquire, scheduler_release,
        timer_idle, table
<1>4. ASSUME NEW c \in CPUs, NEW p \in Slots, cur[c] = p, UserStep(c, p)
      PROVE  state'[q] = "ZOMBIE"
  <2>1. CASE fork_allocproc(c, p)
    <3>1. FreeSlots # {} => Min(FreeSlots) \in FreeSlots
      BY MinIsIn, Zenon DEF FreeSlots
    <3>2. FreeSlots # {} => state[Min(FreeSlots)] = "UNUSED"
      BY <1>0, <3>1 DEF FreeSlots
    <3> QED
      BY <1>0, <2>1, <3>2 DEF fork_allocproc
  <2>2. ASSUME NEW n \in 0 .. MaxPid, kill(c, p, n) PROVE state'[q] = "ZOMBIE"
    BY <1>0, <2>2, SMTT(30) DEF kill
  <2> QED
    BY <1>1, <1>4, <2>1, <2>2
    DEF UserStep, trap_syscall, sys_sleep, trap_device,
        trap_fault, table
<1>5. ASSUME NEW c \in CPUs, NEW p \in Slots, cur[c] = p, KernelStep(c, p)
      PROVE  state'[q] = "ZOMBIE"
  <2>1. state[p] = "RUNNING"
    BY <1>5, Executing DEF Executes
  <2>2. at[p] \in Forking => np[p] \in Slots /\ state[np[p]] = "EMBRYO"
    BY <1>0 DEF Forking
  <2>3. CASE fork_kstack(c, p) \/ fork_copyuvm(c, p) \/ fork_start(c, p)
    BY <1>0, <2>2, <2>3 DEF fork_kstack, fork_copyuvm,
        fork_start, Forking
  <2>4. CASE exit(c, p) \/ timer_wakeup(c, p)
    BY <1>0, <2>4, Zenon DEF exit, timer_wakeup, wakeup1
  <2>5. CASE sleep(c, p) \/ trap_yield(c, p)
    BY <1>0, <2>1, <2>5 DEF sleep, trap_yield
  <2> QED
    BY <1>1, <1>5, <2>3, <2>4, <2>5
    DEF KernelStep, trap_sysret, forkret, exit_init,
        sleep_test, sleep_woken, sleep_relock, yielded, table
<1>6. ASSUME NEW c \in CPUs, NEW p \in Slots, timer_user(c, p)
      PROVE  state'[q] = "ZOMBIE"
  BY <1>1, <1>6 DEF timer_user, table
<1> QED
  BY <1>2, <1>3, <1>4, <1>5, <1>6 DEF Next, User, Kernel, Timer

\* A ZOMBIE leaves the table only through its parent's wait(), which frees it.
THEOREM OnlyParentReaps == Spec => ReapedByParent
<1> DEFINE Reaped(q) ==
      /\ state'[q] = "UNUSED"
      /\ \E c \in CPUs : cur[c] = parent[q] /\ at[parent[q]] \in {"wait", "waiting"}
<1>1. ASSUME ProcInv, [Next]_vars, NEW q \in Slots, state[q] = "ZOMBIE",
             state'[q] # "ZOMBIE"
      PROVE  Reaped(q)
  <2>1. PICK c \in CPUs, p \in Slots : cur[c] = p /\ wait(c, p)
    BY <1>1, ZombieStays
  <2> DEFINE zombies == {r \in Kids(p) : state[r] = "ZOMBIE"}
  <2>2. state[p] = "RUNNING" /\ p # q
    BY <1>1, <2>1, Executing DEF Executes
  <2>3. zombies # {} /\ state' = [state EXCEPT ![Min(zombies)] = "UNUSED"]
    BY <1>1, <2>1, <2>2 DEF wait, ProcInv, TypeOK
  <2>4. Min(zombies) \in zombies
    BY <2>3, MinIsIn DEF Kids
  <2>5. q = Min(zombies) /\ state'[q] = "UNUSED"
    BY <1>1, <2>3, <2>4 DEF ProcInv, TypeOK, Kids
  <2>6. parent[q] = p
    BY <2>4, <2>5 DEF Kids
  <2> QED
    BY <2>1, <2>5, <2>6 DEF wait
<1>2. ProcInv /\ [Next]_vars =>
        [\A q \in Slots : state[q] = "ZOMBIE" /\ state'[q] # "ZOMBIE" => Reaped(q)]_vars
  BY <1>1
<1> QED
  BY <1>2, ProcInvariant, PTL DEF Spec, ReapedByParent
=============================================================================
