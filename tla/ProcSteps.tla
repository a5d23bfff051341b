----------------------------- MODULE ProcSteps -----------------------------
(***************************************************************************)
(* The inductive invariant of the process table, and the steps of the      *)
(* scheduler, of traps, sleep and the timer that preserve it.              *)
(***************************************************************************)
EXTENDS Proc, WellFoundedInduction, TLAPS

\* Where swtch() has left the kernel thread of a process in each state.
Threads ==
  \A p \in Slots :
    /\ state[p] \in {"UNUSED", "EMBRYO", "ZOMBIE"} <=> at[p] = "none"
    /\ state[p] = "RUNNABLE" => at[p] \in Resumed
    /\ state[p] = "SLEEPING" => \/ at[p] = "waiting" /\ chan[p] = p
                                \/ at[p] = "woken" /\ chan[p] = Ticks

\* A CPU is in its scheduler exactly while it has no process.
InScheduler == \A c \in CPUs : cur[c] = 0 <=> sch[c] # "run"

\* The places at which a CPU has ptable.lock or tickslock between two steps.
HasPtable(c) ==
  sch[c] = "scan" \/ (cur[c] # 0 /\ at[cur[c]] \in Resumed)
HasTicks(c) ==
  sch[c] = "tick" \/ (cur[c] # 0 /\ at[cur[c]] \in {"test", "sleep", "tick"})

LockHolders ==
  \A c \in CPUs : /\ HasPtable(c) <=> ptlock = c
                  /\ HasTicks(c) <=> tickslock = c

\* fork() is between allocproc and its return: the child belongs to one parent,
\* has a stack from kalloc on and its parent field from copyuvm on.
Forking == {"kstack", "copyuvm", "start"}
Forks ==
  /\ \A p \in Slots :
       /\ at[p] \in Forking => /\ np[p] # 0 /\ state[np[p]] = "EMBRYO"
                               /\ kstack[np[p]] <=> at[p] # "kstack"
                               /\ parent[np[p]] = IF at[p] = "start" THEN p ELSE 0
       /\ at[p] \notin Forking => np[p] = 0
  /\ \A p, q \in Slots : np[p] # 0 /\ np[p] = np[q] => p = q

\* init has no parent and lives; every parent lives; a free slot has none.
Families ==
  /\ state[initproc] \in Alive /\ parent[initproc] = 0
  /\ \A p \in Slots :
       /\ parent[p] # 0 => parent[p] # p /\ state[parent[p]] \in Alive
       /\ state[p] \in Alive \cup {"ZOMBIE"} /\ p # initproc => parent[p] # 0
       /\ state[p] = "UNUSED" => parent[p] = 0

\* allocproc has given out the pids below nextpid.
PidsGivenOut == \A p \in Slots : pid[p] < nextpid

\* tickslock keeps ticks from moving between sys_sleep's test and its sleep.
SleepsForTicks == \A p \in Slots : at[p] = "sleep" => left[p] # 0

ProcInv ==
  /\ TypeOK /\ Threads /\ InScheduler /\ RunningOnOneCpu /\ LockHolders
  /\ Forks /\ StackOfProcess /\ Families /\ PidsGivenOut /\ PidsDistinct
  /\ NoZombieWhileWaiting /\ SleepsForTicks /\ NoMissedTick
-----------------------------------------------------------------------------
(***************************************************************************)
(* Facts that the steps below keep using.                                  *)
(***************************************************************************)
\* The constants: slots and CPUs are numbered from 1, &ticks is no slot.
LEMMA Numbers ==
  /\ Slots \subseteq Nat /\ 0 \notin Slots /\ initproc \in Slots
  /\ CPUs \subseteq Nat /\ 0 \notin CPUs
  /\ Ticks \notin Slots \cup {0} /\ {0, Ticks} \subseteq 0 .. Ticks
  /\ \A p \in Slots : p \in 0 .. Ticks /\ p + 1 \in 1 .. (NPROC + 1)
  /\ 1 \in 1 .. (NPROC + 1)
BY ProcAssumption DEF Slots, CPUs, initproc, Ticks

\* A loop over the table that stops at the first slot of a kind (scheduler,
\* allocproc, wait, kill) stops at a slot of that kind.
LEMMA MinIsIn == ASSUME NEW S, S \subseteq Slots, S # {} PROVE Min(S) \in S
<1>1. S \subseteq Nat
  BY Numbers
<1>2. PICK x \in S : \A y \in S : ~(<<y, x>> \in OpToRel(<, Nat))
  BY <1>1, NatLessThanWellFounded, WFMin
<1>3. \A y, z \in Nat : y < z => <<y, z>> \in OpToRel(<, Nat)
  BY DEF OpToRel
<1>4. \A y \in S : ~(y < x)
  BY <1>1, <1>2, <1>3, Zenon
<1>5. \A y \in S : x <= y
  BY <1>1, <1>4
<1> QED
  BY <1>1, <1>5, Zenon DEF Min

\* The process p that CPU c executes is RUNNING there, on no other CPU, and is
\* nobody's child in the making.
Executes(c, p) ==
  /\ cur[c] = p /\ state[p] = "RUNNING" /\ at[p] # "none" /\ sch[c] = "run"
  /\ \A d \in CPUs : cur[d] = p => d = c
  /\ \A q \in Slots : np[q] # p

\* While cur[c] = p, all of that holds.
LEMMA Executing ==
  ASSUME ProcInv, NEW c \in CPUs, NEW p \in Slots, cur[c] = p
  PROVE  Executes(c, p)
<1>1. state[p] = "RUNNING" /\ \A d \in CPUs : cur[d] = p => d = c
  BY Numbers DEF ProcInv, RunningOnOneCpu
<1>2. at[p] # "none" /\ sch[c] = "run"
  BY <1>1, Numbers DEF ProcInv, Threads, InScheduler, TypeOK
<1>3. \A q \in Slots : np[q] # p
  BY <1>1, Numbers DEF ProcInv, Forks
<1> QED
  BY <1>1, <1>2, <1>3 DEF Executes, ProcInv

\* A process in the middle of a system call, not parked in swtch(), executes.
LEMMA InKernel ==
  ASSUME ProcInv, NEW p \in Slots, at[p] \notin Resumed \cup {"none"}
  PROVE  \E c \in CPUs : cur[c] = p
BY DEF ProcInv, TypeOK, States, Threads, RunningOnOneCpu, Resumed

\* While tickslock is free nobody is between acquire and release of it.
LEMMA TicksFree ==
  ASSUME ProcInv, tickslock = 0
  PROVE  /\ \A p \in Slots : at[p] \notin {"test", "sleep", "tick"}
         /\ \A c \in CPUs : sch[c] # "tick"
BY Numbers, InKernel DEF ProcInv, LockHolders, HasTicks, Resumed

\* While ptable.lock is free no scheduler scans and no process is just resumed.
LEMMA PtableFree ==
  ASSUME ProcInv, ptlock = 0
  PROVE  \A c \in CPUs : sch[c] # "scan" /\ (cur[c] # 0 => at[cur[c]] \notin Resumed)
BY Numbers DEF ProcInv, LockHolders, HasPtable

-----------------------------------------------------------------------------
(***************************************************************************)
(* The inductive invariant: the initial states, then one lemma per action. *)
(***************************************************************************)
\* userinit leaves a table that satisfies it.
LEMMA InitProcInv == ASSUME Init PROVE ProcInv
<1>1. kstack \in [Slots -> BOOLEAN] /\ \A p \in Slots : kstack[p] <=> p = initproc
  BY Numbers, ProcAssumption, Zenon DEF Init
<1>2. TypeOK
  <2>1. /\ state \in [Slots -> States] /\ at \in [Slots -> Locs] /\ pid \in [Slots -> Nat]
        /\ parent \in [Slots -> Slots \cup {0}] /\ np \in [Slots -> Slots \cup {0}]
        /\ chan \in [Slots -> 0 .. Ticks] /\ left \in [Slots -> 0 .. SleepTicks]
        /\ killed \in [Slots -> BOOLEAN] /\ cur \in [CPUs -> Slots \cup {0}]
        /\ sch \in [CPUs -> {"idle", "scan", "tick", "run"}]
        /\ next \in [CPUs -> 1 .. (NPROC + 1)]
        /\ nextpid \in Nat /\ ptlock = 0 /\ tickslock = 0 /\ panicked = FALSE
    BY Numbers, ProcAssumption DEF Init, States, Locs
  <2> QED
    BY <1>1, <2>1, Numbers, ProcAssumption, Zenon DEF Init, TypeOK
<1>3. Threads /\ InScheduler /\ RunningOnOneCpu /\ LockHolders
  BY Numbers, ProcAssumption DEF Init, Threads, InScheduler, RunningOnOneCpu,
      LockHolders, HasPtable, HasTicks, Resumed
<1>4. StackOfProcess
  BY <1>1, Numbers, ProcAssumption, Zenon DEF Init, StackOfProcess, Alive
<1>5. Forks /\ Families
  BY Numbers, ProcAssumption DEF Init, Forks, Forking, Families, Alive
<1>6. PidsGivenOut /\ PidsDistinct
  BY Numbers, ProcAssumption DEF Init, PidsGivenOut, PidsDistinct
<1>7. NoZombieWhileWaiting /\ SleepsForTicks /\ NoMissedTick
  BY Numbers, ProcAssumption DEF Init, NoZombieWhileWaiting, SleepsForTicks,
      NoMissedTick
<1> QED
  BY <1>2, <1>3, <1>4, <1>5, <1>6, <1>7 DEF ProcInv

\* Where a process holds neither lock and has no child in the making.
Plain == {"user", "sysret", "exit", "wait", "trapret"}

\* A process that only goes from one such place to another, and perhaps is
\* marked killed, preserves the invariant.
LEMMA Step_plain ==
  ASSUME ProcInv, NEW c \in CPUs, NEW p \in Slots, cur[c] = p,
         NEW l \in Plain, at[p] \in Plain, at' = [at EXCEPT ![p] = l],
         killed' \in [Slots -> BOOLEAN],
         UNCHANGED <<state, pid, parent, chan, kstack, nextpid, np, left, cpus,
                     locks, panicked>>
  PROVE  ProcInv'
<1>1. Executes(c, p)
  BY Executing
<1>2. TypeOK'
  BY Numbers, <1>1, Zenon DEF Executes, ProcInv, TypeOK, Plain, cpus, locks, Locs
<1>3. Threads' /\ InScheduler' /\ RunningOnOneCpu'
  BY Numbers, <1>1 DEF Executes, ProcInv, TypeOK, Plain, cpus, locks, Threads,
      InScheduler, RunningOnOneCpu, Resumed
<1>4. LockHolders'
  BY Numbers, <1>1 DEF Executes, ProcInv, TypeOK, Plain, cpus, locks,
      LockHolders, HasPtable, HasTicks, Resumed
<1>5. Forks' /\ StackOfProcess' /\ Families' /\ PidsGivenOut' /\ PidsDistinct' /\
      NoZombieWhileWaiting' /\ SleepsForTicks' /\ NoMissedTick'
  BY Numbers, <1>1 DEF Executes, ProcInv, TypeOK, Plain, cpus, locks, Forks,
      Forking, StackOfProcess, Families, PidsGivenOut, PidsDistinct,
      NoZombieWhileWaiting, SleepsForTicks, NoMissedTick
<1> QED
  BY <1>2, <1>3, <1>4, <1>5 DEF ProcInv

\* trap() before and after a system call, a device interrupt and a fault.
LEMMA Step_trap ==
  ASSUME ProcInv, NEW c \in CPUs, NEW p \in Slots, cur[c] = p,
         \/ trap_syscall(c, p) \/ trap_sysret(c, p)
         \/ trap_device(c, p) \/ trap_fault(c, p)
  PROVE  ProcInv'
<1>1. PICK l \in Plain : at' = [at EXCEPT ![p] = l]
  BY DEF trap_syscall, trap_sysret, trap_device, trap_fault, goto, Plain
<1>2. at[p] \in Plain
  BY DEF trap_syscall, trap_sysret, trap_device, trap_fault, Plain
<1>3. killed' \in [Slots -> BOOLEAN]
  BY Zenon DEF ProcInv, TypeOK, trap_syscall, trap_sysret, trap_device,
      trap_fault, table
<1> QED
  BY <1>1, <1>2, <1>3, Step_plain, Zenon
  DEF trap_syscall, trap_sysret, trap_device, trap_fault, table

\* acquire(&ptable.lock) at the top of the scheduler's loop.
LEMMA Step_scheduler_acquire ==
  ASSUME ProcInv, NEW c \in CPUs, scheduler_acquire(c)
  PROVE  ProcInv'
<1>1. TypeOK'
  BY Numbers DEF ProcInv, TypeOK, scheduler_acquire, table, locals
<1>2. Threads' /\ InScheduler' /\ RunningOnOneCpu' /\ LockHolders'
  BY Numbers DEF ProcInv, TypeOK, scheduler_acquire, table, locals, Threads,
      InScheduler, RunningOnOneCpu, Resumed, LockHolders, HasPtable, HasTicks
<1>3. Forks' /\ StackOfProcess' /\ Families' /\ PidsGivenOut' /\ PidsDistinct' /\
      NoZombieWhileWaiting' /\ SleepsForTicks' /\ NoMissedTick'
  BY Numbers DEF ProcInv, TypeOK, scheduler_acquire, table, locals, Forks,
      StackOfProcess, Families, PidsGivenOut, PidsDistinct, NoZombieWhileWaiting,
      SleepsForTicks, NoMissedTick
<1> QED
  BY <1>1, <1>2, <1>3 DEF ProcInv

\* The scheduler switches to a RUNNABLE process, which resumes with the lock.
LEMMA Step_scheduler_switch ==
  ASSUME ProcInv, NEW c \in CPUs, scheduler_switch(c)
  PROVE  ProcInv'
<1> DEFINE p == Min(Runnable(c))
<1>1. p \in Slots /\ state[p] = "RUNNABLE"
  BY MinIsIn, Numbers, SMTT(30) DEF ProcInv, TypeOK, scheduler_switch, Runnable
<1>2. /\ sch[c] = "scan" /\ sch' = [sch EXCEPT ![c] = "run"]
      /\ state' = [state EXCEPT ![p] = "RUNNING"]
      /\ cur' = [cur EXCEPT ![c] = p] /\ next' = [next EXCEPT ![c] = p + 1]
      /\ UNCHANGED <<pid, parent, chan, killed, kstack, nextpid, at, np, left,
                     ptlock, tickslock, panicked>>
  BY Numbers DEF ProcInv, TypeOK, scheduler_switch, locals, locks
<1> HIDE DEF p
<1>3. at[p] \in Resumed /\ \A d \in CPUs : cur[d] # p
  BY <1>1, Numbers DEF ProcInv, TypeOK, Threads, RunningOnOneCpu
<1>4. TypeOK' /\ Threads' /\ InScheduler' /\ RunningOnOneCpu' /\ LockHolders'
  BY <1>1, <1>2, <1>3, Numbers DEF ProcInv, TypeOK, States, Threads,
      InScheduler, RunningOnOneCpu, Resumed, LockHolders, HasPtable, HasTicks
<1>5. Forks' /\ StackOfProcess' /\ Families' /\ PidsGivenOut' /\ PidsDistinct'
  BY <1>1, <1>2, Numbers DEF ProcInv, TypeOK, Forks, StackOfProcess, Families,
      Alive, PidsGivenOut, PidsDistinct
<1>6. NoZombieWhileWaiting' /\ SleepsForTicks' /\ NoMissedTick'
  BY <1>1, <1>2, <1>3, Numbers DEF ProcInv, TypeOK, NoZombieWhileWaiting,
      SleepsForTicks, NoMissedTick, InScheduler
<1> QED
  BY <1>4, <1>5, <1>6 DEF ProcInv

\* The end of the scan: release(&ptable.lock).
LEMMA Step_scheduler_release ==
  ASSUME ProcInv, NEW c \in CPUs, scheduler_release(c)
  PROVE  ProcInv'
<1>1. TypeOK'
  BY Numbers DEF ProcInv, TypeOK, scheduler_release, table, locals
<1>2. Threads' /\ InScheduler' /\ RunningOnOneCpu' /\ LockHolders'
  BY Numbers DEF ProcInv, TypeOK, scheduler_release, table, locals, Threads,
      InScheduler, RunningOnOneCpu, Resumed, LockHolders, HasPtable, HasTicks
<1>3. Forks' /\ StackOfProcess' /\ Families' /\ PidsGivenOut' /\ PidsDistinct' /\
      NoZombieWhileWaiting' /\ SleepsForTicks' /\ NoMissedTick'
  BY Numbers DEF ProcInv, TypeOK, scheduler_release, table, locals, Forks,
      StackOfProcess, Families, PidsGivenOut, PidsDistinct, NoZombieWhileWaiting,
      SleepsForTicks, NoMissedTick
<1> QED
  BY <1>1, <1>2, <1>3 DEF ProcInv

\* A tick counted by the handler keeps the sleepers' times in range.
LEMMA TickType == ASSUME TypeOK, tick PROVE left' \in [Slots -> 0 .. SleepTicks]
<1>1. \A n \in 0 .. SleepTicks : (IF n = 0 THEN 0 ELSE n - 1) \in 0 .. SleepTicks
  BY ProcAssumption
<1>2. \A p \in Slots : left[p] \in 0 .. SleepTicks
  BY DEF TypeOK
<1> QED
  BY <1>1, <1>2 DEF tick

\* The timer interrupts the idle loop of CPU 1, which takes tickslock and counts.
LEMMA Step_timer_idle ==
  ASSUME ProcInv, NEW c \in CPUs, timer_idle(c)
  PROVE  ProcInv'
<1>1. TypeOK'
  BY TickType, Numbers DEF ProcInv, TypeOK, timer_idle, table
<1>2. Threads' /\ InScheduler' /\ RunningOnOneCpu' /\ LockHolders'
  BY Numbers, SMTT(30) DEF ProcInv, TypeOK, timer_idle, table, Threads, InScheduler,
      RunningOnOneCpu, LockHolders, HasPtable, HasTicks
<1>3. Forks' /\ StackOfProcess' /\ Families' /\ PidsGivenOut' /\ PidsDistinct' /\
      NoZombieWhileWaiting' /\ SleepsForTicks' /\ NoMissedTick'
  BY TicksFree, Numbers DEF ProcInv, TypeOK, timer_idle, table, Forks,
      StackOfProcess, Families, PidsGivenOut, PidsDistinct, NoZombieWhileWaiting,
      SleepsForTicks, NoMissedTick
<1> QED
  BY <1>1, <1>2, <1>3 DEF ProcInv

\* wakeup1 makes only sleepers RUNNABLE, at the place where they resume.
LEMMA Wakeup ==
  ASSUME ProcInv, NEW ch
  PROVE  LET st == wakeup1(state, ch) IN
         /\ st \in [Slots -> States]
         /\ \A p \in Slots :
              /\ st[p] # state[p] => /\ state[p] = "SLEEPING" /\ st[p] = "RUNNABLE"
                                     /\ at[p] \in Resumed
              /\ st[p] = "SLEEPING" <=> state[p] = "SLEEPING" /\ chan[p] # ch
BY DEF ProcInv, TypeOK, States, wakeup1, Threads, Resumed

\* wakeup(&ticks) in the handler that interrupted the idle loop.
LEMMA Step_timer_idle_wakeup ==
  ASSUME ProcInv, NEW c \in CPUs, timer_idle_wakeup(c)
  PROVE  ProcInv'
<1>1. TypeOK'
  BY Wakeup, Numbers DEF ProcInv, TypeOK, timer_idle_wakeup, locals
<1>2. Threads' /\ InScheduler' /\ RunningOnOneCpu' /\ LockHolders'
  BY Numbers DEF ProcInv, TypeOK, timer_idle_wakeup, locals, wakeup1, Threads,
      InScheduler, RunningOnOneCpu, Resumed, LockHolders, HasPtable, HasTicks
<1>3. Forks' /\ StackOfProcess' /\ Families' /\ PidsGivenOut' /\ PidsDistinct' /\
      NoZombieWhileWaiting' /\ SleepsForTicks' /\ NoMissedTick'
  BY Numbers DEF ProcInv, TypeOK, timer_idle_wakeup, locals, wakeup1, Forks,
      StackOfProcess, Families, Alive, PidsGivenOut, PidsDistinct,
      NoZombieWhileWaiting, SleepsForTicks, NoMissedTick
<1> QED
  BY <1>1, <1>2, <1>3 DEF ProcInv

\* sys_sleep takes tickslock and reads ticks.
LEMMA Step_sys_sleep ==
  ASSUME ProcInv, NEW c \in CPUs, NEW p \in Slots, cur[c] = p,
         sys_sleep(c, p)
  PROVE  ProcInv'
<1>1. Executes(c, p)
  BY Executing
<1>2. TypeOK'
  <2>1. SleepTicks \in 0 .. SleepTicks
    BY ProcAssumption, Numbers, <1>1
    DEF Executes, ProcInv, TypeOK, sys_sleep, goto, table, cpus
  <2> QED
    BY <2>1, Numbers, <1>1 DEF Executes, ProcInv, TypeOK, sys_sleep, goto,
        table, cpus, Locs
<1>3. Threads' /\ InScheduler' /\ RunningOnOneCpu' /\ LockHolders'
  BY Numbers, <1>1, SMTT(30) DEF Executes, ProcInv, TypeOK, sys_sleep, goto, table, cpus,
      Threads, InScheduler, RunningOnOneCpu, Resumed, LockHolders, HasPtable,
      HasTicks
<1>4. Forks' /\ StackOfProcess' /\ Families' /\ PidsGivenOut' /\ PidsDistinct' /\
      NoZombieWhileWaiting' /\ SleepsForTicks' /\ NoMissedTick'
  BY Numbers, <1>1 DEF Executes, ProcInv, TypeOK, sys_sleep, goto, table, cpus,
      Forks, Forking, StackOfProcess, Families, Alive, PidsGivenOut, PidsDistinct,
      NoZombieWhileWaiting, SleepsForTicks, NoMissedTick, LockHolders, HasTicks
<1> QED
  BY <1>2, <1>3, <1>4 DEF ProcInv

\* The loop of sys_sleep ends, or goes on to sleep() with tickslock held.
LEMMA Step_sleep_test ==
  ASSUME ProcInv, NEW c \in CPUs, NEW p \in Slots, cur[c] = p, sleep_test(c, p)
  PROVE  ProcInv'
<1>1. Executes(c, p)
  BY Executing
<1>2. tickslock = c
  BY Numbers, <1>1 DEF Executes, ProcInv, TypeOK, sleep_test, LockHolders, HasTicks
<1>3. CASE /\ tickslock' = 0 /\ left' = [left EXCEPT ![p] = 0]
           /\ at[p] = "test" /\ at' = [at EXCEPT ![p] = "sysret"]
           /\ UNCHANGED <<state, pid, parent, chan, killed, kstack, nextpid, np,
                          cur, sch, next, ptlock, panicked>>
  <2>1. TypeOK'
    <3>1. 0 \in 0 .. SleepTicks
      BY ProcAssumption, Numbers, <1>1 DEF Executes, ProcInv, TypeOK
    <3> QED
      BY <1>3, <3>1, Numbers, <1>1 DEF Executes, ProcInv, TypeOK, Locs
  <2>2. Threads' /\ InScheduler' /\ RunningOnOneCpu' /\ LockHolders'
    BY <1>2, <1>3, Numbers, <1>1, SMTT(30) DEF Executes, ProcInv, TypeOK, Threads,
        InScheduler, RunningOnOneCpu, Resumed, LockHolders, HasPtable, HasTicks
  <2>3. Forks' /\ StackOfProcess' /\ Families' /\ PidsGivenOut' /\ PidsDistinct' /\
        NoZombieWhileWaiting' /\ SleepsForTicks' /\ NoMissedTick'
    BY <1>2, <1>3, Numbers, <1>1 DEF Executes, ProcInv, TypeOK, Forks, Forking,
        StackOfProcess, Families, Alive, PidsGivenOut, PidsDistinct,
        NoZombieWhileWaiting, SleepsForTicks, NoMissedTick, LockHolders, HasTicks
  <2> QED
    BY <2>1, <2>2, <2>3, Numbers, <1>1 DEF Executes, ProcInv, TypeOK
<1>4. CASE /\ left[p] # 0 /\ at[p] = "test" /\ at' = [at EXCEPT ![p] = "sleep"]
           /\ UNCHANGED <<state, pid, parent, chan, killed, kstack, nextpid, np, left,
                          cur, sch, next, ptlock, tickslock, panicked>>
  <2>1. TypeOK' /\ Threads' /\ InScheduler' /\ RunningOnOneCpu' /\ LockHolders'
    BY <1>2, <1>4, Numbers, <1>1, SMTT(30) DEF Executes, ProcInv, TypeOK, States, Locs,
        Threads, InScheduler, RunningOnOneCpu, Resumed, LockHolders, HasPtable,
        HasTicks
  <2>2. Forks' /\ StackOfProcess' /\ Families' /\ PidsGivenOut' /\ PidsDistinct' /\
        NoZombieWhileWaiting' /\ SleepsForTicks' /\ NoMissedTick'
    BY <1>2, <1>4, Numbers, <1>1 DEF Executes, ProcInv, TypeOK, Forks, Forking,
        StackOfProcess, Families, Alive, PidsGivenOut, PidsDistinct,
        NoZombieWhileWaiting, SleepsForTicks, NoMissedTick, LockHolders, HasTicks
  <2> QED
    BY <2>1, <2>2 DEF ProcInv
<1> QED
  BY <1>3, <1>4, Zenon DEF sleep_test, goto, table, cpus

\* sleep() gives up tickslock only once it has ptable.lock.
LEMMA Step_sleep ==
  ASSUME ProcInv, NEW c \in CPUs, NEW p \in Slots, cur[c] = p,
         sleep(c, p)
  PROVE  ProcInv'
<1>1. Executes(c, p)
  BY Executing
<1>2. TypeOK' /\ Threads' /\ InScheduler' /\ RunningOnOneCpu' /\ LockHolders'
  BY Numbers, <1>1, SMTT(30) DEF Executes, ProcInv, TypeOK, sleep, sched, goto, States,
      Locs, Threads, InScheduler, RunningOnOneCpu, Resumed, LockHolders, HasPtable,
      HasTicks
<1>3. Forks' /\ StackOfProcess' /\ Families' /\ PidsGivenOut' /\ PidsDistinct' /\
      NoZombieWhileWaiting' /\ SleepsForTicks' /\ NoMissedTick'
  BY Numbers, <1>1 DEF Executes, ProcInv, TypeOK, sleep, sched, goto, Forks,
      Forking, StackOfProcess, Families, Alive, PidsGivenOut, PidsDistinct,
      NoZombieWhileWaiting, SleepsForTicks, NoMissedTick, LockHolders, HasTicks
<1> QED
  BY <1>2, <1>3 DEF ProcInv

\* sleep() resumes and releases ptable.lock ...
LEMMA Step_sleep_woken ==
  ASSUME ProcInv, NEW c \in CPUs, NEW p \in Slots, cur[c] = p,
         sleep_woken(c, p)
  PROVE  ProcInv'
<1>1. Executes(c, p)
  BY Executing
<1>2. TypeOK' /\ Threads' /\ InScheduler' /\ RunningOnOneCpu' /\ LockHolders'
  BY Numbers, <1>1, SMTT(30) DEF Executes, ProcInv, TypeOK, sleep_woken, goto, cpus,
      States, Locs, Threads, InScheduler, RunningOnOneCpu, Resumed, LockHolders,
      HasPtable, HasTicks
<1>3. Forks' /\ StackOfProcess' /\ Families' /\ PidsGivenOut' /\ PidsDistinct' /\
      NoZombieWhileWaiting' /\ SleepsForTicks' /\ NoMissedTick'
  BY Numbers, <1>1 DEF Executes, ProcInv, TypeOK, sleep_woken, goto, cpus,
      Forks, Forking, StackOfProcess, Families, Alive, PidsGivenOut, PidsDistinct,
      NoZombieWhileWaiting, SleepsForTicks, NoMissedTick, LockHolders, HasTicks
<1> QED
  BY <1>2, <1>3 DEF ProcInv

\* ... and takes tickslock back.
LEMMA Step_sleep_relock ==
  ASSUME ProcInv, NEW c \in CPUs, NEW p \in Slots, cur[c] = p,
         sleep_relock(c, p)
  PROVE  ProcInv'
<1>1. Executes(c, p)
  BY Executing
<1>2. TypeOK' /\ Threads' /\ InScheduler' /\ RunningOnOneCpu' /\ LockHolders'
  BY Numbers, <1>1, SMTT(30) DEF Executes, ProcInv, TypeOK, sleep_relock, goto, table,
      cpus, States, Locs, Threads, InScheduler, RunningOnOneCpu, Resumed,
      LockHolders, HasPtable, HasTicks
<1>3. Forks' /\ StackOfProcess' /\ Families' /\ PidsGivenOut' /\ PidsDistinct' /\
      NoZombieWhileWaiting' /\ SleepsForTicks' /\ NoMissedTick'
  BY Numbers, <1>1 DEF Executes, ProcInv, TypeOK, sleep_relock, goto, table,
      cpus, Forks, Forking, StackOfProcess, Families, Alive, PidsGivenOut,
      PidsDistinct, NoZombieWhileWaiting, SleepsForTicks, NoMissedTick, LockHolders,
      HasTicks
<1> QED
  BY <1>2, <1>3 DEF ProcInv

\* The timer in user space: CPU 1 takes tickslock and counts, others go on.
LEMMA Step_timer_user ==
  ASSUME ProcInv, NEW c \in CPUs, NEW p \in Slots, cur[c] = p, timer_user(c, p)
  PROVE  ProcInv'
<1>1. CASE at' = [at EXCEPT ![p] = "trapret"] /\ UNCHANGED <<tickslock, left>>
  BY <1>1, Step_plain, Zenon DEF ProcInv, TypeOK, timer_user, table, locks, Plain
<1>2. CASE /\ tickslock = 0 /\ tickslock' = c /\ tick
           /\ at[p] = "user" /\ at' = [at EXCEPT ![p] = "tick"]
           /\ UNCHANGED <<state, pid, parent, chan, killed, kstack, nextpid, np,
                          cur, sch, next, ptlock, panicked>>
  <2>1. Executes(c, p)
    BY Executing
  <2>2. TypeOK' /\ Threads' /\ InScheduler' /\ RunningOnOneCpu' /\ LockHolders'
    BY <1>2, TickType, Numbers, <2>1, SMTT(30)
    DEF Executes, ProcInv, TypeOK, Locs, Threads, InScheduler, RunningOnOneCpu,
        Resumed, LockHolders, HasPtable, HasTicks
  <2>3. Forks' /\ StackOfProcess' /\ Families' /\ PidsGivenOut' /\ PidsDistinct' /\
        NoZombieWhileWaiting' /\ SleepsForTicks' /\ NoMissedTick'
    BY <1>2, TicksFree, Numbers, <2>1
    DEF Executes, ProcInv, TypeOK, Forks, Forking, StackOfProcess, Families,
        Alive, PidsGivenOut, PidsDistinct, NoZombieWhileWaiting, SleepsForTicks,
        NoMissedTick
  <2> QED
    BY <2>2, <2>3 DEF ProcInv
<1> QED
  BY <1>1, <1>2, Zenon DEF timer_user, goto, table, cpus

\* wakeup(&ticks) in the handler that interrupted user space.
LEMMA Step_timer_wakeup ==
  ASSUME ProcInv, NEW c \in CPUs, NEW p \in Slots, cur[c] = p,
         timer_wakeup(c, p)
  PROVE  ProcInv'
<1>1. Executes(c, p)
  BY Executing
<1>2. TypeOK' /\ Threads' /\ InScheduler' /\ RunningOnOneCpu' /\ LockHolders'
  BY Numbers, <1>1, SMTT(30) DEF Executes, ProcInv, TypeOK, timer_wakeup, wakeup1, goto,
      cpus, States, Locs, Threads, InScheduler, RunningOnOneCpu, Resumed,
      LockHolders, HasPtable, HasTicks
<1>3. Forks' /\ StackOfProcess' /\ Families' /\ PidsGivenOut' /\ PidsDistinct' /\
      NoZombieWhileWaiting' /\ SleepsForTicks' /\ NoMissedTick'
  BY Numbers, <1>1 DEF Executes, ProcInv, TypeOK, timer_wakeup, wakeup1, goto,
      cpus, Forks, Forking, StackOfProcess, Families, Alive, PidsGivenOut,
      PidsDistinct, NoZombieWhileWaiting, SleepsForTicks, NoMissedTick, LockHolders,
      HasTicks
<1> QED
  BY <1>2, <1>3 DEF ProcInv

\* After the handler a killed process exits; another one yields the CPU and
\* keeps ptable.lock for the scheduler.
LEMMA Step_trap_yield ==
  ASSUME ProcInv, NEW c \in CPUs, NEW p \in Slots, cur[c] = p, trap_yield(c, p)
  PROVE  ProcInv'
<1>1. CASE killed[p]
  BY <1>1, Step_plain DEF ProcInv, TypeOK, trap_yield, goto, cpus, locks, Plain
<1>2. CASE ~killed[p]
  <2>1. Executes(c, p)
    BY Executing
  <2>2. /\ at[p] = "trapret" /\ at' = [at EXCEPT ![p] = "yielded"]
        /\ state' = [state EXCEPT ![p] = "RUNNABLE"] /\ ptlock = 0 /\ ptlock' = c
        /\ cur' = [cur EXCEPT ![c] = 0] /\ sch' = [sch EXCEPT ![c] = "scan"]
        /\ UNCHANGED <<pid, parent, chan, killed, kstack, nextpid, np, left, next,
                       tickslock, panicked>>
    BY <1>2, Numbers, <2>1, SMTT(30) DEF Executes, ProcInv, TypeOK, trap_yield, sched, goto
  <2>3. TypeOK' /\ Threads' /\ InScheduler' /\ RunningOnOneCpu' /\ LockHolders'
    BY <2>2, Numbers, <2>1, SMTT(30) DEF Executes, ProcInv, TypeOK, States, Locs, Threads,
        InScheduler, RunningOnOneCpu, Resumed, LockHolders, HasPtable, HasTicks
  <2>4. Forks' /\ StackOfProcess' /\ Families' /\ PidsGivenOut' /\ PidsDistinct' /\
        NoZombieWhileWaiting' /\ SleepsForTicks' /\ NoMissedTick'
    BY <2>2, Numbers, <2>1 DEF Executes, ProcInv, TypeOK, Forks, Forking,
        StackOfProcess, Families, Alive, PidsGivenOut, PidsDistinct,
        NoZombieWhileWaiting, SleepsForTicks, NoMissedTick, LockHolders, HasTicks
  <2> QED
    BY <2>3, <2>4 DEF ProcInv
<1> QED
  BY <1>1, <1>2, Zenon

\* yield() returns and releases ptable.lock.
LEMMA Step_yielded ==
  ASSUME ProcInv, NEW c \in CPUs, NEW p \in Slots, cur[c] = p,
         yielded(c, p)
  PROVE  ProcInv'
<1>1. Executes(c, p)
  BY Executing
<1>2. TypeOK' /\ Threads' /\ InScheduler' /\ RunningOnOneCpu' /\ LockHolders'
  BY Numbers, <1>1, SMTT(30) DEF Executes, ProcInv, TypeOK, yielded, goto, table, cpus,
      States, Locs, Threads, InScheduler, RunningOnOneCpu, Resumed, LockHolders,
      HasPtable, HasTicks
<1>3. Forks' /\ StackOfProcess' /\ Families' /\ PidsGivenOut' /\ PidsDistinct' /\
      NoZombieWhileWaiting' /\ SleepsForTicks' /\ NoMissedTick'
  BY Numbers, <1>1 DEF Executes, ProcInv, TypeOK, yielded, goto, table, cpus,
      Forks, Forking, StackOfProcess, Families, Alive, PidsGivenOut, PidsDistinct,
      NoZombieWhileWaiting, SleepsForTicks, NoMissedTick, LockHolders, HasTicks
<1> QED
  BY <1>2, <1>3 DEF ProcInv
=============================================================================
