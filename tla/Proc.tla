-------------------------------- MODULE Proc --------------------------------
(***************************************************************************)
(* The process table of proc.c, with the parts of trap.c and sysproc.c     *)
(* that drive it: allocation, fork, exit, wait, kill, sleep and wakeup,    *)
(* the scheduler and the clock tick.                                       *)
(*                                                                         *)
(* A step is what one CPU does between two points at which another CPU can *)
(* see a difference: a critical section of ptable.lock or tickslock, or an *)
(* access to the table made without the lock.  ptable.lock is held across  *)
(* swtch(), so the lock passes between a process and the scheduler of its  *)
(* CPU and the steps of that hand-over are separate.                       *)
(***************************************************************************)
EXTENDS Naturals, FiniteSetsExt

CONSTANTS NPROC,      \* slots of the process table
          NCPU,       \* CPUs
          MaxPid,     \* bound: fork is not called when nextpid exceeds it
          SleepTicks  \* bound: the argument n of sys_sleep

ASSUME ProcAssumption ==
  /\ NPROC \in Nat \ {0}
  /\ NCPU \in Nat \ {0}
  /\ MaxPid \in Nat \ {0}
  /\ SleepTicks \in Nat

VARIABLES
  state, pid, parent, chan, killed, kstack, \* the fields of struct proc
  nextpid,   \* the global of that name
  at,        \* where the kernel thread of a process is
  np,        \* the local of fork: the slot of the child
  left,      \* sys_sleep: n - (ticks - ticks0), 0 when that is negative
  cur,       \* cpu()->proc, 0 in the scheduler
  sch,       \* where the scheduler thread of a CPU is
  next,      \* the scheduler's loop variable
  ptlock,    \* holder of ptable.lock, 0 when it is free
  tickslock, \* holder of tickslock, 0 when it is free
  panicked   \* panic() was called

table == <<state, pid, parent, chan, killed, kstack, nextpid>>
locals == <<at, np, left>>
cpus == <<cur, sch, next>>
locks == <<ptlock, tickslock>>
vars == <<table, locals, cpus, locks, panicked>>

Slots == 1 .. NPROC
CPUs == 1 .. NCPU
initproc == 1        \* userinit takes the first slot
Ticks == NPROC + 1   \* the channel &ticks; wait sleeps on its own slot

States == {"UNUSED", "EMBRYO", "SLEEPING", "RUNNABLE", "RUNNING", "ZOMBIE"}
Alive == {"SLEEPING", "RUNNABLE", "RUNNING"}

\* Kernel locations of a process.  "woken", "waiting", "yielded" and "forkret"
\* are the places where swtch() resumes a process, with ptable.lock held.
Locs == {"none", "user", "sysret", "exit",
         "kstack", "copyuvm", "start", "forkret",
         "wait", "waiting", "test", "sleep", "woken", "relock",
         "tick", "trapret", "yielded"}
Resumed == {"forkret", "waiting", "woken", "yielded"}

TypeOK ==
  /\ state \in [Slots -> States]
  /\ pid \in [Slots -> Nat]
  /\ parent \in [Slots -> Slots \cup {0}]
  /\ chan \in [Slots -> 0 .. Ticks]
  /\ killed \in [Slots -> BOOLEAN]
  /\ kstack \in [Slots -> BOOLEAN]
  /\ nextpid \in Nat
  /\ at \in [Slots -> Locs]
  /\ np \in [Slots -> Slots \cup {0}]
  /\ left \in [Slots -> 0 .. SleepTicks]
  /\ cur \in [CPUs -> Slots \cup {0}]
  /\ sch \in [CPUs -> {"idle", "scan", "tick", "run"}]
  /\ next \in [CPUs -> 1 .. (NPROC + 1)]
  /\ ptlock \in CPUs \cup {0}
  /\ tickslock \in CPUs \cup {0}
  /\ panicked \in BOOLEAN

-----------------------------------------------------------------------------
\* After userinit: the first process is runnable, every CPU is in scheduler().
Init ==
  /\ state = [p \in Slots |-> IF p = initproc THEN "RUNNABLE" ELSE "UNUSED"]
  /\ pid = [p \in Slots |-> IF p = initproc THEN 1 ELSE 0]
  /\ parent = [p \in Slots |-> 0]
  /\ chan = [p \in Slots |-> 0]
  /\ killed = [p \in Slots |-> FALSE]
  /\ kstack = [p \in Slots |-> p = initproc]
  /\ nextpid = 2
  /\ at = [p \in Slots |-> IF p = initproc THEN "forkret" ELSE "none"]
  /\ np = [p \in Slots |-> 0]
  /\ left = [p \in Slots |-> 0]
  /\ cur = [c \in CPUs |-> 0]
  /\ sch = [c \in CPUs |-> "idle"]
  /\ next = [c \in CPUs |-> 1]
  /\ ptlock = 0
  /\ tickslock = 0
  /\ panicked = FALSE

-----------------------------------------------------------------------------
(***************************************************************************)
(* The scheduler thread of CPU c.                                          *)
(***************************************************************************)
\* Top of the loop: interrupts on, then acquire(&ptable.lock).
scheduler_acquire(c) ==
  /\ sch[c] = "idle"
  /\ ptlock = 0
  /\ ptlock' = c
  /\ sch' = [sch EXCEPT ![c] = "scan"]
  /\ next' = [next EXCEPT ![c] = 1]
  /\ UNCHANGED <<table, locals, cur, tickslock, panicked>>

\* Mutant: the loop starts again from the first slot after every switch.
Runnable_first(c) == {p \in Slots : state[p] = "RUNNABLE"}

Runnable(c) == {p \in Slots : p >= next[c] /\ state[p] = "RUNNABLE"}

\* Mutant: p->state = RUNNING is missing.
scheduler_switch_unmarked(c) ==
  /\ sch[c] = "scan"
  /\ Runnable(c) # {}
  /\ LET p == Min(Runnable(c)) IN
       /\ cur' = [cur EXCEPT ![c] = p]
       /\ next' = [next EXCEPT ![c] = p + 1]
  /\ sch' = [sch EXCEPT ![c] = "run"]
  /\ UNCHANGED <<table, locals, locks, panicked>>

\* The for loop goes on to the next RUNNABLE slot and switches to it, keeping
\* ptable.lock for the process to release.
scheduler_switch(c) ==
  /\ sch[c] = "scan"
  /\ Runnable(c) # {}
  /\ LET p == Min(Runnable(c)) IN
       /\ state' = [state EXCEPT ![p] = "RUNNING"]
       /\ cur' = [cur EXCEPT ![c] = p]
       /\ next' = [next EXCEPT ![c] = p + 1]
  /\ sch' = [sch EXCEPT ![c] = "run"]
  /\ UNCHANGED <<pid, parent, chan, killed, kstack, nextpid, locals, locks, panicked>>

scheduler_release(c) ==
  /\ sch[c] = "scan"
  /\ Runnable(c) = {}
  /\ ptlock' = 0
  /\ sch' = [sch EXCEPT ![c] = "idle"]
  /\ UNCHANGED <<table, locals, cur, next, tickslock, panicked>>

\* sched(): ptable.lock is held by this CPU, the scheduler goes on scanning.
sched(c) ==
  /\ cur' = [cur EXCEPT ![c] = 0]
  /\ sch' = [sch EXCEPT ![c] = "scan"]
  /\ ptlock' = c
  /\ UNCHANGED next

\* Mutant: the loop wakes nobody.
wakeup1_nobody(st, ch) == st

\* wakeup1(ch) applied to a table of states.
wakeup1(st, ch) ==
  [p \in Slots |-> IF st[p] = "SLEEPING" /\ chan[p] = ch
                   THEN "RUNNABLE" ELSE st[p]]

\* The slots whose parent field is p.
Kids(p) == {q \in Slots : parent[q] = p}

\* Mutant: a zombie's slot counts as free.
FreeSlots_zombie == {q \in Slots : state[q] \in {"UNUSED", "ZOMBIE"}}

\* allocproc takes the first of these.
FreeSlots == {q \in Slots : state[q] = "UNUSED"}

goto(p, l) == at' = [at EXCEPT ![p] = l]

-----------------------------------------------------------------------------
(***************************************************************************)
(* System calls of process p, running on CPU c.                            *)
(***************************************************************************)
\* trap() at a system call: a killed process exits before it is served.
trap_syscall(c, p) ==
  /\ at[p] = "user"
  /\ \/ killed[p] /\ goto(p, "exit")
     \/ ~killed[p] /\ at' \in {[at EXCEPT ![p] = l] : l \in {"exit", "wait"}}
  /\ UNCHANGED <<table, np, left, cpus, locks, panicked>>

\* ... and after it.
trap_sysret(c, p) ==
  /\ at[p] = "sysret"
  /\ goto(p, IF killed[p] THEN "exit" ELSE "user")
  /\ UNCHANGED <<table, np, left, cpus, locks, panicked>>

\* nextpid++
NextPid == nextpid + 1

\* fork: allocproc's critical section.
fork_allocproc(c, p) ==
  /\ at[p] = "user" /\ ~killed[p]
  /\ nextpid <= MaxPid
  /\ ptlock = 0
  /\ \/ /\ FreeSlots = {}
        /\ goto(p, "sysret")
        /\ UNCHANGED <<state, pid, nextpid, np>>
     \/ /\ FreeSlots # {}
        /\ LET q == Min(FreeSlots) IN
             /\ state' = [state EXCEPT ![q] = "EMBRYO"]
             /\ pid' = [pid EXCEPT ![q] = nextpid]
             /\ np' = [np EXCEPT ![p] = q]
        /\ nextpid' = NextPid
        /\ goto(p, "kstack")
  /\ UNCHANGED <<parent, chan, killed, kstack, left, cpus, locks, panicked>>

\* kalloc of the kernel stack, which may fail; the slot is given back as it
\* is, without the lock.
fork_kstack(c, p) ==
  /\ at[p] = "kstack"
  /\ \/ /\ kstack' = [kstack EXCEPT ![np[p]] = TRUE]
        /\ goto(p, "copyuvm")
        /\ UNCHANGED <<state, np>>
     \/ /\ state' = [state EXCEPT ![np[p]] = "UNUSED"]
        /\ np' = [np EXCEPT ![p] = 0]
        /\ goto(p, "sysret")
        /\ UNCHANGED kstack
  /\ UNCHANGED <<pid, parent, chan, killed, nextpid, left, cpus, locks, panicked>>

\* Mutant: the failure path forgets kfree(np->kstack).
fork_copyuvm_leak(c, p) ==
  /\ at[p] = "copyuvm"
  /\ \/ /\ parent' = [parent EXCEPT ![np[p]] = p]
        /\ goto(p, "start")
        /\ UNCHANGED <<state, np>>
     \/ /\ state' = [state EXCEPT ![np[p]] = "UNUSED"]
        /\ np' = [np EXCEPT ![p] = 0]
        /\ goto(p, "sysret")
        /\ UNCHANGED parent
  /\ UNCHANGED <<pid, chan, killed, kstack, nextpid, left, cpus, locks, panicked>>

\* copyuvm, which may fail; then the copy of the parent's fields.
fork_copyuvm(c, p) ==
  /\ at[p] = "copyuvm"
  /\ \/ /\ parent' = [parent EXCEPT ![np[p]] = p]
        /\ goto(p, "start")
        /\ UNCHANGED <<state, kstack, np>>
     \/ /\ kstack' = [kstack EXCEPT ![np[p]] = FALSE]
        /\ state' = [state EXCEPT ![np[p]] = "UNUSED"]
        /\ np' = [np EXCEPT ![p] = 0]
        /\ goto(p, "sysret")
        /\ UNCHANGED parent
  /\ UNCHANGED <<pid, chan, killed, nextpid, left, cpus, locks, panicked>>

\* The child's context starts at forkret; it becomes runnable without the lock.
fork_start(c, p) ==
  /\ at[p] = "start"
  /\ state' = [state EXCEPT ![np[p]] = "RUNNABLE"]
  /\ at' = [at EXCEPT ![p] = "sysret", ![np[p]] = "forkret"]
  /\ np' = [np EXCEPT ![p] = 0]
  /\ UNCHANGED <<pid, parent, chan, killed, kstack, nextpid, left, cpus, locks,
                 panicked>>

\* The child's first step: forkret releases ptable.lock.
forkret(c, p) ==
  /\ at[p] = "forkret"
  /\ ptlock' = 0
  /\ goto(p, "user")
  /\ UNCHANGED <<table, np, left, cpus, tickslock, panicked>>

exit_init(c, p) ==
  /\ at[p] = "exit"
  /\ p = initproc
  /\ panicked' = TRUE
  /\ UNCHANGED <<table, locals, cpus, locks>>

\* exit, its files closed: wake the parent, pass the children to init (and
\* wake it when one of them is a zombie), become a zombie, enter sched().
exit(c, p) ==
  /\ at[p] = "exit"
  /\ p # initproc
  /\ ptlock = 0
  /\ LET woken == wakeup1(state, parent[p])
         init == IF \E q \in Kids(p) : state[q] = "ZOMBIE"
                 THEN wakeup1(woken, initproc) ELSE woken
     IN  /\ state' = [init EXCEPT ![p] = "ZOMBIE"]
         /\ parent' = [q \in Slots |-> IF q \in Kids(p) THEN initproc ELSE parent[q]]
  /\ sched(c)
  /\ goto(p, "none")
  /\ UNCHANGED <<pid, chan, killed, kstack, nextpid, np, left, tickslock, panicked>>

\* One round of wait()'s loop: reap the first zombie child, give up, or sleep
\* on the process itself with ptable.lock as the lock.  The first round takes
\* the lock, later ones have it from the scheduler.
wait(c, p) ==
  /\ \/ at[p] = "wait" /\ ptlock = 0
     \/ at[p] = "waiting"
  /\ LET zombies == {q \in Kids(p) : state[q] = "ZOMBIE"}
     IN  \/ /\ zombies # {}
            /\ LET q == Min(zombies) IN
                 /\ kstack' = [kstack EXCEPT ![q] = FALSE]
                 /\ state' = [state EXCEPT ![q] = "UNUSED"]
                 /\ pid' = [pid EXCEPT ![q] = 0]
                 /\ parent' = [parent EXCEPT ![q] = 0]
                 /\ killed' = [killed EXCEPT ![q] = FALSE]
            /\ chan' = [chan EXCEPT ![p] = 0]
            /\ ptlock' = 0
            /\ goto(p, "sysret")
            /\ UNCHANGED cpus
         \/ /\ zombies = {}
            /\ Kids(p) = {} \/ killed[p]
            /\ chan' = [chan EXCEPT ![p] = 0]
            /\ ptlock' = 0
            /\ goto(p, "sysret")
            /\ UNCHANGED <<state, pid, parent, killed, kstack, cpus>>
         \/ /\ zombies = {}
            /\ Kids(p) # {} /\ ~killed[p]
            /\ chan' = [chan EXCEPT ![p] = p]
            /\ state' = [state EXCEPT ![p] = "SLEEPING"]
            /\ goto(p, "waiting")
            /\ sched(c)
            /\ UNCHANGED <<pid, parent, killed, kstack>>
  /\ UNCHANGED <<nextpid, np, left, tickslock, panicked>>

\* Mutant: a sleeping process is not woken.
kill_nowake(c, p, n) ==
  /\ at[p] = "user" /\ ~killed[p]
  /\ ptlock = 0
  /\ LET found == {q \in Slots : pid[q] = n} IN
       \/ found = {} /\ UNCHANGED killed
       \/ found # {} /\ killed' = [killed EXCEPT ![Min(found)] = TRUE]
  /\ goto(p, "sysret")
  /\ UNCHANGED <<state, pid, parent, chan, kstack, nextpid, np, left, cpus, locks,
                 panicked>>

\* kill(n) marks the first slot with that pid, whatever its state.
kill(c, p, n) ==
  /\ at[p] = "user" /\ ~killed[p]
  /\ ptlock = 0
  /\ LET found == {q \in Slots : pid[q] = n} IN
       \/ found = {} /\ UNCHANGED <<killed, state>>
       \/ /\ found # {}
          /\ killed' = [killed EXCEPT ![Min(found)] = TRUE]
          /\ state' = [state EXCEPT ![Min(found)] =
                         IF @ = "SLEEPING" THEN "RUNNABLE" ELSE @]
  /\ goto(p, "sysret")
  /\ UNCHANGED <<pid, parent, chan, kstack, nextpid, np, left, cpus, locks, panicked>>

-----------------------------------------------------------------------------
(***************************************************************************)
(* sys_sleep: sleep(&ticks, &tickslock), the general form of sleep() with  *)
(* a lock other than ptable.lock.                                          *)
(***************************************************************************)
sys_sleep(c, p) ==
  /\ at[p] = "user" /\ ~killed[p]
  /\ tickslock = 0
  /\ tickslock' = c
  /\ left' = [left EXCEPT ![p] = SleepTicks]
  /\ goto(p, "test")
  /\ UNCHANGED <<table, np, cpus, ptlock, panicked>>

\* Mutant: tickslock is released before sleep() has ptable.lock.
sleep_test_unlocked(c, p) ==
  /\ at[p] = "test"
  /\ tickslock' = 0
  /\ \/ /\ left[p] = 0 \/ killed[p]
        /\ left' = [left EXCEPT ![p] = 0]
        /\ goto(p, "sysret")
     \/ /\ left[p] # 0 /\ ~killed[p]
        /\ goto(p, "sleep")
        /\ UNCHANGED left
  /\ UNCHANGED <<table, np, cpus, ptlock, panicked>>

\* The while condition and the test of killed, under tickslock.
sleep_test(c, p) ==
  /\ at[p] = "test"
  /\ \/ /\ left[p] = 0 \/ killed[p]
        /\ tickslock' = 0
        /\ left' = [left EXCEPT ![p] = 0]
        /\ goto(p, "sysret")
     \/ /\ left[p] # 0 /\ ~killed[p]
        /\ goto(p, "sleep")
        /\ UNCHANGED <<left, tickslock>>
  /\ UNCHANGED <<table, np, cpus, ptlock, panicked>>

\* Mutant: release(lk) is missing.
sleep_holding(c, p) ==
  /\ at[p] = "sleep"
  /\ ptlock = 0
  /\ chan' = [chan EXCEPT ![p] = Ticks]
  /\ state' = [state EXCEPT ![p] = "SLEEPING"]
  /\ goto(p, "woken")
  /\ sched(c)
  /\ UNCHANGED <<pid, parent, killed, kstack, nextpid, np, left, tickslock, panicked>>

\* sleep(): take ptable.lock before giving up lk, then sleep.
sleep(c, p) ==
  /\ at[p] = "sleep"
  /\ ptlock = 0
  /\ tickslock' = 0
  /\ chan' = [chan EXCEPT ![p] = Ticks]
  /\ state' = [state EXCEPT ![p] = "SLEEPING"]
  /\ goto(p, "woken")
  /\ sched(c)
  /\ UNCHANGED <<pid, parent, killed, kstack, nextpid, np, left, panicked>>

sleep_woken(c, p) ==
  /\ at[p] = "woken"
  /\ chan' = [chan EXCEPT ![p] = 0]
  /\ ptlock' = 0
  /\ goto(p, "relock")
  /\ UNCHANGED <<state, pid, parent, killed, kstack, nextpid, np, left, cpus,
                 tickslock, panicked>>

sleep_relock(c, p) ==
  /\ at[p] = "relock"
  /\ tickslock = 0
  /\ tickslock' = c
  /\ goto(p, "test")
  /\ UNCHANGED <<table, np, left, cpus, ptlock, panicked>>

-----------------------------------------------------------------------------
(***************************************************************************)
(* Traps from user space other than system calls, and the timer interrupt  *)
(* of an idle CPU.  Only CPU 1 (cpu()->id == 0) counts ticks.              *)
(***************************************************************************)
\* ticks++ as the sleepers see it.
tick == left' = [p \in Slots |-> IF left[p] = 0 THEN 0 ELSE left[p] - 1]

timer_user(c, p) ==
  /\ at[p] = "user"
  /\ \/ c = 1 /\ tickslock = 0 /\ tickslock' = c /\ tick /\ goto(p, "tick")
     \/ c # 1 /\ goto(p, "trapret") /\ UNCHANGED <<tickslock, left>>
  /\ UNCHANGED <<table, np, cpus, ptlock, panicked>>

\* wakeup(&ticks), release(&tickslock).
timer_wakeup(c, p) ==
  /\ at[p] = "tick"
  /\ ptlock = 0
  /\ state' = wakeup1(state, Ticks)
  /\ tickslock' = 0
  /\ goto(p, "trapret")
  /\ UNCHANGED <<pid, parent, chan, killed, kstack, nextpid, np, left, cpus, ptlock,
                 panicked>>

\* After a timer interrupt a killed process exits, any other one yields.
trap_yield(c, p) ==
  /\ at[p] = "trapret"
  /\ \/ /\ killed[p]
        /\ goto(p, "exit")
        /\ UNCHANGED <<state, cpus, ptlock>>
     \/ /\ ~killed[p]
        /\ ptlock = 0
        /\ state' = [state EXCEPT ![p] = "RUNNABLE"]
        /\ goto(p, "yielded")
        /\ sched(c)
  /\ UNCHANGED <<pid, parent, chan, killed, kstack, nextpid, np, left, tickslock,
                 panicked>>

\* yield() returns: release the lock, look at killed again.
yielded(c, p) ==
  /\ at[p] = "yielded"
  /\ ptlock' = 0
  /\ goto(p, IF killed[p] THEN "exit" ELSE "user")
  /\ UNCHANGED <<table, np, left, cpus, tickslock, panicked>>

\* A device interrupt only gives trap() an occasion to see killed.
trap_device(c, p) ==
  /\ at[p] = "user" /\ killed[p]
  /\ goto(p, "exit")
  /\ UNCHANGED <<table, np, left, cpus, locks, panicked>>

\* A fault in user space kills the process.
trap_fault(c, p) ==
  /\ at[p] = "user"
  /\ killed' = [killed EXCEPT ![p] = TRUE]
  /\ goto(p, "exit")
  /\ UNCHANGED <<state, pid, parent, chan, kstack, nextpid, np, left, cpus, locks,
                 panicked>>

timer_idle(c) ==
  /\ c = 1
  /\ sch[c] = "idle"
  /\ tickslock = 0
  /\ tickslock' = c
  /\ tick
  /\ sch' = [sch EXCEPT ![c] = "tick"]
  /\ UNCHANGED <<table, at, np, cur, next, ptlock, panicked>>

timer_idle_wakeup(c) ==
  /\ sch[c] = "tick"
  /\ ptlock = 0
  /\ state' = wakeup1(state, Ticks)
  /\ tickslock' = 0
  /\ sch' = [sch EXCEPT ![c] = "idle"]
  /\ UNCHANGED <<pid, parent, chan, killed, kstack, nextpid, locals, cur, next,
                 ptlock, panicked>>

-----------------------------------------------------------------------------
\* What a process may choose to do in user space.
UserStep(c, p) ==
  \/ trap_syscall(c, p) \/ fork_allocproc(c, p) \/ sys_sleep(c, p)
  \/ \E n \in 0 .. MaxPid : kill(c, p, n)
  \/ trap_device(c, p) \/ trap_fault(c, p)

\* What it does in the kernel until it is back in user space.
KernelStep(c, p) ==
  \/ trap_sysret(c, p) \/ forkret(c, p)
  \/ fork_kstack(c, p) \/ fork_copyuvm(c, p) \/ fork_start(c, p)
  \/ exit_init(c, p) \/ exit(c, p) \/ wait(c, p)
  \/ sleep_test(c, p) \/ sleep(c, p) \/ sleep_woken(c, p) \/ sleep_relock(c, p)
  \/ timer_wakeup(c, p) \/ trap_yield(c, p) \/ yielded(c, p)

SchedulerStep(c) ==
  \/ scheduler_acquire(c) \/ scheduler_switch(c) \/ scheduler_release(c)
  \/ timer_idle_wakeup(c)

User(c) == ~panicked /\ \E p \in Slots : cur[c] = p /\ UserStep(c, p)
Kernel(c) ==
  ~panicked /\ (SchedulerStep(c) \/ \E p \in Slots : cur[c] = p /\ KernelStep(c, p))
Timer(c) ==
  ~panicked /\ (timer_idle(c) \/ \E p \in Slots : cur[c] = p /\ timer_user(c, p))

\* panic() never returns.
panic == panicked /\ UNCHANGED vars

Next == panic \/ \E c \in CPUs : User(c) \/ Kernel(c) \/ Timer(c)

Spec == Init /\ [][Next]_vars

\* A CPU in the kernel goes on.  The timer never stops, and an interrupt that
\* is pending is taken when the CPU next allows it: in user space and at the
\* top of the scheduler's loop.  There the handler takes less than a clock
\* period, so that the loop goes on between two interrupts.
Fairness ==
  \A c \in CPUs : /\ WF_vars(Kernel(c))
                  /\ SF_vars(Timer(c))
                  /\ SF_vars(~panicked /\ scheduler_acquire(c))

FairSpec == Spec /\ Fairness

-----------------------------------------------------------------------------
(***************************************************************************)
(* Properties.                                                             *)
(***************************************************************************)
\* A process is RUNNING exactly while one CPU, and only one, executes it: the
\* hand-over of ptable.lock across swtch() keeps two schedulers from resuming
\* the same context.
RunningOnOneCpu ==
  /\ \A p \in Slots : state[p] = "RUNNING" <=> \E c \in CPUs : cur[c] = p
  /\ \A c, d \in CPUs : cur[c] # 0 /\ cur[c] = cur[d] => c = d

\* sched() is entered with ptable.lock and no other lock (proc.c:284 "Must hold
\* only ptable.lock"), and a process is resumed with that lock held, which is
\* what yield(), sleep() and forkret() release.
LockHandOver ==
  \A c \in CPUs :
    /\ sch[c] = "scan" => ptlock = c /\ tickslock # c
    /\ cur[c] # 0 /\ at[cur[c]] \in Resumed => ptlock = c /\ tickslock # c

\* No process runs on, or will resume on, a kernel stack that has been freed,
\* and a free slot holds no stack that would leak.
StackOfProcess ==
  \A p \in Slots :
    /\ state[p] \in Alive \cup {"ZOMBIE"} => kstack[p]
    /\ state[p] = "UNUSED" => ~kstack[p]

\* Every process but init has a live parent to reap it: exit() passes children
\* to init before it becomes a zombie, also those forked meanwhile.
ParentAlive ==
  \A p \in Slots \ {initproc} :
    state[p] \in Alive \cup {"ZOMBIE"} =>
      parent[p] # 0 /\ state[parent[p]] \in Alive

\* wait() does not sleep through the exit of a child: the scan for zombies and
\* the sleep are one critical section, and exit() wakes the right parent.
NoZombieWhileWaiting ==
  \A p, q \in Slots :
    state[p] = "SLEEPING" /\ chan[p] = p /\ parent[q] = p => state[q] # "ZOMBIE"

\* sleep(&ticks, &tickslock) does not sleep past its time: a sleeper whose
\* ticks have passed is about to be woken by the handler that counted them.
NoMissedTick ==
  \A p \in Slots :
    state[p] = "SLEEPING" /\ chan[p] = Ticks /\ left[p] = 0 =>
      \E c \in CPUs : /\ tickslock = c
                      /\ sch[c] = "tick" \/ (cur[c] # 0 /\ at[cur[c]] = "tick")

\* Two processes never have the same pid, so kill() and wait() mean one.
PidsDistinct ==
  \A p, q \in Slots :
    state[p] # "UNUSED" /\ state[q] # "UNUSED" /\ pid[p] = pid[q] => p = q

\* A zombie leaves the table only when its parent of that moment, in wait(),
\* frees it; nobody else reuses the slot.
ReapedByParent ==
  [][\A q \in Slots :
       state[q] = "ZOMBIE" /\ state'[q] # "ZOMBIE" =>
         /\ state'[q] = "UNUSED"
         /\ \E c \in CPUs : cur[c] = parent[q] /\ at[parent[q]] \in {"wait", "waiting"}
    ]_vars

\* The scheduler's round robin starves nobody.
EveryoneRuns ==
  \A p \in Slots : state[p] = "RUNNABLE" ~> (state[p] = "RUNNING" \/ panicked)

\* A killed process exits, wherever the kill found it (proc.c:393-395).
KilledExits ==
  \A p \in Slots :
    (killed[p] /\ state[p] \in Alive) ~> (state[p] \in {"ZOMBIE", "UNUSED"} \/ panicked)

\* wait() returns once a child has exited.
WaitReturns ==
  \A p \in Slots :
    (at[p] \in {"wait", "waiting"} /\ \E q \in Slots : parent[q] = p /\ state[q] = "ZOMBIE")
      ~> (at[p] \notin {"wait", "waiting"} \/ panicked)

\* sys_sleep returns after its n ticks, or earlier when the process is killed.
SleepReturns ==
  \A p \in Slots :
    at[p] \in {"test", "sleep", "woken", "relock"} ~> (at[p] = "sysret" \/ panicked)

\* The two system calls of proc.c and sysproc.c that block come back.
CallsReturn == WaitReturns /\ SleepReturns

\* kill() marks the process with the given pid and no other one (proc.c:393
\* "Kill the process with the given pid."): a process that is just being
\* created, whose pid nobody has yet, has not been killed.
BornNotKilled ==
  [][\A p \in Slots :
       state[p] = "UNUSED" /\ state'[p] = "EMBRYO" => ~killed'[p]]_vars
=============================================================================
