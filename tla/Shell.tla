------------------------------- MODULE Shell -------------------------------
(***************************************************************************)
(* The shell: main reads a line and forks a process that parses it; runcmd *)
(* forks the rest of the tree, and plumbs it with the system calls on      *)
(* descriptors.  A step is a system call, or a run of calls that touch     *)
(* only the caller's descriptors: the timer preempts user code between     *)
(* calls, and the kernel not at all.                                       *)
(*                                                                         *)
(* The programs are external: one with a pipe as its input reads it to the *)
(* end, one with a pipe as its output needs a reader or a closed read end  *)
(* to get rid of what it writes, and any may stop early or fail to start.  *)
(* What goes through a pipe is module Pipe's, the process table Proc's.    *)
(***************************************************************************)
EXTENDS Parse

CONSTANTS NPROC, NOFILE, NFILE,
          Sessions  \* what is typed: sequences of lines

VARIABLES
  procs, \* the process table
  ref,   \* ftable: the open files and their reference counts
  lines, \* what is typed in this session
  trees, \* what parsecmd makes of each line, when its time comes
  read,  \* how many of the lines main has read
  failed \* a fork has failed

session == <<lines, trees>>
vars == <<procs, ref, session, read, failed>>

FD == 0 .. (NOFILE - 1)
Slots == 0 .. (NPROC - 1)
init == 0

\* A file is named by where it comes from: its kind, and the place in the
\* command line of the redirection or of the pipe it is an end of.
None == << >>
Console == <<"console", << >>>>
File(at) == <<"file", at>>
End(e, at) == <<e, at>>       \* "r" or "w"

\* cmd: what the process executes, pc: how far it is; at: where in which
\* line cmd is; o: ofile; p: the descriptors pipe() returned.
Unused == [st |-> "unused", parent |-> init, pc |-> "", cmd |-> None,
           at |-> << >>, o |-> [fd \in FD |-> None], p |-> << >>]
Std == [fd \in FD |-> IF fd < 3 THEN Console ELSE None]

\* init has opened the console, twice over with dup.
Init ==
  /\ procs = [i \in Slots |->
       IF i = init THEN [Unused EXCEPT !.st = "run", !.pc = "start", !.o = Std]
       ELSE Unused]
  /\ ref = (Console :> 3)
  /\ lines \in Sessions
  /\ trees = [k \in DOMAIN lines |-> parsecmd(lines[k])]
  /\ read = 0 /\ failed = FALSE

Is(i, pc) == procs[i].st = "run" /\ procs[i].pc = pc
Runs(i, t) == Is(i, "run") /\ procs[i].cmd.t = t
Unoccupied == {x \in Slots : procs[x].st = "unused"}
Children(i) ==
  {c \in Slots \ {init} : procs[c].parent = i /\ procs[c].st # "unused"}

-----------------------------------------------------------------------------
\* Descriptors: o is a process's table, k = [o, ref].
Free(o) == {fd \in FD : o[fd] = None}
Lowest(fds) == CHOOSE fd \in fds : \A x \in fds : fd <= x

filealloc(rf, f) == f :> 1 @@ rf
Full(rf) == Cardinality(DOMAIN rf) >= NFILE

\* filedup for every descriptor in fds.
filedup(rf, o, fds) ==
  [f \in DOMAIN rf |-> rf[f] + Cardinality({fd \in fds : o[fd] = f})]

\* sys_close for every descriptor in fds that is open; pipeclose closes an
\* end of a pipe with its file.
sys_close(k, fds) ==
  LET held(f) == Cardinality({fd \in fds : k.o[fd] = f})
  IN  [o |-> [fd \in FD |-> IF fd \in fds THEN None ELSE k.o[fd]],
       ref |-> [f \in {f \in DOMAIN k.ref : k.ref[f] > held(f)} |->
                  k.ref[f] - held(f)]]

\* sys_dup of a descriptor that is open, with one that is free.
sys_dup(k, fd) ==
  [o |-> [k.o EXCEPT ![Lowest(Free(k.o))] = k.o[fd]],
   ref |-> filedup(k.ref, k.o, {fd})]

FilesOf(i) == [o |-> procs[i].o, ref |-> ref]

\* The process i goes on with the fields of new, and descriptors k.
Goto(i, pc) == [procs[i] EXCEPT !.pc = pc]
Sub(i, cmd, step) ==
  [procs[i] EXCEPT !.pc = "run", !.cmd = cmd, !.at = Append(@, step)]

Step(i, new, k) ==
  /\ procs' = [procs EXCEPT ![i] = [new EXCEPT !.o = k.o]]
  /\ ref' = k.ref /\ UNCHANGED <<session, read, failed>>

-----------------------------------------------------------------------------
\* Mutant: the descriptors stay open.
leave_open(i) ==
  /\ procs' = [x \in Slots |->
       CASE x = i -> [Unused EXCEPT !.st = "zombie",
                                    !.parent = procs[i].parent]
         [] x \in Children(i) -> [procs[x] EXCEPT !.parent = init]
         [] OTHER -> procs[x]]
  /\ UNCHANGED <<ref, session>>

\* exit: the descriptors are closed, the children go to init.
leave(i) ==
  /\ procs' = [x \in Slots |->
       CASE x = i -> [Unused EXCEPT !.st = "zombie",
                                    !.parent = procs[i].parent]
         [] x \in Children(i) -> [procs[x] EXCEPT !.parent = init]
         [] OTHER -> procs[x]]
  /\ ref' = sys_close(FilesOf(i), FD).ref
  /\ UNCHANGED session

exit(i) == leave(i) /\ UNCHANGED <<read, failed>>

\* fork1: the child of i goes on as child, i itself as parent; when the
\* table is full i panics.
fork1(i, child, parent) ==
  IF Unoccupied = {} THEN leave(i) /\ failed' = TRUE /\ UNCHANGED read
  ELSE /\ procs' = [procs EXCEPT ![i] = parent,
                      ![Lowest(Unoccupied)] = [child EXCEPT !.parent = i]]
       /\ ref' = filedup(ref, procs[i].o, FD)
       /\ UNCHANGED <<session, read, failed>>

\* wait: a zombie child is freed; without children it returns at once.
wait(i, new) ==
  /\ \/ \E c \in Children(i) :
          /\ procs[c].st = "zombie"
          /\ procs' = [procs EXCEPT ![c] = Unused, ![i] = new]
     \/ Children(i) = {} /\ procs' = [procs EXCEPT ![i] = new]
  /\ UNCHANGED <<ref, session, read, failed>>

-----------------------------------------------------------------------------
\* init starts a shell, reaps what is left to it until that shell has ended,
\* and starts the next.  A failed fork makes it exit, which panics.
init_start ==
  /\ Is(init, "start")
  /\ IF Unoccupied = {}
     THEN /\ procs' = [x \in Slots |-> [procs[x] EXCEPT !.st = "halted"]]
          /\ ref' = ref
     ELSE /\ procs' = [procs EXCEPT
               ![init].pc = "wait", ![init].p = <<Lowest(Unoccupied)>>,
               ![Lowest(Unoccupied)] = [Unused EXCEPT !.st = "run",
                                          !.pc = "main", !.o = procs[init].o]]
          /\ ref' = filedup(ref, procs[init].o, FD)
  /\ UNCHANGED <<session, read, failed>>

init_wait ==
  /\ Is(init, "wait")
  /\ \E c \in Children(init) :
       /\ procs[c].st = "zombie"
       /\ procs' = [procs EXCEPT ![c] = Unused,
                      ![init].pc = IF c = procs[init].p[1] THEN "start" ELSE @]
  /\ UNCHANGED <<ref, session, read, failed>>

\* main of the shell: "cd" changes the directory of the shell itself; the
\* end of the input, here after the last line and once, ends the shell.
main_read(i) ==
  /\ Is(i, "main") /\ read < Len(lines)
  /\ read' = read + 1
  /\ procs' = IF lines[read'] = <<"cd">> THEN procs
              ELSE [procs EXCEPT ![i].pc = "main_fork"]
  /\ UNCHANGED <<ref, session, failed>>

main_fork(i) ==
  /\ Is(i, "main_fork")
  /\ fork1(i, [Goto(i, "parse") EXCEPT !.at = <<read>>],
           Goto(i, "main_wait"))

main_wait(i) == Is(i, "main_wait") /\ wait(i, Goto(i, "main"))

main_eof(i) ==
  /\ Is(i, "main") /\ read = Len(lines)
  /\ read' = read + 1 /\ leave(i) /\ UNCHANGED failed

parse(i) ==
  /\ Is(i, "parse")
  /\ LET cmd == trees[procs[i].at[1]]
     IN  IF cmd.t = "panic" THEN exit(i)
         ELSE Step(i, [Goto(i, "run") EXCEPT !.cmd = cmd], FilesOf(i))

-----------------------------------------------------------------------------
\* runcmd.  EXEC: exec succeeds, or fails and the process exits.
run_exec(i) ==
  /\ Runs(i, "exec")
  /\ \/ procs[i].cmd.argc > 0 /\ Step(i, Goto(i, "program"), FilesOf(i))
     \/ exit(i)

\* REDIR: close the descriptor and open the file, which may fail.
run_redir(i) ==
  /\ Runs(i, "redir")
  /\ LET k == sys_close(FilesOf(i), {procs[i].cmd.fd}) IN
       \/ /\ ~Full(k.ref)
          /\ Step(i, Sub(i, procs[i].cmd.cmd, "c"),
                  [o |-> [k.o EXCEPT ![Lowest(Free(k.o))] = File(procs[i].at)],
                   ref |-> filealloc(k.ref, File(procs[i].at))])
       \/ exit(i)

\* LIST
run_list(i) ==
  /\ Runs(i, "list")
  /\ fork1(i, Sub(i, procs[i].cmd.left, "l"), Goto(i, "list_wait"))

list_wait(i) ==
  Is(i, "list_wait") /\ wait(i, Sub(i, procs[i].cmd.right, "r"))

\* BACK
run_back(i) ==
  /\ Runs(i, "back")
  /\ fork1(i, Sub(i, procs[i].cmd.cmd, "c"), Goto(i, "exit"))

\* PIPE: sys_pipe needs two files and two descriptors.
run_pipe(i) ==
  /\ Runs(i, "pipe")
  /\ LET at == procs[i].at
         fd0 == Lowest(Free(procs[i].o))
         fd1 == Lowest(Free(procs[i].o) \ {fd0})
     IN  IF \/ Cardinality(DOMAIN ref) + 2 > NFILE
            \/ Cardinality(Free(procs[i].o)) < 2
         THEN exit(i)
         ELSE Step(i, [Goto(i, "pipe_left") EXCEPT !.p = <<fd0, fd1>>],
                [o |-> [procs[i].o EXCEPT ![fd0] = End("r", at),
                                          ![fd1] = End("w", at)],
                 ref |-> filealloc(filealloc(ref, End("r", at)),
                                   End("w", at))])

pipe_left(i) ==
  Is(i, "pipe_left") /\ fork1(i, Goto(i, "left"), Goto(i, "pipe_right"))
pipe_right(i) ==
  Is(i, "pipe_right") /\ fork1(i, Goto(i, "right"), Goto(i, "pipe_close"))

\* Mutant: the left child goes on without closing p[0] and p[1].
plumb_left_open(i) ==
  /\ Is(i, "left")
  /\ Step(i, Sub(i, procs[i].cmd.left, "l"),
          sys_dup(sys_close(FilesOf(i), {1}), procs[i].p[2]))

\* The children: close(1); dup(p[1]); close(p[0]); close(p[1]), and the same
\* with 0 and p[0].
plumb(i, fd, end, cmd, step) ==
  Step(i, [Sub(i, cmd, step) EXCEPT !.p = << >>],
       sys_close(sys_dup(sys_close(FilesOf(i), {fd}), end), Range(procs[i].p)))

plumb_left(i) ==
  Is(i, "left") /\ plumb(i, 1, procs[i].p[2], procs[i].cmd.left, "l")
plumb_right(i) ==
  Is(i, "right") /\ plumb(i, 0, procs[i].p[1], procs[i].cmd.right, "r")

\* Mutant: the parent keeps the write end.
pipe_close_read(i) ==
  /\ Is(i, "pipe_close")
  /\ Step(i, [Goto(i, "wait2") EXCEPT !.p = << >>],
          sys_close(FilesOf(i), {procs[i].p[1]}))

pipe_close(i) ==
  /\ Is(i, "pipe_close")
  /\ Step(i, [Goto(i, "wait2") EXCEPT !.p = << >>],
          sys_close(FilesOf(i), Range(procs[i].p)))

\* Mutant: one wait for two children.
pipe_wait_once(i) == Is(i, "wait2") /\ wait(i, Goto(i, "exit"))

pipe_wait(i) ==
  \/ Is(i, "wait2") /\ wait(i, Goto(i, "wait1"))
  \/ Is(i, "wait1") /\ wait(i, Goto(i, "exit"))

run_exit(i) == Is(i, "exit") /\ exit(i)

-----------------------------------------------------------------------------
\* An exec'd program.  It is done when its input, if a pipe, is at its end,
\* and its output, if a pipe, is being read or cannot be.
IsEnd(f, e) == f # None /\ f[1] = e

done(i) ==
  /\ Is(i, "program")
  /\ LET in == procs[i].o[0]
         out == procs[i].o[1]
     IN  /\ IsEnd(in, "r") => End("w", in[2]) \notin DOMAIN ref
         /\ IsEnd(out, "w") =>
              \/ End("r", out[2]) \notin DOMAIN ref
              \/ \E x \in Slots : /\ Is(x, "program")
                                  /\ procs[x].o[0] = End("r", out[2])
  /\ exit(i)

\* Or it stops for reasons of its own.
quit(i) == Is(i, "program") /\ exit(i)

runcmd(i) ==
  \/ parse(i)
  \/ run_exec(i) \/ run_redir(i) \/ run_list(i) \/ list_wait(i) \/ run_back(i)
  \/ run_pipe(i) \/ pipe_left(i) \/ plumb_left(i)
  \/ pipe_right(i) \/ plumb_right(i) \/ pipe_close(i)
  \/ pipe_wait(i) \/ run_exit(i) \/ done(i)

main(i) == main_read(i) \/ main_fork(i) \/ main_wait(i) \/ main_eof(i)

Work == init_start \/ init_wait \/ \E i \in Slots : main(i) \/ runcmd(i)

Next == Work \/ \E i \in Slots : quit(i)

Spec == Init /\ [][Next]_vars

\* The scheduler runs some process that can run; nobody need stop early.
FairSpec == Spec /\ WF_vars(Work)

-----------------------------------------------------------------------------
(* The parser accepts exactly the lines of its grammar, and gives each its *)
(* one tree (sh.c:328-447): pipes bind closer than & and ;, redirections   *)
(* and arguments mix, and MAXARGS bounds the arguments.                    *)
ParseCorrect ==
  read = 0 => \A k \in DOMAIN lines : Parsed(lines[k], trees[k])

\* Where fd leads at the end of path, for a command cmd at the place at that
\* is given f: the innermost redirection or pipe decides.
RECURSIVE Leads(_, _, _, _, _)
Leads(cmd, path, at, fd, f) ==
  IF path = << >> THEN f
  ELSE Leads(CASE Head(path) = "l" -> cmd.left
               [] Head(path) = "r" -> cmd.right
               [] OTHER -> cmd.cmd,
             Tail(path), Append(at, Head(path)), fd,
             CASE cmd.t = "redir" /\ fd = cmd.fd -> File(at)
               [] cmd.t = "pipe" /\ fd = 1 /\ Head(path) = "l" -> End("w", at)
               [] cmd.t = "pipe" /\ fd = 0 /\ Head(path) = "r" -> End("r", at)
               [] OTHER -> f)

(* A program starts with the input and the output that the command line    *)
(* gives it, and with no other end of a pipe (sh.c:82-119): the shell's    *)
(* use of the lowest free descriptor works in every nesting.               *)
Wired ==
  \A i \in Slots : Is(i, "program") =>
    LET at == procs[i].at
        Std0(fd) == Leads(trees[at[1]], Tail(at), <<at[1]>>, fd,
                          Console)
    IN  procs[i].o = [fd \in FD |-> IF fd < 2 THEN Std0(fd) ELSE Std[fd]]

(* The reference count of a file is the number of its descriptors          *)
(* (file.c:42-71), on every failure path of the shell too.                 *)
FilesCounted ==
  /\ \A f \in DOMAIN ref :
       ref[f] = Cardinality({d \in Slots \X FD : procs[d[1]].o[d[2]] = f})
  /\ \A i \in Slots : Range(procs[i].o) \subseteq DOMAIN ref \cup {None}

\* The command at the end of path, in cmd.
RECURSIVE Node(_, _)
Node(cmd, path) ==
  IF path = << >> THEN cmd
  ELSE Node(CASE Head(path) = "l" -> cmd.left
              [] Head(path) = "r" -> cmd.right
              [] OTHER -> cmd.cmd, Tail(path))

(* In a list the right command starts when the left one is over, all its   *)
(* processes included (sh.c:94-97, 120-121), but for what it put into the  *)
(* background; a failed fork leaves its siblings behind.                   *)
ListOrder ==
  \A i, j \in Slots :
    (~failed /\ Is(i, "program") /\ procs[j].st = "run"
      /\ i # j /\ procs[j].at # << >> /\ procs[i].at[1] = procs[j].at[1]) =>
    LET x == procs[i].at
        y == procs[j].at
        tree == trees[x[1]]
        type(k) == Node(tree, SubSeq(x, 2, k)).t
    IN  \A k \in 1 .. (Len(x) - 1) :
          (/\ k < Len(y) /\ SubSeq(x, 1, k) = SubSeq(y, 1, k)
           /\ type(k) = "list" /\ x[k + 1] = "l" /\ y[k + 1] = "r")
          => \E b \in (k + 1) .. (Len(x) - 1) : type(b) = "back"

(* Every session ends with a new prompt, every process reaped and every    *)
(* file closed (unless init panicked): a reader sees the end of its pipe   *)
(* because nobody keeps the write end (sh.c:107-119), a writer is not      *)
(* stuck because nobody keeps the read end, and init reaps what the        *)
(* background leaves.                                                      *)
SessionEnds ==
  <>(\/ procs[init].st = "halted"
     \/ \E i \in Slots :
          /\ Is(i, "main") /\ read > Len(lines) /\ ref = (Console :> 6)
          /\ \A x \in Slots \ {init, i} : procs[x] = Unused)
=============================================================================
