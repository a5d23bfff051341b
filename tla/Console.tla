------------------------------ MODULE Console ------------------------------
(***************************************************************************)
(* Input of the console: consoleintr puts what the UART delivers into the  *)
(* line buffer, consoleread takes it out, both under input.lock.  Output,  *)
(* the echo included, is left out, and so is the keyboard: kbdgetc finds   *)
(* no data in this port.  A reader's loop takes one step per character.    *)
(*                                                                         *)
(* The port has one CPU and does not preempt the kernel: kill() and the    *)
(* interrupt do not come while a reader is inside its critical section.    *)
(***************************************************************************)
EXTENDS Naturals, Sequences, FiniteSetsExt

CONSTANTS Procs,
          Letters,      \* ordinary characters
          INPUT_BUF,
          UINT,         \* 2^32, where r, w and e wrap around
          Counts        \* the arguments n of read; for 0 it returns at once

ASSUME ConsoleAssumption ==
  /\ INPUT_BUF \in Nat \ {0}
  /\ UINT \in Nat /\ UINT > INPUT_BUF /\ UINT % INPUT_BUF = 0
  /\ Counts \subseteq Nat \ {0}

Stored == Letters \cup {"newline", "^D"}

VARIABLES
  buf, r, w, e, \* struct input
  lock,         \* the reader that holds input.lock, or {}
  pc,           \* "idle"; "loop": in the loop, with the lock; "sleep": asleep
                \* on &input.r; "woken": runnable, to take the lock again
  n, target,    \* its characters still to read, and all of them; 0 outside
  killed        \* proc()->killed

input == <<buf, r, w, e>>
vars == <<input, lock, pc, n, target, killed>>

\* The buffer holds zeros at boot, which nobody reads: any value will do.
Init ==
  /\ buf = [k \in 0 .. (INPUT_BUF - 1) |-> "newline"]
  /\ r = 0 /\ w = 0 /\ e = 0
  /\ lock = {} /\ killed = {}
  /\ pc = [p \in Procs |-> "idle"]
  /\ n = [p \in Procs |-> 0] /\ target = [p \in Procs |-> 0]

-----------------------------------------------------------------------------
next(k) == (k + 1) % UINT
prev(k) == (k + UINT - 1) % UINT
at(k) == buf[k % INPUT_BUF]

wakeup == pc' = [p \in Procs |-> IF pc[p] = "sleep" THEN "woken" ELSE pc[p]]

\* consoleintr for a character that is stored; "return" is '\r'.
type_char(c) ==
  LET ch == IF c = "return" THEN "newline" ELSE c IN
  /\ lock = {} /\ (e + UINT - r) % UINT < INPUT_BUF
  /\ buf' = [buf EXCEPT ![e % INPUT_BUF] = ch]
  /\ e' = next(e)
  /\ IF ch \in {"newline", "^D"} \/ e' = (r + INPUT_BUF) % UINT
     THEN w' = e' /\ wakeup
     ELSE UNCHANGED <<w, pc>>
  /\ UNCHANGED <<r, lock, n, target, killed>>

\* Mutant: only an empty buffer ends the editing.
backspace_delivered ==
  /\ lock = {} /\ e # r
  /\ e' = prev(e)
  /\ UNCHANGED <<buf, r, w, lock, pc, n, target, killed>>

\* consoleintr for ^H and DEL.
backspace ==
  /\ lock = {} /\ e # w
  /\ e' = prev(e)
  /\ UNCHANGED <<buf, r, w, lock, pc, n, target, killed>>

\* consoleintr for ^U: the loop goes back from e to w or to a newline,
\* whichever comes first.
Killed ==
  LET back(j) == (e + UINT - j) % UINT
      stops == {j \in 0 .. (e + UINT - w) % UINT :
                  back(j) = w \/ at(prev(back(j))) = "newline"}
  IN  back(Min(stops))

kill_line ==
  /\ lock = {}
  /\ e' = Killed
  /\ UNCHANGED <<buf, r, w, lock, pc, n, target, killed>>

-----------------------------------------------------------------------------
read_enter(p, k) ==
  /\ pc[p] = "idle" /\ p \notin killed
  /\ lock = {} /\ lock' = {p}
  /\ n' = [n EXCEPT ![p] = k] /\ target' = [target EXCEPT ![p] = k]
  /\ pc' = [pc EXCEPT ![p] = "loop"]
  /\ UNCHANGED <<input, killed>>

return(p) ==
  /\ pc' = [pc EXCEPT ![p] = "idle"] /\ lock' = {}
  /\ n' = [n EXCEPT ![p] = 0] /\ target' = [target EXCEPT ![p] = 0]

\* Nothing delivered: return -1, or sleep(&input.r, &input.lock).
read_wait(p) ==
  /\ pc[p] = "loop" /\ n[p] > 0 /\ r = w
  /\ IF p \in killed THEN return(p)
     ELSE /\ pc' = [pc EXCEPT ![p] = "sleep"] /\ lock' = {}
          /\ UNCHANGED <<n, target>>
  /\ UNCHANGED <<input, killed>>

read_resume(p) ==
  /\ pc[p] = "woken" /\ lock = {} /\ lock' = {p}
  /\ pc' = [pc EXCEPT ![p] = "loop"]
  /\ UNCHANGED <<input, n, target, killed>>

\* Mutant: ^D is taken even when characters were copied before it.
read_char_eof(p) ==
  /\ pc[p] = "loop" /\ n[p] > 0 /\ r # w
  /\ r' = next(r)
  /\ IF at(r) \in {"^D", "newline"} \/ n[p] = 1 THEN return(p)
     ELSE n' = [n EXCEPT ![p] = @ - 1] /\ UNCHANGED <<lock, pc, target>>
  /\ UNCHANGED <<buf, w, e, killed>>

\* One turn of the loop: ^D ends the read, and stays when something has been
\* copied already.
read_char(p) ==
  /\ pc[p] = "loop" /\ n[p] > 0 /\ r # w
  /\ r' = IF at(r) = "^D" /\ n[p] < target[p] THEN r ELSE next(r)
  /\ IF at(r) \in {"^D", "newline"} \/ n[p] = 1 THEN return(p)
     ELSE n' = [n EXCEPT ![p] = @ - 1] /\ UNCHANGED <<lock, pc, target>>
  /\ UNCHANGED <<buf, w, e, killed>>

\* Mutant: a sleeping reader is not woken.
kill_asleep(p) ==
  /\ lock = {} /\ p \notin killed
  /\ killed' = killed \cup {p}
  /\ UNCHANGED <<input, lock, pc, n, target>>

kill(p) ==
  /\ lock = {} /\ p \notin killed
  /\ killed' = killed \cup {p}
  /\ pc' = [pc EXCEPT ![p] = IF @ = "sleep" THEN "woken" ELSE @]
  /\ UNCHANGED <<input, lock, n, target>>

\* A killed process exits; its slot is used again.
exit(p) ==
  /\ pc[p] = "idle" /\ p \in killed /\ killed' = killed \ {p}
  /\ UNCHANGED <<input, lock, pc, n, target>>

-----------------------------------------------------------------------------
Inside(p) == read_wait(p) \/ read_char(p)

Next ==
  \/ \E c \in Stored \cup {"return"} : type_char(c)
  \/ backspace \/ kill_line
  \/ \E p \in Procs : \/ Inside(p) \/ read_resume(p) \/ kill(p) \/ exit(p)
                      \/ \E k \in Counts : read_enter(p, k)

Spec == Init /\ [][Next]_vars

\* A reader in its critical section goes on; round robin gives a woken one
\* the CPU, where it finds the lock free.
Fairness == \A p \in Procs : WF_vars(Inside(p)) /\ SF_vars(read_resume(p))
FairSpec == Spec /\ Fairness

-----------------------------------------------------------------------------
\* The characters with indices from k up to l.
Content(k, l) ==
  [j \in 1 .. ((l + UINT - k) % UINT) |-> at((k + j - 1) % UINT)]

Promise == INSTANCE Line WITH ready <- Content(r, w), line <- Content(w, e),
                              Chars <- Stored, Delivers <- {"newline", "^D"},
                              Capacity <- INPUT_BUF

(* The three indices implement a line discipline (console.c:206-225): what *)
(* was delivered is never edited, lost or overwritten, also when they wrap *)
(* around, the buffer is full, or a reader puts ^D back.                   *)
IsLine == Promise!LineSpec

(* ^D is consumed by a read that has copied nothing and returns 0          *)
(* (console.c:253-260), whoever gets to read it: no end of file is lost.   *)
EofDelivered ==
  [][r' # r /\ at(r) = "^D" =>
       \E p \in Procs : n[p] = target[p] /\ n[p] > 0 /\ pc'[p] = "idle"]_vars

(* A reader with a delivered line, and a killed reader, leaves consoleread *)
(* unless other readers take the line.                                     *)
ReadReturns ==
  \A p \in Procs : (pc[p] # "idle" /\ (p \in killed \/ r # w))
                     ~> (pc[p] = "idle" \/ (r = w /\ p \notin killed))
=============================================================================
