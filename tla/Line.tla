-------------------------------- MODULE Line --------------------------------
(***************************************************************************)
(* What the console promises its readers: characters are typed into a      *)
(* line; backspace and kill-line take back what has not been delivered     *)
(* yet; newline, end of file and a full buffer deliver the line; readers   *)
(* take delivered characters in order.                                     *)
(***************************************************************************)
EXTENDS Naturals, Sequences

CONSTANTS Chars, Delivers, Capacity

VARIABLES ready, \* delivered and not yet read
          line   \* typed and not yet delivered

Type(c) ==
  LET new == Append(line, c)
      full == Len(ready) + Len(new) = Capacity
  IN  /\ Len(ready) + Len(line) < Capacity
      /\ IF c \in Delivers \/ full THEN ready' = ready \o new /\ line' = << >>
         ELSE line' = new /\ UNCHANGED ready

Backspace ==
  /\ line # << >>
  /\ line' = SubSeq(line, 1, Len(line) - 1)
  /\ UNCHANGED ready

KillLine == line' = << >> /\ UNCHANGED ready

Take == ready # << >> /\ ready' = Tail(ready) /\ UNCHANGED line

LineNext == (\E c \in Chars : Type(c)) \/ Backspace \/ KillLine \/ Take

LineSpec == ready = << >> /\ line = << >> /\ [][LineNext]_<<ready, line>>
=============================================================================
