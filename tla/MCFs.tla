-------------------------------- MODULE MCFs --------------------------------
(***************************************************************************)
(* Fs with a root directory, two more inodes and the names a and b.  The   *)
(* first process works on the file /b, which it also links into /a; the    *)
(* second one makes, enters and removes the directory /a.                  *)
(***************************************************************************)
EXTENDS Fs

CONSTANTS p1, p2

TwoProcs == {p1, p2}

Abs(s) == [abs |-> TRUE, elems |-> s]
Rel(s) == [abs |-> FALSE, elems |-> s]
C(op, path) == [op |-> op, path |-> path, new |-> NoPath, n |-> 0]
F(op, n) == [op |-> op, path |-> NoPath, new |-> NoPath, n |-> n]

MCCalls ==
  p1 :> {C("create", Abs(<<"b">>)), C("openw", Abs(<<"b">>)),
         F("write", 3), F("write", 6), F("read", 8), F("close", 0),
         C("unlink", Abs(<<"b">>)),
         [C("link", Abs(<<"b">>)) EXCEPT !.new = Abs(<<"a", "b">>)]}
  @@
  p2 :> {C("mkdir", Abs(<<"a">>)), C("chdir", Abs(<<"a">>)),
         C("unlink", Abs(<<"a">>)), C("unlink", Abs(<<"a", ".">>)),
         C("mknod", Rel(<<"b">>)), C("exec", Rel(<<"..">>)), F("exit", 0)}
=============================================================================
