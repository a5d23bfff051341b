------------------------------- MODULE Parse -------------------------------
(***************************************************************************)
(* The shell's parser.  gettoken and peek work on characters; here a line  *)
(* is the sequence of its tokens, "a" for a word, and a pointer into it is *)
(* the sequence of the tokens that are left.  A command is a record whose  *)
(* field t is the type of the struct; an execcmd keeps its number of       *)
(* arguments, a redircmd the descriptor it replaces.  A parser that calls  *)
(* panic() ends the process: the result is Bad.                            *)
(***************************************************************************)
EXTENDS Naturals, Sequences, FiniteSets, SequencesExt

CONSTANT MAXARGS

execcmd(argc) == [t |-> "exec", argc |-> argc]
redircmd(cmd, fd) == [t |-> "redir", cmd |-> cmd, fd |-> fd]
pipecmd(l, r) == [t |-> "pipe", left |-> l, right |-> r]
listcmd(l, r) == [t |-> "list", left |-> l, right |-> r]
backcmd(cmd) == [t |-> "back", cmd |-> cmd]

Redirs == {"<", ">", ">>"}
Bad == [cmd |-> [t |-> "panic"], rest |-> << >>]
At(cmd, rest) == [cmd |-> cmd, rest |-> rest]

gettoken(s) == Tail(s)
peek(s, toks) == s # << >> /\ Head(s) \in toks

\* Each redirection read wraps what was there: the last one is outermost.
Wrap(cmd, fds) == FoldLeft(redircmd, cmd, fds)

\* The descriptors of the redirections at the front of s, after fds.
RECURSIVE parseredirs(_, _)
parseredirs(fds, s) ==
  IF ~peek(s, Redirs) THEN [fds |-> fds, rest |-> s, ok |-> TRUE]
  ELSE IF ~peek(gettoken(s), {"a"})
       THEN [fds |-> fds, rest |-> s, ok |-> FALSE]
  ELSE parseredirs(Append(fds, IF Head(s) = "<" THEN 0 ELSE 1),
                   gettoken(gettoken(s)))

\* The loop of parseexec, with argc arguments read and redirections r.
RECURSIVE arguments(_, _)
arguments(argc, r) ==
  IF ~r.ok THEN Bad
  ELSE IF r.rest = << >> \/ peek(r.rest, {"|", ")", "&", ";"})
       THEN At(Wrap(execcmd(argc), r.fds), r.rest)
  ELSE IF ~peek(r.rest, {"a"}) \/ argc + 1 >= MAXARGS THEN Bad
  ELSE arguments(argc + 1, parseredirs(r.fds, gettoken(r.rest)))

RECURSIVE parseline(_)

\* parseblock after its parseline, and its redirections.
block(r) ==
  IF r.cmd.t = "panic" \/ ~peek(r.rest, {")"}) THEN Bad
  ELSE LET d == parseredirs(<< >>, gettoken(r.rest))
       IN  IF d.ok THEN At(Wrap(r.cmd, d.fds), d.rest) ELSE Bad

parseblock(s) == block(parseline(gettoken(s)))

parseexec(s) ==
  IF peek(s, {"("}) THEN parseblock(s) ELSE arguments(0, parseredirs(<< >>, s))

\* cmd made of l and what follows it, r, unless one of them has panicked.
join(l, r, cmd) ==
  IF "panic" \in {l.cmd.t, r.cmd.t} THEN Bad ELSE At(cmd, r.rest)

RECURSIVE parsepipe(_)
parsepipe(s) ==
  LET l == parseexec(s)
      r == parsepipe(gettoken(l.rest))
  IN  IF peek(l.rest, {"|"}) THEN join(l, r, pipecmd(l.cmd, r.cmd)) ELSE l

RECURSIVE background(_)
background(r) ==
  IF peek(r.rest, {"&"}) THEN background(At(backcmd(r.cmd), gettoken(r.rest)))
  ELSE r

\* Mutant: a list binds to the left pipeline only.
parseline_pipe(s) ==
  LET l == background(parsepipe(s))
      r == parsepipe(gettoken(l.rest))
  IN  IF peek(l.rest, {";"}) THEN join(l, r, listcmd(l.cmd, r.cmd)) ELSE l

parseline(s) ==
  LET l == background(parsepipe(s))
      r == parseline(gettoken(l.rest))
  IN  IF peek(l.rest, {";"}) THEN join(l, r, listcmd(l.cmd, r.cmd)) ELSE l

parsecmd(s) ==
  LET r == parseline(s) IN IF r.rest # << >> THEN Bad.cmd ELSE r.cmd

-----------------------------------------------------------------------------
\* The grammar, for reference: the set of all trees of a line, from where
\* its tokens can be split.
Before(s, k) == SubSeq(s, 1, k - 1)
After(s, k) == SubSeq(s, k + 1, Len(s))
Where(s, toks) == {k \in DOMAIN s : s[k] \in toks}

\* Words and redirections with their files, in any order.
FilePlaces(s) == {k \in Where(s, {"a"}) : k > 1 /\ s[k - 1] \in Redirs}
Items(s) ==
  /\ Where(s, Redirs \cup {"a"}) = DOMAIN s
  /\ \A k \in Where(s, Redirs) : k < Len(s) /\ s[k + 1] = "a"
Fds(s) ==
  LET rs == SelectSeq(s, LAMBDA x : x \in Redirs)
  IN  [k \in DOMAIN rs |-> IF rs[k] = "<" THEN 0 ELSE 1]

RECURSIVE LineTrees(_)

ExecTrees(s) ==
  LET args == Where(s, {"a"}) \ FilePlaces(s) IN
    {Wrap(execcmd(n), Fds(s)) :
       n \in {n \in {Cardinality(args)} : Items(s) /\ n < MAXARGS}}
    \cup
    UNION {{Wrap(c, Fds(After(s, k))) : c \in LineTrees(SubSeq(s, 2, k - 1))} :
             k \in {k \in Where(s, {")"}) :
                      /\ k > 1 /\ s[1] = "(" /\ Items(After(s, k))
                      /\ Where(After(s, k), {"a"}) = FilePlaces(After(s, k))}}

RECURSIVE PipeTrees(_)
PipeTrees(s) ==
  ExecTrees(s) \cup
  UNION {{pipecmd(l, r) :
            l \in ExecTrees(Before(s, k)), r \in PipeTrees(After(s, k))} :
           k \in Where(s, {"|"})}

RECURSIVE BackTrees(_)
BackTrees(s) ==
  PipeTrees(s) \cup
  (IF s # << >> /\ Last(s) = "&" THEN {backcmd(c) : c \in BackTrees(Front(s))}
   ELSE {})

LineTrees(s) ==
  BackTrees(s) \cup
  UNION {{listcmd(l, r) :
            l \in BackTrees(Before(s, k)), r \in LineTrees(After(s, k))} :
           k \in Where(s, {";"})}

\* parsecmd(s) is the one tree of s, or a panic when it has none.
Parsed(s, cmd) ==
  LineTrees(s) = IF cmd.t = "panic" THEN {} ELSE {cmd}
=============================================================================
