------------------------------ MODULE MCShell ------------------------------
(* Instances of Shell: every line of at most MaxLen tokens, the shorter     *)
(* ones with redirections and & as well, and longer sessions.               *)
EXTENDS Shell

CONSTANTS MaxLen

Tokens == {"a", "|", ";", "(", ")"}
Lines(toks, len) == UNION {[1 .. n -> toks] : n \in 0 .. len}
Longer ==
  { <<"a", "|", "a", "|", "a">>,
    <<"a", "|", "a", ";", "a">>,
    <<"a", "&", ";", "a", "|", "a">>,
    <<"(", "a", ";", "a", ")", "|", "a">>,
    <<"a", "|", "(", "a", ";", "a", ")">>,
    <<"(", "a", "|", "a", "&", ")", ";", "a">>,
    <<"a", "<", "a", ">", "a", "|", "a", "<", "a">>,
    <<"<", "a", "a", ">>", "a", "a", "|", "a">>,
    <<"a", "|", "a", "&", "&">>,
    <<"(", "a", "|", "a", "|", "a", ")", ">", "a">>,
    <<"(", "a", "|", "a", ")", ">", "a", "<", "a">> }
MCSessions ==
  {<<s>> : s \in Longer \cup Lines(Tokens, MaxLen)
                        \cup Lines(Tokens \cup {"<", ">", "&"}, MaxLen - 1)}
    \cup {<<<<"a", "|", "a", "&">>, <<"cd">>, <<"a", ";", "a">>>>}
=============================================================================
