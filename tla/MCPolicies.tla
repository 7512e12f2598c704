----------------------------- MODULE MCPolicies -----------------------------
(***************************************************************************)
(* Model checking of Policies.                                             *)
(***************************************************************************)
EXTENDS Policies

Terminal(p) == Text(WordOf[p.tag], p.k, p.name, 0, <<>>)
\* 4194305 is a relative time, 500000001 an absolute one.
MCTerminals ==
    {Terminal(p) : p \in {Key("A"), Key("B"), Older(2), Older(4194305),
                          After(3), After(500000001), Unsatisfiable, Trivial}}
MCProbs == {<<0, 0>>, <<2, 1>>}
MCAges == {1, 2}
MCHeights == {3, 500000000}
MCNames == <<"A", "B", "I">>
\* Two keys become one.
MCRenaming == [n \in {"A", "B"} |-> "B"]
=============================================================================
