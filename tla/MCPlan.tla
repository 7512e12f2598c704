------------------------------- MODULE MCPlan -------------------------------
(***************************************************************************)
(* Model checking of Plan: descriptors of every kind over three keys.      *)
(***************************************************************************)
EXTENDS Plan

\* A and B are derived keys of two wallets, C is an extended key itself.
MCKey ==
    [A |-> PublicKey(<<[fp |-> 1, path |-> <<1>>]>>, 7, {<<5>>}),
     B |-> PublicKey(<<>>, 2, {<<3>>}),
     C |-> PublicKey(<<>>, 1, {<<>>})]
MCKeyOrder == <<"B", "A", "C">>

\* The wildcard key of A, the multipath key of B with two paths, C itself.
MCKeySets ==
    {{PublicKey(<<[fp |-> 1, path |-> <<>>]>>, 7, {<<1>>})},
     {PublicKey(<<>>, 2, {<<3>>, <<4>>})},
     {PublicKey(<<>>, 1, {<<>>})}}

\* Signers with limits, and a preimage that comes with a timelock.
MCCustom ==
    {[new_assets EXCEPT !.keys =
        {Source(1, <<1, 5>>, CanSign(FALSE, FALSE, Leaves("Any", {}), FALSE))}],
     [new_assets EXCEPT !.keys =
        {Source(2, <<>>, CanSign(TRUE, FALSE, Leaves("Single", {1}), FALSE))}],
     [new_assets EXCEPT !.preimages = {"H"}, !.relative = <<2>>]}

-----------------------------------------------------------------------------

Nodes(c, terms) == FoldLeft(LAMBDA nodes, t : Append(nodes, S(c)!Annotate(nodes, t)), <<>>, terms)
T(frag, subs) == S("Tap")!Terminal(frag, subs, 0, <<>>)
Leaf(frag, k, args) == S("Tap")!Terminal(frag, <<>>, k, args)

PkThen(key, second) == <<Leaf("PkK", 0, <<key>>), T("Check", <<1>>), T("Verify", <<2>>), second, T("AndV", <<3, 4>>)>>

\* or_d(pk(A),and_v(v:pk(B),older(5)))
OrOlder ==
    <<Leaf("PkK", 0, <<"A">>), T("Check", <<1>>), Leaf("PkK", 0, <<"B">>), T("Check", <<3>>),
      T("Verify", <<4>>), Leaf("Older", 5, <<>>), T("AndV", <<5, 6>>), T("OrD", <<2, 7>>)>>
\* andor(pk(A),sha256(H),and_v(v:pkh(B),after(7)))
AndOrAfter ==
    <<Leaf("PkK", 0, <<"A">>), T("Check", <<1>>), Leaf("Sha256", 0, <<"H">>), Leaf("PkH", 0, <<"B">>),
      T("Check", <<4>>), T("Verify", <<5>>), Leaf("After", 7, <<>>), T("AndV", <<6, 7>>),
      T("AndOr", <<2, 3, 8>>)>>
\* or_i(sha256(H),pk(B)): both ways are known to a third party that has H.
OrHash ==
    <<Leaf("Sha256", 0, <<"H">>), Leaf("PkK", 0, <<"B">>), T("Check", <<2>>), T("OrI", <<1, 3>>)>>

OfKey(kind, key) == [kind |-> kind, key |-> key, nodes |-> <<>>, leaves |-> <<>>, tree |-> <<>>]
OfScript(kind, terms) ==
    [kind |-> kind, key |-> "A", nodes |-> Nodes(Ctx_of(kind), terms), leaves |-> <<>>, tree |-> <<>>]
Multi(kind, k) == OfScript(kind, <<Leaf("Multi", k, <<"A", "C", "B">>)>>)
OfTree(key, leaves, depths) ==
    [kind |-> "Tr", key |-> key, nodes |-> <<>>,
     leaves |-> [i \in DOMAIN leaves |-> Nodes("Tap", leaves[i])],
     tree |-> [i \in DOMAIN depths |-> [depth |-> depths[i], ms |-> i]]]

\* and_v(v:pk(B),sha256(H)), and_v(v:pk(A),older(5)), multi_a(2,A,B)
TapScripts ==
    <<PkThen("B", Leaf("Sha256", 0, <<"H">>)), PkThen("A", Leaf("Older", 5, <<>>)),
      <<Leaf("MultiA", 2, <<"A", "B">>)>>>>

MCDescriptors ==
    {OfKey("Pkh", "A"), OfKey("Wpkh", "C"), OfKey("ShWpkh", "B"),
     OfScript("Bare", <<Leaf("PkK", 0, <<"A">>), T("Check", <<1>>)>>),
     OfScript("Sh", OrOlder), OfScript("Wsh", AndOrAfter), OfScript("ShWsh", OrHash),
     Multi("WshSortedMulti", 2), Multi("ShSortedMulti", 1), Multi("ShWshSortedMulti", 2),
     OfTree("C", <<>>, <<>>), OfTree("B", TapScripts, <<1, 2, 2>>), OfTree("C", TapScripts, <<2, 2, 1>>)}
=============================================================================
