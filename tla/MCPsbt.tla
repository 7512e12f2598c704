------------------------------- MODULE MCPsbt -------------------------------
(***************************************************************************)
(* Model checking of Psbt.                                                 *)
(***************************************************************************)
EXTENDS Psbt

Path(sigs, hashed, template, mall, size) ==
    [sigs |-> sigs, hashed |-> hashed, template |-> template, after |-> 0, older |-> 0,
     mall |-> mall, size |-> size]
Key(k) == Path({k}, {}, None, FALSE, 2)

Output(kind, key, script, leaves, field) ==
    [kind |-> kind, key |-> key, script |-> script, leaves |-> leaves, field |-> field]
Legacy(kind, key, script) == Output(kind, key, script, <<>>, "non_witness")
Segwit(kind, key, script) == Output(kind, key, script, <<>>, "witness")
Taproot(key, leaves) == Output("tr", key, "-", leaves, "witness")

\* Signatures that the owners of keys offer to an input.
Sig(i, k, leaf, flag, good) == <<i, [key |-> k, leaf |-> leaf, flag |-> flag, good |-> good]>>
Good(i, k, leaf) == Sig(i, k, leaf, "ALL", TRUE)
Bad(i, k, leaf) == Sig(i, k, leaf, "ALL", FALSE)

\* The scriptSigs of two inputs of which the second one spends shwpkh(B).
Nested == <<<<>>, <<<<"redeem", <<"wpkh", "B">>>>>>>>

\* Of the same, where the second one spends sh(either) with the key A.
Cheaper == <<<<>>, <<<<"sat", 1, {Good(2, "A", "ecdsa")[2]}>>,
                     <<"redeem", <<"ms", "either">>>>>>>>

MCPaths ==
    [a |-> <<Key("A")>>,
     b |-> <<Key("B")>>,
     \* or(template without scriptSigs, pk(A))
     plain |-> <<Path({}, {}, Some(get_ctv_hash(<<<<>>, <<>>>>, 1)), FALSE, 1), Key("A")>>,
     \* or(template with the scriptSig of shwpkh(B), pk(A))
     nested |-> <<Path({}, {}, Some(get_ctv_hash(Nested, 1)), FALSE, 1), Key("A")>>,
     \* a template with the scriptSig of the cheaper path of or(pk(A), pk(B)), in P2SH
     picky |-> <<Path({}, {}, Some(get_ctv_hash(Cheaper, 1)), FALSE, 1)>>,
     either |-> <<Key("A"), Key("B")>>,
     \* or(pkh(A), and(after(5), pk(B))), whose second path reveals the key A
     hashed |-> <<Path({"A"}, {"A"}, None, FALSE, 2),
                  [Path({"B"}, {"A"}, None, FALSE, 3) EXCEPT !.after = 5]>>,
     \* or(older(2), pk(A)) with a malleable path
     old |-> <<[Path({}, {}, None, TRUE, 1) EXCEPT !.older = 2], Key("A")>>]

Tx(lock_time, version, sequence, spent, sigs, sighashes, copies, scripts) ==
    [lock_time |-> lock_time, version |-> version, sequence |-> sequence, spent |-> spent,
     sigs |-> sigs, sighashes |-> sighashes, copies |-> copies, scripts |-> scripts]

MCTxs ==
    {Tx(0, 2, <<0, 0>>, <<Segwit("wsh", "-", "plain"), Legacy("sh", "-", "b")>>,
        {Good(1, "A", "ecdsa"), Good(2, "B", "ecdsa"), Bad(2, "B", "ecdsa")}, {}, {1, 2},
        {<<2, None, Some("b"), {}>>}),
     Tx(0, 2, <<0, 0>>, <<Segwit("wsh", "-", "nested"), Segwit("shwpkh", "B", "-")>>,
        {Good(1, "A", "ecdsa"), Good(2, "B", "ecdsa"), Sig(2, "B", "ecdsa", "NONE", TRUE)},
        {<<2, "ALL">>, <<2, "NONE">>}, {1, 2}, {}),
     Tx(0, 2, <<0, 0>>, <<Segwit("wsh", "-", "picky"), Legacy("sh", "-", "either")>>,
        {Good(2, "A", "ecdsa"), Good(2, "B", "ecdsa")}, {}, {}, {}),
     Tx(5, 2, <<0, -1>>, <<Segwit("shwsh", "-", "hashed"), Legacy("pkh", "B", "-")>>,
        {Good(1, "A", "ecdsa"), Good(1, "B", "ecdsa"), Good(2, "B", "ecdsa")}, {}, {1},
        {<<1, Some(<<"wsh", "hashed">>), Some("hashed"), {}>>}),
     Tx(0, 2, <<2, -1>>, <<Taproot("A", <<"old", "b">>), Legacy("bare", "-", "b")>>,
        {Bad(1, "A", "key"), Good(1, "B", "b"), Good(2, "B", "ecdsa")}, {}, {1}, {}),
     Tx(5, 1, <<-1, 0>>, <<Taproot("C", <<"hashed", "a">>), Segwit("wpkh", "B", "-")>>,
        {Good(1, "A", "hashed"), Good(1, "B", "hashed"), Good(1, "A", "a"), Good(2, "B", "ecdsa")},
        {}, {}, {<<1, None, None, {"hashed"}>>}),
     Tx(0, 1, <<0, 2>>, <<Legacy("pk", "A", "-"), Segwit("wsh", "-", "old")>>,
        {Good(1, "A", "ecdsa"), Bad(1, "A", "ecdsa"), Good(2, "A", "ecdsa")}, {}, {2},
        {<<2, Some(<<"ms", "a">>), Some("old"), {}>>})}
=============================================================================
