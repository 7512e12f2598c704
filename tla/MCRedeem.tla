------------------------------ MODULE MCRedeem ------------------------------
(***************************************************************************)
(* Model checking of Redeem.                                               *)
(***************************************************************************)
EXTENDS Redeem

\* Leaves with their weights.
SegwitLeaves ==
    {<<"False", 0, <<>>, 1>>, <<"PkK", 0, <<"A">>, 1>>, <<"Sha256", 0, <<"H">>, 1>>,
     <<"True", 0, <<>>, 2>>, <<"PkH", 0, <<"B">>, 2>>, <<"Older", 2, <<>>, 2>>,
     <<"Older", 3, <<>>, 3>>, <<"RawPkH", 0, <<"C">>, 3>>, <<"After", 17, <<>>, 3>>,
     <<"TxTemplate", 0, <<"T">>, 2>>, <<"Multi", 2, <<"A", "B", "C">>, 2>>}
TapLeaves ==
    {<<"True", 0, <<>>, 1>>, <<"PkK", 0, <<"A">>, 1>>, <<"RawPkH", 0, <<"B">>, 1>>,
     <<"Older", 1, <<>>, 1>>, <<"Hash160", 0, <<"H">>, 1>>, <<"MultiA", 2, <<"A", "B", "C">>, 1>>}

MCSequences == {-2, 2}
=============================================================================
