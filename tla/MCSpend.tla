------------------------------- MODULE MCSpend -------------------------------
(***************************************************************************)
(* Model checking of Spend.                                                *)
(***************************************************************************)
EXTENDS Spend

\* Leaves with their weights.
SegwitLeaves ==
    {<<"False", 0, <<>>, 1>>, <<"PkK", 0, <<"A">>, 1>>, <<"PkK", 0, <<"B">>, 1>>,
     <<"PkH", 0, <<"C">>, 1>>, <<"Sha256", 0, <<"H">>, 2>>, <<"Older", 1, <<>>, 2>>,
     <<"Older", 3, <<>>, 3>>, <<"After", 17, <<>>, 2>>, <<"True", 0, <<>>, 2>>,
     <<"TxTemplate", 0, <<"T">>, 2>>, <<"Multi", 1, <<"A", "B">>, 2>>,
     <<"RawPkH", 0, <<"D">>, 2>>}
\* Two values of each timelock, so that one satisfaction may need both.
TapLeaves ==
    {<<"False", 0, <<>>, 1>>, <<"PkK", 0, <<"A">>, 1>>, <<"PkH", 0, <<"B">>, 1>>,
     <<"Hash160", 0, <<"H">>, 1>>, <<"MultiA", 2, <<"A", "C", "D">>, 2>>,
     <<"Older", 1, <<>>, 1>>, <<"Older", 2, <<>>, 1>>,
     <<"After", 17, <<>>, 1>>, <<"After", 18, <<>>, 1>>}
NoLookup == {{}}
KeyLookups == {{"pk", "sigs"}}
=============================================================================
