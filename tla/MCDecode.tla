------------------------------ MODULE MCDecode ------------------------------
(***************************************************************************)
(* Model checking of Decode.  A program builds any well-typed expression   *)
(* within the bounds; its script, or that script with one instruction      *)
(* dropped, doubled, exchanged with the next one or split into an opcode   *)
(* and its VERIFY, is decoded.  So is every short script over a small      *)
(* alphabet.                                                               *)
(***************************************************************************)
EXTENDS Construct, Decode

CONSTANTS
    MaxBroken,           \* bound: the longest script that is tampered with
    MaxShort             \* bound: the length of the scripts over Alphabet

mcvars == <<vars, cvars>>

MCLeaves ==
    {<<"True", 0, <<>>, 2>>, <<"False", 0, <<>>, 1>>, <<"PkK", 0, <<"A">>, 1>>,
     <<"PkH", 0, <<"A">>, 3>>, <<"Older", 1, <<>>, 3>>, <<"After", 17, <<>>, 3>>,
     <<"Sha256", 0, <<"H">>, 3>>, <<"Hash256", 0, <<"H">>, 3>>,
     <<"Ripemd160", 0, <<"H">>, 3>>, <<"Hash160", 0, <<"H">>, 3>>,
     <<"TxTemplate", 0, <<"T">>, 2>>,
     <<"Multi", 2, <<"A", "B">>, 3>>, <<"MultiA", 2, <<"A", "B", "C">>, 3>>}

Alphabet ==
    {Num(0), Num(1), PushKey("U"), Op("CheckSig"), Op("Verify"), Op("If"),
     Op("EndIf"), Op("NotIf"), Op("Add"), Op("Equal"), Op("EqualVerify"),
     Op("Swap"), <<"Inscription", "i">>, <<"Inscription", "bad">>, Op("Invalid")}

ShortScripts == UNION {[1..n -> Alphabet] : n \in 0..MaxShort}

Tampered(s) ==
    {SubSeq(s, 1, i - 1) \o SubSeq(s, i + 1, Len(s)) : i \in DOMAIN s}
    \cup {SubSeq(s, 1, i) \o SubSeq(s, i, Len(s)) : i \in DOMAIN s}
    \cup {SubSeq(s, 1, i - 1) \o <<Op(Merged[s[i][1]]), Op("Verify")>>
              \o SubSeq(s, i + 1, Len(s)) : i \in {j \in DOMAIN s : s[j][1] \in DOMAIN Merged}}
    \cup {[s EXCEPT ![i] = s[i + 1], ![i + 1] = s[i]] : i \in 1..(Len(s) - 1)}

MCInit == ConstructInit /\ Init

Build == status = "idle" /\ ConstructNext /\ UNCHANGED vars

DecodeEncoded == Built /\ decode(encode(ast, roots[1])) /\ UNCHANGED cvars

DecodeTampered ==
    /\ Built
    /\ Len(encode(ast, roots[1])) <= MaxBroken
    /\ \E s \in Tampered(encode(ast, roots[1])) : decode(s)
    /\ ast' = <<>> /\ roots' = <<>> /\ weight' = 0

DecodeShort ==
    /\ ast = <<>>
    /\ \E s \in Scripts : decode(s)
    /\ UNCHANGED cvars

Parse == Step /\ UNCHANGED cvars

MCNext == Build \/ DecodeEncoded \/ DecodeTampered \/ DecodeShort \/ Parse

MCSpec == MCInit /\ [][MCNext]_mcvars /\ WF_mcvars(Parse)

-----------------------------------------------------------------------------

(* decode reads every script that encode writes for a well-typed expression *)
(* of base type B (`The inverse function, from Script to an AST element').  *)
(* The script says it all: what decode reads back has the type of the       *)
(* expression that was encoded, though conjunctions are grouped anew and    *)
(* inscriptions move to the neighbouring fragment.  Nor does the grouping   *)
(* change ExtData::pk_cost, which the limits on scripts are checked with:   *)
(* it is the size of the script, for whatever is accepted.                  *)
Complete ==
    /\ Built => /\ status \notin {"err", "panic"}
                /\ status = "done" => nodes[Root].ty = ast[roots[1]].ty
    /\ status = "done" => nodes[Root].ext.pk_cost = script_len(encode(nodes, Root))

(* Decoding ends: no script makes the loop of decode run for ever.          *)
Terminates == status = "decoding" ~> status # "decoding"
=============================================================================
