------------------------------- MODULE Redeem -------------------------------
(***************************************************************************)
(* Checking a spend: an output whose script is an expression, or a key, is *)
(* spent with a transaction and a witness, and the interpreter reads it.   *)
(* What the interpreter says is compared with the execution of the encoded *)
(* script and with the policy that the expression lifts to.                *)
(***************************************************************************)
EXTENDS Construct, Script, Interpreter

CONSTANTS
    LockTimes,         \* the transaction's nLockTime
    Sequences,         \* the input's nSequence
    Templates          \* the transaction's template hash

rvars == <<cvars, ivars>>

\* The elements that witnesses are made of.
ArgsOf(frags) ==
    UNION {Range(ast[i].args) : i \in {j \in DOMAIN ast : ast[j].frag \in frags}}
Pool ==
    LET keys == ArgsOf({"PkK", "PkH", "RawPkH", "Multi", "MultiA"})
    IN  {PushZero, PushOne, HashDissatisfaction, <<"junk", "x">>}
            \cup {Sig(k) : k \in keys} \cup {Pubkey(k) : k \in keys}
            \cup {Preimage(h) : h \in ArgsOf(HashFrags)}

\* w with `es' in place of `cut' elements at i.
Splice(w, i, cut, es) == SubSeq(w, 1, i - 1) \o es \o SubSeq(w, i + cut, Len(w))

\* The witnesses that differ from w by one element.
Edits(w) ==
    {Splice(w, i, 1, <<>>) : i \in DOMAIN w}
        \cup {Splice(w, i, 1, <<e>>) : i \in DOMAIN w, e \in Pool}
        \cup {Splice(w, i, 0, <<e>>) : i \in 1..(Len(w) + 1), e \in Pool}

\* The witnesses that a script accepts and those that are nearly so.
Witnesses(scr, t) ==
    LET good == witnesses(scr, Pool, t) \cup {<<>>}
    IN  good \cup UNION {Edits(w) : w \in good}

RedeemInit == ConstructInit /\ InterpreterInit

Build == result = "idle" /\ ConstructNext /\ UNCHANGED ivars

Spend ==
    /\ result = "idle" /\ Built
    /\ \E lock_time \in LockTimes, sequence \in Sequences, template \in Templates :
        LET t == [lock_time |-> lock_time, sequence |-> sequence, template |-> template]
        IN  \E w \in Witnesses(encode(ast, roots[1]), t) :
                w \in Seq(Pool) /\ iter_custom(ast, "none", t, w)
    /\ UNCHANGED cvars

SpendKey ==
    /\ result = "idle" /\ ast = <<>>
    /\ \E key \in Keys, w \in {<<>>, <<PushZero>>, <<PushOne>>} \cup
                              {<<Sig(k)>> : k \in Keys} \cup {<<PushOne, Sig(k)>> : k \in Keys} :
            iter_custom(<<>>, key, NoTx, w)
    /\ UNCHANGED cvars

Interpret == iter_next /\ UNCHANGED cvars

RedeemNext == Build \/ Spend \/ SpendKey \/ Interpret

RedeemSpec == RedeemInit /\ [][RedeemNext]_rvars /\ WF_rvars(Interpret)

-----------------------------------------------------------------------------
(* Lifting to a policy (policy/mod.rs), evaluated over the set met of the  *)
(* constraints that hold: tuples of a name and what is constrained.        *)

Holds(met, names, x) == \E n \in names : <<n, x>> \in met

lift_node(t, sub, met) ==
    CASE t.frag \in {"PkK", "PkH"} -> Holds(met, {"PublicKey", "PublicKeyHash"}, t.args[1])
      [] t.frag = "After" -> Holds(met, {"AbsoluteTimelock"}, t.k)
      [] t.frag = "Older" -> Holds(met, {"RelativeTimelock"}, t.k)
      [] t.frag \in HashFrags -> Holds(met, {"HashLock"}, t.args[1])
      [] t.frag = "TxTemplate" -> Holds(met, {"TxTemplate"}, t.args[1])
      [] t.frag \in {"True", "False"} -> t.frag = "True"
      [] t.frag \in WrapFrags \cup InscribeFrags -> sub[1]
      [] t.frag \in {"AndV", "AndB"} -> sub[1] /\ sub[2]
      [] t.frag = "AndOr" -> (sub[1] /\ sub[2]) \/ sub[3]
      [] t.frag \in {"OrB", "OrC", "OrD", "OrI"} -> sub[1] \/ sub[2]
      [] t.frag = "Thresh" -> Cardinality({i \in DOMAIN sub : sub[i]}) >= t.k
      [] t.frag \in {"Multi", "MultiA"} ->
            Cardinality({i \in DOMAIN t.args : Holds(met, {"PublicKey"}, t.args[i])}) >= t.k

\* lift returns an error for an expression with a raw key hash; lift_check
\* finds nothing, as the runs do not mix heights with times.
Lifts(nodes) == \A i \in DOMAIN nodes : nodes[i].frag # "RawPkH"

lift(nodes, root, met) ==
    LET holds[i \in DOMAIN nodes] ==
            lift_node(nodes[i], [j \in DOMAIN nodes[i].subs |-> holds[nodes[i].subs[j]]], met)
    IN  holds[root]

-----------------------------------------------------------------------------

\* What the spent output demands.
script ==
    IF program = <<>> THEN <<PushKey(output_key), Op("CheckSig")>>
    ELSE encode(program, Len(program))

(* The interpreter accepts a witness exactly if the script does.  The       *)
(* transactions of the runs are not final: sequence is not 0xffffffff.      *)
InterpreterExact ==
    result \in {"ok", "err"} =>
        ((result = "ok") = accepts(script, witness, tx))

(* The constraints that the interpreter yields on its way to a success      *)
(* satisfy the policy that the expression lifts to, if it does.             *)
PolicyMet ==
    program # <<>> /\ result = "ok" /\ Lifts(program)
        => lift(program, Len(program), Range(yielded))

(* next() returns: the loop of iter_next ends.                              *)
Terminates == (result = "running") ~> (result # "running")
=============================================================================
