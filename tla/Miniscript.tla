------------------------------ MODULE Miniscript ------------------------------
(***************************************************************************)
(* Miniscript expressions, how they are built and how they are encoded.    *)
(*                                                                         *)
(* An expression is kept in an arena: a sequence of nodes in which the     *)
(* children of a node are the indices in its field subs, all smaller than  *)
(* its own index.  A node is a Terminal (decode.rs) with the annotations   *)
(* that Miniscript::from_ast (mod.rs) computes for it.  Recursion over an  *)
(* expression is a recursive function over the indices of the arena.       *)
(*                                                                         *)
(* A key, a hash or an inscription is an opaque name; the hash of a key or *)
(* of a preimage is named after it.                                        *)
(***************************************************************************)
EXTENDS MiniscriptTypes, ExtData

CONSTANTS
    Ctx,                  \* the script context
    Uncompressed,         \* the keys with an uncompressed encoding
    BadInscriptions,      \* the inscriptions that Inscription::validate refuses
    InscriptionSize,      \* bytes of an encoded inscription envelope
    MAX_RECURSION_DEPTH   \* 402 in lib.rs

ContextAssumption ==
    /\ Ctx \in {"Bare", "Legacy", "Segwitv0", "Tap"}
    /\ InscriptionSize \in Nat
    /\ MAX_RECURSION_DEPTH \in Nat

ASSUME ContextAssumed == ContextAssumption

\* A Terminal; k is a threshold or a locktime, args keys, hashes, inscriptions.
Terminal(frag, subs, k, args) ==
    [frag |-> frag, subs |-> subs, k |-> k, args |-> args]

-----------------------------------------------------------------------------
(* The checks of the script context (context.rs). *)

check_pk(key) == Ctx \in {"Segwitv0", "Tap"} => key \notin Uncompressed

\* limits.rs; Segwitv0 is checked against its standardness limit too.
MaxScriptSize ==
    CASE Ctx = "Legacy" -> 520
      [] Ctx = "Segwitv0" -> 3600
      [] Ctx = "Bare" -> 10000
      [] Ctx = "Tap" -> 4000000

check_global_validity(t, ext) ==
    /\ t.frag \in {"PkK", "Multi", "MultiA"} =>
            \A i \in DOMAIN t.args : check_pk(t.args[i])
    /\ t.frag = "Multi" => Ctx # "Tap"
    /\ t.frag = "MultiA" => Ctx = "Tap"
    /\ ext.pk_cost <= MaxScriptSize

-----------------------------------------------------------------------------
(* Annotating a terminal whose children are in the arena nodes. *)

InscriptionsValid(args) ==
    args # <<>> /\ \A i \in DOMAIN args : args[i] \notin BadInscriptions

ty_of(nodes, t) ==
    type_check(t.frag, t.k, [i \in DOMAIN t.subs |-> nodes[t.subs[i]].ty],
               InscriptionsValid(t.args))

ext_of(nodes, t) ==
    LET sub == [i \in DOMAIN t.subs |-> nodes[t.subs[i]].ext]
    IN  CASE t.frag \in LeafFrags ->
                leaf_ext(t.frag, t.k, t.args, Ctx = "Tap", Uncompressed)
          [] t.frag \in WrapFrags -> wrap_ext(t.frag, sub[1])
          [] t.frag \in InscribeFrags ->
                inscribing(sub[1], InscriptionSize * Len(t.args),
                           t.frag = "InscribePost")
          [] t.frag \in BinaryFrags -> binary_ext(t.frag, sub[1], sub[2])
          [] t.frag = "AndOr" -> and_or_ext(sub[1], sub[2], sub[3])
          [] t.frag = "Thresh" -> threshold_ext(t.k, sub)

Annotate(nodes, t) ==
    [frag |-> t.frag, subs |-> t.subs, k |-> t.k, args |-> t.args,
     ty |-> ty_of(nodes, t), ext |-> ext_of(nodes, t)]

\* Miniscript::from_ast returns Ok.
from_ast_ok(nodes, t) ==
    /\ ty_of(nodes, t) # Err
    /\ ext_of(nodes, t).tree_height <= MAX_RECURSION_DEPTH
    /\ check_global_validity(t, ext_of(nodes, t))

\* Threshold::new returns Ok (primitives/threshold.rs); max = 0 is no limit.
\* k and n have the type usize.
validate_k_n(k, n, max) == k \in Nat /\ k > 0 /\ k <= n /\ (max > 0 => n <= max)

-----------------------------------------------------------------------------
(* Terminal::encode (astelem.rs).  A script is a sequence of instructions, *)
(* each a tuple of its name and its operand if it has one; an inscription  *)
(* envelope is a single instruction.                                       *)

Op(name) == <<name>>
Num(n) == <<"Num", n>>

\* push_ms_key, push_key
PushKey(key) ==
    << CASE Ctx = "Tap" -> "Bytes32"
         [] Ctx # "Tap" /\ key \in Uncompressed -> "Bytes65"
         [] OTHER -> "Bytes33", key >>

\* script::Builder::push_verify of rust-bitcoin.
VerifyForm ==
    [Equal |-> "EqualVerify", NumEqual |-> "NumEqualVerify",
     CheckSig |-> "CheckSigVerify", CheckMultiSig |-> "CheckMultiSigVerify"]
push_verify(script) ==
    LET last == script[Len(script)][1]
    IN  IF last \in DOMAIN VerifyForm
        THEN [script EXCEPT ![Len(script)] = Op(VerifyForm[last])]
        ELSE Append(script, Op("Verify"))

hash_script(frag, h) ==
    << Op("Size"), Num(32), Op("EqualVerify"), Op(frag),
       << IF frag \in {"Sha256", "Hash256"} THEN "Bytes32" ELSE "Hash20", h >>,
       Op("Equal") >>

ConcatAll(seqs) ==
    LET cat[i \in 0..Len(seqs)] == IF i = 0 THEN <<>> ELSE cat[i-1] \o seqs[i]
    IN  cat[Len(seqs)]

encode_node(t, sub) ==
    LET f == t.frag
        keys == [i \in DOMAIN t.args |-> <<PushKey(t.args[i])>>]
        envelopes == [i \in DOMAIN t.args |-> <<"Inscription", t.args[i]>>]
    IN  CASE f = "True" -> <<Num(1)>>
          [] f = "False" -> <<Num(0)>>
          [] f = "PkK" -> <<PushKey(t.args[1])>>
          [] f \in {"PkH", "RawPkH"} ->
                <<Op("Dup"), Op("Hash160"), <<"Hash20", t.args[1]>>, Op("EqualVerify")>>
          [] f = "After" -> <<Num(t.k), Op("CheckLockTimeVerify")>>
          [] f = "Older" -> <<Num(t.k), Op("CheckSequenceVerify")>>
          [] f \in HashFrags -> hash_script(f, t.args[1])
          [] f = "TxTemplate" ->
                <<<<"Bytes32", t.args[1]>>, Op("CheckTemplateVerify"), Op("Drop")>>
          [] f = "InscribePre" -> envelopes \o sub[1]
          [] f = "InscribePost" -> sub[1] \o envelopes
          [] f = "Alt" -> <<Op("ToAltStack")>> \o sub[1] \o <<Op("FromAltStack")>>
          [] f = "Swap" -> <<Op("Swap")>> \o sub[1]
          [] f = "Check" -> Append(sub[1], Op("CheckSig"))
          [] f = "DupIf" -> <<Op("Dup"), Op("If")>> \o sub[1] \o <<Op("EndIf")>>
          [] f = "Verify" -> push_verify(sub[1])
          [] f = "NonZero" ->
                <<Op("Size"), Op("ZeroNotEqual"), Op("If")>> \o sub[1] \o <<Op("EndIf")>>
          [] f = "ZeroNotEqual" -> Append(sub[1], Op("ZeroNotEqual"))
          [] f = "AndV" -> sub[1] \o sub[2]
          [] f = "AndB" -> sub[1] \o sub[2] \o <<Op("BoolAnd")>>
          [] f = "AndOr" -> sub[1] \o <<Op("NotIf")>> \o sub[3] \o <<Op("Else")>>
                                \o sub[2] \o <<Op("EndIf")>>
          [] f = "OrB" -> sub[1] \o sub[2] \o <<Op("BoolOr")>>
          [] f = "OrD" -> sub[1] \o <<Op("IfDup"), Op("NotIf")>> \o sub[2] \o <<Op("EndIf")>>
          [] f = "OrC" -> sub[1] \o <<Op("NotIf")>> \o sub[2] \o <<Op("EndIf")>>
          [] f = "OrI" -> <<Op("If")>> \o sub[1] \o <<Op("Else")>> \o sub[2] \o <<Op("EndIf")>>
          [] f = "Thresh" ->
                ConcatAll([i \in DOMAIN sub |->
                              IF i = 1 THEN sub[1] ELSE Append(sub[i], Op("Add"))])
                    \o <<Num(t.k), Op("Equal")>>
          [] f = "Multi" ->
                <<Num(t.k)>> \o ConcatAll(keys) \o <<Num(Len(t.args)), Op("CheckMultiSig")>>
          [] f = "MultiA" ->
                ConcatAll([i \in DOMAIN keys |->
                              Append(keys[i], Op(IF i = 1 THEN "CheckSig" ELSE "CheckSigAdd"))])
                    \o <<Num(t.k), Op("NumEqual")>>

\* The script of the expression rooted at index root.
encode(nodes, root) ==
    LET enc[i \in DOMAIN nodes] ==
            encode_node(nodes[i], [j \in DOMAIN nodes[i].subs |-> enc[nodes[i].subs[j]]])
    IN  enc[root]

\* Bytes of a script (external: the serialization of bitcoin::Script).
InstrSize(ins) ==
    CASE ins[1] = "Num" -> script_num_size(ins[2])
      [] ins[1] = "Bytes32" -> 33
      [] ins[1] = "Bytes33" -> 34
      [] ins[1] = "Bytes65" -> 66
      [] ins[1] = "Hash20" -> 21
      [] ins[1] = "Inscription" -> InscriptionSize
      [] OTHER -> 1

script_len(script) == SumOver(DOMAIN script, LAMBDA i : InstrSize(script[i]))
=============================================================================
