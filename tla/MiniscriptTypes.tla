--------------------------- MODULE MiniscriptTypes ---------------------------
(***************************************************************************)
(* The Miniscript type system (src/src/miniscript/types/mod.rs): a type is *)
(* a pair of correctness and malleability properties, and type_check gives *)
(* the type of a fragment from the types of its children.                  *)
(***************************************************************************)
EXTENDS Naturals, Sequences

C == INSTANCE Correctness
M == INSTANCE Malleability

Type == [corr : C!Correctness, mall : M!Malleability]

Err == C!Err

\* The constructors of struct Type: a malleability never fails to be built,
\* so the pair is an error exactly when the correctness is.
Ty(corr, mall) == IF corr = Err THEN Err ELSE [corr |-> corr, mall |-> mall]

-----------------------------------------------------------------------------
(* Fragments, grouped by their number of children. *)

HashFrags == {"Sha256", "Hash256", "Ripemd160", "Hash160"}
LeafFrags == HashFrags \cup {"True", "False", "PkK", "PkH", "RawPkH", "After",
                             "Older", "TxTemplate", "Multi", "MultiA"}
WrapFrags == {"Alt", "Swap", "Check", "DupIf", "Verify", "NonZero",
              "ZeroNotEqual"}
InscribeFrags == {"InscribePre", "InscribePost"}
BinaryFrags == {"AndV", "AndB", "OrB", "OrD", "OrC", "OrI"}
Frags == LeafFrags \cup WrapFrags \cup InscribeFrags \cup BinaryFrags
            \cup {"AndOr", "Thresh"}

tx_template == Ty(C!Corr("V", "Zero", FALSE, FALSE), M!Mall("None", TRUE, TRUE))

leaf_type(frag) ==
    CASE frag = "True" -> Ty(C!TRUE_, M!TRUE_)
      [] frag = "False" -> Ty(C!FALSE_, M!FALSE_)
      [] frag = "PkK" -> Ty(C!pk_k, M!pk_k)
      [] frag \in {"PkH", "RawPkH"} -> Ty(C!pk_h, M!pk_h)
      [] frag = "Multi" -> Ty(C!multi, M!multi)
      [] frag = "MultiA" -> Ty(C!multi_a, M!multi_a)
      [] frag \in {"After", "Older"} -> Ty(C!time, M!time)
      [] frag \in HashFrags -> Ty(C!hash, M!hash)
      [] frag = "TxTemplate" -> tx_template

wrap_type(frag, x) ==
    CASE frag = "Alt" -> Ty(C!cast_alt(x.corr), M!cast_alt(x.mall))
      [] frag = "Swap" -> Ty(C!cast_swap(x.corr), M!cast_swap(x.mall))
      [] frag = "Check" -> Ty(C!cast_check(x.corr), M!cast_check(x.mall))
      [] frag = "DupIf" -> Ty(C!cast_dupif(x.corr), M!cast_dupif(x.mall))
      [] frag = "Verify" -> Ty(C!cast_verify(x.corr), M!cast_verify(x.mall))
      [] frag = "NonZero" -> Ty(C!cast_nonzero(x.corr), M!cast_nonzero(x.mall))
      [] frag = "ZeroNotEqual" ->
            Ty(C!cast_zeronotequal(x.corr), M!cast_zeronotequal(x.mall))

binary_type(frag, l, r) ==
    CASE frag = "AndB" -> Ty(C!and_b(l.corr, r.corr), M!and_b(l.mall, r.mall))
      [] frag = "AndV" -> Ty(C!and_v(l.corr, r.corr), M!and_v(l.mall, r.mall))
      [] frag = "OrB" -> Ty(C!or_b(l.corr, r.corr), M!or_b(l.mall, r.mall))
      [] frag = "OrD" -> Ty(C!or_d(l.corr, r.corr), M!or_d(l.mall, r.mall))
      [] frag = "OrC" -> Ty(C!or_c(l.corr, r.corr), M!or_c(l.mall, r.mall))
      [] frag = "OrI" -> Ty(C!or_i(l.corr, r.corr), M!or_i(l.mall, r.mall))

and_or(a, b, c) ==
    Ty(C!and_or(a.corr, b.corr, c.corr), M!and_or(a.mall, b.mall, c.mall))

threshold(k, subs) ==
    Ty(C!threshold(k, [i \in DOMAIN subs |-> subs[i].corr]),
       M!threshold(k, [i \in DOMAIN subs |-> subs[i].mall]))

\* The type of a fragment with threshold k and the children's types subs;
\* inscribed says whether its inscriptions are non-empty and all valid.
type_check(frag, k, subs, inscribed) ==
    CASE frag \in LeafFrags -> leaf_type(frag)
      [] frag \in WrapFrags -> wrap_type(frag, subs[1])
      [] frag \in InscribeFrags -> IF inscribed THEN subs[1] ELSE Err
      [] frag \in BinaryFrags -> binary_type(frag, subs[1], subs[2])
      [] frag = "AndOr" -> and_or(subs[1], subs[2], subs[3])
      [] frag = "Thresh" -> threshold(k, subs)

-----------------------------------------------------------------------------

is_subtype(t, u) ==
    C!is_subtype(t.corr, u.corr) /\ M!is_subtype(t.mall, u.mall)

(* The debug assertions of Type::sanity_checks and, through it, of         *)
(* Correctness::sanity_checks.                                             *)
sanity_checks(t) ==
    /\ t.corr.dissatisfiable => t.mall.dissat # "None"
    /\ t.corr.base = "V" => t.mall.dissat = "None"
    /\ t.corr.base = "K" => t.mall.safe
    /\ t.corr.input = "Zero" => t.mall.non_malleable

(* What the assertions rest on.  A fragment that reads nothing from the    *)
(* stack and can be dissatisfied is a constant 0: nobody can satisfy it.   *)
Zdissat(t) ==
    t.corr.input = "Zero" /\ t.corr.dissatisfiable
        => t.mall.safe /\ t.mall.dissat = "Unique"

Sane(t) ==
    /\ sanity_checks(t)
    /\ C!sanity_checks(t.corr)
    /\ Zdissat(t)
    /\ t.corr.base = "W" => t.corr.input = "Any"
=============================================================================
