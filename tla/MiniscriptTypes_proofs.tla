------------------------- MODULE MiniscriptTypes_proofs -------------------------
(***************************************************************************)
(* Proofs about the type system: the typing rules preserve a strengthening *)
(* of the assertions that the type checker makes about every type it       *)
(* computes.                                                               *)
(***************************************************************************)
EXTENDS MiniscriptTypes, FiniteSetTheorems, TLAPS

\* A type is an error or a sane type.
SaneResult(t) == t = Err \/ (t \in Type /\ Sane(t))

(* Every leaf of the language has a sane type. *)
LEMMA LeafSane ==
    ASSUME NEW frag \in LeafFrags
    PROVE  leaf_type(frag) \in Type /\ Sane(leaf_type(frag))
<1> USE DEF Ty, Err, Sane, Zdissat, Type, sanity_checks, C!sanity_checks,
           C!Correctness, C!Base, C!Input, C!Corr, C!Result, C!Err,
           M!Malleability, M!Dissat, M!Mall
<1>1. CASE frag = "True"
  BY <1>1 DEF leaf_type, HashFrags, C!TRUE_, M!TRUE_
<1>2. CASE frag = "False"
  BY <1>2 DEF leaf_type, HashFrags, C!FALSE_, M!FALSE_
<1>3. CASE frag = "PkK"
  BY <1>3 DEF leaf_type, HashFrags, C!pk_k, M!pk_k
<1>4. CASE frag = "PkH"
  BY <1>4 DEF leaf_type, HashFrags, C!pk_h, M!pk_h
<1>5. CASE frag = "RawPkH"
  BY <1>5 DEF leaf_type, HashFrags, C!pk_h, M!pk_h
<1>6. CASE frag = "Multi"
  BY <1>6 DEF leaf_type, HashFrags, C!multi, M!multi
<1>7. CASE frag = "MultiA"
  BY <1>7 DEF leaf_type, HashFrags, C!multi_a, M!multi_a
<1>8. CASE frag = "After"
  BY <1>8 DEF leaf_type, HashFrags, C!time, M!time
<1>9. CASE frag = "Older"
  BY <1>9 DEF leaf_type, HashFrags, C!time, M!time
<1>10. CASE frag \in HashFrags
  BY <1>10 DEF leaf_type, HashFrags, C!hash, M!hash
<1>11. CASE frag = "TxTemplate"
  BY <1>11 DEF leaf_type, HashFrags, tx_template
<1> QED
  BY <1>1, <1>2, <1>3, <1>4, <1>5, <1>6, <1>7, <1>8, <1>9, <1>10, <1>11 DEF LeafFrags

(* A wrapper around a sane type is an error or sane. *)
LEMMA WrapSane ==
    ASSUME NEW frag \in WrapFrags, NEW x \in Type, Sane(x)
    PROVE  SaneResult(wrap_type(frag, x))
<1> USE DEF Ty, Err, Sane, Zdissat, Type, sanity_checks, C!sanity_checks,
           C!Correctness, C!Base, C!Input, C!Corr, C!Result, C!Err,
           M!Malleability, M!Dissat, M!Mall, SaneResult
<1>1. CASE frag = "Alt"
  BY <1>1 DEF wrap_type, C!cast_alt, M!cast_alt
<1>2. CASE frag = "Swap"
  BY <1>2 DEF wrap_type, C!cast_swap, M!cast_swap
<1>3. CASE frag = "Check"
  BY <1>3 DEF wrap_type, C!cast_check, M!cast_check
<1>4. CASE frag = "DupIf"
  BY <1>4 DEF wrap_type, C!cast_dupif, M!cast_dupif, M!new_dissat
<1>5. CASE frag = "Verify"
  BY <1>5 DEF wrap_type, C!cast_verify, M!cast_verify
<1>6. CASE frag = "NonZero"
  BY <1>6 DEF wrap_type, C!cast_nonzero, M!cast_nonzero, M!new_dissat
<1>7. CASE frag = "ZeroNotEqual"
  BY <1>7 DEF wrap_type, C!cast_zeronotequal, M!cast_zeronotequal
<1> QED
  BY <1>1, <1>2, <1>3, <1>4, <1>5, <1>6, <1>7 DEF WrapFrags

(* A binary combination of sane types is an error or sane. *)
LEMMA BinarySane ==
    ASSUME NEW frag \in BinaryFrags,
           NEW l \in Type, Sane(l), NEW r \in Type, Sane(r)
    PROVE  SaneResult(binary_type(frag, l, r))
<1> USE DEF Ty, Err, Sane, Zdissat, Type, sanity_checks, C!sanity_checks,
           C!Correctness, C!Base, C!Input, C!Corr, C!Result, C!Err,
           M!Malleability, M!Dissat, M!Mall, SaneResult
<1>1. CASE frag = "AndV"
  BY <1>1 DEF binary_type, C!and_v, M!and_v, C!and_input
<1>2. CASE frag = "AndB"
  BY <1>2 DEF binary_type, C!and_b, M!and_b, C!and_input
<1>3. CASE frag = "OrB"
  BY <1>3 DEF binary_type, C!or_b, M!or_b, C!One
<1>4. CASE frag = "OrD"
  BY <1>4 DEF binary_type, C!or_d, M!or_d, C!or_input, C!One
<1>5. CASE frag = "OrC"
  BY <1>5 DEF binary_type, C!or_c, M!or_c, C!or_input, C!One
<1>6. CASE frag = "OrI"
  BY <1>6 DEF binary_type, C!or_i, M!or_i, C!One
<1> QED
  BY <1>1, <1>2, <1>3, <1>4, <1>5, <1>6 DEF BinaryFrags

(* andor of sane types is an error or sane. *)
LEMMA AndOrSane ==
    ASSUME NEW a \in Type, Sane(a), NEW b \in Type, Sane(b),
           NEW c \in Type, Sane(c)
    PROVE  SaneResult(and_or(a, b, c))
  BY DEF Ty, Err, Sane, Zdissat, Type, sanity_checks, C!sanity_checks,
           C!Correctness, C!Base, C!Input, C!Corr, C!Result, C!Err,
           M!Malleability, M!Dissat, M!Mall, SaneResult, and_or, C!and_or, M!and_or, C!One

(* All children of a threshold are safe when the counter reaches their     *)
(* number; one safe child alone is counted once.                           *)
LEMMA SafeCountOne ==
    ASSUME NEW subs, DOMAIN subs = 1..1, subs[1].safe
    PROVE  M!safe_count(subs) = 1
<1>1. {i \in DOMAIN subs : subs[i].safe} = {1}
  OBVIOUS
<1>2. Cardinality({1}) = 1
  BY FS_Singleton
<1>3. M!Cardinality({1}) = Cardinality({1})
  BY DEF M!Cardinality, Cardinality
<1> QED
  BY <1>1, <1>2, <1>3 DEF M!safe_count

(* A threshold over sane types is an error or sane.  Only a threshold of   *)
(* one child can read nothing from the stack, since the others are W.      *)
LEMMA ThresholdSane ==
    ASSUME NEW subs \in Seq(Type), NEW k \in 1..Len(subs),
           \A i \in DOMAIN subs : Sane(subs[i])
    PROVE  SaneResult(threshold(k, subs))
<1> DEFINE corrs == [i \in DOMAIN subs |-> subs[i].corr]
           malls == [i \in DOMAIN subs |-> subs[i].mall]
           cr == C!threshold(k, corrs)
           ma == M!threshold(k, malls)
<1> SUFFICES ASSUME cr # C!Err
             PROVE  SaneResult([corr |-> cr, mall |-> ma])
  BY DEF threshold, Ty, Err, SaneResult
<1>1. /\ DOMAIN subs = 1..Len(subs) /\ Len(subs) \in Nat
      /\ \A i \in DOMAIN subs : subs[i] \in Type
      /\ DOMAIN corrs = 1..Len(subs) /\ DOMAIN malls = 1..Len(subs)
      /\ \A i \in DOMAIN subs : corrs[i] = subs[i].corr /\ malls[i] = subs[i].mall
  OBVIOUS
<1>2. /\ \A i \in DOMAIN corrs :
            /\ corrs[i].base = IF i = 1 THEN "B" ELSE "W"
            /\ corrs[i].unit
            /\ corrs[i].dissatisfiable
      /\ cr \in C!Correctness
      /\ cr.base = "B" /\ cr.dissatisfiable /\ cr.unit
      /\ cr.input = "Zero" => \A i \in DOMAIN corrs : corrs[i].input = "Zero"
  BY DEF C!threshold, C!Result, C!Corr, C!Correctness, C!Base, C!Input
<1>3. /\ ma \in M!Malleability
      /\ ma.dissat # "None"
  BY DEF M!threshold, M!Mall, M!Malleability, M!Dissat
<1>4. ASSUME cr.input = "Zero"
      PROVE  ma.dissat = "Unique" /\ ma.safe /\ ma.non_malleable
  <2>1. Len(subs) = 1
    <3>1. ASSUME 2 \in DOMAIN subs
          PROVE  FALSE
      <4>1. subs[2].corr.base = "W" /\ subs[2].corr.input = "Zero"
        BY <1>1, <1>2, <1>4, <3>1
      <4> QED
        BY <4>1, <3>1 DEF Sane
    <3> QED
      BY <3>1, <1>1
  <2>2. subs[1].mall.safe /\ subs[1].mall.dissat = "Unique" /\ subs[1].mall.non_malleable
    <3>1. subs[1].corr.input = "Zero" /\ subs[1].corr.dissatisfiable
      BY <1>1, <1>2, <1>4, <2>1
    <3> QED
      BY <3>1, <2>1, <1>1 DEF Sane, Zdissat, sanity_checks
  <2>3. DOMAIN malls = 1..1 /\ malls[1] = subs[1].mall
    BY <2>1, <1>1
  <2>4. M!safe_count(malls) = 1
    BY <2>2, <2>3, SafeCountOne
  <2>5. Len(malls) = 1
    BY <2>3
  <2>6. k = 1
    BY <2>1
  <2>7. \A i \in DOMAIN malls : malls[i].dissat = "Unique" /\ malls[i].non_malleable
    BY <2>2, <2>3
  <2> HIDE DEF malls
  <2>8. M!safe_count(malls) = Len(malls) /\ M!safe_count(malls) > Len(malls) - k
        /\ M!safe_count(malls) >= Len(malls) - k
    BY <2>4, <2>5, <2>6
  <2> QED
    BY <2>7, <2>8, Zenon DEF M!threshold, M!Mall
<1> HIDE DEF cr, ma
<1> QED
  BY <1>2, <1>3, <1>4
     DEF SaneResult, Type, Sane, Zdissat, sanity_checks, C!sanity_checks

(* type_check preserves sanity: whatever sane children a fragment has, its *)
(* type is an error or a sane type (Type::type_check, types/mod.rs:463).   *)
THEOREM TypeCheckSane ==
    ASSUME NEW frag \in Frags, NEW k \in Nat, NEW subs \in Seq(Type),
           NEW inscribed \in BOOLEAN,
           \A i \in DOMAIN subs : Sane(subs[i]),
           frag \in WrapFrags \cup InscribeFrags => Len(subs) = 1,
           frag \in BinaryFrags => Len(subs) = 2,
           frag = "AndOr" => Len(subs) = 3,
           frag = "Thresh" => k \in 1..Len(subs)
    PROVE  SaneResult(type_check(frag, k, subs, inscribed))
<1>0. DOMAIN subs = 1..Len(subs) /\ \A i \in DOMAIN subs : subs[i] \in Type
  OBVIOUS
<1>1. CASE frag \in LeafFrags
  <2>1. type_check(frag, k, subs, inscribed) = leaf_type(frag)
    BY <1>1 DEF type_check, LeafFrags, HashFrags, WrapFrags, InscribeFrags, BinaryFrags
  <2> QED
    BY <1>1, <2>1, LeafSane DEF SaneResult
<1>2. CASE frag \in WrapFrags
  <2>1. type_check(frag, k, subs, inscribed) = wrap_type(frag, subs[1])
    BY <1>2 DEF type_check, LeafFrags, HashFrags, WrapFrags, InscribeFrags, BinaryFrags
  <2>2. subs[1] \in Type /\ Sane(subs[1])
    BY <1>0, <1>2
  <2> QED
    BY <1>2, <2>1, <2>2, WrapSane
<1>3. CASE frag \in InscribeFrags
  <2>1. type_check(frag, k, subs, inscribed) = IF inscribed THEN subs[1] ELSE Err
    BY <1>3 DEF type_check, LeafFrags, HashFrags, WrapFrags, InscribeFrags, BinaryFrags
  <2>2. subs[1] \in Type /\ Sane(subs[1])
    BY <1>0, <1>3
  <2> QED
    BY <2>1, <2>2 DEF SaneResult
<1>4. CASE frag \in BinaryFrags
  <2>1. type_check(frag, k, subs, inscribed) = binary_type(frag, subs[1], subs[2])
    BY <1>4 DEF type_check, LeafFrags, HashFrags, WrapFrags, InscribeFrags, BinaryFrags
  <2>2. subs[1] \in Type /\ Sane(subs[1]) /\ subs[2] \in Type /\ Sane(subs[2])
    BY <1>0, <1>4
  <2> QED
    BY <1>4, <2>1, <2>2, BinarySane
<1>5. CASE frag = "AndOr"
  <2>1. type_check(frag, k, subs, inscribed) = and_or(subs[1], subs[2], subs[3])
    BY <1>5 DEF type_check, LeafFrags, HashFrags, WrapFrags, InscribeFrags, BinaryFrags
  <2>2. /\ subs[1] \in Type /\ Sane(subs[1]) /\ subs[2] \in Type /\ Sane(subs[2])
        /\ subs[3] \in Type /\ Sane(subs[3])
    BY <1>0, <1>5
  <2> QED
    BY <2>1, <2>2, AndOrSane
<1>6. CASE frag = "Thresh"
  <2>1. type_check(frag, k, subs, inscribed) = threshold(k, subs)
    BY <1>6 DEF type_check, LeafFrags, HashFrags, WrapFrags, InscribeFrags, BinaryFrags
  <2> QED
    BY <1>6, <2>1, ThresholdSane
<1> QED
  BY <1>1, <1>2, <1>3, <1>4, <1>5, <1>6 DEF Frags
=============================================================================
