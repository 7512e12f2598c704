---------------------------- MODULE Spend_proofs ----------------------------
(***************************************************************************)
(* Proofs about the satisfier: for every expression that can be built and  *)
(* all assets, the encoded script accepts the witness that it returns.     *)
(***************************************************************************)
EXTENDS Spend, Script_proofs

-----------------------------------------------------------------------------
(* Witness templates and their completion. *)

Comp(items) == [i \in DOMAIN items |-> satisfy_self(items[i])]

LEMMA CompLaws ==
    /\ \A x : IsSeq(x) => /\ IsSeq(Comp(x)) /\ Len(Comp(x)) = Len(x)
                          /\ \A i \in 1..Len(x) : Comp(x)[i] = satisfy_self(x[i])
    /\ \A x, y : IsSeq(x) /\ IsSeq(y) => Comp(x ++ y) = Comp(x) ++ Comp(y)
    /\ Comp(<<>>) = <<>>
    /\ \A e : Comp(<<e>>) = <<satisfy_self(e)>>
<1>1. ASSUME NEW x, IsSeq(x)
      PROVE  /\ IsSeq(Comp(x)) /\ Len(Comp(x)) = Len(x)
             /\ \A i \in 1..Len(x) : Comp(x)[i] = satisfy_self(x[i])
  <2>1. Len(x) \in Nat /\ DOMAIN x = 1..Len(x)
    BY <1>1, SeqForm
  <2>2. \A i \in 1..Len(x) : Comp(x)[i] = satisfy_self(x[i])
    BY <2>1 DEF Comp
  <2> DEFINE z == Comp(x)
  <2>3. z = [i \in 1..Len(x) |-> z[i]]
    BY <2>1 DEF Comp
  <2> HIDE DEF z
  <2>4. IsSeq(z) /\ Len(z) = Len(x)
    BY <2>1, <2>3, FnSeq
  <2> QED  BY <2>2, <2>4 DEF z
<1>2. ASSUME NEW x, NEW y, IsSeq(x), IsSeq(y)  PROVE Comp(x ++ y) = Comp(x) ++ Comp(y)
  <2> DEFINE z == x ++ y
             l == Comp(z)
             a == Comp(x)
             b == Comp(y)
             r == a ++ b
  <2>1. CatShape(x, y, z) /\ IsSeq(z)
    BY <1>2, CatElems, CatLaws
  <2>2. IsSeq(l) /\ Len(l) = Len(z) /\ \A i \in 1..Len(z) : l[i] = satisfy_self(z[i])
    <3> HIDE DEF z
    <3> QED  BY <1>1, <2>1
  <2>3. IsSeq(a) /\ Len(a) = Len(x) /\ \A i \in 1..Len(x) : a[i] = satisfy_self(x[i])
    BY <1>1, <1>2
  <2>4. IsSeq(b) /\ Len(b) = Len(y) /\ \A i \in 1..Len(y) : b[i] = satisfy_self(y[i])
    BY <1>1, <1>2
  <2> HIDE DEF a, b, l, z
  <2>5. CatShape(a, b, r) /\ IsSeq(r)
    BY <2>3, <2>4, CatElems, CatLaws
  <2> HIDE DEF r
  <2>6. Len(l) = Len(r)
    BY <2>1, <2>2, <2>3, <2>4, <2>5 DEF CatShape
  <2>7. ASSUME NEW i \in 1..Len(l)  PROVE l[i] = r[i]
    <3>1. CASE i \in 1..Len(x)
      <4>1. z[i] = x[i] /\ r[i] = a[i]
        BY <2>1, <2>3, <2>5, <3>1 DEF CatShape
      <4> QED  BY <2>2, <2>3, <2>7, <3>1, <4>1
    <3>2. ASSUME NEW j \in 1..Len(y), i = Len(x) + j  PROVE l[i] = r[i]
      <4>1. z[i] = y[j] /\ r[i] = b[j]
        BY <2>1, <2>3, <2>4, <2>5, <3>2 DEF CatShape
      <4> QED  BY <2>2, <2>4, <2>7, <4>1
    <3> QED  BY <2>1, <2>2, <2>7, <3>1, <3>2 DEF CatShape
  <2>8. l = r
    BY <2>2, <2>5, <2>6, <2>7, SeqEq
  <2> QED  BY <2>8 DEF l, r, a, b, z
<1>3. Comp(<<>>) = <<>>
  <2>1. IsSeq(Comp(<<>>)) /\ Len(Comp(<<>>)) = 0 /\ IsSeq(<<>>) /\ Len(<<>>) = 0
    BY <1>1, ShortSeqs
  <2> DEFINE z == Comp(<<>>)
             e == <<>>
  <2>2. \A i \in 1..Len(z) : z[i] = e[i]
    BY <2>1
  <2>3. z = e
    <3> HIDE DEF z, e
    <3>1. IsSeq(z) /\ IsSeq(e) /\ Len(z) = Len(e)
      BY <2>1 DEF z, e
    <3> QED  BY <2>2, <3>1, SeqEq
  <2> QED  BY <2>3
<1>4. ASSUME NEW e  PROVE Comp(<<e>>) = <<satisfy_self(e)>>
  <2> DEFINE x == <<e>>
             v == satisfy_self(e)
             y == <<v>>
             z == Comp(x)
  <2>1. IsSeq(x) /\ Len(x) = 1 /\ x[1] = e
    BY ShortSeqs
  <2>2. IsSeq(y) /\ Len(y) = 1 /\ y[1] = v
    <3> HIDE DEF v
    <3> QED  BY ShortSeqs
  <2>3. IsSeq(z) /\ Len(z) = 1 /\ z[1] = v
    <3> HIDE DEF x
    <3>1. 1 \in 1..1
      OBVIOUS
    <3> QED  BY <1>1, <2>1, <3>1
  <2> HIDE DEF x, y, z, v
  <2>4. \A i \in 1..Len(z) : i = 1
    BY <2>3
  <2>5. z = y
    BY <2>2, <2>3, <2>4, SeqEq
  <2> QED  BY <2>5 DEF x, y, z, v
<1> QED  BY <1>1, <1>2, <1>3, <1>4

\* An element that the satisfier can complete, and that has a size.
GoodItem(a, e) == completes(a, e) /\ size(e) \in Nat
GoodItems(a, x) == IsSeq(x) /\ \A i \in 1..Len(x) : GoodItem(a, x[i])

LEMMA KnownItems ==
    \A a : /\ GoodItem(a, PushZero) /\ GoodItem(a, PushOne) /\ GoodItem(a, HashDissatisfaction)
           /\ \A key : GoodItem(a, Sig(key)) /\ GoodItem(a, Pubkey(key)) /\ GoodItem(a, Preimage(key))
           /\ \A key : Ctx # "Tap" /\ key \in a.raw_pk \cup a.raw_sigs => GoodItem(a, PubkeyHash(key))
<1> TAKE a
<1>1. \A key : pk_len(key) \in Nat
  BY DEF pk_len
<1>2. size(PushZero) \in Nat /\ size(PushOne) \in Nat
  BY DEF size, PushZero, PushOne
<1>3. size(HashDissatisfaction) \in Nat /\ \A h : size(Preimage(h)) \in Nat
  BY DEF size, HashDissatisfaction, Preimage
<1>4. \A key : size(Sig(key)) \in Nat
  BY DEF size, Sig, SchnorrSigSize
<1>5. \A key : size(Pubkey(key)) \in Nat /\ size(PubkeyHash(key)) \in Nat
  BY <1>1 DEF size, Pubkey, PubkeyHash
<1>6. completes(a, PushZero) /\ completes(a, PushOne) /\ completes(a, HashDissatisfaction)
  BY DEF completes, PushZero, PushOne, HashDissatisfaction
<1>7. \A key : completes(a, Sig(key)) /\ completes(a, Pubkey(key)) /\ completes(a, Preimage(key))
  BY DEF completes, Sig, Pubkey, Preimage
<1>8. \A key : Ctx # "Tap" /\ key \in a.raw_pk \cup a.raw_sigs => completes(a, PubkeyHash(key))
  BY DEF completes, PubkeyHash
<1> QED  BY <1>2, <1>3, <1>4, <1>5, <1>6, <1>7, <1>8 DEF GoodItem

LEMMA CompletedItems ==
    /\ satisfy_self(PushZero) = number(0) /\ satisfy_self(PushOne) = number(1)
    /\ satisfy_self(HashDissatisfaction) = <<"pre", "zeros">>
    /\ \A key : /\ satisfy_self(Sig(key)) = <<"sig", key>> /\ satisfy_self(Pubkey(key)) = <<"key", key>>
                /\ satisfy_self(PubkeyHash(key)) = <<"key", key>> /\ satisfy_self(Preimage(key)) = <<"pre", key>>
  BY DEF satisfy_self, PushZero, PushOne, HashDissatisfaction, Sig, Pubkey, PubkeyHash, Preimage, number

LEMMA ItemLaws ==
    \A a : /\ GoodItems(a, <<>>)
           /\ \A e : GoodItem(a, e) => GoodItems(a, <<e>>)
           /\ \A x, y : GoodItems(a, x) /\ GoodItems(a, y) => GoodItems(a, x ++ y)
<1> TAKE a
<1>1. GoodItems(a, <<>>)
  BY ShortSeqs DEF GoodItems
<1>2. ASSUME NEW e, GoodItem(a, e)  PROVE GoodItems(a, <<e>>)
  <2> DEFINE x == <<e>>
  <2>1. IsSeq(x) /\ Len(x) = 1 /\ x[1] = e
    BY ShortSeqs
  <2> HIDE DEF x
  <2>2. \A i \in 1..Len(x) : i = 1
    BY <2>1
  <2>3. GoodItems(a, x)
    BY <1>2, <2>1, <2>2 DEF GoodItems
  <2> QED  BY <2>3 DEF x
<1>3. ASSUME NEW x, NEW y, GoodItems(a, x), GoodItems(a, y)  PROVE GoodItems(a, x ++ y)
  <2>1. CatShape(x, y, x ++ y) /\ IsSeq(x ++ y)
    BY <1>3, CatElems, CatLaws DEF GoodItems
  <2> DEFINE z == x ++ y
  <2> HIDE DEF z
  <2>2. CatShape(x, y, z) /\ IsSeq(z)
    BY <2>1 DEF z
  <2>3. ASSUME NEW i \in 1..Len(z)  PROVE GoodItem(a, z[i])
    <3>1. CASE i \in 1..Len(x)
      BY <1>3, <2>2, <3>1 DEF CatShape, GoodItems
    <3>2. ASSUME NEW j \in 1..Len(y), i = Len(x) + j  PROVE GoodItem(a, z[i])
      BY <1>3, <2>2, <3>2 DEF CatShape, GoodItems
    <3> QED  BY <2>2, <2>3, <3>1, <3>2 DEF CatShape
  <2> QED  BY <2>2, <2>3 DEF GoodItems, z
<1> QED  BY <1>1, <1>2, <1>3

IsStack(w) == w.tag = "Stack"
GoodStack(a, w) ==
    w = Impossible \/ w = Unavailable \/ \E x : GoodItems(a, x) /\ w = Stack(x)

LEMMA StackForms ==
    \A a : /\ GoodStack(a, Impossible) /\ ~IsStack(Impossible)
           /\ GoodStack(a, Unavailable) /\ ~IsStack(Unavailable)
           /\ \A x : GoodItems(a, x) => GoodStack(a, Stack(x)) /\ IsStack(Stack(x)) /\ Stack(x).items = x
           /\ \A w : GoodStack(a, w) /\ IsStack(w) =>
                    /\ GoodItems(a, w.items) /\ IsSeq(w.items) /\ w = Stack(w.items) /\ w # Impossible
<1> TAKE a
<1>1. GoodStack(a, Impossible) /\ ~IsStack(Impossible) /\ GoodStack(a, Unavailable) /\ ~IsStack(Unavailable)
  BY DEF GoodStack, IsStack, Impossible, Unavailable
<1>2. ASSUME NEW x, GoodItems(a, x)
      PROVE  GoodStack(a, Stack(x)) /\ IsStack(Stack(x)) /\ Stack(x).items = x
  <2>1. GoodStack(a, Stack(x))
    BY <1>2, Zenon DEF GoodStack
  <2>2. IsStack(Stack(x)) /\ Stack(x).items = x
    BY DEF IsStack, Stack
  <2> QED  BY <2>1, <2>2
<1>3. ASSUME NEW w, GoodStack(a, w), IsStack(w)
      PROVE  GoodItems(a, w.items) /\ IsSeq(w.items) /\ w = Stack(w.items) /\ w # Impossible
  <2>1. w # Impossible /\ w # Unavailable
    BY <1>1, <1>3
  <2>2. PICK x : GoodItems(a, x) /\ w = Stack(x)
    BY <1>3, <2>1 DEF GoodStack
  <2>3. w.items = x
    BY <1>2, <2>2
  <2>4. IsSeq(x)
    BY <2>2 DEF GoodItems
  <2> QED  BY <2>1, <2>2, <2>3, <2>4
<1> QED  BY <1>1, <1>2, <1>3

LEMMA Combined ==
    ASSUME NEW a, NEW w, NEW v, GoodStack(a, w), GoodStack(a, v)
    PROVE  /\ GoodStack(a, combine(w, v))
           /\ IsStack(combine(w, v)) <=> IsStack(w) /\ IsStack(v)
           /\ IsStack(w) /\ IsStack(v) => combine(w, v) = Stack(w.items ++ v.items)
<1>1. CASE IsStack(w) /\ IsStack(v)
  <2>1. combine(w, v) = Stack(w.items \o v.items)
    <3>1. {w.tag, v.tag} = {"Stack"} /\ "Impossible" \notin {w.tag, v.tag}
      BY <1>1 DEF IsStack
    <3> QED  BY <3>1 DEF combine
  <2>2. combine(w, v) = Stack(w.items ++ v.items)
    BY <2>1, Zenon DEF ++
  <2>3. GoodItems(a, w.items) /\ GoodItems(a, v.items)
    BY <1>1, StackForms
  <2>4. GoodItems(a, w.items ++ v.items)
    BY <2>3, ItemLaws
  <2>5. GoodStack(a, Stack(w.items ++ v.items)) /\ IsStack(Stack(w.items ++ v.items))
    BY <2>4, StackForms
  <2> QED  BY <1>1, <2>2, <2>5
<1>2. CASE ~(IsStack(w) /\ IsStack(v))
  <2>1. {w.tag, v.tag} # {"Stack"}
    BY <1>2 DEF IsStack
  <2>2. combine(w, v) = Impossible \/ combine(w, v) = Unavailable
    BY <2>1 DEF combine
  <2> QED  BY <1>2, <2>2, StackForms
<1> QED  BY <1>1, <1>2

-----------------------------------------------------------------------------
(* Satisfactions. *)

\* No assertion failed.
Rec(w, h, r, t) ==
    [stack |-> w, has_sig |-> h, relative_timelock |-> r, absolute_timelock |-> t, panic |-> FALSE]

IsSat(s) == s = Rec(s.stack, s.has_sig, s.relative_timelock, s.absolute_timelock)

\* The stack can be completed if it is one.
GoodSat(a, s) == IsSat(s) /\ ~s.panic /\ s.has_sig \in BOOLEAN /\ GoodStack(a, s.stack)

Same(s, t) == s.stack = t.stack /\ s.has_sig = t.has_sig

LEMMA RecIs ==
    ASSUME NEW w, NEW h, NEW r, NEW t, NEW s, s = Rec(w, h, r, t)
    PROVE  /\ IsSat(s) /\ s.stack = w /\ s.has_sig = h /\ ~s.panic
           /\ s.relative_timelock = r /\ s.absolute_timelock = t
  BY DEF Rec, IsSat

\* A satisfaction with one field changed.
Calm(s) == [s EXCEPT !.panic = FALSE]
WithSig(s, x) == [s EXCEPT !.has_sig = x]
WithStack(s, x) == [s EXCEPT !.stack = x]
WithRelative(s, x) == [s EXCEPT !.relative_timelock = x]
WithAbsolute(s, x) == [s EXCEPT !.absolute_timelock = x]

RecFields(w, h, r, t, p) ==
    [stack |-> w, has_sig |-> h, relative_timelock |-> r, absolute_timelock |-> t, panic |-> p]
WithPanic(s, x) == [s EXCEPT !.panic = x]

LEMMA ChangeField ==
    ASSUME NEW w, NEW h, NEW r, NEW t, NEW p, NEW x
    PROVE  LET z == RecFields(w, h, r, t, p)
           IN  /\ WithPanic(z, x) = RecFields(w, h, r, t, x)
               /\ WithSig(z, x) = RecFields(w, x, r, t, p)
               /\ WithStack(z, x) = RecFields(x, h, r, t, p)
               /\ WithRelative(z, x) = RecFields(w, h, x, t, p)
               /\ WithAbsolute(z, x) = RecFields(w, h, r, x, p)
<1> DEFINE z == RecFields(w, h, r, t, p)
<1>1. WithPanic(z, x) = RecFields(w, h, r, t, x)
  BY DEF RecFields, WithPanic
<1>2. WithSig(z, x) = RecFields(w, x, r, t, p)
  BY DEF RecFields, WithSig
<1>3. WithStack(z, x) = RecFields(x, h, r, t, p)
  BY DEF RecFields, WithStack
<1>4. WithRelative(z, x) = RecFields(w, h, x, t, p)
  BY DEF RecFields, WithRelative
<1>5. WithAbsolute(z, x) = RecFields(w, h, r, x, p)
  BY DEF RecFields, WithAbsolute
<1> QED  BY <1>1, <1>2, <1>3, <1>4, <1>5

LEMMA SetFields ==
    ASSUME NEW w, NEW h, NEW r, NEW t, NEW s, s = Rec(w, h, r, t)
    PROVE  /\ Calm(s) = Rec(w, h, r, t)
           /\ \A x : WithSig(s, x) = Rec(w, x, r, t)
           /\ \A x : WithStack(s, x) = Rec(x, h, r, t)
           /\ \A x : WithRelative(s, x) = Rec(w, h, x, t)
           /\ \A x : WithAbsolute(s, x) = Rec(w, h, r, x)
<1> DEFINE no == FALSE
<1>1. \A a, b, d, e : Rec(a, b, d, e) = RecFields(a, b, d, e, no)
  BY Zenon DEF Rec, RecFields
<1>2. Calm(s) = WithPanic(s, no)
  BY Zenon DEF Calm, WithPanic
<1> HIDE DEF no
<1>3. s = RecFields(w, h, r, t, no)
  BY <1>1
<1>4. Calm(s) = Rec(w, h, r, t)
  <2>1. WithPanic(s, no) = RecFields(w, h, r, t, no)
    BY <1>3, ChangeField
  <2> QED  BY <1>1, <1>2, <2>1
<1>5. ASSUME NEW x  PROVE WithSig(s, x) = Rec(w, x, r, t)
  BY <1>1, <1>3, ChangeField
<1>6. ASSUME NEW x  PROVE WithStack(s, x) = Rec(x, h, r, t)
  BY <1>1, <1>3, ChangeField
<1>7. ASSUME NEW x  PROVE WithRelative(s, x) = Rec(w, h, x, t)
  BY <1>1, <1>3, ChangeField
<1>8. ASSUME NEW x  PROVE WithAbsolute(s, x) = Rec(w, h, r, x)
  BY <1>1, <1>3, ChangeField
<1> QED  BY <1>4, <1>5, <1>6, <1>7, <1>8

LEMMA GoodRec ==
    ASSUME NEW a, NEW w, GoodStack(a, w), NEW h \in BOOLEAN, NEW r, NEW t, NEW s, s = Rec(w, h, r, t)
    PROVE  GoodSat(a, s) /\ s.stack = w /\ s.has_sig = h
<1>1. IsSat(s) /\ s.stack = w /\ s.has_sig = h /\ ~s.panic
  BY RecIs
<1> QED  BY <1>1 DEF GoodSat

LEMMA PlainSat ==
    ASSUME NEW a, NEW w, GoodStack(a, w), NEW h \in BOOLEAN
    PROVE  /\ GoodSat(a, Satisfaction(w, h))
           /\ Satisfaction(w, h).stack = w /\ Satisfaction(w, h).has_sig = h
<1> DEFINE s == Satisfaction(w, h)
<1>1. s = Rec(w, h, 0, 0)
  BY DEF Satisfaction, Rec
<1> HIDE DEF s
<1>2. GoodSat(a, s) /\ s.stack = w /\ s.has_sig = h
  BY <1>1, GoodRec
<1> QED  BY <1>2 DEF s

LEMMA FieldSet ==
    ASSUME NEW a, NEW s, GoodSat(a, s)
    PROVE  /\ GoodSat(a, Calm(s)) /\ Same(Calm(s), s)
           /\ \A h \in BOOLEAN : GoodSat(a, WithSig(s, h)) /\ WithSig(s, h).stack = s.stack /\ WithSig(s, h).has_sig = h
           /\ \A r : GoodSat(a, WithRelative(s, r)) /\ Same(WithRelative(s, r), s)
           /\ \A r : GoodSat(a, WithAbsolute(s, r)) /\ Same(WithAbsolute(s, r), s)
           /\ GoodSat(a, NoTimelocks(s)) /\ Same(NoTimelocks(s), s)
<1> DEFINE w0 == s.stack
           h0 == s.has_sig
           r0 == s.relative_timelock
           t0 == s.absolute_timelock
           Fine(t) == GoodSat(a, t) /\ Same(t, s)
<1>0. s = Rec(w0, h0, r0, t0) /\ h0 \in BOOLEAN /\ GoodStack(a, w0)
  BY DEF GoodSat, IsSat
<1>1. ASSUME NEW t, NEW r, NEW l, t = Rec(w0, h0, r, l)  PROVE Fine(t)
  <2>1. GoodSat(a, t) /\ t.stack = w0 /\ t.has_sig = h0
    <3> HIDE DEF w0, h0
    <3> QED  BY <1>0, <1>1, GoodRec
  <2> QED  BY <2>1 DEF Same
<1> HIDE DEF w0, h0, r0, t0, Fine
<1>3. Fine(Calm(s))
  <2>1. Calm(s) = Rec(w0, h0, r0, t0)
    BY <1>0, SetFields
  <2> QED  BY <1>1, <2>1
<1>4. ASSUME NEW h \in BOOLEAN
      PROVE  GoodSat(a, WithSig(s, h)) /\ WithSig(s, h).stack = w0 /\ WithSig(s, h).has_sig = h
  <2>1. WithSig(s, h) = Rec(w0, h, r0, t0)
    BY <1>0, SetFields
  <2> QED  BY <1>0, <2>1, GoodRec
<1>5. ASSUME NEW r  PROVE Fine(WithRelative(s, r))
  <2>1. WithRelative(s, r) = Rec(w0, h0, r, t0)
    BY <1>0, SetFields
  <2> QED  BY <1>1, <2>1
<1>6. ASSUME NEW r  PROVE Fine(WithAbsolute(s, r))
  <2>1. WithAbsolute(s, r) = Rec(w0, h0, r0, r)
    BY <1>0, SetFields
  <2> QED  BY <1>1, <2>1
<1>7. Fine(NoTimelocks(s))
  <2> DEFINE z == WithRelative(s, 0)
  <2>1. z = Rec(w0, h0, 0, t0)
    BY <1>0, SetFields
  <2>2. NoTimelocks(s) = WithAbsolute(z, 0)
    BY DEF NoTimelocks, WithAbsolute, WithRelative
  <2> HIDE DEF z
  <2>3. WithAbsolute(z, 0) = Rec(w0, h0, 0, 0)
    BY <2>1, SetFields
  <2> QED  BY <1>1, <2>2, <2>3
<1> QED  BY <1>3, <1>4, <1>5, <1>6, <1>7 DEF Fine, w0

LEMMA Concatenated ==
    ASSUME NEW a, NEW one, NEW two, GoodSat(a, one), GoodSat(a, two)
    PROVE  LET s == concatenate_rev(one, two)
           IN  /\ GoodSat(a, s)
               /\ s.has_sig <=> one.has_sig \/ two.has_sig
               /\ IsStack(s.stack) <=> IsStack(one.stack) /\ IsStack(two.stack)
               /\ IsStack(s.stack) => s.stack = Stack(two.stack.items ++ one.stack.items)
<1> DEFINE s == concatenate_rev(one, two)
           w == combine(two.stack, one.stack)
           h == one.has_sig \/ two.has_sig
           r == Max({one.relative_timelock, two.relative_timelock})
           t == Max({one.absolute_timelock, two.absolute_timelock})
<1>1. /\ ~one.panic /\ ~two.panic /\ one.has_sig \in BOOLEAN /\ two.has_sig \in BOOLEAN
      /\ GoodStack(a, one.stack) /\ GoodStack(a, two.stack)
  BY DEF GoodSat
<1>2. s = Rec(w, h, r, t)
  <2>1. (one.panic \/ two.panic) = FALSE
    BY <1>1
  <2>2. s = [stack |-> w, has_sig |-> h, relative_timelock |-> r, absolute_timelock |-> t,
             panic |-> (one.panic \/ two.panic)]
    BY DEF concatenate_rev
  <2> HIDE DEF s, w, h, r, t
  <2> QED  BY <2>1, <2>2, Zenon DEF Rec
<1>3. GoodStack(a, w) /\ (IsStack(w) <=> IsStack(one.stack) /\ IsStack(two.stack))
      /\ (IsStack(w) => w = Stack(two.stack.items ++ one.stack.items))
  BY <1>1, Combined
<1>4. h \in BOOLEAN /\ (h <=> one.has_sig \/ two.has_sig)
  OBVIOUS
<1> HIDE DEF s, w, h, r, t
<1>5. GoodSat(a, s) /\ s.stack = w /\ s.has_sig = h
  BY <1>2, <1>3, <1>4, GoodRec
<1> QED  BY <1>3, <1>4, <1>5 DEF s

LEMMA Pushed ==
    ASSUME NEW a, NEW s, GoodSat(a, s), NEW e, GoodItem(a, e)
    PROVE  LET t == Push(s, e)
           IN  /\ GoodSat(a, t) /\ t.has_sig = s.has_sig
               /\ IsStack(t.stack) <=> IsStack(s.stack)
               /\ IsStack(t.stack) => t.stack = Stack(s.stack.items ++ <<e>>)
<1> DEFINE t == Push(s, e)
           v == Stack(<<e>>)
           w == combine(s.stack, v)
           h == s.has_sig
           r == s.relative_timelock
           l == s.absolute_timelock
           w0 == s.stack
<1>1. s = Rec(w0, h, r, l) /\ h \in BOOLEAN /\ GoodStack(a, s.stack)
  BY DEF GoodSat, IsSat
<1>2. GoodItems(a, <<e>>)
  BY ItemLaws
<1>3. GoodStack(a, v) /\ IsStack(v) /\ v.items = <<e>>
  BY <1>2, StackForms
<1>4. t = WithStack(s, w)
  BY DEF Push, WithStack
<1> HIDE DEF v
<1>5. GoodStack(a, w) /\ (IsStack(w) <=> IsStack(s.stack)) /\ (IsStack(w) => w = Stack(s.stack.items ++ <<e>>))
  BY <1>1, <1>3, Combined
<1> HIDE DEF t, w, h, r, l, w0
<1>6. WithStack(s, w) = Rec(w, h, r, l)
  BY <1>1, SetFields
<1>7. GoodSat(a, t) /\ t.stack = w /\ t.has_sig = h
  BY <1>1, <1>4, <1>5, <1>6, GoodRec
<1> QED  BY <1>5, <1>7 DEF t, h

(* One of two satisfactions, if it is a stack.                              *)
LEMMA MinPick ==
    ASSUME NEW a, NEW mall \in BOOLEAN, NEW s, NEW t, GoodSat(a, s), GoodSat(a, t)
    PROVE  LET m == min_fn(mall, s, t)
           IN  /\ GoodSat(a, m)
               /\ IsStack(m.stack) => m.stack = s.stack \/ m.stack = t.stack
<1>0. /\ ~s.panic /\ s.has_sig \in BOOLEAN /\ GoodStack(a, s.stack)
      /\ ~t.panic /\ t.has_sig \in BOOLEAN /\ GoodStack(a, t.stack)
  BY DEF GoodSat
<1>1. Cheaper(s, t) = s \/ Cheaper(s, t) = t
  BY DEF Cheaper
<1> DEFINE none == Satisfaction(Unavailable, FALSE)
           Fine(m) == GoodSat(a, m) /\ (IsStack(m.stack) => m.stack = s.stack \/ m.stack = t.stack)
<1>2. Fine(none) /\ Fine(s) /\ Fine(t) /\ Fine(Cheaper(s, t))
  <2>1. GoodSat(a, none) /\ none.stack = Unavailable
    BY StackForms, PlainSat
  <2>2. ~IsStack(none.stack)
    BY <2>1, StackForms
  <2> HIDE DEF none
  <2>3. Fine(s) /\ Fine(t)
    OBVIOUS
  <2> HIDE DEF Fine
  <2>4. Fine(Cheaper(s, t))
    BY <1>1, <2>3
  <2>5. Fine(none)
    BY <2>1, <2>2 DEF Fine
  <2> QED  BY <2>3, <2>4, <2>5
<1>3. ASSUME NEW m, Fine(m)  PROVE Fine([m EXCEPT !.panic = s.panic \/ t.panic])
  <2>1. [m EXCEPT !.panic = s.panic \/ t.panic] = Calm(m)
    <3>1. (s.panic \/ t.panic) = FALSE
      BY <1>0
    <3> QED  BY <3>1, Zenon DEF Calm
  <2> DEFINE n == Calm(m)
  <2>2. GoodSat(a, n) /\ Same(n, m)
    BY <1>3, FieldSet
  <2> HIDE DEF n
  <2>3. Fine(n)
    BY <1>3, <2>2 DEF Same
  <2> HIDE DEF Fine
  <2> QED  BY <2>1, <2>3 DEF n
<1>4. ASSUME NEW m, Fine(m)  PROVE Fine([m EXCEPT !.has_sig = s.has_sig /\ t.has_sig])
  <2> DEFINE h == s.has_sig /\ t.has_sig
             n == WithSig(m, h)
  <2>1. [m EXCEPT !.has_sig = s.has_sig /\ t.has_sig] = n
    BY Zenon DEF WithSig
  <2>2. h \in BOOLEAN
    OBVIOUS
  <2> HIDE DEF h
  <2>3. GoodSat(a, n) /\ n.stack = m.stack
    <3>1. \A g \in BOOLEAN : GoodSat(a, WithSig(m, g)) /\ WithSig(m, g).stack = m.stack
      BY <1>4, FieldSet
    <3> QED  BY <2>2, <3>1, Zenon
  <2> HIDE DEF n
  <2>4. Fine(n)
    BY <1>4, <2>3
  <2> HIDE DEF Fine
  <2> QED  BY <2>1, <2>4
<1>5. Fine(minimum(s, t))
  <2> DEFINE ch == CASE s.stack = Impossible -> t
              [] s.stack # Impossible /\ t.stack = Impossible -> s
              [] OTHER ->
                    CASE ~s.has_sig /\ ~t.has_sig -> Satisfaction(Unavailable, FALSE)
                      [] ~s.has_sig /\ t.has_sig -> s
                      [] s.has_sig /\ ~t.has_sig -> t
                      [] OTHER -> Cheaper(s, t)
  <2>1. ch \in {s, t, none, Cheaper(s, t)}
    <3> HIDE DEF none, Fine
    <3> QED  BY <1>0 DEF none
  <2> HIDE DEF ch, none, Fine
  <2>2. Fine(ch)
    BY <1>2, <2>1
  <2>3. Fine([ch EXCEPT !.panic = s.panic \/ t.panic])
    BY <1>3, <2>2
  <2> QED  BY <2>3, Zenon DEF minimum, ch
<1>6. Fine(minimum_mall(s, t))
  <2> DEFINE both == [Cheaper(s, t) EXCEPT !.has_sig = s.has_sig /\ t.has_sig]
             ch == CASE s.stack.tag # "Stack" -> t
              [] s.stack.tag = "Stack" /\ t.stack.tag # "Stack" -> s
              [] OTHER -> both
  <2>0. Fine(both)
    <3> HIDE DEF Fine
    <3> QED  BY <1>2, <1>4
  <2> HIDE DEF both, Fine
  <2>1. ch \in {s, t, both}
    OBVIOUS
  <2> HIDE DEF ch
  <2>2. Fine(ch)
    BY <1>2, <2>0, <2>1
  <2>3. Fine([ch EXCEPT !.panic = s.panic \/ t.panic])
    BY <1>3, <2>2
  <2> QED  BY <2>3, Zenon DEF minimum_mall, ch, both
<1> QED  BY <1>5, <1>6 DEF min_fn

(* A stack that needs no signature is found if there is one.                *)
LEMMA MinFree ==
    ASSUME NEW a, NEW s, NEW t, GoodSat(a, s), GoodSat(a, t),
           (IsStack(s.stack) /\ ~s.has_sig) \/ (IsStack(t.stack) /\ ~t.has_sig)
    PROVE  IsStack(minimum_mall(s, t).stack) /\ ~minimum_mall(s, t).has_sig
<1> DEFINE h == s.has_sig /\ t.has_sig
           ch == CASE s.stack.tag # "Stack" -> t
              [] s.stack.tag = "Stack" /\ t.stack.tag # "Stack" -> s
              [] OTHER -> [Cheaper(s, t) EXCEPT !.has_sig = s.has_sig /\ t.has_sig]
           Free(m) == GoodSat(a, m) /\ IsStack(m.stack) /\ ~m.has_sig
<1>0. ~s.panic /\ s.has_sig \in BOOLEAN /\ ~t.panic /\ t.has_sig \in BOOLEAN
  BY DEF GoodSat
<1>1. Free(ch)
  <2>1. CASE ~IsStack(s.stack)
    <3>1. ch = t
      BY <2>1 DEF IsStack
    <3> QED  BY <2>1, <3>1
  <2>2. CASE IsStack(s.stack) /\ ~IsStack(t.stack)
    <3>1. ch = s
      BY <2>2 DEF IsStack
    <3> QED  BY <2>2, <3>1
  <2>3. CASE IsStack(s.stack) /\ IsStack(t.stack)
    <3> DEFINE b == Cheaper(s, t)
               n == WithSig(b, h)
    <3>1. b = s \/ b = t
      BY DEF Cheaper
    <3>2. ch = n
      BY <2>3, Zenon DEF IsStack, WithSig
    <3>3. h \in BOOLEAN /\ ~h
      BY <1>0
    <3>4. GoodSat(a, b) /\ IsStack(b.stack)
      BY <2>3, <3>1
    <3> HIDE DEF b, h, ch
    <3>5. GoodSat(a, n) /\ n.stack = b.stack /\ n.has_sig = h
      <4>1. \A g \in BOOLEAN : GoodSat(a, WithSig(b, g)) /\ WithSig(b, g).stack = b.stack /\ WithSig(b, g).has_sig = g
        BY <3>4, FieldSet
      <4> QED  BY <3>3, <4>1, Zenon
    <3> HIDE DEF n
    <3>6. Free(n)
      BY <3>3, <3>4, <3>5
    <3> QED  BY <3>2, <3>6
  <2> QED  BY <2>1, <2>2, <2>3
<1> HIDE DEF ch, h
<1>2. minimum_mall(s, t) = Calm(ch)
  <2>1. (s.panic \/ t.panic) = FALSE
    BY <1>0
  <2> QED  BY <2>1, Zenon DEF minimum_mall, Calm, ch
<1>3. Same(Calm(ch), ch)
  BY <1>1, FieldSet
<1> QED  BY <1>1, <1>2, <1>3 DEF Same

-----------------------------------------------------------------------------
(* Satisfactions of all children, the first on top. *)

FoldIs(sats, n, g) ==
    /\ g[0] = Satisfaction(Stack(<<>>), FALSE)
    /\ \A i \in 1..n : g[i] = concatenate_rev(g[i - 1], sats[i])

LEMMA FlattenIs ==
    ASSUME NEW sats, NEW n \in Nat, Len(sats) = n
    PROVE  \E g : FoldIs(sats, n, g) /\ Flatten(sats) = g[n]
<1> DEFINE first == Satisfaction(Stack(<<>>), FALSE)
           Is(f) == f = [i \in 0..n |-> IF i = 0 THEN first ELSE concatenate_rev(f[i - 1], sats[i])]
           Partial(k, W) == /\ W = [i \in 0..k |-> W[i]] /\ W[0] = first
                         /\ \A i \in 1..k : W[i] = concatenate_rev(W[i - 1], sats[i])
           S == {k \in Nat : \E W : Partial(k, W)}
           g == CHOOSE f : Is(f)
<1>1. 0 \in S
  <2> DEFINE W == [i \in 0..0 |-> first]
  <2> HIDE DEF first
  <2>1. Partial(0, W)
    OBVIOUS
  <2> QED  BY <2>1
<1>2. ASSUME NEW k \in Nat, k \in S  PROVE k + 1 \in S
  <2> HIDE DEF first
  <2>1. PICK W : Partial(k, W)
    BY <1>2
  <2> DEFINE Z == [i \in 0..(k + 1) |-> IF i = k + 1 THEN concatenate_rev(W[k], sats[k + 1]) ELSE W[i]]
  <2>2. Z[0] = first /\ Z = [i \in 0..(k + 1) |-> Z[i]]
    BY <2>1
  <2>3. ASSUME NEW i \in 1..(k + 1)  PROVE Z[i] = concatenate_rev(Z[i - 1], sats[i])
    <3>1. CASE i = k + 1
      <4>1. Z[i] = concatenate_rev(W[k], sats[i]) /\ Z[i - 1] = W[k]
        BY <3>1
      <4> QED  BY <4>1
    <3>2. CASE i # k + 1
      <4>1. i \in 1..k /\ Z[i] = W[i] /\ Z[i - 1] = W[i - 1]
        BY <3>2
      <4> QED  BY <2>1, <4>1
    <3> QED  BY <3>1, <3>2
  <2>4. Partial(k + 1, Z)
    BY <2>2, <2>3
  <2> HIDE DEF Z
  <2>5. \E Y : Partial(k + 1, Y)
    BY <2>4
  <2> HIDE DEF Partial
  <2> QED  BY <2>5
<1> HIDE DEF S
<1>3. n \in S
  BY <1>1, <1>2, SetInduction
<1>4. PICK W : Partial(n, W)
  BY <1>3 DEF S
<1>5. Is(W)
  <2> HIDE DEF first
  <2>1. ASSUME NEW i \in 0..n  PROVE W[i] = IF i = 0 THEN first ELSE concatenate_rev(W[i - 1], sats[i])
    <3>1. CASE i = 0
      BY <1>4, <3>1
    <3>2. CASE i # 0
      <4>1. i \in 1..n
        BY <3>2
      <4> QED  BY <1>4, <3>2, <4>1
    <3> QED  BY <3>1, <3>2
  <2>2. W = [i \in 0..n |-> W[i]]
    BY <1>4
  <2> QED  BY <2>1, <2>2
<1>6. Flatten(sats) = g[n]
  BY Zenon DEF Flatten
<1>7. Is(g)
  <2> HIDE DEF Is, first
  <2>1. \E f : Is(f)
    BY <1>5
  <2> QED  BY <2>1, Zenon
<1>8. FoldIs(sats, n, g)
  <2> HIDE DEF g, first
  <2>1. \A i \in 0..n : g[i] = IF i = 0 THEN first ELSE concatenate_rev(g[i - 1], sats[i])
    BY <1>7
  <2>2. g[0] = first /\ \A i \in 1..n : g[i] = concatenate_rev(g[i - 1], sats[i])
    BY <2>1
  <2> QED  BY <2>2 DEF FoldIs, first
<1> QED  BY <1>6, <1>8

\* The witness of a stack.
Wit(s) == Comp(s.stack.items)

LEMMA WitForms ==
    ASSUME NEW s, NEW x, IsSeq(x), s.stack = Stack(x)
    PROVE  Wit(s) = Comp(x) /\ IsStack(s.stack)
  BY DEF Wit, Stack, IsStack

LEMMA WitCat ==
    ASSUME NEW a, NEW one, NEW two, GoodSat(a, one), GoodSat(a, two),
           IsStack(concatenate_rev(one, two).stack)
    PROVE  /\ IsStack(one.stack) /\ IsStack(two.stack)
           /\ IsSeq(one.stack.items) /\ IsSeq(two.stack.items)
           /\ IsSeq(Wit(one)) /\ IsSeq(Wit(two))
           /\ Wit(concatenate_rev(one, two)) = Wit(two) ++ Wit(one)
<1> DEFINE s == concatenate_rev(one, two)
           x == two.stack.items
           y == one.stack.items
<1>1. IsStack(one.stack) /\ IsStack(two.stack) /\ s.stack = Stack(x ++ y)
  BY Concatenated
<1>2. GoodStack(a, one.stack) /\ GoodStack(a, two.stack)
  BY DEF GoodSat
<1>3. IsSeq(x) /\ IsSeq(y)
  BY <1>1, <1>2, StackForms
<1> HIDE DEF s
<1>4. s.stack.items = x ++ y
  BY <1>1 DEF Stack
<1>5. Wit(s) = Comp(x ++ y) /\ Wit(one) = Comp(y) /\ Wit(two) = Comp(x)
  BY <1>4, Zenon DEF Wit
<1> HIDE DEF x, y
<1>6. Comp(x ++ y) = Comp(x) ++ Comp(y) /\ IsSeq(Comp(x)) /\ IsSeq(Comp(y))
  BY <1>3, CompLaws
<1>7. Wit(s) = Wit(two) ++ Wit(one) /\ IsSeq(Wit(one)) /\ IsSeq(Wit(two))
  BY <1>5, <1>6
<1> QED  BY <1>1, <1>3, <1>7 DEF s, x, y

\* The witness of s is made of the witnesses of sats, the first on top.
Piled(n, sats, s) ==
    \A xs : (\A i \in 1..n : xs[i] = Wit(sats[i])) => \E Z : Piles(xs, n, Z) /\ Wit(s) = Z[n]

LEMMA Flattened ==
    ASSUME NEW a, NEW n \in Nat, NEW sats, Len(sats) = n, \A i \in 1..n : GoodSat(a, sats[i])
    PROVE  LET s == Flatten(sats)
           IN  /\ GoodSat(a, s)
               /\ IsStack(s.stack) <=> \A i \in 1..n : IsStack(sats[i].stack)
               /\ (\A i \in 1..n : ~sats[i].has_sig) => ~s.has_sig
               /\ IsStack(s.stack) => Piled(n, sats, s)
<1>1. PICK g : FoldIs(sats, n, g) /\ Flatten(sats) = g[n]
  BY FlattenIs
<1>2. GoodSat(a, g[0]) /\ ~g[0].has_sig /\ IsStack(g[0].stack) /\ Wit(g[0]) = <<>>
  <2>1. GoodItems(a, <<>>)
    BY ItemLaws
  <2>2. GoodStack(a, Stack(<<>>)) /\ IsStack(Stack(<<>>)) /\ Stack(<<>>).items = <<>>
    BY <2>1, StackForms
  <2> DEFINE w == Stack(<<>>)
  <2>3. g[0] = Satisfaction(w, FALSE)
    BY <1>1 DEF FoldIs
  <2> HIDE DEF w
  <2>4. \A h \in BOOLEAN : GoodSat(a, Satisfaction(w, h)) /\ Satisfaction(w, h).stack = w /\ Satisfaction(w, h).has_sig = h
    BY <2>2, PlainSat DEF w
  <2>5. GoodSat(a, g[0]) /\ g[0].stack = w /\ ~g[0].has_sig
    BY <2>3, <2>4, Zenon
  <2>6. IsStack(g[0].stack)
    BY <2>2, <2>5 DEF w
  <2>7. Wit(g[0]) = Comp(<<>>)
    BY <2>2, <2>5, Zenon DEF w, Wit
  <2> QED  BY <2>5, <2>6, <2>7, CompLaws
<1>3. \A i \in 1..n : g[i] = concatenate_rev(g[i - 1], sats[i])
  BY <1>1 DEF FoldIs
<1> DEFINE T == {k \in Nat : k <= n =>
                    /\ GoodSat(a, g[k])
                    /\ IsStack(g[k].stack) <=> \A i \in 1..k : IsStack(sats[i].stack)
                    /\ (\A i \in 1..k : ~sats[i].has_sig) => ~g[k].has_sig}
<1>4. 0 \in T
  BY <1>2
<1>5. ASSUME NEW k \in Nat, k \in T  PROVE k + 1 \in T
  <2> SUFFICES ASSUME k + 1 <= n
               PROVE  /\ GoodSat(a, g[k + 1])
                      /\ IsStack(g[k + 1].stack) <=> \A i \in 1..(k + 1) : IsStack(sats[i].stack)
                      /\ (\A i \in 1..(k + 1) : ~sats[i].has_sig) => ~g[k + 1].has_sig
    OBVIOUS
  <2> DEFINE i1 == k + 1
             e == g[k]
             s == sats[i1]
             z == concatenate_rev(e, s)
  <2>1. i1 \in 1..n /\ k <= n /\ i1 - 1 = k
    OBVIOUS
  <2>2. GoodSat(a, e) /\ (IsStack(e.stack) <=> \A i \in 1..k : IsStack(sats[i].stack))
        /\ ((\A i \in 1..k : ~sats[i].has_sig) => ~e.has_sig)
    BY <1>5, <2>1
  <2>3. GoodSat(a, s) /\ g[i1] = z
    BY <1>3, <2>1
  <2> HIDE DEF e, s
  <2>4. GoodSat(a, z) /\ (z.has_sig <=> e.has_sig \/ s.has_sig)
        /\ (IsStack(z.stack) <=> IsStack(e.stack) /\ IsStack(s.stack))
    BY <2>2, <2>3, Concatenated
  <2> HIDE DEF z
  <2>5. 1..i1 = (1..k) \cup {i1}
    OBVIOUS
  <2>6. (IsStack(z.stack) <=> \A i \in 1..i1 : IsStack(sats[i].stack))
        /\ ((\A i \in 1..i1 : ~sats[i].has_sig) => ~z.has_sig)
    <3> HIDE DEF i1
    <3> QED  BY <2>2, <2>4, <2>5 DEF s
  <2> QED  BY <2>3, <2>4, <2>6
<1> HIDE DEF T
<1>6. Nat \subseteq T
  BY <1>4, <1>5, SetInduction
<1>7. \A k \in 0..n : /\ GoodSat(a, g[k])
                      /\ IsStack(g[k].stack) <=> \A i \in 1..k : IsStack(sats[i].stack)
                      /\ (\A i \in 1..k : ~sats[i].has_sig) => ~g[k].has_sig
  BY <1>6 DEF T
<1>8. ASSUME IsStack(g[n].stack), NEW xs, \A i \in 1..n : xs[i] = Wit(sats[i])
      PROVE  \E Z : Piles(xs, n, Z) /\ Wit(g[n]) = Z[n]
  <2> DEFINE Z == [k \in 0..n |-> Wit(g[k])]
  <2>1. \A k \in 0..n : IsStack(g[k].stack)
    <3>1. \A i \in 1..n : IsStack(sats[i].stack)
      BY <1>7, <1>8
    <3> QED  BY <1>7, <3>1
  <2>2. ASSUME NEW i \in 1..n  PROVE IsSeq(xs[i]) /\ Z[i] = xs[i] ++ Z[i - 1]
    <3> DEFINE e == g[i - 1]
               s == sats[i]
    <3>1. i - 1 \in 0..n /\ i \in 0..n
      OBVIOUS
    <3>2. GoodSat(a, e) /\ GoodSat(a, s) /\ g[i] = concatenate_rev(e, s) /\ IsStack(g[i].stack)
      BY <1>3, <1>7, <2>1, <3>1
    <3>3. Z[i] = Wit(g[i]) /\ Z[i - 1] = Wit(e) /\ xs[i] = Wit(s)
      BY <1>8, <3>1
    <3> HIDE DEF Z, e, s
    <3>4. IsSeq(Wit(s)) /\ Wit(g[i]) = Wit(s) ++ Wit(e)
      BY <3>2, WitCat
    <3> QED  BY <3>3, <3>4
  <2>3. Z[0] = <<>> /\ Wit(g[n]) = Z[n]
    BY <1>2
  <2> HIDE DEF Z
  <2>4. Piles(xs, n, Z)
    BY <2>2, <2>3 DEF Piles
  <2> QED  BY <2>3, <2>4
<1>9. n \in 0..n
  OBVIOUS
<1>10. IsStack(g[n].stack) => Piled(n, sats, g[n])
  BY <1>8, Zenon DEF Piled
<1> QED  BY <1>1, <1>7, <1>9, <1>10

-----------------------------------------------------------------------------
(* What children of a threshold are sorted by. *)

LEMMA SizeInt ==
    ASSUME NEW a, NEW x, GoodItems(a, x)
    PROVE  witness_size(x) \in Int
<1> DEFINE n == Len(x)
           Is(f) == f = [i \in 0..n |-> IF i = 0 THEN 1 ELSE f[i - 1] + size(x[i])]
           Partial(k, W) == /\ W = [i \in 0..k |-> W[i]] /\ W[0] = 1
                         /\ \A i \in 1..k : W[i] = W[i - 1] + size(x[i])
           S == {k \in Nat : \E W : Partial(k, W)}
           g == CHOOSE f : Is(f)
<1>0. n \in Nat /\ \A i \in 1..n : size(x[i]) \in Int
  <2>1. IsSeq(x)
    BY DEF GoodItems
  <2> QED  BY <2>1, SeqForm DEF GoodItems, GoodItem
<1>1. 0 \in S
  <2> DEFINE W == [i \in 0..0 |-> 1]
  <2>1. Partial(0, W)
    OBVIOUS
  <2> QED  BY <2>1
<1>2. ASSUME NEW k \in Nat, k \in S  PROVE k + 1 \in S
  <2>1. PICK W : Partial(k, W)
    BY <1>2
  <2> DEFINE v == W[k] + size(x[k + 1])
             Z == [i \in 0..(k + 1) |-> IF i = k + 1 THEN v ELSE W[i]]
  <2> HIDE DEF v
  <2>2. Z[0] = 1 /\ Z = [i \in 0..(k + 1) |-> Z[i]]
    BY <2>1
  <2>3. ASSUME NEW i \in 1..(k + 1)  PROVE Z[i] = Z[i - 1] + size(x[i])
    <3>1. CASE i = k + 1
      <4>1. Z[i] = v /\ Z[i - 1] = W[k]
        BY <3>1
      <4> HIDE DEF Z
      <4> QED  BY <3>1, <4>1 DEF v
    <3>2. CASE i # k + 1
      <4>1. i \in 1..k /\ Z[i] = W[i] /\ Z[i - 1] = W[i - 1]
        BY <3>2
      <4> QED  BY <2>1, <4>1
    <3> QED  BY <3>1, <3>2
  <2> HIDE DEF Z
  <2>4. Partial(k + 1, Z)
    BY <2>2, <2>3
  <2> HIDE DEF Partial
  <2> QED  BY <2>4
<1> HIDE DEF S
<1>3. n \in S
  BY <1>0, <1>1, <1>2, SetInduction
<1>4. PICK W : Partial(n, W)
  BY <1>3 DEF S
<1>5. Is(W)
  <2>1. ASSUME NEW i \in 0..n  PROVE W[i] = IF i = 0 THEN 1 ELSE W[i - 1] + size(x[i])
    <3>1. CASE i = 0
      BY <1>4, <3>1
    <3>2. CASE i # 0
      <4>1. i \in 1..n
        BY <1>0, <3>2
      <4> QED  BY <1>4, <3>2, <4>1
    <3> QED  BY <3>1, <3>2
  <2>2. W = [i \in 0..n |-> W[i]]
    BY <1>4
  <2> QED  BY <2>1, <2>2
<1>6. witness_size(x) = g[n]
  BY Zenon DEF witness_size
<1>7. Is(g)
  <2> HIDE DEF Is
  <2>1. \E f : Is(f)
    BY <1>5
  <2> QED  BY <2>1, Zenon
<1> HIDE DEF g
<1>8. \A i \in 0..n : g[i] = IF i = 0 THEN 1 ELSE g[i - 1] + size(x[i])
  BY <1>7
<1> DEFINE T == {k \in Nat : k <= n => g[k] \in Int}
<1>9. 0 \in T
  BY <1>0, <1>8
<1>10. ASSUME NEW k \in Nat, k \in T  PROVE k + 1 \in T
  <2> SUFFICES ASSUME k + 1 <= n  PROVE g[k + 1] \in Int
    OBVIOUS
  <2>1. k + 1 \in 0..n /\ k + 1 # 0 /\ (k + 1) - 1 = k /\ k + 1 \in 1..n /\ k <= n
    BY <1>0
  <2>2. g[k + 1] = g[k] + size(x[k + 1])
    BY <1>8, <2>1
  <2> QED  BY <1>0, <1>10, <2>1, <2>2
<1> HIDE DEF T
<1>11. n \in T
  BY <1>0, <1>9, <1>10, SetInduction
<1> QED  BY <1>0, <1>6, <1>11 DEF T

LEMMA WeightInt ==
    ASSUME NEW a, NEW s, NEW t, GoodSat(a, s), GoodSat(a, t)
    PROVE  stack_weight(s, t) \in Int
<1>1. GoodStack(a, s.stack) /\ GoodStack(a, t.stack)
  BY DEF GoodSat
<1>2. CASE ~IsStack(s.stack)
  <2>1. stack_weight(s, t) = I64
    BY <1>2 DEF stack_weight, IsStack
  <2> QED  BY <2>1 DEF I64
<1>3. CASE IsStack(s.stack) /\ ~IsStack(t.stack)
  <2>1. stack_weight(s, t) = 0 - I64
    BY <1>3 DEF stack_weight, IsStack
  <2> QED  BY <2>1 DEF I64
<1>4. CASE IsStack(s.stack) /\ IsStack(t.stack)
  <2> DEFINE x == witness_size(s.stack.items)
             y == witness_size(t.stack.items)
  <2>1. stack_weight(s, t) = x - y
    BY <1>4 DEF stack_weight, IsStack
  <2>2. GoodItems(a, s.stack.items) /\ GoodItems(a, t.stack.items)
    BY <1>1, <1>4, StackForms
  <2>3. x \in Int /\ y \in Int
    BY <2>2, SizeInt
  <2> QED  BY <2>1, <2>3
<1> QED  BY <1>2, <1>3, <1>4

LEMMA LexTwo ==
    ASSUME NEW w, NEW i, NEW v, NEW j
    PROVE  LexLess(<<w, i>>, <<v, j>>) <=> w < v \/ (w = v /\ i < j)
<1> DEFINE s == <<w, i>>
           t == <<v, j>>
<1>1. DOMAIN s = {1, 2} /\ s[1] = w /\ s[2] = i /\ t[1] = v /\ t[2] = j
  OBVIOUS
<1> HIDE DEF s, t
<1>2. 1..(1 - 1) = {} /\ 1..(2 - 1) = {1}
  OBVIOUS
<1>3. LexLess(s, t) <=> s[1] < t[1] \/ (s[2] < t[2] /\ s[1] = t[1])
  BY <1>1, <1>2 DEF LexLess
<1> QED  BY <1>1, <1>3 DEF s, t

LEMMA LexFour ==
    ASSUME NEW b, NEW c, NEW w, NEW i, NEW e, NEW f, NEW v, NEW j
    PROVE  LexLess(<<b, c, w, i>>, <<e, f, v, j>>)
               <=> \/ b < e
                   \/ b = e /\ c < f
                   \/ b = e /\ c = f /\ w < v
                   \/ b = e /\ c = f /\ w = v /\ i < j
<1> DEFINE s == <<b, c, w, i>>
           t == <<e, f, v, j>>
<1>1. DOMAIN s = {1, 2, 3, 4}
  OBVIOUS
<1>2. s[1] = b /\ s[2] = c /\ s[3] = w /\ s[4] = i /\ t[1] = e /\ t[2] = f /\ t[3] = v /\ t[4] = j
  OBVIOUS
<1> HIDE DEF s, t
<1>3. 1..(1 - 1) = {} /\ 1..(2 - 1) = {1} /\ 1..(3 - 1) = {1, 2} /\ 1..(4 - 1) = {1, 2, 3}
  OBVIOUS
<1>4. LexLess(s, t)
               <=> \/ s[1] < t[1]
                   \/ s[1] = t[1] /\ s[2] < t[2]
                   \/ s[1] = t[1] /\ s[2] = t[2] /\ s[3] < t[3]
                   \/ s[1] = t[1] /\ s[2] = t[2] /\ s[3] = t[3] /\ s[4] < t[4]
  <2>1. LexLess(s, t) <=> \E n \in {1, 2, 3, 4} : s[n] < t[n] /\ \A m \in 1..(n - 1) : s[m] = t[m]
    BY <1>1 DEF LexLess
  <2> QED  BY <1>3, <2>1
<1> QED  BY <1>2, <1>4 DEF s, t

SortKey(mall, sats, diss, i) == sort_key(mall, sats[i], diss[i], i)

\* i is sorted before j.
Sooner(mall, sats, diss, i, j) == LexLess(SortKey(mall, sats, diss, i), SortKey(mall, sats, diss, j))

LEMMA SoonerIs ==
    ASSUME NEW mall \in BOOLEAN, NEW sats, NEW diss, NEW i, NEW j, NEW w, NEW v,
           w = stack_weight(sats[i], diss[i]), v = stack_weight(sats[j], diss[j]),
           NEW b, b = IF sats[i].stack = Impossible THEN 1 ELSE 0,
           NEW e, e = IF sats[j].stack = Impossible THEN 1 ELSE 0,
           NEW c, c = IF sats[i].has_sig THEN 1 ELSE 0,
           NEW f, f = IF sats[j].has_sig THEN 1 ELSE 0
    PROVE  Sooner(mall, sats, diss, i, j)
               <=> IF mall THEN w < v \/ (w = v /\ i < j)
                   ELSE \/ b < e
                        \/ b = e /\ c < f
                        \/ b = e /\ c = f /\ w < v
                        \/ b = e /\ c = f /\ w = v /\ i < j
<1>1. CASE mall
  <2>1. SortKey(mall, sats, diss, i) = <<w, i>> /\ SortKey(mall, sats, diss, j) = <<v, j>>
    BY <1>1, Zenon DEF SortKey, sort_key
  <2> QED  BY <1>1, <2>1, LexTwo DEF Sooner
<1>2. CASE ~mall
  <2>1. SortKey(mall, sats, diss, i) = <<b, c, w, i>> /\ SortKey(mall, sats, diss, j) = <<e, f, v, j>>
    BY <1>2, Zenon DEF SortKey, sort_key
  <2> QED  BY <1>2, <2>1, LexFour DEF Sooner
<1> QED  BY <1>1, <1>2

LEMMA SortOrder ==
    ASSUME NEW mall \in BOOLEAN, NEW sats, NEW diss, NEW n \in Nat,
           \A i \in 1..n : stack_weight(sats[i], diss[i]) \in Int,
           NEW R, \A i, j \in 1..n : <<i, j>> \in R <=> Sooner(mall, sats, diss, i, j)
    PROVE  StrictOrder(1..n, R)
<1> DEFINE B(i) == IF sats[i].stack = Impossible THEN 1 ELSE 0
           H(i) == IF sats[i].has_sig THEN 1 ELSE 0
           W(i) == stack_weight(sats[i], diss[i])
<1>1. \A i \in 1..n : B(i) \in Int /\ H(i) \in Int /\ W(i) \in Int
  OBVIOUS
<1>2. \A i, j \in 1..n : <<i, j>> \in R
               <=> IF mall THEN W(i) < W(j) \/ (W(i) = W(j) /\ i < j)
                   ELSE \/ B(i) < B(j)
                        \/ B(i) = B(j) /\ H(i) < H(j)
                        \/ B(i) = B(j) /\ H(i) = H(j) /\ W(i) < W(j)
                        \/ B(i) = B(j) /\ H(i) = H(j) /\ W(i) = W(j) /\ i < j
  <2> TAKE i, j \in 1..n
  <2>1. Sooner(mall, sats, diss, i, j)
               <=> IF mall THEN W(i) < W(j) \/ (W(i) = W(j) /\ i < j)
                   ELSE \/ B(i) < B(j)
                        \/ B(i) = B(j) /\ H(i) < H(j)
                        \/ B(i) = B(j) /\ H(i) = H(j) /\ W(i) < W(j)
                        \/ B(i) = B(j) /\ H(i) = H(j) /\ W(i) = W(j) /\ i < j
    BY SoonerIs
  <2> HIDE DEF B, H, W
  <2> QED  BY <2>1
<1> HIDE DEF B, H, W
<1>3. \A i \in 1..n : <<i, i>> \notin R
  BY <1>1, <1>2
<1>4. ASSUME NEW i \in 1..n, NEW j \in 1..n  PROVE i = j \/ <<i, j>> \in R \/ <<j, i>> \in R
  <2>1. i \in Int /\ j \in Int
    OBVIOUS
  <2>2. B(i) \in Int /\ H(i) \in Int /\ W(i) \in Int /\ B(j) \in Int /\ H(j) \in Int /\ W(j) \in Int
    BY <1>1
  <2> QED  BY <1>2, <2>1, <2>2
<1>5. ASSUME NEW i \in 1..n, NEW j \in 1..n, NEW k \in 1..n, <<i, j>> \in R, <<j, k>> \in R
      PROVE  <<i, k>> \in R
  <2>1. i \in Int /\ j \in Int /\ k \in Int
    OBVIOUS
  <2>2. B(i) \in Int /\ H(i) \in Int /\ W(i) \in Int /\ B(j) \in Int /\ H(j) \in Int /\ W(j) \in Int
        /\ B(k) \in Int /\ H(k) \in Int /\ W(k) \in Int
    BY <1>1
  <2>3. CASE mall
    BY <1>2, <1>5, <2>1, <2>2, <2>3
  <2>4. CASE ~mall
    <3>1. \/ B(i) < B(j)
          \/ B(i) = B(j) /\ H(i) < H(j)
          \/ B(i) = B(j) /\ H(i) = H(j) /\ W(i) < W(j)
          \/ B(i) = B(j) /\ H(i) = H(j) /\ W(i) = W(j) /\ i < j
      BY <1>2, <1>5, <2>4
    <3>2. \/ B(j) < B(k)
          \/ B(j) = B(k) /\ H(j) < H(k)
          \/ B(j) = B(k) /\ H(j) = H(k) /\ W(j) < W(k)
          \/ B(j) = B(k) /\ H(j) = H(k) /\ W(j) = W(k) /\ j < k
      BY <1>2, <1>5, <2>4
    <3>3. \/ B(i) < B(k)
          \/ B(i) = B(k) /\ H(i) < H(k)
          \/ B(i) = B(k) /\ H(i) = H(k) /\ W(i) < W(k)
          \/ B(i) = B(k) /\ H(i) = H(k) /\ W(i) = W(k) /\ i < k
      BY <2>1, <2>2, <3>1, <3>2
    <3> QED  BY <1>2, <2>4, <3>3
  <2> QED  BY <2>3, <2>4
<1> QED  BY <1>3, <1>4, <1>5 DEF StrictOrder

(* Without malleability a possible child that needs no signature comes      *)
(* after others of its kind only.                                           *)
LEMMA SoonerFree ==
    ASSUME NEW mall \in BOOLEAN, ~mall, NEW sats, NEW diss, NEW i, NEW j, Sooner(mall, sats, diss, j, i),
           sats[i].stack # Impossible, ~sats[i].has_sig
    PROVE  ~sats[j].has_sig
<1> DEFINE B(m) == IF sats[m].stack = Impossible THEN 1 ELSE 0
           H(m) == IF sats[m].has_sig THEN 1 ELSE 0
           W(m) == stack_weight(sats[m], diss[m])
<1>1. \/ B(j) < B(i)
      \/ B(j) = B(i) /\ H(j) < H(i)
      \/ B(j) = B(i) /\ H(j) = H(i) /\ W(j) < W(i)
      \/ B(j) = B(i) /\ H(j) = H(i) /\ W(j) = W(i) /\ j < i
  <2>1. Sooner(mall, sats, diss, j, i)
               <=> IF mall THEN W(j) < W(i) \/ (W(j) = W(i) /\ j < i)
                   ELSE \/ B(j) < B(i)
                        \/ B(j) = B(i) /\ H(j) < H(i)
                        \/ B(j) = B(i) /\ H(j) = H(i) /\ W(j) < W(i)
                        \/ B(j) = B(i) /\ H(j) = H(i) /\ W(j) = W(i) /\ j < i
    BY SoonerIs
  <2> HIDE DEF B, H, W
  <2> QED  BY <2>1
<1>2. B(i) = 0 /\ H(i) = 0 /\ B(j) \in {0, 1} /\ H(j) \in {0, 1}
  OBVIOUS
<1> HIDE DEF W
<1>3. H(j) = 0
  <2> HIDE DEF B, H
  <2> QED  BY <1>1, <1>2
<1> QED  BY <1>3

-----------------------------------------------------------------------------
(* Thresholds of some children. *)

ThreshRank(mall, sats, diss) ==
    [i \in DOMAIN sats |-> Cardinality({j \in DOMAIN sats : Sooner(mall, sats, diss, j, i)})]
ThreshRet(k, rank, sats, diss) ==
    [i \in DOMAIN sats |-> IF rank[i] < k THEN sats[i] ELSE diss[i]]
ThreshAt(k, rank, sats, diss, m) ==
    LET i == CHOOSE j \in DOMAIN sats : rank[j] = m
    IN  IF m < k THEN diss[i] ELSE sats[i]
ThreshNone(ret) ==
    [Satisfaction(Unavailable, FALSE) EXCEPT !.panic = \E i \in DOMAIN ret : ret[i].has_sig]
ThreshPick(mall, k, rank, ret, sats, diss) ==
    CASE mall -> Flatten(ret)
      [] ~mall /\ ThreshAt(k, rank, sats, diss, k - 1).stack = Impossible -> Satisfaction(Impossible, FALSE)
      [] /\ ~mall /\ ThreshAt(k, rank, sats, diss, k - 1).stack # Impossible
         /\ ~ThreshAt(k, rank, sats, diss, k).has_sig
         /\ ThreshAt(k, rank, sats, diss, k).stack # Impossible -> ThreshNone(ret)
      [] OTHER -> Flatten(ret)

LEMMA ThreshIs ==
    ASSUME NEW mall, NEW k, NEW sats, NEW diss,
           NEW rank, rank = ThreshRank(mall, sats, diss),
           NEW ret, ret = ThreshRet(k, rank, sats, diss),
           NEW ch, ch = ThreshPick(mall, k, rank, ret, sats, diss)
    PROVE  thresh(mall, k, sats, diss)
             = [ch EXCEPT !.panic = @ \/ \E i \in DOMAIN sats : sats[i].panic \/ diss[i].panic]
  BY Zenon DEF thresh, ThreshRank, ThreshRet, ThreshAt, ThreshNone, ThreshPick, SortKey, Sooner

\* Some k children are satisfied, the others dissatisfied.
Picked(n, k, sats, diss, oks, s) ==
    /\ k = Count({j \in 1..n : oks[j]}, n)
    /\ \A i \in 1..n : oks[i] \in BOOLEAN /\ IsStack((IF oks[i] THEN sats[i] ELSE diss[i]).stack)
    /\ \A xs : (\A i \in 1..n : xs[i] = Wit(IF oks[i] THEN sats[i] ELSE diss[i]))
            => \E Z : Piles(xs, n, Z) /\ Wit(s) = Z[n]

LEMMA PickedRet ==
    ASSUME NEW a, NEW n \in Nat, NEW k \in 0..n, NEW sats, NEW diss, DOMAIN sats = 1..n,
           \A i \in 1..n : GoodSat(a, sats[i]) /\ GoodSat(a, diss[i]),
           NEW rank, \A i \in 1..n : rank[i] \in Int,
           Cardinality({i \in 1..n : rank[i] < k}) = k,
           NEW ret, ret = ThreshRet(k, rank, sats, diss)
    PROVE  /\ GoodSat(a, Flatten(ret))
           /\ IsStack(Flatten(ret).stack) => \E oks : Picked(n, k, sats, diss, oks, Flatten(ret))
<1> DEFINE s == Flatten(ret)
           oks == [i \in 1..n |-> IF rank[i] < k THEN TRUE ELSE FALSE]
<1>1. ret = [i \in 1..n |-> IF rank[i] < k THEN sats[i] ELSE diss[i]]
  BY DEF ThreshRet
<1>2. \A i \in 1..n : ret[i] = IF rank[i] < k THEN sats[i] ELSE diss[i]
  BY <1>1
<1>3. Len(ret) = n
  <2>1. ret = [i \in 1..n |-> ret[i]]
    BY <1>1
  <2> QED  BY <2>1, FnSeq
<1>4. \A i \in 1..n : GoodSat(a, ret[i])
  BY <1>2
<1>5. /\ GoodSat(a, s)
      /\ IsStack(s.stack) <=> \A i \in 1..n : IsStack(ret[i].stack)
      /\ IsStack(s.stack) => Piled(n, ret, s)
  BY <1>3, <1>4, Flattened
<1> HIDE DEF s
<1>6. ASSUME IsStack(s.stack)  PROVE Picked(n, k, sats, diss, oks, s)
  <2>2. \A i \in 1..n : (oks[i] <=> rank[i] < k) /\ oks[i] \in BOOLEAN
    OBVIOUS
  <2> HIDE DEF oks
  <2>3. \A i \in 1..n : ret[i] = IF oks[i] THEN sats[i] ELSE diss[i]
    BY <1>2, <2>2
  <2>4. k = Count({j \in 1..n : oks[j]}, n)
    <3>1. {j \in 1..n : oks[j]} \cap (1..n) = {i \in 1..n : rank[i] < k}
      BY <2>2
    <3> QED  BY <3>1 DEF Count
  <2>5. ASSUME NEW xs, \A i \in 1..n : xs[i] = Wit(IF oks[i] THEN sats[i] ELSE diss[i])
        PROVE  \E Z : Piles(xs, n, Z) /\ Wit(s) = Z[n]
    <3>1. \A i \in 1..n : xs[i] = Wit(ret[i])
      BY <2>3, <2>5
    <3> QED  BY <1>5, <1>6, <3>1 DEF Piled
  <2>6. \A i \in 1..n : oks[i] \in BOOLEAN /\ IsStack((IF oks[i] THEN sats[i] ELSE diss[i]).stack)
    BY <1>5, <1>6, <2>2, <2>3
  <2> QED  BY <2>4, <2>5, <2>6 DEF Picked
<1> HIDE DEF oks
<1> QED  BY <1>5, <1>6 DEF s

LEMMA Thresholded ==
    ASSUME NEW a, NEW mall \in BOOLEAN, NEW n \in Nat, NEW k \in Nat, 1 <= k, k < n, NEW sats, NEW diss,
           DOMAIN sats = 1..n, \A i \in 1..n : GoodSat(a, sats[i]) /\ GoodSat(a, diss[i]),
           \A i \in 1..n : IsStack(diss[i].stack) /\ ~diss[i].has_sig
    PROVE  /\ GoodSat(a, thresh(mall, k, sats, diss))
           /\ IsStack(thresh(mall, k, sats, diss).stack)
                => \E oks : Picked(n, k, sats, diss, oks, thresh(mall, k, sats, diss))
<1> DEFINE rank == ThreshRank(mall, sats, diss)
           ret == ThreshRet(k, rank, sats, diss)
           ch == ThreshPick(mall, k, rank, ret, sats, diss)
           R == {p \in (1..n) \X (1..n) : Sooner(mall, sats, diss, p[1], p[2])}
           s == thresh(mall, k, sats, diss)
           Fine(t) == GoodSat(a, t) /\ (IsStack(t.stack) => \E oks : Picked(n, k, sats, diss, oks, t))
<1>1. \A i \in 1..n : stack_weight(sats[i], diss[i]) \in Int
  BY WeightInt
<1>2. \A i, j \in 1..n : <<i, j>> \in R <=> Sooner(mall, sats, diss, i, j)
  OBVIOUS
<1>3. StrictOrder(1..n, R)
  <2> HIDE DEF R
  <2> QED  BY <1>1, <1>2, SortOrder
<1>4. \A i \in 1..n : rank[i] = Cardinality({j \in 1..n : Sooner(mall, sats, diss, j, i)})
  BY DEF ThreshRank
<1> HIDE DEF R
<1>5. \A i \in 1..n : rank[i] = Cardinality(Before(1..n, R, i))
  <2>1. \A i \in 1..n : Before(1..n, R, i) = {j \in 1..n : Sooner(mall, sats, diss, j, i)}
    BY <1>2 DEF Before
  <2> HIDE DEF rank
  <2> QED  BY <1>4, <2>1
<1>6. IsFiniteSet(1..n) /\ Cardinality(1..n) = n
  BY FS_Interval
<1> HIDE DEF rank
<1>7. /\ \A i \in 1..n : rank[i] \in 0..(n - 1)
      /\ \A i, j \in 1..n : <<i, j>> \in R <=> rank[i] < rank[j]
      /\ \A m \in 0..(n - 1) : \E i \in 1..n : rank[i] = m
      /\ \A l \in 0..n : Cardinality({i \in 1..n : rank[i] < l}) = l
  <2> DEFINE I == 1..n
  <2>1. IsFiniteSet(I) /\ StrictOrder(I, R) /\ \A i \in I : rank[i] = Cardinality(Before(I, R, i))
    BY <1>3, <1>5, <1>6
  <2>2. Cardinality(I) = n
    BY <1>6
  <2> HIDE DEF I
  <2>3. /\ \A i \in I : rank[i] \in 0..(Cardinality(I) - 1)
        /\ \A i, j \in I : <<i, j>> \in R <=> rank[i] < rank[j]
        /\ \A m \in 0..(Cardinality(I) - 1) : \E i \in I : rank[i] = m
        /\ \A l \in 0..Cardinality(I) : Cardinality({i \in I : rank[i] < l}) = l
    BY <2>1, Ranks
  <2> QED  BY <2>2, <2>3 DEF I
<1> HIDE DEF ret
<1>8. Fine(Flatten(ret))
  <2>1. k \in 0..n /\ \A i \in 1..n : rank[i] \in Int
    BY <1>7
  <2>2. Cardinality({i \in 1..n : rank[i] < k}) = k
    BY <1>7, <2>1
  <2>3. ret = ThreshRet(k, rank, sats, diss)
    BY DEF ret
  <2> QED  BY <2>1, <2>2, <2>3, PickedRet
<1>9. ASSUME NEW w, NEW t, t = Satisfaction(w, FALSE), w = Impossible \/ w = Unavailable  PROVE Fine(t)
  <2>1. GoodStack(a, w) /\ ~IsStack(w)
    BY <1>9, StackForms
  <2>2. \A h \in BOOLEAN : GoodSat(a, Satisfaction(w, h)) /\ Satisfaction(w, h).stack = w
    BY <2>1, PlainSat
  <2>3. GoodSat(a, t) /\ t.stack = w
    BY <1>9, <2>2, Zenon
  <2> QED  BY <2>1, <2>3
<1>10. ASSUME ~mall, ~ThreshAt(k, rank, sats, diss, k).has_sig, ThreshAt(k, rank, sats, diss, k).stack # Impossible
       PROVE  Fine(ThreshNone(ret))
  <2> DEFINE i == CHOOSE j \in 1..n : rank[j] = k
             e == Satisfaction(Unavailable, FALSE)
  <2>1. i \in 1..n /\ rank[i] = k
    <3>1. \E j \in 1..n : rank[j] = k
      <4>1. k \in 0..(n - 1)
        OBVIOUS
      <4> QED  BY <1>7, <4>1
    <3> QED  BY <3>1
  <2>2. ThreshAt(k, rank, sats, diss, k) = sats[i]
    <3>1. ~(k < k)
      OBVIOUS
    <3> QED  BY <3>1, Zenon DEF ThreshAt
  <2> HIDE DEF i
  <2>3. sats[i].stack # Impossible /\ ~sats[i].has_sig
    BY <1>10, <2>2
  <2>4. ret = [j \in 1..n |-> IF rank[j] < k THEN sats[j] ELSE diss[j]]
    BY DEF ret, ThreshRet
  <2>5. DOMAIN ret = 1..n /\ \A j \in 1..n : ret[j] = IF rank[j] < k THEN sats[j] ELSE diss[j]
    BY <2>4
  <2>6. ASSUME NEW j \in 1..n  PROVE ~ret[j].has_sig
    <3>1. CASE rank[j] < k
      <4>1. <<j, i>> \in R
        BY <1>7, <2>1, <3>1
      <4>2. Sooner(mall, sats, diss, j, i)
        BY <1>2, <2>1, <4>1
      <4>3. ~sats[j].has_sig
        BY <1>10, <2>3, <4>2, SoonerFree
      <4> QED  BY <2>5, <3>1, <4>3
    <3>2. CASE ~(rank[j] < k)
      BY <2>5, <3>2
    <3> QED  BY <3>1, <3>2
  <2>7. (\E j \in DOMAIN ret : ret[j].has_sig) = FALSE
    BY <2>5, <2>6
  <2>8. ThreshNone(ret) = Calm(e)
    BY <2>7, Zenon DEF ThreshNone, Calm
  <2>9. Fine(e)
    BY <1>9
  <2> HIDE DEF e
  <2>10. GoodSat(a, Calm(e)) /\ Calm(e).stack = e.stack
    BY <2>9, FieldSet DEF Same
  <2>11. ~IsStack(e.stack)
    <3>1. e.stack = Unavailable
      BY DEF e, Satisfaction
    <3> QED  BY <3>1, StackForms
  <2> QED  BY <2>8, <2>10, <2>11
<1>11. Fine(ch)
  <2> DEFINE no == Satisfaction(Impossible, FALSE)
  <2>1. Fine(no)
    BY <1>9
  <2> HIDE DEF Fine, no
  <2>2. \/ ch = Flatten(ret)
        \/ ch = no
        \/ /\ ~mall /\ ~ThreshAt(k, rank, sats, diss, k).has_sig
           /\ ThreshAt(k, rank, sats, diss, k).stack # Impossible /\ ch = ThreshNone(ret)
    BY DEF ThreshPick, no
  <2> HIDE DEF ch
  <2> QED  BY <1>8, <1>10, <2>1, <2>2
<1> HIDE DEF ch
<1>12. s = Calm(ch)
  <2>1. s = [ch EXCEPT !.panic = @ \/ \E i \in DOMAIN sats : sats[i].panic \/ diss[i].panic]
    BY ThreshIs DEF ch, ret, rank
  <2>2. ~ch.panic
    BY <1>11 DEF GoodSat
  <2>3. \A i \in DOMAIN sats : ~sats[i].panic /\ ~diss[i].panic
    BY DEF GoodSat
  <2>4. (ch.panic \/ \E i \in DOMAIN sats : sats[i].panic \/ diss[i].panic) = FALSE
    BY <2>2, <2>3
  <2>5. s = [ch EXCEPT !.panic = (ch.panic \/ \E i \in DOMAIN sats : sats[i].panic \/ diss[i].panic)]
    BY <2>1, Zenon
  <2> QED  BY <2>4, <2>5, Zenon DEF Calm
<1> HIDE DEF s
<1>13. GoodSat(a, Calm(ch)) /\ Calm(ch).stack = ch.stack
  BY <1>11, FieldSet DEF Same
<1>14. ASSUME NEW oks, Picked(n, k, sats, diss, oks, ch)  PROVE Picked(n, k, sats, diss, oks, Calm(ch))
  <2>1. Wit(Calm(ch)) = Wit(ch)
    BY <1>13 DEF Wit
  <2> QED  BY <1>14, <2>1, Zenon DEF Picked
<1>15. Fine(s)
  BY <1>11, <1>12, <1>13, <1>14
<1> QED  BY <1>15 DEF s

-----------------------------------------------------------------------------
(* A fragment c with the script w, its satisfaction s and its              *)
(* dissatisfaction d: if they are stacks the script ends as they promise,  *)
(* and a fragment whose type tells so can be dissatisfied for free.        *)

Yields(env, c, w, x) == Gives(env, c, w, x, TRUE)
Fails(env, c, w, x) == Gives(env, c, w, x, FALSE)

SatOK(env, c, w, s) == GoodSat(env.tx, s) /\ (IsStack(s.stack) => Yields(env, c, w, Wit(s)))
DisOK(env, c, w, d) == GoodSat(env.tx, d) /\ (IsStack(d.stack) => Fails(env, c, w, Wit(d)))
FreeDis(c, d) == c.dissatisfiable => IsStack(d.stack) /\ ~d.has_sig

Sound(env, c, w, s, d) == Code(env, w) /\ SatOK(env, c, w, s) /\ DisOK(env, c, w, d) /\ FreeDis(c, d)

LEMMA NoStack ==
    ASSUME NEW env, NEW c, NEW w, NEW v, v = Impossible \/ v = Unavailable, NEW h \in BOOLEAN
    PROVE  /\ SatOK(env, c, w, Satisfaction(v, h)) /\ DisOK(env, c, w, Satisfaction(v, h))
           /\ ~c.dissatisfiable => FreeDis(c, Satisfaction(v, h))
<1>1. GoodStack(env.tx, v) /\ ~IsStack(v)
  BY StackForms
<1> DEFINE s == Satisfaction(v, h)
<1>2. GoodSat(env.tx, s) /\ s.stack = v
  BY <1>1, PlainSat
<1> HIDE DEF s
<1> QED  BY <1>1, <1>2 DEF SatOK, DisOK, FreeDis, s

LEMMA OneStack ==
    ASSUME NEW env, NEW x, GoodItems(env.tx, x), NEW h \in BOOLEAN
    PROVE  LET s == Satisfaction(Stack(x), h)
           IN  GoodSat(env.tx, s) /\ IsStack(s.stack) /\ Wit(s) = Comp(x) /\ s.has_sig = h
<1>1. GoodStack(env.tx, Stack(x)) /\ IsStack(Stack(x)) /\ Stack(x).items = x
  BY StackForms
<1> DEFINE v == Stack(x)
           s == Satisfaction(v, h)
<1> HIDE DEF v
<1>2. GoodSat(env.tx, s) /\ s.stack = v /\ s.has_sig = h
  BY <1>1, PlainSat DEF v
<1> HIDE DEF s
<1>3. Wit(s) = Comp(x)
  BY <1>1, <1>2, Zenon DEF Wit, v
<1> QED  BY <1>1, <1>2, <1>3 DEF s, v

LEMMA PushWit ==
    ASSUME NEW a, NEW s, GoodSat(a, s), NEW e, GoodItem(a, e)
    PROVE  /\ GoodSat(a, Push(s, e)) /\ Push(s, e).has_sig = s.has_sig
           /\ IsStack(Push(s, e).stack) <=> IsStack(s.stack)
           /\ IsStack(Push(s, e).stack) => Wit(Push(s, e)) = On(Wit(s), satisfy_self(e))
<1> DEFINE t == Push(s, e)
<1>1. /\ GoodSat(a, t) /\ t.has_sig = s.has_sig
      /\ IsStack(t.stack) <=> IsStack(s.stack)
      /\ IsStack(t.stack) => t.stack = Stack(s.stack.items ++ <<e>>)
  BY Pushed
<1> HIDE DEF t
<1>2. ASSUME IsStack(t.stack)  PROVE Wit(t) = On(Wit(s), satisfy_self(e))
  <2> DEFINE x == s.stack.items
             y == <<e>>
             z == x ++ y
  <2>1. IsSeq(x)
    BY <1>1, <1>2, StackForms DEF GoodSat
  <2>2. IsSeq(y) /\ Comp(y) = <<satisfy_self(e)>>
    BY ShortSeqs, CompLaws
  <2>3. t.stack = Stack(z)
    BY <1>1, <1>2
  <2> HIDE DEF x, y
  <2>4. IsSeq(z) /\ Comp(z) = Comp(x) ++ Comp(y)
    BY <2>1, <2>2, CatLaws, CompLaws
  <2> HIDE DEF z
  <2>5. Wit(t) = Comp(z)
    BY <2>3, <2>4, WitForms
  <2>6. Wit(s) = Comp(x)
    BY Zenon DEF Wit, x
  <2> QED  BY <2>2, <2>4, <2>5, <2>6, Zenon DEF On
<1> QED  BY <1>1, <1>2 DEF t

LEMMA SameWit ==
    ASSUME NEW s, NEW t, s.stack = t.stack
    PROVE  Wit(s) = Wit(t)
  BY DEF Wit

LEMMA PickOK ==
    ASSUME NEW env, NEW c, NEW w, NEW mall \in BOOLEAN, NEW s, NEW t,
           SatOK(env, c, w, s), SatOK(env, c, w, t)
    PROVE  SatOK(env, c, w, min_fn(mall, s, t))
<1> DEFINE m == min_fn(mall, s, t)
<1>1. GoodSat(env.tx, s) /\ GoodSat(env.tx, t)
  BY DEF SatOK
<1>2. GoodSat(env.tx, m) /\ (IsStack(m.stack) => m.stack = s.stack \/ m.stack = t.stack)
  BY <1>1, MinPick
<1> HIDE DEF m
<1>3. (m.stack = s.stack => Wit(m) = Wit(s)) /\ (m.stack = t.stack => Wit(m) = Wit(t))
  BY SameWit
<1> QED  BY <1>2, <1>3 DEF SatOK, m

LEMMA PickDisOK ==
    ASSUME NEW env, NEW c, NEW w, NEW s, NEW t, DisOK(env, c, w, s), DisOK(env, c, w, t)
    PROVE  DisOK(env, c, w, minimum_mall(s, t))
<1> DEFINE m == minimum_mall(s, t)
<1>1. GoodSat(env.tx, s) /\ GoodSat(env.tx, t)
  BY DEF DisOK
<1>2. GoodSat(env.tx, m) /\ (IsStack(m.stack) => m.stack = s.stack \/ m.stack = t.stack)
  <2>1. \A mall \in BOOLEAN : LET z == min_fn(mall, s, t)
            IN GoodSat(env.tx, z) /\ (IsStack(z.stack) => z.stack = s.stack \/ z.stack = t.stack)
    BY <1>1, MinPick
  <2>2. min_fn(TRUE, s, t) = m
    BY Zenon DEF min_fn
  <2> QED  BY <2>1, <2>2, Zenon
<1> HIDE DEF m
<1>3. (m.stack = s.stack => Wit(m) = Wit(s)) /\ (m.stack = t.stack => Wit(m) = Wit(t))
  BY SameWit
<1> QED  BY <1>2, <1>3 DEF DisOK, m

\* An assertion that held.
LEMMA CalmOK ==
    ASSUME NEW env, NEW c, NEW w, NEW s, SatOK(env, c, w, s)
    PROVE  SatOK(env, c, w, Calm(s))
<1> DEFINE t == Calm(s)
<1>1. GoodSat(env.tx, t) /\ t.stack = s.stack
  BY FieldSet DEF SatOK, Same
<1> HIDE DEF t
<1>2. Wit(t) = Wit(s)
  BY <1>1, SameWit
<1> QED  BY <1>1, <1>2 DEF SatOK, t

LEMMA CatOK ==
    ASSUME NEW env, NEW one, NEW two, GoodSat(env.tx, one), GoodSat(env.tx, two)
    PROVE  LET s == concatenate_rev(one, two)
           IN  /\ GoodSat(env.tx, s)
               /\ s.has_sig <=> one.has_sig \/ two.has_sig
               /\ IsStack(s.stack) <=> IsStack(one.stack) /\ IsStack(two.stack)
               /\ IsStack(s.stack) => Wit(s) = Wit(two) ++ Wit(one)
<1> DEFINE s == concatenate_rev(one, two)
<1>1. /\ GoodSat(env.tx, s)
      /\ s.has_sig <=> one.has_sig \/ two.has_sig
      /\ IsStack(s.stack) <=> IsStack(one.stack) /\ IsStack(two.stack)
  BY Concatenated
<1>2. IsStack(s.stack) => Wit(s) = Wit(two) ++ Wit(one)
  BY WitCat
<1> QED  BY <1>1, <1>2

-----------------------------------------------------------------------------
(* Wrappers. *)

WrapFacts(f, x, c) ==
    /\ f = "Alt" => x.base = "B" /\ c.base = "W" /\ c.input = "Any"
    /\ f = "Swap" => x.base = "B" /\ x.input \in {"One", "OneNonZero"} /\ c.base = "W" /\ c.input = "Any"
    /\ f = "Check" => x.base = "K" /\ c.base = "B" /\ c.input = x.input
    /\ f = "ZeroNotEqual" => x.base = "B" /\ c.base = "B" /\ c.input = x.input
    /\ f = "DupIf" => x.base = "V" /\ x.input = "Zero" /\ c.base = "B" /\ c.input = "OneNonZero"
    /\ f = "Verify" => x.base = "B" /\ c.base = "V" /\ c.input = x.input /\ ~c.dissatisfiable
    /\ f = "NonZero" => x.base = "B" /\ x.input \in {"OneNonZero", "AnyNonZero"} /\ c.base = "B" /\ c.input = x.input
    /\ f \in {"Alt", "Swap", "NonZero"} => (c.unit => x.unit)
    /\ f \in {"Alt", "Swap", "Check", "ZeroNotEqual"} => (c.dissatisfiable => x.dissatisfiable)

LEMMA SameSound ==
    ASSUME NEW env, NEW x, NEW c, NEW w, NEW u, NEW s, NEW d, Sound(env, x, w, s, d), Code(env, u),
           \A y : \A ok \in BOOLEAN : Gives(env, x, w, y, ok) => Gives(env, c, u, y, ok),
           c.dissatisfiable => x.dissatisfiable
    PROVE  Sound(env, c, u, s, d)
<1>1. \A y : (Yields(env, x, w, y) => Yields(env, c, u, y)) /\ (Fails(env, x, w, y) => Fails(env, c, u, y))
  BY Zenon DEF Yields, Fails
<1> QED  BY <1>1 DEF Sound, SatOK, DisOK, FreeDis

LEMMA WrapScripts ==
    ASSUME NEW t, NEW sub, IsSeq(sub[1])
    PROVE  LET w == sub[1]
               e == encode_node(t, sub)
           IN  /\ t.frag = "Alt" => e = <<Op("ToAltStack")>> ++ w ++ <<Op("FromAltStack")>>
               /\ t.frag = "Swap" => e = <<Op("Swap")>> ++ w
               /\ t.frag = "Check" => e = w ++ <<Op("CheckSig")>>
               /\ t.frag = "DupIf" => e = <<Op("Dup")>> ++ (<<Op("If")>> ++ w ++ <<Op("EndIf")>>)
               /\ t.frag = "Verify" => e = push_verify(w)
               /\ t.frag = "NonZero" =>
                    e = (<<Op("Size")>> ++ <<Op("ZeroNotEqual")>>) ++ (<<Op("If")>> ++ w ++ <<Op("EndIf")>>)
               /\ t.frag = "ZeroNotEqual" => e = w ++ <<Op("ZeroNotEqual")>>
<1> DEFINE w == sub[1]
           e == encode_node(t, sub)
<1>0. \A o : IsSeq(<<Op(o)>>)
  BY ShortSeqs
<1>1. ASSUME t.frag = "Alt"  PROVE e = <<Op("ToAltStack")>> ++ w ++ <<Op("FromAltStack")>>
  BY <1>1 DEF encode_node, HashFrags, ++
<1>2. ASSUME t.frag = "Swap"  PROVE e = <<Op("Swap")>> ++ w
  BY <1>2 DEF encode_node, HashFrags, ++
<1>3. ASSUME t.frag = "Check"  PROVE e = w ++ <<Op("CheckSig")>>
  <2>1. e = Append(w, Op("CheckSig"))
    BY <1>3 DEF encode_node, HashFrags
  <2> HIDE DEF e, w
  <2> QED  BY <2>1, AppendOn DEF On, w
<1>4. ASSUME t.frag = "DupIf"  PROVE e = <<Op("Dup")>> ++ (<<Op("If")>> ++ w ++ <<Op("EndIf")>>)
  <2> DEFINE o1 == <<Op("Dup")>>
             o2 == <<Op("If")>>
             o3 == <<Op("EndIf")>>
  <2>1. e = (<<Op("Dup"), Op("If")>> ++ w) ++ o3
    BY <1>4 DEF encode_node, HashFrags, ++
  <2>2. <<Op("Dup"), Op("If")>> = o1 ++ o2
    BY ShortSeqs, Zenon DEF ++
  <2>3. IsSeq(o1) /\ IsSeq(o2) /\ IsSeq(o3) /\ IsSeq(w)
    BY <1>0
  <2> HIDE DEF e, w, o1, o2, o3
  <2>4. IsSeq(o1 ++ o2) /\ IsSeq(o2 ++ w)
    BY <2>3, CatLaws
  <2>5. ((o1 ++ o2) ++ w) ++ o3 = o1 ++ ((o2 ++ w) ++ o3)
    BY <2>3, <2>4, CatLaws
  <2> QED  BY <2>1, <2>2, <2>5 DEF o1, o2, o3
<1>5. ASSUME t.frag = "Verify"  PROVE e = push_verify(w)
  BY <1>5 DEF encode_node, HashFrags
<1>6. ASSUME t.frag = "NonZero"
      PROVE  e = (<<Op("Size")>> ++ <<Op("ZeroNotEqual")>>) ++ (<<Op("If")>> ++ w ++ <<Op("EndIf")>>)
  <2> DEFINE o0 == <<Op("Size")>>
             o1 == <<Op("ZeroNotEqual")>>
             o2 == <<Op("If")>>
             o3 == <<Op("EndIf")>>
  <2>1. e = (<<Op("Size"), Op("ZeroNotEqual"), Op("If")>> ++ w) ++ o3
    BY <1>6 DEF encode_node, HashFrags, ++
  <2>2. <<Op("Size"), Op("ZeroNotEqual"), Op("If")>> = o0 ++ (o1 ++ o2)
    BY ShortSeqs, Zenon DEF ++
  <2>3. IsSeq(o0) /\ IsSeq(o1) /\ IsSeq(o2) /\ IsSeq(o3) /\ IsSeq(w)
    BY <1>0
  <2> HIDE DEF e, w, o0, o1, o2, o3
  <2>4. IsSeq(o0 ++ o1) /\ IsSeq(o2 ++ w) /\ IsSeq((o0 ++ o1) ++ o2)
    BY <2>3, CatLaws
  <2>5. ((o0 ++ (o1 ++ o2)) ++ w) ++ o3 = (o0 ++ o1) ++ ((o2 ++ w) ++ o3)
    <3>1. o0 ++ (o1 ++ o2) = (o0 ++ o1) ++ o2
      BY <2>3, CatLaws
    <3>2. ((o0 ++ o1) ++ o2) ++ w = (o0 ++ o1) ++ (o2 ++ w)
      BY <2>3, <2>4, CatLaws
    <3>3. ((o0 ++ o1) ++ (o2 ++ w)) ++ o3 = (o0 ++ o1) ++ ((o2 ++ w) ++ o3)
      BY <2>3, <2>4, CatLaws
    <3> QED  BY <3>1, <3>2, <3>3
  <2> QED  BY <2>1, <2>2, <2>5 DEF o0, o1, o2, o3
<1>7. ASSUME t.frag = "ZeroNotEqual"  PROVE e = w ++ <<Op("ZeroNotEqual")>>
  <2>1. e = Append(w, Op("ZeroNotEqual"))
    BY <1>7 DEF encode_node, HashFrags
  <2> HIDE DEF e, w
  <2> QED  BY <2>1, AppendOn DEF On, w
<1> QED  BY <1>1, <1>2, <1>3, <1>4, <1>5, <1>6, <1>7

Zeros(n) == [i \in 1..n |-> PushZero]

LEMMA ZerosAre ==
    ASSUME NEW n \in Nat
    PROVE  /\ IsSeq(Zeros(n)) /\ Len(Zeros(n)) = n /\ \A a : GoodItems(a, Zeros(n))
           /\ IsSeq(Comp(Zeros(n))) /\ Len(Comp(Zeros(n))) = n
           /\ \A i \in 1..n : Comp(Zeros(n))[i] = number(0)
           /\ n = 1 => Comp(Zeros(n)) = <<number(0)>>
           /\ n >= 1 => Comp(Zeros(n)) = <<number(0)>> ++ Comp(Zeros(n - 1))
<1>1. \A m \in Nat : IsSeq(Zeros(m)) /\ Len(Zeros(m)) = m /\ \A i \in 1..m : Zeros(m)[i] = PushZero
  <2> TAKE m \in Nat
  <2> DEFINE z == Zeros(m)
  <2>1. z = [i \in 1..m |-> z[i]] /\ \A i \in 1..m : z[i] = PushZero
    BY DEF Zeros
  <2> HIDE DEF z
  <2>2. IsSeq(z) /\ Len(z) = m
    BY <2>1, FnSeq
  <2> QED  BY <2>1, <2>2 DEF z
<1>2. \A m \in Nat : /\ IsSeq(Comp(Zeros(m))) /\ Len(Comp(Zeros(m))) = m
                     /\ \A i \in 1..m : Comp(Zeros(m))[i] = number(0)
  BY <1>1, CompLaws, CompletedItems
<1>3. ASSUME NEW a  PROVE GoodItems(a, Zeros(n))
  BY <1>1, KnownItems DEF GoodItems
<1>4. ASSUME n >= 1  PROVE Comp(Zeros(n)) = <<number(0)>> ++ Comp(Zeros(n - 1))
  <2> DEFINE o == <<number(0)>>
             x == Comp(Zeros(n - 1))
             y == o ++ x
             z == Comp(Zeros(n))
             zero == number(0)
  <2>1. n - 1 \in Nat
    BY <1>4
  <2>2. IsSeq(o) /\ Len(o) = 1 /\ o[1] = zero
    <3> HIDE DEF zero
    <3> QED  BY ShortSeqs DEF zero
  <2>3. IsSeq(x) /\ Len(x) = n - 1 /\ \A i \in 1..(n - 1) : x[i] = zero
    BY <1>2, <2>1
  <2>4. IsSeq(z) /\ Len(z) = n /\ \A i \in 1..n : z[i] = zero
    BY <1>2
  <2> HIDE DEF o, x, z, zero
  <2>5. CatShape(o, x, y) /\ IsSeq(y)
    BY <2>2, <2>3, CatElems, CatLaws
  <2> HIDE DEF y
  <2>6. Len(y) = n
    BY <2>1, <2>2, <2>3, <2>5 DEF CatShape
  <2>7. ASSUME NEW i \in 1..n  PROVE y[i] = zero
    <3>1. CASE i = 1
      BY <2>2, <2>5, <3>1 DEF CatShape
    <3>2. CASE i # 1
      <4>1. i - 1 \in 1..(n - 1) /\ i = 1 + (i - 1)
        BY <3>2
      <4>2. y[i] = x[i - 1]
        BY <2>2, <2>3, <2>5, <4>1 DEF CatShape
      <4> QED  BY <2>3, <4>1, <4>2
    <3> QED  BY <3>1, <3>2
  <2>8. y = z
    BY <2>4, <2>5, <2>6, <2>7, SeqEq
  <2> QED  BY <2>8 DEF y, z, o, x, zero
<1>5. ASSUME n = 1  PROVE Comp(Zeros(n)) = <<number(0)>>
  <2>1. Zeros(n - 1) = <<>>
    <3>1. n - 1 = 0
      BY <1>5
    <3>2. IsSeq(Zeros(0)) /\ Len(Zeros(0)) = 0
      BY <1>1
    <3>3. Zeros(0) = <<>>
      BY <3>2, ShortSeqs, SeqEq
    <3> QED  BY <3>1, <3>3
  <2>2. Comp(Zeros(n)) = <<number(0)>> ++ Comp(<<>>)
    <3>1. n >= 1
      BY <1>5
    <3> QED  BY <1>4, <2>1, <3>1
  <2>3. IsSeq(<<number(0)>>)
    BY ShortSeqs
  <2> DEFINE o == <<number(0)>>
  <2> HIDE DEF o
  <2>4. o ++ Comp(<<>>) = o
    BY <2>3, CompLaws, CatLaws DEF o
  <2> QED  BY <2>2, <2>4 DEF o
<1> QED  BY <1>1, <1>2, <1>3, <1>4, <1>5

LEMMA WrapSound ==
    ASSUME NEW env, env.avail = {}, NEW t, t.frag \in WrapFrags, NEW sub, NEW s, NEW d, NEW rhs, NEW mall,
           NEW x, NEW c, WrapFacts(t.frag, x, c), Sound(env, x, sub[1], s[1], d[1])
    PROVE  Sound(env, c, encode_node(t, sub), satisfy_helper(t, env.tx, rhs, mall, s, d),
                 dissatisfy_helper(t, env.tx, s, d))
<1> DEFINE w == sub[1]
           u == encode_node(t, sub)
           s1 == s[1]
           d1 == d[1]
           s2 == satisfy_helper(t, env.tx, rhs, mall, s, d)
           d2 == dissatisfy_helper(t, env.tx, s, d)
           no == Satisfaction(Impossible, FALSE)
           zero == Satisfaction(Stack(Zeros(1)), FALSE)
<1>0. Code(env, w) /\ IsSeq(w) /\ Sound(env, x, w, s1, d1)
  BY DEF Sound, Code
<1>1. /\ t.frag = "Alt" => u = <<Op("ToAltStack")>> ++ w ++ <<Op("FromAltStack")>>
      /\ t.frag = "Swap" => u = <<Op("Swap")>> ++ w
      /\ t.frag = "Check" => u = w ++ <<Op("CheckSig")>>
      /\ t.frag = "DupIf" => u = <<Op("Dup")>> ++ (<<Op("If")>> ++ w ++ <<Op("EndIf")>>)
      /\ t.frag = "Verify" => u = push_verify(w)
      /\ t.frag = "NonZero" =>
                    u = (<<Op("Size")>> ++ <<Op("ZeroNotEqual")>>) ++ (<<Op("If")>> ++ w ++ <<Op("EndIf")>>)
      /\ t.frag = "ZeroNotEqual" => u = w ++ <<Op("ZeroNotEqual")>>
  BY <1>0, WrapScripts
<1>2. /\ t.frag # "DupIf" => s2 = s1
      /\ t.frag = "DupIf" => s2 = Push(s1, PushOne)
  <2> USE DEF satisfy_helper, WrapFrags, HashFrags, InscribeFrags
  <2>1. CASE t.frag = "Alt"
    BY <2>1
  <2>2. CASE t.frag = "Swap"
    BY <2>2
  <2>3. CASE t.frag = "Check"
    BY <2>3
  <2>4. CASE t.frag = "DupIf"
    BY <2>4
  <2>5. CASE t.frag = "Verify"
    BY <2>5
  <2>6. CASE t.frag = "NonZero"
    BY <2>6
  <2>7. CASE t.frag = "ZeroNotEqual"
    BY <2>7
  <2> HIDE DEF s2, s1
  <2> QED  BY <2>1, <2>2, <2>3, <2>4, <2>5, <2>6, <2>7
<1>3. /\ t.frag \in {"Alt", "Swap", "Check", "ZeroNotEqual"} => d2 = d1
      /\ t.frag = "Verify" => d2 = no
      /\ t.frag \in {"DupIf", "NonZero"} => d2 = zero
  <2>1. t.frag \in {"Alt", "Swap", "Check", "ZeroNotEqual"} => d2 = d1
    BY DEF dissatisfy_helper, WrapFrags, HashFrags, InscribeFrags
  <2>2. t.frag = "Verify" => d2 = no
    BY DEF dissatisfy_helper, WrapFrags, HashFrags, InscribeFrags
  <2>3. t.frag \in {"DupIf", "NonZero"} => d2 = zero
    BY DEF dissatisfy_helper, WrapFrags, HashFrags, InscribeFrags, Zeros
  <2> QED  BY <2>1, <2>2, <2>3
<1>4. GoodSat(env.tx, zero) /\ IsStack(zero.stack) /\ Wit(zero) = <<number(0)>> /\ ~zero.has_sig
  <2>1. GoodItems(env.tx, Zeros(1)) /\ Comp(Zeros(1)) = <<number(0)>>
    BY ZerosAre
  <2> DEFINE z == Zeros(1)
  <2> HIDE DEF z
  <2>2. \A h \in BOOLEAN : LET q == Satisfaction(Stack(z), h)
                           IN  GoodSat(env.tx, q) /\ IsStack(q.stack) /\ Wit(q) = Comp(z) /\ q.has_sig = h
    BY <2>1, OneStack DEF z
  <2> QED  BY <2>1, <2>2, Zenon DEF z
<1> HIDE DEF u, s2, d2, no, zero, w, s1, d1
<1>5. CASE t.frag \in {"Alt", "Swap", "Check", "ZeroNotEqual"}
  <2>1. Code(env, u) /\ \A y : \A ok \in BOOLEAN : Gives(env, x, w, y, ok) => Gives(env, c, u, y, ok)
    <3>1. CASE t.frag = "Alt"
      BY <1>0, <1>1, <3>1, AltGives DEF WrapFacts
    <3>2. CASE t.frag = "Swap"
      BY <1>0, <1>1, <3>2, SwapGives DEF WrapFacts
    <3>3. CASE t.frag = "Check"
      <4>1. u = w ++ <<Op("CheckSig")>> /\ x.base = "K" /\ c.base = "B" /\ c.input = x.input
        BY <1>1, <3>3 DEF WrapFacts
      <4>2. Code(env, w)
        BY <1>0
      <4>3. ASSUME NEW y, NEW ok \in BOOLEAN
            PROVE  Code(env, u) /\ (Gives(env, x, w, y, ok) => Gives(env, c, u, y, ok))
        BY <4>1, <4>2, CheckGives
      <4> QED  BY <4>3, Zenon
    <3>4. CASE t.frag = "ZeroNotEqual"
      <4>1. u = w ++ <<Op("ZeroNotEqual")>> /\ x.base = "B" /\ c.base = "B" /\ c.input = x.input
        BY <1>1, <3>4 DEF WrapFacts
      <4>2. Code(env, w)
        BY <1>0
      <4>3. ASSUME NEW y, NEW ok \in BOOLEAN
            PROVE  Code(env, u) /\ (Gives(env, x, w, y, ok) => Gives(env, c, u, y, ok))
        BY <4>1, <4>2, ZeroNotEqualGives
      <4> QED  BY <4>3, Zenon
    <3> QED  BY <1>5, <3>1, <3>2, <3>3, <3>4
  <2>2. c.dissatisfiable => x.dissatisfiable
    BY <1>5 DEF WrapFacts
  <2>3. Sound(env, c, u, s1, d1)
    BY <1>0, <2>1, <2>2, SameSound
  <2>4. s2 = s1 /\ d2 = d1
    BY <1>2, <1>3, <1>5
  <2> QED  BY <2>3, <2>4 DEF u, s2, d2
<1>6. CASE t.frag = "Verify"
  <2>1. Code(env, u) /\ \A y : Yields(env, x, w, y) => Yields(env, c, u, y)
    <3>1. u = push_verify(w)
      BY <1>1, <1>6
    <3>2. x.base = "B" /\ c.base = "V" /\ c.input = x.input
      BY <1>6 DEF WrapFacts
    <3> QED  BY <1>0, <3>1, <3>2, VerifyGives DEF Yields
  <2>2. SatOK(env, c, u, s1)
    BY <1>0, <2>1 DEF Sound, SatOK
  <2>3. DisOK(env, c, u, no) /\ FreeDis(c, no)
    <3>1. \A h \in BOOLEAN : LET q == Satisfaction(Impossible, h)
            IN DisOK(env, c, u, q) /\ (~c.dissatisfiable => FreeDis(c, q))
      BY NoStack
    <3>2. ~c.dissatisfiable
      BY <1>6 DEF WrapFacts
    <3> QED  BY <3>1, <3>2, Zenon DEF no
  <2>4. s2 = s1 /\ d2 = no
    BY <1>2, <1>3, <1>6
  <2>5. Sound(env, c, u, s2, d2)
    BY <2>1, <2>2, <2>3, <2>4 DEF Sound
  <2> QED  BY <2>5 DEF u, s2, d2
<1>7. CASE t.frag = "NonZero"
  <2>1. /\ Code(env, u) /\ \A y : Yields(env, x, w, y) => Yields(env, c, u, y)
        /\ Fails(env, c, u, <<number(0)>>)
    <3>1. u = (<<Op("Size")>> ++ <<Op("ZeroNotEqual")>>) ++ (<<Op("If")>> ++ w ++ <<Op("EndIf")>>)
      BY <1>1, <1>7
    <3>2. x.base = "B" /\ x.input \in {"OneNonZero", "AnyNonZero"} /\ c.base = "B" /\ c.input = x.input /\ (c.unit => x.unit)
      BY <1>7 DEF WrapFacts
    <3> QED  BY <1>0, <3>1, <3>2, NonZeroGives DEF Yields, Fails
  <2>2. SatOK(env, c, u, s1)
    BY <1>0, <2>1 DEF Sound, SatOK
  <2>3. DisOK(env, c, u, zero) /\ FreeDis(c, zero)
    BY <1>4, <2>1 DEF DisOK, FreeDis
  <2>4. s2 = s1 /\ d2 = zero
    BY <1>2, <1>3, <1>7
  <2>5. Sound(env, c, u, s2, d2)
    BY <2>1, <2>2, <2>3, <2>4 DEF Sound
  <2> QED  BY <2>5 DEF u, s2, d2
<1>8. CASE t.frag = "DupIf"
  <2> DEFINE p == Push(s1, PushOne)
  <2>1. /\ Code(env, u) /\ \A y : Yields(env, x, w, y) => Yields(env, c, u, On(y, number(1)))
        /\ Fails(env, c, u, <<number(0)>>)
    <3>1. u = <<Op("Dup")>> ++ (<<Op("If")>> ++ w ++ <<Op("EndIf")>>)
      BY <1>1, <1>8
    <3>2. x.base = "V" /\ x.input = "Zero" /\ c.base = "B" /\ c.input = "OneNonZero"
      BY <1>8 DEF WrapFacts
    <3> QED  BY <1>0, <3>1, <3>2, DupIfGives DEF Yields, Fails
  <2>2. SatOK(env, c, u, p)
    <3>1. GoodSat(env.tx, s1) /\ (IsStack(s1.stack) => Yields(env, x, w, Wit(s1)))
      BY <1>0 DEF Sound, SatOK
    <3>2. GoodItem(env.tx, PushOne) /\ satisfy_self(PushOne) = number(1)
      BY KnownItems, CompletedItems
    <3>3. /\ GoodSat(env.tx, p) /\ (IsStack(p.stack) <=> IsStack(s1.stack))
          /\ IsStack(p.stack) => Wit(p) = On(Wit(s1), number(1))
      <4> DEFINE one == PushOne
      <4> HIDE DEF one
      <4>1. GoodItem(env.tx, one) /\ satisfy_self(one) = number(1) /\ p = Push(s1, one)
        BY <3>2 DEF one
      <4> HIDE DEF p
      <4> QED  BY <3>1, <4>1, PushWit
    <3> HIDE DEF p
    <3> QED  BY <2>1, <3>1, <3>3 DEF SatOK
  <2> HIDE DEF p
  <2>3. DisOK(env, c, u, zero) /\ FreeDis(c, zero)
    BY <1>4, <2>1 DEF DisOK, FreeDis
  <2>4. s2 = p /\ d2 = zero
    BY <1>2, <1>3, <1>8 DEF p
  <2>5. Sound(env, c, u, s2, d2)
    BY <2>1, <2>2, <2>3, <2>4 DEF Sound
  <2> QED  BY <2>5 DEF u, s2, d2
<1> QED  BY <1>5, <1>6, <1>7, <1>8 DEF WrapFrags

\* A satisfaction (ok) or a dissatisfaction (~ok) does what it should.
ResOK(env, c, w, s, ok) == GoodSat(env.tx, s) /\ (IsStack(s.stack) => Gives(env, c, w, Wit(s), ok))

LEMMA Results ==
    ASSUME NEW env, NEW c, NEW w, NEW s, NEW yes \in BOOLEAN, NEW no \in BOOLEAN, yes, ~no
    PROVE  /\ SatOK(env, c, w, s) <=> ResOK(env, c, w, s, yes)
           /\ DisOK(env, c, w, s) <=> ResOK(env, c, w, s, no)
           /\ \A x : Yields(env, c, w, x) <=> Gives(env, c, w, x, yes)
           /\ \A x : Fails(env, c, w, x) <=> Gives(env, c, w, x, no)
<1>1. yes = TRUE /\ no = FALSE
  OBVIOUS
<1> QED  BY <1>1, Zenon DEF SatOK, DisOK, Yields, Fails, ResOK

LEMMA CatRes ==
    ASSUME NEW env, NEW x, NEW y, NEW c, NEW u1, NEW u2, NEW w, NEW one, NEW two,
           NEW a \in BOOLEAN, NEW b \in BOOLEAN, NEW ok \in BOOLEAN,
           ResOK(env, x, u1, one, a), ResOK(env, y, u2, two, b),
           \A p, q : Gives(env, x, u1, p, a) /\ Gives(env, y, u2, q, b) => Gives(env, c, w, q ++ p, ok)
    PROVE  ResOK(env, c, w, concatenate_rev(one, two), ok)
<1> DEFINE s == concatenate_rev(one, two)
<1>1. /\ GoodSat(env.tx, s)
      /\ IsStack(s.stack) <=> IsStack(one.stack) /\ IsStack(two.stack)
      /\ IsStack(s.stack) => Wit(s) = Wit(two) ++ Wit(one)
  BY CatOK DEF ResOK
<1> HIDE DEF s
<1> QED  BY <1>1 DEF ResOK, s

\* The dissatisfactions of two children one after the other.
LEMMA CatFree ==
    ASSUME NEW env, NEW x, NEW y, NEW c, NEW one, NEW two, GoodSat(env.tx, one), GoodSat(env.tx, two),
           FreeDis(x, one), FreeDis(y, two), c.dissatisfiable => x.dissatisfiable /\ y.dissatisfiable
    PROVE  FreeDis(c, concatenate_rev(one, two))
<1> DEFINE s == concatenate_rev(one, two)
<1>1. /\ s.has_sig <=> one.has_sig \/ two.has_sig
      /\ IsStack(s.stack) <=> IsStack(one.stack) /\ IsStack(two.stack)
  BY CatOK
<1> HIDE DEF s
<1> QED  BY <1>1 DEF FreeDis, s

-----------------------------------------------------------------------------
(* Inscriptions. *)

LEMMA InscribeSound ==
    ASSUME NEW env, NEW t, t.frag \in InscribeFrags, IsSeq(t.args), NEW sub, NEW s, NEW d, NEW rhs, NEW mall,
           NEW c, Sound(env, c, sub[1], s[1], d[1])
    PROVE  Sound(env, c, encode_node(t, sub), satisfy_helper(t, env.tx, rhs, mall, s, d),
                 dissatisfy_helper(t, env.tx, s, d))
<1> DEFINE w == sub[1]
           u == encode_node(t, sub)
           p == [i \in DOMAIN t.args |-> <<"Inscription", t.args[i]>>]
           s1 == s[1]
           d1 == d[1]
           s2 == satisfy_helper(t, env.tx, rhs, mall, s, d)
           d2 == dissatisfy_helper(t, env.tx, s, d)
<1>1. u = p ++ w \/ u = w ++ p
  <2>1. CASE t.frag = "InscribePre"
    BY <2>1 DEF encode_node, HashFrags, ++
  <2>2. CASE t.frag = "InscribePost"
    BY <2>2 DEF encode_node, HashFrags, ++
  <2> QED  BY <2>1, <2>2 DEF InscribeFrags
<1>2. s2 = s1 /\ d2 = d1
  <2> USE DEF satisfy_helper, dissatisfy_helper, WrapFrags, HashFrags, InscribeFrags
  <2>1. CASE t.frag = "InscribePre"
    BY <2>1
  <2>2. CASE t.frag = "InscribePost"
    BY <2>2
  <2> QED  BY <2>1, <2>2
<1>3. Idle(env, p)
  BY EnvelopesIdle
<1> HIDE DEF u, p, s2, d2, w, s1, d1
<1>4. Sound(env, c, w, s1, d1) /\ Code(env, w)
  BY DEF Sound, w, s1, d1
<1>5. Code(env, u) /\ \A y : \A ok \in BOOLEAN : Gives(env, c, w, y, ok) => Gives(env, c, u, y, ok)
  BY <1>1, <1>3, <1>4, InscribeGives
<1>6. Sound(env, c, u, s1, d1)
  BY <1>4, <1>5, SameSound
<1> QED  BY <1>2, <1>6 DEF u, s2, d2

-----------------------------------------------------------------------------
(* Conjunctions. *)

AndVFacts(x, y, c) ==
    /\ x.base = "V" /\ y.base \in {"B", "K", "V"} /\ c.base = y.base
    /\ c.unit => y.unit
    /\ c.input = C!and_input(x.input, y.input) /\ ~c.dissatisfiable

LEMMA AndVSound ==
    ASSUME NEW env, NEW x, NEW y, NEW c, AndVFacts(x, y, c), NEW w, NEW u, NEW s1, NEW s2, NEW d1, NEW d2,
           Sound(env, x, w, s1, d1), Sound(env, y, u, s2, d2)
    PROVE  Sound(env, c, w ++ u, concatenate_rev(s1, s2), concatenate_rev(s1, d2))
<1> DEFINE yes == TRUE
           no == FALSE
           e == w ++ u
<1>0. yes \in BOOLEAN /\ no \in BOOLEAN /\ yes /\ ~no
  OBVIOUS
<1>1. Code(env, e) /\ \A p, q : \A ok \in BOOLEAN : Gives(env, x, w, p, yes) /\ Gives(env, y, u, q, ok) =>
                     Gives(env, c, e, q ++ p, ok)
  BY AndVGives DEF Sound, AndVFacts
<1> HIDE DEF yes, no, e
<1>2. ResOK(env, x, w, s1, yes) /\ ResOK(env, y, u, s2, yes) /\ ResOK(env, y, u, d2, no)
  BY <1>0, Results DEF Sound
<1>3. ResOK(env, c, e, concatenate_rev(s1, s2), yes) /\ ResOK(env, c, e, concatenate_rev(s1, d2), no)
  BY <1>0, <1>1, <1>2, CatRes
<1>4. SatOK(env, c, e, concatenate_rev(s1, s2)) /\ DisOK(env, c, e, concatenate_rev(s1, d2))
  BY <1>0, <1>3, Results
<1>5. FreeDis(c, concatenate_rev(s1, d2))
  BY DEF FreeDis, AndVFacts
<1> QED  BY <1>1, <1>4, <1>5 DEF Sound, e

AndBFacts(x, y, c) ==
    /\ x.base = "B" /\ y.base = "W" /\ c.base = "B"
    /\ c.input = C!and_input(x.input, y.input)
    /\ c.dissatisfiable => x.dissatisfiable /\ y.dissatisfiable

LEMMA BoolGives ==
    ASSUME NEW env, NEW c, NEW e, NEW s, NEW u, NEW d, NEW op \in {"BoolAnd", "BoolOr"},
           Code(env, s), Code(env, u), c.base = "B", e.base = "W", d.base = "B",
           NEW x, NEW y, NEW ok1 \in BOOLEAN, NEW ok2 \in BOOLEAN, NEW ok \in BOOLEAN,
           Gives(env, c, s, x, ok1), Gives(env, e, u, y, ok2), Fits(d, ok, y ++ x),
           op = "BoolAnd" => (ok <=> ok1 /\ ok2), op = "BoolOr" => (ok <=> ok1 \/ ok2)
    PROVE  Gives(env, d, s ++ u ++ <<Op(op)>>, y ++ x, ok)
<1> DEFINE w == s ++ u ++ <<Op(op)>>
<1>1. \A ok3, ok4 \in BOOLEAN :
         LET r == IF op = "BoolAnd" THEN ok3 /\ ok4 ELSE ok3 \/ ok4
         IN  Gives(env, c, s, x, ok3) /\ Gives(env, e, u, y, ok4) /\ Fits(d, r, y ++ x) => Gives(env, d, w, y ++ x, r)
  BY AndBGives
<1>2. ok = (IF op = "BoolAnd" THEN ok1 /\ ok2 ELSE ok1 \/ ok2)
  OBVIOUS
<1> HIDE DEF w
<1>3. Gives(env, d, w, y ++ x, ok)
  BY <1>1, <1>2, Zenon
<1> QED  BY <1>3 DEF w

LEMMA BoolCode ==
    ASSUME NEW env, NEW s, NEW u, NEW op \in {"BoolAnd", "BoolOr"}, Code(env, s), Code(env, u)
    PROVE  Code(env, s ++ u ++ <<Op(op)>>)
<1>1. Code(env, <<Op(op)>>) /\ Code(env, s ++ u)
  BY CodeOps, CodeCat DEF Plain, Code
<1> QED  BY <1>1, CodeCat DEF Code

LEMMA AndBSound ==
    ASSUME NEW env, NEW x, NEW y, NEW c, AndBFacts(x, y, c), NEW w, NEW u, NEW s1, NEW s2, NEW d1, NEW d2,
           Sound(env, x, w, s1, d1), Sound(env, y, u, s2, d2)
    PROVE  Sound(env, c, w ++ u ++ <<Op("BoolAnd")>>, concatenate_rev(s1, s2), concatenate_rev(d1, d2))
<1> DEFINE yes == TRUE
           no == FALSE
           e == w ++ u ++ <<Op("BoolAnd")>>
<1>0. yes \in BOOLEAN /\ no \in BOOLEAN /\ yes /\ ~no
  OBVIOUS
<1>1. Code(env, e)
  BY BoolCode DEF Sound
<1>2. \A p, q : \A ok \in BOOLEAN : Gives(env, x, w, p, ok) /\ Gives(env, y, u, q, ok) => Fits(c, ok, q ++ p)
  BY BothFit DEF Gives, AndBFacts
<1>3. /\ \A p, q : Gives(env, x, w, p, yes) /\ Gives(env, y, u, q, yes) => Gives(env, c, e, q ++ p, yes)
      /\ \A p, q : Gives(env, x, w, p, no) /\ Gives(env, y, u, q, no) => Gives(env, c, e, q ++ p, no)
  <2>1. ASSUME NEW p, NEW q, NEW ok \in BOOLEAN, Gives(env, x, w, p, ok), Gives(env, y, u, q, ok)
        PROVE  Gives(env, c, e, q ++ p, ok)
    <3>1. Fits(c, ok, q ++ p)
      BY <1>2, <2>1
    <3> QED  BY <2>1, <3>1, BoolGives DEF Sound, AndBFacts
  <2> HIDE DEF e
  <2> QED  BY <2>1, Zenon
<1> HIDE DEF yes, no, e
<1>4. /\ ResOK(env, x, w, s1, yes) /\ ResOK(env, y, u, s2, yes)
      /\ ResOK(env, x, w, d1, no) /\ ResOK(env, y, u, d2, no)
  BY <1>0, Results DEF Sound
<1>5. ResOK(env, c, e, concatenate_rev(s1, s2), yes)
  BY <1>0, <1>3, <1>4, CatRes
<1>6. ResOK(env, c, e, concatenate_rev(d1, d2), no)
  BY <1>0, <1>3, <1>4, CatRes
<1>7. SatOK(env, c, e, concatenate_rev(s1, s2)) /\ DisOK(env, c, e, concatenate_rev(d1, d2))
  BY <1>0, <1>5, <1>6, Results
<1>8. FreeDis(c, concatenate_rev(d1, d2))
  BY CatFree DEF AndBFacts, Sound, DisOK
<1> QED  BY <1>1, <1>7, <1>8 DEF Sound, e

-----------------------------------------------------------------------------
(* Disjunctions.  The assertions of the satisfier hold as the              *)
(* dissatisfactions of a dissatisfiable child have no signature.           *)

LEMMA CalmIs ==
    ASSUME NEW a, NEW m, GoodSat(a, m), NEW p \in BOOLEAN, NEW q \in BOOLEAN, ~p, ~q
    PROVE  [m EXCEPT !.panic = @ \/ p] = Calm(m) /\ [m EXCEPT !.panic = @ \/ p \/ q] = Calm(m)
<1>1. m.panic = FALSE
  <2> DEFINE r == Rec(m.stack, m.has_sig, m.relative_timelock, m.absolute_timelock)
  <2>1. r.panic = FALSE
    BY DEF Rec
  <2> HIDE DEF r
  <2>2. m = r
    BY Zenon DEF GoodSat, IsSat, r
  <2> QED  BY <2>1, <2>2
<1>2. (m.panic \/ p) = FALSE /\ ((m.panic \/ p) \/ q) = FALSE
  BY <1>1
<1>3. [m EXCEPT !.panic = @ \/ p] = [m EXCEPT !.panic = FALSE]
  BY <1>2, Zenon
<1>4. [m EXCEPT !.panic = @ \/ p \/ q] = [m EXCEPT !.panic = FALSE]
  BY <1>2, Zenon
<1> QED  BY <1>3, <1>4, Zenon DEF Calm

OrBFacts(x, y, c) ==
    /\ x.base = "B" /\ y.base = "W" /\ c.base = "B"
    /\ x.dissatisfiable /\ y.dissatisfiable
    /\ c.input = CASE x.input = "Zero" /\ y.input = "Zero" -> "Zero"
                   [] x.input = "Zero" /\ y.input \in C!One -> "One"
                   [] x.input \in C!One /\ y.input = "Zero" -> "One"
                   [] OTHER -> "Any"

LEMMA OrBFit ==
    ASSUME NEW x, NEW y, NEW c, OrBFacts(x, y, c), NEW p, NEW q, IsSeq(p), IsSeq(q),
           NEW ok1, NEW ok2, NEW ok, Fits(x, ok1, p), Fits(y, ok2, q)
    PROVE  Fits(c, ok, q ++ p)
<1> USE DEF C!One
<1>0. q ++ <<>> = q /\ <<>> ++ p = p
  BY CatLaws
<1>1. CASE x.input = "Zero" /\ y.input = "Zero"
  <2>1. p = <<>> /\ q = <<>> /\ c.input = "Zero"
    BY <1>1 DEF Fits, OrBFacts
  <2> QED  BY <1>0, <2>1 DEF Fits
<1>2. CASE x.input = "Zero" /\ y.input \in C!One
  <2>1. p = <<>> /\ (\E e : q = <<e>>) /\ c.input = "One"
    BY <1>2 DEF Fits, OrBFacts
  <2>2. q ++ p = q
    BY <1>0, <2>1
  <2> QED  BY <2>1, <2>2 DEF Fits
<1>3. CASE x.input \in C!One /\ y.input = "Zero"
  <2>1. q = <<>> /\ (\E e : p = <<e>>) /\ c.input = "One"
    BY <1>3 DEF Fits, OrBFacts
  <2>2. q ++ p = p
    BY <1>0, <2>1
  <2> QED  BY <2>1, <2>2 DEF Fits
<1>4. CASE ~(x.input = "Zero" /\ y.input = "Zero") /\ ~(x.input = "Zero" /\ y.input \in C!One)
           /\ ~(x.input \in C!One /\ y.input = "Zero")
  <2>1. c.input = "Any"
    BY <1>4 DEF OrBFacts
  <2> QED  BY <2>1 DEF Fits
<1> QED  BY <1>1, <1>2, <1>3, <1>4

LEMMA OrBSound ==
    ASSUME NEW env, NEW x, NEW y, NEW c, OrBFacts(x, y, c), NEW w, NEW u, NEW s1, NEW s2, NEW d1, NEW d2,
           Sound(env, x, w, s1, d1), Sound(env, y, u, s2, d2), NEW mall \in BOOLEAN
    PROVE  LET m == min_fn(mall, concatenate_rev(d1, s2), concatenate_rev(s1, d2))
           IN  Sound(env, c, w ++ u ++ <<Op("BoolOr")>>, [m EXCEPT !.panic = @ \/ d1.has_sig \/ d2.has_sig],
                     concatenate_rev(d1, d2))
<1> DEFINE yes == TRUE
           no == FALSE
           e == w ++ u ++ <<Op("BoolOr")>>
           m == min_fn(mall, concatenate_rev(d1, s2), concatenate_rev(s1, d2))
<1>0. yes \in BOOLEAN /\ no \in BOOLEAN /\ yes /\ ~no
  OBVIOUS
<1>1. Code(env, e)
  BY BoolCode DEF Sound
<1>2. ASSUME NEW p, NEW q, NEW ok1 \in BOOLEAN, NEW ok2 \in BOOLEAN, NEW ok \in BOOLEAN,
             Gives(env, x, w, p, ok1), Gives(env, y, u, q, ok2), ok <=> ok1 \/ ok2
      PROVE  Gives(env, c, e, q ++ p, ok)
  <2>1. Fits(c, ok, q ++ p)
    BY <1>2, OrBFit DEF Gives
  <2> QED  BY <1>2, <2>1, BoolGives DEF Sound, OrBFacts
<1> HIDE DEF e
<1>3. /\ \A p, q : Gives(env, x, w, p, no) /\ Gives(env, y, u, q, yes) => Gives(env, c, e, q ++ p, yes)
      /\ \A p, q : Gives(env, x, w, p, yes) /\ Gives(env, y, u, q, no) => Gives(env, c, e, q ++ p, yes)
      /\ \A p, q : Gives(env, x, w, p, no) /\ Gives(env, y, u, q, no) => Gives(env, c, e, q ++ p, no)
  BY <1>2, Zenon
<1> HIDE DEF yes, no
<1>4. /\ ResOK(env, x, w, s1, yes) /\ ResOK(env, y, u, s2, yes)
      /\ ResOK(env, x, w, d1, no) /\ ResOK(env, y, u, d2, no)
  BY <1>0, Results DEF Sound
<1>5. ResOK(env, c, e, concatenate_rev(d1, s2), yes)
  BY <1>0, <1>3, <1>4, CatRes
<1>6. ResOK(env, c, e, concatenate_rev(s1, d2), yes)
  BY <1>0, <1>3, <1>4, CatRes
<1>7. ResOK(env, c, e, concatenate_rev(d1, d2), no)
  BY <1>0, <1>3, <1>4, CatRes
<1>8. SatOK(env, c, e, concatenate_rev(d1, s2)) /\ SatOK(env, c, e, concatenate_rev(s1, d2))
      /\ DisOK(env, c, e, concatenate_rev(d1, d2))
  BY <1>0, <1>5, <1>6, <1>7, Results
<1>9. SatOK(env, c, e, m)
  BY <1>8, PickOK
<1> HIDE DEF m
<1>10. SatOK(env, c, e, [m EXCEPT !.panic = @ \/ d1.has_sig \/ d2.has_sig])
  <2>1. d1.has_sig \in BOOLEAN /\ d2.has_sig \in BOOLEAN /\ ~d1.has_sig /\ ~d2.has_sig
    BY DEF Sound, OrBFacts, FreeDis, DisOK, GoodSat
  <2>2. GoodSat(env.tx, m)
    BY <1>9 DEF SatOK
  <2>3. [m EXCEPT !.panic = @ \/ d1.has_sig \/ d2.has_sig] = Calm(m)
    <3> DEFINE h1 == d1.has_sig
               h2 == d2.has_sig
    <3> HIDE DEF h1, h2
    <3>1. [m EXCEPT !.panic = @ \/ h1 \/ h2] = Calm(m)
      BY <2>1, <2>2, CalmIs DEF h1, h2
    <3> QED  BY <3>1, Zenon DEF h1, h2
  <2>4. SatOK(env, c, e, Calm(m))
    BY <1>9, CalmOK
  <2> QED  BY <2>3, <2>4, Zenon
<1>11. FreeDis(c, concatenate_rev(d1, d2))
  BY CatFree DEF OrBFacts, Sound, DisOK
<1> QED  BY <1>1, <1>8, <1>10, <1>11 DEF Sound, e, m

OrDFacts(x, y, c) ==
    /\ x.base = "B" /\ x.unit /\ x.dissatisfiable /\ y.base = "B" /\ c.base = "B"
    /\ c.unit => y.unit
    /\ c.input = C!or_input(x.input, y.input)
    /\ c.dissatisfiable => y.dissatisfiable

LEMMA CalmTwo ==
    ASSUME NEW env, NEW c, NEW e, NEW m, SatOK(env, c, e, m), NEW x, NEW d, x.dissatisfiable,
           FreeDis(x, d), GoodSat(env.tx, d)
    PROVE  SatOK(env, c, e, [m EXCEPT !.panic = @ \/ d.has_sig])
<1> DEFINE h == d.has_sig
           no == FALSE
<1>1. h \in BOOLEAN /\ ~h /\ no \in BOOLEAN /\ ~no /\ GoodSat(env.tx, m)
  BY DEF FreeDis, SatOK, GoodSat
<1> HIDE DEF h, no
<1>2. [m EXCEPT !.panic = @ \/ h] = Calm(m)
  BY <1>1, CalmIs
<1>3. SatOK(env, c, e, Calm(m))
  BY CalmOK
<1> QED  BY <1>2, <1>3, Zenon DEF h

LEMMA OrDSound ==
    ASSUME NEW env, NEW x, NEW y, NEW c, OrDFacts(x, y, c), NEW w, NEW u, NEW s1, NEW s2, NEW d1, NEW d2,
           Sound(env, x, w, s1, d1), Sound(env, y, u, s2, d2), NEW mall \in BOOLEAN
    PROVE  LET m == min_fn(mall, s1, concatenate_rev(d1, s2))
           IN  Sound(env, c, w ++ (<<Op("IfDup")>> ++ (<<Op("NotIf")>> ++ u ++ <<Op("EndIf")>>)),
                     [m EXCEPT !.panic = @ \/ d1.has_sig], concatenate_rev(d1, d2))
<1> DEFINE yes == TRUE
           no == FALSE
           e == w ++ (<<Op("IfDup")>> ++ (<<Op("NotIf")>> ++ u ++ <<Op("EndIf")>>))
           m == min_fn(mall, s1, concatenate_rev(d1, s2))
<1>0. yes \in BOOLEAN /\ no \in BOOLEAN /\ yes /\ ~no
  OBVIOUS
<1>1. /\ Code(env, e)
      /\ \A p : Gives(env, x, w, p, yes) => Gives(env, c, e, p, yes)
      /\ \A p, q : \A ok \in BOOLEAN : Gives(env, x, w, p, no) /\ Gives(env, y, u, q, ok) =>
                     Gives(env, c, e, q ++ p, ok)
  BY OrDGives DEF Sound, OrDFacts
<1> HIDE DEF e
<1> HIDE DEF yes, no
<1>4. /\ ResOK(env, x, w, s1, yes) /\ ResOK(env, y, u, s2, yes)
      /\ ResOK(env, x, w, d1, no) /\ ResOK(env, y, u, d2, no)
  BY <1>0, Results DEF Sound
<1>5. ResOK(env, c, e, concatenate_rev(d1, s2), yes)
  BY <1>0, <1>1, <1>4, CatRes
<1>6. ResOK(env, c, e, concatenate_rev(d1, d2), no)
  BY <1>0, <1>1, <1>4, CatRes
<1>7. ResOK(env, c, e, s1, yes)
  BY <1>1, <1>4 DEF ResOK
<1>8. SatOK(env, c, e, concatenate_rev(d1, s2)) /\ SatOK(env, c, e, s1)
      /\ DisOK(env, c, e, concatenate_rev(d1, d2))
  BY <1>0, <1>5, <1>6, <1>7, Results
<1>9. SatOK(env, c, e, m)
  BY <1>8, PickOK
<1> HIDE DEF m
<1>10. SatOK(env, c, e, [m EXCEPT !.panic = @ \/ d1.has_sig])
  BY <1>9, CalmTwo DEF Sound, OrDFacts, DisOK
<1>11. FreeDis(c, concatenate_rev(d1, d2))
  BY CatFree DEF OrDFacts, Sound, DisOK
<1> QED  BY <1>1, <1>8, <1>10, <1>11 DEF Sound, e, m

OrCFacts(x, y, c) ==
    /\ x.base = "B" /\ x.unit /\ x.dissatisfiable /\ y.base = "V" /\ c.base = "V"
    /\ c.input = C!or_input(x.input, y.input)
    /\ ~c.dissatisfiable

LEMMA ImpossibleDis ==
    ASSUME NEW env, NEW c, NEW w, ~c.dissatisfiable
    PROVE  DisOK(env, c, w, Satisfaction(Impossible, FALSE)) /\ FreeDis(c, Satisfaction(Impossible, FALSE))
<1>1. \A h \in BOOLEAN : LET q == Satisfaction(Impossible, h)
            IN DisOK(env, c, w, q) /\ (~c.dissatisfiable => FreeDis(c, q))
  BY NoStack
<1> QED  BY <1>1, Zenon

LEMMA OrCSound ==
    ASSUME NEW env, NEW x, NEW y, NEW c, OrCFacts(x, y, c), NEW w, NEW u, NEW s1, NEW s2, NEW d1, NEW d2,
           Sound(env, x, w, s1, d1), Sound(env, y, u, s2, d2), NEW mall \in BOOLEAN
    PROVE  LET m == min_fn(mall, s1, concatenate_rev(d1, s2))
           IN  Sound(env, c, w ++ (<<Op("NotIf")>> ++ u ++ <<Op("EndIf")>>),
                     [m EXCEPT !.panic = @ \/ d1.has_sig], Satisfaction(Impossible, FALSE))
<1> DEFINE yes == TRUE
           no == FALSE
           e == w ++ (<<Op("NotIf")>> ++ u ++ <<Op("EndIf")>>)
           m == min_fn(mall, s1, concatenate_rev(d1, s2))
<1>0. yes \in BOOLEAN /\ no \in BOOLEAN /\ yes /\ ~no
  OBVIOUS
<1>1. /\ Code(env, e)
      /\ \A p : Gives(env, x, w, p, yes) => Gives(env, c, e, p, yes)
      /\ \A p, q : Gives(env, x, w, p, no) /\ Gives(env, y, u, q, yes) => Gives(env, c, e, q ++ p, yes)
  BY OrCGives DEF Sound, OrCFacts
<1> HIDE DEF e
<1> HIDE DEF yes, no
<1>4. /\ ResOK(env, x, w, s1, yes) /\ ResOK(env, y, u, s2, yes)
      /\ ResOK(env, x, w, d1, no)
  BY <1>0, Results DEF Sound
<1>5. ResOK(env, c, e, concatenate_rev(d1, s2), yes)
  BY <1>0, <1>1, <1>4, CatRes
<1>7. ResOK(env, c, e, s1, yes)
  BY <1>1, <1>4 DEF ResOK
<1>8. SatOK(env, c, e, concatenate_rev(d1, s2)) /\ SatOK(env, c, e, s1)
  BY <1>0, <1>5, <1>7, Results
<1>9. SatOK(env, c, e, m)
  BY <1>8, PickOK
<1> HIDE DEF m
<1>10. SatOK(env, c, e, [m EXCEPT !.panic = @ \/ d1.has_sig])
  BY <1>9, CalmTwo DEF Sound, OrCFacts, DisOK
<1>11. DisOK(env, c, e, Satisfaction(Impossible, FALSE)) /\ FreeDis(c, Satisfaction(Impossible, FALSE))
  BY ImpossibleDis DEF OrCFacts
<1> QED  BY <1>1, <1>10, <1>11 DEF Sound, e, m

OrIFacts(x, y, c) ==
    /\ x.base \in {"B", "V", "K"} /\ y.base = x.base /\ c.base = x.base
    /\ c.unit => x.unit /\ y.unit
    /\ c.input = IF x.input = "Zero" /\ y.input = "Zero" THEN "One" ELSE "Any"
    /\ c.dissatisfiable => x.dissatisfiable \/ y.dissatisfiable

LEMMA PushRes ==
    ASSUME NEW env, NEW x, NEW c, NEW w, NEW u, NEW s, NEW ok \in BOOLEAN, ResOK(env, x, w, s, ok),
           NEW e, GoodItem(env.tx, e), NEW v, v = satisfy_self(e),
           \A p : Gives(env, x, w, p, ok) => Gives(env, c, u, On(p, v), ok)
    PROVE  ResOK(env, c, u, Push(s, e), ok)
<1> DEFINE t == Push(s, e)
<1>1. /\ GoodSat(env.tx, t)
      /\ IsStack(t.stack) <=> IsStack(s.stack)
      /\ IsStack(t.stack) => Wit(t) = On(Wit(s), satisfy_self(e))
  BY PushWit DEF ResOK
<1> HIDE DEF t
<1> QED  BY <1>1 DEF ResOK, t

LEMMA FreeRes ==
    ASSUME NEW env, NEW c, NEW u, NEW s, NEW ok, ResOK(env, c, u, s, ok)
    PROVE  ResOK(env, c, u, NoTimelocks(s), ok) /\ Same(NoTimelocks(s), s)
<1> DEFINE t == NoTimelocks(s)
<1>1. GoodSat(env.tx, t) /\ Same(t, s)
  BY FieldSet DEF ResOK
<1> HIDE DEF t
<1>2. Wit(t) = Wit(s) /\ t.stack = s.stack
  BY <1>1, SameWit DEF Same
<1> QED  BY <1>1, <1>2 DEF ResOK, t

LEMMA OrISound ==
    ASSUME NEW env, NEW x, NEW y, NEW c, OrIFacts(x, y, c), NEW w, NEW u, NEW s1, NEW s2, NEW d1, NEW d2,
           Sound(env, x, w, s1, d1), Sound(env, y, u, s2, d2), NEW mall \in BOOLEAN
    PROVE  Sound(env, c, <<Op("If")>> ++ w ++ <<Op("Else")>> ++ u ++ <<Op("EndIf")>>,
                 min_fn(mall, Push(s1, PushOne), Push(s2, PushZero)),
                 minimum_mall(NoTimelocks(Push(d1, PushOne)), NoTimelocks(Push(d2, PushZero))))
<1> DEFINE yes == TRUE
           no == FALSE
           e == <<Op("If")>> ++ w ++ <<Op("Else")>> ++ u ++ <<Op("EndIf")>>
           one == PushOne
           zero == PushZero
           v1 == number(1)
           v0 == number(0)
<1>0. yes \in BOOLEAN /\ no \in BOOLEAN /\ yes /\ ~no
  OBVIOUS
<1>1. /\ Code(env, e)
      /\ \A p : \A ok \in BOOLEAN : Gives(env, x, w, p, ok) => Gives(env, c, e, On(p, v1), ok)
      /\ \A p : \A ok \in BOOLEAN : Gives(env, y, u, p, ok) => Gives(env, c, e, On(p, v0), ok)
  BY OrIGives DEF Sound, OrIFacts
<1>2. /\ GoodItem(env.tx, one) /\ GoodItem(env.tx, zero)
      /\ v1 = satisfy_self(one) /\ v0 = satisfy_self(zero)
  BY KnownItems, CompletedItems
<1> HIDE DEF e
<1> HIDE DEF yes, no, one, zero, v1, v0
<1>4. /\ ResOK(env, x, w, s1, yes) /\ ResOK(env, y, u, s2, yes)
      /\ ResOK(env, x, w, d1, no) /\ ResOK(env, y, u, d2, no)
  BY <1>0, Results DEF Sound
<1>5. /\ ResOK(env, c, e, Push(s1, one), yes) /\ ResOK(env, c, e, Push(s2, zero), yes)
      /\ ResOK(env, c, e, Push(d1, one), no) /\ ResOK(env, c, e, Push(d2, zero), no)
  <2>1. \A p : Gives(env, x, w, p, yes) => Gives(env, c, e, On(p, v1), yes)
    BY <1>0, <1>1
  <2>2. \A p : Gives(env, y, u, p, yes) => Gives(env, c, e, On(p, v0), yes)
    BY <1>0, <1>1
  <2>3. \A p : Gives(env, x, w, p, no) => Gives(env, c, e, On(p, v1), no)
    BY <1>0, <1>1
  <2>4. \A p : Gives(env, y, u, p, no) => Gives(env, c, e, On(p, v0), no)
    BY <1>0, <1>1
  <2> QED  BY <1>0, <1>2, <1>4, <2>1, <2>2, <2>3, <2>4, PushRes
<1> DEFINE f1 == NoTimelocks(Push(d1, one))
           f2 == NoTimelocks(Push(d2, zero))
<1>6. /\ ResOK(env, c, e, f1, no) /\ Same(f1, Push(d1, one))
      /\ ResOK(env, c, e, f2, no) /\ Same(f2, Push(d2, zero))
  BY <1>5, FreeRes
<1> HIDE DEF f1, f2
<1>7. /\ SatOK(env, c, e, Push(s1, one)) /\ SatOK(env, c, e, Push(s2, zero))
      /\ DisOK(env, c, e, f1) /\ DisOK(env, c, e, f2)
  BY <1>0, <1>5, <1>6, Results
<1>8. SatOK(env, c, e, min_fn(mall, Push(s1, one), Push(s2, zero))) /\ DisOK(env, c, e, minimum_mall(f1, f2))
  BY <1>7, PickOK, PickDisOK
<1>9. FreeDis(c, minimum_mall(f1, f2))
  <2>1. ASSUME c.dissatisfiable  PROVE (IsStack(f1.stack) /\ ~f1.has_sig) \/ (IsStack(f2.stack) /\ ~f2.has_sig)
    <3>1. CASE x.dissatisfiable
      <4>1. IsStack(d1.stack) /\ ~d1.has_sig /\ GoodSat(env.tx, d1)
        BY <3>1 DEF Sound, FreeDis, DisOK
      <4>2. IsStack(Push(d1, one).stack) /\ ~Push(d1, one).has_sig
        BY <1>2, <4>1, PushWit
      <4> QED  BY <1>6, <4>2 DEF Same
    <3>2. CASE y.dissatisfiable
      <4>1. IsStack(d2.stack) /\ ~d2.has_sig /\ GoodSat(env.tx, d2)
        BY <3>2 DEF Sound, FreeDis, DisOK
      <4>2. IsStack(Push(d2, zero).stack) /\ ~Push(d2, zero).has_sig
        BY <1>2, <4>1, PushWit
      <4> QED  BY <1>6, <4>2 DEF Same
    <3> QED  BY <2>1, <3>1, <3>2 DEF OrIFacts
  <2>2. GoodSat(env.tx, f1) /\ GoodSat(env.tx, f2)
    BY <1>6 DEF ResOK
  <2> QED  BY <2>1, <2>2, MinFree DEF FreeDis
<1> QED  BY <1>1, <1>8, <1>9 DEF Sound, e, f1, f2, one, zero

AndOrFacts(a, b, c, d) ==
    /\ a.base = "B" /\ a.unit /\ a.dissatisfiable
    /\ b.base \in {"B", "V", "K"} /\ c.base = b.base /\ d.base = b.base
    /\ d.unit => b.unit /\ c.unit
    /\ d.input = AndOrInput(a, b, c)
    /\ d.dissatisfiable => c.dissatisfiable

LEMMA AndOrSound ==
    ASSUME NEW env, NEW x, NEW y, NEW z, NEW c, AndOrFacts(x, y, z, c), NEW w, NEW u, NEW v,
           NEW s1, NEW s2, NEW s3, NEW d1, NEW d2, NEW d3,
           Sound(env, x, w, s1, d1), Sound(env, y, u, s2, d2), Sound(env, z, v, s3, d3), NEW mall \in BOOLEAN
    PROVE  Sound(env, c, w ++ (<<Op("NotIf")>> ++ v ++ <<Op("Else")>> ++ u ++ <<Op("EndIf")>>),
                 min_fn(mall, concatenate_rev(s1, s2), concatenate_rev(d1, s3)), concatenate_rev(d1, d3))
<1> DEFINE yes == TRUE
           no == FALSE
           e == w ++ (<<Op("NotIf")>> ++ v ++ <<Op("Else")>> ++ u ++ <<Op("EndIf")>>)
<1>0. yes \in BOOLEAN /\ no \in BOOLEAN /\ yes /\ ~no
  OBVIOUS
<1>1. /\ Code(env, e)
      /\ \A p, q : Gives(env, x, w, p, yes) /\ Gives(env, y, u, q, yes) => Gives(env, c, e, q ++ p, yes)
      /\ \A p, q : \A ok \in BOOLEAN : Gives(env, x, w, p, no) /\ Gives(env, z, v, q, ok) => Gives(env, c, e, q ++ p, ok)
  BY AndOrGives DEF Sound, AndOrFacts
<1> HIDE DEF e
<1> HIDE DEF yes, no
<1>4. /\ ResOK(env, x, w, s1, yes) /\ ResOK(env, y, u, s2, yes) /\ ResOK(env, z, v, s3, yes)
      /\ ResOK(env, x, w, d1, no) /\ ResOK(env, z, v, d3, no)
  BY <1>0, Results DEF Sound
<1>5. ResOK(env, c, e, concatenate_rev(s1, s2), yes)
  BY <1>0, <1>1, <1>4, CatRes
<1>6. ResOK(env, c, e, concatenate_rev(d1, s3), yes)
  BY <1>0, <1>1, <1>4, CatRes
<1>7. ResOK(env, c, e, concatenate_rev(d1, d3), no)
  BY <1>0, <1>1, <1>4, CatRes
<1>8. SatOK(env, c, e, concatenate_rev(s1, s2)) /\ SatOK(env, c, e, concatenate_rev(d1, s3))
      /\ DisOK(env, c, e, concatenate_rev(d1, d3))
  BY <1>0, <1>5, <1>6, <1>7, Results
<1>9. SatOK(env, c, e, min_fn(mall, concatenate_rev(s1, s2), concatenate_rev(d1, s3)))
  BY <1>8, PickOK
<1>11. FreeDis(c, concatenate_rev(d1, d3))
  <2>1. c.dissatisfiable => x.dissatisfiable /\ z.dissatisfiable
    BY DEF AndOrFacts
  <2> QED  BY <2>1, CatFree DEF Sound, DisOK
<1> QED  BY <1>1, <1>8, <1>9, <1>11 DEF Sound, e

LEMMA CatMove ==
    ASSUME NEW a, NEW b, NEW c, NEW d, IsSeq(a), IsSeq(b), IsSeq(c), IsSeq(d)
    PROVE  /\ (a ++ b ++ c) ++ d = a ++ (b ++ c ++ d)
           /\ IsSeq(a ++ b) /\ IsSeq(b ++ c) /\ IsSeq(b ++ c ++ d)
<1>1. IsSeq(a ++ b) /\ IsSeq(b ++ c)
  BY CatLaws
<1>2. (a ++ b) ++ c = a ++ (b ++ c)
  BY CatLaws
<1>3. (a ++ (b ++ c)) ++ d = a ++ ((b ++ c) ++ d)
  BY <1>1, CatLaws
<1>4. IsSeq((b ++ c) ++ d)
  BY <1>1, CatLaws
<1> QED  BY <1>1, <1>2, <1>3, <1>4

LEMMA BranchScripts ==
    ASSUME NEW t, NEW sub, IsSeq(sub[1]), IsSeq(sub[2])
    PROVE  LET w == sub[1]
               u == sub[2]
               e == encode_node(t, sub)
           IN  /\ t.frag = "AndV" => e = w ++ u
               /\ t.frag = "AndB" => e = w ++ u ++ <<Op("BoolAnd")>>
               /\ t.frag = "OrB" => e = w ++ u ++ <<Op("BoolOr")>>
               /\ t.frag = "OrD" => e = w ++ (<<Op("IfDup")>> ++ (<<Op("NotIf")>> ++ u ++ <<Op("EndIf")>>))
               /\ t.frag = "OrC" => e = w ++ (<<Op("NotIf")>> ++ u ++ <<Op("EndIf")>>)
               /\ t.frag = "OrI" => e = <<Op("If")>> ++ w ++ <<Op("Else")>> ++ u ++ <<Op("EndIf")>>
               /\ t.frag = "AndOr" /\ IsSeq(sub[3]) =>
                    e = w ++ (<<Op("NotIf")>> ++ sub[3] ++ <<Op("Else")>> ++ u ++ <<Op("EndIf")>>)
<1> DEFINE w == sub[1]
           u == sub[2]
           v == sub[3]
           e == encode_node(t, sub)
           o1 == <<Op("IfDup")>>
           o2 == <<Op("NotIf")>>
           o3 == <<Op("EndIf")>>
           o4 == <<Op("Else")>>
<1>0. IsSeq(o1) /\ IsSeq(o2) /\ IsSeq(o3) /\ IsSeq(o4) /\ IsSeq(w) /\ IsSeq(u)
  BY ShortSeqs
<1>1. ASSUME t.frag = "AndV"  PROVE e = w ++ u
  BY <1>1 DEF encode_node, HashFrags, ++
<1>2. ASSUME t.frag = "AndB"  PROVE e = w ++ u ++ <<Op("BoolAnd")>>
  BY <1>2 DEF encode_node, HashFrags, ++
<1>3. ASSUME t.frag = "OrB"  PROVE e = w ++ u ++ <<Op("BoolOr")>>
  BY <1>3 DEF encode_node, HashFrags, ++
<1>4. ASSUME t.frag = "OrI"  PROVE e = <<Op("If")>> ++ w ++ <<Op("Else")>> ++ u ++ <<Op("EndIf")>>
  BY <1>4 DEF encode_node, HashFrags, ++
<1>5. ASSUME t.frag = "OrC"  PROVE e = w ++ (o2 ++ u ++ o3)
  <2>1. e = (w ++ o2 ++ u) ++ o3
    BY <1>5 DEF encode_node, HashFrags, ++
  <2> HIDE DEF e, w, u, o1, o2, o3, o4
  <2> QED  BY <1>0, <2>1, CatMove
<1>6. ASSUME t.frag = "OrD"  PROVE e = w ++ (o1 ++ (o2 ++ u ++ o3))
  <2>1. e = (w ++ <<Op("IfDup"), Op("NotIf")>> ++ u) ++ o3
    BY <1>6 DEF encode_node, HashFrags, ++
  <2>2. <<Op("IfDup"), Op("NotIf")>> = o1 ++ o2
    BY ShortSeqs, Zenon DEF ++
  <2> HIDE DEF e, w, u, o1, o2, o3, o4
  <2>3. IsSeq(o1 ++ o2)
    BY <1>0, CatLaws
  <2>4. (w ++ (o1 ++ o2) ++ u) ++ o3 = w ++ ((o1 ++ o2) ++ u ++ o3)
    BY <1>0, <2>3, CatMove
  <2>5. (o1 ++ o2 ++ u) ++ o3 = o1 ++ (o2 ++ u ++ o3)
    BY <1>0, CatMove
  <2> QED  BY <2>1, <2>2, <2>4, <2>5
<1>7. ASSUME t.frag = "AndOr", IsSeq(v)  PROVE e = w ++ (o2 ++ v ++ o4 ++ u ++ o3)
  <2>1. e = ((w ++ o2 ++ v) ++ o4) ++ u ++ o3
    BY <1>7 DEF encode_node, HashFrags, ++
  <2> HIDE DEF e, w, u, v, o1, o2, o3, o4
  <2>2. (w ++ o2 ++ v) ++ o4 = w ++ (o2 ++ v ++ o4) /\ IsSeq(o2 ++ v ++ o4)
    BY <1>0, <1>7, CatMove
  <2>3. (w ++ (o2 ++ v ++ o4) ++ u) ++ o3 = w ++ ((o2 ++ v ++ o4) ++ u ++ o3)
    BY <1>0, <2>2, CatMove
  <2> QED  BY <2>1, <2>2, <2>3
<1> QED  BY <1>1, <1>2, <1>3, <1>4, <1>5, <1>6, <1>7

BranchIs(f, mall, s, d, e, z) ==
    LET both == concatenate_rev(d[1], d[2])
    IN  /\ f = "AndV" => e = concatenate_rev(s[1], s[2]) /\ z = concatenate_rev(s[1], d[2])
        /\ f = "AndB" => e = concatenate_rev(s[1], s[2]) /\ z = both
        /\ f = "OrB" =>
             /\ z = both
             /\ LET m == min_fn(mall, concatenate_rev(d[1], s[2]), concatenate_rev(s[1], d[2]))
                IN  e = [m EXCEPT !.panic = @ \/ d[1].has_sig \/ d[2].has_sig]
        /\ f \in {"OrD", "OrC"} =>
                LET m == min_fn(mall, s[1], concatenate_rev(d[1], s[2]))
                IN  e = [m EXCEPT !.panic = @ \/ d[1].has_sig]
        /\ f = "OrD" => z = both
        /\ f = "OrC" => z = Satisfaction(Impossible, FALSE)
        /\ f = "OrI" =>
             /\ e = min_fn(mall, Push(s[1], PushOne), Push(s[2], PushZero))
             /\ z = minimum_mall(NoTimelocks(Push(d[1], PushOne)), NoTimelocks(Push(d[2], PushZero)))
        /\ f = "AndOr" =>
             /\ e = min_fn(mall, concatenate_rev(s[1], s[2]), concatenate_rev(d[1], s[3]))
             /\ z = concatenate_rev(d[1], d[3])

LEMMA BranchSats ==
    ASSUME NEW t, NEW a, NEW rhs, NEW mall, NEW s, NEW d
    PROVE  BranchIs(t.frag, mall, s, d, satisfy_helper(t, a, rhs, mall, s, d), dissatisfy_helper(t, a, s, d))
<1> DEFINE e == satisfy_helper(t, a, rhs, mall, s, d)
           z == dissatisfy_helper(t, a, s, d)
           m1 == min_fn(mall, concatenate_rev(d[1], s[2]), concatenate_rev(s[1], d[2]))
           m2 == min_fn(mall, s[1], concatenate_rev(d[1], s[2]))
<1> USE DEF WrapFrags, HashFrags, InscribeFrags
<1>1. ASSUME t.frag = "AndV"  PROVE e = concatenate_rev(s[1], s[2]) /\ z = concatenate_rev(s[1], d[2])
  <2>1. e = concatenate_rev(s[1], s[2])
    BY <1>1 DEF satisfy_helper
  <2>2. z = concatenate_rev(s[1], d[2])
    BY <1>1 DEF dissatisfy_helper
  <2> QED  BY <2>1, <2>2
<1>2. ASSUME t.frag = "AndB"  PROVE e = concatenate_rev(s[1], s[2])
  BY <1>2 DEF satisfy_helper
<1>3. ASSUME t.frag \in {"AndB", "OrB", "OrD"}  PROVE z = concatenate_rev(d[1], d[2])
  BY <1>3 DEF dissatisfy_helper
<1>4. ASSUME t.frag = "OrB"  PROVE e = [m1 EXCEPT !.panic = @ \/ d[1].has_sig \/ d[2].has_sig]
  BY <1>4 DEF satisfy_helper
<1>5. ASSUME t.frag \in {"OrD", "OrC"}  PROVE e = [m2 EXCEPT !.panic = @ \/ d[1].has_sig]
  BY <1>5 DEF satisfy_helper
<1>6. ASSUME t.frag = "OrC"  PROVE z = Satisfaction(Impossible, FALSE)
  BY <1>6 DEF dissatisfy_helper
<1>7. ASSUME t.frag = "OrI"
      PROVE  /\ e = min_fn(mall, Push(s[1], PushOne), Push(s[2], PushZero))
             /\ z = minimum_mall(NoTimelocks(Push(d[1], PushOne)), NoTimelocks(Push(d[2], PushZero)))
  <2>1. e = min_fn(mall, Push(s[1], PushOne), Push(s[2], PushZero))
    BY <1>7 DEF satisfy_helper
  <2>2. z = minimum_mall(NoTimelocks(Push(d[1], PushOne)), NoTimelocks(Push(d[2], PushZero)))
    BY <1>7 DEF dissatisfy_helper
  <2> QED  BY <2>1, <2>2
<1>8. ASSUME t.frag = "AndOr"
      PROVE  /\ e = min_fn(mall, concatenate_rev(s[1], s[2]), concatenate_rev(d[1], s[3]))
             /\ z = concatenate_rev(d[1], d[3])
  <2>1. e = min_fn(mall, concatenate_rev(s[1], s[2]), concatenate_rev(d[1], s[3]))
    BY <1>8 DEF satisfy_helper
  <2>2. z = concatenate_rev(d[1], d[3])
    BY <1>8 DEF dissatisfy_helper
  <2> QED  BY <2>1, <2>2
<1> HIDE DEF e, z, m1, m2
<1>9. /\ t.frag = "AndV" => e = concatenate_rev(s[1], s[2]) /\ z = concatenate_rev(s[1], d[2])
      /\ t.frag = "AndB" => e = concatenate_rev(s[1], s[2]) /\ z = concatenate_rev(d[1], d[2])
      /\ t.frag = "OrB" => z = concatenate_rev(d[1], d[2]) /\ e = [m1 EXCEPT !.panic = @ \/ d[1].has_sig \/ d[2].has_sig]
      /\ t.frag \in {"OrD", "OrC"} => e = [m2 EXCEPT !.panic = @ \/ d[1].has_sig]
      /\ t.frag = "OrD" => z = concatenate_rev(d[1], d[2])
      /\ t.frag = "OrC" => z = Satisfaction(Impossible, FALSE)
      /\ t.frag = "OrI" =>
           /\ e = min_fn(mall, Push(s[1], PushOne), Push(s[2], PushZero))
           /\ z = minimum_mall(NoTimelocks(Push(d[1], PushOne)), NoTimelocks(Push(d[2], PushZero)))
      /\ t.frag = "AndOr" =>
           /\ e = min_fn(mall, concatenate_rev(s[1], s[2]), concatenate_rev(d[1], s[3]))
           /\ z = concatenate_rev(d[1], d[3])
  BY <1>1, <1>2, <1>3, <1>4, <1>5, <1>6, <1>7, <1>8
<1> QED  BY <1>9, Zenon DEF BranchIs, e, z, m1, m2

BinFacts(f, x, y, c) ==
    /\ f = "AndV" => AndVFacts(x, y, c)
    /\ f = "AndB" => AndBFacts(x, y, c)
    /\ f = "OrB" => OrBFacts(x, y, c)
    /\ f = "OrD" => OrDFacts(x, y, c)
    /\ f = "OrC" => OrCFacts(x, y, c)
    /\ f = "OrI" => OrIFacts(x, y, c)

LEMMA BinarySound ==
    ASSUME NEW env, NEW t, t.frag \in BinaryFrags, NEW sub, NEW s, NEW d, NEW rhs, NEW mall \in BOOLEAN,
           NEW x, NEW y, NEW c, BinFacts(t.frag, x, y, c),
           Sound(env, x, sub[1], s[1], d[1]), Sound(env, y, sub[2], s[2], d[2])
    PROVE  Sound(env, c, encode_node(t, sub), satisfy_helper(t, env.tx, rhs, mall, s, d),
                 dissatisfy_helper(t, env.tx, s, d))
<1> DEFINE w == sub[1]
           u == sub[2]
           s1 == s[1]
           s2 == s[2]
           d1 == d[1]
           d2 == d[2]
           e == encode_node(t, sub)
           sat2 == satisfy_helper(t, env.tx, rhs, mall, s, d)
           dis2 == dissatisfy_helper(t, env.tx, s, d)
           m1 == min_fn(mall, concatenate_rev(d1, s2), concatenate_rev(s1, d2))
           m2 == min_fn(mall, s1, concatenate_rev(d1, s2))
<1>0. Sound(env, x, w, s1, d1) /\ Sound(env, y, u, s2, d2)
  OBVIOUS
<1>1. /\ t.frag = "AndV" => e = w ++ u
      /\ t.frag = "AndB" => e = w ++ u ++ <<Op("BoolAnd")>>
      /\ t.frag = "OrB" => e = w ++ u ++ <<Op("BoolOr")>>
      /\ t.frag = "OrD" => e = w ++ (<<Op("IfDup")>> ++ (<<Op("NotIf")>> ++ u ++ <<Op("EndIf")>>))
      /\ t.frag = "OrC" => e = w ++ (<<Op("NotIf")>> ++ u ++ <<Op("EndIf")>>)
      /\ t.frag = "OrI" => e = <<Op("If")>> ++ w ++ <<Op("Else")>> ++ u ++ <<Op("EndIf")>>
  BY <1>0, BranchScripts DEF Sound, Code
<1>2. /\ t.frag = "AndV" => sat2 = concatenate_rev(s1, s2) /\ dis2 = concatenate_rev(s1, d2)
      /\ t.frag = "AndB" => sat2 = concatenate_rev(s1, s2) /\ dis2 = concatenate_rev(d1, d2)
      /\ t.frag = "OrB" => dis2 = concatenate_rev(d1, d2) /\ sat2 = [m1 EXCEPT !.panic = @ \/ d1.has_sig \/ d2.has_sig]
      /\ t.frag \in {"OrD", "OrC"} => sat2 = [m2 EXCEPT !.panic = @ \/ d1.has_sig]
      /\ t.frag = "OrD" => dis2 = concatenate_rev(d1, d2)
      /\ t.frag = "OrC" => dis2 = Satisfaction(Impossible, FALSE)
      /\ t.frag = "OrI" =>
           /\ sat2 = min_fn(mall, Push(s1, PushOne), Push(s2, PushZero))
           /\ dis2 = minimum_mall(NoTimelocks(Push(d1, PushOne)), NoTimelocks(Push(d2, PushZero)))
  <2>1. BranchIs(t.frag, mall, s, d, sat2, dis2)
    BY BranchSats
  <2> HIDE DEF sat2, dis2
  <2> QED  BY <2>1, Zenon DEF BranchIs
<1> HIDE DEF e, sat2, dis2, w, u, s1, s2, d1, d2
<1>3. CASE t.frag = "AndV"
  <2>1. Sound(env, c, w ++ u, concatenate_rev(s1, s2), concatenate_rev(s1, d2))
    BY <1>0, <1>3, AndVSound DEF BinFacts
  <2> QED  BY <1>1, <1>2, <1>3, <2>1 DEF e, sat2, dis2
<1>4. CASE t.frag = "AndB"
  <2>1. Sound(env, c, w ++ u ++ <<Op("BoolAnd")>>, concatenate_rev(s1, s2), concatenate_rev(d1, d2))
    BY <1>0, <1>4, AndBSound DEF BinFacts
  <2> QED  BY <1>1, <1>2, <1>4, <2>1 DEF e, sat2, dis2
<1>5. CASE t.frag = "OrB"
  <2>1. Sound(env, c, w ++ u ++ <<Op("BoolOr")>>, [m1 EXCEPT !.panic = @ \/ d1.has_sig \/ d2.has_sig],
              concatenate_rev(d1, d2))
    BY <1>0, <1>5, OrBSound DEF BinFacts
  <2> HIDE DEF m1
  <2> QED  BY <1>1, <1>2, <1>5, <2>1 DEF e, sat2, dis2
<1>6. CASE t.frag = "OrD"
  <2>1. Sound(env, c, w ++ (<<Op("IfDup")>> ++ (<<Op("NotIf")>> ++ u ++ <<Op("EndIf")>>)),
              [m2 EXCEPT !.panic = @ \/ d1.has_sig], concatenate_rev(d1, d2))
    BY <1>0, <1>6, OrDSound DEF BinFacts
  <2> HIDE DEF m2
  <2> QED  BY <1>1, <1>2, <1>6, <2>1 DEF e, sat2, dis2
<1>7. CASE t.frag = "OrC"
  <2>1. Sound(env, c, w ++ (<<Op("NotIf")>> ++ u ++ <<Op("EndIf")>>),
              [m2 EXCEPT !.panic = @ \/ d1.has_sig], Satisfaction(Impossible, FALSE))
    BY <1>0, <1>7, OrCSound DEF BinFacts
  <2> HIDE DEF m2
  <2> QED  BY <1>1, <1>2, <1>7, <2>1 DEF e, sat2, dis2
<1>8. CASE t.frag = "OrI"
  <2>1. Sound(env, c, <<Op("If")>> ++ w ++ <<Op("Else")>> ++ u ++ <<Op("EndIf")>>,
              min_fn(mall, Push(s1, PushOne), Push(s2, PushZero)),
              minimum_mall(NoTimelocks(Push(d1, PushOne)), NoTimelocks(Push(d2, PushZero))))
    BY <1>0, <1>8, OrISound DEF BinFacts
  <2> QED  BY <1>1, <1>2, <1>8, <2>1 DEF e, sat2, dis2
<1> QED  BY <1>3, <1>4, <1>5, <1>6, <1>7, <1>8 DEF BinaryFrags

LEMMA AndOrNodeSound ==
    ASSUME NEW env, NEW t, t.frag = "AndOr", NEW sub, NEW s, NEW d, NEW rhs, NEW mall \in BOOLEAN,
           NEW x, NEW y, NEW z, NEW c, AndOrFacts(x, y, z, c),
           Sound(env, x, sub[1], s[1], d[1]), Sound(env, y, sub[2], s[2], d[2]), Sound(env, z, sub[3], s[3], d[3])
    PROVE  Sound(env, c, encode_node(t, sub), satisfy_helper(t, env.tx, rhs, mall, s, d),
                 dissatisfy_helper(t, env.tx, s, d))
<1> DEFINE w == sub[1]
           u == sub[2]
           v == sub[3]
           s1 == s[1]
           s2 == s[2]
           s3 == s[3]
           d1 == d[1]
           d2 == d[2]
           d3 == d[3]
           e == encode_node(t, sub)
           sat2 == satisfy_helper(t, env.tx, rhs, mall, s, d)
           dis2 == dissatisfy_helper(t, env.tx, s, d)
<1>0. Sound(env, x, w, s1, d1) /\ Sound(env, y, u, s2, d2) /\ Sound(env, z, v, s3, d3)
  OBVIOUS
<1>1. e = w ++ (<<Op("NotIf")>> ++ v ++ <<Op("Else")>> ++ u ++ <<Op("EndIf")>>)
  BY <1>0, BranchScripts DEF Sound, Code
<1>2. /\ sat2 = min_fn(mall, concatenate_rev(s1, s2), concatenate_rev(d1, s3))
      /\ dis2 = concatenate_rev(d1, d3)
  <2>1. BranchIs(t.frag, mall, s, d, sat2, dis2)
    BY BranchSats
  <2> HIDE DEF sat2, dis2
  <2> QED  BY <2>1, Zenon DEF BranchIs
<1> HIDE DEF e, sat2, dis2, w, u, v, s1, s2, s3, d1, d2, d3
<1>3. Sound(env, c, w ++ (<<Op("NotIf")>> ++ v ++ <<Op("Else")>> ++ u ++ <<Op("EndIf")>>),
            min_fn(mall, concatenate_rev(s1, s2), concatenate_rev(d1, s3)), concatenate_rev(d1, d3))
  BY <1>0, AndOrSound
<1> QED  BY <1>1, <1>2, <1>3 DEF e, sat2, dis2

-----------------------------------------------------------------------------
(* Thresholds. *)

LEMMA Counts ==
    ASSUME NEW n \in Nat
    PROVE  Count(1..n, n) = n /\ Count({}, n) = 0
<1>1. (1..n) \cap (1..n) = 1..n /\ {} \cap (1..n) = {}
  OBVIOUS
<1>2. Cardinality(1..n) = n /\ Cardinality({}) = 0
  BY FS_Interval, FS_EmptySet
<1> QED  BY <1>1, <1>2 DEF Count

ThreshFacts(k, cs, n, c) ==
    /\ k \in Nat /\ n \in Nat /\ 1 <= k /\ k <= n
    /\ \A i \in 1..n : cs[i].base = (IF i = 1 THEN "B" ELSE "W") /\ cs[i].unit /\ cs[i].dissatisfiable
    /\ c.base = "B" /\ c.input = ThreshInput(cs, n)

LEMMA ThreshResult ==
    ASSUME NEW env, NEW k, NEW cs, NEW n, NEW c, ThreshFacts(k, cs, n, c),
           NEW subs, IsSeq(subs), n = Len(subs), \A i \in 1..n : Code(env, subs[i]),
           NEW oks, NEW S, NEW s, Piled(n, S, s),
           \A i \in 1..n : /\ oks[i] \in BOOLEAN /\ IsStack(S[i].stack)
                           /\ ResOK(env, cs[i], subs[i], S[i], oks[i]),
           NEW ok \in BOOLEAN, ok <=> k = Count({j \in 1..n : oks[j]}, n)
    PROVE  Gives(env, c, Cat(Adding(subs)) ++ (<<Num(k)>> ++ <<Op("Equal")>>), Wit(s), ok)
<1> DEFINE w == Cat(Adding(subs)) ++ (<<Num(k)>> ++ <<Op("Equal")>>)
           xs == [i \in 1..n |-> Wit(S[i])]
<1>1. PICK Z : Piles(xs, n, Z) /\ Wit(s) = Z[n]
  <2>1. \A i \in 1..n : xs[i] = Wit(S[i])
    OBVIOUS
  <2> HIDE DEF xs
  <2> QED  BY <2>1 DEF Piled
<1>2. \A i \in 1..n : oks[i] \in BOOLEAN /\ Gives(env, cs[i], subs[i], xs[i], oks[i])
  BY DEF ResOK
<1> HIDE DEF xs
<1>3. n \in Nat /\ k \in Nat /\ n >= 1 /\ c.base = "B"
  BY DEF ThreshFacts
<1>4. Fits(c, ok, Z[n])
  <2>1. \A i \in 1..n : Fits(cs[i], oks[i], xs[i])
    BY <1>2 DEF Gives
  <2>2. c.input = ThreshInput(cs, n)
    BY DEF ThreshFacts
  <2> QED  BY <1>1, <1>3, <2>1, <2>2, ThreshFit
<1>5. \A i \in 1..n : Code(env, subs[i]) /\ cs[i].base = (IF i = 1 THEN "B" ELSE "W") /\ cs[i].unit
  BY DEF ThreshFacts
<1> DEFINE yes == k = Count({j \in 1..n : oks[j]}, n)
<1>6. ThreshWorks(env, subs, n, cs, k, c, w)
  BY <1>3, <1>5, ThreshGives
<1>7. ok = yes
  OBVIOUS
<1> HIDE DEF w
<1>8. Fits(c, yes, Z[n])
  BY <1>4, <1>7, Zenon
<1>9. Gives(env, c, w, Z[n], yes)
  BY <1>1, <1>2, <1>6, <1>8, Zenon DEF ThreshWorks
<1> QED  BY <1>1, <1>7, <1>9, Zenon DEF w

LEMMA ThreshScripts ==
    ASSUME NEW t, t.frag = "Thresh", NEW sub
    PROVE  encode_node(t, sub) = Cat(Adding(sub)) ++ (<<Num(t.k)>> ++ <<Op("Equal")>>)
<1> DEFINE ss == [i \in DOMAIN sub |-> IF i = 1 THEN sub[1] ELSE Append(sub[i], Op("Add"))]
           v == <<Num(t.k), Op("Equal")>>
<1>1. encode_node(t, sub) = ConcatAll(ss) \o v
  BY DEF encode_node, HashFrags
<1>2. ss = Adding(sub)
  BY Zenon DEF Adding
<1>3. v = <<Num(t.k)>> ++ <<Op("Equal")>>
  BY ShortSeqs, Zenon DEF ++
<1> HIDE DEF ss, v
<1>4. ConcatAll(ss) = Cat(ss)
  BY Zenon DEF ConcatAll, Cat
<1> QED  BY <1>1, <1>2, <1>3, <1>4, Zenon DEF ++

LEMMA ThreshSats ==
    ASSUME NEW t, t.frag = "Thresh", NEW a, NEW rhs, NEW mall, NEW s, NEW d
    PROVE  /\ satisfy_helper(t, a, rhs, mall, s, d) =
                IF t.k = Len(s) THEN Flatten(s) ELSE thresh(mall, t.k, s, d)
           /\ dissatisfy_helper(t, a, s, d) = Flatten(d)
<1> USE DEF WrapFrags, HashFrags, InscribeFrags
<1>1. satisfy_helper(t, a, rhs, mall, s, d) = IF t.k = Len(s) THEN Flatten(s) ELSE thresh(mall, t.k, s, d)
  BY DEF satisfy_helper
<1>2. dissatisfy_helper(t, a, s, d) = Flatten(d)
  BY DEF dissatisfy_helper
<1> QED  BY <1>1, <1>2

LEMMA ThreshSound ==
    ASSUME NEW env, NEW t, t.frag = "Thresh", NEW sub, NEW s, NEW d, NEW rhs, NEW mall \in BOOLEAN,
           NEW n, NEW cs, NEW c, ThreshFacts(t.k, cs, n, c),
           IsSeq(sub), Len(sub) = n, DOMAIN s = 1..n, Len(s) = n, Len(d) = n,
           \A i \in 1..n : Sound(env, cs[i], sub[i], s[i], d[i])
    PROVE  Sound(env, c, encode_node(t, sub), satisfy_helper(t, env.tx, rhs, mall, s, d),
                 dissatisfy_helper(t, env.tx, s, d))
<1> DEFINE k == t.k
           e == encode_node(t, sub)
           sat2 == satisfy_helper(t, env.tx, rhs, mall, s, d)
           dis2 == dissatisfy_helper(t, env.tx, s, d)
           w == Cat(Adding(sub)) ++ (<<Num(k)>> ++ <<Op("Equal")>>)
           yes == TRUE
           no == FALSE
<1>0. yes \in BOOLEAN /\ no \in BOOLEAN /\ yes /\ ~no
  OBVIOUS
<1>1. e = w
  BY ThreshScripts
<1>2. sat2 = (IF k = n THEN Flatten(s) ELSE thresh(mall, k, s, d)) /\ dis2 = Flatten(d)
  BY ThreshSats
<1>3. n \in Nat /\ k \in Nat /\ 1 <= k /\ k <= n /\ ThreshFacts(k, cs, n, c) /\ c.base = "B"
  BY DEF ThreshFacts
<1> HIDE DEF e, sat2, dis2, k, yes, no
<1>4. \A i \in 1..n : Code(env, sub[i])
  BY DEF Sound
<1>5. Code(env, w)
  <2>1. \A i \in 1..n : Code(env, sub[i]) /\ cs[i].base = (IF i = 1 THEN "B" ELSE "W") /\ cs[i].unit
    BY <1>4 DEF ThreshFacts
  <2>2. n >= 1
    BY <1>3
  <2> QED  BY <1>3, <2>1, <2>2, ThreshGives
<1>6. \A i \in 1..n : /\ ResOK(env, cs[i], sub[i], s[i], yes) /\ ResOK(env, cs[i], sub[i], d[i], no)
                      /\ GoodSat(env.tx, s[i]) /\ GoodSat(env.tx, d[i])
                      /\ IsStack(d[i].stack) /\ ~d[i].has_sig
  <2> TAKE i \in 1..n
  <2>1. Sound(env, cs[i], sub[i], s[i], d[i]) /\ cs[i].dissatisfiable
    BY DEF ThreshFacts
  <2>2. SatOK(env, cs[i], sub[i], s[i]) /\ DisOK(env, cs[i], sub[i], d[i]) /\ FreeDis(cs[i], d[i])
    BY <2>1 DEF Sound
  <2>3. ResOK(env, cs[i], sub[i], s[i], yes) /\ ResOK(env, cs[i], sub[i], d[i], no)
    BY <1>0, <2>2, Results
  <2> QED  BY <2>1, <2>2, <2>3 DEF ResOK, FreeDis
<1> HIDE DEF w
<1>7. ASSUME NEW oks, NEW S, NEW q, Piled(n, S, q),
             \A i \in 1..n : /\ oks[i] \in BOOLEAN /\ IsStack(S[i].stack)
                             /\ ResOK(env, cs[i], sub[i], S[i], oks[i]),
             NEW ok \in BOOLEAN, ok <=> k = Count({j \in 1..n : oks[j]}, n)
      PROVE  Gives(env, c, w, Wit(q), ok)
  BY <1>3, <1>4, <1>7, ThreshResult DEF w
<1>8. SatOK(env, c, w, sat2)
  <2>1. CASE k = n
    <3> DEFINE oks == [i \in 1..n |-> yes]
               q == Flatten(s)
    <3>1. GoodSat(env.tx, q) /\ (IsStack(q.stack) => (\A i \in 1..n : IsStack(s[i].stack)) /\ Piled(n, s, q))
      BY <1>3, <1>6, Flattened
    <3>2. \A i \in 1..n : oks[i] = yes
      OBVIOUS
    <3> HIDE DEF oks
    <3>3. {j \in 1..n : oks[j]} = 1..n
      BY <1>0, <3>2
    <3>4. k = Count({j \in 1..n : oks[j]}, n)
      BY <1>3, <2>1, <3>3, Counts
    <3> HIDE DEF q
    <3>5. ASSUME IsStack(q.stack)  PROVE Gives(env, c, w, Wit(q), yes)
      <4>1. \A i \in 1..n : /\ oks[i] \in BOOLEAN /\ IsStack(s[i].stack) /\ ResOK(env, cs[i], sub[i], s[i], oks[i])
        BY <1>0, <1>6, <3>1, <3>2, <3>5
      <4> QED  BY <1>0, <1>7, <3>1, <3>4, <3>5, <4>1
    <3>6. ResOK(env, c, w, q, yes)
      BY <3>1, <3>5 DEF ResOK
    <3>7. SatOK(env, c, w, q)
      BY <1>0, <3>6, Results
    <3> QED  BY <1>2, <2>1, <3>7 DEF q
  <2>2. CASE k # n
    <3> DEFINE q == thresh(mall, k, s, d)
    <3>1. GoodSat(env.tx, q) /\ (IsStack(q.stack) => \E oks : Picked(n, k, s, d, oks, q))
      <4>1. k < n
        BY <1>3, <2>2
      <4> QED  BY <1>3, <1>6, <4>1, Thresholded
    <3> HIDE DEF q
    <3>5. ASSUME IsStack(q.stack)  PROVE Gives(env, c, w, Wit(q), yes)
      <4>1. PICK oks : Picked(n, k, s, d, oks, q)
        BY <3>1, <3>5
      <4> DEFINE S == [i \in 1..n |-> IF oks[i] THEN s[i] ELSE d[i]]
      <4>2. \A i \in 1..n : S[i] = IF oks[i] THEN s[i] ELSE d[i]
        OBVIOUS
      <4> HIDE DEF S
      <4>3. Piled(n, S, q)
        BY <4>1, <4>2 DEF Picked, Piled
      <4>4. k = Count({j \in 1..n : oks[j]}, n) /\ \A i \in 1..n : oks[i] \in BOOLEAN /\ IsStack(S[i].stack)
        BY <4>1, <4>2 DEF Picked
      <4>5. ASSUME NEW i \in 1..n  PROVE ResOK(env, cs[i], sub[i], S[i], oks[i])
        <5>1. CASE oks[i]
          <6>1. oks[i] = yes /\ S[i] = s[i]
            BY <1>0, <4>2, <4>4, <5>1
          <6> QED  BY <1>6, <6>1
        <5>2. CASE ~oks[i]
          <6>1. oks[i] = no /\ S[i] = d[i]
            BY <1>0, <4>2, <4>4, <5>2
          <6> QED  BY <1>6, <6>1
        <5> QED  BY <5>1, <5>2
      <4> QED  BY <1>0, <1>7, <4>3, <4>4, <4>5
    <3>6. ResOK(env, c, w, q, yes)
      BY <3>1, <3>5 DEF ResOK
    <3>7. SatOK(env, c, w, q)
      BY <1>0, <3>6, Results
    <3> QED  BY <1>2, <2>2, <3>7 DEF q
  <2> QED  BY <2>1, <2>2
<1>9. DisOK(env, c, w, dis2) /\ FreeDis(c, dis2)
  <2> DEFINE oks == [i \in 1..n |-> no]
             q == Flatten(d)
  <2>1. /\ GoodSat(env.tx, q) /\ (IsStack(q.stack) <=> \A i \in 1..n : IsStack(d[i].stack))
        /\ (\A i \in 1..n : ~d[i].has_sig) => ~q.has_sig
        /\ IsStack(q.stack) => Piled(n, d, q)
    BY <1>3, <1>6, Flattened
  <2>2. \A i \in 1..n : oks[i] = no
    OBVIOUS
  <2> HIDE DEF oks
  <2>3. {j \in 1..n : oks[j]} = {}
    BY <1>0, <2>2
  <2>4. k # Count({j \in 1..n : oks[j]}, n)
    <3>1. Count({}, n) = 0
      BY <1>3, Counts
    <3> DEFINE T == {j \in 1..n : oks[j]}
    <3>2. T = {}
      BY <2>3
    <3> HIDE DEF T
    <3>3. Count(T, n) = 0
      BY <3>1, <3>2
    <3>4. k # Count(T, n)
      BY <1>3, <3>3
    <3> QED  BY <3>4 DEF T
  <2> HIDE DEF q
  <2>5. IsStack(q.stack) /\ ~q.has_sig /\ Piled(n, d, q)
    BY <1>6, <2>1
  <2>6. \A i \in 1..n : oks[i] \in BOOLEAN /\ IsStack(d[i].stack) /\ ResOK(env, cs[i], sub[i], d[i], oks[i])
    BY <1>0, <1>6, <2>2
  <2>7. Gives(env, c, w, Wit(q), no)
    BY <1>0, <1>7, <2>4, <2>5, <2>6
  <2>8. ResOK(env, c, w, q, no)
    BY <2>1, <2>7 DEF ResOK
  <2>9. DisOK(env, c, w, q)
    BY <1>0, <2>8, Results
  <2> QED  BY <1>2, <2>5, <2>9 DEF FreeDis, q
<1> QED  BY <1>1, <1>5, <1>8, <1>9 DEF Sound, e, sat2, dis2

-----------------------------------------------------------------------------
(* The leaves.                                                              *)

\* What satisfies a leaf if it can be satisfied, and what dissatisfies it.
LEMMA GivenSat ==
    ASSUME NEW env, NEW c, NEW w, NEW x, GoodItems(env.tx, x), Yields(env, c, w, Comp(x)),
           NEW v, v \in {Stack(x), Impossible, Unavailable}, NEW h \in BOOLEAN
    PROVE  SatOK(env, c, w, Satisfaction(v, h))
<1>1. CASE v = Stack(x)
  <2> DEFINE s == Satisfaction(v, h)
  <2>1. GoodSat(env.tx, s) /\ Wit(s) = Comp(x)
    BY <1>1, OneStack
  <2> HIDE DEF s
  <2>2. SatOK(env, c, w, s)
    BY <2>1 DEF SatOK
  <2> QED  BY <2>2 DEF s
<1>2. CASE v = Impossible \/ v = Unavailable
  BY <1>2, NoStack
<1> QED  BY <1>1, <1>2

LEMMA GivenDis ==
    ASSUME NEW env, NEW c, NEW w, NEW y, GoodItems(env.tx, y), Fails(env, c, w, Comp(y)),
           NEW h \in BOOLEAN, ~h
    PROVE  DisOK(env, c, w, Satisfaction(Stack(y), h)) /\ FreeDis(c, Satisfaction(Stack(y), h))
<1> DEFINE s == Satisfaction(Stack(y), h)
<1>1. GoodSat(env.tx, s) /\ IsStack(s.stack) /\ Wit(s) = Comp(y) /\ s.has_sig = h
  BY OneStack
<1> HIDE DEF s
<1>2. DisOK(env, c, w, s) /\ FreeDis(c, s)
  BY <1>1 DEF DisOK, FreeDis
<1> QED  BY <1>2 DEF s

LEMMA GivenBoth ==
    ASSUME NEW env, NEW c, NEW w, Code(env, w),
           NEW x, GoodItems(env.tx, x), Yields(env, c, w, Comp(x)),
           NEW v, v \in {Stack(x), Impossible, Unavailable}, NEW h \in BOOLEAN,
           NEW y, GoodItems(env.tx, y), Fails(env, c, w, Comp(y)),
           NEW s, s = Satisfaction(v, h), NEW d, d = Satisfaction(Stack(y), FALSE)
    PROVE  Sound(env, c, w, s, d)
<1> DEFINE no == FALSE
<1>1. d = Satisfaction(Stack(y), no) /\ no \in BOOLEAN /\ ~no
  OBVIOUS
<1> HIDE DEF no
<1>2. DisOK(env, c, w, d) /\ FreeDis(c, d)
  BY <1>1, GivenDis
<1>3. SatOK(env, c, w, s)
  BY GivenSat
<1> QED  BY <1>2, <1>3 DEF Sound

\* A leaf without dissatisfaction.
LEMMA GivenOnly ==
    ASSUME NEW env, NEW c, NEW w, Code(env, w), ~c.dissatisfiable,
           NEW s, SatOK(env, c, w, s), NEW d, d = Satisfaction(Impossible, FALSE)
    PROVE  Sound(env, c, w, s, d)
<1> DEFINE no == FALSE
<1>1. d = Satisfaction(Impossible, no) /\ no \in BOOLEAN
  OBVIOUS
<1> HIDE DEF no
<1>2. DisOK(env, c, w, d) /\ FreeDis(c, d)
  BY <1>1, NoStack
<1> QED  BY <1>2 DEF Sound

LEMMA ConstantSound ==
    ASSUME NEW env, NEW t, NEW sub, NEW s, NEW d, NEW rhs, NEW mall
    PROVE  /\ t.frag = "True" => Sound(env, C!TRUE_, encode_node(t, sub),
                    satisfy_helper(t, env.tx, rhs, mall, s, d), dissatisfy_helper(t, env.tx, s, d))
           /\ t.frag = "False" => Sound(env, C!FALSE_, encode_node(t, sub),
                    satisfy_helper(t, env.tx, rhs, mall, s, d), dissatisfy_helper(t, env.tx, s, d))
<1> DEFINE e == encode_node(t, sub)
           sat2 == satisfy_helper(t, env.tx, rhs, mall, s, d)
           dis2 == dissatisfy_helper(t, env.tx, s, d)
<1> USE DEF WrapFrags, HashFrags, InscribeFrags
<1>0. Comp(<<>>) = <<>> /\ GoodItems(env.tx, <<>>)
  BY CompLaws, ItemLaws
<1>1. ASSUME t.frag = "True"  PROVE Sound(env, C!TRUE_, e, sat2, dis2)
  <2> DEFINE one == 1
             no == FALSE
             c == C!TRUE_
  <2>1. e = <<Num(one)>>
    BY <1>1 DEF encode_node
  <2>2. sat2 = Satisfaction(Stack(<<>>), no)
    BY <1>1 DEF satisfy_helper
  <2>3. dis2 = Satisfaction(Impossible, FALSE)
    BY <1>1 DEF dissatisfy_helper
  <2>4. c.base = "B" /\ c.input = "Zero" /\ ~c.dissatisfiable /\ one \in {0, 1} /\ one = 1 /\ no \in BOOLEAN
    BY DEF C!TRUE_, C!Corr
  <2> HIDE DEF one, no, c, e, sat2, dis2
  <2>5. Code(env, <<Num(one)>>) /\ Gives(env, c, <<Num(one)>>, <<>>, one = 1)
    BY <2>4, ConstantGives
  <2>6. Yields(env, c, e, Comp(<<>>)) /\ Code(env, e)
    <3>1. (one = 1) = TRUE
      BY <2>4
    <3> QED  BY <1>0, <2>1, <2>5, <3>1 DEF Yields
  <2>7. SatOK(env, c, e, sat2)
    BY <1>0, <2>2, <2>4, <2>6, GivenSat
  <2>8. Sound(env, c, e, sat2, dis2)
    BY <2>3, <2>4, <2>6, <2>7, GivenOnly
  <2> QED  BY <2>8 DEF c
<1>2. ASSUME t.frag = "False"  PROVE Sound(env, C!FALSE_, e, sat2, dis2)
  <2> DEFINE zero == 0
             no == FALSE
             c == C!FALSE_
  <2>1. e = <<Num(zero)>>
    BY <1>2 DEF encode_node
  <2>2. sat2 = Satisfaction(Impossible, no)
    BY <1>2 DEF satisfy_helper
  <2>3. dis2 = Satisfaction(Stack(<<>>), no)
    BY <1>2 DEF dissatisfy_helper
  <2>4. c.base = "B" /\ c.input = "Zero" /\ zero \in {0, 1} /\ zero # 1 /\ no \in BOOLEAN /\ ~no
    BY DEF C!FALSE_, C!Corr
  <2> HIDE DEF no, c, e, sat2, dis2, zero
  <2>5. Code(env, <<Num(zero)>>) /\ Gives(env, c, <<Num(zero)>>, <<>>, zero = 1)
    BY <2>4, ConstantGives
  <2>6. Fails(env, c, e, Comp(<<>>)) /\ Code(env, e)
    <3>1. (zero = 1) = FALSE
      BY <2>4
    <3> QED  BY <1>0, <2>1, <2>5, <3>1 DEF Fails
  <2>7. DisOK(env, c, e, dis2) /\ FreeDis(c, dis2)
    BY <1>0, <2>3, <2>4, <2>6, GivenDis
  <2>8. SatOK(env, c, e, sat2)
    BY <2>2, <2>4, NoStack
  <2>9. Sound(env, c, e, sat2, dis2)
    BY <2>6, <2>7, <2>8 DEF Sound
  <2> QED  BY <2>9 DEF c
<1> QED  BY <1>1, <1>2

\* The arguments of a leaf.
KeysGiven(args) == IsSeq(args) /\ Len(args) >= 1 /\ \A i \in 1..Len(args) : args[i] \in Keys
NameGiven(x) == x \notin Keys /\ x # "zeros"

LEMMA PkKSound ==
    ASSUME NEW env, NEW t, t.frag = "PkK", t.args[1] \in Keys,
           NEW sub, NEW s, NEW d, NEW rhs, NEW mall
    PROVE  Sound(env, C!pk_k, encode_node(t, sub),
                 satisfy_helper(t, env.tx, rhs, mall, s, d), dissatisfy_helper(t, env.tx, s, d))
<1> DEFINE key == t.args[1]
           e == encode_node(t, sub)
           sat2 == satisfy_helper(t, env.tx, rhs, mall, s, d)
           dis2 == dissatisfy_helper(t, env.tx, s, d)
           yes == TRUE
           c == C!pk_k
           v == signature(env.tx, key)
           x == <<Sig(key)>>
           y == Zeros(1)
<1> USE DEF WrapFrags, HashFrags, InscribeFrags
<1>1. e = <<PushKey(key)>>
  BY DEF encode_node
<1>2. sat2 = Satisfaction(v, yes)
  BY DEF satisfy_helper
<1>3. dis2 = Satisfaction(Stack(y), FALSE)
  BY DEF dissatisfy_helper, Zeros
<1>4. c.base = "K" /\ c.input = "OneNonZero" /\ yes \in BOOLEAN
  BY DEF C!pk_k, C!Corr
<1>5. v \in {Stack(x), Impossible, Unavailable}
  BY DEF signature
<1> HIDE DEF key, e, sat2, dis2, yes, c, v
<1>6. GoodItems(env.tx, x) /\ Comp(x) = <<<<"sig", key>>>>
  BY KnownItems, ItemLaws, CompLaws, CompletedItems
<1>7. GoodItems(env.tx, y) /\ Comp(y) = <<number(0)>>
  BY ZerosAre
<1> HIDE DEF x, y
<1>8. key \in Keys
  BY DEF key
<1>9. Code(env, e) /\ Yields(env, c, e, Comp(x)) /\ Fails(env, c, e, Comp(y))
  BY <1>1, <1>4, <1>6, <1>7, <1>8, PkKGives DEF Yields, Fails
<1>10. Sound(env, c, e, sat2, dis2)
  BY <1>2, <1>3, <1>4, <1>5, <1>6, <1>7, <1>9, GivenBoth
<1> QED  BY <1>10 DEF c, e, sat2, dis2

LEMMA PkHSound ==
    ASSUME NEW env, NEW t, t.frag \in {"PkH", "RawPkH"},
           t.frag = "RawPkH" => Ctx # "Tap" /\ t.args[1] \in env.tx.raw_pk,
           NEW sub, NEW s, NEW d, NEW rhs, NEW mall
    PROVE  Sound(env, C!pk_h, encode_node(t, sub),
                 satisfy_helper(t, env.tx, rhs, mall, s, d), dissatisfy_helper(t, env.tx, s, d))
<1> DEFINE key == t.args[1]
           e == encode_node(t, sub)
           sat2 == satisfy_helper(t, env.tx, rhs, mall, s, d)
           dis2 == dissatisfy_helper(t, env.tx, s, d)
           yes == TRUE
           c == C!pk_h
           q == IF t.frag = "PkH" THEN Pubkey(key) ELSE PubkeyHash(key)
           x == <<Sig(key)>> ++ <<q>>
           y == <<PushZero>> ++ <<q>>
           v == IF t.frag = "PkH" THEN combine(signature(env.tx, key), Stack(<<q>>))
                ELSE pkh_signature(env.tx, key)
           w == <<Op("Dup")>> ++ (<<Op("Hash160")>> ++ (<<<<"Hash20", key>>>> ++ <<Op("EqualVerify")>>))
<1> USE DEF WrapFrags, HashFrags, InscribeFrags
<1>1. e = w
  <2> DEFINE o == Op("Dup")
             p == Op("Hash160")
             r == <<"Hash20", key>>
             u == Op("EqualVerify")
  <2>1. e = <<o, p, r, u>>
    BY DEF encode_node
  <2> HIDE DEF o, p, r, u, e
  <2>2. <<o, p, r, u>> = <<o>> \o <<p, r, u>>
    <3>1. o \in {o, p, r, u} /\ p \in {o, p, r, u} /\ r \in {o, p, r, u} /\ u \in {o, p, r, u}
      OBVIOUS
    <3> QED  BY <3>1, TupleCatThree
  <2>3. <<p, r, u>> = <<p>> \o <<r, u>> /\ <<r, u>> = <<r>> \o <<u>>
    BY ShortSeqs
  <2> QED  BY <2>1, <2>2, <2>3, Zenon DEF o, p, r, u, w, ++
<1>2. sat2 = Satisfaction(v, yes)
  BY DEF satisfy_helper
<1>3. GoodItem(env.tx, q) /\ satisfy_self(q) = <<"key", key>>
  <2>1. CASE t.frag = "PkH"
    BY <2>1, KnownItems, CompletedItems
  <2>2. CASE t.frag = "RawPkH"
    BY <2>2, KnownItems, CompletedItems
  <2> QED  BY <2>1, <2>2
<1>4. c.base = "K" /\ c.input = "AnyNonZero" /\ yes \in BOOLEAN
  BY DEF C!pk_h, C!Corr
<1> HIDE DEF q
<1>5. GoodItems(env.tx, <<Sig(key)>>) /\ GoodItems(env.tx, <<q>>) /\ GoodItems(env.tx, <<PushZero>>)
  BY <1>3, KnownItems, ItemLaws
<1>6. GoodItems(env.tx, x) /\ GoodItems(env.tx, y)
  BY <1>5, ItemLaws
<1>7. x = <<Sig(key), q>> /\ y = <<PushZero, q>>
  BY ShortSeqs, Zenon DEF ++
<1>8. Comp(x) = <<<<"sig", key>>, <<"key", key>>>> /\ Comp(y) = <<number(0), <<"key", key>>>>
  <2> DEFINE a == <<"sig", key>>
             b == <<"key", key>>
             z == number(0)
  <2>1. satisfy_self(Sig(key)) = a /\ satisfy_self(PushZero) = z /\ satisfy_self(q) = b
    BY <1>3, CompletedItems
  <2> HIDE DEF a, b, z
  <2>2. Comp(<<Sig(key)>>) = <<a>> /\ Comp(<<PushZero>>) = <<z>> /\ Comp(<<q>>) = <<b>>
    BY <2>1, CompLaws
  <2>3. IsSeq(<<Sig(key)>>) /\ IsSeq(<<PushZero>>) /\ IsSeq(<<q>>)
    BY ShortSeqs
  <2>4. Comp(x) = Comp(<<Sig(key)>>) ++ Comp(<<q>>) /\ Comp(y) = Comp(<<PushZero>>) ++ Comp(<<q>>)
    BY <2>3, CompLaws
  <2>5. Comp(x) = <<a>> ++ <<b>> /\ Comp(y) = <<z>> ++ <<b>>
    BY <2>2, <2>4
  <2>6. <<a>> ++ <<b>> = <<a, b>> /\ <<z>> ++ <<b>> = <<z, b>>
    BY ShortSeqs, Zenon DEF ++
  <2> QED  BY <2>5, <2>6 DEF a, b, z
<1>9. v \in {Stack(x), Impossible, Unavailable}
  <2>1. CASE t.frag = "PkH"
    <3> DEFINE p == <<Sig(key)>>
               r == <<q>>
    <3>1. GoodStack(env.tx, Stack(p)) /\ IsStack(Stack(p)) /\ Stack(p).items = p
      BY <1>5, StackForms
    <3>2. GoodStack(env.tx, Stack(r)) /\ IsStack(Stack(r)) /\ Stack(r).items = r
      BY <1>5, StackForms
    <3> HIDE DEF p, r
    <3>3. combine(Stack(p), Stack(r)) = Stack(p ++ r)
      BY <3>1, <3>2, Combined
    <3>4. combine(Impossible, Stack(r)) = Impossible
      BY DEF combine, Impossible
    <3>5. signature(env.tx, key) = Stack(p) \/ signature(env.tx, key) = Impossible
      BY DEF signature, p
    <3> QED  BY <2>1, <3>3, <3>4, <3>5 DEF p, r
  <2>2. CASE t.frag = "RawPkH"
    <3>1. q = PubkeyHash(key)
      BY <2>2 DEF q
    <3>2. pkh_signature(env.tx, key) = Stack(<<Sig(key), q>>) \/ pkh_signature(env.tx, key) = Impossible
      BY <3>1 DEF pkh_signature
    <3> HIDE DEF x
    <3> QED  BY <1>7, <2>2, <3>2
  <2> QED  BY <2>1, <2>2
<1>10. dis2 = Satisfaction(Stack(y), FALSE)
  <2>1. CASE t.frag = "PkH"
    <3>1. dis2 = Satisfaction(Stack(<<PushZero, Pubkey(key)>>), FALSE)
      BY <2>1 DEF dissatisfy_helper
    <3>2. q = Pubkey(key)
      BY <2>1 DEF q
    <3> HIDE DEF y, dis2
    <3> QED  BY <1>7, <3>1, <3>2
  <2>2. CASE t.frag = "RawPkH"
    <3> DEFINE p == Zeros(1)
               r == <<q>>
    <3>1. dis2 = Satisfaction(combine(Stack(Zeros(1)), pkh_public_key(env.tx, key)), FALSE)
      BY <2>2 DEF dissatisfy_helper, Zeros
    <3>2. pkh_public_key(env.tx, key) = Stack(r)
      BY <2>2 DEF pkh_public_key, q
    <3>3. p = <<PushZero>>
      <4>1. IsSeq(Zeros(1)) /\ Len(Zeros(1)) = 1
        BY ZerosAre
      <4>2. Zeros(1)[1] = PushZero
        BY DEF Zeros
      <4> DEFINE z == PushZero
                 o == <<z>>
      <4> HIDE DEF z
      <4>3. IsSeq(o) /\ Len(o) = 1 /\ o[1] = z
        BY ShortSeqs
      <4>4. \A i \in 1..1 : i = 1
        OBVIOUS
      <4> HIDE DEF o, p
      <4>5. \A i \in 1..1 : p[i] = o[i]
        BY <4>2, <4>3, <4>4 DEF p, z
      <4>6. p = o
        BY <4>1, <4>3, <4>5, SeqEq DEF p
      <4> QED  BY <4>6 DEF o, z
    <3>4. GoodItems(env.tx, p)
      BY <1>5, <3>3
    <3>5. GoodStack(env.tx, Stack(p)) /\ IsStack(Stack(p)) /\ Stack(p).items = p
      BY <3>4, StackForms
    <3>6. GoodStack(env.tx, Stack(r)) /\ IsStack(Stack(r)) /\ Stack(r).items = r
      BY <1>5, StackForms
    <3> HIDE DEF p, r, dis2
    <3>7. combine(Stack(p), Stack(r)) = Stack(p ++ r)
      BY <3>5, <3>6, Combined
    <3>8. p ++ r = y
      BY <3>3 DEF r
    <3> QED  BY <3>1, <3>2, <3>7, <3>8 DEF p
  <2> QED  BY <2>1, <2>2
<1> HIDE DEF e, sat2, dis2, yes, c, v, x, y, w, key
<1>11. Code(env, w) /\ Yields(env, c, w, Comp(x)) /\ Fails(env, c, w, Comp(y))
  BY <1>4, <1>8, PkHGives DEF Yields, Fails, w
<1>12. Sound(env, c, e, sat2, dis2)
  BY <1>1, <1>2, <1>4, <1>6, <1>9, <1>10, <1>11, GivenBoth
<1> QED  BY <1>12 DEF c, e, sat2, dis2

(* A time lock, a hash lock and a template.                                 *)
LEMMA TimelockSound ==
    ASSUME NEW env, NEW t, t.frag \in {"After", "Older"}, t.k \in Nat, t.k # 0,
           t.frag = "After" => env.tx.sequence # -1,
           NEW sub, NEW s, NEW d, NEW rhs, NEW mall
    PROVE  Sound(env, C!time, encode_node(t, sub),
                 satisfy_helper(t, env.tx, rhs, mall, s, d), dissatisfy_helper(t, env.tx, s, d))
<1> DEFINE k == t.k
           e == encode_node(t, sub)
           sat2 == satisfy_helper(t, env.tx, rhs, mall, s, d)
           dis2 == dissatisfy_helper(t, env.tx, s, d)
           no == FALSE
           c == C!time
           op == IF t.frag = "After" THEN "CheckLockTimeVerify" ELSE "CheckSequenceVerify"
           v == timelock(IF t.frag = "After" THEN check_after(env.tx, k) ELSE check_older(env.tx, k), rhs)
           z == Satisfaction(v, no)
           w == <<Num(k)>> ++ <<Op(op)>>
<1> USE DEF WrapFrags, HashFrags, InscribeFrags
<1>1. e = w
  <2>1. e = <<Num(k), Op(op)>>
    BY DEF encode_node
  <2> HIDE DEF e, op
  <2> QED  BY <2>1, ShortSeqs, Zenon DEF ++
<1>2. dis2 = Satisfaction(Impossible, FALSE)
  BY DEF dissatisfy_helper
<1>3. c.base = "B" /\ c.input = "Zero" /\ ~c.dissatisfiable /\ ~c.unit /\ no \in BOOLEAN
  BY DEF C!time, C!Corr
<1>4. op \in {"CheckLockTimeVerify", "CheckSequenceVerify"}
  OBVIOUS
<1>5. v = Stack(<<>>) \/ v = Impossible \/ v = Unavailable
  BY DEF timelock
<1>6. ASSUME v = Stack(<<>>)
      PROVE  /\ op = "CheckLockTimeVerify" => abs_is_implied_by(k, env.tx.lock_time) /\ env.tx.sequence # -1
             /\ op = "CheckSequenceVerify" => env.tx.sequence >= 0 /\ rel_is_implied_by(k, env.tx.sequence)
  <2>1. IF t.frag = "After" THEN check_after(env.tx, k) ELSE check_older(env.tx, k)
    BY <1>6 DEF timelock, Stack, Impossible, Unavailable
  <2> QED  BY <2>1 DEF check_after, check_older
<1>7. \/ \E x : sat2 = WithAbsolute(z, x)
      \/ \E x : sat2 = WithRelative(z, x)
  <2>1. CASE t.frag = "After"
    <3> DEFINE ok == check_after(env.tx, k)
               x == IF ok THEN k ELSE 0
    <3>1. sat2 = [Satisfaction(timelock(ok, rhs), FALSE) EXCEPT !.absolute_timelock = x]
      BY <2>1 DEF satisfy_helper
    <3>2. timelock(ok, rhs) = v
      BY <2>1
    <3> HIDE DEF ok, x, sat2, v
    <3>3. sat2 = WithAbsolute(z, x)
      BY <3>1, <3>2, Zenon DEF WithAbsolute
    <3> QED  BY <3>3, Zenon
  <2>2. CASE t.frag = "Older"
    <3> DEFINE ok == check_older(env.tx, k)
               x == IF ok THEN k ELSE 0
    <3>1. sat2 = [Satisfaction(timelock(ok, rhs), FALSE) EXCEPT !.relative_timelock = x]
      BY <2>2 DEF satisfy_helper
    <3>2. timelock(ok, rhs) = v
      BY <2>2
    <3> HIDE DEF ok, x, sat2, v
    <3>3. sat2 = WithRelative(z, x)
      BY <3>1, <3>2, Zenon DEF WithRelative
    <3> QED  BY <3>3, Zenon
  <2> QED  BY <2>1, <2>2
<1>8. k \in Nat /\ k # 0
  OBVIOUS
<1> HIDE DEF e, sat2, dis2, no, c, op, v, z, k, w
<1>9. Code(env, w) /\ (v = Stack(<<>>) => Yields(env, c, w, <<>>))
  BY <1>3, <1>4, <1>6, <1>8, TimelockGives DEF Yields, w
<1>10. GoodItems(env.tx, <<>>) /\ Comp(<<>>) = <<>>
  BY ItemLaws, CompLaws
<1>11. SatOK(env, c, w, z)
  <2>1. CASE v = Stack(<<>>)
    BY <1>3, <1>9, <1>10, <2>1, GivenSat DEF z
  <2>2. CASE v = Impossible \/ v = Unavailable
    BY <1>3, <2>2, NoStack DEF z
  <2> QED  BY <1>5, <2>1, <2>2
<1>12. SatOK(env, c, w, sat2)
  <2>1. GoodSat(env.tx, sat2) /\ sat2.stack = z.stack
    <3>1. GoodSat(env.tx, z)
      BY <1>11 DEF SatOK
    <3>2. CASE \E x : sat2 = WithAbsolute(z, x)
      BY <3>1, <3>2, FieldSet DEF Same
    <3>3. CASE \E x : sat2 = WithRelative(z, x)
      BY <3>1, <3>3, FieldSet DEF Same
    <3> QED  BY <1>7, <3>2, <3>3
  <2> QED  BY <1>11, <2>1, Zenon DEF SatOK, Wit
<1>13. Sound(env, c, w, sat2, dis2)
  BY <1>2, <1>3, <1>9, <1>12, GivenOnly
<1> QED  BY <1>1, <1>13 DEF c, e, sat2, dis2

LEMMA TemplateSound ==
    ASSUME NEW env, NEW t, t.frag = "TxTemplate", t.args[1] \notin Keys,
           NEW sub, NEW s, NEW d, NEW rhs, NEW mall
    PROVE  Sound(env, C!Corr("V", "Zero", FALSE, FALSE), encode_node(t, sub),
                 satisfy_helper(t, env.tx, rhs, mall, s, d), dissatisfy_helper(t, env.tx, s, d))
<1> DEFINE h == t.args[1]
           e == encode_node(t, sub)
           sat2 == satisfy_helper(t, env.tx, rhs, mall, s, d)
           dis2 == dissatisfy_helper(t, env.tx, s, d)
           no == FALSE
           c == C!Corr("V", "Zero", FALSE, FALSE)
           w == <<<<"Bytes32", h>>>> ++ (<<Op("CheckTemplateVerify")>> ++ <<Op("Drop")>>)
           v == IF env.tx.template = h THEN Stack(<<>>) ELSE Impossible
<1> USE DEF WrapFrags, HashFrags, InscribeFrags
<1>1. e = w
  <2> DEFINE a == <<"Bytes32", h>>
             b == Op("CheckTemplateVerify")
             o == Op("Drop")
  <2>1. e = <<a, b, o>>
    BY DEF encode_node
  <2> HIDE DEF e, a, b, o
  <2>2. <<a>> \o <<b, o>> = <<a, b, o>> /\ <<b>> \o <<o>> = <<b, o>>
    BY ShortSeqs
  <2>3. e = <<a>> ++ (<<b>> ++ <<o>>)
    BY <2>1, <2>2, Zenon DEF ++
  <2> QED  BY <2>3 DEF a, b, o
<1>2. dis2 = Satisfaction(Impossible, FALSE)
  BY DEF dissatisfy_helper
<1>3. c.base = "V" /\ c.input = "Zero" /\ ~c.dissatisfiable /\ no \in BOOLEAN
  BY DEF C!Corr
<1>4. sat2 = Satisfaction(v, no)
  BY DEF satisfy_helper
<1>5. h \notin Keys
  OBVIOUS
<1> HIDE DEF e, sat2, dis2, no, c, w, h
<1>6. Code(env, w) /\ (env.tx.template = h => Yields(env, c, w, <<>>))
  BY <1>3, <1>5, TemplateGives DEF Yields, w
<1>7. GoodItems(env.tx, <<>>) /\ Comp(<<>>) = <<>>
  BY ItemLaws, CompLaws
<1>8. SatOK(env, c, w, sat2)
  <2>1. CASE env.tx.template = h
    <3>1. v = Stack(<<>>)
      BY <2>1
    <3> HIDE DEF v
    <3> QED  BY <1>3, <1>4, <1>6, <1>7, <2>1, <3>1, GivenSat
  <2>2. CASE env.tx.template # h
    <3>1. v = Impossible
      BY <2>2
    <3> HIDE DEF v
    <3> QED  BY <1>3, <1>4, <3>1, NoStack
  <2> QED  BY <2>1, <2>2
<1>9. Sound(env, c, w, sat2, dis2)
  BY <1>2, <1>3, <1>6, <1>8, GivenOnly
<1> QED  BY <1>1, <1>9 DEF c, e, sat2, dis2

SixParts(a, b, c, x, y, z) ==
    <<a, b, c, x, y, z>> = <<a>> ++ (<<b>> ++ (<<c>> ++ (<<x>> ++ (<<y>> ++ <<z>>))))

LEMMA HashScript ==
    ASSUME NEW a, NEW b, NEW c, NEW x, NEW y, NEW z
    PROVE  SixParts(a, b, c, x, y, z)
<1> DEFINE S == {a, b, c, x, y, z}
           p == <<b, c, x, y, z>>
           q == <<c, x, y, z>>
<1>1. a \in S /\ b \in S /\ c \in S /\ x \in S /\ y \in S /\ z \in S
  OBVIOUS
<1> HIDE DEF S
<1>2. q = <<c>> \o <<x, y, z>> /\ <<x, y, z>> = <<x>> \o <<y, z>> /\ <<y, z>> = <<y>> \o <<z>>
  <2>1. <<c>> \o <<x, y, z>> = <<c, x, y, z>>
    BY <1>1, TupleCatThree
  <2> QED  BY <2>1, ShortSeqs
<1>3. p = <<b>> \o q
  <2> DEFINE u == <<b>> \o q
  <2>1. <<b>> \in Seq(S) /\ q \in Seq(S) /\ p \in Seq(S) /\ Len(p) = 5
    BY <1>1
  <2>2. u \in Seq(S) /\ Len(u) = 5
    BY <2>1
  <2>3. u[1] = b /\ u[2] = c /\ u[3] = x /\ u[4] = y /\ u[5] = z
    BY <2>1
  <2>4. p[1] = b /\ p[2] = c /\ p[3] = x /\ p[4] = y /\ p[5] = z
    OBVIOUS
  <2> HIDE DEF u, p, q
  <2>5. \A j \in 1..Len(p) : p[j] = u[j]
    BY <2>1, <2>3, <2>4
  <2> QED  BY <2>1, <2>2, <2>5, SeqEqual DEF u
<1>4. <<a, b, c, x, y, z>> = <<a>> \o p
  <2> DEFINE u == <<a>> \o p
             v == <<a, b, c, x, y, z>>
  <2>1. <<a>> \in Seq(S) /\ p \in Seq(S) /\ v \in Seq(S) /\ Len(v) = 6
    BY <1>1
  <2>2. u \in Seq(S) /\ Len(u) = 6
    BY <2>1
  <2>3. u[1] = a /\ u[2] = b /\ u[3] = c /\ u[4] = x /\ u[5] = y /\ u[6] = z
    BY <2>1
  <2>4. v[1] = a /\ v[2] = b /\ v[3] = c /\ v[4] = x /\ v[5] = y /\ v[6] = z
    OBVIOUS
  <2> HIDE DEF u, v, p
  <2>5. \A j \in 1..Len(v) : v[j] = u[j]
    BY <2>1, <2>3, <2>4
  <2> QED  BY <2>1, <2>2, <2>5, SeqEqual DEF u, v
<1> HIDE DEF p, q
<1> QED  BY <1>2, <1>3, <1>4, Zenon DEF ++, SixParts

LEMMA HashSound ==
    ASSUME NEW env, NEW t, t.frag \in HashFrags, NameGiven(t.args[1]),
           NEW sub, NEW s, NEW d, NEW rhs, NEW mall
    PROVE  Sound(env, C!hash, encode_node(t, sub),
                 satisfy_helper(t, env.tx, rhs, mall, s, d), dissatisfy_helper(t, env.tx, s, d))
<1> DEFINE h == t.args[1]
           f == t.frag
           push == IF f \in {"Sha256", "Hash256"} THEN "Bytes32" ELSE "Hash20"
           e == encode_node(t, sub)
           sat2 == satisfy_helper(t, env.tx, rhs, mall, s, d)
           dis2 == dissatisfy_helper(t, env.tx, s, d)
           no == FALSE
           c == C!hash
           x == <<Preimage(h)>>
           y == <<HashDissatisfaction>>
           v == IF h \in env.tx.preimages THEN Stack(x) ELSE Unavailable
           w == <<Op("Size")>> ++ (<<Num(32)>> ++ (<<Op("EqualVerify")>> ++
                        (<<Op(f)>> ++ (<<<<push, h>>>> ++ <<Op("Equal")>>))))
<1>1. e = w
  <2>1. e = hash_script(f, h)
    BY DEF encode_node, HashFrags
  <2>2. e = <<Op("Size"), Num(32), Op("EqualVerify"), Op(f), <<push, h>>, Op("Equal")>>
    BY <2>1, Zenon DEF hash_script
  <2> DEFINE a == Op("Size")
             b == Num(32)
             o == Op("EqualVerify")
             p == Op(f)
             q == <<push, h>>
             r == Op("Equal")
  <2> HIDE DEF e, a, b, o, p, q, r
  <2>3. SixParts(a, b, o, p, q, r)
    BY HashScript
  <2> QED  BY <2>2, <2>3 DEF a, b, o, p, q, r, SixParts
<1>2. sat2 = Satisfaction(v, no)
  BY DEF satisfy_helper, WrapFrags, HashFrags, InscribeFrags
<1>3. dis2 = Satisfaction(Stack(y), FALSE)
  BY DEF dissatisfy_helper, WrapFrags, HashFrags, InscribeFrags
<1>4. c.base = "B" /\ c.input = "OneNonZero" /\ no \in BOOLEAN
  BY DEF C!hash, C!Corr
<1>5. v \in {Stack(x), Impossible, Unavailable}
  BY Zenon
<1>6. f \in HashFrags /\ push \in {"Bytes32", "Hash20"} /\ h \notin Keys /\ h # "zeros"
  BY DEF NameGiven
<1> HIDE DEF h, f, push, e, sat2, dis2, no, c, v, w
<1>7. GoodItems(env.tx, x) /\ Comp(x) = <<<<"pre", h>>>> /\ GoodItems(env.tx, y) /\ Comp(y) = <<<<"pre", "zeros">>>>
  BY KnownItems, ItemLaws, CompLaws, CompletedItems
<1> HIDE DEF x, y
<1>8. Code(env, w) /\ Yields(env, c, w, Comp(x)) /\ Fails(env, c, w, Comp(y))
  BY <1>4, <1>6, <1>7, HashGives, ZenonT(30) DEF Yields, Fails, w
<1>9. Sound(env, c, w, sat2, dis2)
  BY <1>2, <1>3, <1>4, <1>5, <1>7, <1>8, GivenBoth
<1> QED  BY <1>1, <1>9 DEF c, e, sat2, dis2

\* The keys that sign.
Increasing(f, k, n) == f \in [1..k -> 1..n] /\ \A i, j \in 1..k : i < j => f[i] < f[j]
Has(a, args) == {i \in DOMAIN args : args[i] \in a.sigs}
SigsBy(args, k, f) == [i \in 1..k |-> Sig(args[f[i]])]

MultiSat(k, args, sat2) ==
    \/ sat2 = Satisfaction(Impossible, FALSE)
    \/ \E f : /\ Increasing(f, k, Len(args))
              /\ sat2 = Satisfaction(Stack(<<PushZero>> ++ SigsBy(args, k, f)), TRUE)

LEMMA MultiWitness ==
    ASSUME NEW a, NEW args, IsSeq(args), NEW k \in Nat
    PROVE  MultiSat(k, args, multi_witness(a, k, args))
<1> DEFINE n == Len(args)
           has == Has(a, args)
           nth(m) == CHOOSE i \in has : Cardinality({j \in has : j < i}) = m - 1
           R == OrderOn(has, "up")
           rank == [i \in has |-> Cardinality({j \in has : j < i})]
           f == [i \in 1..k |-> nth(i)]
<1>1. n \in Nat /\ DOMAIN args = 1..n /\ has \subseteq 1..n
  BY SeqForm DEF Has
<1>2. multi_witness(a, k, args) =
        IF Cardinality(has) < k THEN Satisfaction(Impossible, FALSE)
        ELSE Satisfaction(Stack(<<PushZero>> \o [i \in 1..k |-> Sig(args[nth(i)])]), TRUE)
  BY Zenon DEF multi_witness, Has
<1>3. SigsBy(args, k, f) = [i \in 1..k |-> Sig(args[nth(i)])]
  <2>1. \A i \in 1..k : f[i] = nth(i)
    OBVIOUS
  <2> HIDE DEF f, nth
  <2> QED  BY <2>1 DEF SigsBy
<1> SUFFICES ASSUME ~(Cardinality(has) < k)  PROVE Increasing(f, k, n)
  <2> HIDE DEF has, nth, f, n
  <2>1. CASE Cardinality(has) < k
    BY <1>2, <2>1 DEF MultiSat
  <2>2. CASE ~(Cardinality(has) < k)
    <3>1. multi_witness(a, k, args) = Satisfaction(Stack(<<PushZero>> ++ SigsBy(args, k, f)), TRUE)
      BY <1>2, <1>3, <2>2, Zenon DEF ++
    <3> QED  BY <2>2, <3>1, Zenon DEF n, MultiSat
  <2> QED  BY <2>1, <2>2
<1> HIDE DEF n, has
<1>4. /\ IsFiniteSet(has) /\ StrictOrder(has, R)
      /\ \A i \in has : Before(has, R, i) = {j \in has : j < i}
      /\ \A i, j \in has : <<i, j>> \in R <=> i < j
  <2>1. Ordered(has, "up")
    BY <1>1, InOrder
  <2> QED  BY <2>1 DEF Ordered, Rivals
<1> HIDE DEF R
<1>5. \A i \in has : rank[i] = Cardinality(Before(has, R, i)) /\ rank[i] = Cardinality({j \in has : j < i})
  BY <1>4
<1> HIDE DEF rank
<1>6. /\ Cardinality(has) \in Nat
      /\ \A i, j \in has : <<i, j>> \in R <=> rank[i] < rank[j]
      /\ \A m \in 0..(Cardinality(has) - 1) : \E i \in has : rank[i] = m
  BY <1>4, <1>5, Ranks
<1>7. ASSUME NEW i \in 1..k  PROVE nth(i) \in has /\ rank[nth(i)] = i - 1
  <2>1. i - 1 \in 0..(Cardinality(has) - 1)
    BY <1>6
  <2>2. \E j \in has : rank[j] = i - 1
    BY <1>6, <2>1
  <2>3. \E j \in has : Cardinality({x \in has : x < j}) = i - 1
    BY <1>5, <2>2
  <2>4. nth(i) \in has /\ Cardinality({x \in has : x < nth(i)}) = i - 1
    BY <2>3, Zenon
  <2> HIDE DEF nth
  <2> QED  BY <1>5, <2>4
<1>8. \A i \in 1..k : f[i] = nth(i)
  OBVIOUS
<1>9. f = [i \in 1..k |-> f[i]]
  <2> HIDE DEF nth
  <2> QED  OBVIOUS
<1> HIDE DEF f, nth
<1>10. f \in [1..k -> 1..n]
  BY <1>1, <1>7, <1>8, <1>9
<1>11. ASSUME NEW i \in 1..k, NEW j \in 1..k, i < j  PROVE f[i] < f[j]
  <2>1. rank[f[i]] < rank[f[j]] /\ f[i] \in has /\ f[j] \in has
    BY <1>7, <1>8, <1>11
  <2> QED  BY <1>4, <1>6, <2>1
<1> QED  BY <1>10, <1>11 DEF Increasing

LEMMA MultiScript ==
    ASSUME NEW t, t.frag = "Multi", IsSeq(t.args), NEW sub
    PROVE  LET keys == [i \in 1..Len(t.args) |-> <<PushKey(t.args[i])>>]
           IN  encode_node(t, sub) =
                    <<Num(t.k)>> ++ Cat(keys) ++ (<<Num(Len(t.args))>> ++ <<Op("CheckMultiSig")>>)
<1> DEFINE ss == [i \in DOMAIN t.args |-> <<PushKey(t.args[i])>>]
           v == <<Num(Len(t.args)), Op("CheckMultiSig")>>
<1>1. encode_node(t, sub) = <<Num(t.k)>> \o ConcatAll(ss) \o v
  BY DEF encode_node, HashFrags
<1>2. DOMAIN t.args = 1..Len(t.args)
  BY SeqForm
<1>3. v = <<Num(Len(t.args))>> ++ <<Op("CheckMultiSig")>>
  BY ShortSeqs, Zenon DEF ++
<1>4. ConcatAll(ss) = Cat(ss)
  <2> HIDE DEF ss
  <2> QED  BY Zenon DEF ConcatAll, Cat
<1>5. encode_node(t, sub) = <<Num(t.k)>> ++ Cat(ss) ++ (<<Num(Len(t.args))>> ++ <<Op("CheckMultiSig")>>)
  <2> HIDE DEF ss, v
  <2> QED  BY <1>1, <1>3, <1>4, Zenon DEF ++
<1> QED  BY <1>2, <1>5

LEMMA SigsByAre ==
    ASSUME NEW args, NEW k \in Nat, NEW f, Increasing(f, k, Len(args))
    PROVE  LET x == SigsBy(args, k, f)
           IN  /\ \A a : GoodItems(a, x)
               /\ IsSeq(x) /\ IsSeq(Comp(x)) /\ Len(Comp(x)) = k
               /\ Signed(Comp(x), k, args, Len(args), f)
<1> DEFINE x == SigsBy(args, k, f)
<1>1. x = [i \in 1..k |-> x[i]] /\ \A i \in 1..k : x[i] = Sig(args[f[i]])
  BY DEF SigsBy
<1> HIDE DEF x
<1>2. IsSeq(x) /\ Len(x) = k
  BY <1>1, FnSeq
<1>3. \A a : GoodItems(a, x)
  BY <1>1, <1>2, KnownItems DEF GoodItems
<1>4. IsSeq(Comp(x)) /\ Len(Comp(x)) = k /\ \A i \in 1..k : Comp(x)[i] = satisfy_self(x[i])
  BY <1>2, CompLaws
<1>5. \A i \in 1..k : Comp(x)[i] = <<"sig", args[f[i]]>>
  BY <1>1, <1>4, CompletedItems
<1> HIDE DEF Increasing
<1>6. Signed(Comp(x), k, args, Len(args), f)
  BY <1>5 DEF Signed, Increasing
<1> QED  BY <1>2, <1>3, <1>4, <1>6 DEF x

LEMMA MultiSound ==
    ASSUME NEW env, NEW t, t.frag = "Multi", KeysGiven(t.args), t.k \in Nat, t.k >= 1,
           NEW sub, NEW s, NEW d, NEW rhs, NEW mall
    PROVE  Sound(env, C!multi, encode_node(t, sub),
                 satisfy_helper(t, env.tx, rhs, mall, s, d), dissatisfy_helper(t, env.tx, s, d))
<1> DEFINE k == t.k
           args == t.args
           n == Len(args)
           keys == [i \in 1..n |-> <<PushKey(args[i])>>]
           e == encode_node(t, sub)
           sat2 == satisfy_helper(t, env.tx, rhs, mall, s, d)
           dis2 == dissatisfy_helper(t, env.tx, s, d)
           yes == TRUE
           no == FALSE
           c == C!multi
           o == <<PushZero>>
           z == <<number(0)>>
           w == <<Num(k)>> ++ Cat(keys) ++ (<<Num(n)>> ++ <<Op("CheckMultiSig")>>)
<1>1. IsSeq(args) /\ (\A i \in 1..n : args[i] \in Keys) /\ k \in Nat /\ k >= 1
  BY DEF KeysGiven
<1>2. e = w
  BY <1>1, MultiScript
<1>3. sat2 = multi_witness(env.tx, k, args)
  BY DEF satisfy_helper, WrapFrags, HashFrags, InscribeFrags
<1>4. dis2 = Satisfaction(Stack(Zeros(k + 1)), no)
  BY DEF dissatisfy_helper, WrapFrags, HashFrags, InscribeFrags, Zeros
<1>5. c.base = "B" /\ c.input = "AnyNonZero" /\ yes \in BOOLEAN /\ no \in BOOLEAN /\ ~no
  BY DEF C!multi, C!Corr
<1>6. \/ sat2 = Satisfaction(Impossible, no)
      \/ \E f : Increasing(f, k, n) /\ sat2 = Satisfaction(Stack(o ++ SigsBy(args, k, f)), yes)
  <2>1. MultiSat(k, args, sat2)
    BY <1>1, <1>3, MultiWitness
  <2> HIDE DEF sat2, k, args
  <2> QED  BY <2>1, Zenon DEF MultiSat, yes, no, o, n
<1> HIDE DEF k, args, e, sat2, dis2, yes, no, c
<1>7. /\ Code(env, w)
      /\ \A sigs : /\ IsSeq(sigs) /\ Len(sigs) = k
                   /\ \E f : Signed(sigs, k, args, n, f)
                   => Gives(env, c, w, z ++ sigs, TRUE)
      /\ \A sigs : /\ IsSeq(sigs) /\ Len(sigs) = k
                   /\ \A i \in 1..k : sigs[i] = number(0)
                   => Gives(env, c, w, z ++ sigs, FALSE)
  BY <1>1, <1>5, MultiGives
<1>8. IsSeq(o) /\ Comp(o) = z /\ GoodItems(env.tx, o)
  BY ShortSeqs, CompLaws, CompletedItems, KnownItems, ItemLaws
<1> HIDE DEF n, keys, w, o, z
<1>9. SatOK(env, c, w, sat2)
  <2>1. CASE sat2 = Satisfaction(Impossible, no)
    BY <1>5, <2>1, NoStack
  <2>2. ASSUME NEW f, Increasing(f, k, n), sat2 = Satisfaction(Stack(o ++ SigsBy(args, k, f)), yes)
        PROVE  SatOK(env, c, w, sat2)
    <3> DEFINE x == SigsBy(args, k, f)
               y == o ++ x
    <3>1. /\ GoodItems(env.tx, x) /\ IsSeq(x) /\ IsSeq(Comp(x)) /\ Len(Comp(x)) = k
          /\ Signed(Comp(x), k, args, n, f)
      BY <1>1, <2>2, SigsByAre DEF n
    <3> HIDE DEF x
    <3>2. Comp(y) = z ++ Comp(x)
      BY <1>8, <3>1, CompLaws
    <3>3. GoodItems(env.tx, y)
      BY <1>8, <3>1, ItemLaws
    <3>4. Yields(env, c, w, z ++ Comp(x))
      BY <1>7, <3>1, Zenon DEF Yields
    <3>5. sat2 = Satisfaction(Stack(y), yes)
      BY <2>2 DEF x
    <3> HIDE DEF y
    <3> QED  BY <1>5, <3>2, <3>3, <3>4, <3>5, GivenSat
  <2> QED  BY <1>6, <2>1, <2>2
<1>10. DisOK(env, c, w, dis2) /\ FreeDis(c, dis2)
  <2> DEFINE y == Zeros(k + 1)
             x == Comp(Zeros(k))
  <2>1. k + 1 \in Nat /\ k + 1 >= 1 /\ (k + 1) - 1 = k
    BY <1>1
  <2>2. GoodItems(env.tx, y) /\ Comp(y) = <<number(0)>> ++ Comp(Zeros((k + 1) - 1))
    BY <2>1, ZerosAre
  <2>3. Comp(y) = z ++ x
    BY <2>1, <2>2 DEF z
  <2>4. IsSeq(x) /\ Len(x) = k /\ \A i \in 1..k : x[i] = number(0)
    BY <1>1, ZerosAre
  <2> HIDE DEF x
  <2>5. Fails(env, c, w, z ++ x)
    BY <1>7, <2>4, Zenon DEF Fails
  <2> HIDE DEF y
  <2> QED  BY <1>4, <1>5, <2>2, <2>3, <2>5, GivenDis DEF y
<1>11. Sound(env, c, w, sat2, dis2)
  BY <1>7, <1>9, <1>10 DEF Sound
<1> QED  BY <1>2, <1>11 DEF c, e, sat2, dis2

\* The keys whose signatures multi_a_witness takes.
Used(a, k, args) == {i \in Has(a, args) : Cardinality(Rivals(Has(a, args), "down", i)) < k}

LEMMA UsedCount ==
    ASSUME NEW a, NEW args, IsSeq(args), NEW k \in Nat, ~(Cardinality(Has(a, args)) < k)
    PROVE  Count(Used(a, k, args), Len(args)) = k
<1> DEFINE n == Len(args)
           has == Has(a, args)
           R == OrderOn(has, "down")
           rank == [i \in has |-> Cardinality(Rivals(has, "down", i))]
<1>1. n \in Nat /\ has \in SUBSET (1..n)
  BY SeqForm DEF Has
<1> HIDE DEF has, n
<1>2. Ordered(has, "down")
  BY <1>1, InOrder
<1>3. IsFiniteSet(has) /\ StrictOrder(has, R) /\ \A i \in has : Before(has, R, i) = Rivals(has, "down", i)
  BY <1>2 DEF Ordered
<1>4. \A i \in has : rank[i] = Cardinality(Before(has, R, i)) /\ rank[i] = Cardinality(Rivals(has, "down", i))
  BY <1>3
<1> HIDE DEF R, rank
<1>5. Cardinality(has) \in Nat /\ \A j \in 0..Cardinality(has) : Cardinality({i \in has : rank[i] < j}) = j
  BY <1>3, <1>4, Ranks
<1>6. k \in 0..Cardinality(has)
  BY <1>5 DEF has
<1>7. Cardinality({i \in has : rank[i] < k}) = k
  BY <1>5, <1>6
<1>8. {i \in has : rank[i] < k} = Used(a, k, args)
  BY <1>4 DEF Used, has
<1>9. Used(a, k, args) \cap (1..n) = Used(a, k, args)
  BY <1>1 DEF Used, has
<1> QED  BY <1>7, <1>8, <1>9 DEF Count, n

LEMMA UsedSat ==
    ASSUME NEW env, NEW args, IsSeq(args), NEW used
    PROVE  LET n == Len(args)
               x == [i \in 1..n |-> IF n + 1 - i \in used THEN Sig(args[n + 1 - i]) ELSE PushZero]
           IN  GoodItems(env.tx, x) /\ Comp(x) = UsedSigs(args, used)
<1> DEFINE n == Len(args)
           x == [i \in 1..n |-> IF n + 1 - i \in used THEN Sig(args[n + 1 - i]) ELSE PushZero]
           y == UsedSigs(args, used)
<1>0. n \in Nat
  BY SeqForm
<1>1. x = [i \in 1..n |-> x[i]]
  OBVIOUS
<1>2. \A i \in 1..n : x[i] = IF n + 1 - i \in used THEN Sig(args[n + 1 - i]) ELSE PushZero
  OBVIOUS
<1>3. \A i \in 1..n : y[i] = IF n + 1 - i \in used THEN <<"sig", args[n + 1 - i]>> ELSE number(0)
  BY DEF UsedSigs
<1>4. IsSeq(y) /\ Len(y) = n
  BY UsedSigsSeq
<1> HIDE DEF x, y, n
<1>5. IsSeq(x) /\ Len(x) = n
  BY <1>0, <1>1, FnSeq
<1>6. GoodItems(env.tx, x)
  BY <1>2, <1>5, KnownItems DEF GoodItems
<1>7. IsSeq(Comp(x)) /\ Len(Comp(x)) = n /\ \A i \in 1..n : Comp(x)[i] = satisfy_self(x[i])
  BY <1>5, CompLaws
<1>8. ASSUME NEW i \in 1..n  PROVE Comp(x)[i] = y[i]
  <2>1. CASE n + 1 - i \in used
    BY <1>2, <1>3, <1>7, <2>1, CompletedItems
  <2>2. CASE ~(n + 1 - i \in used)
    BY <1>2, <1>3, <1>7, <2>2, CompletedItems
  <2> QED  BY <2>1, <2>2
<1>9. Comp(x) = y
  BY <1>4, <1>7, <1>8, SeqEq
<1> QED  BY <1>6, <1>9 DEF x, y, n

LEMMA MultiAScript ==
    ASSUME NEW t, t.frag = "MultiA", IsSeq(t.args), NEW sub
    PROVE  LET keys == [i \in 1..Len(t.args) |-> <<PushKey(t.args[i])>> ++ <<CheckKey(i)>>]
           IN  encode_node(t, sub) = Cat(keys) ++ (<<Num(t.k)>> ++ <<Op("NumEqual")>>)
<1> DEFINE n == Len(t.args)
           keys == [i \in DOMAIN t.args |-> <<PushKey(t.args[i])>>]
           ss == [i \in DOMAIN keys |->
                      Append(keys[i], Op(IF i = 1 THEN "CheckSig" ELSE "CheckSigAdd"))]
           us == [i \in 1..n |-> <<PushKey(t.args[i])>> ++ <<CheckKey(i)>>]
           v == <<Num(t.k), Op("NumEqual")>>
<1>1. encode_node(t, sub) = ConcatAll(ss) \o v
  BY DEF encode_node, HashFrags
<1>2. DOMAIN t.args = 1..n
  BY SeqForm
<1>3. v = <<Num(t.k)>> ++ <<Op("NumEqual")>>
  BY ShortSeqs, Zenon DEF ++
<1>4. ss = us
  <2>1. DOMAIN keys = 1..n /\ \A i \in 1..n : keys[i] = <<PushKey(t.args[i])>>
    BY <1>2
  <2>2. ASSUME NEW i \in 1..n
        PROVE  Append(keys[i], Op(IF i = 1 THEN "CheckSig" ELSE "CheckSigAdd"))
                    = <<PushKey(t.args[i])>> ++ <<CheckKey(i)>>
    <3> DEFINE x == PushKey(t.args[i])
               y == CheckKey(i)
               a == <<x>>
    <3>1. keys[i] = a /\ Op(IF i = 1 THEN "CheckSig" ELSE "CheckSigAdd") = y
      BY <2>1 DEF CheckKey
    <3> HIDE DEF x, y
    <3>2. IsSeq(a)
      BY ShortSeqs
    <3> HIDE DEF a
    <3>3. Append(a, y) = a \o <<y>>
      BY <3>2, AppendOn
    <3> HIDE DEF keys
    <3>4. Append(keys[i], Op(IF i = 1 THEN "CheckSig" ELSE "CheckSigAdd")) = a ++ <<y>>
      BY <3>1, <3>3, Zenon DEF ++
    <3> QED  BY <3>4 DEF a, x, y
  <2> HIDE DEF keys
  <2> QED  BY <2>1, <2>2
<1>5. ConcatAll(ss) = Cat(us)
  <2> HIDE DEF ss, us
  <2> QED  BY <1>4, Zenon DEF ConcatAll, Cat
<1>6. encode_node(t, sub) = Cat(us) ++ (<<Num(t.k)>> ++ <<Op("NumEqual")>>)
  <2> HIDE DEF us, ss, v
  <2> QED  BY <1>1, <1>3, <1>5, Zenon DEF ++
<1> QED  BY <1>6

LEMMA MultiASound ==
    ASSUME NEW env, NEW t, t.frag = "MultiA", KeysGiven(t.args), t.k \in Nat, t.k >= 1,
           NEW sub, NEW s, NEW d, NEW rhs, NEW mall
    PROVE  Sound(env, C!multi_a, encode_node(t, sub),
                 satisfy_helper(t, env.tx, rhs, mall, s, d), dissatisfy_helper(t, env.tx, s, d))
<1> DEFINE k == t.k
           args == t.args
           n == Len(args)
           keys == [i \in 1..n |-> <<PushKey(args[i])>> ++ <<CheckKey(i)>>]
           e == encode_node(t, sub)
           sat2 == satisfy_helper(t, env.tx, rhs, mall, s, d)
           dis2 == dissatisfy_helper(t, env.tx, s, d)
           yes == TRUE
           no == FALSE
           c == C!multi_a
           w == Cat(keys) ++ (<<Num(k)>> ++ <<Op("NumEqual")>>)
           used == Used(env.tx, k, args)
           x == [i \in 1..n |-> IF n + 1 - i \in used THEN Sig(args[n + 1 - i]) ELSE PushZero]
<1>1. IsSeq(args) /\ (\A i \in 1..n : args[i] \in Keys) /\ n >= 1 /\ k \in Nat /\ k >= 1
  BY DEF KeysGiven
<1>2. e = w
  BY <1>1, MultiAScript
<1>3. sat2 = multi_a_witness(env.tx, k, args)
  BY DEF satisfy_helper, WrapFrags, HashFrags, InscribeFrags
<1>4. dis2 = Satisfaction(Stack(Zeros(n)), no)
  BY DEF dissatisfy_helper, WrapFrags, HashFrags, InscribeFrags, Zeros
<1>5. c.base = "B" /\ c.input = "Any" /\ yes \in BOOLEAN /\ no \in BOOLEAN /\ ~no
  BY DEF C!multi_a, C!Corr
<1>6. sat2 = IF Cardinality(Has(env.tx, args)) < k THEN Satisfaction(Impossible, no) ELSE Satisfaction(Stack(x), yes)
  <2> DEFINE has == {i \in 1..n : args[i] \in env.tx.sigs}
             us == {i \in has : Cardinality({j \in has : j > i}) < k}
             y == [i \in 1..n |-> IF n + 1 - i \in us THEN Sig(args[n + 1 - i]) ELSE PushZero]
  <2>1. sat2 = IF Cardinality(has) < k THEN Satisfaction(Impossible, no) ELSE Satisfaction(Stack(y), yes)
    BY <1>3, Zenon DEF multi_a_witness
  <2>2. has = Has(env.tx, args)
    BY <1>1, SeqForm DEF Has
  <2> HIDE DEF has, sat2, yes, no, n
  <2>3. us = used
    BY <2>2, Zenon DEF Used, Rivals
  <2> QED  BY <2>1, <2>2, <2>3, Zenon
<1> HIDE DEF k, args, e, sat2, dis2, yes, no, c
<1>7. /\ Code(env, w)
      /\ \A u : Gives(env, c, w, UsedSigs(args, u), k = Count(u, n))
  BY <1>1, <1>5, MultiAGives
<1>8. GoodItems(env.tx, x) /\ Comp(x) = UsedSigs(args, used)
  BY <1>1, UsedSat
<1>9. n \in Nat
  BY <1>1, SeqForm
<1> HIDE DEF keys, w, x
<1>10. SatOK(env, c, w, sat2)
  <2>1. CASE Cardinality(Has(env.tx, args)) < k
    BY <1>5, <1>6, <2>1, NoStack
  <2>2. CASE ~(Cardinality(Has(env.tx, args)) < k)
    <3>1. (k = Count(used, n)) = TRUE
      BY <1>1, <2>2, UsedCount
    <3>2. Gives(env, c, w, UsedSigs(args, used), k = Count(used, n))
      BY <1>7
    <3>3. Yields(env, c, w, Comp(x))
      BY <1>8, <3>1, <3>2 DEF Yields
    <3> QED  BY <1>5, <1>6, <1>8, <2>2, <3>3, GivenSat
  <2> QED  BY <2>1, <2>2
<1>11. DisOK(env, c, w, dis2) /\ FreeDis(c, dis2)
  <2> DEFINE y == Zeros(n)
             u == UsedSigs(args, {})
  <2>1. GoodItems(env.tx, y) /\ IsSeq(Comp(y)) /\ Len(Comp(y)) = n /\ \A i \in 1..n : Comp(y)[i] = number(0)
    BY <1>9, ZerosAre
  <2>2. IsSeq(u) /\ Len(u) = n
    BY <1>1, UsedSigsSeq DEF n
  <2>3. \A i \in 1..n : u[i] = number(0)
    BY DEF UsedSigs, n
  <2> HIDE DEF y, u, n
  <2>4. Comp(y) = u
    BY <2>1, <2>2, <2>3, SeqEq
  <2>5. (k = Count({}, n)) = FALSE
    <3>1. Count({}, n) = 0
      BY <1>9, Counts
    <3> QED  BY <1>1, <3>1
  <2>6. Gives(env, c, w, UsedSigs(args, {}), k = Count({}, n))
    BY <1>7
  <2>7. Fails(env, c, w, Comp(y))
    BY <2>4, <2>5, <2>6 DEF Fails, u
  <2> QED  BY <1>4, <1>5, <2>1, <2>7, GivenDis DEF y
<1>12. Sound(env, c, w, sat2, dis2)
  BY <1>7, <1>10, <1>11 DEF Sound
<1> QED  BY <1>2, <1>12 DEF c, e, sat2, dis2

-----------------------------------------------------------------------------
(* What type_check tells about a fragment and its children.                 *)

LEMMA WrapTyped ==
    ASSUME NEW f \in WrapFrags, NEW x, wrap_type(f, x) # Err
    PROVE  WrapFacts(f, x.corr, wrap_type(f, x).corr)
<1> USE DEF Ty, Err, C!Corr, C!Err, C!Result, WrapFacts
<1>1. CASE f = "Alt"
  BY <1>1 DEF wrap_type, C!cast_alt
<1>2. CASE f = "Swap"
  BY <1>2 DEF wrap_type, C!cast_swap
<1>3. CASE f = "Check"
  BY <1>3 DEF wrap_type, C!cast_check
<1>4. CASE f = "DupIf"
  BY <1>4 DEF wrap_type, C!cast_dupif
<1>5. CASE f = "Verify"
  BY <1>5 DEF wrap_type, C!cast_verify
<1>6. CASE f = "NonZero"
  BY <1>6 DEF wrap_type, C!cast_nonzero
<1>7. CASE f = "ZeroNotEqual"
  BY <1>7 DEF wrap_type, C!cast_zeronotequal
<1> QED
  BY <1>1, <1>2, <1>3, <1>4, <1>5, <1>6, <1>7 DEF WrapFrags

LEMMA BinaryTyped ==
    ASSUME NEW f \in BinaryFrags, NEW l, NEW r, binary_type(f, l, r) # Err
    PROVE  BinFacts(f, l.corr, r.corr, binary_type(f, l, r).corr)
<1> USE DEF Ty, Err, C!Corr, C!Err, C!Result, BinFacts
<1>1. CASE f = "AndV"
  BY <1>1 DEF binary_type, C!and_v, AndVFacts
<1>2. CASE f = "AndB"
  BY <1>2 DEF binary_type, C!and_b, AndBFacts
<1>3. CASE f = "OrB"
  BY <1>3 DEF binary_type, C!or_b, OrBFacts
<1>4. CASE f = "OrD"
  BY <1>4 DEF binary_type, C!or_d, OrDFacts
<1>5. CASE f = "OrC"
  BY <1>5 DEF binary_type, C!or_c, OrCFacts
<1>6. CASE f = "OrI"
  BY <1>6 DEF binary_type, C!or_i, OrIFacts
<1> QED
  BY <1>1, <1>2, <1>3, <1>4, <1>5, <1>6 DEF BinaryFrags

LEMMA AndOrTyped ==
    ASSUME NEW a, NEW b, NEW c, and_or(a, b, c) # Err
    PROVE  AndOrFacts(a.corr, b.corr, c.corr, and_or(a, b, c).corr)
  BY DEF Ty, Err, C!Corr, C!Err, C!Result, and_or, C!and_or, AndOrFacts, AndOrInput

LEMMA ThreshTyped ==
    ASSUME NEW n \in Nat, NEW k \in 1..n, NEW subs, DOMAIN subs = 1..n, threshold(k, subs) # Err,
           NEW cs, cs = [i \in DOMAIN subs |-> subs[i].corr]
    PROVE  ThreshFacts(k, cs, n, threshold(k, subs).corr)
<1> DEFINE c == C!threshold(k, cs)
<1>1. c # C!Err /\ threshold(k, subs).corr = c
  BY DEF threshold, Ty, Err
<1>2. DOMAIN cs = 1..n
  OBVIOUS
<1>3. \A i \in 1..n : cs[i].base = (IF i = 1 THEN "B" ELSE "W") /\ cs[i].unit /\ cs[i].dissatisfiable
  BY <1>1, <1>2 DEF C!threshold, C!Result
<1>4. c = C!Corr("B", ThreshInput(cs, n), TRUE, TRUE)
  <2> DEFINE ok == \A i \in DOMAIN cs :
                      /\ cs[i].base = IF i = 1 THEN "B" ELSE "W"
                      /\ cs[i].unit
                      /\ cs[i].dissatisfiable
             input(S) == CASE \A i \in S : cs[i].input = "Zero" -> "Zero"
                           [] \E i \in S : /\ cs[i].input \in C!One
                                           /\ \A j \in S \ {i} : cs[j].input = "Zero" -> "One"
                           [] OTHER -> "Any"
  <2>1. ok
    BY <1>2, <1>3
  <2>2. c = C!Result(ok, C!Corr("B", input(DOMAIN cs), TRUE, TRUE))
    BY DEF C!threshold
  <2>3. input(1..n) = ThreshInput(cs, n)
    BY DEF ThreshInput
  <2> HIDE DEF ok, input
  <2>4. input(DOMAIN cs) = ThreshInput(cs, n)
    BY <1>2, <2>3
  <2> HIDE DEF c
  <2> QED  BY <2>1, <2>2, <2>4 DEF C!Result
<1>5. c.base = "B" /\ c.input = ThreshInput(cs, n)
  BY <1>4 DEF C!Corr
<1> HIDE DEF c
<1> QED  BY <1>1, <1>3, <1>5 DEF ThreshFacts

-----------------------------------------------------------------------------
(* Every node of an arena is sound when its children are.                   *)

\* What the assets must offer for a leaf, and how it must be named.
LeafGiven(t, a) ==
    /\ t.frag \in {"PkK", "Multi", "MultiA"} => KeysGiven(t.args)
    /\ t.frag \in {"Multi", "MultiA"} => t.k \in Nat /\ t.k >= 1
    /\ t.frag \in {"After", "Older"} => t.k \in Nat /\ t.k # 0
    /\ t.frag = "After" => a.sequence # -1
    /\ t.frag = "RawPkH" => Ctx # "Tap" /\ t.args[1] \in a.raw_pk
    /\ t.frag \in HashFrags => NameGiven(t.args[1])
    /\ t.frag = "TxTemplate" => t.args[1] \notin Keys

LEMMA LeafSound ==
    ASSUME NEW env, NEW t, t.frag \in LeafFrags, LeafGiven(t, env.tx),
           NEW sub, NEW s, NEW d, NEW rhs, NEW mall
    PROVE  Sound(env, leaf_type(t.frag).corr, encode_node(t, sub),
                 satisfy_helper(t, env.tx, rhs, mall, s, d), dissatisfy_helper(t, env.tx, s, d))
<1> DEFINE f == t.frag
           e == encode_node(t, sub)
           sat2 == satisfy_helper(t, env.tx, rhs, mall, s, d)
           dis2 == dissatisfy_helper(t, env.tx, s, d)
           c == leaf_type(f).corr
<1> HIDE DEF e, sat2, dis2
<1>0. \A x, y : Ty(x, y) = IF x = Err THEN Err ELSE [corr |-> x, mall |-> y]
  BY DEF Ty
<1> USE DEF C!Corr, C!Err, Err
<1>1. CASE f \in {"True", "False"}
  <2>1. f = "True" => c = C!TRUE_
    BY <1>0 DEF leaf_type, HashFrags, C!TRUE_
  <2>2. f = "False" => c = C!FALSE_
    BY <1>0 DEF leaf_type, HashFrags, C!FALSE_
  <2> QED  BY <1>1, <2>1, <2>2, ConstantSound DEF e, sat2, dis2
<1>2. CASE f = "PkK"
  <2>1. c = C!pk_k
    BY <1>0, <1>2 DEF leaf_type, HashFrags, C!pk_k
  <2>2. t.args[1] \in Keys
    BY <1>2 DEF LeafGiven, KeysGiven
  <2> QED  BY <1>2, <2>1, <2>2, PkKSound DEF e, sat2, dis2
<1>3. CASE f \in {"PkH", "RawPkH"}
  <2>1. c = C!pk_h
    BY <1>0, <1>3 DEF leaf_type, HashFrags, C!pk_h
  <2>2. f = "RawPkH" => Ctx # "Tap" /\ t.args[1] \in env.tx.raw_pk
    BY DEF LeafGiven
  <2> QED  BY <1>3, <2>1, <2>2, PkHSound DEF e, sat2, dis2
<1>4. CASE f \in {"After", "Older"}
  <2>1. c = C!time
    BY <1>0, <1>4 DEF leaf_type, HashFrags, C!time
  <2>2. t.k \in Nat /\ t.k # 0 /\ (f = "After" => env.tx.sequence # -1)
    BY <1>4 DEF LeafGiven
  <2> QED  BY <1>4, <2>1, <2>2, TimelockSound DEF e, sat2, dis2
<1>5. CASE f \in HashFrags
  <2>1. c = C!hash
    BY <1>0, <1>5 DEF leaf_type, HashFrags, C!hash
  <2>2. NameGiven(t.args[1])
    BY <1>5 DEF LeafGiven
  <2> QED  BY <1>5, <2>1, <2>2, HashSound DEF e, sat2, dis2
<1>6. CASE f = "TxTemplate"
  <2>1. c = C!Corr("V", "Zero", FALSE, FALSE)
    BY <1>0, <1>6 DEF leaf_type, HashFrags, tx_template
  <2>2. t.args[1] \notin Keys
    BY <1>6 DEF LeafGiven
  <2> HIDE DEF C!Corr, c
  <2> QED  BY <1>6, <2>1, <2>2, TemplateSound DEF e, sat2, dis2, c
<1>7. CASE f \in {"Multi", "MultiA"}
  <2>1. f = "Multi" => c = C!multi
    BY <1>0 DEF leaf_type, HashFrags, C!multi
  <2>2. f = "MultiA" => c = C!multi_a
    BY <1>0 DEF leaf_type, HashFrags, C!multi_a
  <2>3. KeysGiven(t.args) /\ t.k \in Nat /\ t.k >= 1
    BY <1>7 DEF LeafGiven
  <2>4. CASE f = "Multi"
    BY <2>1, <2>3, <2>4, MultiSound DEF e, sat2, dis2
  <2>5. CASE f = "MultiA"
    BY <2>2, <2>3, <2>5, MultiASound DEF e, sat2, dis2
  <2> QED  BY <1>7, <2>4, <2>5
<1> QED
  BY <1>1, <1>2, <1>3, <1>4, <1>5, <1>6, <1>7 DEF LeafFrags, e, sat2, dis2

\* A node of the arena ns with index i.
NodeFine(ns, i, t) ==
    /\ t.frag \in Frags /\ IsSeq(t.args) /\ IsSeq(t.subs)
    /\ \A j \in 1..Len(t.subs) : t.subs[j] \in 1..(i - 1)
    /\ t.frag \in WrapFrags \cup InscribeFrags => Len(t.subs) = 1
    /\ t.frag \in BinaryFrags => Len(t.subs) = 2
    /\ t.frag = "AndOr" => Len(t.subs) = 3
    /\ t.frag = "Thresh" => t.k \in 1..Len(t.subs)
    /\ t.frag \in LeafFrags => \E l \in LeafTerms : t.frag = l[1] /\ t.k = l[2] /\ t.args = l[3]
    /\ t.ty = ty_of(ns, t) /\ t.ty # Err

LEMMA NodeSound ==
    ASSUME NEW env, env.avail = {}, NEW ns, NEW i, NEW t, NodeFine(ns, i, t), LeafGiven(t, env.tx),
           NEW sub, NEW s, NEW d, NEW rhs, NEW mall \in BOOLEAN,
           IsSeq(sub), Len(sub) = Len(t.subs), DOMAIN s = 1..Len(t.subs), Len(s) = Len(t.subs),
           Len(d) = Len(t.subs),
           \A j \in 1..Len(t.subs) : Sound(env, ns[t.subs[j]].ty.corr, sub[j], s[j], d[j])
    PROVE  Sound(env, t.ty.corr, encode_node(t, sub), satisfy_helper(t, env.tx, rhs, mall, s, d),
                 dissatisfy_helper(t, env.tx, s, d))
<1> DEFINE f == t.frag
           n == Len(t.subs)
           x(j) == ns[t.subs[j]].ty
           tys == [j \in DOMAIN t.subs |-> ns[t.subs[j]].ty]
           ok == InscriptionsValid(t.args)
           Goal == Sound(env, t.ty.corr, encode_node(t, sub), satisfy_helper(t, env.tx, rhs, mall, s, d),
                         dissatisfy_helper(t, env.tx, s, d))
<1>1. t.ty = type_check(f, t.k, tys, ok) /\ t.ty # Err
  BY DEF NodeFine, ty_of
<1>2. DOMAIN t.subs = 1..n /\ n \in Nat
  BY SeqForm DEF NodeFine
<1>3. DOMAIN tys = 1..n /\ \A j \in 1..n : tys[j] = x(j)
  BY <1>2
<1>4. \A j \in 1..n : Sound(env, x(j).corr, sub[j], s[j], d[j])
  OBVIOUS
<1>5. /\ f \in WrapFrags \cup InscribeFrags => n = 1
      /\ f \in BinaryFrags => n = 2
      /\ f = "AndOr" => n = 3
      /\ f = "Thresh" => t.k \in 1..n
      /\ f \in Frags /\ IsSeq(t.args)
  BY DEF NodeFine
<1> DEFINE x1 == x(1)
           x2 == x(2)
           x3 == x(3)
<1>6. n \in {1, 2, 3} => x1 = tys[1] /\ Sound(env, x1.corr, sub[1], s[1], d[1])
  BY <1>3, <1>4
<1>7. n \in {2, 3} => x2 = tys[2] /\ Sound(env, x2.corr, sub[2], s[2], d[2])
  BY <1>3, <1>4
<1>8. n = 3 => x3 = tys[3] /\ Sound(env, x3.corr, sub[3], s[3], d[3])
  <2>1. n = 3 => 3 \in 1..n
    BY <1>2
  <2> QED  BY <1>3, <1>4, <2>1, Zenon
<1> HIDE DEF tys, ok, x1, x2, x3
<1>9. CASE f \in LeafFrags
  <2>1. t.ty = leaf_type(f)
    BY <1>1, <1>9 DEF type_check, LeafFrags, HashFrags, WrapFrags, InscribeFrags, BinaryFrags
  <2> QED  BY <1>9, <2>1, LeafSound
<1>10. CASE f \in WrapFrags
  <2>1. t.ty = wrap_type(f, x1)
    BY <1>1, <1>5, <1>6, <1>10 DEF type_check, LeafFrags, HashFrags, WrapFrags, InscribeFrags, BinaryFrags
  <2>2. WrapFacts(f, x1.corr, t.ty.corr)
    BY <1>1, <1>10, <2>1, WrapTyped
  <2> DEFINE c == t.ty.corr
             y == x1.corr
  <2>3. WrapFacts(f, y, c) /\ Sound(env, y, sub[1], s[1], d[1])
    BY <1>5, <1>6, <1>10, <2>2
  <2> HIDE DEF c, y
  <2> QED  BY <1>10, <2>3, WrapSound DEF c
<1>11. CASE f \in InscribeFrags
  <2>1. t.ty = x1
    BY <1>1, <1>5, <1>6, <1>11 DEF type_check, LeafFrags, HashFrags, WrapFrags, InscribeFrags, BinaryFrags
  <2> DEFINE c == t.ty.corr
  <2>2. Sound(env, c, sub[1], s[1], d[1])
    BY <1>5, <1>6, <1>11, <2>1
  <2> HIDE DEF c
  <2> QED  BY <1>5, <1>11, <2>2, InscribeSound DEF c
<1>12. CASE f \in BinaryFrags
  <2>1. t.ty = binary_type(f, x1, x2)
    BY <1>1, <1>5, <1>6, <1>7, <1>12
       DEF type_check, LeafFrags, HashFrags, WrapFrags, InscribeFrags, BinaryFrags
  <2>2. BinFacts(f, x1.corr, x2.corr, t.ty.corr)
    BY <1>1, <1>12, <2>1, BinaryTyped
  <2> DEFINE c == t.ty.corr
             y == x1.corr
             z == x2.corr
  <2>3. BinFacts(f, y, z, c) /\ Sound(env, y, sub[1], s[1], d[1]) /\ Sound(env, z, sub[2], s[2], d[2])
    BY <1>5, <1>6, <1>7, <1>12, <2>2
  <2> HIDE DEF c, y, z
  <2> QED  BY <1>12, <2>3, BinarySound DEF c
<1>13. CASE f = "AndOr"
  <2>1. t.ty = and_or(x1, x2, x3)
    BY <1>1, <1>5, <1>6, <1>7, <1>8, <1>13
       DEF type_check, LeafFrags, HashFrags, WrapFrags, InscribeFrags, BinaryFrags
  <2>2. AndOrFacts(x1.corr, x2.corr, x3.corr, t.ty.corr)
    BY <1>1, <2>1, AndOrTyped
  <2> DEFINE c == t.ty.corr
             y == x1.corr
             z == x2.corr
             u == x3.corr
  <2>3. /\ AndOrFacts(y, z, u, c) /\ Sound(env, y, sub[1], s[1], d[1])
        /\ Sound(env, z, sub[2], s[2], d[2]) /\ Sound(env, u, sub[3], s[3], d[3])
    BY <1>5, <1>6, <1>7, <1>8, <1>13, <2>2
  <2> HIDE DEF c, y, z, u
  <2> QED  BY <1>13, <2>3, AndOrNodeSound DEF c
<1>14. CASE f = "Thresh"
  <2> DEFINE cs == [j \in DOMAIN tys |-> tys[j].corr]
             c == t.ty.corr
  <2>1. t.ty = threshold(t.k, tys)
    BY <1>1, <1>14 DEF type_check, LeafFrags, HashFrags, WrapFrags, InscribeFrags, BinaryFrags
  <2>2. ThreshFacts(t.k, cs, n, c)
    <3>1. t.k \in 1..n
      BY <1>5, <1>14
    <3> HIDE DEF cs, n
    <3> QED  BY <1>1, <1>2, <1>3, <2>1, <3>1, ThreshTyped DEF cs
  <2>3. \A j \in 1..n : Sound(env, cs[j], sub[j], s[j], d[j])
    <3>1. \A j \in 1..n : cs[j] = x(j).corr
      BY <1>3
    <3> HIDE DEF cs
    <3> QED  BY <1>4, <3>1
  <2> HIDE DEF cs, c
  <2> QED  BY <1>14, <2>2, <2>3, ThreshSound DEF c
<1> QED
  BY <1>5, <1>9, <1>10, <1>11, <1>12, <1>13, <1>14 DEF Frags

-----------------------------------------------------------------------------
(* The recursions over an arena and over a script.                          *)

Subs(W, t) == [j \in DOMAIN t.subs |-> W[t.subs[j]]]

\* The children of a node come before it.
Earlier(ns) ==
    /\ Len(ns) \in Nat /\ DOMAIN ns = 1..Len(ns)
    /\ \A i \in 1..Len(ns) : \A j \in DOMAIN ns[i].subs : ns[i].subs[j] \in 1..(i - 1)

Codes(ns, k, W) ==
    W = [i \in 1..k |-> W[i]] /\ \A i \in 1..k : W[i] = encode_node(ns[i], Subs(W, ns[i]))

LEMMA EncodeIs ==
    ASSUME NEW ns, Earlier(ns), NEW r \in 1..Len(ns)
    PROVE  \E W : Codes(ns, Len(ns), W) /\ encode(ns, r) = W[r]
<1> DEFINE n == Len(ns)
           Is(f) == f = [i \in DOMAIN ns |-> encode_node(ns[i], Subs(f, ns[i]))]
           S == {k \in Nat : k <= n => \E W : Codes(ns, k, W)}
           g == CHOOSE f : Is(f)
<1>0. n \in Nat /\ DOMAIN ns = 1..n
  BY DEF Earlier
<1>1. 0 \in S
  <2> DEFINE W == [i \in 1..0 |-> <<>>]
  <2>1. Codes(ns, 0, W)
    BY DEF Codes
  <2> QED  BY <2>1
<1>2. ASSUME NEW k \in Nat, k \in S  PROVE k + 1 \in S
  <2> SUFFICES ASSUME k + 1 <= n  PROVE \E W : Codes(ns, k + 1, W)
    OBVIOUS
  <2>1. PICK W : Codes(ns, k, W)
    BY <1>0, <1>2
  <2> DEFINE e == encode_node(ns[k + 1], Subs(W, ns[k + 1]))
             Z == [i \in 1..(k + 1) |-> IF i = k + 1 THEN e ELSE W[i]]
  <2> HIDE DEF e
  <2>2. Z[k + 1] = e /\ \A i \in 1..k : Z[i] = W[i]
    OBVIOUS
  <2>3. Z = [i \in 1..(k + 1) |-> Z[i]]
    OBVIOUS
  <2> HIDE DEF Z
  <2>4. ASSUME NEW i \in 1..(k + 1)  PROVE Subs(Z, ns[i]) = Subs(W, ns[i])
    <3>1. \A j \in DOMAIN ns[i].subs : ns[i].subs[j] \in 1..(i - 1)
      BY <1>0 DEF Earlier
    <3>2. \A j \in DOMAIN ns[i].subs : ns[i].subs[j] \in 1..k
      BY <3>1
    <3> QED  BY <2>2, <3>2 DEF Subs
  <2>5. ASSUME NEW i \in 1..(k + 1)  PROVE Z[i] = encode_node(ns[i], Subs(Z, ns[i]))
    <3>1. CASE i = k + 1
      BY <2>2, <2>4, <3>1 DEF e
    <3>2. CASE i # k + 1
      <4>1. i \in 1..k
        BY <3>2
      <4> QED  BY <2>1, <2>2, <2>4, <4>1 DEF Codes
    <3> QED  BY <3>1, <3>2
  <2> QED  BY <2>3, <2>5 DEF Codes
<1> HIDE DEF S
<1>3. n \in S
  BY <1>0, <1>1, <1>2, SetInduction
<1>4. PICK W : Codes(ns, n, W)
  BY <1>0, <1>3 DEF S
<1>5. Is(W)
  BY <1>0, <1>4 DEF Codes
<1>6. encode(ns, r) = g[r]
  BY Zenon DEF encode, Subs
<1>7. Is(g)
  <2> HIDE DEF Is
  <2> QED  BY <1>5, Zenon
<1>8. Codes(ns, n, g)
  <2> HIDE DEF g
  <2>1. \A i \in 1..n : g[i] = encode_node(ns[i], Subs(g, ns[i]))
    BY <1>0, <1>7
  <2>2. g = [i \in 1..n |-> g[i]]
    BY <1>0, <1>7
  <2> QED  BY <2>1, <2>2 DEF Codes
<1> QED  BY <1>6, <1>8

SatsOf(D, t) == [j \in DOMAIN t.subs |-> D[t.subs[j]].sat]
DissOf(D, t) == [j \in DOMAIN t.subs |-> D[t.subs[j]].dis]

NodeSats(t, a, rhs, mall, D) ==
    [sat |-> satisfy_helper(t, a, rhs, mall, SatsOf(D, t), DissOf(D, t)),
     dis |-> dissatisfy_helper(t, a, SatsOf(D, t), DissOf(D, t))]

SatsUpto(ns, a, rhs, mall, k, D) ==
    IsSeq(D) /\ Len(D) = k /\ \A i \in 1..k : D[i] = NodeSats(ns[i], a, rhs, mall, D)

LEMMA SatsAppend ==
    ASSUME NEW ns, Earlier(ns), NEW a, NEW rhs, NEW mall, NEW k \in Nat, k + 1 <= Len(ns),
           NEW D, SatsUpto(ns, a, rhs, mall, k, D)
    PROVE  SatsUpto(ns, a, rhs, mall, k + 1, Append(D, NodeSats(ns[k + 1], a, rhs, mall, D)))
<1> DEFINE e == NodeSats(ns[k + 1], a, rhs, mall, D)
           Z == Append(D, e)
<1> HIDE DEF e
<1>1. IsSeq(D) /\ Len(D) = k
  BY DEF SatsUpto
<1>2. IsSeq(Z) /\ Len(Z) = k + 1 /\ (\A i \in 1..k : Z[i] = D[i]) /\ Z[k + 1] = e
  BY <1>1, AppendForm
<1> HIDE DEF Z
<1>3. ASSUME NEW i \in 1..(k + 1)  PROVE NodeSats(ns[i], a, rhs, mall, Z) = NodeSats(ns[i], a, rhs, mall, D)
  <2> DEFINE t == ns[i]
  <2>1. \A j \in DOMAIN t.subs : t.subs[j] \in 1..(i - 1)
    BY DEF Earlier
  <2>2. \A j \in DOMAIN t.subs : t.subs[j] \in 1..k
    BY <2>1
  <2>3. SatsOf(Z, t) = SatsOf(D, t) /\ DissOf(Z, t) = DissOf(D, t)
    <3> HIDE DEF t
    <3> QED  BY <1>2, <2>2 DEF SatsOf, DissOf
  <2> HIDE DEF t
  <2>4. NodeSats(t, a, rhs, mall, Z) = NodeSats(t, a, rhs, mall, D)
    BY <2>3 DEF NodeSats
  <2> QED  BY <2>4 DEF t
<1>4. ASSUME NEW i \in 1..(k + 1)  PROVE Z[i] = NodeSats(ns[i], a, rhs, mall, Z)
  <2>1. CASE i = k + 1
    BY <1>2, <1>3, <2>1 DEF e
  <2>2. CASE i # k + 1
    <3>1. i \in 1..k
      BY <2>2
    <3>2. D[i] = NodeSats(ns[i], a, rhs, mall, D)
      BY <3>1 DEF SatsUpto
    <3> QED  BY <1>2, <1>3, <3>1, <3>2
  <2> QED  BY <2>1, <2>2
<1> QED  BY <1>2, <1>4 DEF SatsUpto, Z, e

LEMMA SatisfactionsAre ==
    ASSUME NEW ns, Earlier(ns), NEW a, NEW rhs, NEW mall
    PROVE  SatsUpto(ns, a, rhs, mall, Len(ns), Satisfactions(ns, a, rhs, mall))
<1> DEFINE n == Len(ns)
           Next2(D, i) == Append(D, NodeSats(ns[i], a, rhs, mall, D))
           Is(f) == f = [i \in 0..n |-> IF i = 0 THEN <<>> ELSE Next2(f[i - 1], i)]
           Upto2(k, W) == /\ W = [i \in 0..k |-> W[i]] /\ W[0] = <<>>
                          /\ \A i \in 1..k : W[i] = Next2(W[i - 1], i)
           S == {k \in Nat : \E W : Upto2(k, W)}
           g == CHOOSE f : Is(f)
<1>0. n \in Nat
  BY DEF Earlier
<1>1. Satisfactions(ns, a, rhs, mall) = g[n]
  BY Zenon DEF Satisfactions, NodeSats, SatsOf, DissOf
<1> HIDE DEF Next2
<1>2. 0 \in S
  <2> DEFINE W == [i \in 0..0 |-> <<>>]
  <2>1. Upto2(0, W)
    OBVIOUS
  <2> QED  BY <2>1
<1>3. ASSUME NEW k \in Nat, k \in S  PROVE k + 1 \in S
  <2>1. PICK W : Upto2(k, W)
    BY <1>3
  <2> DEFINE Z == [i \in 0..(k + 1) |-> IF i = k + 1 THEN Next2(W[k], k + 1) ELSE W[i]]
  <2>2. Z[0] = <<>> /\ Z = [i \in 0..(k + 1) |-> Z[i]]
    BY <2>1
  <2>3. ASSUME NEW i \in 1..(k + 1)  PROVE Z[i] = Next2(Z[i - 1], i)
    <3>1. CASE i = k + 1
      <4>1. Z[i] = Next2(W[k], i) /\ Z[i - 1] = W[k]
        BY <3>1
      <4> QED  BY <4>1
    <3>2. CASE i # k + 1
      <4>1. i \in 1..k /\ Z[i] = W[i] /\ Z[i - 1] = W[i - 1]
        BY <3>2
      <4> QED  BY <2>1, <4>1
    <3> QED  BY <3>1, <3>2
  <2>4. Upto2(k + 1, Z)
    BY <2>2, <2>3
  <2> HIDE DEF Z
  <2>5. \E Y : Upto2(k + 1, Y)
    BY <2>4
  <2> HIDE DEF Upto2
  <2> QED  BY <2>5
<1> HIDE DEF S
<1>4. n \in S
  BY <1>0, <1>2, <1>3, SetInduction
<1>5. PICK W : Upto2(n, W)
  BY <1>4 DEF S
<1>6. Is(W)
  <2>1. ASSUME NEW i \in 0..n  PROVE W[i] = IF i = 0 THEN <<>> ELSE Next2(W[i - 1], i)
    <3>1. CASE i = 0
      BY <1>5, <3>1
    <3>2. CASE i # 0
      <4>1. i \in 1..n
        BY <3>2
      <4> QED  BY <1>5, <3>2, <4>1
    <3> QED  BY <3>1, <3>2
  <2>2. W = [i \in 0..n |-> W[i]]
    BY <1>5
  <2> QED  BY <2>1, <2>2
<1>7. Is(g)
  <2> HIDE DEF Is
  <2> QED  BY <1>6, Zenon
<1>8. g[0] = <<>> /\ \A i \in 1..n : g[i] = Next2(g[i - 1], i)
  <2> HIDE DEF g
  <2>1. \A i \in 0..n : g[i] = IF i = 0 THEN <<>> ELSE Next2(g[i - 1], i)
    BY <1>7
  <2> QED  BY <1>0, <2>1
<1> HIDE DEF g, Is, Upto2
<1> DEFINE T == {k \in Nat : k <= n => SatsUpto(ns, a, rhs, mall, k, g[k])}
<1>9. 0 \in T
  BY <1>8, ShortSeqs DEF SatsUpto
<1>10. ASSUME NEW k \in Nat, k \in T  PROVE k + 1 \in T
  <2> SUFFICES ASSUME k + 1 <= n  PROVE SatsUpto(ns, a, rhs, mall, k + 1, g[k + 1])
    OBVIOUS
  <2>1. SatsUpto(ns, a, rhs, mall, k, g[k])
    BY <1>0, <1>10
  <2>2. g[k + 1] = Next2(g[k], k + 1)
    <3>1. k + 1 \in 1..n /\ (k + 1) - 1 = k
      BY <1>0
    <3> QED  BY <1>8, <3>1
  <2>3. SatsUpto(ns, a, rhs, mall, k + 1, Append(g[k], NodeSats(ns[k + 1], a, rhs, mall, g[k])))
    BY <2>1, SatsAppend
  <2> QED  BY <2>2, <2>3 DEF Next2
<1> HIDE DEF T
<1>11. n \in T
  BY <1>0, <1>9, <1>10, SetInduction
<1> QED  BY <1>0, <1>1, <1>11 DEF T

LEMMA ExecReaches ==
    ASSUME NEW env, NEW s, Len(s) \in Nat, NEW stack, NEW q, Does(env, s, Run(stack), q),
           Len(q.stack) = 1, is_true(q.stack[1])
    PROVE  exec(s, stack, env) # {}
<1> DEFINE n == Len(s)
           first == {Run(stack)}
           After(R, i) == UNION {exec_ins(s[i], r, env) : r \in R}
           Is(f) == f = [i \in 0..n |-> IF i = 0 THEN first ELSE After(f[i - 1], i)]
           Upto2(k, W) == /\ W = [i \in 0..k |-> W[i]] /\ W[0] = first
                          /\ \A i \in 1..k : W[i] = After(W[i - 1], i)
           S == {k \in Nat : \E W : Upto2(k, W)}
           g == CHOOSE f : Is(f)
<1>1. exec(s, stack, env) = {r \in g[n] : Len(r.stack) = 1 /\ is_true(r.stack[1])}
  BY Zenon DEF exec
<1>10. Run(stack) \in first /\ \A R, i, r, p : r \in R /\ p \in exec_ins(s[i], r, env) => p \in After(R, i)
  OBVIOUS
<1> HIDE DEF After, first
<1>2. 0 \in S
  <2> DEFINE W == [i \in 0..0 |-> first]
  <2>1. Upto2(0, W)
    OBVIOUS
  <2> QED  BY <2>1
<1>3. ASSUME NEW k \in Nat, k \in S  PROVE k + 1 \in S
  <2>1. PICK W : Upto2(k, W)
    BY <1>3
  <2> DEFINE Z == [i \in 0..(k + 1) |-> IF i = k + 1 THEN After(W[k], k + 1) ELSE W[i]]
  <2>2. Z[0] = first /\ Z = [i \in 0..(k + 1) |-> Z[i]]
    BY <2>1
  <2>3. ASSUME NEW i \in 1..(k + 1)  PROVE Z[i] = After(Z[i - 1], i)
    <3>1. CASE i = k + 1
      <4>1. Z[i] = After(W[k], i) /\ Z[i - 1] = W[k]
        BY <3>1
      <4> QED  BY <4>1
    <3>2. CASE i # k + 1
      <4>1. i \in 1..k /\ Z[i] = W[i] /\ Z[i - 1] = W[i - 1]
        BY <3>2
      <4> QED  BY <2>1, <4>1
    <3> QED  BY <3>1, <3>2
  <2>4. Upto2(k + 1, Z)
    BY <2>2, <2>3
  <2> HIDE DEF Z
  <2>5. \E Y : Upto2(k + 1, Y)
    BY <2>4
  <2> HIDE DEF Upto2
  <2> QED  BY <2>5
<1> HIDE DEF S
<1>4. n \in S
  BY <1>2, <1>3, SetInduction
<1>5. PICK W : Upto2(n, W)
  BY <1>4 DEF S
<1>6. Is(W)
  <2>1. ASSUME NEW i \in 0..n  PROVE W[i] = IF i = 0 THEN first ELSE After(W[i - 1], i)
    <3>1. CASE i = 0
      BY <1>5, <3>1
    <3>2. CASE i # 0
      <4>1. i \in 1..n
        BY <3>2
      <4> QED  BY <1>5, <3>2, <4>1
    <3> QED  BY <3>1, <3>2
  <2>2. W = [i \in 0..n |-> W[i]]
    BY <1>5
  <2> QED  BY <2>1, <2>2
<1>7. Is(g)
  <2> HIDE DEF Is
  <2> QED  BY <1>6, Zenon
<1>8. g[0] = first /\ \A i \in 1..n : g[i] = After(g[i - 1], i)
  <2> HIDE DEF g
  <2>1. \A i \in 0..n : g[i] = IF i = 0 THEN first ELSE After(g[i - 1], i)
    BY <1>7
  <2> QED  BY <2>1
<1> HIDE DEF g, Is, Upto2
<1>9. PICK f : /\ f[0] = Run(stack) /\ f[n] = q
               /\ \A i \in 1..n : f[i] \in exec_ins(s[i], f[i - 1], env)
  BY Zenon DEF Does
<1> DEFINE T == {k \in Nat : k <= n => f[k] \in g[k]}
<1>11. 0 \in T
  BY <1>8, <1>9, <1>10
<1>12. ASSUME NEW k \in Nat, k \in T  PROVE k + 1 \in T
  <2> SUFFICES ASSUME k + 1 <= n  PROVE f[k + 1] \in g[k + 1]
    OBVIOUS
  <2>1. k + 1 \in 1..n /\ (k + 1) - 1 = k /\ f[k] \in g[k]
    BY <1>12
  <2>2. g[k + 1] = After(g[k], k + 1) /\ f[k + 1] \in exec_ins(s[k + 1], f[k], env)
    BY <1>8, <1>9, <2>1
  <2> QED  BY <1>10, <2>1, <2>2
<1> HIDE DEF T
<1>13. n \in T
  BY <1>11, <1>12, SetInduction
<1>14. q \in g[n]
  BY <1>9, <1>13 DEF T
<1> QED  BY <1>1, <1>14

\* A witness that satisfies an expression of base type B is accepted.
LEMMA YieldsAccepted ==
    ASSUME NEW s, IsSeq(s), NEW c, c.base = "B", NEW x, IsSeq(x), NEW tx,
           Yields([avail |-> {}, tx |-> tx], c, s, x)
    PROVE  accepts(s, x, tx)
<1> DEFINE env == [avail |-> {}, tx |-> tx]
           no == <<>>
<1>1. accepts(s, x, tx) <=> exec(s, x, env) # {}
  BY DEF accepts
<1>2. Yields(env, c, s, x)
  OBVIOUS
<1> HIDE DEF env
<1>3. EndsB(env, c, s, x, TRUE)
  BY <1>2 DEF Yields, Gives, Ends
<1>4. PICK m : Value(c, TRUE, m) /\ \A st : IsSeq(st) => Maps(env, s, st ++ x, On(st, number(m)))
  BY <1>3 DEF EndsB
<1>5. IsSeq(no) /\ no ++ x = x /\ Live(no)
  BY CatLaws DEF Live
<1> HIDE DEF no
<1>6. Maps(env, s, x, On(no, number(m)))
  BY <1>4, <1>5
<1>7. Does(env, s, St(x, no, no), St(On(no, number(m)), no, no))
  BY <1>5, <1>6 DEF Maps
<1>8. St(x, no, no) = Run(x)
  BY Zenon DEF St, Run, no
<1>9. On(no, number(m)) = <<number(m)>>
  <2>1. \A e : <<>> ++ <<e>> = <<e>>
    BY CatLaws
  <2> QED  BY <2>1 DEF On, no
<1> DEFINE q == St(On(no, number(m)), no, no)
<1>10. Len(q.stack) = 1 /\ q.stack[1] = number(m)
  BY <1>9 DEF St
<1>11. m # 0 /\ m \in Nat
  BY <1>4 DEF Value
<1>12. is_true(q.stack[1])
  <2>1. is_true(number(m))
    BY <1>11 DEF is_true, number
  <2> HIDE DEF q
  <2> QED  BY <1>10, <2>1
<1> HIDE DEF q
<1>13. Len(s) \in Nat
  BY SeqForm
<1>14. Does(env, s, Run(x), q)
  BY <1>7, <1>8, Zenon DEF q
<1>15. exec(s, x, env) # {}
  BY <1>10, <1>12, <1>13, <1>14, ExecReaches
<1> QED  BY <1>1, <1>15

ArenaFine(ns) == IsSeq(ns) /\ \A i \in 1..Len(ns) : NodeFine(ns, i, ns[i])

LEMMA FineEarlier ==
    ASSUME NEW ns, ArenaFine(ns)
    PROVE  Earlier(ns)
<1>1. Len(ns) \in Nat /\ DOMAIN ns = 1..Len(ns)
  BY SeqForm DEF ArenaFine
<1>2. ASSUME NEW i \in 1..Len(ns), NEW j \in DOMAIN ns[i].subs  PROVE ns[i].subs[j] \in 1..(i - 1)
  <2> DEFINE sub == ns[i].subs
  <2>1. IsSeq(sub) /\ \A x \in 1..Len(sub) : sub[x] \in 1..(i - 1)
    BY DEF ArenaFine, NodeFine
  <2>2. DOMAIN sub = 1..Len(sub)
    <3> HIDE DEF sub
    <3> QED  BY <2>1, SeqForm
  <2> QED  BY <2>1, <2>2
<1> QED  BY <1>1, <1>2 DEF Earlier

LEMMA ArenaSound ==
    ASSUME NEW ns, ArenaFine(ns), NEW env, env.avail = {}, NEW rhs, NEW mall \in BOOLEAN,
           \A i \in 1..Len(ns) : LeafGiven(ns[i], env.tx), NEW W, Codes(ns, Len(ns), W),
           NEW D, SatsUpto(ns, env.tx, rhs, mall, Len(ns), D), NEW r \in 1..Len(ns)
    PROVE  Sound(env, ns[r].ty.corr, W[r], D[r].sat, D[r].dis)
<1> DEFINE n == Len(ns)
           Good(i) == Sound(env, ns[i].ty.corr, W[i], D[i].sat, D[i].dis)
           T == {i \in 1..n : ~Good(i)}
<1>0. Earlier(ns) /\ n \in Nat
  BY FineEarlier DEF Earlier
<1>1. ASSUME NEW i \in 1..n, \A y \in 1..(i - 1) : Good(y)  PROVE Good(i)
  <2> DEFINE t == ns[i]
             sub == Subs(W, t)
             s == SatsOf(D, t)
             d == DissOf(D, t)
             m == Len(t.subs)
  <2>1. NodeFine(ns, i, t) /\ LeafGiven(t, env.tx)
    BY DEF ArenaFine
  <2>2. W[i] = encode_node(t, sub)
    BY DEF Codes
  <2>3. D[i] = NodeSats(t, env.tx, rhs, mall, D)
    BY DEF SatsUpto
  <2>4. D[i].sat = satisfy_helper(t, env.tx, rhs, mall, s, d) /\ D[i].dis = dissatisfy_helper(t, env.tx, s, d)
    BY <2>3 DEF NodeSats
  <2> HIDE DEF t
  <2>5. IsSeq(t.subs) /\ \A j \in 1..m : t.subs[j] \in 1..(i - 1)
    BY <2>1 DEF NodeFine
  <2>6. m \in Nat /\ DOMAIN t.subs = 1..m
    BY <2>5, SeqForm
  <2>7. /\ sub = [j \in 1..m |-> W[t.subs[j]]]
        /\ s = [j \in 1..m |-> D[t.subs[j]].sat]
        /\ d = [j \in 1..m |-> D[t.subs[j]].dis]
    BY <2>6 DEF Subs, SatsOf, DissOf
  <2> HIDE DEF sub, s, d, Good
  <2>8. sub = [j \in 1..m |-> sub[j]] /\ s = [j \in 1..m |-> s[j]] /\ d = [j \in 1..m |-> d[j]]
    BY <2>7
  <2>9. IsSeq(sub) /\ Len(sub) = m /\ DOMAIN s = 1..m /\ Len(s) = m /\ Len(d) = m
    <3>1. IsSeq(sub) /\ Len(sub) = m
      BY <2>6, <2>8, FnSeq
    <3>2. IsSeq(s) /\ Len(s) = m
      BY <2>6, <2>8, FnSeq
    <3>3. IsSeq(d) /\ Len(d) = m
      BY <2>6, <2>8, FnSeq
    <3>4. DOMAIN s = 1..m
      BY <2>8
    <3> QED  BY <3>1, <3>2, <3>3, <3>4
  <2>10. ASSUME NEW j \in 1..m
         PROVE  Sound(env, ns[t.subs[j]].ty.corr, sub[j], s[j], d[j])
    <3>1. Good(t.subs[j])
      BY <1>1, <2>5
    <3>2. sub[j] = W[t.subs[j]] /\ s[j] = D[t.subs[j]].sat /\ d[j] = D[t.subs[j]].dis
      BY <2>7
    <3> QED  BY <3>1, <3>2 DEF Good
  <2>11. Sound(env, t.ty.corr, encode_node(t, sub), satisfy_helper(t, env.tx, rhs, mall, s, d),
               dissatisfy_helper(t, env.tx, s, d))
    BY <2>1, <2>9, <2>10, NodeSound
  <2> QED  BY <2>2, <2>4, <2>11 DEF Good, t
<1> HIDE DEF Good
<1>2. T = {}
  <2> SUFFICES ASSUME T # {}  PROVE FALSE
    OBVIOUS
  <2>1. T \in SUBSET Nat
    BY <1>0
  <2> HIDE DEF T
  <2>2. PICK x \in T : \A y \in T : x <= y
    BY <2>1, NatMin
  <2>3. x \in 1..n /\ ~Good(x)
    BY <2>2 DEF T
  <2>4. ASSUME NEW y \in 1..(x - 1)  PROVE Good(y)
    <3>1. y \in 1..n /\ ~(x <= y)
      BY <1>0, <2>3
    <3> QED  BY <2>2, <3>1 DEF T
  <2> QED  BY <1>1, <2>3, <2>4
<1> QED  BY <1>2 DEF Good

\* Completing a template neither panics nor changes more than its items.
LEMMA CompletedIs ==
    ASSUME NEW a, NEW s, GoodSat(a, s)
    PROVE  /\ ~Completed(s, a).panic
           /\ Completed(s, a).stack.tag = "Stack" =>
                IsStack(s.stack) /\ Completed(s, a).stack.items = Wit(s)
<1> DEFINE w == s.stack
           x == w.items
           y == [i \in DOMAIN x |-> satisfy_self(x[i])]
           q == Completed(s, a)
<1>1. s = Rec(w, s.has_sig, s.relative_timelock, s.absolute_timelock)
  BY DEF GoodSat, IsSat
<1>2. \A i \in DOMAIN x : completes(a, x[i])
  <2>1. CASE IsStack(w)
    <3>1. GoodItems(a, x)
      BY <2>1, StackForms DEF GoodSat
    <3>2. DOMAIN x = 1..Len(x)
      BY <3>1, SeqForm DEF GoodItems
    <3> QED  BY <3>1, <3>2 DEF GoodItems, GoodItem
  <2>2. CASE ~IsStack(w)
    <3>1. w = Impossible \/ w = Unavailable
      BY <2>2, StackForms DEF GoodSat, GoodStack
    <3>2. DOMAIN x = {}
      BY <3>1 DEF Impossible, Unavailable
    <3> QED  BY <3>2
  <2> QED  BY <2>1, <2>2
<1>3. q = [s EXCEPT !.stack.items = y]
  BY <1>2 DEF Completed, try_completing
<1>4. \E tag : w = [tag |-> tag, items |-> x]
  <2>1. CASE IsStack(w)
    <3>1. w = Stack(x)
      BY <2>1, StackForms DEF GoodSat
    <3>2. w = [tag |-> "Stack", items |-> x]
      BY <3>1, Zenon DEF Stack
    <3> QED  BY <3>2
  <2>2. CASE ~IsStack(w)
    <3>1. w = Impossible \/ w = Unavailable
      BY <2>2, StackForms DEF GoodSat, GoodStack
    <3>2. w = [tag |-> w.tag, items |-> x]
      BY <3>1 DEF Impossible, Unavailable
    <3> QED  BY <3>2
  <2> QED  BY <2>1, <2>2
<1>5. y = Wit(s)
  BY Zenon DEF Wit, Comp
<1> HIDE DEF y, q
<1>6. PICK tag : w = [tag |-> tag, items |-> x]
  BY <1>4
<1> HIDE DEF w, x
<1>7. ~q.panic /\ q.stack.tag = w.tag /\ q.stack.items = y
  BY <1>1, <1>3, <1>6 DEF Rec
<1> QED  BY <1>5, <1>7 DEF IsStack, q, w

(* The main lemma: of every arena of well-typed expressions the witness of *)
(* a satisfied root of base type B is accepted by its script.              *)
LEMMA SatisfyWorks ==
    ASSUME NEW ns, ArenaFine(ns), NEW tx, NEW mall \in BOOLEAN,
           \A i \in 1..Len(ns) : LeafGiven(ns[i], tx),
           NEW r \in 1..Len(ns), ns[r].ty.corr.base = "B"
    PROVE  /\ ~satisfy(ns, r, tx, mall).panic
           /\ satisfy(ns, r, tx, mall).stack.tag = "Stack" =>
                accepts(encode(ns, r), satisfy(ns, r, tx, mall).stack.items, tx)
<1> DEFINE env == [avail |-> {}, tx |-> tx]
           rhs == ns[r].ty.mall.safe
           D == Satisfactions(ns, tx, rhs, mall)
           s == D[r].sat
           c == ns[r].ty.corr
<1>1. satisfy(ns, r, tx, mall) = Completed(s, tx)
  BY DEF satisfy, build_template
<1>2. Earlier(ns)
  BY FineEarlier
<1>3. SatsUpto(ns, tx, rhs, mall, Len(ns), D)
  <2> HIDE DEF rhs, D
  <2>1. SatsUpto(ns, tx, rhs, mall, Len(ns), Satisfactions(ns, tx, rhs, mall))
    BY <1>2, SatisfactionsAre
  <2> QED  BY <2>1 DEF D
<1>4. PICK W : Codes(ns, Len(ns), W) /\ encode(ns, r) = W[r]
  BY <1>2, EncodeIs
<1>5. env.avail = {} /\ env.tx = tx
  OBVIOUS
<1> HIDE DEF rhs, D
<1>6. Sound(env, c, W[r], s, D[r].dis)
  <2> HIDE DEF env
  <2> QED  BY <1>3, <1>4, <1>5, ArenaSound
<1>7. /\ IsSeq(W[r]) /\ GoodSat(tx, s)
      /\ IsStack(s.stack) => Yields(env, c, W[r], Wit(s)) /\ IsSeq(Wit(s))
  <2> HIDE DEF env, s, c
  <2>1. Code(env, W[r]) /\ SatOK(env, c, W[r], s)
    BY <1>6 DEF Sound
  <2>2. IsSeq(W[r]) /\ GoodSat(tx, s) /\ (IsStack(s.stack) => Yields(env, c, W[r], Wit(s)))
    BY <1>5, <2>1 DEF Code, SatOK
  <2> QED  BY <2>2 DEF Yields, Gives
<1>8. IsStack(s.stack) => accepts(W[r], Wit(s), tx)
  <2> DEFINE x == Wit(s)
             e == W[r]
  <2> HIDE DEF s
  <2> SUFFICES ASSUME IsStack(s.stack)  PROVE accepts(e, x, tx)
    OBVIOUS
  <2>1. Yields([avail |-> {}, tx |-> tx], c, e, x) /\ IsSeq(x) /\ IsSeq(e) /\ c.base = "B"
    BY <1>7
  <2> HIDE DEF c, e, x, env
  <2> QED  BY <2>1, YieldsAccepted
<1> HIDE DEF s, env
<1>9. /\ ~Completed(s, tx).panic
      /\ Completed(s, tx).stack.tag = "Stack" =>
            IsStack(s.stack) /\ Completed(s, tx).stack.items = Wit(s)
  BY <1>7, CompletedIs
<1> QED  BY <1>1, <1>4, <1>8, <1>9

-----------------------------------------------------------------------------
(* Construction: only well-typed nodes are added to the arena. *)

SpendArena == ArenaFine(ast) /\ roots \in Seq(1..Len(ast))

LEMMA FineGrows ==
    ASSUME NEW ns, IsSeq(ns), NEW e, NEW i \in 1..(Len(ns) + 1), NEW t, NodeFine(ns, i, t)
    PROVE  NodeFine(Append(ns, e), i, t)
<1> DEFINE z == Append(ns, e)
<1>1. \A j \in 1..Len(ns) : z[j] = ns[j]
  BY AppendForm
<1>2. IsSeq(t.subs) /\ \A j \in 1..Len(t.subs) : t.subs[j] \in 1..(i - 1)
  BY DEF NodeFine
<1>3. Len(ns) \in Nat /\ Len(t.subs) \in Nat /\ DOMAIN t.subs = 1..Len(t.subs)
  BY <1>2, SeqForm
<1> HIDE DEF z
<1>4. \A j \in DOMAIN t.subs : t.subs[j] \in 1..Len(ns)
  <2> SUFFICES ASSUME NEW j \in 1..Len(t.subs)  PROVE t.subs[j] \in 1..Len(ns)
    BY <1>3
  <2>1. t.subs[j] \in 1..(i - 1)
    BY <1>2
  <2> QED  BY <1>3, <2>1
<1>5. [j \in DOMAIN t.subs |-> z[t.subs[j]].ty] = [j \in DOMAIN t.subs |-> ns[t.subs[j]].ty]
  BY <1>1, <1>4
<1>6. ty_of(z, t) = ty_of(ns, t)
  BY <1>5, Zenon DEF ty_of
<1>7. NodeFine(z, i, t)
  BY <1>6 DEF NodeFine
<1> QED  BY <1>7 DEF z

LEMMA ArenaGrows ==
    ASSUME NEW ns, ArenaFine(ns), NEW e, NodeFine(ns, Len(ns) + 1, e)
    PROVE  ArenaFine(Append(ns, e)) /\ Len(Append(ns, e)) = Len(ns) + 1 /\ Len(ns) \in Nat
<1> DEFINE z == Append(ns, e)
<1>1. IsSeq(ns) /\ Len(ns) \in Nat
  BY SeqForm DEF ArenaFine
<1>2. IsSeq(z) /\ Len(z) = Len(ns) + 1 /\ (\A i \in 1..Len(ns) : z[i] = ns[i]) /\ z[Len(ns) + 1] = e
  BY <1>1, AppendForm
<1>3. ASSUME NEW i \in 1..(Len(ns) + 1)  PROVE NodeFine(ns, i, z[i])
  BY <1>1, <1>2, <1>3 DEF ArenaFine
<1>4. ASSUME NEW i \in 1..(Len(ns) + 1)  PROVE NodeFine(z, i, z[i])
  <2> DEFINE t == z[i]
  <2>1. NodeFine(ns, i, t)
    BY <1>3
  <2> HIDE DEF t
  <2>2. NodeFine(z, i, t)
    BY <1>1, <2>1, FineGrows
  <2> QED  BY <2>2 DEF t
<1> QED  BY <1>1, <1>2, <1>4 DEF ArenaFine

\* What a constructor must see to that makes a fragment of pops expressions.
Fitting(frag, k, args, pops) ==
    /\ frag \in Frags /\ IsSeq(args)
    /\ frag \in WrapFrags \cup InscribeFrags => pops = 1
    /\ frag \in BinaryFrags => pops = 2
    /\ frag = "AndOr" => pops = 3
    /\ frag = "Thresh" => k \in 1..pops
    /\ frag \in LeafFrags => \E l \in LeafTerms : frag = l[1] /\ k = l[2] /\ args = l[3]

LEMMA FromAstFine ==
    ASSUME SpendArena, NEW frag, NEW k, NEW args, NEW pops \in Nat, NEW w,
           Fitting(frag, k, args, pops), from_ast(Terminal(frag, <<>>, k, args), pops, w)
    PROVE  SpendArena'
<1> DEFINE n == Len(roots)
           sub == SubSeq(roots, n - pops + 1, n)
           u == [Terminal(frag, <<>>, k, args) EXCEPT !.subs = sub]
           e == Annotate(ast, u)
           S == 1..Len(ast)
<1>1. /\ roots \in Seq(S) /\ n \in Nat /\ pops <= n
      /\ from_ast_ok(ast, u)
      /\ ast' = Append(ast, e)
      /\ roots' = Append(SubSeq(roots, 1, n - pops), Len(ast) + 1)
  BY DEF SpendArena, from_ast
<1>2. sub \in Seq(S) /\ Len(sub) = pops /\ \A j \in 1..pops : sub[j] \in S
  <2>1. roots \in Seq(S) /\ pops <= Len(roots)
    BY <1>1
  <2> HIDE DEF S
  <2>2. n - pops + 1 \in 1..(n + 1) /\ n \in (n - pops + 1) - 1..n /\ n - (n - pops + 1) + 1 = pops
    BY <1>1, SMTT(30)
  <2>3. sub \in Seq(S) /\ Len(sub) = pops
    BY <1>1, <2>2, SubSeqProperties
  <2> HIDE DEF sub
  <2> QED  BY <2>3
<1>3. u = [frag |-> frag, subs |-> sub, k |-> k, args |-> args]
  <2> HIDE DEF sub
  <2> QED  BY DEF Terminal
<1> HIDE DEF sub
<1>4. /\ e.frag = frag /\ e.subs = sub /\ e.args = args /\ e.k = k
      /\ e.ty = ty_of(ast, u)
  BY <1>3 DEF Annotate
<1>5. ty_of(ast, u) # Err
  BY <1>1 DEF from_ast_ok
<1>6. u.frag = frag /\ u.subs = sub /\ u.args = args /\ u.k = k
  BY <1>3
<1> HIDE DEF u, e
<1>7. ty_of(ast, e) = ty_of(ast, u)
  BY <1>4, <1>6, Zenon DEF ty_of
<1>8. IsSeq(sub)
  BY <1>2, SeqIsSeq
<1>9. ArenaFine(ast) /\ Len(ast) \in Nat
  BY SeqForm DEF SpendArena, ArenaFine
<1>10. NodeFine(ast, Len(ast) + 1, e)
  <2>1. Len(ast) + 1 - 1 = Len(ast)
    BY <1>9
  <2>2. e.ty = ty_of(ast, e) /\ e.ty # Err
    BY <1>4, <1>5, <1>7
  <2>3. IsSeq(e.subs) /\ Len(e.subs) = pops /\ \A j \in 1..Len(e.subs) : e.subs[j] \in S
    BY <1>2, <1>4, <1>8
  <2>4. Fitting(e.frag, e.k, e.args, pops)
    BY <1>4
  <2> QED  BY <2>1, <2>2, <2>3, <2>4 DEF NodeFine, Fitting
<1>11. ArenaFine(ast') /\ Len(ast') = Len(ast) + 1
  BY <1>1, <1>9, <1>10, ArenaGrows
<1>12. roots' \in Seq(1..Len(ast'))
  <2> DEFINE T == 1..Len(ast')
  <2>1. S \subseteq T /\ Len(ast) + 1 \in T
    BY <1>9, <1>11
  <2>2. SubSeq(roots, 1, n - pops) \in Seq(S)
    BY <1>1
  <2> HIDE DEF S, T
  <2>3. SubSeq(roots, 1, n - pops) \in Seq(T)
    BY <2>1, <2>2
  <2>4. roots' \in Seq(T)
    BY <1>1, <2>1, <2>3
  <2> QED  BY <2>4 DEF T
<1> QED  BY <1>11, <1>12 DEF SpendArena

LEMMA ConstructFine ==
    ASSUME SpendArena, ConstructNext
    PROVE  SpendArena'
<1> USE DEF Fitting, LeafFrags, HashFrags, WrapFrags, InscribeFrags, BinaryFrags, Frags
<1>0. IsSeq(<<>>) /\ \A x : IsSeq(<<x>>)
  BY ShortSeqs
<1>1. CASE MakeLeaf
  <2>1. PICK l \in LeafTerms : from_ast(Terminal(l[1], <<>>, l[2], l[3]), 0, l[4])
    BY <1>1 DEF MakeLeaf
  <2>2. l[1] \in LeafFrags /\ IsSeq(l[3])
    <3>1. l[3] \in Seq(Range(l[3]))
      BY SpendAssumed DEF SpendAssumption
    <3> QED  BY <3>1, SeqIsSeq, LeavesAssumed DEF LeafAssumption
  <2>3. Fitting(l[1], l[2], l[3], 0)
    BY <2>2
  <2> QED  BY <2>1, <2>3, FromAstFine
<1>2. CASE MakeWrapper
  <2>1. PICK f \in WrapFrags :
            from_ast(Terminal(f, <<>>, 0, <<>>), 1, IF f \in FreeWrappers THEN 0 ELSE 1)
    BY <1>2 DEF MakeWrapper
  <2>2. Fitting(f, 0, <<>>, 1)
    BY <1>0
  <2> QED  BY <2>1, <2>2, FromAstFine
<1>3. CASE MakeInscribed
  <2>1. PICK f \in InscribeFrags, x \in InscribedWith : from_ast(Terminal(f, <<>>, 0, <<x>>), 1, 1)
    BY <1>3 DEF MakeInscribed
  <2>2. Fitting(f, 0, <<x>>, 1)
    BY <1>0
  <2> QED  BY <2>1, <2>2, FromAstFine
<1>4. CASE MakeBinary
  <2>1. PICK f \in BinaryFrags : from_ast(Terminal(f, <<>>, 0, <<>>), 2, 0)
    BY <1>4 DEF MakeBinary
  <2>2. Fitting(f, 0, <<>>, 2)
    BY <1>0
  <2> QED  BY <2>1, <2>2, FromAstFine
<1>5. CASE MakeAndOr
  <2>1. Fitting("AndOr", 0, <<>>, 3)
    BY <1>0
  <2> QED  BY <1>5, <2>1, FromAstFine DEF MakeAndOr
<1>6. CASE MakeThresh
  <2>1. PICK n \in 1..Len(roots) : \E k \in 1..n :
            from_ast(Terminal("Thresh", <<>>, k, <<>>), n, IF n = 1 THEN 1 ELSE 0)
    BY <1>6 DEF MakeThresh
  <2>2. PICK k \in 1..n : from_ast(Terminal("Thresh", <<>>, k, <<>>), n, IF n = 1 THEN 1 ELSE 0)
    BY <2>1
  <2>3. n \in Nat /\ Fitting("Thresh", k, <<>>, n)
    BY <1>0
  <2> QED  BY <2>2, <2>3, FromAstFine
<1> QED  BY <1>1, <1>2, <1>3, <1>4, <1>5, <1>6 DEF ConstructNext

-----------------------------------------------------------------------------
(* The satisfier. *)

\* Leaves and assets fit what the satisfier needs.
LEMMA AssetsFit ==
    ASSUME SpendArena, NEW sigs, NEW raw \in RawLookups, NEW preimages, NEW lock_time,
           NEW sequence \in Sequences, NEW template, NEW i \in 1..Len(ast)
    PROVE  LeafGiven(ast[i], Assets(sigs, raw, preimages, lock_time, sequence, template))
<1> DEFINE t == ast[i]
           a == Assets(sigs, raw, preimages, lock_time, sequence, template)
<1>1. /\ a.sequence = sequence
      /\ a.raw_pk = IF "pk" \in raw THEN KeysOf ELSE {}
  BY DEF Assets
<1> HIDE DEF a
<1>2. NodeFine(ast, i, t) /\ DOMAIN ast = 1..Len(ast)
  BY SeqForm DEF SpendArena, ArenaFine
<1> HIDE DEF t
<1>3. CASE t.frag \in LeafFrags
  <2>1. PICK l \in LeafTerms : t.frag = l[1] /\ t.k = l[2] /\ t.args = l[3]
    BY <1>2, <1>3 DEF NodeFine
  <2>2. /\ l[1] \in KeyFrags \cup HashFrags \cup {"TxTemplate"} => l[3] # <<>>
        /\ l[1] \in KeyFrags => Range(l[3]) \subseteq Keys
        /\ l[1] \in HashFrags \cup {"TxTemplate"} => Range(l[3]) \cap Keys = {}
        /\ l[1] \in HashFrags => "zeros" \notin Range(l[3])
        /\ l[1] \in {"After", "Older"} => l[2] \in Nat \ {0}
        /\ l[1] = "After" => -1 \notin Sequences
        /\ l[1] = "RawPkH" => Ctx # "Tap" /\ \A x \in RawLookups : "pk" \in x
    BY SpendAssumed DEF SpendAssumption
  <2>3. IsSeq(t.args) /\ Len(t.args) \in Nat /\ DOMAIN t.args = 1..Len(t.args)
    BY <1>2, SeqForm DEF NodeFine
  <2>4. t.args # <<>> => Len(t.args) >= 1
    <3> SUFFICES ASSUME Len(t.args) = 0  PROVE t.args = <<>>
      BY <2>3
    <3> QED  BY <2>3, SeqEq, ShortSeqs
  <2>5. \A x \in 1..Len(t.args) : t.args[x] \in Range(t.args)
    BY <2>3 DEF Range
  <2>6. t.frag \in KeyFrags => KeysGiven(t.args)
    BY <2>1, <2>2, <2>3, <2>4, <2>5 DEF KeysGiven
  <2>7. t.frag \in HashFrags \cup {"TxTemplate"} => t.args[1] \notin Keys
    <3>1. ASSUME t.frag \in HashFrags \cup {"TxTemplate"}  PROVE t.args[1] \in Range(t.args)
      <4>1. 1 \in 1..Len(t.args)
        BY <2>1, <2>2, <2>3, <2>4, <3>1
      <4> QED  BY <2>5, <4>1
    <3> QED  BY <2>1, <2>2, <3>1
  <2>8. t.frag \in HashFrags => NameGiven(t.args[1])
    <3>1. ASSUME t.frag \in HashFrags  PROVE t.args[1] \in Range(t.args)
      <4>1. 1 \in 1..Len(t.args)
        BY <2>1, <2>2, <2>3, <2>4, <3>1
      <4> QED  BY <2>5, <4>1
    <3> QED  BY <2>1, <2>2, <2>7, <3>1 DEF NameGiven
  <2>9. t.frag \in {"Multi", "MultiA"} => t.k \in Nat /\ t.k >= 1
    <3>1. l[1] \in {"Multi", "MultiA"} => validate_k_n(l[2], Len(l[3]), 0)
      BY LeavesAssumed DEF LeafAssumption
    <3> QED  BY <2>1, <3>1 DEF validate_k_n
  <2>10. t.frag = "RawPkH" => Ctx # "Tap" /\ t.args[1] \in a.raw_pk
    <3> SUFFICES ASSUME t.frag = "RawPkH"  PROVE Ctx # "Tap" /\ t.args[1] \in KeysOf
      BY <1>1, <2>1, <2>2
    <3>1. t.frag \in KeyFrags
      BY DEF KeyFrags
    <3>2. t.args[1] \in Range(t.args)
      BY <2>5, <2>6, <3>1 DEF KeysGiven
    <3>3. t.args[1] \in ArgsOf(KeyFrags)
      BY <1>2, <3>1, <3>2 DEF ArgsOf, t
    <3> QED  BY <2>1, <2>2, <3>3 DEF KeysOf
  <2>11. t.frag \in {"After", "Older"} => t.k \in Nat /\ t.k # 0
    BY <2>1, <2>2
  <2>12. t.frag = "After" => a.sequence # -1
    BY <1>1, <2>1, <2>2
  <2>13. LeafGiven(t, a)
    BY <2>6, <2>7, <2>8, <2>9, <2>10, <2>11, <2>12 DEF LeafGiven, KeyFrags
  <2> QED  BY <2>13 DEF a, t
<1>4. CASE t.frag \notin LeafFrags
  <2>1. LeafGiven(t, a)
    BY <1>4 DEF LeafGiven, LeafFrags, HashFrags
  <2> QED  BY <2>1 DEF a, t
<1> QED  BY <1>3, <1>4

\* The inductive invariant.
SpendIInv ==
    /\ SpendArena
    /\ mode = "none" => ~sat.panic /\ sat.stack.tag # "Stack"
    /\ SatisfierSound

LEMMA AskSound ==
    ASSUME SpendIInv, NEW name, NEW mall \in BOOLEAN, name # "none", Ask(name, mall)
    PROVE  SpendIInv'
<1>1. mode = "none" /\ Built /\ mode' = name /\ ast' = ast /\ roots' = roots
  BY DEF Ask, cvars
<1>2. PICK sigs \in SUBSET KeysOf, preimages \in SUBSET HashesOf, raw \in RawLookups,
           lock_time \in LockTimes, sequence \in Sequences, template \in Templates :
            assets' = Assets(sigs, raw, preimages, lock_time, sequence, template)
  BY DEF Ask
<1>3. sat' = satisfy(ast, roots[1], assets', mall)
  BY DEF Ask
<1>4. SpendArena /\ ArenaFine(ast)
  BY DEF SpendIInv, SpendArena
<1>5. roots[1] \in 1..Len(ast) /\ ast[roots[1]].ty.corr.base = "B"
  BY <1>1, <1>4 DEF SpendArena, Built
<1>6. \A i \in 1..Len(ast) : LeafGiven(ast[i], assets')
  BY <1>2, <1>4, AssetsFit
<1>7. /\ ~sat'.panic
      /\ sat'.stack.tag = "Stack" => accepts(encode(ast, roots[1]), sat'.stack.items, assets')
  BY <1>3, <1>4, <1>5, <1>6, SatisfyWorks
<1>8. script' = encode(ast, roots[1])
  BY <1>1 DEF script
<1>9. SatisfierSound'
  BY <1>7, <1>8 DEF SatisfierSound, Satisfied
<1>10. SpendArena'
  BY <1>1, <1>4 DEF SpendArena
<1> QED  BY <1>1, <1>9, <1>10 DEF SpendIInv

(* For every expression that can be built, in every context, and all assets: *)
(* satisfy and satisfy_malleable fail no assertion, they can complete the  *)
(* template they choose, and the script accepts the witness they return.   *)
THEOREM SpendSatisfierSound == SpendSpec => []SatisfierSound
<1>1. SpendInit => SpendIInv
  <2> SUFFICES ASSUME SpendInit  PROVE SpendIInv
    OBVIOUS
  <2>1. SpendArena
    <3>1. ast = <<>> /\ roots = <<>>
      BY DEF SpendInit, ConstructInit
    <3>2. IsSeq(ast) /\ Len(ast) = 0
      BY <3>1, ShortSeqs
    <3>3. roots \in Seq(1..Len(ast))
      BY <3>1
    <3> QED  BY <3>2, <3>3 DEF SpendArena, ArenaFine
  <2>2. mode = "none" /\ ~sat.panic /\ sat.stack.tag # "Stack"
    BY DEF SpendInit, Satisfaction, Unavailable
  <2> QED  BY <2>1, <2>2 DEF SpendIInv, SatisfierSound, Satisfied
<1>2. SpendIInv /\ [SpendNext]_svars => SpendIInv'
  <2> SUFFICES ASSUME SpendIInv, [SpendNext]_svars  PROVE SpendIInv'
    OBVIOUS
  <2>1. CASE Build
    <3>1. SpendArena' /\ mode' = "none" /\ ~sat'.panic /\ sat'.stack.tag # "Stack"
      BY <2>1, ConstructFine DEF Build, SpendIInv
    <3> QED  BY <3>1 DEF SpendIInv, SatisfierSound, Satisfied
  <2>2. CASE Satisfy
    <3>1. Ask("satisfy", FALSE)
      BY <2>2 DEF Satisfy
    <3> QED  BY <3>1, AskSound
  <2>3. CASE SatisfyMalleable
    <3>1. Ask("satisfy_malleable", TRUE)
      BY <2>3 DEF SatisfyMalleable
    <3> QED  BY <3>1, AskSound
  <2>4. CASE UNCHANGED svars
    BY <2>4 DEF svars, cvars, SpendIInv, SpendArena, SatisfierSound, Satisfied, script
  <2> QED  BY <2>1, <2>2, <2>3, <2>4 DEF SpendNext
<1>3. SpendIInv => SatisfierSound
  BY DEF SpendIInv
<1> QED  BY <1>1, <1>2, <1>3, PTL DEF SpendSpec
=============================================================================
