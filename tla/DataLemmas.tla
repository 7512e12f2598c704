----------------------------- MODULE DataLemmas -----------------------------
(***************************************************************************)
(* Lemmas about numbers and sequences: induction on natural numbers with   *)
(* sets in place of predicates, concatenation, counting and ranks.         *)
(***************************************************************************)
EXTENDS Integers, SequenceTheorems, FiniteSetTheorems,
        FunctionTheorems, WellFoundedInduction, TLAPS

(* A nonempty set of natural numbers has a least element.                   *)
LEMMA NatMin ==
    ASSUME NEW T \in SUBSET Nat, T # {}
    PROVE  \E x \in T : \A y \in T : x <= y
<1> DEFINE R == {ss \in Nat \X Nat : ss[1] < ss[2]}
<1>1. IsWellFoundedOn(R, Nat)
  BY NatLessThanWellFounded DEF OpToRel
<1>2. \A x, y \in Nat : y < x => <<y, x>> \in R
  OBVIOUS
<1> HIDE DEF R
<1>3. PICK x \in T : \A y \in T : ~(<<y, x>> \in R)
  BY <1>1, WFMin, Zenon
<1>4. ASSUME NEW y \in T  PROVE x <= y
  <2>1. x \in Nat /\ y \in Nat /\ ~(<<y, x>> \in R)
    BY <1>3
  <2>2. ~(y < x)
    BY <1>2, <2>1, Zenon
  <2> QED  BY <2>1, <2>2
<1> QED  BY <1>4

(* A nonempty bounded set of natural numbers has a greatest element.        *)
LEMMA NatMax ==
    ASSUME NEW n \in Nat, NEW T \in SUBSET (0..n), T # {}
    PROVE  \E x \in T : \A y \in T : y <= x
<1> DEFINE U == {n - x : x \in T}
<1>0. \A x \in T : n - x \in Nat
  OBVIOUS
<1>1. U \in SUBSET Nat /\ U # {}
  BY <1>0
<1>2. PICK u \in U : \A v \in U : u <= v
  BY <1>1, NatMin
<1>3. PICK x \in T : u = n - x
  BY <1>2
<1>4. \A y \in T : n - x <= n - y
  BY <1>2, <1>3
<1> QED  BY <1>3, <1>4

(* A set with 0 and with the successor of each of its elements.             *)
LEMMA SetInduction ==
    ASSUME NEW S, 0 \in S, \A n \in Nat : n \in S => n + 1 \in S
    PROVE  Nat \subseteq S
<1> DEFINE T == Nat \ S
<1> SUFFICES ASSUME T # {}  PROVE FALSE
  OBVIOUS
<1>1. PICK x \in T : \A y \in T : x <= y
  BY NatMin
<1>2. x \in Nat /\ x # 0 /\ x \notin S
  BY <1>1
<1>3. x - 1 \in Nat /\ x - 1 \in S
  BY <1>1, <1>2
<1> QED  BY <1>2, <1>3

-----------------------------------------------------------------------------
(* Sequences of anything. *)

IsSeq(s) == s \in Seq({s[i] : i \in DOMAIN s})

(* A sequence over any set is one over the set of its elements. *)
LEMMA SeqIsSeq ==
    ASSUME NEW S, NEW s \in Seq(S)
    PROVE  IsSeq(s)
<1>1. Len(s) \in Nat /\ DOMAIN s = 1..Len(s) /\ s = [i \in 1..Len(s) |-> s[i]]
  OBVIOUS
<1> QED
  BY <1>1 DEF IsSeq

(* Concatenation of short tuples. *)
LEMMA TupleCat ==
    ASSUME NEW S, NEW w \in S, NEW x \in S, NEW y \in S
    PROVE  /\ <<>> \o <<w>> = <<w>>
           /\ <<w>> \o <<x>> = <<w, x>>
           /\ <<w>> \o <<x, y>> = <<w, x, y>>
<1>1. <<>> \in Seq(S) /\ <<w>> \in Seq(S) /\ <<x>> \in Seq(S)
      /\ <<x, y>> \in Seq(S)
  OBVIOUS
<1>2. <<>> \o <<w>> = <<w>>
  BY <1>1
<1>3. <<w>> \o <<x>> = <<w, x>>
  <2> DEFINE c == <<w>> \o <<x>>
             d == <<w, x>>
  <2>1. c \in Seq(S) /\ Len(c) = 2
    BY <1>1
  <2>2. c[1] = w /\ c[2] = x
    BY <1>1
  <2>3. d \in Seq(S) /\ Len(d) = 2
    OBVIOUS
  <2>4. d[1] = w /\ d[2] = x
    OBVIOUS
  <2> HIDE DEF c, d
  <2>5. \A j \in 1..Len(c) : c[j] = d[j]
    BY <2>1, <2>2, <2>4
  <2>6. c = d
    BY <2>1, <2>3, <2>5, SeqEqual
  <2> QED
    BY <2>6 DEF c, d
<1>4. <<w>> \o <<x, y>> = <<w, x, y>>
  <2> DEFINE c == <<w>> \o <<x, y>>
             d == <<w, x, y>>
  <2>1. c \in Seq(S) /\ Len(c) = 3
    BY <1>1
  <2>2. c[1] = w /\ c[2] = x /\ c[3] = y
    BY <1>1
  <2>3. d \in Seq(S) /\ Len(d) = 3
    OBVIOUS
  <2>4. d[1] = w /\ d[2] = x /\ d[3] = y
    OBVIOUS
  <2> HIDE DEF c, d
  <2>5. \A j \in 1..Len(c) : c[j] = d[j]
    BY <2>1, <2>2, <2>4
  <2>6. c = d
    BY <2>1, <2>3, <2>5, SeqEqual
  <2> QED
    BY <2>6 DEF c, d
<1> QED
  BY <1>2, <1>3, <1>4

LEMMA TupleCatThree ==
    ASSUME NEW S, NEW w \in S, NEW x \in S, NEW y \in S, NEW z \in S
    PROVE  <<w>> \o <<x, y, z>> = <<w, x, y, z>>
<1>1. <<w>> \in Seq(S) /\ <<x, y, z>> \in Seq(S)
  OBVIOUS
<1>2. <<w>> \o <<x, y, z>> = <<w, x, y, z>>
  <2> DEFINE c == <<w>> \o <<x, y, z>>
             d == <<w, x, y, z>>
  <2>1. c \in Seq(S) /\ Len(c) = 4
    BY <1>1
  <2>2. c[1] = w /\ c[2] = x /\ c[3] = y /\ c[4] = z
    BY <1>1
  <2>3. d \in Seq(S) /\ Len(d) = 4
    OBVIOUS
  <2>4. d[1] = w /\ d[2] = x /\ d[3] = y /\ d[4] = z
    OBVIOUS
  <2> HIDE DEF c, d
  <2>5. \A j \in 1..Len(c) : c[j] = d[j]
    BY <2>1, <2>2, <2>4
  <2>6. c = d
    BY <2>1, <2>3, <2>5, SeqEqual
  <2> QED
    BY <2>6 DEF c, d
<1> QED
  BY <1>2

LEMMA SeqForm ==
    ASSUME NEW s, IsSeq(s)
    PROVE  /\ Len(s) \in Nat /\ DOMAIN s = 1..Len(s)
           /\ s = [i \in 1..Len(s) |-> s[i]]
  BY DEF IsSeq

LEMMA SeqOver ==
    ASSUME NEW S, NEW s \in Seq(S)
    PROVE  Len(s) \in Nat /\ DOMAIN s = 1..Len(s) /\ \A i \in 1..Len(s) : s[i] \in S
  OBVIOUS

LEMMA FnIsSeq ==
    ASSUME NEW f, NEW n \in Nat
    PROVE  LET s == [i \in 1..n |-> f[i]]
           IN  IsSeq(s) /\ Len(s) = n /\ \A i \in 1..n : s[i] = f[i]
<1> DEFINE s == [i \in 1..n |-> f[i]]
<1>1. s \in Seq({f[i] : i \in 1..n}) /\ Len(s) = n
  OBVIOUS
<1> QED  BY <1>1, SeqIsSeq

LEMMA FnSeq ==
    ASSUME NEW s, NEW n \in Nat, s = [i \in 1..n |-> s[i]]
    PROVE  IsSeq(s) /\ Len(s) = n
<1> DEFINE z == [i \in 1..n |-> s[i]]
<1>1. IsSeq(z) /\ Len(z) = n
  BY FnIsSeq
<1>2. s = z
  OBVIOUS
<1> HIDE DEF z
<1> QED  BY <1>1, <1>2

LEMMA SeqEq ==
    ASSUME NEW a, NEW b, IsSeq(a), IsSeq(b), Len(a) = Len(b),
           \A i \in 1..Len(a) : a[i] = b[i]
    PROVE  a = b
<1>1. a = [i \in 1..Len(a) |-> a[i]] /\ b = [i \in 1..Len(a) |-> b[i]]
  BY SeqForm
<1> QED  BY <1>1

LEMMA CatForm ==
    ASSUME NEW a, NEW b, IsSeq(a), IsSeq(b)
    PROVE  /\ IsSeq(a \o b) /\ Len(a \o b) = Len(a) + Len(b)
           /\ \A i \in 1..Len(a) : (a \o b)[i] = a[i]
           /\ \A i \in 1..Len(b) : (a \o b)[Len(a) + i] = b[i]
<1> DEFINE S == {a[i] : i \in DOMAIN a} \cup {b[i] : i \in DOMAIN b}
<1>1. a \in Seq(S) /\ b \in Seq(S)
  BY DEF IsSeq
<1> HIDE DEF S
<1>2. a \o b \in Seq(S)
  BY <1>1, ConcatProperties
<1>3. IsSeq(a \o b)
  BY <1>2, SeqIsSeq
<1>4. Len(a) \in Nat /\ Len(b) \in Nat
  BY SeqForm
<1>5. Len(a \o b) = Len(a) + Len(b)
  BY <1>1, ConcatProperties
<1>6. ASSUME NEW i \in 1..Len(a)  PROVE (a \o b)[i] = a[i]
  BY <1>1, <1>4, ConcatProperties
<1>7. ASSUME NEW i \in 1..Len(b)  PROVE (a \o b)[Len(a) + i] = b[i]
  <2>1. Len(a) + i \in 1..(Len(a) + Len(b)) /\ ~(Len(a) + i <= Len(a)) /\ Len(a) + i - Len(a) = i
    BY <1>4
  <2> QED  BY <1>1, <2>1, ConcatProperties
<1> QED  BY <1>3, <1>5, <1>6, <1>7

LEMMA CatAssoc ==
    ASSUME NEW a, NEW b, NEW c, IsSeq(a), IsSeq(b), IsSeq(c)
    PROVE  (a \o b) \o c = a \o (b \o c)
<1> DEFINE S == {a[i] : i \in DOMAIN a} \cup {b[i] : i \in DOMAIN b} \cup {c[i] : i \in DOMAIN c}
<1>1. a \in Seq(S) /\ b \in Seq(S) /\ c \in Seq(S)
  BY DEF IsSeq
<1> HIDE DEF S
<1> QED  BY <1>1, ConcatAssociative

LEMMA CatEmpty ==
    ASSUME NEW a, IsSeq(a)
    PROVE  a \o <<>> = a /\ <<>> \o a = a
<1>1. a \in Seq({a[i] : i \in DOMAIN a})
  BY DEF IsSeq
<1> QED  BY <1>1, ConcatEmptySeq

LEMMA ShortSeqs ==
    /\ IsSeq(<<>>) /\ Len(<<>>) = 0
    /\ \A x : IsSeq(<<x>>) /\ Len(<<x>>) = 1 /\ <<x>>[1] = x /\ <<x>> # <<>>
    /\ \A x, y : IsSeq(<<x, y>>) /\ <<x>> \o <<y>> = <<x, y>>
    /\ \A x, y, z : IsSeq(<<x, y, z>>) /\ <<x>> \o <<y, z>> = <<x, y, z>>
<1>1. IsSeq(<<>>)
  <2>1. <<>> \in Seq({})
    BY EmptySeq
  <2> QED  BY <2>1, SeqIsSeq
<1>2. ASSUME NEW x  PROVE IsSeq(<<x>>)
  <2>1. <<x>> \in Seq({x})
    OBVIOUS
  <2> QED  BY <2>1, SeqIsSeq
<1>3. ASSUME NEW x, NEW y  PROVE IsSeq(<<x, y>>) /\ <<x>> \o <<y>> = <<x, y>>
  <2>1. <<x, y>> \in Seq({x, y})
    OBVIOUS
  <2>2. IsSeq(<<x, y>>)
    BY <2>1, SeqIsSeq
  <2>3. x \in {x, y} /\ y \in {x, y}
    OBVIOUS
  <2>4. <<x>> \o <<y>> = <<x, y>>
    BY <2>3, TupleCat
  <2> QED  BY <2>2, <2>4
<1>4. ASSUME NEW x, NEW y, NEW z  PROVE IsSeq(<<x, y, z>>) /\ <<x>> \o <<y, z>> = <<x, y, z>>
  <2>1. <<x, y, z>> \in Seq({x, y, z})
    OBVIOUS
  <2>2. IsSeq(<<x, y, z>>)
    BY <2>1, SeqIsSeq
  <2>3. x \in {x, y, z} /\ y \in {x, y, z} /\ z \in {x, y, z}
    OBVIOUS
  <2>4. <<x>> \o <<y, z>> = <<x, y, z>>
    BY <2>3, TupleCat
  <2> QED  BY <2>2, <2>4
<1> QED  BY <1>1, <1>2, <1>3, <1>4

\* Concatenation as an operator of its own, known by its laws only.
a ++ b == a \o b

LEMMA CatLaws ==
    /\ \A a, b : IsSeq(a) /\ IsSeq(b) => IsSeq(a ++ b)
    /\ \A a, b, c : IsSeq(a) /\ IsSeq(b) /\ IsSeq(c) => (a ++ b) ++ c = a ++ (b ++ c)
    /\ \A a : IsSeq(a) => a ++ <<>> = a /\ <<>> ++ a = a
    /\ IsSeq(<<>>)
    /\ \A x : IsSeq(<<x>>)
<1>1. ASSUME NEW a, NEW b, IsSeq(a), IsSeq(b)  PROVE IsSeq(a ++ b)
  BY <1>1, CatForm DEF ++
<1>2. ASSUME NEW a, NEW b, NEW c, IsSeq(a), IsSeq(b), IsSeq(c)
      PROVE  (a ++ b) ++ c = a ++ (b ++ c)
  <2>1. (a \o b) \o c = a \o (b \o c)
    BY <1>2, CatAssoc
  <2> QED  BY <2>1, Zenon DEF ++
<1>3. ASSUME NEW a, IsSeq(a)  PROVE a ++ <<>> = a /\ <<>> ++ a = a
  BY <1>3, CatEmpty, Zenon DEF ++
<1>4. IsSeq(<<>>) /\ \A x : IsSeq(<<x>>)
  BY ShortSeqs
<1> QED  BY <1>1, <1>2, <1>3, <1>4

(* The elements of a concatenation. *)
CatShape(a, b, c) ==
    /\ Len(a) \in Nat /\ Len(b) \in Nat /\ Len(c) = Len(a) + Len(b)
    /\ \A i \in 1..Len(a) : c[i] = a[i]
    /\ \A i \in 1..Len(b) : c[Len(a) + i] = b[i]
    /\ \A i \in 1..Len(c) : i \in 1..Len(a) \/ \E j \in 1..Len(b) : i = Len(a) + j

LEMMA CatElems ==
    ASSUME NEW a, NEW b, IsSeq(a), IsSeq(b)
    PROVE  CatShape(a, b, a ++ b)
<1>1. Len(a) \in Nat /\ Len(b) \in Nat
  BY SeqForm
<1>2. /\ Len(a ++ b) = Len(a) + Len(b)
      /\ \A i \in 1..Len(a) : (a ++ b)[i] = a[i]
      /\ \A i \in 1..Len(b) : (a ++ b)[Len(a) + i] = b[i]
  <2> DEFINE c == a \o b
  <2>1. /\ Len(c) = Len(a) + Len(b)
        /\ \A i \in 1..Len(a) : c[i] = a[i]
        /\ \A i \in 1..Len(b) : c[Len(a) + i] = b[i]
    BY CatForm
  <2>2. a ++ b = c
    BY DEF ++
  <2> HIDE DEF c
  <2> QED  BY <2>1, <2>2
<1>3. ASSUME NEW i \in 1..Len(a ++ b)
      PROVE  i \in 1..Len(a) \/ \E j \in 1..Len(b) : i = Len(a) + j
  <2>1. CASE i <= Len(a)
    BY <1>1, <2>1
  <2>2. CASE ~(i <= Len(a))
    <3>1. i - Len(a) \in 1..Len(b) /\ i = Len(a) + (i - Len(a))
      BY <1>1, <1>2, <2>2
    <3> QED  BY <3>1
  <2> QED  BY <2>1, <2>2
<1> QED  BY <1>1, <1>2, <1>3 DEF CatShape

-----------------------------------------------------------------------------
(* The concatenation of a list is the last of a list of partial results.   *)

Cat(ss) ==
    LET cat[i \in 0..Len(ss)] == IF i = 0 THEN <<>> ELSE cat[i-1] \o ss[i]
    IN  cat[Len(ss)]

CatArray(ss, W) ==
    /\ W = [i \in 0..Len(ss) |-> W[i]]
    /\ W[0] = <<>>
    /\ \A i \in 1..Len(ss) : W[i] = W[i - 1] ++ ss[i]

LEMMA CatArrayExists ==
    ASSUME NEW ss, IsSeq(ss)
    PROVE  \E W : CatArray(ss, W)
<1> DEFINE n == Len(ss)
           Partial(k, W) == /\ W = [i \in 0..k |-> W[i]] /\ W[0] = <<>>
                         /\ \A i \in 1..k : W[i] = W[i - 1] ++ ss[i]
           S == {k \in Nat : \E W : Partial(k, W)}
<1>0. n \in Nat
  BY SeqForm
<1>1. 0 \in S
  <2> DEFINE W == [i \in 0..0 |-> <<>>]
  <2>1. Partial(0, W)
    OBVIOUS
  <2> QED  BY <2>1
<1>2. ASSUME NEW k \in Nat, k \in S  PROVE k + 1 \in S
  <2>1. PICK W : Partial(k, W)
    BY <1>2
  <2> DEFINE Z == [i \in 0..(k + 1) |-> IF i = k + 1 THEN W[k] ++ ss[k + 1] ELSE W[i]]
  <2>2. Z[0] = <<>> /\ Z = [i \in 0..(k + 1) |-> Z[i]]
    BY <2>1
  <2>3. ASSUME NEW i \in 1..(k + 1)  PROVE Z[i] = Z[i - 1] ++ ss[i]
    <3>1. CASE i = k + 1
      <4>1. Z[i] = W[k] ++ ss[i] /\ Z[i - 1] = W[k]
        BY <3>1
      <4> QED  BY <4>1
    <3>2. CASE i # k + 1
      <4>1. i \in 1..k /\ Z[i] = W[i] /\ Z[i - 1] = W[i - 1]
        BY <3>2
      <4> QED  BY <2>1, <4>1
    <3> QED  BY <3>1, <3>2
  <2>4. Partial(k + 1, Z)
    BY <2>2, <2>3
  <2> HIDE DEF Z
  <2>5. \E Y : Partial(k + 1, Y)
    BY <2>4
  <2> HIDE DEF Partial
  <2> QED  BY <2>5
<1> HIDE DEF S
<1>3. Nat \subseteq S
  BY <1>1, <1>2, SetInduction
<1>4. n \in S
  BY <1>0, <1>3
<1>5. PICK W : Partial(n, W)
  BY <1>4 DEF S
<1> QED  BY <1>5 DEF CatArray

(* Partial results are determined. *)
LEMMA CatIs ==
    ASSUME NEW ss, IsSeq(ss), NEW W, CatArray(ss, W)
    PROVE  Cat(ss) = W[Len(ss)]
<1> DEFINE n == Len(ss)
           Is(f) == f = [i \in 0..n |-> IF i = 0 THEN <<>> ELSE f[i - 1] ++ ss[i]]
           g == CHOOSE f : Is(f)
<1>0. n \in Nat
  BY SeqForm
<1>1. Cat(ss) = g[n]
  BY DEF Cat, ++
<1>2. Is(W)
  <2>1. W = [i \in 0..n |-> W[i]]
    BY DEF CatArray
  <2>2. ASSUME NEW i \in 0..n  PROVE W[i] = IF i = 0 THEN <<>> ELSE W[i - 1] ++ ss[i]
    <3>1. CASE i = 0
      BY <3>1 DEF CatArray
    <3>2. CASE i # 0
      <4>1. i \in 1..n
        BY <1>0, <3>2
      <4>2. W[i] = W[i - 1] ++ ss[i]
        BY <4>1 DEF CatArray
      <4> QED  BY <3>2, <4>2
    <3> QED  BY <3>1, <3>2
  <2> QED  BY <2>1, <2>2
<1>3. Is(g)
  BY <1>2, Zenon
<1>4. \A i \in 0..n : g[i] = IF i = 0 THEN <<>> ELSE g[i - 1] ++ ss[i]
  <2> HIDE DEF g
  <2> QED  BY <1>3
<1> HIDE DEF g
<1> DEFINE S == {k \in Nat : k <= n => g[k] = W[k]}
<1>5. 0 \in S
  BY <1>0, <1>4 DEF CatArray
<1>6. ASSUME NEW k \in Nat, k \in S  PROVE k + 1 \in S
  <2> SUFFICES ASSUME k + 1 <= n  PROVE g[k + 1] = W[k + 1]
    OBVIOUS
  <2>1. g[k + 1] = g[k] ++ ss[k + 1]
    <3>1. k + 1 \in 0..n /\ k + 1 # 0 /\ (k + 1) - 1 = k
      BY <1>0
    <3> QED  BY <1>4, <3>1
  <2>2. W[k + 1] = W[k] ++ ss[k + 1]
    <3>1. k + 1 \in 1..n /\ (k + 1) - 1 = k
      BY <1>0
    <3> QED  BY <3>1 DEF CatArray
  <2>3. g[k] = W[k]
    BY <1>0, <1>6
  <2> QED  BY <2>1, <2>2, <2>3
<1> HIDE DEF S
<1>7. n \in S
  BY <1>0, <1>5, <1>6, SetInduction
<1> QED  BY <1>1, <1>7 DEF S

LEMMA CatArraySeqs ==
    ASSUME NEW ss, IsSeq(ss), \A i \in 1..Len(ss) : IsSeq(ss[i]), NEW W, CatArray(ss, W)
    PROVE  \A i \in 0..Len(ss) : IsSeq(W[i])
<1> DEFINE n == Len(ss)
           S == {k \in Nat : k <= n => IsSeq(W[k])}
<1>0. n \in Nat
  BY SeqForm
<1>1. 0 \in S
  BY ShortSeqs DEF CatArray
<1>2. ASSUME NEW k \in Nat, k \in S  PROVE k + 1 \in S
  <2> SUFFICES ASSUME k + 1 <= n  PROVE IsSeq(W[k + 1])
    OBVIOUS
  <2>1. k + 1 \in 1..n /\ (k + 1) - 1 = k /\ IsSeq(W[k])
    BY <1>0, <1>2
  <2>2. W[k + 1] = W[k] ++ ss[k + 1]
    BY <2>1 DEF CatArray
  <2> QED  BY <2>1, <2>2, CatLaws
<1> HIDE DEF S
<1>3. Nat \subseteq S
  BY <1>1, <1>2, SetInduction
<1> QED  BY <1>0, <1>3 DEF S

-----------------------------------------------------------------------------
(* Elements at the end of a sequence.                                      *)

\* The stack st with a on top.
On(st, a) == st ++ <<a>>

LEMMA OnLaws ==
    /\ \A st, a : IsSeq(st) => IsSeq(On(st, a)) /\ Len(st) \in Nat /\ Len(On(st, a)) = Len(st) + 1
    /\ \A st, x, a : IsSeq(st) /\ IsSeq(x) => st ++ On(x, a) = On(st ++ x, a)
    /\ \A st : IsSeq(st) => st ++ <<>> = st /\ <<>> ++ st = st
    /\ \A st, x : IsSeq(st) /\ IsSeq(x) => IsSeq(st ++ x)
    /\ IsSeq(<<>>) /\ Len(<<>>) = 0
<1>1. ASSUME NEW st, NEW a, IsSeq(st)
      PROVE  IsSeq(On(st, a)) /\ Len(st) \in Nat /\ Len(On(st, a)) = Len(st) + 1
  <2>1. IsSeq(<<a>>) /\ Len(<<a>>) = 1
    BY ShortSeqs
  <2>2. CatShape(st, <<a>>, st ++ <<a>>) /\ IsSeq(st ++ <<a>>)
    BY <1>1, <2>1, CatElems, CatLaws
  <2> QED  BY <2>1, <2>2 DEF On, CatShape
<1>2. ASSUME NEW st, NEW x, NEW a, IsSeq(st), IsSeq(x)  PROVE st ++ On(x, a) = On(st ++ x, a)
  <2> DEFINE t == <<a>>
  <2>1. IsSeq(t)
    BY ShortSeqs
  <2> HIDE DEF t
  <2>2. (st ++ x) ++ t = st ++ (x ++ t)
    BY <1>2, <2>1, CatLaws
  <2> QED  BY <2>2 DEF On, t
<1> QED  BY <1>1, <1>2, CatLaws, ShortSeqs

LEMMA OnElems ==
    ASSUME NEW st, NEW a, IsSeq(st)
    PROVE  /\ On(st, a)[Len(st) + 1] = a
           /\ \A i \in 1..Len(st) : On(st, a)[i] = st[i]
<1> DEFINE t == <<a>>
<1>1. IsSeq(t) /\ Len(t) = 1 /\ t[1] = a
  BY ShortSeqs
<1> HIDE DEF t
<1>2. CatShape(st, t, st ++ t)
  BY <1>1, CatElems
<1>3. 1 \in 1..Len(t)
  BY <1>1
<1>4. (st ++ t)[Len(st) + 1] = a /\ \A i \in 1..Len(st) : (st ++ t)[i] = st[i]
  BY <1>1, <1>2, <1>3 DEF CatShape
<1> QED  BY <1>4 DEF On, t

LEMMA AppendOn ==
    ASSUME NEW st, NEW a, IsSeq(st)
    PROVE  Append(st, a) = On(st, a) /\ st \o <<a>> = On(st, a)
<1>1. st \o <<a>> = On(st, a)
  BY DEF On, ++
<1> DEFINE c == Append(st, a)
           S == {st[i] : i \in DOMAIN st} \cup {a}
<1>2. st \in Seq(S)
  BY DEF IsSeq
<1> HIDE DEF S
<1>3. a \in S
  BY DEF S
<1>4. c \in Seq(S) /\ Len(c) = Len(st) + 1 /\ (\A i \in 1..Len(st) : c[i] = st[i]) /\ c[Len(st) + 1] = a
  BY <1>2, <1>3
<1>5. IsSeq(c) /\ IsSeq(On(st, a)) /\ Len(On(st, a)) = Len(st) + 1 /\ Len(st) \in Nat
  BY <1>4, SeqIsSeq, OnLaws
<1> HIDE DEF c
<1>6. \A i \in 1..Len(c) : i \in 1..Len(st) \/ i = Len(st) + 1
  BY <1>4, <1>5
<1>7. \A i \in 1..Len(c) : c[i] = On(st, a)[i]
  BY <1>4, <1>6, OnElems
<1>8. c = On(st, a)
  BY <1>4, <1>5, <1>7, SeqEq
<1> QED  BY <1>1, <1>8 DEF c

LEMMA FrontOn ==
    ASSUME NEW st, NEW a, IsSeq(st), NEW n \in Nat, n <= Len(st)
    PROVE  SubSeq(On(st, a), 1, n) = SubSeq(st, 1, n) /\ SubSeq(st, 1, Len(st)) = st
<1>0. Len(st) \in Nat /\ Len(On(st, a)) = Len(st) + 1 /\ IsSeq(On(st, a))
  BY OnLaws
<1>1. ASSUME NEW z, IsSeq(z), n <= Len(z)
      PROVE  LET y == SubSeq(z, 1, n)
             IN  IsSeq(y) /\ Len(y) = n /\ \A i \in 1..n : y[i] = z[i]
  <2> DEFINE S == {z[i] : i \in DOMAIN z}
             y == SubSeq(z, 1, n)
  <2>1. z \in Seq(S) /\ Len(z) \in Nat
    BY <1>1, SeqForm DEF IsSeq
  <2> HIDE DEF S
  <2>2. y \in Seq(S) /\ Len(y) = n /\ \A i \in 1..n : y[i] = z[i]
    BY <1>1, <2>1
  <2> QED  BY <2>2, SeqIsSeq
<1> DEFINE y == SubSeq(st, 1, n)
           w == SubSeq(On(st, a), 1, n)
           v == SubSeq(st, 1, Len(st))
<1>2. IsSeq(y) /\ Len(y) = n /\ \A i \in 1..n : y[i] = st[i]
  BY <1>1
<1>3. IsSeq(w) /\ Len(w) = n /\ \A i \in 1..n : w[i] = On(st, a)[i]
  BY <1>0, <1>1
<1>4. v = st
  <2>1. v \in Seq({st[i] : i \in DOMAIN st}) /\ Len(v) = Len(st) /\ \A i \in 1..Len(st) : v[i] = st[i]
    BY <1>0 DEF IsSeq
  <2>2. IsSeq(v)
    BY <2>1, SeqIsSeq
  <2> HIDE DEF v
  <2> QED  BY <2>1, <2>2, SeqEq
<1> HIDE DEF y, w
<1>5. \A i \in 1..n : w[i] = y[i]
  <2>1. \A i \in 1..n : i \in 1..Len(st)
    BY <1>0
  <2> QED  BY <1>2, <1>3, <2>1, OnElems
<1>6. w = y
  BY <1>2, <1>3, <1>5, SeqEq
<1> QED  BY <1>4, <1>6 DEF w, y

LEMMA AppendForm ==
    ASSUME NEW s, IsSeq(s), NEW e
    PROVE  /\ IsSeq(Append(s, e)) /\ Len(Append(s, e)) = Len(s) + 1
           /\ \A i \in 1..Len(s) : Append(s, e)[i] = s[i]
           /\ Append(s, e)[Len(s) + 1] = e
<1> DEFINE S == {s[i] : i \in DOMAIN s} \cup {e}
           z == Append(s, e)
<1>1. s \in Seq(S) /\ e \in S
  BY DEF IsSeq
<1> HIDE DEF S
<1>2. z \in Seq(S)
  BY <1>1
<1>3. IsSeq(z)
  BY <1>2, SeqIsSeq
<1>4. Len(z) = Len(s) + 1 /\ (\A i \in 1..Len(s) : z[i] = s[i]) /\ z[Len(s) + 1] = e
  BY <1>1
<1> QED  BY <1>3, <1>4

\* The first n elements of f, as a sequence.
Upto(f, n) == [j \in 1..n |-> f[j]]

LEMMA Grow ==
    ASSUME NEW f
    PROVE  /\ Upto(f, 0) = <<>>
           /\ \A n \in Nat : /\ IsSeq(Upto(f, n)) /\ Len(Upto(f, n)) = n
                             /\ \A i \in 1..n : Upto(f, n)[i] = f[i]
           /\ \A n \in Nat : Upto(f, n + 1) = On(Upto(f, n), f[n + 1])
<1>1. ASSUME NEW n \in Nat
      PROVE  IsSeq(Upto(f, n)) /\ Len(Upto(f, n)) = n /\ \A i \in 1..n : Upto(f, n)[i] = f[i]
  BY FnIsSeq DEF Upto
<1>2. Upto(f, 0) = <<>>
  <2>1. IsSeq(Upto(f, 0)) /\ Len(Upto(f, 0)) = 0 /\ IsSeq(<<>>) /\ Len(<<>>) = 0
    BY <1>1, ShortSeqs
  <2>2. \A i \in 1..0 : Upto(f, 0)[i] = <<>>[i]
    OBVIOUS
  <2> QED  BY <2>1, <2>2, SeqEq
<1>3. ASSUME NEW n \in Nat  PROVE Upto(f, n + 1) = On(Upto(f, n), f[n + 1])
  <2> DEFINE a == Upto(f, n + 1)
             b == Upto(f, n)
             c == On(b, f[n + 1])
  <2>1. IsSeq(a) /\ Len(a) = n + 1 /\ \A i \in 1..(n + 1) : a[i] = f[i]
    BY <1>1
  <2>2. IsSeq(b) /\ Len(b) = n /\ \A i \in 1..n : b[i] = f[i]
    BY <1>1
  <2>3. IsSeq(c) /\ Len(c) = n + 1 /\ c[n + 1] = f[n + 1] /\ \A i \in 1..n : c[i] = b[i]
    BY <2>2, OnLaws, OnElems
  <2> HIDE DEF a, b, c
  <2>4. \A i \in 1..Len(a) : a[i] = c[i]
    <3>1. \A i \in 1..(n + 1) : i \in 1..n \/ i = n + 1
      OBVIOUS
    <3> QED  BY <2>1, <2>2, <2>3, <3>1
  <2>5. a = c
    BY <2>1, <2>3, <2>4, SeqEq
  <2> QED  BY <2>5 DEF a, b, c
<1> QED  BY <1>1, <1>2, <1>3

-----------------------------------------------------------------------------
(* Counting. *)

\* How many of the numbers 1..i are in S.
Count(S, i) == Cardinality(S \cap (1..i))

LEMMA CountLaws ==
    ASSUME NEW S
    PROVE  /\ Count(S, 0) = 0
           /\ \A i \in Nat : Count(S, i) \in Nat /\ Count(S, i) <= i
           /\ \A i \in Nat : Count(S, i + 1) = Count(S, i) + (IF i + 1 \in S THEN 1 ELSE 0)
<1>1. Count(S, 0) = 0
  <2>1. S \cap (1..0) = {}
    OBVIOUS
  <2> QED  BY <2>1, FS_EmptySet DEF Count
<1>2. ASSUME NEW i \in Nat
      PROVE  IsFiniteSet(S \cap (1..i)) /\ Count(S, i) \in Nat /\ Count(S, i) <= i
  <2>1. IsFiniteSet(1..i) /\ Cardinality(1..i) = i
    BY FS_Interval
  <2>2. S \cap (1..i) \subseteq 1..i
    OBVIOUS
  <2>3. IsFiniteSet(S \cap (1..i)) /\ Cardinality(S \cap (1..i)) <= i
    BY <2>1, <2>2, FS_Subset
  <2> QED  BY <2>3, FS_CardinalityType DEF Count
<1>3. ASSUME NEW i \in Nat
      PROVE  Count(S, i + 1) = Count(S, i) + (IF i + 1 \in S THEN 1 ELSE 0)
  <2>1. CASE i + 1 \in S
    <3>1. S \cap (1..(i + 1)) = (S \cap (1..i)) \cup {i + 1} /\ i + 1 \notin S \cap (1..i)
      BY <2>1
    <3>2. Cardinality((S \cap (1..i)) \cup {i + 1}) = Cardinality(S \cap (1..i)) + 1
      BY <1>2, <3>1, FS_AddElement
    <3> QED  BY <2>1, <3>1, <3>2 DEF Count
  <2>2. CASE i + 1 \notin S
    <3>1. S \cap (1..(i + 1)) = S \cap (1..i)
      BY <2>2
    <3> QED  BY <1>2, <2>2, <3>1 DEF Count
  <2> QED  BY <2>1, <2>2
<1> QED  BY <1>1, <1>2, <1>3

-----------------------------------------------------------------------------
(* Ranks: how many elements of a finite set come before an element. *)

StrictOrder(S, R) ==
    /\ \A i \in S : <<i, i>> \notin R
    /\ \A i, j, k \in S : <<i, j>> \in R /\ <<j, k>> \in R => <<i, k>> \in R
    /\ \A i, j \in S : i = j \/ <<i, j>> \in R \/ <<j, i>> \in R

Before(S, R, i) == {j \in S : <<j, i>> \in R}

LEMMA Ranks ==
    ASSUME NEW S, IsFiniteSet(S), NEW R, StrictOrder(S, R), NEW rank,
           \A i \in S : rank[i] = Cardinality(Before(S, R, i))
    PROVE  /\ Cardinality(S) \in Nat
           /\ \A i \in S : rank[i] \in 0..(Cardinality(S) - 1)
           /\ \A i, j \in S : <<i, j>> \in R <=> rank[i] < rank[j]
           /\ \A m \in 0..(Cardinality(S) - 1) : \E i \in S : rank[i] = m
           /\ \A k \in 0..Cardinality(S) : Cardinality({i \in S : rank[i] < k}) = k
<1> DEFINE N == Cardinality(S)
           f == [i \in S |-> rank[i]]
<1>1. N \in Nat
  BY FS_CardinalityType
<1>2. ASSUME NEW i \in S  PROVE rank[i] \in 0..(N - 1) /\ IsFiniteSet(Before(S, R, i))
  <2>1. Before(S, R, i) \subseteq S \ {i}
    BY DEF Before, StrictOrder
  <2>2. IsFiniteSet(S \ {i}) /\ Cardinality(S \ {i}) = N - 1
    BY FS_RemoveElement
  <2>3. IsFiniteSet(Before(S, R, i)) /\ Cardinality(Before(S, R, i)) <= N - 1
    BY <2>1, <2>2, FS_Subset
  <2>4. Cardinality(Before(S, R, i)) \in Nat
    BY <2>3, FS_CardinalityType
  <2> QED  BY <1>1, <2>3, <2>4
<1>3. ASSUME NEW i \in S, NEW j \in S, <<i, j>> \in R  PROVE rank[i] < rank[j]
  <2>1. Before(S, R, i) \cup {i} \subseteq Before(S, R, j) /\ i \notin Before(S, R, i)
    BY <1>3 DEF Before, StrictOrder
  <2>2. /\ IsFiniteSet(Before(S, R, i) \cup {i})
        /\ Cardinality(Before(S, R, i) \cup {i}) = rank[i] + 1
    BY <1>2, <2>1, FS_AddElement
  <2>3. rank[i] + 1 <= rank[j]
    BY <1>2, <2>1, <2>2, FS_Subset
  <2> QED  BY <1>1, <1>2, <2>3
<1>4. ASSUME NEW i \in S, NEW j \in S  PROVE <<i, j>> \in R <=> rank[i] < rank[j]
  <2>1. rank[i] \in Int /\ rank[j] \in Int
    BY <1>1, <1>2
  <2>2. CASE i = j
    <3>1. <<i, j>> \notin R
      BY <2>2 DEF StrictOrder
    <3> QED  BY <2>1, <2>2, <3>1
  <2>3. CASE <<i, j>> \in R
    BY <1>3, <2>3
  <2>4. CASE <<i, j>> \notin R /\ <<j, i>> \in R
    <3>1. rank[j] < rank[i]
      BY <1>3, <2>4
    <3> QED  BY <2>1, <2>4, <3>1
  <2>5. i = j \/ <<i, j>> \in R \/ <<j, i>> \in R
    BY DEF StrictOrder
  <2> QED  BY <2>2, <2>3, <2>4, <2>5
<1>5. ASSUME NEW i \in S, NEW j \in S, rank[i] = rank[j]  PROVE i = j
  <2>1. rank[i] \in Int /\ rank[j] \in Int
    BY <1>1, <1>2
  <2>2. ~(rank[i] < rank[j]) /\ ~(rank[j] < rank[i])
    BY <1>5, <2>1
  <2>3. i = j \/ <<i, j>> \in R \/ <<j, i>> \in R
    BY DEF StrictOrder
  <2> QED  BY <1>3, <2>2, <2>3
<1>6. f \in Injection(S, 0..(N - 1))
  <2>1. f \in [S -> 0..(N - 1)] /\ \A i, j \in S : f[i] = f[j] => i = j
    BY <1>2, <1>5
  <2> HIDE DEF f
  <2> QED  BY <2>1, Fun_IsInj
<1>7. IsFiniteSet(0..(N - 1)) /\ Cardinality(0..(N - 1)) = N
  BY <1>1, FS_Interval, SMTT(30)
<1>8. f \in Surjection(S, 0..(N - 1))
  BY <1>6, <1>7, FS_Injection
<1>9. \A m \in 0..(N - 1) : \E i \in S : rank[i] = m
  <2> DEFINE T == 0..(N - 1)
  <2>1. \A i \in S : f[i] = rank[i]
    OBVIOUS
  <2>2. f \in Surjection(S, T)
    BY <1>8
  <2> HIDE DEF f, T
  <2>3. \A m \in T : \E i \in S : f[i] = m
    BY <2>2, Fun_SurjectionProperties
  <2> QED  BY <2>1, <2>3 DEF T
<1>10. ASSUME NEW k \in 0..N  PROVE Cardinality({i \in S : rank[i] < k}) = k
  <2> DEFINE T == {i \in S : rank[i] < k}
             g == [i \in T |-> rank[i]]
  <2>1. k \in Nat /\ k <= N
    BY <1>1
  <2>2. g \in [T -> 0..(k - 1)]
    BY <1>1, <1>2, <2>1
  <2>3. \A i, j \in T : g[i] = g[j] => i = j
    BY <1>5
  <2>4. \A m \in 0..(k - 1) : \E i \in T : g[i] = m
    <3> SUFFICES ASSUME NEW m \in 0..(k - 1)  PROVE \E i \in T : g[i] = m
      OBVIOUS
    <3>1. m \in 0..(N - 1) /\ m < k
      BY <1>1, <2>1
    <3>2. PICK i \in S : rank[i] = m
      BY <1>9, <3>1
    <3> QED  BY <3>1, <3>2
  <2>5. IsFiniteSet(T)
    BY FS_Subset
  <2> HIDE DEF g, T
  <2>6. g \in Bijection(T, 0..(k - 1))
    BY <2>2, <2>3, <2>4, Fun_IsBij
  <2>7. IsFiniteSet(0..(k - 1)) /\ Cardinality(0..(k - 1)) = k
    BY <2>1, FS_Interval
  <2>8. Cardinality(0..(k - 1)) = Cardinality(T)
    <3>1. ExistsBijection(T, 0..(k - 1))
      BY <2>6 DEF ExistsBijection
    <3> QED  BY <2>5, <3>1, FS_Bijection
  <2> QED  BY <2>7, <2>8 DEF T
<1> QED  BY <1>1, <1>2, <1>4, <1>9, <1>10

\* Numbers ordered upwards or downwards.
OrderOn(S, dir) == {p \in S \X S : IF dir = "up" THEN p[1] < p[2] ELSE p[2] < p[1]}
Rivals(S, dir, i) == {j \in S : IF dir = "up" THEN j < i ELSE j > i}

Ordered(S, dir) ==
    /\ IsFiniteSet(S) /\ StrictOrder(S, OrderOn(S, dir))
    /\ \A i \in S : Before(S, OrderOn(S, dir), i) = Rivals(S, dir, i)
    /\ \A i, j \in S : <<i, j>> \in OrderOn(S, dir) <=> IF dir = "up" THEN i < j ELSE j < i

LEMMA InOrder ==
    ASSUME NEW n \in Nat, NEW S \in SUBSET (1..n), NEW dir
    PROVE  Ordered(S, dir)
<1> DEFINE R == OrderOn(S, dir)
<1>1. \A i, j \in S : <<i, j>> \in R <=> IF dir = "up" THEN i < j ELSE j < i
  BY DEF OrderOn
<1>2. S \subseteq Int
  OBVIOUS
<1>3. IsFiniteSet(S)
  <2>1. IsFiniteSet(1..n)
    BY FS_Interval
  <2> QED  BY <2>1, FS_Subset
<1> HIDE DEF R
<1>4. StrictOrder(S, R)
  BY <1>1, <1>2 DEF StrictOrder
<1>5. \A i \in S : Before(S, R, i) = Rivals(S, dir, i)
  BY <1>1, <1>2 DEF Before, Rivals
<1> QED  BY <1>1, <1>3, <1>4, <1>5 DEF R, Ordered

=============================================================================
