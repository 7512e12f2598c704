---------------------------- MODULE Decode_proofs ----------------------------
(***************************************************************************)
(* Proofs about the parser, for every set of scripts and every context.    *)
(* Every non-terminal pops a number of expressions and pushes one.  Along  *)
(* the stack of non-terminals this fixes the height the stack of           *)
(* expressions must have, and that height is always the actual one.        *)
(* What decode accepts is the encoding of its result: at each turn of the  *)
(* loop the tokens read so far are the ones that the expressions on term   *)
(* encode to, with those that the non-terminals have seen between them.    *)
(***************************************************************************)
EXTENDS Decode, MiniscriptTypes_proofs, DataLemmas

\* How many expressions a non-terminal takes from the stack; it gives one back.
Pops(e) ==
    CASE e[1] \in {"Expression", "WExpression"} -> 0
      [] e[1] \in {"AndV", "EndIfElse", "AndB", "OrB", "OrC", "OrD"} -> 2
      [] e[1] = "Tern" -> 3
      [] e[1] \in {"ThreshW", "ThreshE"} -> e[3]
      [] OTHER -> 1

\* h[j] expressions are on the stack once only the first j non-terminals of nt
\* are left; m of them now, one when all is done.
Heights(nt, m, h) ==
    /\ h \in [0..Len(nt) -> Nat]
    /\ h[0] = 1
    /\ h[Len(nt)] = m
    /\ \A j \in 1..Len(nt) : h[j-1] >= 1 /\ h[j] = h[j-1] - 1 + Pops(nt[j])

Balanced(nt, m) == \E h : Heights(nt, m, h)

\* nt is what a parser with m expressions on its stack may still have to do.
Pending(nt, m) ==
    /\ IsSeq(nt)
    /\ \A i \in DOMAIN nt : Pops(nt[i]) \in Nat
    /\ Balanced(nt, m)

(* Taking the last non-terminal off the stack. *)
LEMMA PendingPop ==
    ASSUME NEW nt, nt # <<>>, NEW m, Pending(nt, m)
    PROVE  \E q \in Nat : /\ q >= 1
                          /\ Pending(SubSeq(nt, 1, Len(nt) - 1), q)
                          /\ m = q - 1 + Pops(nt[Len(nt)])
                          /\ Pops(nt[Len(nt)]) \in Nat
<1> DEFINE n == Len(nt)
           b == SubSeq(nt, 1, n - 1)
<1>1. n \in Nat /\ n >= 1 /\ DOMAIN nt = 1..n
  BY DEF Pending, IsSeq
<1>2. Len(b) = n - 1 /\ DOMAIN b = 1..(n-1) /\ \A j \in 1..(n-1) : b[j] = nt[j]
  BY <1>1 DEF Pending, IsSeq
<1>3. PICK h : Heights(nt, m, h)
  BY DEF Pending, Balanced
<1> DEFINE g == [j \in 0..(n-1) |-> h[j]]
<1>4. Heights(b, h[n-1], g)
  BY <1>1, <1>2, <1>3 DEF Heights
<1>5. h[n-1] \in Nat /\ h[n-1] >= 1 /\ m = h[n-1] - 1 + Pops(nt[n])
  BY <1>1, <1>3 DEF Heights
<1>6. b \in Seq({nt[i] : i \in DOMAIN nt})
  BY <1>1 DEF Pending, IsSeq
<1>7. IsSeq(b)
  BY <1>6, SeqIsSeq
<1>8. \A i \in DOMAIN b : Pops(b[i]) \in Nat
  BY <1>1, <1>2 DEF Pending
<1>9. Pops(nt[n]) \in Nat
  BY <1>1 DEF Pending
<1> QED
  BY <1>4, <1>5, <1>7, <1>8, <1>9 DEF Balanced, Pending

(* Putting one on top: it needs its operands, and gives one expression. *)
LEMMA PendingPush ==
    ASSUME NEW nt, NEW q \in Nat, q >= 1, Pending(nt, q),
           NEW e, Pops(e) \in Nat
    PROVE  Pending(Append(nt, e), q - 1 + Pops(e))
<1> DEFINE n == Len(nt)
           a == Append(nt, e)
           r == q - 1 + Pops(e)
<1>1. n \in Nat /\ DOMAIN nt = 1..n
  BY DEF Pending, IsSeq
<1>2. Len(a) = n + 1 /\ DOMAIN a = 1..(n+1) /\ a[n+1] = e /\ \A j \in 1..n : a[j] = nt[j]
  BY <1>1 DEF Pending, IsSeq
<1>3. PICK h : Heights(nt, q, h)
  BY DEF Pending, Balanced
<1> DEFINE g == [j \in 0..(n+1) |-> IF j = n + 1 THEN r ELSE h[j]]
<1>4. r \in Nat
  OBVIOUS
<1> HIDE DEF r
<1>5. g \in [0..(n+1) -> Nat]
  BY <1>1, <1>3, <1>4 DEF Heights
<1>6. g[0] = 1 /\ g[n+1] = r /\ g[n] = q
  <2>1. h[0] = 1 /\ h[n] = q
    BY <1>3 DEF Heights
  <2>0. n \in Nat
    BY <1>1
  <2> HIDE DEF n
  <2>2. /\ 0 \in 0..(n+1) /\ n \in 0..(n+1) /\ n + 1 \in 0..(n+1)
        /\ 0 # n + 1 /\ n # n + 1
    BY <2>0
  <2> QED
    BY <2>1, <2>2
<1>7. ASSUME NEW j \in 1..(n+1)
      PROVE  g[j-1] >= 1 /\ g[j] = g[j-1] - 1 + Pops(a[j])
  <2>1. CASE j = n + 1
    <3>1. j - 1 = n /\ a[j] = e
      BY <2>1, <1>1, <1>2
    <3> HIDE DEF g
    <3> QED
      BY <2>1, <3>1, <1>6 DEF r
  <2>2. CASE j # n + 1
    BY <2>2, <1>1, <1>2, <1>3 DEF Heights
  <2> QED
    BY <2>1, <2>2
<1>8. Heights(a, r, g)
  BY <1>2, <1>5, <1>6, <1>7 DEF Heights
<1>9. a \in Seq({nt[i] : i \in DOMAIN nt} \cup {e})
  BY DEF Pending, IsSeq
<1>10. IsSeq(a)
  BY <1>9, SeqIsSeq
<1>11. \A i \in DOMAIN a : Pops(a[i]) \in Nat
  BY <1>1, <1>2 DEF Pending
<1> QED
  BY <1>8, <1>10, <1>11 DEF Balanced, r, Pending

-----------------------------------------------------------------------------
(* Putting several non-terminals on top. *)

LEMMA ConcatOne ==
    ASSUME NEW b, IsSeq(b), NEW x
    PROVE  b \o <<x>> = Append(b, x)
  BY DEF IsSeq

LEMMA PendingOne ==
    ASSUME NEW b, NEW q \in Nat, q >= 1, Pending(b, q), NEW x, Pops(x) \in Nat
    PROVE  Pending(b \o <<x>>, q - 1 + Pops(x))
<1>1. IsSeq(b)
  BY DEF Pending
<1>2. b \o <<x>> = Append(b, x)
  BY <1>1, ConcatOne
<1> QED
  BY <1>2, PendingPush

LEMMA PendingTwo ==
    ASSUME NEW b, NEW x, NEW y, NEW q \in Nat
    PROVE   /\ q >= 1 /\ Pending(b, q)
            /\ Pops(x) \in Nat /\ Pops(y) \in Nat
            /\ q - 1 + Pops(x) >= 1
            => Pending(b \o <<x, y>>,
                       q - 2 + Pops(x) + Pops(y))
<1>1. ASSUME IsSeq(b)
      PROVE  b \o <<x, y>> = Append(Append(b, x), y)
  <2> DEFINE S == {b[i] : i \in DOMAIN b} \cup {x, y}
  <2>1. b \in Seq(S)
    BY <1>1 DEF IsSeq
  <2>2. x \in S /\ y \in S
    OBVIOUS
  <2> HIDE DEF S
  <2> QED
    BY <2>1, <2>2
<1> SUFFICES ASSUME q >= 1, Pending(b, q),
                    Pops(x) \in Nat, Pops(y) \in Nat,
                    q - 1 + Pops(x) >= 1
             PROVE  Pending(b \o <<x, y>>,
                            q - 2 + Pops(x) + Pops(y))
  OBVIOUS
<1> DEFINE q1 == q - 1 + Pops(x)
<1>2. q1 \in Nat /\ q1 >= 1
  OBVIOUS
<1>3. Pending(Append(b, x), q1)
  BY PendingPush
<1>4. q - 2 + Pops(x) + Pops(y) = q1 - 1 + Pops(y)
  OBVIOUS
<1> HIDE DEF q1
<1>5. Pending(Append(Append(b, x), y),
             q - 2 + Pops(x) + Pops(y))
  BY <1>2, <1>3, <1>4, PendingPush
<1>6. IsSeq(b)
  BY DEF Pending
<1> QED
  BY <1>1, <1>5, <1>6

LEMMA PendingThree ==
    ASSUME NEW b, NEW x, NEW y, NEW z, NEW q \in Nat
    PROVE   /\ q >= 1 /\ Pending(b, q)
            /\ Pops(x) \in Nat /\ Pops(y) \in Nat /\ Pops(z) \in Nat
            /\ q - 1 + Pops(x) >= 1
            /\ q - 2 + Pops(x) + Pops(y) >= 1
            => Pending(b \o <<x, y, z>>,
                       q - 3 + Pops(x) + Pops(y) + Pops(z))
<1>1. ASSUME IsSeq(b)
      PROVE  b \o <<x, y, z>> = Append(Append(Append(b, x), y), z)
  <2> DEFINE S == {b[i] : i \in DOMAIN b} \cup {x, y, z}
  <2>1. b \in Seq(S)
    BY <1>1 DEF IsSeq
  <2>2. x \in S /\ y \in S /\ z \in S
    OBVIOUS
  <2> HIDE DEF S
  <2> QED
    BY <2>1, <2>2
<1> SUFFICES ASSUME q >= 1, Pending(b, q),
                    Pops(x) \in Nat, Pops(y) \in Nat, Pops(z) \in Nat,
                    q - 1 + Pops(x) >= 1,
                    q - 2 + Pops(x) + Pops(y) >= 1
             PROVE  Pending(b \o <<x, y, z>>,
                            q - 3 + Pops(x) + Pops(y) + Pops(z))
  OBVIOUS
<1> DEFINE q1 == q - 1 + Pops(x)
           q2 == q - 2 + Pops(x) + Pops(y)
<1>2. q1 \in Nat /\ q1 >= 1 /\ q2 \in Nat /\ q2 >= 1
  OBVIOUS
<1>3. Pending(Append(b, x), q1)
  BY PendingPush
<1>4. q2 = q1 - 1 + Pops(y)
  OBVIOUS
<1>6. q - 3 + Pops(x) + Pops(y) + Pops(z) = q2 - 1 + Pops(z)
  OBVIOUS
<1> HIDE DEF q1, q2
<1>5. Pending(Append(Append(b, x), y), q2)
  BY <1>2, <1>3, <1>4, PendingPush
<1>7. Pending(Append(Append(Append(b, x), y), z),
             q - 3 + Pops(x) + Pops(y) + Pops(z))
  BY <1>2, <1>5, <1>6, PendingPush
<1>8. IsSeq(b)
  BY DEF Pending
<1> QED
  BY <1>1, <1>7, <1>8

LEMMA PendingFour ==
    ASSUME NEW b, NEW w, NEW x, NEW y, NEW z, NEW q \in Nat
    PROVE   /\ q >= 1 /\ Pending(b, q)
            /\ Pops(w) \in Nat /\ Pops(x) \in Nat /\ Pops(y) \in Nat /\ Pops(z) \in Nat
            /\ q - 1 + Pops(w) >= 1
            /\ q - 2 + Pops(w) + Pops(x) >= 1
            /\ q - 3 + Pops(w) + Pops(x) + Pops(y) >= 1
            => Pending(b \o <<w, x, y, z>>,
                       q - 4 + Pops(w) + Pops(x) + Pops(y) + Pops(z))
<1>1. ASSUME IsSeq(b)
      PROVE  b \o <<w, x, y, z>> = Append(Append(Append(Append(b, w), x), y), z)
  <2> DEFINE S == {b[i] : i \in DOMAIN b} \cup {w, x, y, z}
  <2>1. b \in Seq(S)
    BY <1>1 DEF IsSeq
  <2>2. w \in S /\ x \in S /\ y \in S /\ z \in S
    OBVIOUS
  <2> HIDE DEF S
  <2> QED
    BY <2>1, <2>2
<1> SUFFICES ASSUME q >= 1, Pending(b, q),
                    Pops(w) \in Nat, Pops(x) \in Nat, Pops(y) \in Nat, Pops(z) \in Nat,
                    q - 1 + Pops(w) >= 1,
                    q - 2 + Pops(w) + Pops(x) >= 1,
                    q - 3 + Pops(w) + Pops(x) + Pops(y) >= 1
             PROVE  Pending(b \o <<w, x, y, z>>,
                            q - 4 + Pops(w) + Pops(x) + Pops(y) + Pops(z))
  OBVIOUS
<1> DEFINE q1 == q - 1 + Pops(w)
           q2 == q - 2 + Pops(w) + Pops(x)
           q3 == q - 3 + Pops(w) + Pops(x) + Pops(y)
<1>2. q1 \in Nat /\ q1 >= 1 /\ q2 \in Nat /\ q2 >= 1 /\ q3 \in Nat /\ q3 >= 1
  OBVIOUS
<1>3. Pending(Append(b, w), q1)
  BY PendingPush
<1>4. q2 = q1 - 1 + Pops(x)
  OBVIOUS
<1>6. q3 = q2 - 1 + Pops(y)
  OBVIOUS
<1>8. q - 4 + Pops(w) + Pops(x) + Pops(y) + Pops(z) = q3 - 1 + Pops(z)
  OBVIOUS
<1> HIDE DEF q1, q2, q3
<1>5. Pending(Append(Append(b, w), x), q2)
  BY <1>2, <1>3, <1>4, PendingPush
<1>7. Pending(Append(Append(Append(b, w), x), y), q3)
  BY <1>2, <1>5, <1>6, PendingPush
<1>9. Pending(Append(Append(Append(Append(b, w), x), y), z),
             q - 4 + Pops(w) + Pops(x) + Pops(y) + Pops(z))
  BY <1>2, <1>7, <1>8, PendingPush
<1>10. IsSeq(b)
  BY DEF Pending
<1> QED
  BY <1>1, <1>9, <1>10

-----------------------------------------------------------------------------
(* The arena. *)

NodeOK(ns, i) ==
    /\ ns[i].frag \in Frags
    /\ ns[i].ty \in Type
    /\ Sane(ns[i].ty)
    /\ \A j \in DOMAIN ns[i].subs : ns[i].subs[j] \in 1..(i - 1)

NodesOK(ns) == IsSeq(ns) /\ \A i \in DOMAIN ns : NodeOK(ns, i)

\* A terminal over the arena ns with as many children as its fragment takes.
WellFormed(ns, t) ==
    /\ t.frag \in Frags
    /\ t.subs \in Seq(1..Len(ns))
    /\ t.frag \in WrapFrags \cup InscribeFrags => Len(t.subs) = 1
    /\ t.frag \in BinaryFrags => Len(t.subs) = 2
    /\ t.frag = "AndOr" => Len(t.subs) = 3
    /\ t.frag = "Thresh" => t.k \in 1..Len(t.subs)
    /\ t.k \in Nat

(* from_ast computes a sane type or fails. *)
LEMMA TyOfSane ==
    ASSUME NEW ns, NodesOK(ns), NEW t, WellFormed(ns, t), ty_of(ns, t) # Err
    PROVE  ty_of(ns, t) \in Type /\ Sane(ty_of(ns, t))
<1> DEFINE subs == [i \in DOMAIN t.subs |-> ns[t.subs[i]].ty]
           inscribed == InscriptionsValid(t.args)
<1>1. /\ Len(t.subs) \in Nat /\ DOMAIN t.subs = 1..Len(t.subs)
      /\ \A i \in DOMAIN t.subs : t.subs[i] \in 1..Len(ns)
  BY DEF WellFormed
<1>2. DOMAIN ns = 1..Len(ns)
  BY DEF NodesOK, IsSeq
<1>3. \A i \in DOMAIN t.subs : ns[t.subs[i]].ty \in Type /\ Sane(ns[t.subs[i]].ty)
  BY <1>1, <1>2 DEF NodesOK, NodeOK
<1>4. subs \in Seq(Type) /\ Len(subs) = Len(t.subs) /\ DOMAIN subs = DOMAIN t.subs
  BY <1>1, <1>3
<1>5. \A i \in DOMAIN subs : Sane(subs[i])
  BY <1>3
<1>6. inscribed \in BOOLEAN
  BY DEF InscriptionsValid
<1>7. ty_of(ns, t) = type_check(t.frag, t.k, subs, inscribed)
  BY DEF ty_of
<1> HIDE DEF subs, inscribed
<1>8. SaneResult(type_check(t.frag, t.k, subs, inscribed))
  BY <1>4, <1>5, <1>6, TypeCheckSane DEF WellFormed
<1> QED
  BY <1>7, <1>8 DEF SaneResult

(* Adding a node with a sane type. *)
LEMMA NodesAppend ==
    ASSUME NEW ns, NodesOK(ns), NEW t, t.frag \in Frags, t.subs \in Seq(1..Len(ns)),
           ty_of(ns, t) \in Type, Sane(ty_of(ns, t))
    PROVE  /\ NodesOK(Append(ns, Annotate(ns, t)))
           /\ Len(Append(ns, Annotate(ns, t))) = Len(ns) + 1
           /\ Len(ns) \in Nat
<1> DEFINE e == Annotate(ns, t)
           a == Append(ns, e)
           n == Len(ns)
<1>1. e.frag = t.frag /\ e.subs = t.subs /\ e.ty = ty_of(ns, t)
  BY DEF Annotate
<1> HIDE DEF e
<1>2. n \in Nat /\ DOMAIN ns = 1..n
  BY DEF NodesOK, IsSeq
<1>3. Len(a) = n + 1 /\ DOMAIN a = 1..(n+1) /\ a[n+1] = e /\ \A i \in 1..n : a[i] = ns[i]
  BY <1>2 DEF NodesOK, IsSeq
<1>4. a \in Seq({ns[i] : i \in DOMAIN ns} \cup {e})
  BY DEF NodesOK, IsSeq
<1>5. IsSeq(a)
  BY <1>4, SeqIsSeq
<1> HIDE DEF a
<1>6. ASSUME NEW i \in 1..(n+1)
      PROVE  NodeOK(a, i)
  <2>1. CASE i = n + 1
    <3>1. \A j \in DOMAIN t.subs : t.subs[j] \in 1..n
      OBVIOUS
    <3>2. a[i] = e /\ i - 1 = n
      BY <2>1, <1>2, <1>3
    <3> HIDE DEF n
    <3> QED
      BY <3>1, <3>2, <1>1 DEF NodeOK
  <2>2. CASE i # n + 1
    <3>1. i \in 1..n
      BY <2>2, <1>2
    <3> QED
      BY <3>1, <1>2, <1>3 DEF NodesOK, NodeOK
  <2> QED
    BY <2>1, <2>2
<1>7. NodesOK(a)
  BY <1>3, <1>5, <1>6 DEF NodesOK, a
<1> QED
  BY <1>2, <1>3, <1>7 DEF a, e
-----------------------------------------------------------------------------
(* The inductive invariant. *)

IInv ==
    /\ NodesOK(nodes)
    /\ term \in Seq(1..Len(nodes))
    /\ status \in {"idle", "decoding", "done", "err"}
    /\ status = "idle" => term = <<>>
    /\ status = "decoding" => Pending(non_term, Len(term))

LEMMA HaltOK ==
    ASSUME IInv, NEW how \in {"done", "err"}, Halt(how)
    PROVE  IInv'
  BY DEF IInv, Halt

LEMMA TopPops ==
    ASSUME IInv, status = "decoding", non_term # <<>>
    PROVE  \E q \in Nat : /\ q >= 1
                          /\ Pending(Below, q)
                          /\ Len(term) = q - 1 + Pops(Top)
                          /\ Pops(Top) \in Nat
  BY PendingPop DEF IInv, Below, Top

LEMMA ShiftOK ==
    ASSUME IInv, status = "decoding", NEW n, NEW push, Shift(n, push),
           Pending(Below \o push, Len(term))
    PROVE  IInv'
  BY DEF IInv, Shift

(* A reduction: the new node is well formed, so its type is sane, and the   *)
(* height of the stack is what the non-terminals left expect.               *)
LEMMA ReduceOK ==
    ASSUME IInv, status = "decoding",
           NEW n, NEW pops \in Nat, NEW subs \in Seq(1..pops),
           NEW frag \in Frags, NEW k \in Nat, NEW args, NEW push,
           pops <= Len(term),
           frag \in WrapFrags \cup InscribeFrags => Len(subs) = 1,
           frag \in BinaryFrags => Len(subs) = 2,
           frag = "AndOr" => Len(subs) = 3,
           frag = "Thresh" => k \in 1..Len(subs),
           Pending(Below \o push, Len(term) - pops + 1),
           Reduce(n, pops, subs, Terminal(frag, <<>>, k, args), push)
    PROVE  IInv'
<1> DEFINE below == SubSeq(term, 1, Len(term) - pops)
           us == [i \in DOMAIN subs |-> term[Len(term) + 1 - subs[i]]]
           u == [Terminal(frag, <<>>, k, args) EXCEPT !.subs = us]
<1>1. u.frag = frag /\ u.subs = us /\ u.k = k /\ u.args = args
  BY DEF Terminal
<1>2. us \in Seq(1..Len(nodes)) /\ Len(us) = Len(subs)
  <2>1. /\ Len(term) \in Nat
        /\ \A j \in 1..Len(term) : term[j] \in 1..Len(nodes)
    BY DEF IInv
  <2>2. \A i \in DOMAIN subs : subs[i] \in 1..pops
    OBVIOUS
  <2>3. \A i \in DOMAIN subs : Len(term) + 1 - subs[i] \in 1..Len(term)
    BY <2>1, <2>2
  <2>4. DOMAIN subs = 1..Len(subs) /\ Len(subs) \in Nat
    OBVIOUS
  <2>5. \A i \in 1..Len(subs) : us[i] \in 1..Len(nodes)
    BY <2>1, <2>3, <2>4
  <2> QED
    BY <2>4, <2>5
<1> HIDE DEF us
<1>3. WellFormed(nodes, u)
  BY <1>1, <1>2 DEF WellFormed
<1>4. ~(Len(term) < pops)
  BY DEF IInv
<1>5. \/ Halt("err")
      \/ /\ from_ast_ok(nodes, u)
         /\ non_term' = Below \o push
         /\ nodes' = Append(nodes, Annotate(nodes, u))
         /\ term' = Append(below, Len(nodes) + 1)
         /\ UNCHANGED <<script, status>>
  BY <1>4 DEF Reduce, us
<1> HIDE DEF u
<1>6. CASE Halt("err")
  BY <1>6, HaltOK
<1>7. CASE /\ from_ast_ok(nodes, u)
           /\ non_term' = Below \o push
           /\ nodes' = Append(nodes, Annotate(nodes, u))
           /\ term' = Append(below, Len(nodes) + 1)
           /\ UNCHANGED <<script, status>>
  <2>1. ty_of(nodes, u) \in Type /\ Sane(ty_of(nodes, u))
    BY <1>3, <1>7, TyOfSane DEF IInv, from_ast_ok
  <2>2. NodesOK(nodes') /\ Len(nodes') = Len(nodes) + 1 /\ Len(nodes) \in Nat
    BY <1>3, <1>7, <2>1, NodesAppend DEF IInv, WellFormed
  <2>3. below \in Seq(1..Len(nodes)) /\ Len(below) = Len(term) - pops
    BY DEF IInv
  <2>4. below \in Seq(1..(Len(nodes) + 1))
    BY <2>2, <2>3
  <2>5. term' \in Seq(1..Len(nodes')) /\ Len(term') = Len(term) - pops + 1
    BY <1>7, <2>2, <2>3, <2>4
  <2> QED
    BY <1>7, <2>2, <2>5 DEF IInv
<1> QED
  BY <1>5, <1>6, <1>7
(* The reductions with one and with two operands. *)
LEMMA Reduce1OK ==
    ASSUME IInv, status = "decoding", non_term # <<>>, Pops(Top) = 1,
           NEW n, NEW frag \in WrapFrags \cup InscribeFrags, NEW args,
           reduce1(n, frag, args)
    PROVE  IInv'
<1>1. PICK q \in Nat : q >= 1 /\ Pending(Below, q) /\ Len(term) = q - 1 + Pops(Top)
  BY TopPops
<1>2. Below \o <<>> = Below
  BY <1>1 DEF Pending, IsSeq
<1>3. Pending(Below \o <<>>, Len(term) - 1 + 1) /\ 1 <= Len(term)
  BY <1>1, <1>2
<1>4. frag \in Frags /\ frag \notin BinaryFrags /\ frag \notin {"AndOr", "Thresh"}
  BY DEF Frags, WrapFrags, InscribeFrags, BinaryFrags
<1>5. <<1>> \in Seq(1..1) /\ Len(<<1>>) = 1
  OBVIOUS
<1>6. Reduce(n, 1, <<1>>, Terminal(frag, <<>>, 0, args), <<>>)
  BY DEF reduce1
<1> QED
  BY <1>3, <1>4, <1>5, <1>6, ReduceOK

LEMMA Reduce2OK ==
    ASSUME IInv, status = "decoding", non_term # <<>>, Pops(Top) = 2,
           NEW n, NEW frag \in BinaryFrags, reduce2(n, frag)
    PROVE  IInv'
<1>1. PICK q \in Nat : q >= 1 /\ Pending(Below, q) /\ Len(term) = q - 1 + Pops(Top)
  BY TopPops
<1>2. Below \o <<>> = Below
  BY <1>1 DEF Pending, IsSeq
<1>3. Pending(Below \o <<>>, Len(term) - 2 + 1) /\ 2 <= Len(term)
  BY <1>1, <1>2
<1>4. /\ frag \in Frags /\ frag \notin WrapFrags \cup InscribeFrags
      /\ frag \notin {"AndOr", "Thresh"}
  BY DEF Frags, WrapFrags, InscribeFrags, BinaryFrags
<1>5. <<1, 2>> \in Seq(1..2) /\ Len(<<1, 2>>) = 2
  OBVIOUS
<1>6. Reduce(n, 2, <<1, 2>>, Terminal(frag, <<>>, 0, <<>>), <<>>)
  BY DEF reduce2
<1> QED
  BY <1>3, <1>4, <1>5, <1>6, ReduceOK

\* What the non-terminals pop.
LEMMA PopsValues ==
    /\ \A x \in {"Expression", "WExpression"} : Pops(NT(x)) = 0
    /\ \A x \in {"InscribePre", "MaybeAndV", "EndIf", "EndIfNotIf", "Swap", "Alt",
                 "Check", "DupIf", "Verify", "NonZero", "ZeroNotEqual"} : Pops(NT(x)) = 1
    /\ \A x \in {"AndV", "EndIfElse", "AndB", "OrB", "OrC", "OrD"} : Pops(NT(x)) = 2
    /\ Pops(NT("Tern")) = 3
    /\ \A i : Pops(<<"InscribePost", i>>) = 1
    /\ \A k, n : Pops(<<"ThreshW", k, n>>) = n /\ Pops(<<"ThreshE", k, n>>) = n
  BY DEF Pops, NT

-----------------------------------------------------------------------------
(* One lemma per action. *)

LEMMA WExpressionOK == IInv /\ WExpression => IInv'
<1> SUFFICES ASSUME IInv, WExpression
             PROVE  IInv'
  OBVIOUS
<1>1. status = "decoding" /\ non_term # <<>> /\ Pops(Top) = 0
  BY DEF WExpression, At, Pops
<1>2. PICK q \in Nat : q >= 1 /\ Pending(Below, q) /\ Len(term) = q - 1
  BY <1>1, TopPops
<1>3. Pending(Below \o <<NT("InscribePre"), <<"InscribePost", Inscriptions>>,
                         NT("WExpression")>>, Len(term))
  <2> DEFINE x == NT("InscribePre")
             y == <<"InscribePost", Inscriptions>>
             z == NT("WExpression")
  <2>1. Pops(x) = 1 /\ Pops(y) = 1 /\ Pops(z) = 0
    BY PopsValues
  <2> HIDE DEF x, y, z
  <2>2. Pending(Below \o <<x, y, z>>, Len(term))
    BY <1>2, <2>1, PendingThree
  <2> QED
    BY <2>2 DEF x, y, z
<1>4. \A w \in {NT("Alt"), NT("Swap")} :
        Pending(Below \o <<NT("InscribePre"), w, NT("MaybeAndV"), NT("Expression")>>,
                Len(term))
  <2> SUFFICES ASSUME NEW w \in {NT("Alt"), NT("Swap")}
               PROVE  Pending(Below \o <<NT("InscribePre"), w, NT("MaybeAndV"),
                                         NT("Expression")>>, Len(term))
    OBVIOUS
  <2> DEFINE x == NT("InscribePre")
             y == NT("MaybeAndV")
             z == NT("Expression")
  <2>1. Pops(x) = 1 /\ Pops(w) = 1 /\ Pops(y) = 1 /\ Pops(z) = 0
    BY PopsValues
  <2> HIDE DEF x, y, z
  <2>2. Pending(Below \o <<x, w, y, z>>, Len(term))
    BY <1>2, <2>1, PendingFour
  <2> QED
    BY <2>2 DEF x, y, z
<1>5. \/ Halt("err")
      \/ \E n : Shift(n, <<NT("InscribePre"), <<"InscribePost", Inscriptions>>,
                           NT("WExpression")>>)
      \/ \E n : Shift(n, <<NT("InscribePre"), NT("Alt"), NT("MaybeAndV"),
                           NT("Expression")>>)
      \/ \E n : Shift(n, <<NT("InscribePre"), NT("Swap"), NT("MaybeAndV"),
                           NT("Expression")>>)
  BY DEF WExpression
<1> QED
  BY <1>1, <1>3, <1>4, <1>5, HaltOK, ShiftOK

LEMMA InscribePreOK == IInv /\ InscribePre => IInv'
<1> SUFFICES ASSUME IInv, InscribePre
             PROVE  IInv'
  OBVIOUS
<1>1. status = "decoding" /\ non_term # <<>> /\ Pops(Top) = 1
  BY DEF InscribePre, At, Pops
<1>2. PICK q \in Nat : q >= 1 /\ Pending(Below, q) /\ Len(term) = q
  BY <1>1, TopPops
<1>3. Pending(Below \o <<>>, Len(term))
  BY <1>2 DEF Pending, IsSeq
<1>4. \/ Halt("err")
      \/ Shift(0, <<>>)
      \/ reduce1(InscriptionRun, "InscribePre", Inscriptions)
  BY DEF InscribePre
<1>5. "InscribePre" \in WrapFrags \cup InscribeFrags
  BY DEF InscribeFrags
<1> QED
  BY <1>1, <1>3, <1>4, <1>5, HaltOK, ShiftOK, Reduce1OK

LEMMA InscribePostOK == IInv /\ InscribePost => IInv'
<1> SUFFICES ASSUME IInv, InscribePost
             PROVE  IInv'
  OBVIOUS
<1>1. status = "decoding" /\ non_term # <<>> /\ Pops(Top) = 1
  BY DEF InscribePost, At, Pops
<1> QED
  BY <1>1, Reduce1OK DEF InscribePost, InscribeFrags
(* What ExpressionMatches finds: a leaf, or non-terminals that are worth one *)
(* expression.                                                              *)
Forward(p) ==
    \/ \E w \in {"Verify", "Check", "ZeroNotEqual"} : p = <<NT(w), NT("Expression")>>
    \/ \E w \in {"AndB", "OrB"} : p = <<NT(w), NT("Expression"), NT("WExpression")>>
    \/ p = <<NT("EndIf"), NT("MaybeAndV"), NT("Expression")>>
    \/ \E i : p = <<<<"InscribePost", i>>, NT("Expression")>>
    \/ \E k : p = <<<<"ThreshW", k, 0>>>>
    \/ \E k : p = <<NT("Verify"), <<"ThreshW", k, 0>>>>

IsLeaf(m) ==
    /\ \E frag \in LeafFrags : \E k, args : m.leaf = <<Terminal(frag, <<>>, k, args)>>
    /\ m.push = <<>> \/ m.push = <<NT("Verify")>>

Matched(m) == (m.leaf = <<>> /\ Forward(m.push)) \/ IsLeaf(m)

LEMMA MatchLeafOK ==
    ASSUME NEW ok, NEW n, NEW push, NEW frag \in LeafFrags, NEW k, NEW args,
           push = <<>> \/ push = <<NT("Verify")>>
    PROVE  \A m \in Match(ok, n, push, Leaf(frag, k, args)) : Matched(m)
<1>1. \A m \in Match(ok, n, push, Leaf(frag, k, args)) :
          m.push = push /\ m.leaf = <<Terminal(frag, <<>>, k, args)>>
  BY DEF Match, Leaf
<1> QED
  BY <1>1, Zenon DEF Matched, IsLeaf

LEMMA MatchForwardOK ==
    ASSUME NEW ok, NEW n, NEW push, Forward(push)
    PROVE  \A m \in Match(ok, n, push, <<>>) : Matched(m)
<1>1. \A m \in Match(ok, n, push, <<>>) : m.push = push /\ m.leaf = <<>>
  BY DEF Match
<1> QED
  BY <1>1 DEF Matched

LEMMA MatchesOK == \A m \in ExpressionMatches : Matched(m)
<1> USE DEF LeafFrags
<1>1. \A m \in MatchKey : Matched(m)
  BY MatchLeafOK DEF MatchKey
<1>2. \A m \in MatchTxTemplate : Matched(m)
  BY MatchLeafOK DEF MatchTxTemplate
<1>3. \A m \in MatchTimelock : Matched(m)
  BY MatchLeafOK DEF MatchTimelock
<1>4. \A m \in MatchConst : Matched(m)
  BY MatchLeafOK DEF MatchConst
<1>5. \A m \in MatchMulti : Matched(m)
  BY MatchLeafOK DEF MatchMulti
<1>6. \A m \in MatchMultiA : Matched(m)
  BY MatchLeafOK DEF MatchMultiA
<1>7. \A m \in MatchSuffix : Matched(m)
  BY DEF MatchSuffix, Match, Matched, Forward
<1>8. \A m \in MatchInscription : Matched(m)
  <2>1. Forward(<<<<"InscribePost", Inscriptions>>, NT("Expression")>>)
    BY DEF Forward
  <2> QED
    BY <2>1, MatchForwardOK DEF MatchInscription
<1>9. ASSUME NEW v \in BOOLEAN
      PROVE  \A m \in MatchHash(v) : Matched(m)
  <2>1. ASSUME NEW f \in HashFrags, NEW ok, NEW n, NEW a
        PROVE  \A m \in Match(ok, n, IF v THEN <<NT("Verify")>> ELSE <<>>,
                              Leaf(f, 0, a)) : Matched(m)
    BY MatchLeafOK
  <2> QED
    BY <2>1 DEF MatchHash
<1>10. ASSUME NEW v \in BOOLEAN
       PROVE  \A m \in MatchThresh(v) : Matched(m)
  <2>1. ASSUME NEW k
        PROVE  Forward((IF v THEN <<NT("Verify")>> ELSE <<>>) \o <<<<"ThreshW", k, 0>>>>)
    <3> DEFINE x == NT("Verify")
               y == <<"ThreshW", k, 0>>
               S == {x, y}
    <3>1. x \in S /\ y \in S
      OBVIOUS
    <3> HIDE DEF x, y, S
    <3>2. <<x>> \o <<y>> = <<x, y>> /\ <<>> \o <<y>> = <<y>>
      BY <3>1, TupleCat
    <3>3. Forward(<<x, y>>) /\ Forward(<<y>>)
      BY DEF Forward, x, y
    <3>4. Forward((IF v THEN <<x>> ELSE <<>>) \o <<y>>)
      BY <3>2, <3>3
    <3> QED
      BY <3>4 DEF x, y
  <2> QED
    BY <2>1, MatchForwardOK DEF MatchThresh
<1>11. \A m \in MatchVerify : Matched(m)
  <2>1. \A m \in Match(Kind(2) # "none", 1, <<NT("Verify"), NT("Expression")>>, <<>>) :
            Matched(m)
    <3>1. Forward(<<NT("Verify"), NT("Expression")>>)
      BY DEF Forward
    <3> QED
      BY <3>1, MatchForwardOK
  <2>2. \A m \in Match(Reads(3, <<"Hash20", "Hash160", "Dup">>), 5, <<>>,
                       Leaf("RawPkH", 0, <<Arg(3)>>)) : Matched(m)
    BY MatchLeafOK
  <2> QED
    BY <1>9, <1>10, <2>1, <2>2 DEF MatchVerify
<1> QED
  BY <1>1, <1>2, <1>3, <1>4, <1>5, <1>6, <1>7, <1>8, <1>9, <1>10, <1>11
     DEF ExpressionMatches

(* The non-terminals pushed for an expression keep the balance. *)
LEMMA ForwardPending ==
    ASSUME NEW b, NEW q \in Nat, q >= 1, Pending(b, q), NEW p, Forward(p)
    PROVE  Pending(b \o (<<NT("InscribePre")>> \o p), q - 1)
<1> DEFINE i == NT("InscribePre")
<1>0. Pops(i) = 1 /\ Pops(NT("Expression")) = 0
  BY PopsValues
<1> HIDE DEF i
<1>1. ASSUME NEW x, NEW y, Pops(x) = 1, Pops(y) = 0, p = <<x, y>>
      PROVE  Pending(b \o (<<i>> \o p), q - 1)
  <2>1. <<i>> \o p = <<i, x, y>>
    <3> DEFINE S == {i, x, y}
    <3>1. i \in S /\ x \in S /\ y \in S
      OBVIOUS
    <3> HIDE DEF S
    <3> QED
      BY <1>1, <3>1, TupleCat
  <2>2. Pending(b \o <<i, x, y>>, q - 1)
    BY <1>0, <1>1, PendingThree
  <2> QED
    BY <2>1, <2>2
<1>2. ASSUME NEW x, NEW y, NEW z, p = <<x, y, z>>, Pops(z) = 0,
             \/ Pops(x) = 1 /\ Pops(y) = 1
             \/ Pops(x) = 2 /\ Pops(y) = 0
      PROVE  Pending(b \o (<<i>> \o p), q - 1)
  <2>1. <<i>> \o p = <<i, x, y, z>>
    <3> DEFINE S == {i, x, y, z}
    <3>1. i \in S /\ x \in S /\ y \in S /\ z \in S
      OBVIOUS
    <3> HIDE DEF S
    <3>2. <<i>> \o <<x, y, z>> = <<i, x, y, z>>
      BY <3>1, TupleCatThree
    <3>3. p = <<x, y, z>>
      BY <1>2
    <3> QED
      BY <3>2, <3>3
  <2>2. Pending(b \o <<i, x, y, z>>, q - 1)
    BY <1>0, <1>2, PendingFour
  <2> QED
    BY <2>1, <2>2
<1>3. ASSUME NEW x, Pops(x) = 0, p = <<x>>
      PROVE  Pending(b \o (<<i>> \o p), q - 1)
  <2>1. <<i>> \o p = <<i, x>>
    <3> DEFINE S == {i, x}
    <3>1. i \in S /\ x \in S
      OBVIOUS
    <3> HIDE DEF S
    <3> QED
      BY <1>3, <3>1, TupleCat
  <2>2. Pending(b \o <<i, x>>, q - 1)
    BY <1>0, <1>3, PendingTwo
  <2> QED
    BY <2>1, <2>2
<1>4. Pending(b \o (<<i>> \o p), q - 1)
  <2>1. CASE \E w \in {"Verify", "Check", "ZeroNotEqual"} : p = <<NT(w), NT("Expression")>>
    BY <1>1, <2>1, PopsValues
  <2>2. CASE \E w \in {"AndB", "OrB"} : p = <<NT(w), NT("Expression"), NT("WExpression")>>
    BY <1>2, <2>2, PopsValues
  <2>3. CASE p = <<NT("EndIf"), NT("MaybeAndV"), NT("Expression")>>
    BY <1>2, <2>3, PopsValues
  <2>4. CASE \E j : p = <<<<"InscribePost", j>>, NT("Expression")>>
    BY <1>1, <2>4, PopsValues
  <2>5. CASE \E k : p = <<<<"ThreshW", k, 0>>>>
    BY <1>3, <2>5, PopsValues
  <2>6. CASE \E k : p = <<NT("Verify"), <<"ThreshW", k, 0>>>>
    BY <1>1, <2>6, PopsValues
  <2> QED
    BY <2>1, <2>2, <2>3, <2>4, <2>5, <2>6 DEF Forward
<1> QED
  BY <1>4 DEF i
(* A leaf has a sane type whatever its arguments. *)
LEMMA LeafNode ==
    ASSUME NEW ns, NEW t, t.frag \in LeafFrags
    PROVE  ty_of(ns, t) \in Type /\ Sane(ty_of(ns, t))
<1>1. ty_of(ns, t) = leaf_type(t.frag)
  BY DEF ty_of, type_check, LeafFrags, HashFrags, WrapFrags, InscribeFrags, BinaryFrags
<1> QED
  BY <1>1, LeafSane

LEMMA PushLeafOK ==
    ASSUME IInv, status = "decoding", non_term # <<>>, Pops(Top) = 0,
           NEW m, IsLeaf(m), PushLeaf(m, m.leaf[1])
    PROVE  IInv'
<1>0. PICK frag \in LeafFrags : \E k, args : m.leaf = <<Terminal(frag, <<>>, k, args)>>
  BY DEF IsLeaf
<1>1. PICK k, args : m.leaf = <<Terminal(frag, <<>>, k, args)>>
  BY <1>0
<1> DEFINE t == Terminal(frag, <<>>, k, args)
<1>2. m.leaf[1] = t /\ t.frag = frag /\ t.subs = <<>>
  BY <1>1 DEF Terminal
<1> HIDE DEF t
<1>3. PICK q \in Nat : q >= 1 /\ Pending(Below, q) /\ Len(term) = q - 1
  BY TopPops
<1>4. Pending(Below \o <<NT("InscribePre")>> \o m.push, Len(term) + 1)
  <2> DEFINE i == NT("InscribePre")
             v == NT("Verify")
             b == Below \o <<i>>
  <2>1. Pops(i) = 1 /\ Pops(v) = 1
    BY PopsValues
  <2> HIDE DEF i, v
  <2>2. Pending(b, q)
    BY <1>3, <2>1, PendingOne
  <2> HIDE DEF b
  <2>3. Pending(b \o <<v>>, q)
    BY <1>3, <2>1, <2>2, PendingOne
  <2>4. Pending(b \o <<>>, q)
    BY <2>2 DEF Pending, IsSeq
  <2>5. m.push = <<>> \/ m.push = <<v>>
    BY DEF IsLeaf, v
  <2>6. Pending(b \o m.push, q)
    BY <2>3, <2>4, <2>5
  <2> QED
    BY <1>3, <2>6 DEF b, i
<1>5. ty_of(nodes, t) \in Type /\ Sane(ty_of(nodes, t))
  BY <1>2, LeafNode
<1>6. \/ Halt("err")
      \/ /\ non_term' = Below \o <<NT("InscribePre")>> \o m.push
         /\ nodes' = Append(nodes, Annotate(nodes, t))
         /\ term' = Append(term, Len(nodes) + 1)
         /\ UNCHANGED <<script, status>>
  BY <1>2 DEF PushLeaf
<1>7. CASE Halt("err")
  BY <1>7, HaltOK
<1>8. CASE /\ non_term' = Below \o <<NT("InscribePre")>> \o m.push
           /\ nodes' = Append(nodes, Annotate(nodes, t))
           /\ term' = Append(term, Len(nodes) + 1)
           /\ UNCHANGED <<script, status>>
  <2>1. t.frag \in Frags /\ t.subs \in Seq(1..Len(nodes))
    BY <1>2 DEF Frags
  <2>2. NodesOK(nodes') /\ Len(nodes') = Len(nodes) + 1 /\ Len(nodes) \in Nat
    BY <1>5, <1>8, <2>1, NodesAppend DEF IInv
  <2>3. term \in Seq(1..(Len(nodes) + 1))
    BY <2>2 DEF IInv
  <2>4. term' \in Seq(1..Len(nodes')) /\ Len(term') = Len(term) + 1
    BY <1>8, <2>2, <2>3
  <2> QED
    BY <1>4, <1>8, <2>2, <2>4 DEF IInv
<1> QED
  BY <1>6, <1>7, <1>8

LEMMA ExpressionOK == IInv /\ Expression => IInv'
<1> SUFFICES ASSUME IInv, Expression
             PROVE  IInv'
  OBVIOUS
<1>1. status = "decoding" /\ non_term # <<>> /\ Pops(Top) = 0
  BY DEF Expression, At, Pops
<1>2. CASE Halt("err")
  BY <1>2, HaltOK
<1>3. ASSUME NEW m \in ExpressionMatches,
             IF m.leaf = <<>> THEN Shift(m.n, <<NT("InscribePre")>> \o m.push)
             ELSE PushLeaf(m, m.leaf[1])
      PROVE  IInv'
  <2>1. Matched(m)
    BY MatchesOK
  <2>2. CASE m.leaf = <<>> /\ Forward(m.push)
    <3>1. PICK q \in Nat : q >= 1 /\ Pending(Below, q) /\ Len(term) = q - 1
      BY <1>1, TopPops
    <3>2. Pending(Below \o (<<NT("InscribePre")>> \o m.push), Len(term))
      BY <2>2, <3>1, ForwardPending
    <3>3. Shift(m.n, <<NT("InscribePre")>> \o m.push)
      BY <1>3, <2>2
    <3> QED
      BY <1>1, <3>2, <3>3, ShiftOK
  <2>3. CASE IsLeaf(m)
    <3>1. m.leaf # <<>>
      BY <2>3 DEF IsLeaf
    <3> QED
      BY <1>1, <1>3, <2>3, <3>1, PushLeafOK
  <2> QED
    BY <2>1, <2>2, <2>3 DEF Matched
<1>4. \/ Halt("err")
      \/ \E m \in ExpressionMatches :
            IF m.leaf = <<>> THEN Shift(m.n, <<NT("InscribePre")>> \o m.push)
            ELSE PushLeaf(m, m.leaf[1])
  BY DEF Expression
<1> QED
  BY <1>2, <1>3, <1>4
LEMMA MaybeAndVOK == IInv /\ MaybeAndV => IInv'
<1> SUFFICES ASSUME IInv, MaybeAndV
             PROVE  IInv'
  OBVIOUS
<1>1. status = "decoding" /\ non_term # <<>> /\ Pops(Top) = 1
  BY DEF MaybeAndV, At, Pops
<1>2. PICK q \in Nat : q >= 1 /\ Pending(Below, q) /\ Len(term) = q
  BY <1>1, TopPops
<1>3. Pending(Below \o <<>>, Len(term))
  BY <1>2 DEF Pending, IsSeq
<1>4. Pending(Below \o <<NT("AndV"), NT("Expression")>>, Len(term))
  <2> DEFINE x == NT("AndV")
             y == NT("Expression")
  <2>1. Pops(x) = 2 /\ Pops(y) = 0
    BY PopsValues
  <2> HIDE DEF x, y
  <2>2. Pending(Below \o <<x, y>>, Len(term))
    BY <1>2, <2>1, PendingTwo
  <2> QED
    BY <2>2 DEF x, y
<1>5. Shift(0, <<>>) \/ Shift(0, <<NT("AndV"), NT("Expression")>>)
  BY DEF MaybeAndV
<1> QED
  BY <1>1, <1>3, <1>4, <1>5, ShiftOK

LEMMA AndVOK == IInv /\ AndV => IInv'
<1> SUFFICES ASSUME IInv, AndV
             PROVE  IInv'
  OBVIOUS
<1>1. status = "decoding" /\ non_term # <<>> /\ Pops(Top) = 2
  BY DEF AndV, At, Pops
<1>2. PICK q \in Nat : q >= 1 /\ Pending(Below, q) /\ Len(term) = q + 1
  BY <1>1, TopPops
<1>3. Pending(Below \o <<NT("AndV"), NT("MaybeAndV")>>, Len(term))
  <2> DEFINE x == NT("AndV")
             y == NT("MaybeAndV")
  <2>1. Pops(x) = 2 /\ Pops(y) = 1
    BY PopsValues
  <2> HIDE DEF x, y
  <2>2. Pending(Below \o <<x, y>>, Len(term))
    BY <1>2, <2>1, PendingTwo
  <2> QED
    BY <2>2 DEF x, y
<1>4. Shift(0, <<NT("AndV"), NT("MaybeAndV")>>) \/ reduce2(0, "AndV")
  BY DEF AndV
<1>5. "AndV" \in BinaryFrags
  BY DEF BinaryFrags
<1> QED
  BY <1>1, <1>3, <1>4, <1>5, ShiftOK, Reduce2OK

LEMMA WrappersOK == IInv /\ (Swap \/ Alt \/ Wrapper) => IInv'
<1> SUFFICES ASSUME IInv, Swap \/ Alt \/ Wrapper
             PROVE  IInv'
  OBVIOUS
<1>1. status = "decoding" /\ non_term # <<>> /\ Pops(Top) = 1
  BY DEF Swap, Alt, Wrapper, At, Pops
<1>2. \/ Halt("err")
      \/ \E n, w : w \in WrapFrags /\ reduce1(n, w, <<>>)
  BY DEF Swap, Alt, Wrapper, WrapFrags
<1> QED
  BY <1>1, <1>2, HaltOK, Reduce1OK

LEMMA BinaryOK == IInv /\ Binary => IInv'
<1> SUFFICES ASSUME IInv, Binary
             PROVE  IInv'
  OBVIOUS
<1>1. PICK w \in {"AndB", "OrB", "OrC", "OrD"} : At(w) /\ reduce2(0, w)
  BY DEF Binary
<1>2. status = "decoding" /\ non_term # <<>> /\ Pops(Top) = 2
  BY <1>1 DEF At, Pops
<1>3. w \in BinaryFrags
  BY DEF BinaryFrags
<1> QED
  BY <1>1, <1>2, <1>3, Reduce2OK

LEMMA TernOK == IInv /\ Tern => IInv'
<1> SUFFICES ASSUME IInv, Tern
             PROVE  IInv'
  OBVIOUS
<1>1. status = "decoding" /\ non_term # <<>> /\ Pops(Top) = 3
  BY DEF Tern, At, Pops
<1>2. PICK q \in Nat : q >= 1 /\ Pending(Below, q) /\ Len(term) = q + 2
  BY <1>1, TopPops
<1>3. Below \o <<>> = Below
  BY <1>2 DEF Pending, IsSeq
<1>4. Pending(Below \o <<>>, Len(term) - 3 + 1) /\ 3 <= Len(term)
  BY <1>2, <1>3
<1>5. /\ "AndOr" \in Frags /\ "AndOr" # "Thresh"
      /\ "AndOr" \notin WrapFrags \cup InscribeFrags \cup BinaryFrags
  BY DEF Frags, WrapFrags, InscribeFrags, BinaryFrags
<1>6. <<1, 3, 2>> \in Seq(1..3) /\ Len(<<1, 3, 2>>) = 3
  OBVIOUS
<1>7. Reduce(0, 3, <<1, 3, 2>>, Terminal("AndOr", <<>>, 0, <<>>), <<>>)
  BY DEF Tern
<1> QED
  BY <1>1, <1>4, <1>5, <1>6, <1>7, ReduceOK

LEMMA ThreshWOK == IInv /\ ThreshW => IInv'
<1> SUFFICES ASSUME IInv, ThreshW
             PROVE  IInv'
  OBVIOUS
<1>1. status = "decoding" /\ non_term # <<>> /\ Pops(Top) = Top[3]
  BY DEF ThreshW, At, Pops
<1>2. PICK q \in Nat : /\ q >= 1 /\ Pending(Below, q) /\ Len(term) = q - 1 + Top[3]
                       /\ Top[3] \in Nat
  BY <1>1, TopPops
<1>3. ASSUME NEW x, NEW y, Pops(x) = Top[3] + 1, Pops(y) = 0
      PROVE  Pending(Below \o <<x, y>>, Len(term))
  BY <1>2, <1>3, PendingTwo
<1>4. Pending(Below \o <<<<"ThreshW", Top[2], Top[3] + 1>>, NT("WExpression")>>, Len(term))
  BY <1>3, PopsValues
<1>5. Pending(Below \o <<<<"ThreshE", Top[2], Top[3] + 1>>, NT("Expression")>>, Len(term))
  BY <1>3, PopsValues
<1>6. \/ Halt("err")
      \/ Shift(1, <<<<"ThreshW", Top[2], Top[3] + 1>>, NT("WExpression")>>)
      \/ Shift(0, <<<<"ThreshE", Top[2], Top[3] + 1>>, NT("Expression")>>)
  BY DEF ThreshW
<1> QED
  BY <1>1, <1>4, <1>5, <1>6, HaltOK, ShiftOK

LEMMA ThreshEOK == IInv /\ ThreshE => IInv'
<1> SUFFICES ASSUME IInv, ThreshE
             PROVE  IInv'
  OBVIOUS
<1>1. status = "decoding" /\ non_term # <<>> /\ Pops(Top) = Top[3]
  BY DEF ThreshE, At, Pops
<1>2. PICK q \in Nat : /\ q >= 1 /\ Pending(Below, q) /\ Len(term) = q - 1 + Top[3]
                       /\ Top[3] \in Nat
  BY <1>1, TopPops
<1> DEFINE n == Top[3]
           k == Top[2]
           subs == [i \in 1..n |-> i]
<1>3. \/ Halt("err")
      \/ /\ validate_k_n(k, n, 0)
         /\ Reduce(0, n, subs, Terminal("Thresh", <<>>, k, <<>>), <<>>)
  BY <1>2 DEF ThreshE
<1> HIDE DEF n, k
<1>4. n \in Nat /\ Len(term) = q - 1 + n
  BY <1>2 DEF n
<1>5. subs \in Seq(1..n) /\ Len(subs) = n
  BY <1>4
<1>6. Below \o <<>> = Below
  BY <1>2 DEF Pending, IsSeq
<1>7. Len(term) - n + 1 = q /\ n <= Len(term)
  BY <1>2, <1>4
<1>8. Pending(Below \o <<>>, Len(term) - n + 1)
  BY <1>2, <1>6, <1>7
<1>9. /\ "Thresh" \in Frags /\ "Thresh" # "AndOr"
      /\ "Thresh" \notin WrapFrags \cup InscribeFrags \cup BinaryFrags
  BY DEF Frags, WrapFrags, InscribeFrags, BinaryFrags
<1>10. ASSUME validate_k_n(k, n, 0)
       PROVE  k \in Nat /\ k \in 1..Len(subs)
  BY <1>4, <1>5, <1>10 DEF validate_k_n
<1> HIDE DEF subs
<1> QED
  BY <1>1, <1>3, <1>4, <1>5, <1>7, <1>8, <1>9, <1>10, HaltOK, ReduceOK
LEMMA EndIfOK == IInv /\ EndIf => IInv'
<1> SUFFICES ASSUME IInv, EndIf
             PROVE  IInv'
  OBVIOUS
<1>1. status = "decoding" /\ non_term # <<>> /\ Pops(Top) = 1
  BY DEF EndIf, At, Pops
<1>2. PICK q \in Nat : q >= 1 /\ Pending(Below, q) /\ Len(term) = q
  BY <1>1, TopPops
<1>3. Pending(Below \o <<NT("EndIfElse"), NT("MaybeAndV"), NT("Expression")>>, Len(term))
  <2> DEFINE x == NT("EndIfElse")
             y == NT("MaybeAndV")
             z == NT("Expression")
  <2>1. Pops(x) = 2 /\ Pops(y) = 1 /\ Pops(z) = 0
    BY PopsValues
  <2> HIDE DEF x, y, z
  <2>2. Pending(Below \o <<x, y, z>>, Len(term))
    <3>0. /\ Pops(x) \in Nat /\ Pops(y) \in Nat /\ Pops(z) \in Nat
          /\ q - 1 + Pops(x) >= 1 /\ q - 2 + Pops(x) + Pops(y) >= 1
      BY <1>2, <2>1
    <3>1. Pending(Below \o <<x, y, z>>, q - 3 + Pops(x) + Pops(y) + Pops(z))
      BY <1>2, <3>0, PendingThree
    <3>2. q - 3 + Pops(x) + Pops(y) + Pops(z) = Len(term)
      BY <1>2, <2>1
    <3> QED
      BY <3>1, <3>2
  <2> QED
    BY <2>2 DEF x, y, z
<1>4. \A w \in {"DupIf", "NonZero", "EndIfNotIf"} : Pending(Below \o <<NT(w)>>, Len(term))
  BY <1>2, PopsValues, PendingOne
<1>5. \/ Halt("err")
      \/ Shift(1, <<NT("EndIfElse"), NT("MaybeAndV"), NT("Expression")>>)
      \/ \E n, w : w \in {"DupIf", "NonZero", "EndIfNotIf"} /\ Shift(n, <<NT(w)>>)
  BY DEF EndIf
<1> QED
  BY <1>1, <1>3, <1>4, <1>5, HaltOK, ShiftOK

LEMMA EndIfNotIfOK == IInv /\ EndIfNotIf => IInv'
<1> SUFFICES ASSUME IInv, EndIfNotIf
             PROVE  IInv'
  OBVIOUS
<1>1. status = "decoding" /\ non_term # <<>> /\ Pops(Top) = 1
  BY DEF EndIfNotIf, At, Pops
<1>2. PICK q \in Nat : q >= 1 /\ Pending(Below, q) /\ Len(term) = q
  BY <1>1, TopPops
<1>3. ASSUME NEW x, Pops(x) = 2
      PROVE  Pending(Below \o <<x, NT("Expression")>>, Len(term))
  <2> DEFINE y == NT("Expression")
  <2>1. Pops(y) = 0
    BY PopsValues
  <2> HIDE DEF y
  <2>2. Pending(Below \o <<x, y>>, Len(term))
    BY <1>2, <1>3, <2>1, PendingTwo
  <2> QED
    BY <2>2 DEF y
<1>4. \A w \in {"OrD", "OrC"} : Pending(Below \o <<NT(w), NT("Expression")>>, Len(term))
  BY <1>3, PopsValues
<1>5. \/ Halt("err")
      \/ \E n, w : w \in {"OrD", "OrC"} /\ Shift(n, <<NT(w), NT("Expression")>>)
  BY DEF EndIfNotIf
<1> QED
  BY <1>1, <1>4, <1>5, HaltOK, ShiftOK

LEMMA EndIfElseOK == IInv /\ EndIfElse => IInv'
<1> SUFFICES ASSUME IInv, EndIfElse
             PROVE  IInv'
  OBVIOUS
<1>1. status = "decoding" /\ non_term # <<>> /\ Pops(Top) = 2
  BY DEF EndIfElse, At, Pops
<1>2. PICK q \in Nat : q >= 1 /\ Pending(Below, q) /\ Len(term) = q + 1
  BY <1>1, TopPops
<1>3. Pending(Below \o <<NT("Tern"), NT("Expression")>>, Len(term))
  <2> DEFINE x == NT("Tern")
             y == NT("Expression")
  <2>1. Pops(x) = 3 /\ Pops(y) = 0
    BY PopsValues
  <2> HIDE DEF x, y
  <2>2. Pending(Below \o <<x, y>>, Len(term))
    BY <1>2, <2>1, PendingTwo
  <2> QED
    BY <2>2 DEF x, y
<1>4. Halt("err") \/ reduce2(1, "OrI") \/ Shift(1, <<NT("Tern"), NT("Expression")>>)
  BY DEF EndIfElse
<1>5. "OrI" \in BinaryFrags
  BY DEF BinaryFrags
<1> QED
  BY <1>1, <1>3, <1>4, <1>5, HaltOK, ShiftOK, Reduce2OK

(* When nothing is expected any more, exactly one expression is left. *)
LEMMA FinishOK == IInv /\ Finish => IInv'
<1> SUFFICES ASSUME IInv, Finish
             PROVE  IInv'
  OBVIOUS
<1>1. Pending(<<>>, Len(term))
  BY DEF IInv, Finish
<1>2. Len(term) = 1
  BY <1>1 DEF Pending, Balanced, Heights
<1>3. Halt("done") \/ Halt("err")
  BY <1>2 DEF Finish
<1> QED
  BY <1>3, HaltOK

LEMMA DecodeOK == ASSUME IInv, NEW s, decode(s) PROVE IInv'
<1>1. Pending(<<NT("MaybeAndV"), NT("Expression")>>, 0)
  <2>1. Pending(<<>>, 1)
    <3>1. Heights(<<>>, 1, [j \in 0..0 |-> 1])
      BY DEF Heights
    <3> QED
      BY <3>1 DEF Pending, Balanced, IsSeq
  <2> DEFINE x == NT("MaybeAndV")
             y == NT("Expression")
  <2>2. Pops(x) = 1 /\ Pops(y) = 0
    BY PopsValues
  <2> HIDE DEF x, y
  <2>3. PICK q \in Nat : q = 1
    OBVIOUS
  <2>4. /\ q >= 1 /\ Pops(x) \in Nat /\ Pops(y) \in Nat
        /\ q - 1 + Pops(x) >= 1 /\ q - 2 + Pops(x) + Pops(y) = 0
    BY <2>2, <2>3
  <2> DEFINE b == <<>>
  <2>5. Pending(b, q) /\ b \o <<x, y>> = <<x, y>>
    BY <2>1, <2>3
  <2> HIDE DEF b
  <2>6. Pending(b \o <<x, y>>, q - 2 + Pops(x) + Pops(y))
    BY <2>4, <2>5, PendingTwo
  <2> QED
    BY <2>4, <2>5, <2>6 DEF x, y
<1>2. term = <<>> /\ term' = <<>> /\ nodes' = nodes
  BY DEF IInv, decode
<1>3. Len(term') = 0
  BY <1>2
<1> QED
  BY <1>1, <1>2, <1>3 DEF IInv, decode

-----------------------------------------------------------------------------

LEMMA InitInv == Init => IInv
<1> SUFFICES ASSUME Init
             PROVE  IInv
  OBVIOUS
<1>1. NodesOK(nodes)
  BY DEF Init, NodesOK, IsSeq
<1> QED
  BY <1>1 DEF Init, IInv

LEMMA StepInv == IInv /\ [Next]_vars => IInv'
<1> SUFFICES ASSUME IInv, [Next]_vars
             PROVE  IInv'
  OBVIOUS
<1>1. CASE UNCHANGED vars
  BY <1>1 DEF IInv, vars
<1>2. CASE \E s \in Scripts : decode(s)
  BY <1>2, DecodeOK
<1>3. CASE Step
  BY <1>3, ExpressionOK, WExpressionOK, InscribePreOK, InscribePostOK, MaybeAndVOK,
     AndVOK, WrappersOK, BinaryOK, TernOK, ThreshWOK, ThreshEOK, EndIfOK,
     EndIfNotIfOK, EndIfElseOK, FinishOK DEF Step
<1> QED
  BY <1>1, <1>2, <1>3 DEF Next

(* The parser's stacks keep in step, whatever the scripts, the context and  *)
(* the limits.                                                              *)
THEOREM InductiveInvariant == Spec => []IInv
<1> QED
  BY InitInv, StepInv, PTL DEF Spec

(* Type correctness of the parser. *)
THEOREM TypeCorrect == Spec => []TypeOK
<1>1. IInv => TypeOK
  BY DEF IInv, TypeOK, NodesOK, NodeOK, IsSeq
<1> QED
  BY <1>1, InductiveInvariant, PTL

(* No script makes decode panic: TerminalStack::pop never finds its stack   *)
(* empty (decode.rs:336, 347, 641, 665), and one expression is left at the  *)
(* end (decode.rs:731).                                                     *)
THEOREM DecodeNeverPanics == Spec => []NoPanic
<1>1. IInv => NoPanic
  BY DEF IInv, NoPanic
<1> QED
  BY <1>1, InductiveInvariant, PTL

(* The debug assertions about types hold of every expression that decode    *)
(* builds.                                                                  *)
THEOREM DecodedTypesSane == Spec => []SanityChecks
<1>1. IInv => SanityChecks
  BY DEF IInv, SanityChecks, NodesOK, NodeOK, Sane
<1> QED
  BY <1>1, InductiveInvariant, PTL

-----------------------------------------------------------------------------
(* ConcatAll: what it returns is the last of a list of partial results. *)

LEMMA CatArrayIs ==
    ASSUME NEW ss, IsSeq(ss), NEW W, CatArray(ss, W)
    PROVE  ConcatAll(ss) = W[Len(ss)]
<1>1. Cat(ss) = W[Len(ss)]
  BY CatIs
<1> QED  BY <1>1, Zenon DEF ConcatAll, Cat

LEMMA ConcatAllSeq ==
    ASSUME NEW ss, IsSeq(ss), \A i \in 1..Len(ss) : IsSeq(ss[i])
    PROVE  IsSeq(ConcatAll(ss))
<1>1. PICK W : CatArray(ss, W)
  BY CatArrayExists
<1>2. Len(ss) \in 0..Len(ss)
  BY SeqForm
<1> QED  BY <1>1, <1>2, CatArrayIs, CatArraySeqs

(* ConcatAll of two lists. *)
LEMMA ConcatAllCat ==
    ASSUME NEW a, NEW b, IsSeq(a), IsSeq(b),
           \A i \in 1..Len(a) : IsSeq(a[i]), \A i \in 1..Len(b) : IsSeq(b[i])
    PROVE  ConcatAll(a ++ b) = ConcatAll(a) ++ ConcatAll(b)
<1> DEFINE n == Len(a)
           k == Len(b)
<1>0. n \in Nat /\ k \in Nat
  BY SeqForm
<1>1. PICK A : CatArray(a, A)
  BY CatArrayExists
<1>2. PICK B : CatArray(b, B)
  BY CatArrayExists
<1> DEFINE W == [i \in 0..(n + k) |-> IF i <= n THEN A[i] ELSE A[n] ++ B[i - n]]
<1>3. IsSeq(a ++ b) /\ Len(a ++ b) = n + k
  BY CatElems, CatLaws DEF CatShape
<1>4. /\ \A i \in 0..n : IsSeq(A[i])
      /\ \A i \in 0..k : IsSeq(B[i])
  BY <1>1, <1>2, CatArraySeqs
<1>5. ASSUME NEW i \in 0..k  PROVE W[n + i] = A[n] ++ B[i]
  <2>1. CASE i = 0
    <3>1. B[0] = <<>> /\ A[n] ++ <<>> = A[n]
      BY <1>0, <1>2, <1>4, CatEmpty DEF CatArray
    <3> QED  BY <1>0, <2>1, <3>1
  <2>2. CASE i # 0
    <3>1. n + i \in 0..(n + k) /\ ~(n + i <= n) /\ (n + i) - n = i
      BY <1>0, <2>2
    <3> QED  BY <3>1
  <2> QED  BY <2>1, <2>2
<1>6. \A i \in 0..n : W[i] = A[i]
  BY <1>0
<1> HIDE DEF W
<1>7. ASSUME NEW i \in 1..(n + k)  PROVE W[i] = W[i - 1] ++ (a ++ b)[i]
  <2>1. CASE i <= n
    <3>1. i \in 1..n /\ i - 1 \in 0..n
      BY <1>0, <2>1
    <3>2. A[i] = A[i - 1] ++ a[i] /\ (a ++ b)[i] = a[i]
      BY <1>1, <3>1, CatElems DEF CatArray, CatShape
    <3>3. i \in 0..n
      BY <1>0, <3>1
    <3>4. W[i] = A[i] /\ W[i - 1] = A[i - 1]
      BY <1>6, <3>1, <3>3
    <3> QED  BY <3>2, <3>4, Zenon
  <2>2. CASE ~(i <= n)
    <3> DEFINE j == i - n
    <3>1. j \in 1..k /\ j - 1 \in 0..k /\ j \in 0..k /\ i = n + j /\ i - 1 = n + (j - 1)
      BY <1>0, <2>2
    <3> HIDE DEF j
    <3>2. W[i] = A[n] ++ B[j] /\ W[i - 1] = A[n] ++ B[j - 1]
      BY <1>5, <3>1
    <3>3. B[j] = B[j - 1] ++ b[j]
      BY <1>2, <3>1, Zenon DEF CatArray
    <3>6. (a ++ b)[i] = b[j]
      BY <3>1, CatElems DEF CatShape
    <3>4. IsSeq(A[n]) /\ IsSeq(B[j - 1]) /\ IsSeq(b[j])
      BY <1>0, <1>4, <3>1
    <3>5. (A[n] ++ B[j - 1]) ++ b[j] = A[n] ++ (B[j - 1] ++ b[j])
      BY <3>4, CatLaws
    <3> QED  BY <3>2, <3>3, <3>5, <3>6, Zenon
  <2> QED  BY <2>1, <2>2
<1>8. CatArray(a ++ b, W)
  <2>1. W = [i \in 0..(n + k) |-> W[i]]
    BY DEF W
  <2>2. W[0] = <<>>
    BY <1>0, <1>1, <1>6 DEF CatArray
  <2> QED  BY <1>3, <1>7, <2>1, <2>2 DEF CatArray
<1>9. ConcatAll(a ++ b) = W[n + k] /\ ConcatAll(a) = A[n] /\ ConcatAll(b) = B[k]
  BY <1>1, <1>2, <1>3, <1>8, CatArrayIs
<1>10. k \in 0..k
  BY <1>0
<1> QED  BY <1>5, <1>9, <1>10, Zenon

LEMMA ConcatAllOne ==
    ASSUME NEW s, IsSeq(s)
    PROVE  ConcatAll(<<s>>) = s
<1> DEFINE W == [i \in 0..1 |-> IF i = 0 THEN <<>> ELSE s]
<1>1. W[0] = <<>> /\ W[1] = s /\ W = [i \in 0..1 |-> W[i]]
  OBVIOUS
<1>2. IsSeq(<<s>>) /\ Len(<<s>>) = 1 /\ <<s>>[1] = s /\ <<>> ++ s = s
  BY ShortSeqs, CatLaws
<1> HIDE DEF W
<1>3. CatArray(<<s>>, W)
  <2>1. \A i \in 1..1 : i = 1 /\ i - 1 = 0
    OBVIOUS
  <2> QED  BY <1>1, <1>2, <2>1 DEF CatArray
<1> QED  BY <1>1, <1>2, <1>3, CatArrayIs

LEMMA ConcatAllNone == ConcatAll(<<>>) = <<>>
<1> DEFINE W == [i \in 0..0 |-> <<>>]
<1>1. CatArray(<<>>, W)
  BY ShortSeqs DEF CatArray
<1> QED  BY <1>1, ShortSeqs, CatArrayIs

(* Sequences of one element each. *)
LEMMA ConcatSingles ==
    ASSUME NEW s, IsSeq(s)
    PROVE  ConcatAll([i \in DOMAIN s |-> <<s[i]>>]) = s
<1> DEFINE n == Len(s)
           ss == [i \in DOMAIN s |-> <<s[i]>>]
           W == [k \in 0..n |-> [i \in 1..k |-> s[i]]]
<1>0. n \in Nat /\ DOMAIN s = 1..n /\ s = [i \in 1..n |-> s[i]]
  BY SeqForm
<1>1. IsSeq(ss) /\ Len(ss) = n /\ \A i \in 1..n : ss[i] = <<s[i]>>
  <2> DEFINE f == [i \in 1..n |-> <<s[i]>>]
  <2>1. ss = [i \in 1..n |-> f[i]]
    BY <1>0
  <2> HIDE DEF f, ss
  <2>2. IsSeq(ss) /\ Len(ss) = n /\ \A i \in 1..n : ss[i] = f[i]
    BY <1>0, <2>1, FnIsSeq
  <2> QED  BY <2>2 DEF f
<1>2. ASSUME NEW k \in 0..n
      PROVE  IsSeq(W[k]) /\ Len(W[k]) = k /\ \A i \in 1..k : W[k][i] = s[i]
  <2>1. W[k] = [i \in 1..k |-> s[i]] /\ k \in Nat
    BY <1>0
  <2> QED  BY <2>1, FnIsSeq
<1>3. W[0] = <<>> /\ W[n] = s /\ W = [k \in 0..n |-> W[k]]
  <2>1. 0 \in 0..n /\ n \in 0..n
    BY <1>0
  <2>2. W[n] = s
    BY <1>0, <2>1
  <2>3. IsSeq(W[0]) /\ Len(W[0]) = 0
    BY <1>2, <2>1
  <2>4. W[0] = <<>>
    BY <2>3, EmptySeq DEF IsSeq
  <2> QED  BY <2>2, <2>4
<1> HIDE DEF W, ss
<1>4. ASSUME NEW k \in 1..n  PROVE W[k] = W[k - 1] ++ ss[k]
  <2>1. k - 1 \in 0..n /\ k \in 0..n /\ k \in Nat /\ k - 1 \in Nat
    BY <1>0
  <2>2. /\ IsSeq(W[k]) /\ Len(W[k]) = k /\ \A i \in 1..k : W[k][i] = s[i]
        /\ IsSeq(W[k - 1]) /\ Len(W[k - 1]) = k - 1 /\ \A i \in 1..(k - 1) : W[k - 1][i] = s[i]
    BY <1>2, <2>1
  <2>3. /\ IsSeq(W[k - 1] ++ <<s[k]>>) /\ Len(W[k - 1] ++ <<s[k]>>) = k
        /\ \A i \in 1..(k - 1) : (W[k - 1] ++ <<s[k]>>)[i] = s[i]
        /\ (W[k - 1] ++ <<s[k]>>)[k] = s[k]
    <3>1. IsSeq(<<s[k]>>) /\ Len(<<s[k]>>) = 1 /\ <<s[k]>>[1] = s[k]
      BY ShortSeqs
    <3> DEFINE x == W[k - 1]
               y == <<s[k]>>
    <3>2. IsSeq(x) /\ IsSeq(y) /\ Len(x) = k - 1 /\ Len(y) = 1
      BY <2>2, <3>1
    <3> HIDE DEF x, y
    <3>3. /\ IsSeq(x ++ y) /\ Len(x ++ y) = Len(x) + Len(y)
          /\ \A i \in 1..Len(x) : (x ++ y)[i] = x[i]
          /\ \A i \in 1..Len(y) : (x ++ y)[Len(x) + i] = y[i]
      <4>1. IsSeq(x ++ y)
        BY <3>2, CatLaws
      <4>2. CatShape(x, y, x ++ y)
        BY <3>2, CatElems
      <4> QED  BY <4>1, <4>2 DEF CatShape
    <3>4. Len(x ++ y) = k /\ (x ++ y)[k] = y[1]
      BY <2>1, <3>2, <3>3
    <3> QED  BY <2>2, <3>1, <3>2, <3>3, <3>4 DEF x, y
  <2>4. \A i \in 1..k : W[k][i] = (W[k - 1] ++ <<s[k]>>)[i]
    <3>1. \A i \in 1..k : i \in 1..(k - 1) \/ i = k
      BY <2>1
    <3> QED  BY <2>1, <2>2, <2>3, <3>1
  <2>5. W[k] = W[k - 1] ++ <<s[k]>>
    BY <2>2, <2>3, <2>4, SeqEq
  <2> QED  BY <1>1, <2>5
<1>5. CatArray(ss, W)
  BY <1>1, <1>3, <1>4 DEF CatArray
<1> QED  BY <1>1, <1>3, <1>5, CatArrayIs DEF ss

-----------------------------------------------------------------------------
(* The lexer. *)

\* The tokens of one instruction.
Lex1(x) == IF x[1] \in DOMAIN Merged THEN <<Op(Merged[x[1]]), Op("Verify")>> ELSE <<x>>

LexParts(s) == [i \in DOMAIN s |-> Lex1(s[i])]

LEMMA LexIs == \A s : lex(s) = ConcatAll(LexParts(s))
  BY DEF lex, LexParts, Lex1

LEMMA LexPartsSeq ==
    ASSUME NEW s, IsSeq(s)
    PROVE  /\ IsSeq(LexParts(s)) /\ Len(LexParts(s)) = Len(s)
           /\ \A i \in 1..Len(s) : LexParts(s)[i] = Lex1(s[i]) /\ IsSeq(LexParts(s)[i])
<1> DEFINE n == Len(s)
           f == [i \in 1..n |-> Lex1(s[i])]
<1>1. n \in Nat /\ DOMAIN s = 1..n
  BY SeqForm
<1>2. LexParts(s) = [i \in 1..n |-> f[i]]
  BY <1>1 DEF LexParts
<1>3. \A i \in 1..n : f[i] = Lex1(s[i])
  OBVIOUS
<1> HIDE DEF f
<1>4. IsSeq(LexParts(s)) /\ Len(LexParts(s)) = n /\ \A i \in 1..n : LexParts(s)[i] = f[i]
  BY <1>1, <1>2, FnIsSeq
<1>5. ASSUME NEW x  PROVE IsSeq(Lex1(x))
  <2>1. CASE x[1] \in DOMAIN Merged
    BY <2>1, ShortSeqs DEF Lex1
  <2>2. CASE x[1] \notin DOMAIN Merged
    BY <2>2, ShortSeqs DEF Lex1
  <2> QED  BY <2>1, <2>2
<1> QED  BY <1>3, <1>4, <1>5

LEMMA LexCat ==
    ASSUME NEW a, NEW b, IsSeq(a), IsSeq(b)
    PROVE  lex(a ++ b) = lex(a) ++ lex(b)
<1> DEFINE p == LexParts(a)
           q == LexParts(b)
           r == LexParts(a ++ b)
<1>1. IsSeq(a ++ b)
  BY CatLaws
<1>2. /\ IsSeq(p) /\ Len(p) = Len(a) /\ \A i \in 1..Len(a) : p[i] = Lex1(a[i]) /\ IsSeq(p[i])
      /\ IsSeq(q) /\ Len(q) = Len(b) /\ \A i \in 1..Len(b) : q[i] = Lex1(b[i]) /\ IsSeq(q[i])
      /\ IsSeq(r) /\ Len(r) = Len(a ++ b)
      /\ \A i \in 1..Len(a ++ b) : r[i] = Lex1((a ++ b)[i])
  BY <1>1, LexPartsSeq
<1>3. lex(a) = ConcatAll(p) /\ lex(b) = ConcatAll(q) /\ lex(a ++ b) = ConcatAll(r)
  BY LexIs
<1> HIDE DEF p, q, r
<1>4. ConcatAll(p ++ q) = ConcatAll(p) ++ ConcatAll(q)
  BY <1>2, ConcatAllCat
<1>5. r = p ++ q
  <2>1. IsSeq(p ++ q)
    BY <1>2, CatLaws
  <2>6. CatShape(p, q, p ++ q)
    BY <1>2, CatElems
  <2>2. /\ Len(p) \in Nat /\ Len(q) \in Nat /\ Len(p ++ q) = Len(p) + Len(q)
        /\ \A i \in 1..Len(p) : (p ++ q)[i] = p[i]
        /\ \A i \in 1..Len(q) : (p ++ q)[Len(p) + i] = q[i]
    BY <2>6 DEF CatShape
  <2>3. /\ Len(a ++ b) = Len(a) + Len(b)
        /\ \A i \in 1..Len(a) : (a ++ b)[i] = a[i]
        /\ \A i \in 1..Len(b) : (a ++ b)[Len(a) + i] = b[i]
        /\ \A i \in 1..Len(a ++ b) : i \in 1..Len(a) \/ \E j \in 1..Len(b) : i = Len(a) + j
    BY CatElems DEF CatShape
  <2>4. ASSUME NEW i \in 1..Len(a ++ b)  PROVE r[i] = (p ++ q)[i]
    <3>1. CASE i \in 1..Len(a)
      <4>1. r[i] = Lex1(a[i]) /\ (p ++ q)[i] = Lex1(a[i])
        BY <1>2, <2>2, <2>3, <3>1
      <4> QED  BY <4>1
    <3>2. ASSUME NEW j \in 1..Len(b), i = Len(a) + j  PROVE r[i] = (p ++ q)[i]
      <4>1. r[i] = Lex1(b[j]) /\ (p ++ q)[i] = Lex1(b[j])
        BY <1>2, <2>2, <2>3, <3>2
      <4> QED  BY <4>1
    <3> QED  BY <2>3, <3>1, <3>2
  <2>5. Len(r) = Len(p ++ q)
    BY <1>2, <2>2, <2>3
  <2> QED  BY <1>2, <2>1, <2>4, <2>5, SeqEq
<1> QED  BY <1>3, <1>4, <1>5

LEMMA LexLaws ==
    /\ \A s : IsSeq(s) => IsSeq(lex(s))
    /\ \A a, b : IsSeq(a) /\ IsSeq(b) => lex(a ++ b) = lex(a) ++ lex(b)
    /\ \A x : lex(<<x>>) = Lex1(x)
    /\ lex(<<>>) = <<>>
<1>1. ASSUME NEW s, IsSeq(s)  PROVE IsSeq(lex(s))
  BY <1>1, LexIs, LexPartsSeq, ConcatAllSeq
<1>2. ASSUME NEW a, NEW b, IsSeq(a), IsSeq(b)  PROVE lex(a ++ b) = lex(a) ++ lex(b)
  BY <1>2, LexCat
<1>3. ASSUME NEW x  PROVE lex(<<x>>) = Lex1(x)
  <2>1. IsSeq(<<x>>) /\ Len(<<x>>) = 1 /\ <<x>>[1] = x
    BY ShortSeqs
  <2> DEFINE p == LexParts(<<x>>)
  <2>2. IsSeq(p) /\ Len(p) = 1 /\ p[1] = Lex1(x) /\ IsSeq(p[1])
    BY <2>1, LexPartsSeq
  <2>3. lex(<<x>>) = ConcatAll(p)
    BY LexIs
  <2> HIDE DEF p
  <2>4. p = <<p[1]>>
    <3>1. IsSeq(<<p[1]>>) /\ Len(<<p[1]>>) = 1 /\ <<p[1]>>[1] = p[1]
      BY ShortSeqs
    <3>2. \A i \in 1..1 : p[i] = <<p[1]>>[i]
      BY <3>1
    <3> QED  BY <2>2, <3>1, <3>2, SeqEq
  <2>5. ConcatAll(<<p[1]>>) = p[1]
    BY <2>2, ConcatAllOne
  <2> QED  BY <2>2, <2>3, <2>4, <2>5
<1>4. lex(<<>>) = <<>>
  <2>1. IsSeq(LexParts(<<>>)) /\ Len(LexParts(<<>>)) = 0
    BY ShortSeqs, LexPartsSeq
  <2>2. LexParts(<<>>) = <<>>
    BY <2>1, EmptySeq DEF IsSeq
  <2> QED  BY <2>2, LexIs, ConcatAllNone
<1> QED  BY <1>1, <1>2, <1>3, <1>4
-----------------------------------------------------------------------------
(* Scripts with the same tokens. *)

LEMMA Names ==
    /\ DOMAIN VerifyForm = {"Equal", "NumEqual", "CheckSig", "CheckMultiSig"}
    /\ DOMAIN Merged = {"EqualVerify", "NumEqualVerify", "CheckSigVerify", "CheckMultiSigVerify"}
    /\ \A f \in DOMAIN VerifyForm : VerifyForm[f] \in DOMAIN Merged /\ Merged[VerifyForm[f]] = f
    /\ \A f \in DOMAIN Merged : Merged[f] \in DOMAIN VerifyForm /\ VerifyForm[Merged[f]] = f
    /\ \A f \in DOMAIN Merged : Merged[f] # "Verify"
  BY DEF VerifyForm, Merged

LEMMA SeqCons ==
    ASSUME NEW s, IsSeq(s), Len(s) >= 1
    PROVE  \E r : /\ IsSeq(r) /\ Len(r) = Len(s) - 1 /\ s = <<s[1]>> ++ r
                  /\ \A i \in 1..Len(r) : r[i] = s[i + 1]
<1> DEFINE n == Len(s) - 1
           f == [i \in 1..n |-> s[i + 1]]
           r == [i \in 1..n |-> f[i]]
<1>1. n \in Nat /\ Len(s) = n + 1
  BY SeqForm
<1>2. \A i \in 1..n : f[i] = s[i + 1]
  OBVIOUS
<1> HIDE DEF f
<1>3. IsSeq(r) /\ Len(r) = n /\ \A i \in 1..n : r[i] = f[i]
  BY <1>1, FnIsSeq
<1> DEFINE x == <<s[1]>>
<1>4. IsSeq(x) /\ Len(x) = 1 /\ x[1] = s[1]
  BY ShortSeqs
<1> HIDE DEF r, x
<1>5. CatShape(x, r, x ++ r) /\ IsSeq(x ++ r)
  BY <1>3, <1>4, CatElems, CatLaws
<1>6. ASSUME NEW i \in 1..Len(s)  PROVE s[i] = (x ++ r)[i]
  <2>1. CASE i = 1
    <3>1. 1 \in 1..Len(x)
      BY <1>4
    <3> QED  BY <1>4, <1>5, <2>1, <3>1 DEF CatShape
  <2>2. CASE i # 1
    <3> DEFINE j == i - 1
    <3>1. j \in 1..n /\ i = Len(x) + j /\ i = j + 1
      BY <1>1, <1>4, <2>2
    <3> HIDE DEF j
    <3>2. (x ++ r)[i] = r[j] /\ r[j] = s[j + 1]
      BY <1>2, <1>3, <1>5, <3>1 DEF CatShape
    <3> QED  BY <3>1, <3>2
  <2> QED  BY <2>1, <2>2
<1>7. Len(x ++ r) = Len(s)
  BY <1>1, <1>3, <1>4, <1>5 DEF CatShape
<1>8. s = x ++ r
  BY <1>5, <1>6, <1>7, SeqEq
<1> QED  BY <1>2, <1>3, <1>8 DEF x

LEMMA ConsEq ==
    ASSUME NEW x, NEW y, NEW a, NEW b, IsSeq(a), IsSeq(b), <<x>> ++ a = <<y>> ++ b
    PROVE  x = y /\ a = b
<1> DEFINE p == <<x>>
           q == <<y>>
<1>1. IsSeq(p) /\ Len(p) = 1 /\ p[1] = x /\ IsSeq(q) /\ Len(q) = 1 /\ q[1] = y
  BY ShortSeqs
<1>2. p ++ a = q ++ b
  OBVIOUS
<1> HIDE DEF p, q
<1>3. CatShape(p, a, p ++ a) /\ CatShape(q, b, p ++ a)
  BY <1>1, <1>2, CatElems
<1>4. Len(a) \in Nat /\ Len(a) = Len(b)
  BY <1>1, <1>3 DEF CatShape
<1>5. x = y
  <2>1. 1 \in 1..Len(p) /\ 1 \in 1..Len(q)
    BY <1>1
  <2> QED  BY <1>1, <1>3, <2>1 DEF CatShape
<1>6. \A i \in 1..Len(a) : a[i] = b[i]
  BY <1>1, <1>3, <1>4 DEF CatShape
<1> QED  BY <1>4, <1>5, <1>6, SeqEq

\* An instruction that stands for two tokens has no operand.
Bare(s) == \A i \in 1..Len(s) : s[i][1] \in DOMAIN Merged => s[i] = <<s[i][1]>>

\* No VERIFY that could be merged with the instruction before it.
NoSplit(s) ==
    \A i \in 1..(Len(s) - 1) : \A f \in DOMAIN VerifyForm :
        ~(s[i] = Op(f) /\ s[i + 1] = Op("Verify"))

LEMMA Lex1Cases ==
    ASSUME NEW x
    PROVE  /\ x[1] \in DOMAIN Merged => Lex1(x) = <<Op(Merged[x[1]])>> ++ <<Op("Verify")>>
           /\ x[1] \notin DOMAIN Merged => Lex1(x) = <<x>>
<1>1. \A a, b : <<a, b>> = <<a>> ++ <<b>>
  BY ShortSeqs DEF ++
<1> QED  BY <1>1 DEF Lex1

\* A merged instruction is not read as its first token and a VERIFY.
LEMMA LexSplit ==
    ASSUME NEW x, x[1] \in DOMAIN Merged, NEW a, IsSeq(a),
           NEW t, IsSeq(t), Len(t) >= 1, NoSplit(t), t[1][1] \notin DOMAIN Merged,
           Lex1(x) ++ a = lex(t)
    PROVE  FALSE
<1> DEFINE m == Op(Merged[x[1]])
           v == Op("Verify")
<1>1. PICK r : /\ IsSeq(r) /\ Len(r) = Len(t) - 1 /\ t = <<t[1]>> ++ r
               /\ \A i \in 1..Len(r) : r[i] = t[i + 1]
  BY SeqCons
<1>2. lex(t) = <<t[1]>> ++ lex(r) /\ IsSeq(lex(r))
  <2>1. lex(<<t[1]>>) = <<t[1]>>
    BY LexLaws, Lex1Cases
  <2> QED  BY <1>1, <2>1, CatLaws, LexLaws
<1>3. Lex1(x) = <<m>> ++ <<v>>
  BY Lex1Cases
<1> HIDE DEF m, v
<1>4. <<m>> ++ (<<v>> ++ a) = <<t[1]>> ++ lex(r) /\ IsSeq(<<v>> ++ a)
  BY <1>2, <1>3, CatLaws
<1>5. t[1] = m /\ lex(r) = <<v>> ++ a
  BY <1>2, <1>4, ConsEq
<1>6. Len(r) >= 1
  <2> SUFFICES ASSUME ~(Len(r) >= 1)  PROVE FALSE
    OBVIOUS
  <2>1. r = <<>>
    BY <1>1, SeqForm, EmptySeq DEF IsSeq
  <2>2. <<v>> ++ a = <<>>
    BY <1>5, <2>1, LexLaws
  <2>3. Len(<<v>>) = 1 /\ IsSeq(<<v>>)
    BY ShortSeqs
  <2>4. CatShape(<<v>>, a, <<v>> ++ a)
    BY <2>3, CatElems
  <2>5. Len(<<v>> ++ a) >= 1
    BY <2>3, <2>4 DEF CatShape
  <2> QED  BY <2>2, <2>5, ShortSeqs
<1>7. PICK r2 : IsSeq(r2) /\ r = <<r[1]>> ++ r2
  BY <1>1, <1>6, SeqCons
<1>8. lex(r) = Lex1(r[1]) ++ lex(r2) /\ IsSeq(lex(r2))
  BY <1>7, CatLaws, LexLaws
<1>9. r[1] = v
  <2>1. CASE r[1][1] \in DOMAIN Merged
    <3>1. Lex1(r[1]) = <<Op(Merged[r[1][1]])>> ++ <<v>>
      BY <2>1, Lex1Cases DEF v
    <3>2. <<v>> ++ a = <<Op(Merged[r[1][1]])>> ++ (<<v>> ++ lex(r2)) /\ IsSeq(<<v>> ++ lex(r2))
      BY <1>5, <1>8, <3>1, CatLaws
    <3>3. v = Op(Merged[r[1][1]])
      BY <3>2, ConsEq
    <3>4. Merged[r[1][1]] # "Verify"
      BY <2>1, Names
    <3> QED  BY <3>3, <3>4 DEF v, Op
  <2>2. CASE r[1][1] \notin DOMAIN Merged
    <3>1. <<v>> ++ a = <<r[1]>> ++ lex(r2)
      BY <1>5, <1>8, <2>2, Lex1Cases
    <3> QED  BY <1>8, <3>1, ConsEq
  <2> QED  BY <2>1, <2>2
<1>10. t[2] = v /\ Merged[x[1]] \in DOMAIN VerifyForm /\ 1 \in 1..(Len(t) - 1)
  <2>1. Merged[x[1]] \in DOMAIN VerifyForm
    BY Names
  <2>2. Len(t) \in Nat
    BY SeqForm
  <2>3. 1 \in 1..Len(r) /\ 1 \in 1..(Len(t) - 1) /\ 1 + 1 = 2
    BY <1>1, <1>6, <2>2
  <2>4. r[1] = t[2]
    BY <1>1, <2>3
  <2> QED  BY <1>9, <2>1, <2>3, <2>4
<1> QED  BY <1>5, <1>10 DEF NoSplit, m, v
(* Two scripts with the same tokens are equal. *)
LEMMA Unlex ==
    ASSUME NEW s0, NEW t0, IsSeq(s0), IsSeq(t0), Bare(s0), Bare(t0), NoSplit(s0), NoSplit(t0),
           lex(s0) = lex(t0)
    PROVE  s0 = t0
<1> DEFINE Same(s, t) == /\ IsSeq(s) /\ IsSeq(t) /\ Bare(s) /\ Bare(t)
                         /\ NoSplit(s) /\ NoSplit(t) /\ lex(s) = lex(t)
           S == {n \in Nat : \A s, t : Same(s, t) /\ Len(s) = n => s = t}
<1>1. ASSUME NEW s, IsSeq(s), Len(s) >= 1
      PROVE  \E r : /\ IsSeq(r) /\ IsSeq(lex(r)) /\ Len(r) = Len(s) - 1 /\ s = <<s[1]>> ++ r
                    /\ lex(s) = Lex1(s[1]) ++ lex(r) /\ Len(lex(s)) >= 1
                    /\ (Bare(s) => Bare(r)) /\ (NoSplit(s) => NoSplit(r))
  <2>1. PICK r : /\ IsSeq(r) /\ Len(r) = Len(s) - 1 /\ s = <<s[1]>> ++ r
                 /\ \A i \in 1..Len(r) : r[i] = s[i + 1]
    BY <1>1, SeqCons
  <2>2. lex(s) = Lex1(s[1]) ++ lex(r) /\ IsSeq(lex(r))
    BY <2>1, CatLaws, LexLaws
  <2>3. Len(lex(s)) >= 1
    <3>1. IsSeq(Lex1(s[1])) /\ Len(Lex1(s[1])) >= 1
      <4>1. CASE s[1][1] \in DOMAIN Merged
        <5>1. Lex1(s[1]) = <<Op(Merged[s[1][1]]), Op("Verify")>>
          BY <4>1 DEF Lex1
        <5> QED  BY <5>1, ShortSeqs
      <4>2. CASE s[1][1] \notin DOMAIN Merged
        <5>1. Lex1(s[1]) = <<s[1]>>
          BY <4>2 DEF Lex1
        <5> QED  BY <5>1, ShortSeqs
      <4> QED  BY <4>1, <4>2
    <3>2. CatShape(Lex1(s[1]), lex(r), lex(s))
      BY <2>2, <3>1, CatElems
    <3> QED  BY <3>1, <3>2 DEF CatShape
  <2>4. Len(s) \in Nat /\ Len(r) \in Nat
    BY <1>1, <2>1, SeqForm
  <2>5. ASSUME Bare(s)  PROVE Bare(r)
    <3>1. ASSUME NEW i \in 1..Len(r)  PROVE i + 1 \in 1..Len(s) /\ r[i] = s[i + 1]
      BY <2>1, <2>4
    <3> QED  BY <2>5, <3>1 DEF Bare
  <2>6. ASSUME NoSplit(s)  PROVE NoSplit(r)
    <3>1. ASSUME NEW i \in 1..(Len(r) - 1)
          PROVE i + 1 \in 1..(Len(s) - 1) /\ r[i] = s[i + 1] /\ r[i + 1] = s[(i + 1) + 1]
      BY <2>1, <2>4
    <3> QED  BY <2>6, <3>1 DEF NoSplit
  <2> QED  BY <2>1, <2>2, <2>3, <2>5, <2>6
<1>2. ASSUME NEW s, IsSeq(s), ~(Len(s) >= 1)  PROVE s = <<>>
  BY <1>2, SeqForm, EmptySeq DEF IsSeq
<1>3. 0 \in S
  <2> SUFFICES ASSUME NEW s, NEW t, Same(s, t), Len(s) = 0  PROVE s = t
    OBVIOUS
  <2>1. s = <<>>
    BY <1>2
  <2>2. lex(t) = <<>>
    BY <2>1, LexLaws
  <2>3. ~(Len(t) >= 1)
    <3> SUFFICES ASSUME Len(t) >= 1  PROVE FALSE
      OBVIOUS
    <3>1. Len(lex(t)) >= 1
      BY <1>1
    <3> QED  BY <2>2, <3>1, ShortSeqs
  <2> QED  BY <1>2, <2>1, <2>3
<1>4. ASSUME NEW n \in Nat, n \in S  PROVE n + 1 \in S
  <2> SUFFICES ASSUME NEW s, NEW t, Same(s, t), Len(s) = n + 1  PROVE s = t
    OBVIOUS
  <2>1. Len(s) >= 1
    OBVIOUS
  <2>2. PICK a : /\ IsSeq(a) /\ IsSeq(lex(a)) /\ Len(a) = Len(s) - 1 /\ s = <<s[1]>> ++ a
                 /\ lex(s) = Lex1(s[1]) ++ lex(a) /\ Len(lex(s)) >= 1
                 /\ Bare(a) /\ NoSplit(a)
    BY <1>1, <2>1
  <2>3. Len(t) >= 1
    <3> SUFFICES ASSUME ~(Len(t) >= 1)  PROVE FALSE
      OBVIOUS
    <3>1. t = <<>>
      BY <1>2
    <3>2. lex(s) = <<>>
      BY <3>1, LexLaws
    <3> QED  BY <2>2, <3>2, ShortSeqs
  <2>4. PICK b : /\ IsSeq(b) /\ IsSeq(lex(b)) /\ Len(b) = Len(t) - 1 /\ t = <<t[1]>> ++ b
                 /\ lex(t) = Lex1(t[1]) ++ lex(b)
                 /\ Bare(b) /\ NoSplit(b)
    BY <1>1, <2>3
  <2>5. s[1][1] \in DOMAIN Merged <=> t[1][1] \in DOMAIN Merged
    <3>1. ASSUME s[1][1] \in DOMAIN Merged, t[1][1] \notin DOMAIN Merged  PROVE FALSE
      BY <2>2, <2>3, <3>1, LexSplit
    <3>2. ASSUME s[1][1] \notin DOMAIN Merged, t[1][1] \in DOMAIN Merged  PROVE FALSE
      BY <2>1, <2>4, <3>2, LexSplit
    <3> QED  BY <3>1, <3>2
  <2>6. s[1] = t[1] /\ lex(a) = lex(b)
    <3> DEFINE x == s[1]
               y == t[1]
               v == Op("Verify")
    <3>0. Lex1(x) ++ lex(a) = Lex1(y) ++ lex(b)
      BY <2>2, <2>4
    <3>1. CASE x[1] \in DOMAIN Merged
      <4>1. y[1] \in DOMAIN Merged
        BY <2>5, <3>1
      <4>2. Lex1(x) = <<Op(Merged[x[1]])>> ++ <<v>> /\ Lex1(y) = <<Op(Merged[y[1]])>> ++ <<v>>
        BY <3>1, <4>1, Lex1Cases
      <4>3. x = <<x[1]>> /\ y = <<y[1]>>
        <5>1. 1 \in 1..Len(s) /\ 1 \in 1..Len(t)
          BY <2>1, <2>3, SeqForm
        <5> QED  BY <3>1, <4>1, <5>1 DEF Bare
      <4> HIDE DEF x, y, v
      <4>4. /\ <<Op(Merged[x[1]])>> ++ (<<v>> ++ lex(a)) = <<Op(Merged[y[1]])>> ++ (<<v>> ++ lex(b))
            /\ IsSeq(<<v>> ++ lex(a)) /\ IsSeq(<<v>> ++ lex(b))
        BY <2>2, <2>4, <3>0, <4>2, CatLaws
      <4>5. Op(Merged[x[1]]) = Op(Merged[y[1]]) /\ <<v>> ++ lex(a) = <<v>> ++ lex(b)
        BY <4>4, ConsEq
      <4>6. Merged[x[1]] = Merged[y[1]]
        BY <4>5 DEF Op
      <4>7. x[1] = y[1]
        BY <3>1, <4>1, <4>6, Names
      <4>8. lex(a) = lex(b)
        BY <2>2, <2>4, <4>5, ConsEq
      <4> QED  BY <4>3, <4>7, <4>8 DEF x, y
    <3>2. CASE x[1] \notin DOMAIN Merged
      <4>1. Lex1(x) = <<x>> /\ Lex1(y) = <<y>>
        BY <2>5, <3>2, Lex1Cases
      <4> HIDE DEF x, y
      <4>2. <<x>> ++ lex(a) = <<y>> ++ lex(b)
        BY <3>0, <4>1
      <4> QED  BY <2>2, <2>4, <4>2, ConsEq DEF x, y
    <3> QED  BY <3>1, <3>2
  <2>7. a = b
    <3>1. Same(a, b) /\ Len(a) = n
      BY <2>2, <2>4, <2>6
    <3> QED  BY <1>4, <3>1
  <2> QED  BY <2>2, <2>4, <2>6, <2>7
<1>5. Same(s0, t0)
  OBVIOUS
<1> HIDE DEF Same
<1> HIDE DEF S
<1>6. Len(s0) \in S
  BY <1>3, <1>4, SetInduction, SeqForm
<1> QED  BY <1>5, <1>6 DEF S
-----------------------------------------------------------------------------
(* What encode produces: scripts that lex reads without an error. *)

Neat(s) ==
    /\ IsSeq(s) /\ Len(s) >= 1
    /\ s[1][1] # "Verify"
    /\ \A i \in 1..Len(s) : s[i][1] \in DOMAIN VerifyForm \cup DOMAIN Merged => s[i] = <<s[i][1]>>
    /\ \A i \in 1..(Len(s) - 1) : s[i][1] \in DOMAIN VerifyForm => s[i + 1][1] # "Verify"

\* s is such a script and t its tokens.
Spells(s, t) == Neat(s) /\ t = lex(s)

\* An instruction that is a token by itself and is not part of another one.
Simple(x) == x[1] \notin DOMAIN VerifyForm \cup DOMAIN Merged \cup {"Verify"}

LEMMA NeatCat ==
    ASSUME NEW a, NEW b, Neat(a), Neat(b)
    PROVE  Neat(a ++ b)
<1> DEFINE c == a ++ b
           T == DOMAIN VerifyForm \cup DOMAIN Merged
<1>1. IsSeq(a) /\ IsSeq(b) /\ Len(a) >= 1 /\ Len(b) >= 1
  BY DEF Neat
<1>2. IsSeq(c) /\ CatShape(a, b, c)
  BY <1>1, CatElems, CatLaws
<1> HIDE DEF c, T
<1>3. Len(c) >= 1 /\ c[1] = a[1]
  BY <1>1, <1>2 DEF CatShape
<1>4. c[1][1] # "Verify"
  BY <1>3 DEF Neat
<1>5. ASSUME NEW i \in 1..Len(c), c[i][1] \in T  PROVE c[i] = <<c[i][1]>>
  <2>1. CASE i \in 1..Len(a)
    BY <1>2, <1>5, <2>1 DEF CatShape, Neat, T
  <2>2. ASSUME NEW j \in 1..Len(b), i = Len(a) + j  PROVE c[i] = <<c[i][1]>>
    <3>1. c[i] = b[j]
      BY <1>2, <2>2 DEF CatShape
    <3> QED  BY <1>5, <3>1 DEF Neat, T
  <2> QED  BY <1>2, <2>1, <2>2 DEF CatShape
<1>6. ASSUME NEW i \in 1..(Len(c) - 1), c[i][1] \in DOMAIN VerifyForm  PROVE c[i + 1][1] # "Verify"
  <2>0. Len(a) \in Nat /\ Len(b) \in Nat /\ Len(c) = Len(a) + Len(b)
    BY <1>2 DEF CatShape
  <2>1. CASE i < Len(a)
    <3>1. i \in 1..Len(a) /\ i + 1 \in 1..Len(a) /\ i \in 1..(Len(a) - 1)
      BY <2>0, <2>1
    <3>2. c[i] = a[i] /\ c[i + 1] = a[i + 1]
      BY <1>2, <3>1 DEF CatShape
    <3> QED  BY <1>6, <3>1, <3>2 DEF Neat
  <2>2. CASE i = Len(a)
    <3>1. 1 \in 1..Len(b) /\ i + 1 = Len(a) + 1
      BY <1>1, <2>0, <2>2
    <3>2. c[i + 1] = b[1]
      BY <1>2, <3>1 DEF CatShape
    <3> QED  BY <3>2 DEF Neat
  <2>3. CASE i > Len(a)
    <3> DEFINE j == i - Len(a)
    <3>1. j \in 1..Len(b) /\ j + 1 \in 1..Len(b) /\ j \in 1..(Len(b) - 1) /\ i = Len(a) + j /\ i + 1 = Len(a) + (j + 1)
      BY <2>0, <2>3
    <3> HIDE DEF j
    <3>2. c[i] = b[j] /\ c[i + 1] = b[j + 1]
      BY <1>2, <3>1 DEF CatShape
    <3> QED  BY <1>6, <3>1, <3>2 DEF Neat
  <2> QED  BY <2>0, <2>1, <2>2, <2>3
<1>7. Neat(c)
  BY <1>2, <1>3, <1>4, <1>5, <1>6 DEF Neat, T
<1> QED  BY <1>7 DEF c

LEMMA NeatOne ==
    ASSUME NEW x, x[1] # "Verify", x[1] \in DOMAIN VerifyForm \cup DOMAIN Merged => x = <<x[1]>>
    PROVE  Neat(<<x>>)
<1>1. IsSeq(<<x>>) /\ Len(<<x>>) = 1 /\ <<x>>[1] = x
  BY ShortSeqs
<1>2. \A i \in 1..1 : i = 1
  OBVIOUS
<1>3. 1..(1 - 1) = {}
  OBVIOUS
<1> QED  BY <1>1, <1>2, <1>3 DEF Neat

LEMMA SpellsLaws ==
    /\ \A a, b, x, y : Spells(a, x) /\ Spells(b, y) => Spells(a ++ b, x ++ y)
    /\ \A a, x : Spells(a, x) => IsSeq(a) /\ IsSeq(x)
    /\ \A x : Simple(x) => Spells(<<x>>, <<x>>)
    /\ \A f \in DOMAIN VerifyForm : /\ Spells(<<Op(f)>>, <<Op(f)>>)
                                    /\ Spells(<<Op(VerifyForm[f])>>, <<Op(f)>> ++ <<Op("Verify")>>)
<1>1. ASSUME NEW a, NEW b, Neat(a), Neat(b)
      PROVE  Neat(a ++ b) /\ lex(a ++ b) = lex(a) ++ lex(b)
  <2>1. IsSeq(a) /\ IsSeq(b)
    BY <1>1 DEF Neat
  <2> QED  BY <1>1, <2>1, NeatCat, LexLaws
<1>2. ASSUME NEW a, Neat(a)  PROVE IsSeq(a) /\ IsSeq(lex(a))
  BY <1>2, LexLaws DEF Neat
<1>3. ASSUME NEW x, Simple(x)  PROVE Neat(<<x>>) /\ lex(<<x>>) = <<x>>
  <2>1. x[1] \notin DOMAIN Merged /\ x[1] \notin DOMAIN VerifyForm /\ x[1] # "Verify"
    BY <1>3 DEF Simple
  <2>2. Neat(<<x>>)
    BY <2>1, NeatOne
  <2>3. lex(<<x>>) = <<x>>
    BY <2>1, LexLaws, Lex1Cases
  <2> QED  BY <2>2, <2>3
<1>4. ASSUME NEW f \in DOMAIN VerifyForm
      PROVE  /\ Neat(<<Op(f)>>) /\ lex(<<Op(f)>>) = <<Op(f)>>
             /\ Neat(<<Op(VerifyForm[f])>>)
             /\ lex(<<Op(VerifyForm[f])>>) = <<Op(f)>> ++ <<Op("Verify")>>
  <2> DEFINE g == VerifyForm[f]
  <2>1. f \notin DOMAIN Merged /\ f # "Verify" /\ g \in DOMAIN Merged /\ g # "Verify" /\ Merged[g] = f
    BY <1>4, Names
  <2>2. Op(f)[1] = f /\ Op(g)[1] = g /\ Op(f) = <<f>> /\ Op(g) = <<g>>
    BY DEF Op
  <2> HIDE DEF g
  <2>3. Neat(<<Op(f)>>) /\ Neat(<<Op(g)>>)
    BY <2>1, <2>2, NeatOne
  <2>4. lex(<<Op(f)>>) = <<Op(f)>>
    BY <2>1, <2>2, LexLaws, Lex1Cases
  <2>5. lex(<<Op(g)>>) = <<Op(f)>> ++ <<Op("Verify")>>
    BY <2>1, <2>2, LexLaws, Lex1Cases
  <2> QED  BY <2>3, <2>4, <2>5 DEF g
<1> QED  BY <1>1, <1>2, <1>3, <1>4 DEF Spells
LEMMA SeqSnoc ==
    ASSUME NEW s, IsSeq(s), Len(s) >= 1
    PROVE  \E p : /\ IsSeq(p) /\ Len(p) = Len(s) - 1 /\ s = p ++ <<s[Len(s)]>>
                  /\ \A i \in 1..Len(p) : p[i] = s[i]
<1> DEFINE n == Len(s) - 1
           p == [i \in 1..n |-> s[i]]
<1>1. n \in Nat /\ Len(s) = n + 1 /\ Len(s) \in Nat
  BY SeqForm
<1>3. IsSeq(p) /\ Len(p) = n /\ \A i \in 1..n : p[i] = s[i]
  BY <1>1, FnIsSeq
<1> DEFINE x == <<s[Len(s)]>>
<1>4. IsSeq(x) /\ Len(x) = 1 /\ x[1] = s[Len(s)]
  BY ShortSeqs
<1> HIDE DEF p, x
<1>5. CatShape(p, x, p ++ x) /\ IsSeq(p ++ x)
  BY <1>3, <1>4, CatElems, CatLaws
<1>6. ASSUME NEW i \in 1..Len(s)  PROVE s[i] = (p ++ x)[i]
  <2>1. CASE i = n + 1
    <3>1. 1 \in 1..Len(x) /\ i = Len(p) + 1 /\ i = Len(s)
      BY <1>1, <1>3, <1>4, <2>1
    <3> QED  BY <1>4, <1>5, <3>1 DEF CatShape
  <2>2. CASE i # n + 1
    <3> HIDE DEF n
    <3>1. i \in 1..n
      BY <1>1, <2>2
    <3> QED  BY <1>3, <1>5, <3>1 DEF CatShape
  <2> QED  BY <2>1, <2>2
<1>7. Len(p ++ x) = Len(s)
  BY <1>1, <1>3, <1>4, <1>5 DEF CatShape
<1>8. s = p ++ x
  BY <1>5, <1>6, <1>7, SeqEq
<1> QED  BY <1>3, <1>8 DEF x

(* push_verify adds the token VERIFY. *)
LEMMA SpellsVerify ==
    ASSUME NEW s, NEW t, Spells(s, t)
    PROVE  Spells(push_verify(s), t ++ <<Op("Verify")>>)
<1> DEFINE n == Len(s)
           v == Op("Verify")
           f == s[n][1]
           w == push_verify(s)
<1>1. IsSeq(s) /\ n \in Nat /\ n >= 1 /\ t = lex(s) /\ Neat(s)
  BY SeqForm DEF Spells, Neat
<1>2. PICK p : /\ IsSeq(p) /\ Len(p) = n - 1 /\ s = p ++ <<s[n]>>
               /\ \A i \in 1..Len(p) : p[i] = s[i]
  BY <1>1, SeqSnoc
<1>3. CASE f \in DOMAIN VerifyForm
  <2> DEFINE g == Op(VerifyForm[f])
  <2>1. w = [s EXCEPT ![n] = g]
    BY <1>3 DEF push_verify
  <2>2. s[n] = Op(f)
    <3>1. n \in 1..n
      BY <1>1
    <3> QED  BY <1>1, <1>3, <3>1 DEF Neat, Op
  <2>3. Neat(<<g>>) /\ lex(<<g>>) = <<Op(f)>> ++ <<v>> /\ lex(<<Op(f)>>) = <<Op(f)>>
    BY <1>3, SpellsLaws DEF Spells
  <2> HIDE DEF g, f, w
  <2>4. w = p ++ <<g>>
    <3> DEFINE x == <<g>>
               c == p ++ x
    <3>0. IsSeq(x) /\ Len(x) = 1 /\ x[1] = g
      BY ShortSeqs
    <3> HIDE DEF x
    <3>1. IsSeq(c) /\ CatShape(p, x, c)
      BY <1>2, <3>0, CatElems, CatLaws
    <3>2. w = [i \in 1..n |-> IF i = n THEN g ELSE s[i]]
      <4>1. DOMAIN s = 1..n
        BY <1>1, SeqForm
      <4> QED  BY <2>1, <4>1
    <3>3. IsSeq(w) /\ Len(w) = n /\ \A i \in 1..n : w[i] = IF i = n THEN g ELSE s[i]
      <4> DEFINE h == [i \in 1..n |-> IF i = n THEN g ELSE s[i]]
      <4>1. \A i \in 1..n : h[i] = IF i = n THEN g ELSE s[i]
        OBVIOUS
      <4>2. w = [i \in 1..n |-> h[i]]
        BY <3>2
      <4> HIDE DEF h
      <4>3. IsSeq(w) /\ Len(w) = n /\ \A i \in 1..n : w[i] = h[i]
        BY <1>1, <4>2, FnIsSeq
      <4> QED  BY <4>1, <4>3
    <3> HIDE DEF c
    <3>4. Len(c) = n
      BY <1>1, <1>2, <3>0, <3>1 DEF CatShape
    <3>5. ASSUME NEW i \in 1..n  PROVE w[i] = c[i]
      <4>1. CASE i = n
        <5>1. 1 \in 1..Len(x) /\ i = Len(p) + 1
          BY <1>1, <1>2, <3>0, <4>1
        <5> QED  BY <3>0, <3>1, <3>3, <4>1, <5>1 DEF CatShape
      <4>2. CASE i # n
        <5>1. i \in 1..Len(p)
          BY <1>1, <1>2, <4>2
        <5> QED  BY <1>2, <3>1, <3>3, <4>2, <5>1 DEF CatShape
      <4> QED  BY <4>1, <4>2
    <3>6. w = c
      BY <3>1, <3>3, <3>4, <3>5, SeqEq
    <3> QED  BY <3>6 DEF c, x
  <2>5. lex(w) = lex(s) ++ <<v>>
    <3>2. s = p ++ <<Op(f)>> /\ IsSeq(p)
      BY <1>2, <2>2
    <3>1. lex(s) = lex(p) ++ <<Op(f)>> /\ lex(w) = lex(p) ++ (<<Op(f)>> ++ <<v>>) /\ IsSeq(lex(p))
      BY <3>2, <2>3, <2>4, CatLaws, LexLaws
    <3> QED  BY <3>1, CatLaws
  <2>6. Neat(w)
    <3>1. CASE n = 1
      <4>1. p = <<>>
        BY <1>2, <3>1, EmptySeq DEF IsSeq
      <4>2. w = <<g>>
        BY <2>4, <4>1, CatLaws
      <4> QED  BY <2>3, <4>2
    <3>2. CASE n # 1
      <4>1. Len(p) >= 1 /\ Len(p) \in Nat
        BY <1>1, <1>2, <3>2
      <4>2. p[1][1] # "Verify"
        BY <1>1, <1>2, <4>1 DEF Neat
      <4>3. \A i \in 1..Len(p) : p[i][1] \in DOMAIN VerifyForm \cup DOMAIN Merged => p[i] = <<p[i][1]>>
        <5>1. \A i \in 1..Len(p) : i \in 1..n /\ p[i] = s[i]
          BY <1>1, <1>2
        <5> QED  BY <1>1, <5>1 DEF Neat
      <4>4. \A i \in 1..(Len(p) - 1) : p[i][1] \in DOMAIN VerifyForm => p[i + 1][1] # "Verify"
        <5>1. \A i \in 1..(Len(p) - 1) : i \in 1..(n - 1) /\ p[i] = s[i] /\ p[i + 1] = s[i + 1]
          BY <1>1, <1>2
        <5> QED  BY <1>1, <5>1 DEF Neat
      <4>5. Neat(p)
        BY <1>2, <4>1, <4>2, <4>3, <4>4 DEF Neat
      <4> QED  BY <2>3, <2>4, <4>5, NeatCat
    <3> QED  BY <3>1, <3>2
  <2> QED  BY <1>1, <2>5, <2>6 DEF Spells, w
<1>4. CASE f \notin DOMAIN VerifyForm
  <2>1. w = Append(s, v)
    BY <1>4 DEF push_verify
  <2>2. w = s ++ <<v>>
    BY <1>1, <2>1, ConcatOne DEF ++
  <2>3. lex(<<v>>) = <<v>>
    <3>1. v[1] \notin DOMAIN Merged
      BY Names DEF Op
    <3> QED  BY <3>1, LexLaws, Lex1Cases
  <2>4. lex(w) = lex(s) ++ <<v>>
    BY <1>1, <2>2, <2>3, CatLaws, LexLaws
  <2>5. Neat(w)
    <3> DEFINE x == <<v>>
    <3>0. IsSeq(x) /\ Len(x) = 1 /\ x[1] = v /\ v[1] = "Verify" /\ v = <<"Verify">>
      BY ShortSeqs DEF Op
    <3>1. IsSeq(w) /\ CatShape(s, x, w)
      BY <1>1, <2>2, <3>0, CatElems, CatLaws
    <3> HIDE DEF x, w, v
    <3>2. /\ Len(w) = n + 1 /\ w[n + 1] = v
          /\ \A i \in 1..n : w[i] = s[i]
      BY <1>1, <3>0, <3>1 DEF CatShape
    <3> HIDE DEF n
    <3>3. ASSUME NEW i \in 1..Len(w), w[i][1] \in DOMAIN VerifyForm \cup DOMAIN Merged
          PROVE  w[i] = <<w[i][1]>>
      <4>1. CASE i = n + 1
        BY <3>0, <3>2, <4>1
      <4>2. CASE i # n + 1
        <5>1. i \in 1..n /\ w[i] = s[i]
          BY <1>1, <3>2, <4>2
        <5> QED  BY <1>1, <3>3, <5>1 DEF Neat, n
      <4> QED  BY <4>1, <4>2
    <3>4. ASSUME NEW i \in 1..(Len(w) - 1), w[i][1] \in DOMAIN VerifyForm
          PROVE  w[i + 1][1] # "Verify"
      <4>1. i \in 1..n /\ w[i] = s[i]
        BY <1>1, <3>2
      <4>2. i # n
        BY <1>4, <3>4, <4>1
      <4>3. i \in 1..(n - 1) /\ w[i + 1] = s[i + 1]
        BY <1>1, <3>2, <4>1, <4>2
      <4> QED  BY <1>1, <3>4, <4>1, <4>3 DEF Neat, n
    <3>5. w[1][1] # "Verify" /\ Len(w) >= 1
      BY <1>1, <3>2 DEF Neat
    <3> QED  BY <3>1, <3>3, <3>4, <3>5 DEF Neat
  <2> QED  BY <1>1, <2>4, <2>5 DEF Spells
<1> QED  BY <1>3, <1>4
(* A list of scripts. *)
LEMMA SpellsConcat ==
    ASSUME NEW ss, NEW tt, IsSeq(ss), IsSeq(tt), Len(ss) >= 1, Len(tt) = Len(ss),
           \A i \in 1..Len(ss) : Spells(ss[i], tt[i])
    PROVE  Spells(ConcatAll(ss), ConcatAll(tt))
<1> DEFINE n == Len(ss)
<1>0. n \in Nat
  BY SeqForm
<1>1. PICK A : CatArray(ss, A)
  BY CatArrayExists
<1>2. PICK B : CatArray(tt, B)
  BY CatArrayExists
<1> DEFINE S == {k \in Nat : k + 1 <= n => Spells(A[k + 1], B[k + 1])}
<1>3. ASSUME NEW k \in 1..n  PROVE A[k] = A[k - 1] ++ ss[k] /\ B[k] = B[k - 1] ++ tt[k]
  BY <1>1, <1>2 DEF CatArray
<1>4. 0 \in S
  <2> SUFFICES ASSUME 1 <= n  PROVE Spells(A[1], B[1])
    OBVIOUS
  <2>1. 1 \in 1..n /\ 1 - 1 = 0
    BY <1>0
  <2>2. A[0] = <<>> /\ B[0] = <<>>
    BY <1>1, <1>2 DEF CatArray
  <2>3. A[1] = <<>> ++ ss[1] /\ B[1] = <<>> ++ tt[1] /\ Spells(ss[1], tt[1])
    BY <1>3, <2>1, <2>2
  <2>4. IsSeq(ss[1]) /\ IsSeq(tt[1])
    BY <2>3, SpellsLaws
  <2> QED  BY <2>3, <2>4, CatLaws
<1>5. ASSUME NEW k \in Nat, k \in S  PROVE k + 1 \in S
  <2> SUFFICES ASSUME (k + 1) + 1 <= n  PROVE Spells(A[(k + 1) + 1], B[(k + 1) + 1])
    OBVIOUS
  <2> DEFINE j == (k + 1) + 1
  <2>1. j \in 1..n /\ j - 1 = k + 1 /\ k + 1 <= n
    BY <1>0
  <2>2. Spells(A[j - 1], B[j - 1])
    BY <1>5, <2>1
  <2> HIDE DEF j
  <2>3. A[j] = A[j - 1] ++ ss[j] /\ B[j] = B[j - 1] ++ tt[j] /\ Spells(ss[j], tt[j])
    BY <1>3, <2>1
  <2>4. Spells(A[j], B[j])
    BY <2>2, <2>3, SpellsLaws
  <2> QED  BY <2>4 DEF j
<1> HIDE DEF S
<1>6. Nat \subseteq S
  BY <1>4, <1>5, SetInduction
<1>7. Spells(A[n], B[n])
  <2>1. n - 1 \in Nat /\ (n - 1) + 1 = n
    BY <1>0
  <2>2. n - 1 \in S
    BY <1>6, <2>1
  <2> QED  BY <1>0, <2>1, <2>2 DEF S
<1>8. ConcatAll(ss) = A[n] /\ ConcatAll(tt) = B[n]
  BY <1>1, <1>2, CatArrayIs
<1> QED  BY <1>7, <1>8

(* Simple instructions are their own tokens. *)
LEMMA SpellsSelf ==
    ASSUME NEW s, IsSeq(s), Len(s) >= 1, \A i \in 1..Len(s) : Simple(s[i])
    PROVE  Spells(s, s)
<1> DEFINE n == Len(s)
           f == [i \in 1..n |-> <<s[i]>>]
           ss == [i \in DOMAIN s |-> <<s[i]>>]
<1>1. n \in Nat /\ DOMAIN s = 1..n
  BY SeqForm
<1>2. ss = [i \in 1..n |-> f[i]] /\ \A i \in 1..n : f[i] = <<s[i]>>
  BY <1>1
<1>3. ConcatAll(ss) = s
  BY ConcatSingles
<1> HIDE DEF f, ss
<1>4. IsSeq(ss) /\ Len(ss) = n /\ \A i \in 1..n : ss[i] = f[i]
  BY <1>1, <1>2, FnIsSeq
<1>5. \A i \in 1..n : Spells(ss[i], ss[i])
  <2>1. ASSUME NEW i \in 1..n  PROVE Spells(<<s[i]>>, <<s[i]>>)
    BY SpellsLaws
  <2> QED  BY <1>2, <1>4, <2>1
<1>6. Spells(ConcatAll(ss), ConcatAll(ss))
  BY <1>4, <1>5, SpellsConcat
<1> QED  BY <1>3, <1>6

(* The first of a list, and the rest. *)
LEMMA ConcatAllCons ==
    ASSUME NEW ss, IsSeq(ss), Len(ss) >= 1, \A i \in 1..Len(ss) : IsSeq(ss[i]),
           NEW r, IsSeq(r), Len(r) = Len(ss) - 1, \A i \in 1..Len(r) : r[i] = ss[i + 1]
    PROVE  ConcatAll(ss) = ss[1] ++ ConcatAll(r)
<1>0. Len(ss) \in Nat /\ Len(r) \in Nat
  BY SeqForm
<1>1. PICK a : /\ IsSeq(a) /\ Len(a) = Len(ss) - 1 /\ ss = <<ss[1]>> ++ a
               /\ \A i \in 1..Len(a) : a[i] = ss[i + 1]
  BY SeqCons
<1>2. a = r
  BY <1>1, SeqEq
<1> DEFINE x == <<ss[1]>>
<1>3. IsSeq(x) /\ Len(x) = 1 /\ x[1] = ss[1] /\ IsSeq(ss[1])
  <2>1. 1 \in 1..Len(ss)
    BY <1>0
  <2> QED  BY <2>1, ShortSeqs
<1>4. \A i \in 1..Len(r) : IsSeq(r[i])
  <2>1. \A i \in 1..Len(r) : i + 1 \in 1..Len(ss)
    BY <1>0
  <2> QED  BY <2>1
<1>5. \A i \in 1..Len(x) : IsSeq(x[i])
  <2>1. \A i \in 1..Len(x) : i = 1
    BY <1>3
  <2> QED  BY <1>3, <2>1
<1>6. ss = x ++ r
  BY <1>1, <1>2
<1> HIDE DEF x
<1>7. ConcatAll(x ++ r) = ConcatAll(x) ++ ConcatAll(r)
  BY <1>3, <1>4, <1>5, ConcatAllCat
<1>8. ConcatAll(x) = ss[1]
  BY <1>3, ConcatAllOne DEF x
<1> QED  BY <1>6, <1>7, <1>8
-----------------------------------------------------------------------------
(* The tokens of each fragment. *)

\* One instruction as a script.
Tk(name) == <<Op(name)>>
TkNum(n) == <<Num(n)>>

Four(a, b, c, d) == <<a, b, c, d>>
Six(a, b, c, d, e, f) == <<a, b, c, d, e, f>>

LEMMA Tuples ==
    /\ \A a, b : <<a, b>> = <<a>> ++ <<b>>
    /\ \A a, b, c : <<a, b, c>> = <<a>> ++ (<<b>> ++ <<c>>)
    /\ \A a, b, c, d : Four(a, b, c, d) = <<a>> ++ (<<b>> ++ (<<c>> ++ <<d>>))
    /\ \A a, b, c, d, e, f :
            Six(a, b, c, d, e, f) = <<a>> ++ (<<b>> ++ (<<c>> ++ (<<d>> ++ (<<e>> ++ <<f>>))))
<1>1. ASSUME NEW a, NEW b  PROVE <<a, b>> = <<a>> ++ <<b>>
  BY ShortSeqs DEF ++
<1>2. ASSUME NEW a, NEW b, NEW c  PROVE <<a, b, c>> = <<a>> ++ (<<b>> ++ <<c>>)
  BY ShortSeqs DEF ++
<1>3. ASSUME NEW a, NEW b, NEW c, NEW d
      PROVE  <<a, b, c, d>> = <<a>> ++ (<<b>> ++ (<<c>> ++ <<d>>))
  <2> DEFINE p == <<a>>
             r == <<b, c, d>>
             s == <<a, b, c, d>>
  <2>1. s \in Seq({a, b, c, d}) /\ Len(s) = 4 /\ s[1] = a /\ s[2] = b /\ s[3] = c /\ s[4] = d
    OBVIOUS
  <2>2. r \in Seq({b, c, d}) /\ Len(r) = 3 /\ r[1] = b /\ r[2] = c /\ r[3] = d
    OBVIOUS
  <2>3. IsSeq(s) /\ IsSeq(r) /\ IsSeq(p) /\ Len(p) = 1 /\ p[1] = a
    BY <2>1, <2>2, SeqIsSeq, ShortSeqs
  <2> HIDE DEF p, r, s
  <2>4. IsSeq(p ++ r) /\ CatShape(p, r, p ++ r)
    BY <2>3, CatElems, CatLaws
  <2>5. Len(p ++ r) = 4 /\ (p ++ r)[1] = a /\ (p ++ r)[2] = b /\ (p ++ r)[3] = c /\ (p ++ r)[4] = d
    BY <2>2, <2>3, <2>4 DEF CatShape
  <2>6. \A i \in 1..4 : s[i] = (p ++ r)[i]
    BY <2>1, <2>5
  <2>7. s = p ++ r
    BY <2>1, <2>3, <2>4, <2>5, <2>6, SeqEq
  <2>8. r = <<b>> ++ (<<c>> ++ <<d>>)
    BY <1>2 DEF r
  <2> QED  BY <2>7, <2>8 DEF p, s
<1>4. ASSUME NEW a, NEW b, NEW c, NEW d, NEW e, NEW f
      PROVE  <<a, b, c, d, e, f>> = <<a>> ++ (<<b>> ++ (<<c>> ++ (<<d>> ++ (<<e>> ++ <<f>>))))
  <2> DEFINE p == <<a, b>>
             r == <<c, d, e, f>>
             s == <<a, b, c, d, e, f>>
  <2>1. /\ s \in Seq({a, b, c, d, e, f}) /\ Len(s) = 6 /\ s[1] = a /\ s[2] = b /\ s[3] = c
        /\ s[4] = d /\ s[5] = e /\ s[6] = f
    OBVIOUS
  <2>2. r \in Seq({c, d, e, f}) /\ Len(r) = 4 /\ r[1] = c /\ r[2] = d /\ r[3] = e /\ r[4] = f
    OBVIOUS
  <2>3. p \in Seq({a, b}) /\ Len(p) = 2 /\ p[1] = a /\ p[2] = b
    OBVIOUS
  <2>4. IsSeq(s) /\ IsSeq(r) /\ IsSeq(p)
    BY <2>1, <2>2, <2>3, SeqIsSeq
  <2> HIDE DEF p, r, s
  <2>5. IsSeq(p ++ r) /\ CatShape(p, r, p ++ r)
    BY <2>4, CatElems, CatLaws
  <2>6. /\ Len(p ++ r) = 6 /\ (p ++ r)[1] = a /\ (p ++ r)[2] = b
        /\ (p ++ r)[2 + 1] = c /\ (p ++ r)[2 + 2] = d /\ (p ++ r)[2 + 3] = e /\ (p ++ r)[2 + 4] = f
    BY <2>2, <2>3, <2>5 DEF CatShape
  <2>7. \A i \in 1..6 : s[i] = (p ++ r)[i]
    BY <2>1, <2>6
  <2>8. s = p ++ r
    BY <2>1, <2>4, <2>5, <2>6, <2>7, SeqEq
  <2>9. r = <<c>> ++ (<<d>> ++ (<<e>> ++ <<f>>)) /\ p = <<a>> ++ <<b>>
    BY <1>1, <1>3 DEF r, p
  <2>10. s = (<<a>> ++ <<b>>) ++ (<<c>> ++ (<<d>> ++ (<<e>> ++ <<f>>)))
    BY <2>8, <2>9
  <2>11. IsSeq(<<a>>) /\ IsSeq(<<b>>) /\ IsSeq(<<c>> ++ (<<d>> ++ (<<e>> ++ <<f>>)))
    BY CatLaws
  <2>12. s = <<a>> ++ (<<b>> ++ (<<c>> ++ (<<d>> ++ (<<e>> ++ <<f>>))))
    BY <2>10, <2>11, CatLaws
  <2> QED  BY <2>12 DEF s
<1> QED  BY <1>1, <1>2, <1>3, <1>4 DEF Four, Six

LEMMA SpellsTk ==
    /\ \A x : IsSeq(Tk(x)) /\ IsSeq(TkNum(x))
    /\ \A n : Spells(TkNum(n), TkNum(n))
    /\ Spells(Tk("EqualVerify"), Tk("Equal") ++ Tk("Verify"))
    /\ \A f \in Ops \ {"Verify"} : Spells(Tk(f), Tk(f))
<1>1. \A x : IsSeq(Tk(x)) /\ IsSeq(TkNum(x))
  BY CatLaws DEF Tk, TkNum
<1>2. ASSUME NEW n  PROVE Spells(TkNum(n), TkNum(n))
  <2>1. Simple(Num(n))
    BY Names DEF Simple, Num
  <2> QED  BY <2>1, SpellsLaws DEF TkNum
<1>3. Spells(Tk("EqualVerify"), Tk("Equal") ++ Tk("Verify"))
  <2>1. "Equal" \in DOMAIN VerifyForm /\ VerifyForm["Equal"] = "EqualVerify"
    BY DEF VerifyForm
  <2> QED  BY <2>1, SpellsLaws DEF Tk
<1>4. ASSUME NEW f \in Ops \ {"Verify"}  PROVE Spells(Tk(f), Tk(f))
  <2>1. CASE f \in DOMAIN VerifyForm
    BY <2>1, SpellsLaws DEF Tk
  <2>2. CASE f \notin DOMAIN VerifyForm
    <3>1. f \notin DOMAIN Merged
      BY Names DEF Ops
    <3>2. Simple(Op(f))
      BY <2>2, <3>1 DEF Simple, Op
    <3> QED  BY <3>2, SpellsLaws DEF Tk
  <2> QED  BY <2>1, <2>2
<1> QED  BY <1>1, <1>2, <1>3, <1>4
LEMMA EncodeWrap ==
    ASSUME NEW t, NEW sub, NEW v, Spells(sub[1], v)
    PROVE  LET e == encode_node(t, sub)
           IN  /\ t.frag = "Alt" => Spells(e, Tk("ToAltStack") ++ (v ++ Tk("FromAltStack")))
               /\ t.frag = "Swap" => Spells(e, Tk("Swap") ++ v)
               /\ t.frag = "Check" => Spells(e, v ++ Tk("CheckSig"))
               /\ t.frag = "DupIf" => Spells(e, Tk("Dup") ++ (Tk("If") ++ (v ++ Tk("EndIf"))))
               /\ t.frag = "Verify" => Spells(e, v ++ Tk("Verify"))
               /\ t.frag = "NonZero" =>
                    Spells(e, Tk("Size") ++ (Tk("ZeroNotEqual") ++ (Tk("If") ++ (v ++ Tk("EndIf")))))
               /\ t.frag = "ZeroNotEqual" => Spells(e, v ++ Tk("ZeroNotEqual"))
<1> DEFINE s == sub[1]
           e == encode_node(t, sub)
<1>0. IsSeq(s) /\ IsSeq(v)
  BY SpellsLaws
<1>1. ASSUME t.frag = "Alt"  PROVE Spells(e, Tk("ToAltStack") ++ (v ++ Tk("FromAltStack")))
  <2>1. e = (Tk("ToAltStack") ++ s) ++ Tk("FromAltStack")
    BY <1>1 DEF encode_node, HashFrags, ++, Tk
  <2>2. "ToAltStack" \in Ops \ {"Verify"} /\ "FromAltStack" \in Ops \ {"Verify"}
    BY DEF Ops
  <2> HIDE DEF e, s
  <2>3. e = Tk("ToAltStack") ++ (s ++ Tk("FromAltStack"))
    BY <1>0, <2>1, CatLaws, SpellsTk
  <2> QED  BY <2>2, <2>3, SpellsLaws, SpellsTk DEF s
<1>2. ASSUME t.frag = "Swap"  PROVE Spells(e, Tk("Swap") ++ v)
  <2>1. e = Tk("Swap") ++ s
    BY <1>2 DEF encode_node, HashFrags, ++, Tk
  <2>2. "Swap" \in Ops \ {"Verify"}
    BY DEF Ops
  <2> HIDE DEF e, s
  <2> QED  BY <2>1, <2>2, SpellsLaws, SpellsTk DEF s
<1>3. ASSUME t.frag = "Check"  PROVE Spells(e, v ++ Tk("CheckSig"))
  <2>1. e = Append(s, Op("CheckSig"))
    BY <1>3 DEF encode_node, HashFrags
  <2>2. "CheckSig" \in Ops \ {"Verify"}
    BY DEF Ops
  <2> HIDE DEF e, s
  <2>3. e = s ++ Tk("CheckSig")
    BY <1>0, <2>1, ConcatOne DEF ++, Tk
  <2> QED  BY <2>2, <2>3, SpellsLaws, SpellsTk DEF s
<1>4. ASSUME t.frag = "DupIf"  PROVE Spells(e, Tk("Dup") ++ (Tk("If") ++ (v ++ Tk("EndIf"))))
  <2>1. e = (<<Op("Dup"), Op("If")>> ++ s) ++ Tk("EndIf")
    BY <1>4 DEF encode_node, HashFrags, ++, Tk
  <2>2. "Dup" \in Ops \ {"Verify"} /\ "If" \in Ops \ {"Verify"} /\ "EndIf" \in Ops \ {"Verify"}
    BY DEF Ops
  <2>3. <<Op("Dup"), Op("If")>> = Tk("Dup") ++ Tk("If")
    BY Tuples DEF Tk
  <2> HIDE DEF e, s
  <2>4. e = Tk("Dup") ++ (Tk("If") ++ (s ++ Tk("EndIf")))
    BY <1>0, <2>1, <2>3, CatLaws, SpellsTk
  <2> QED  BY <2>2, <2>4, SpellsLaws, SpellsTk DEF s
<1>5. ASSUME t.frag = "Verify"  PROVE Spells(e, v ++ Tk("Verify"))
  <2>1. e = push_verify(s)
    BY <1>5 DEF encode_node, HashFrags
  <2> QED  BY <2>1, SpellsVerify DEF Tk
<1>6. ASSUME t.frag = "NonZero"
      PROVE  Spells(e, Tk("Size") ++ (Tk("ZeroNotEqual") ++ (Tk("If") ++ (v ++ Tk("EndIf")))))
  <2>1. e = (<<Op("Size"), Op("ZeroNotEqual"), Op("If")>> ++ s) ++ Tk("EndIf")
    BY <1>6 DEF encode_node, HashFrags, ++, Tk
  <2>2. /\ "Size" \in Ops \ {"Verify"} /\ "ZeroNotEqual" \in Ops \ {"Verify"}
        /\ "If" \in Ops \ {"Verify"} /\ "EndIf" \in Ops \ {"Verify"}
    BY DEF Ops
  <2>3. <<Op("Size"), Op("ZeroNotEqual"), Op("If")>> = Tk("Size") ++ (Tk("ZeroNotEqual") ++ Tk("If"))
    BY Tuples DEF Tk
  <2> HIDE DEF e, s
  <2>4. e = Tk("Size") ++ (Tk("ZeroNotEqual") ++ (Tk("If") ++ (s ++ Tk("EndIf"))))
    BY <1>0, <2>1, <2>3, CatLaws, SpellsTk
  <2> QED  BY <2>2, <2>4, SpellsLaws, SpellsTk DEF s
<1>7. ASSUME t.frag = "ZeroNotEqual"  PROVE Spells(e, v ++ Tk("ZeroNotEqual"))
  <2>1. e = Append(s, Op("ZeroNotEqual"))
    BY <1>7 DEF encode_node, HashFrags
  <2>2. "ZeroNotEqual" \in Ops \ {"Verify"}
    BY DEF Ops
  <2> HIDE DEF e, s
  <2>3. e = s ++ Tk("ZeroNotEqual")
    BY <1>0, <2>1, ConcatOne DEF ++, Tk
  <2> QED  BY <2>2, <2>3, SpellsLaws, SpellsTk DEF s
<1> QED  BY <1>1, <1>2, <1>3, <1>4, <1>5, <1>6, <1>7

LEMMA EncodeBinary ==
    ASSUME NEW t, NEW sub, NEW v, NEW w, Spells(sub[1], v), Spells(sub[2], w)
    PROVE  LET e == encode_node(t, sub)
           IN  /\ t.frag = "AndV" => Spells(e, v ++ w)
               /\ t.frag = "AndB" => Spells(e, v ++ (w ++ Tk("BoolAnd")))
               /\ t.frag = "OrB" => Spells(e, v ++ (w ++ Tk("BoolOr")))
               /\ t.frag = "OrC" => Spells(e, v ++ (Tk("NotIf") ++ (w ++ Tk("EndIf"))))
               /\ t.frag = "OrD" =>
                    Spells(e, v ++ (Tk("IfDup") ++ (Tk("NotIf") ++ (w ++ Tk("EndIf")))))
               /\ t.frag = "OrI" =>
                    Spells(e, Tk("If") ++ (v ++ (Tk("Else") ++ (w ++ Tk("EndIf")))))
<1> DEFINE s == sub[1]
           r == sub[2]
           e == encode_node(t, sub)
           O == Ops \ {"Verify"}
<1>0. IsSeq(s) /\ IsSeq(v) /\ IsSeq(r) /\ IsSeq(w)
  BY SpellsLaws
<1>1. /\ "BoolAnd" \in O /\ "BoolOr" \in O /\ "NotIf" \in O /\ "EndIf" \in O
      /\ "IfDup" \in O /\ "If" \in O /\ "Else" \in O
  BY DEF Ops
<1> HIDE DEF O
<1>2. \A f \in O : Spells(Tk(f), Tk(f))
  BY SpellsTk DEF O
<1>3. ASSUME t.frag = "AndV"  PROVE Spells(e, v ++ w)
  <2>1. e = s ++ r
    BY <1>3 DEF encode_node, HashFrags, ++, Tk
  <2> HIDE DEF e
  <2> QED  BY <2>1, SpellsLaws
<1>4. ASSUME t.frag = "AndB"  PROVE Spells(e, v ++ (w ++ Tk("BoolAnd")))
  <2>1. e = (s ++ r) ++ Tk("BoolAnd")
    BY <1>4 DEF encode_node, HashFrags, ++, Tk
  <2> HIDE DEF e, s, r
  <2>2. e = s ++ (r ++ Tk("BoolAnd"))
    BY <1>0, <2>1, CatLaws, SpellsTk
  <2> QED  BY <1>1, <1>2, <2>2, SpellsLaws DEF s, r
<1>5. ASSUME t.frag = "OrB"  PROVE Spells(e, v ++ (w ++ Tk("BoolOr")))
  <2>1. e = (s ++ r) ++ Tk("BoolOr")
    BY <1>5 DEF encode_node, HashFrags, ++, Tk
  <2> HIDE DEF e, s, r
  <2>2. e = s ++ (r ++ Tk("BoolOr"))
    BY <1>0, <2>1, CatLaws, SpellsTk
  <2> QED  BY <1>1, <1>2, <2>2, SpellsLaws DEF s, r
<1>6. ASSUME t.frag = "OrC"  PROVE Spells(e, v ++ (Tk("NotIf") ++ (w ++ Tk("EndIf"))))
  <2>1. e = ((s ++ Tk("NotIf")) ++ r) ++ Tk("EndIf")
    BY <1>6 DEF encode_node, HashFrags, ++, Tk
  <2> HIDE DEF e, s, r
  <2>2. e = s ++ (Tk("NotIf") ++ (r ++ Tk("EndIf")))
    BY <1>0, <2>1, CatLaws, SpellsTk
  <2> QED  BY <1>1, <1>2, <2>2, SpellsLaws DEF s, r
<1>7. ASSUME t.frag = "OrD"
      PROVE  Spells(e, v ++ (Tk("IfDup") ++ (Tk("NotIf") ++ (w ++ Tk("EndIf")))))
  <2>1. e = ((s ++ <<Op("IfDup"), Op("NotIf")>>) ++ r) ++ Tk("EndIf")
    BY <1>7 DEF encode_node, HashFrags, ++, Tk
  <2>2. <<Op("IfDup"), Op("NotIf")>> = Tk("IfDup") ++ Tk("NotIf")
    BY Tuples DEF Tk
  <2> HIDE DEF e, s, r
  <2>3. e = s ++ (Tk("IfDup") ++ (Tk("NotIf") ++ (r ++ Tk("EndIf"))))
    BY <1>0, <2>1, <2>2, CatLaws, SpellsTk
  <2> QED  BY <1>1, <1>2, <2>3, SpellsLaws DEF s, r
<1>8. ASSUME t.frag = "OrI"
      PROVE  Spells(e, Tk("If") ++ (v ++ (Tk("Else") ++ (w ++ Tk("EndIf")))))
  <2>1. e = (((Tk("If") ++ s) ++ Tk("Else")) ++ r) ++ Tk("EndIf")
    BY <1>8 DEF encode_node, HashFrags, ++, Tk
  <2> HIDE DEF e, s, r
  <2>2. e = Tk("If") ++ (s ++ (Tk("Else") ++ (r ++ Tk("EndIf"))))
    BY <1>0, <2>1, CatLaws, SpellsTk
  <2> QED  BY <1>1, <1>2, <2>2, SpellsLaws DEF s, r
<1> QED  BY <1>3, <1>4, <1>5, <1>6, <1>7, <1>8

LEMMA EncodeAndOr ==
    ASSUME NEW t, NEW sub, NEW v, NEW w, NEW x, Spells(sub[1], v), Spells(sub[2], w),
           Spells(sub[3], x), t.frag = "AndOr"
    PROVE  Spells(encode_node(t, sub),
                  v ++ (Tk("NotIf") ++ (x ++ (Tk("Else") ++ (w ++ Tk("EndIf"))))))
<1> DEFINE s == sub[1]
           r == sub[2]
           q == sub[3]
           e == encode_node(t, sub)
           O == Ops \ {"Verify"}
<1>0. IsSeq(s) /\ IsSeq(r) /\ IsSeq(q)
  BY SpellsLaws
<1>1. "NotIf" \in O /\ "EndIf" \in O /\ "Else" \in O
  BY DEF Ops
<1>2. e = ((((s ++ Tk("NotIf")) ++ q) ++ Tk("Else")) ++ r) ++ Tk("EndIf")
  BY DEF encode_node, HashFrags, ++, Tk
<1> HIDE DEF e, s, r, q
<1>3. e = s ++ (Tk("NotIf") ++ (q ++ (Tk("Else") ++ (r ++ Tk("EndIf")))))
  BY <1>0, <1>2, CatLaws, SpellsTk
<1>4. Spells(e, v ++ (Tk("NotIf") ++ (x ++ (Tk("Else") ++ (w ++ Tk("EndIf"))))))
  BY <1>1, <1>3, SpellsLaws, SpellsTk DEF s, r, q
<1> QED  BY <1>4 DEF e
LEMMA EncodeLeaf ==
    ASSUME NEW t, NEW sub
    PROVE  LET e == encode_node(t, sub)
               a == t.args[1]
           IN  /\ t.frag = "True" => Spells(e, TkNum(1))
               /\ t.frag = "False" => Spells(e, TkNum(0))
               /\ t.frag = "PkK" => Spells(e, <<PushKey(a)>>)
               /\ t.frag = "After" => Spells(e, TkNum(t.k) ++ Tk("CheckLockTimeVerify"))
               /\ t.frag = "Older" => Spells(e, TkNum(t.k) ++ Tk("CheckSequenceVerify"))
               /\ t.frag = "TxTemplate" =>
                    Spells(e, <<<<"Bytes32", a>>>> ++ (Tk("CheckTemplateVerify") ++ Tk("Drop")))
               /\ t.frag = "RawPkH" =>
                    Spells(e, Tk("Dup") ++ (Tk("Hash160") ++ (<<<<"Hash20", a>>>>
                                ++ (Tk("Equal") ++ Tk("Verify")))))
<1> DEFINE e == encode_node(t, sub)
           a == t.args[1]
           O == Ops \ {"Verify"}
<1>0. /\ "CheckLockTimeVerify" \in O /\ "CheckSequenceVerify" \in O
      /\ "CheckTemplateVerify" \in O /\ "Drop" \in O /\ "Dup" \in O /\ "Hash160" \in O
  BY DEF Ops
<1>1. ASSUME NEW x  PROVE Simple(<<"Bytes32", x>>) /\ Simple(<<"Hash20", x>>)
  BY Names DEF Simple
<1>2. Simple(PushKey(a))
  BY Names DEF Simple, PushKey
<1> HIDE DEF O
<1>3. \A f \in O : Spells(Tk(f), Tk(f))
  BY SpellsTk DEF O
<1>4. ASSUME t.frag = "True"  PROVE Spells(e, TkNum(1))
  <2>1. e = TkNum(1)
    BY <1>4 DEF encode_node, HashFrags, TkNum
  <2> QED  BY <2>1, SpellsTk
<1>5. ASSUME t.frag = "False"  PROVE Spells(e, TkNum(0))
  <2>1. e = TkNum(0)
    BY <1>5 DEF encode_node, HashFrags, TkNum
  <2> QED  BY <2>1, SpellsTk
<1>6. ASSUME t.frag = "PkK"  PROVE Spells(e, <<PushKey(a)>>)
  <2>1. e = <<PushKey(a)>>
    BY <1>6 DEF encode_node, HashFrags
  <2> QED  BY <1>2, <2>1, SpellsLaws
<1>7. ASSUME t.frag = "After"  PROVE Spells(e, TkNum(t.k) ++ Tk("CheckLockTimeVerify"))
  <2>1. e = <<Num(t.k), Op("CheckLockTimeVerify")>>
    BY <1>7 DEF encode_node, HashFrags
  <2>2. e = TkNum(t.k) ++ Tk("CheckLockTimeVerify")
    BY <2>1, Tuples DEF Tk, TkNum
  <2> HIDE DEF e
  <2> QED  BY <1>0, <1>3, <2>2, SpellsLaws, SpellsTk
<1>8. ASSUME t.frag = "Older"  PROVE Spells(e, TkNum(t.k) ++ Tk("CheckSequenceVerify"))
  <2>1. e = <<Num(t.k), Op("CheckSequenceVerify")>>
    BY <1>8 DEF encode_node, HashFrags
  <2>2. e = TkNum(t.k) ++ Tk("CheckSequenceVerify")
    BY <2>1, Tuples DEF Tk, TkNum
  <2> HIDE DEF e
  <2> QED  BY <1>0, <1>3, <2>2, SpellsLaws, SpellsTk
<1>9. ASSUME t.frag = "TxTemplate"
      PROVE  Spells(e, <<<<"Bytes32", a>>>> ++ (Tk("CheckTemplateVerify") ++ Tk("Drop")))
  <2>1. e = <<<<"Bytes32", a>>, Op("CheckTemplateVerify"), Op("Drop")>>
    BY <1>9 DEF encode_node, HashFrags
  <2>2. e = <<<<"Bytes32", a>>>> ++ (Tk("CheckTemplateVerify") ++ Tk("Drop"))
    BY <2>1, Tuples DEF Tk
  <2>3. Spells(<<<<"Bytes32", a>>>>, <<<<"Bytes32", a>>>>)
    BY <1>1, SpellsLaws
  <2> HIDE DEF e, a
  <2> QED  BY <1>0, <1>3, <2>2, <2>3, SpellsLaws
<1>10. ASSUME t.frag = "RawPkH"
       PROVE  Spells(e, Tk("Dup") ++ (Tk("Hash160") ++ (<<<<"Hash20", a>>>>
                                ++ (Tk("Equal") ++ Tk("Verify")))))
  <2>1. e = <<Op("Dup"), Op("Hash160"), <<"Hash20", a>>, Op("EqualVerify")>>
    BY <1>10 DEF encode_node, HashFrags
  <2>2. e = Tk("Dup") ++ (Tk("Hash160") ++ (<<<<"Hash20", a>>>> ++ Tk("EqualVerify")))
    <3> DEFINE w == Op("Dup")
               x == Op("Hash160")
               y == <<"Hash20", a>>
               z == Op("EqualVerify")
    <3>1. e = Four(w, x, y, z) /\ Tk("Dup") = <<w>> /\ Tk("Hash160") = <<x>> /\ Tk("EqualVerify") = <<z>>
      BY <2>1 DEF Tk, Four
    <3> HIDE DEF w, x, y, z, e
    <3>2. e = <<w>> ++ (<<x>> ++ (<<y>> ++ <<z>>))
      BY <3>1, Tuples
    <3> QED  BY <3>1, <3>2 DEF y
  <2>3. Spells(<<<<"Hash20", a>>>>, <<<<"Hash20", a>>>>)
    BY <1>1, SpellsLaws
  <2> HIDE DEF e, a
  <2> QED  BY <1>0, <1>3, <2>2, <2>3, SpellsLaws, SpellsTk
<1> QED  BY <1>4, <1>5, <1>6, <1>7, <1>8, <1>9, <1>10

HashPush(f, h) == <<<<IF f \in {"Sha256", "Hash256"} THEN "Bytes32" ELSE "Hash20", h>>>>

LEMMA EncodeHash ==
    ASSUME NEW t, NEW sub, t.frag \in HashFrags
    PROVE  Spells(encode_node(t, sub),
                  Tk("Size") ++ (TkNum(32) ++ (Tk("Equal") ++ (Tk("Verify") ++ (Tk(t.frag)
                        ++ (HashPush(t.frag, t.args[1]) ++ Tk("Equal")))))))
<1> DEFINE e == encode_node(t, sub)
           a == t.args[1]
           f == t.frag
           O == Ops \ {"Verify"}
<1>0. "Size" \in O /\ "Equal" \in O /\ f \in O
  BY DEF Ops, HashFrags
<1>1. Spells(HashPush(f, a), HashPush(f, a))
  <2> DEFINE x == <<IF f \in {"Sha256", "Hash256"} THEN "Bytes32" ELSE "Hash20", a>>
  <2>1. Simple(x)
    BY Names DEF Simple
  <2>2. HashPush(f, a) = <<x>>
    BY DEF HashPush
  <2> HIDE DEF x
  <2> QED  BY <2>1, <2>2, SpellsLaws
<1>2. e = hash_script(f, a)
  BY DEF encode_node, HashFrags
<1>3. e = Tk("Size") ++ (TkNum(32) ++ (Tk("EqualVerify") ++ (Tk(f) ++ (HashPush(f, a) ++ Tk("Equal")))))
  <2> DEFINE u == Op("Size")
             v == Num(32)
             w == Op("EqualVerify")
             x == Op(f)
             y == <<IF f \in {"Sha256", "Hash256"} THEN "Bytes32" ELSE "Hash20", a>>
             z == Op("Equal")
  <2>1. /\ e = Six(u, v, w, x, y, z) /\ Tk("Size") = <<u>> /\ TkNum(32) = <<v>>
        /\ Tk("EqualVerify") = <<w>> /\ Tk(f) = <<x>> /\ HashPush(f, a) = <<y>> /\ Tk("Equal") = <<z>>
    BY <1>2 DEF hash_script, HashPush, Tk, TkNum, Six
  <2> HIDE DEF u, v, w, x, y, z, e, a
  <2>2. e = <<u>> ++ (<<v>> ++ (<<w>> ++ (<<x>> ++ (<<y>> ++ <<z>>))))
    BY <2>1, Tuples
  <2> QED  BY <2>1, <2>2
<1>4. IsSeq(HashPush(f, a))
  BY <1>1, SpellsLaws
<1> HIDE DEF e, a, f
<1>5. Spells(e, Tk("Size") ++ (TkNum(32) ++ ((Tk("Equal") ++ Tk("Verify")) ++ (Tk(f)
                        ++ (HashPush(f, a) ++ Tk("Equal"))))))
  BY <1>0, <1>1, <1>3, SpellsLaws, SpellsTk
<1>6. IsSeq(Tk(f) ++ (HashPush(f, a) ++ Tk("Equal")))
  BY <1>4, CatLaws, SpellsTk
<1>7. (Tk("Equal") ++ Tk("Verify")) ++ (Tk(f) ++ (HashPush(f, a) ++ Tk("Equal")))
        = Tk("Equal") ++ (Tk("Verify") ++ (Tk(f) ++ (HashPush(f, a) ++ Tk("Equal"))))
  BY <1>6, CatLaws, SpellsTk
<1> QED  BY <1>5, <1>7 DEF e, a, f

Envelopes(args) == [i \in 1..Len(args) |-> <<"Inscription", args[i]>>]

LEMMA EnvelopesSpell ==
    ASSUME NEW args, IsSeq(args), Len(args) >= 1
    PROVE  /\ IsSeq(Envelopes(args)) /\ Len(Envelopes(args)) = Len(args)
           /\ \A i \in 1..Len(args) : Envelopes(args)[i] = <<"Inscription", args[i]>>
           /\ Spells(Envelopes(args), Envelopes(args))
<1> DEFINE n == Len(args)
           s == Envelopes(args)
<1>0. n \in Nat
  BY SeqForm
<1>1. s = [i \in 1..n |-> s[i]] /\ \A i \in 1..n : s[i] = <<"Inscription", args[i]>>
  BY DEF Envelopes
<1> HIDE DEF s
<1>2. IsSeq(s) /\ Len(s) = n
  BY <1>0, <1>1, FnSeq
<1>3. ASSUME NEW i \in 1..n  PROVE Simple(s[i])
  <2>1. s[i][1] = "Inscription"
    BY <1>1
  <2> QED  BY <2>1, Names DEF Simple
<1>4. Spells(s, s)
  BY <1>2, <1>3, SpellsSelf
<1> QED  BY <1>1, <1>2, <1>4 DEF s

LEMMA EncodeInscribe ==
    ASSUME NEW t, NEW sub, NEW v, Spells(sub[1], v), IsSeq(t.args), Len(t.args) >= 1
    PROVE  LET e == encode_node(t, sub)
           IN  /\ t.frag = "InscribePre" => Spells(e, Envelopes(t.args) ++ v)
               /\ t.frag = "InscribePost" => Spells(e, v ++ Envelopes(t.args))
<1> DEFINE e == encode_node(t, sub)
           env == Envelopes(t.args)
<1>1. DOMAIN t.args = 1..Len(t.args)
  BY SeqForm
<1>2. Spells(env, env)
  BY EnvelopesSpell
<1>3. ASSUME t.frag = "InscribePre"  PROVE Spells(e, env ++ v)
  <2>1. e = env ++ sub[1]
    BY <1>1, <1>3 DEF encode_node, HashFrags, ++, Envelopes
  <2> HIDE DEF e, env
  <2> QED  BY <1>2, <2>1, SpellsLaws
<1>4. ASSUME t.frag = "InscribePost"  PROVE Spells(e, v ++ env)
  <2>1. e = sub[1] ++ env
    BY <1>1, <1>4 DEF encode_node, HashFrags, ++, Envelopes
  <2> HIDE DEF e, env
  <2> QED  BY <1>2, <2>1, SpellsLaws
<1> QED  BY <1>3, <1>4
\* The n values from V[h] down, each followed by ADD.
AddParts(V, h, n) == [i \in 1..n |-> V[h + 1 - i] ++ Tk("Add")]
Adds(V, h, n) == ConcatAll(AddParts(V, h, n))

LEMMA AddPartsForm ==
    ASSUME NEW V, NEW h \in Int, NEW n \in Nat, \A i \in 1..n : IsSeq(V[h + 1 - i])
    PROVE  /\ IsSeq(AddParts(V, h, n)) /\ Len(AddParts(V, h, n)) = n
           /\ \A i \in 1..n : /\ AddParts(V, h, n)[i] = V[h + 1 - i] ++ Tk("Add")
                              /\ IsSeq(AddParts(V, h, n)[i])
<1> DEFINE s == AddParts(V, h, n)
<1>1. s = [i \in 1..n |-> s[i]] /\ \A i \in 1..n : s[i] = V[h + 1 - i] ++ Tk("Add")
  BY DEF AddParts
<1> HIDE DEF s
<1>2. IsSeq(s) /\ Len(s) = n
  BY <1>1, FnSeq
<1>3. \A i \in 1..n : IsSeq(s[i])
  BY <1>1, CatLaws, SpellsTk
<1> QED  BY <1>1, <1>2, <1>3 DEF s

LEMMA AddsForm ==
    ASSUME NEW V, NEW h \in Int, NEW n \in Nat, \A i \in 1..n : IsSeq(V[h + 1 - i])
    PROVE  /\ IsSeq(Adds(V, h, n))
           /\ n = 0 => Adds(V, h, n) = <<>>
           /\ n >= 1 => Adds(V, h, n) = V[h] ++ (Tk("Add") ++ Adds(V, h - 1, n - 1))
<1> DEFINE s == AddParts(V, h, n)
<1>1. /\ IsSeq(s) /\ Len(s) = n
      /\ \A i \in 1..n : s[i] = V[h + 1 - i] ++ Tk("Add") /\ IsSeq(s[i])
  BY AddPartsForm
<1>2. Adds(V, h, n) = ConcatAll(s)
  BY DEF Adds
<1> HIDE DEF s
<1>3. IsSeq(Adds(V, h, n))
  BY <1>1, <1>2, ConcatAllSeq
<1>4. ASSUME n = 0  PROVE Adds(V, h, n) = <<>>
  <2>1. s = <<>>
    BY <1>1, <1>4, EmptySeq DEF IsSeq
  <2> QED  BY <1>2, <2>1, ConcatAllNone
<1>5. ASSUME n >= 1  PROVE Adds(V, h, n) = V[h] ++ (Tk("Add") ++ Adds(V, h - 1, n - 1))
  <2> DEFINE g == h - 1
             k == n - 1
             r == AddParts(V, g, k)
  <2>1. k \in Nat /\ g \in Int /\ \A i \in 1..k : i + 1 \in 1..n /\ g + 1 - i = h + 1 - (i + 1)
    BY <1>5
  <2>2. \A i \in 1..k : IsSeq(V[g + 1 - i])
    BY <2>1
  <2> HIDE DEF g, k
  <2>3. /\ IsSeq(r) /\ Len(r) = k
        /\ \A i \in 1..k : r[i] = V[g + 1 - i] ++ Tk("Add") /\ IsSeq(r[i])
    BY <2>1, <2>2, AddPartsForm
  <2>4. Adds(V, g, k) = ConcatAll(r)
    BY DEF Adds
  <2> HIDE DEF r
  <2>5. IsSeq(Adds(V, g, k))
    BY <2>3, <2>4, ConcatAllSeq
  <2>6. \A i \in 1..Len(r) : r[i] = s[i + 1]
    BY <1>1, <2>1, <2>3
  <2>7. ConcatAll(s) = s[1] ++ ConcatAll(r)
    <3>1. Len(r) = Len(s) - 1 /\ Len(s) >= 1
      BY <1>1, <1>5, <2>3 DEF k
    <3> QED  BY <1>1, <2>3, <2>6, <3>1, ConcatAllCons
  <2>8. s[1] = V[h] ++ Tk("Add") /\ IsSeq(V[h])
    <3>1. 1 \in 1..n /\ h + 1 - 1 = h
      BY <1>5
    <3> QED  BY <1>1, <3>1
  <2>9. Adds(V, h, n) = (V[h] ++ Tk("Add")) ++ Adds(V, g, k)
    BY <1>2, <2>4, <2>7, <2>8
  <2>10. Adds(V, h, n) = V[h] ++ (Tk("Add") ++ Adds(V, g, k))
    BY <2>5, <2>8, <2>9, CatLaws, SpellsTk
  <2> QED  BY <2>10 DEF g, k
<1> QED  BY <1>3, <1>4, <1>5

LEMMA EncodeThresh ==
    ASSUME NEW t, NEW sub, t.frag = "Thresh", NEW n \in Nat, n >= 1, sub = [i \in 1..n |-> sub[i]],
           NEW V, NEW m \in Int, \A i \in 1..n : Spells(sub[i], V[m + 1 - i])
    PROVE  Spells(encode_node(t, sub),
                  V[m] ++ (Adds(V, m - 1, n - 1) ++ (TkNum(t.k) ++ Tk("Equal"))))
<1> DEFINE p == [i \in DOMAIN sub |-> IF i = 1 THEN sub[1] ELSE Append(sub[i], Op("Add"))]
           q == [i \in 1..n |-> IF i = 1 THEN V[m] ELSE V[m + 1 - i] ++ Tk("Add")]
           e == encode_node(t, sub)
<1>0. \A i \in 1..n : IsSeq(sub[i]) /\ IsSeq(V[m + 1 - i])
  BY SpellsLaws
<1>00. 1 \in 1..n /\ m + 1 - 1 = m
  OBVIOUS
<1>1. e = ConcatAll(p) ++ <<Num(t.k), Op("Equal")>>
  BY DEF encode_node, HashFrags, ++
<1>2. e = ConcatAll(p) ++ (TkNum(t.k) ++ Tk("Equal"))
  BY <1>1, Tuples DEF Tk, TkNum
<1>3. p = [i \in 1..n |-> p[i]] /\ DOMAIN sub = 1..n
  <2>1. DOMAIN sub = 1..n
    OBVIOUS
  <2> QED  BY <2>1
<1>4. \A i \in 1..n : p[i] = IF i = 1 THEN sub[1] ELSE Append(sub[i], Op("Add"))
  BY <1>3
<1>5. q = [i \in 1..n |-> q[i]] /\ \A i \in 1..n : q[i] = IF i = 1 THEN V[m] ELSE V[m + 1 - i] ++ Tk("Add")
  OBVIOUS
<1> HIDE DEF p, q, e
<1>6. IsSeq(p) /\ Len(p) = n /\ IsSeq(q) /\ Len(q) = n
  BY <1>3, <1>5, FnSeq
<1>7. ASSUME NEW i \in 1..n  PROVE Spells(p[i], q[i])
  <2>1. CASE i = 1
    <3>1. p[i] = sub[1] /\ q[i] = V[m] /\ Spells(sub[1], V[m])
      BY <1>00, <1>4, <1>5, <2>1
    <3> QED  BY <3>1
  <2>2. CASE i # 1
    <3>1. p[i] = Append(sub[i], Op("Add")) /\ q[i] = V[m + 1 - i] ++ Tk("Add")
      BY <1>4, <1>5, <2>2
    <3>2. p[i] = sub[i] ++ Tk("Add")
      BY <1>0, <3>1, ConcatOne DEF ++, Tk
    <3>3. Spells(sub[i], V[m + 1 - i]) /\ "Add" \in Ops \ {"Verify"}
      BY DEF Ops
    <3> QED  BY <3>1, <3>2, <3>3, SpellsLaws, SpellsTk
  <2> QED  BY <2>1, <2>2
<1>8. Spells(ConcatAll(p), ConcatAll(q))
  BY <1>6, <1>7, SpellsConcat
<1>9. ConcatAll(q) = V[m] ++ Adds(V, m - 1, n - 1)
  <2> DEFINE g == m - 1
             k == n - 1
             r == AddParts(V, g, k)
  <2>1. k \in Nat /\ g \in Int /\ \A i \in 1..k : i + 1 \in 1..n /\ i + 1 # 1 /\ g + 1 - i = m + 1 - (i + 1)
    OBVIOUS
  <2>2. \A i \in 1..k : IsSeq(V[g + 1 - i])
    BY <1>0, <2>1
  <2>0. k = n - 1 /\ g = m - 1
    OBVIOUS
  <2> HIDE DEF g, k
  <2>3. /\ IsSeq(r) /\ Len(r) = k
        /\ \A i \in 1..k : r[i] = V[g + 1 - i] ++ Tk("Add") /\ IsSeq(r[i])
    BY <2>1, <2>2, AddPartsForm
  <2>4. Adds(V, g, k) = ConcatAll(r)
    BY DEF Adds
  <2> HIDE DEF r
  <2>5. \A i \in 1..Len(r) : r[i] = q[i + 1]
    <3>1. ASSUME NEW i \in 1..k  PROVE r[i] = q[i + 1]
      <4>1. i + 1 \in 1..n /\ i + 1 # 1 /\ g + 1 - i = m + 1 - (i + 1)
        BY <2>1
      <4>2. q[i + 1] = V[m + 1 - (i + 1)] ++ Tk("Add")
        BY <1>5, <4>1
      <4>3. r[i] = V[g + 1 - i] ++ Tk("Add")
        BY <2>3
      <4> QED  BY <4>1, <4>2, <4>3
    <3> QED  BY <2>3, <3>1
  <2>6. \A i \in 1..n : IsSeq(q[i])
    BY <1>7, SpellsLaws
  <2>7. ConcatAll(q) = q[1] ++ ConcatAll(r)
    <3>1. Len(r) = Len(q) - 1 /\ Len(q) >= 1
      BY <1>6, <2>0, <2>3
    <3> QED  BY <1>6, <2>3, <2>5, <2>6, <3>1, ConcatAllCons
  <2>8. q[1] = V[m]
    BY <1>00, <1>5
  <2> QED  BY <2>4, <2>7, <2>8 DEF g, k
<1> DEFINE A == Adds(V, m - 1, n - 1)
<1>10. IsSeq(A) /\ IsSeq(V[m])
  <2>1. IsSeq(V[m])
    BY <1>0, <1>00
  <2>2. m - 1 \in Int /\ n - 1 \in Nat /\ \A i \in 1..(n - 1) : i + 1 \in 1..n /\ (m - 1) + 1 - i = m + 1 - (i + 1)
    OBVIOUS
  <2>3. \A i \in 1..(n - 1) : IsSeq(V[(m - 1) + 1 - i])
    BY <1>0, <2>2
  <2> QED  BY <2>1, <2>2, <2>3, AddsForm
<1> HIDE DEF A
<1>11. "Equal" \in Ops \ {"Verify"}
  BY DEF Ops
<1>12. Spells(e, (V[m] ++ A) ++ (TkNum(t.k) ++ Tk("Equal")))
  BY <1>2, <1>8, <1>9, <1>11, SpellsLaws, SpellsTk DEF A
<1>13. (V[m] ++ A) ++ (TkNum(t.k) ++ Tk("Equal")) = V[m] ++ (A ++ (TkNum(t.k) ++ Tk("Equal")))
  BY <1>10, CatLaws, SpellsTk
<1> QED  BY <1>12, <1>13 DEF A, e
KeyPushes(args) == [i \in 1..Len(args) |-> PushKey(args[i])]

LEMMA KeyPushesForm ==
    ASSUME NEW args, IsSeq(args)
    PROVE  /\ IsSeq(KeyPushes(args)) /\ Len(KeyPushes(args)) = Len(args)
           /\ \A i \in 1..Len(args) : /\ KeyPushes(args)[i] = PushKey(args[i])
                                      /\ Simple(KeyPushes(args)[i])
<1> DEFINE n == Len(args)
           s == KeyPushes(args)
<1>0. n \in Nat
  BY SeqForm
<1>1. s = [i \in 1..n |-> s[i]] /\ \A i \in 1..n : s[i] = PushKey(args[i])
  BY DEF KeyPushes
<1>2. \A k : Simple(PushKey(k))
  BY Names DEF Simple, PushKey
<1> HIDE DEF s
<1>3. IsSeq(s) /\ Len(s) = n
  BY <1>0, <1>1, FnSeq
<1> QED  BY <1>1, <1>2, <1>3 DEF s

LEMMA EncodeMulti ==
    ASSUME NEW t, NEW sub, t.frag = "Multi", IsSeq(t.args), Len(t.args) >= 1
    PROVE  Spells(encode_node(t, sub),
                  TkNum(t.k) ++ (KeyPushes(t.args) ++ (TkNum(Len(t.args)) ++ Tk("CheckMultiSig"))))
<1> DEFINE p == KeyPushes(t.args)
           n == Len(t.args)
           e == encode_node(t, sub)
<1>1. /\ IsSeq(p) /\ Len(p) = n /\ \A i \in 1..n : p[i] = PushKey(t.args[i]) /\ Simple(p[i])
  BY KeyPushesForm
<1>2. DOMAIN t.args = 1..n /\ DOMAIN p = 1..n
  BY <1>1, SeqForm
<1>3. Spells(p, p)
  BY <1>1, SpellsSelf
<1>4. [i \in DOMAIN t.args |-> <<PushKey(t.args[i])>>] = [i \in DOMAIN p |-> <<p[i]>>]
  <2> HIDE DEF p
  <2> QED  BY <1>1, <1>2
<1>5. e = (TkNum(t.k) ++ ConcatAll([i \in DOMAIN t.args |-> <<PushKey(t.args[i])>>]))
                ++ <<Num(n), Op("CheckMultiSig")>>
  BY DEF encode_node, HashFrags, ++, TkNum
<1>6. ConcatAll([i \in DOMAIN p |-> <<p[i]>>]) = p
  BY <1>1, ConcatSingles
<1>7. <<Num(n), Op("CheckMultiSig")>> = TkNum(n) ++ Tk("CheckMultiSig")
  BY Tuples DEF Tk, TkNum
<1>8. e = (TkNum(t.k) ++ p) ++ (TkNum(n) ++ Tk("CheckMultiSig"))
  BY <1>4, <1>5, <1>6, <1>7
<1>9. "CheckMultiSig" \in Ops \ {"Verify"}
  BY DEF Ops
<1> HIDE DEF e, p, n
<1>10. e = TkNum(t.k) ++ (p ++ (TkNum(n) ++ Tk("CheckMultiSig")))
  BY <1>1, <1>8, CatLaws, SpellsTk
<1> QED  BY <1>3, <1>9, <1>10, SpellsLaws, SpellsTk DEF e, p, n

\* The keys of a multi_a, each followed by the opcode that counts it.
KeyChecks(args) ==
    [i \in 1..Len(args) |-> <<PushKey(args[i])>> ++ Tk(IF i = 1 THEN "CheckSig" ELSE "CheckSigAdd")]

LEMMA EncodeMultiA ==
    ASSUME NEW t, NEW sub, t.frag = "MultiA", IsSeq(t.args), Len(t.args) >= 1
    PROVE  /\ Spells(encode_node(t, sub), ConcatAll(KeyChecks(t.args)) ++ (TkNum(t.k) ++ Tk("NumEqual")))
           /\ IsSeq(ConcatAll(KeyChecks(t.args)))
<1> DEFINE n == Len(t.args)
           q == KeyChecks(t.args)
           e == encode_node(t, sub)
           keys == [i \in DOMAIN t.args |-> <<PushKey(t.args[i])>>]
           op(i) == IF i = 1 THEN "CheckSig" ELSE "CheckSigAdd"
           p == [i \in DOMAIN keys |-> Append(keys[i], Op(op(i)))]
<1>1. n \in Nat /\ DOMAIN t.args = 1..n
  BY SeqForm
<1>2. e = ConcatAll(p) ++ <<Num(t.k), Op("NumEqual")>>
  BY DEF encode_node, HashFrags, ++
<1>3. <<Num(t.k), Op("NumEqual")>> = TkNum(t.k) ++ Tk("NumEqual")
  BY Tuples DEF Tk, TkNum
<1>4. q = [i \in 1..n |-> q[i]] /\ \A i \in 1..n : q[i] = <<PushKey(t.args[i])>> ++ Tk(op(i))
  BY DEF KeyChecks
<1>5. \A i \in 1..n : op(i) \in Ops \ {"Verify"}
  BY DEF Ops
<1>6. p = [i \in 1..n |-> Append(<<PushKey(t.args[i])>>, Op(op(i)))]
  BY <1>1
<1> HIDE DEF p, q, e, keys
<1>7. p = q
  <2>1. \A i \in 1..n : Append(<<PushKey(t.args[i])>>, Op(op(i))) = <<PushKey(t.args[i])>> ++ Tk(op(i))
    <3> HIDE DEF op
    <3>1. ASSUME NEW x, NEW y  PROVE Append(<<x>>, y) = <<x>> ++ <<y>>
      BY CatLaws, ConcatOne DEF ++
    <3> QED  BY <3>1 DEF Tk
  <2> HIDE DEF op
  <2> QED  BY <1>4, <1>6, <2>1
<1>8. IsSeq(q) /\ Len(q) = n
  BY <1>1, <1>4, FnSeq
<1>9. ASSUME NEW i \in 1..n  PROVE Spells(q[i], q[i])
  <2>1. Simple(PushKey(t.args[i]))
    BY Names DEF Simple, PushKey
  <2>2. Spells(<<PushKey(t.args[i])>>, <<PushKey(t.args[i])>>)
    BY <2>1, SpellsLaws
  <2>3. Spells(Tk(op(i)), Tk(op(i)))
    <3> HIDE DEF op
    <3> QED  BY <1>5, SpellsTk
  <2> HIDE DEF op
  <2>4. q[i] = <<PushKey(t.args[i])>> ++ Tk(op(i))
    BY <1>4
  <2> QED  BY <2>2, <2>3, <2>4, SpellsLaws
<1>10. Spells(ConcatAll(q), ConcatAll(q))
  BY <1>8, <1>9, SpellsConcat
<1>11. "NumEqual" \in Ops \ {"Verify"}
  BY DEF Ops
<1>12. e = ConcatAll(q) ++ (TkNum(t.k) ++ Tk("NumEqual"))
  BY <1>2, <1>3, <1>7
<1>13. Spells(e, ConcatAll(q) ++ (TkNum(t.k) ++ Tk("NumEqual"))) /\ IsSeq(ConcatAll(q))
  BY <1>10, <1>11, <1>12, SpellsLaws, SpellsTk
<1> QED  BY <1>13 DEF q, e
-----------------------------------------------------------------------------
(* The arena. *)

\* E holds the script of each node.
Arena(ns, E) ==
    \A i \in 1..Len(ns) :
        /\ E[i] = encode_node(ns[i], [j \in DOMAIN ns[i].subs |-> E[ns[i].subs[j]]])
        /\ Neat(E[i])

LEMMA ArenaIs ==
    ASSUME NEW ns, NodesOK(ns), NEW E, Arena(ns, E), NEW r \in 1..Len(ns)
    PROVE  encode(ns, r) = E[r]
<1> DEFINE n == Len(ns)
           Node(f, i) == encode_node(ns[i], [j \in DOMAIN ns[i].subs |-> f[ns[i].subs[j]]])
           Is(f) == f = [i \in DOMAIN ns |-> Node(f, i)]
           g == CHOOSE f : Is(f)
           F == [i \in 1..n |-> E[i]]
<1>0. n \in Nat /\ DOMAIN ns = 1..n
  BY SeqForm DEF NodesOK
<1>1. encode(ns, r) = g[r]
  BY DEF encode
<1>2. \A i \in 1..n : \A j \in DOMAIN ns[i].subs : ns[i].subs[j] \in 1..n /\ ns[i].subs[j] < i
  BY <1>0 DEF NodesOK, NodeOK
<1>3. Is(F)
  <2>1. ASSUME NEW i \in 1..n  PROVE F[i] = Node(F, i)
    <3>1. [j \in DOMAIN ns[i].subs |-> F[ns[i].subs[j]]] = [j \in DOMAIN ns[i].subs |-> E[ns[i].subs[j]]]
      BY <1>2
    <3>2. F[i] = E[i] /\ E[i] = Node(E, i)
      BY DEF Arena
    <3> QED  BY <3>1, <3>2
  <2>2. F = [i \in 1..n |-> F[i]]
    OBVIOUS
  <2> HIDE DEF F
  <2>3. F = [i \in 1..n |-> Node(F, i)]
    <3> HIDE DEF Node
    <3> QED  BY <2>1, <2>2
  <2> QED  BY <1>0, <2>3
<1>4. Is(g)
  <2> HIDE DEF F, Is
  <2> QED  BY <1>3
<1>5. \A i \in 1..n : g[i] = Node(g, i) /\ F[i] = Node(F, i)
  <2> HIDE DEF g, F, Node
  <2> QED  BY <1>0, <1>3, <1>4
<1> DEFINE T == {i \in 1..n : g[i] # F[i]}
<1>6. T = {}
  <2> HIDE DEF g, F, Is
  <2> SUFFICES ASSUME T # {}  PROVE FALSE
    OBVIOUS
  <2>1. T \in SUBSET Nat
    BY <1>0
  <2> HIDE DEF T
  <2>2. PICK x \in T : \A y \in T : x <= y
    BY <2>1, NatMin
  <2>3. x \in 1..n /\ g[x] # F[x]
    BY <2>2 DEF T
  <2>4. \A j \in DOMAIN ns[x].subs : g[ns[x].subs[j]] = F[ns[x].subs[j]]
    <3> SUFFICES ASSUME NEW j \in DOMAIN ns[x].subs, g[ns[x].subs[j]] # F[ns[x].subs[j]]  PROVE FALSE
      OBVIOUS
    <3>1. ns[x].subs[j] \in 1..n /\ ns[x].subs[j] < x
      BY <1>2, <2>3
    <3>2. ns[x].subs[j] \in T
      BY <3>1 DEF T
    <3>3. x <= ns[x].subs[j]
      BY <2>2, <3>2
    <3> QED  BY <2>3, <3>1, <3>3
  <2>5. [j \in DOMAIN ns[x].subs |-> g[ns[x].subs[j]]] = [j \in DOMAIN ns[x].subs |-> F[ns[x].subs[j]]]
    BY <2>4
  <2>6. g[x] = F[x]
    BY <1>5, <2>3, <2>5
  <2> QED  BY <2>3, <2>6
<1>7. g[r] = F[r]
  <2> HIDE DEF g, F, Is
  <2> QED  BY <1>6
<1>8. F[r] = E[r]
  OBVIOUS
<1> HIDE DEF g, F
<1> QED  BY <1>1, <1>7, <1>8

\* The scripts of the operands of a node, and the script s for a new one.
Subs(a, E) == [j \in DOMAIN a.subs |-> E[a.subs[j]]]
Grown(E, n, s) == [i \in 1..(n + 1) |-> IF i = n + 1 THEN s ELSE E[i]]

LEMMA ArenaAppend ==
    ASSUME NEW ns, NodesOK(ns), NEW E, Arena(ns, E), NEW a, a.subs \in Seq(1..Len(ns)),
           NEW s, s = encode_node(a, Subs(a, E)), Neat(s)
    PROVE  LET F == Grown(E, Len(ns), s)
           IN  Arena(Append(ns, a), F) /\ F[Len(ns) + 1] = s /\ \A i \in 1..Len(ns) : F[i] = E[i]
<1> DEFINE n == Len(ns)
           F == Grown(E, n, s)
           nt == Append(ns, a)
<1>0. n \in Nat /\ DOMAIN ns = 1..n
  BY SeqForm DEF NodesOK
<1>1. Len(nt) = n + 1 /\ nt[n + 1] = a /\ \A i \in 1..n : nt[i] = ns[i]
  BY DEF NodesOK, IsSeq
<1>2. F[n + 1] = s /\ \A i \in 1..n : F[i] = E[i]
  BY <1>0 DEF Grown
<1> HIDE DEF F, nt
<1>3. ASSUME NEW i \in 1..(n + 1)
      PROVE  F[i] = encode_node(nt[i], [j \in DOMAIN nt[i].subs |-> F[nt[i].subs[j]]]) /\ Neat(F[i])
  <2>1. CASE i = n + 1
    <3>1. DOMAIN a.subs = 1..Len(a.subs) /\ \A j \in DOMAIN a.subs : a.subs[j] \in 1..n
      OBVIOUS
    <3>2. [j \in DOMAIN a.subs |-> F[a.subs[j]]] = [j \in DOMAIN a.subs |-> E[a.subs[j]]]
      BY <1>2, <3>1
    <3> QED  BY <1>1, <1>2, <2>1, <3>2 DEF Subs
  <2>2. CASE i # n + 1
    <3>1. i \in 1..n
      BY <1>0, <2>2
    <3>2. \A j \in DOMAIN ns[i].subs : ns[i].subs[j] \in 1..n
      BY <1>0, <3>1 DEF NodesOK, NodeOK
    <3>3. [j \in DOMAIN ns[i].subs |-> F[ns[i].subs[j]]] = [j \in DOMAIN ns[i].subs |-> E[ns[i].subs[j]]]
      BY <1>2, <3>2
    <3>4. E[i] = encode_node(ns[i], [j \in DOMAIN ns[i].subs |-> E[ns[i].subs[j]]]) /\ Neat(E[i])
      BY <3>1 DEF Arena
    <3> QED  BY <1>1, <1>2, <3>1, <3>3, <3>4
  <2> QED  BY <2>1, <2>2
<1>4. Arena(nt, F)
  BY <1>1, <1>3 DEF Arena
<1> QED  BY <1>2, <1>4 DEF F, nt
-----------------------------------------------------------------------------
(* What the non-terminals still to do stand for.  V holds the tokens of the *)
(* expressions on term, the last one being the leftmost in the script.      *)

BoolTk(e) == Tk(IF e[1] = "AndB" THEN "BoolAnd" ELSE "BoolOr")

HoleKinds == {"MaybeAndV", "InscribePre", "Swap", "Alt", "Check", "Verify", "ZeroNotEqual",
              "EndIf", "InscribePost", "AndV", "AndB", "OrB", "OrC", "OrD", "EndIfElse",
              "Tern", "ThreshW", "ThreshE"}

HasArgs(e) == e[1] = "InscribePost" => IsSeq(e[2]) /\ Len(e[2]) >= 1

\* A non-terminal that may have others above it, which leave one expression.
Waits(e) == e[1] \in HoleKinds /\ Pops(e) \in Nat /\ Pops(e) >= 1 /\ HasArgs(e)

ThreshEnd(e) == TkNum(e[2]) ++ Tk("Equal")

\* What comes in the script after the expression V[h] that e waits for.
After(e, V, h) ==
    CASE e[1] \in {"MaybeAndV", "InscribePre", "Swap"} -> <<>>
      [] e[1] = "Alt" -> Tk("FromAltStack")
      [] e[1] = "Check" -> Tk("CheckSig")
      [] e[1] \in {"Verify", "ZeroNotEqual", "EndIf"} -> Tk(e[1])
      [] e[1] = "InscribePost" -> Envelopes(e[2])
      [] e[1] = "AndV" -> V[h - 1]
      [] e[1] \in {"AndB", "OrB"} -> V[h - 1] ++ BoolTk(e)
      [] e[1] = "OrC" -> Tk("NotIf") ++ (V[h - 1] ++ Tk("EndIf"))
      [] e[1] = "OrD" -> Tk("IfDup") ++ (Tk("NotIf") ++ (V[h - 1] ++ Tk("EndIf")))
      [] e[1] = "EndIfElse" -> Tk("Else") ++ (V[h - 1] ++ Tk("EndIf"))
      [] e[1] = "Tern" ->
            Tk("NotIf") ++ (V[h - 1] ++ (Tk("Else") ++ (V[h - 2] ++ Tk("EndIf"))))
      [] e[1] = "ThreshW" -> Tk("Add") ++ (Adds(V, h - 1, e[3] - 1) ++ ThreshEnd(e))
      [] OTHER -> Adds(V, h - 1, e[3] - 1) ++ ThreshEnd(e)

LEMMA AfterSeq ==
    ASSUME NEW e, Waits(e), NEW V, NEW h \in Nat, h >= Pops(e), \A i \in 1..(h - 1) : IsSeq(V[i])
    PROVE  IsSeq(After(e, V, h))
<1>1. CASE e[1] \in {"AndV", "EndIfElse", "AndB", "OrB", "OrC", "OrD", "Tern"}
  <2>1. Pops(e) >= 2 /\ (e[1] = "Tern" => Pops(e) = 3)
    BY <1>1 DEF Pops
  <2>2. h - 1 \in 1..(h - 1) /\ (e[1] = "Tern" => h - 2 \in 1..(h - 1))
    BY <2>1 DEF Waits
  <2>3. IsSeq(V[h - 1]) /\ (e[1] = "Tern" => IsSeq(V[h - 2]))
    BY <2>2
  <2> QED  BY <1>1, <2>3, CatLaws, SpellsTk DEF After, BoolTk
<1>2. CASE e[1] \in {"ThreshW", "ThreshE"}
  <2> DEFINE g == h - 1
             k == e[3] - 1
  <2>1. Pops(e) = e[3]
    BY <1>2 DEF Pops
  <2>2. g \in Int /\ k \in Nat /\ \A i \in 1..k : g + 1 - i \in 1..(h - 1)
    BY <2>1 DEF Waits
  <2>3. \A i \in 1..k : IsSeq(V[g + 1 - i])
    BY <2>2
  <2> HIDE DEF g, k
  <2>4. IsSeq(Adds(V, g, k))
    BY <2>2, <2>3, AddsForm
  <2>5. IsSeq(ThreshEnd(e))
    BY CatLaws, SpellsTk DEF ThreshEnd
  <2>6. \/ After(e, V, h) = Tk("Add") ++ (Adds(V, g, k) ++ ThreshEnd(e))
        \/ After(e, V, h) = Adds(V, g, k) ++ ThreshEnd(e)
    BY <1>2 DEF After, g, k
  <2> QED  BY <2>4, <2>5, <2>6, CatLaws, SpellsTk
<1>3. CASE e[1] = "InscribePost"
  BY <1>3, EnvelopesSpell DEF After, Waits, HasArgs
<1>4. CASE e[1] \in {"MaybeAndV", "InscribePre", "Swap", "Alt", "Check", "Verify", "ZeroNotEqual", "EndIf"}
  BY <1>4, CatLaws, SpellsTk DEF After
<1> QED  BY <1>1, <1>2, <1>3, <1>4 DEF Waits, HoleKinds

LEMMA AfterV ==
    ASSUME NEW e, Waits(e), NEW V, NEW U, NEW h \in Nat, h >= Pops(e), \A i \in 1..(h - 1) : U[i] = V[i]
    PROVE  After(e, U, h) = After(e, V, h)
<1>1. CASE e[1] \in {"AndV", "EndIfElse", "AndB", "OrB", "OrC", "OrD", "Tern"}
  <2>1. Pops(e) >= 2 /\ (e[1] = "Tern" => Pops(e) = 3)
    BY <1>1 DEF Pops
  <2>2. h - 1 \in 1..(h - 1) /\ (e[1] = "Tern" => h - 2 \in 1..(h - 1))
    BY <2>1 DEF Waits
  <2>3. U[h - 1] = V[h - 1] /\ (e[1] = "Tern" => U[h - 2] = V[h - 2])
    BY <2>2
  <2> QED  BY <1>1, <2>3 DEF After
<1>2. CASE e[1] \in {"ThreshW", "ThreshE"}
  <2> DEFINE g == h - 1
             k == e[3] - 1
  <2>1. Pops(e) = e[3]
    BY <1>2 DEF Pops
  <2>2. g \in Int /\ k \in Nat /\ \A i \in 1..k : g + 1 - i \in 1..(h - 1)
    BY <2>1 DEF Waits
  <2>3. \A i \in 1..k : U[g + 1 - i] = V[g + 1 - i]
    BY <2>2
  <2> HIDE DEF g, k
  <2>4. AddParts(U, g, k) = AddParts(V, g, k)
    BY <2>3 DEF AddParts
  <2>5. Adds(U, g, k) = Adds(V, g, k)
    BY <2>4 DEF Adds
  <2> QED  BY <1>2, <2>5 DEF After, g, k
<1>3. CASE e[1] \in {"MaybeAndV", "InscribePre", "Swap", "Alt", "Check", "Verify", "ZeroNotEqual", "EndIf", "InscribePost"}
  BY <1>3 DEF After
<1> QED  BY <1>1, <1>2, <1>3 DEF Waits, HoleKinds
\* How the j-th non-terminal continues the ones below it: it waits for one
\* expression, or it is the first operand of the conjunction below it.
Hole(nt, V, J, H, W, j) ==
    /\ j - 1 \in J
    /\ Waits(nt[j])
    /\ H[j] = H[j - 1] - 1 + Pops(nt[j])
    /\ W[j] = After(nt[j], V, H[j]) ++ W[j - 1]

Pair(nt, J, H, W, j) ==
    /\ j >= 2 /\ j - 2 \in J
    /\ nt[j][1] = "Expression"
    /\ Waits(nt[j - 1]) /\ nt[j - 1][1] \in {"AndB", "OrB"}
    /\ H[j] = H[j - 2]
    /\ W[j] = BoolTk(nt[j - 1]) ++ W[j - 2]

\* H[j] is the height of the stack and W[j] the tokens that follow once only
\* the first j non-terminals are left.
Chain(nt, V, J, H, W, n) ==
    /\ n \in J /\ 0 \in J
    /\ \A j \in J : /\ j \in 0..n /\ H[j] \in Nat /\ H[j] >= 1 /\ IsSeq(W[j])
                    /\ \A i \in J : i <= j => H[i] <= H[j]
    /\ H[0] = 1 /\ W[0] = <<>>
    /\ \A j \in J : j # 0 => Hole(nt, V, J, H, W, j) \/ Pair(nt, J, H, W, j)

\* With V[q] the expression they wait for, w follows it in the script.
Cont(nt, V, q, w) ==
    IsSeq(nt) /\ \E J, H, W : Chain(nt, V, J, H, W, Len(nt)) /\ H[Len(nt)] = q /\ W[Len(nt)] = w

LEMMA ContNat ==
    ASSUME NEW nt, NEW V, NEW q, NEW w, Cont(nt, V, q, w)
    PROVE  IsSeq(nt) /\ q \in Nat /\ q >= 1 /\ IsSeq(w)
  BY DEF Cont, Chain

LEMMA ContEmpty ==
    ASSUME NEW V
    PROVE  Cont(<<>>, V, 1, <<>>)
<1> DEFINE J == {0}
           H == [j \in {0} |-> 1]
           W == [j \in {0} |-> <<>>]
<1>1. IsSeq(<<>>) /\ Len(<<>>) = 0
  BY ShortSeqs
<1>2. Chain(<<>>, V, J, H, W, 0)
  BY <1>1 DEF Chain
<1> QED  BY <1>1, <1>2 DEF Cont

\* The chain seen from a later one that agrees with it.
LEMMA ChainStep ==
    ASSUME NEW a, NEW b, NEW V, NEW U, NEW J, NEW H, NEW W, NEW n \in Nat, Chain(a, V, J, H, W, n),
           \A i \in 1..n : b[i] = a[i],
           \A i \in 1..(H[n] - 1) : U[i] = V[i],
           NEW J2, NEW H2, NEW W2, J \subseteq J2,
           \A j \in J : H2[j] = H[j] /\ W2[j] = W[j],
           NEW j \in J, j # 0
    PROVE  Hole(b, U, J2, H2, W2, j) \/ Pair(b, J2, H2, W2, j)
<1>1. n \in J /\ j \in 1..n /\ H[j] <= H[n] /\ H[j] \in Nat /\ H[n] \in Nat
  <2>1. n \in J /\ j \in 0..n /\ H[j] \in Nat /\ H[n] \in Nat
    BY DEF Chain
  <2>2. j <= n /\ j \in 1..n
    BY <2>1
  <2> QED  BY <2>1, <2>2 DEF Chain
<1>2. b[j] = a[j]
  BY <1>1
<1>3. CASE Hole(a, V, J, H, W, j)
  <2>1. j - 1 \in J /\ Waits(a[j]) /\ H[j] = H[j - 1] - 1 + Pops(a[j]) /\ W[j] = After(a[j], V, H[j]) ++ W[j - 1]
    BY <1>3 DEF Hole
  <2>2. H[j - 1] \in Nat /\ H[j - 1] >= 1 /\ Pops(a[j]) \in Nat
    BY <2>1 DEF Chain, Waits
  <2>3. H[j] >= Pops(a[j])
    BY <2>1, <2>2
  <2>4. \A i \in 1..(H[j] - 1) : U[i] = V[i]
    BY <1>1
  <2>5. After(a[j], U, H[j]) = After(a[j], V, H[j])
    BY <1>1, <2>1, <2>3, <2>4, AfterV
  <2>6. H2[j] = H[j] /\ W2[j] = W[j] /\ H2[j - 1] = H[j - 1] /\ W2[j - 1] = W[j - 1] /\ j - 1 \in J2
    BY <2>1
  <2>7. Hole(b, U, J2, H2, W2, j)
    BY <1>2, <2>1, <2>5, <2>6 DEF Hole
  <2> QED  BY <2>7
<1>4. CASE Pair(a, J, H, W, j)
  <2>1. j - 1 \in 1..n /\ j - 2 \in J
    BY <1>1, <1>4 DEF Pair
  <2>2. b[j - 1] = a[j - 1] /\ H2[j] = H[j] /\ W2[j] = W[j] /\ H2[j - 2] = H[j - 2] /\ W2[j - 2] = W[j - 2]
    BY <2>1
  <2>3. Pair(b, J2, H2, W2, j)
    BY <1>2, <1>4, <2>1, <2>2 DEF Pair
  <2> QED  BY <2>3
<1> QED  BY <1>3, <1>4 DEF Chain

\* Only the expressions below the one waited for matter.
LEMMA ContV ==
    ASSUME NEW nt, NEW V, NEW U, NEW q, NEW w, Cont(nt, V, q, w), \A i \in 1..(q - 1) : U[i] = V[i]
    PROVE  Cont(nt, U, q, w)
<1> DEFINE n == Len(nt)
<1>0. IsSeq(nt) /\ n \in Nat
  BY SeqForm DEF Cont
<1>1. PICK J, H, W : Chain(nt, V, J, H, W, n) /\ H[n] = q /\ W[n] = w
  BY DEF Cont
<1> HIDE DEF n
<1>2. \A j \in J : j # 0 => Hole(nt, U, J, H, W, j) \/ Pair(nt, J, H, W, j)
  BY <1>0, <1>1, ChainStep
<1>3. Chain(nt, U, J, H, W, n)
  BY <1>1, <1>2 DEF Chain
<1> QED  BY <1>0, <1>1, <1>3 DEF Cont, n
\* A prefix of a chain.
LEMMA ContPrefix ==
    ASSUME NEW nt, NEW V, NEW J, NEW H, NEW W, NEW n \in Nat, Chain(nt, V, J, H, W, n),
           NEW k \in J, NEW b, IsSeq(b), Len(b) = k, \A i \in 1..k : b[i] = nt[i]
    PROVE  Cont(b, V, H[k], W[k])
<1> DEFINE I == {j \in J : j <= k}
<1>1. k \in Nat /\ 0 \in J /\ H[0] = 1 /\ W[0] = <<>> /\ \A j \in J : j \in Nat
  BY DEF Chain
<1>2. k \in I /\ 0 \in I /\ I \subseteq J /\ \A j \in I : j \in 0..k
  <2>1. k <= k /\ 0 <= k /\ \A j \in J : j \in Nat /\ (j <= k => j \in 0..k)
    BY <1>1
  <2> QED  BY <1>1, <2>1
<1>3. \A j \in I : /\ j \in 0..k /\ H[j] \in Nat /\ H[j] >= 1 /\ IsSeq(W[j])
                   /\ \A i \in I : i <= j => H[i] <= H[j]
  BY <1>2 DEF Chain
<1>4. ASSUME NEW j \in I, j # 0  PROVE Hole(b, V, I, H, W, j) \/ Pair(b, I, H, W, j)
  <2>1. j \in J /\ j \in 1..k /\ j \in Nat
    BY <1>1, <1>2, <1>4
  <2>2. b[j] = nt[j] /\ (j >= 2 => b[j - 1] = nt[j - 1])
    <3>1. j >= 2 => j - 1 \in 1..k
      BY <1>1, <2>1
    <3> QED  BY <2>1, <3>1
  <2>3. j - 1 \in J => j - 1 \in I
    BY <1>1, <2>1
  <2>4. j - 2 \in J => j - 2 \in I
    BY <1>1, <2>1
  <2>5. CASE Hole(nt, V, J, H, W, j)
    <3>1. Hole(b, V, I, H, W, j)
      BY <2>2, <2>3, <2>5 DEF Hole
    <3> QED  BY <3>1
  <2>6. CASE Pair(nt, J, H, W, j)
    <3>1. Pair(b, I, H, W, j)
      BY <2>2, <2>4, <2>6 DEF Pair
    <3> QED  BY <3>1
  <2> QED  BY <1>4, <2>1, <2>5, <2>6 DEF Chain
<1> HIDE DEF I
<1>5. Chain(b, V, I, H, W, k)
  BY <1>1, <1>2, <1>3, <1>4 DEF Chain
<1> QED  BY <1>5 DEF Cont

\* One more non-terminal that waits for an expression.
LEMMA ContPush ==
    ASSUME NEW b, NEW V, NEW q, NEW w, Cont(b, V, q, w), NEW e, Waits(e),
           \A i \in 1..(q - 2 + Pops(e)) : IsSeq(V[i])
    PROVE  Cont(b ++ <<e>>, V, q - 1 + Pops(e), After(e, V, q - 1 + Pops(e)) ++ w)
<1> DEFINE n == Len(b)
           r == q - 1 + Pops(e)
           x == After(e, V, r) ++ w
           c == b ++ <<e>>
<1>0. IsSeq(b) /\ n \in Nat /\ q \in Nat /\ q >= 1 /\ IsSeq(w) /\ Pops(e) \in Nat /\ Pops(e) >= 1
  BY SeqForm, ContNat DEF Waits
<1>1. PICK J, H, W : Chain(b, V, J, H, W, n) /\ H[n] = q /\ W[n] = w
  BY DEF Cont
<1>2. r \in Nat /\ r >= q /\ r >= 1 /\ r >= Pops(e) /\ r = q - 1 + Pops(e) /\ r - 1 = q - 2 + Pops(e)
  BY <1>0
<1>3. IsSeq(x) /\ x = After(e, V, r) ++ w
  <2> HIDE DEF r
  <2>1. \A i \in 1..(r - 1) : IsSeq(V[i])
    BY <1>2
  <2>2. IsSeq(After(e, V, r))
    BY <1>2, <2>1, AfterSeq
  <2> QED  BY <1>0, <2>2, CatLaws
<1>4. IsSeq(c) /\ Len(c) = n + 1 /\ c[n + 1] = e /\ \A i \in 1..n : c[i] = b[i]
  <2>1. IsSeq(<<e>>) /\ Len(<<e>>) = 1 /\ <<e>>[1] = e
    BY ShortSeqs
  <2> DEFINE y == <<e>>
  <2>2. IsSeq(y) /\ Len(y) = 1 /\ y[1] = e /\ c = b ++ y
    BY <2>1
  <2> HIDE DEF y, c
  <2>3. CatShape(b, y, c) /\ IsSeq(c)
    BY <1>0, <2>2, CatElems, CatLaws
  <2> QED  BY <2>2, <2>3 DEF CatShape
<1> DEFINE J2 == J \cup {n + 1}
           H2 == [j \in 0..(n + 1) |-> IF j = n + 1 THEN r ELSE H[j]]
           W2 == [j \in 0..(n + 1) |-> IF j = n + 1 THEN x ELSE W[j]]
<1>5. \A j \in J : j \in 0..n /\ j # n + 1 /\ j <= n + 1 /\ ~(n + 1 <= j)
  BY <1>0, <1>1 DEF Chain
<1>6. /\ \A j \in J : H2[j] = H[j] /\ W2[j] = W[j]
      /\ H2[n + 1] = r /\ W2[n + 1] = x /\ J \subseteq J2 /\ n + 1 \in J2
      /\ \A j \in J2 : j \in J \/ j = n + 1
  BY <1>0, <1>5
<1>7. n \in J /\ 0 \in J /\ H[0] = 1 /\ W[0] = <<>>
  BY <1>1 DEF Chain
<1> HIDE DEF J2, H2, W2, r, x, c, n
<1>8. ASSUME NEW j \in J2
      PROVE  /\ j \in 0..(n + 1) /\ H2[j] \in Nat /\ H2[j] >= 1 /\ IsSeq(W2[j])
             /\ \A i \in J2 : i <= j => H2[i] <= H2[j]
  <2>1. CASE j = n + 1
    <3>1. ASSUME NEW i \in J  PROVE H2[i] <= r
      <4>1. H[i] \in Nat /\ H[i] <= H[n]
        BY <1>0, <1>1, <1>5, <1>7 DEF Chain
      <4> QED  BY <1>0, <1>1, <1>2, <1>6, <4>1
    <3>2. r <= r
      BY <1>0, <1>2
    <3>3. \A i \in J2 : H2[i] <= H2[j]
      BY <1>6, <2>1, <3>1, <3>2
    <3>4. j \in 0..(n + 1)
      BY <1>0, <2>1
    <3>5. H2[j] \in Nat /\ H2[j] >= 1 /\ IsSeq(W2[j])
      BY <1>0, <1>2, <1>3, <1>6, <2>1
    <3> QED  BY <3>3, <3>4, <3>5
  <2>2. CASE j \in J
    <3>1. j \in 0..(n + 1) /\ H2[j] \in Nat /\ H2[j] >= 1 /\ IsSeq(W2[j])
      BY <1>0, <1>1, <1>5, <1>6, <2>2 DEF Chain
    <3>2. ASSUME NEW i \in J2, i <= j  PROVE H2[i] <= H2[j]
      <4>1. i \in J
        BY <1>5, <1>6, <2>2, <3>2
      <4> QED  BY <1>1, <1>6, <2>2, <3>2, <4>1 DEF Chain
    <3> QED  BY <3>1, <3>2
  <2> QED  BY <1>6, <2>1, <2>2
<1>9. ASSUME NEW j \in J2, j # 0  PROVE Hole(c, V, J2, H2, W2, j) \/ Pair(c, J2, H2, W2, j)
  <2>1. CASE j = n + 1
    <3>1. j - 1 = n
      BY <1>0, <2>1
    <3>2. c[j] = e /\ H2[j] = r /\ W2[j] = x /\ H2[j - 1] = q /\ W2[j - 1] = w /\ j - 1 \in J2
      BY <1>1, <1>4, <1>6, <1>7, <2>1, <3>1
    <3>3. Hole(c, V, J2, H2, W2, j)
      BY <1>2, <1>3, <3>2 DEF Hole
    <3> QED  BY <3>3
  <2>2. CASE j \in J
    <3>1. /\ n \in Nat /\ Chain(b, V, J, H, W, n) /\ J \subseteq J2
          /\ \A i \in 1..n : c[i] = b[i]
          /\ \A i \in 1..(H[n] - 1) : V[i] = V[i]
          /\ \A i \in J : H2[i] = H[i] /\ W2[i] = W[i]
      BY <1>0, <1>1, <1>4, <1>6
    <3> QED  BY <1>9, <2>2, <3>1, ChainStep
  <2> QED  BY <1>6, <2>1, <2>2
<1>10. Chain(c, V, J2, H2, W2, n + 1)
  <2>1. 0 \in J2 /\ H2[0] = 1 /\ W2[0] = <<>>
    BY <1>6, <1>7
  <2> QED  BY <1>6, <1>8, <1>9, <2>1 DEF Chain
<1>11. Cont(c, V, r, x)
  BY <1>4, <1>6, <1>10 DEF Cont
<1> QED  BY <1>11 DEF c, r, x
\* The first operand of a conjunction or disjunction on top of it.
LEMMA ContPair ==
    ASSUME NEW b, NEW V, NEW q, NEW w, Cont(b, V, q, w), NEW e, Waits(e), e[1] \in {"AndB", "OrB"},
           NEW f, f[1] = "Expression"
    PROVE  Cont((b ++ <<e>>) ++ <<f>>, V, q, BoolTk(e) ++ w)
<1> DEFINE n == Len(b)
           x == BoolTk(e) ++ w
           c == (b ++ <<e>>) ++ <<f>>
<1>0. IsSeq(b) /\ n \in Nat /\ q \in Nat /\ q >= 1 /\ IsSeq(w)
  BY SeqForm, ContNat
<1>1. PICK J, H, W : Chain(b, V, J, H, W, n) /\ H[n] = q /\ W[n] = w
  BY DEF Cont
<1>3. IsSeq(x) /\ x = BoolTk(e) ++ w
  BY <1>0, CatLaws, SpellsTk DEF BoolTk
<1>4. IsSeq(c) /\ Len(c) = n + 2 /\ c[n + 2] = f /\ c[n + 1] = e /\ \A i \in 1..n : c[i] = b[i]
  <2>1. \A d : IsSeq(<<d>>) /\ Len(<<d>>) = 1 /\ <<d>>[1] = d
    BY ShortSeqs
  <2> DEFINE y == <<e>>
             z == <<f>>
             u == b ++ y
  <2>2. /\ IsSeq(y) /\ Len(y) = 1 /\ y[1] = e
        /\ IsSeq(z) /\ Len(z) = 1 /\ z[1] = f
        /\ c = u ++ z /\ u = b ++ y
    BY <2>1
  <2> HIDE DEF y, z, u, c
  <2>3. CatShape(b, y, u) /\ IsSeq(u)
    BY <1>0, <2>2, CatElems, CatLaws
  <2>4. CatShape(u, z, c) /\ IsSeq(c)
    BY <2>2, <2>3, CatElems, CatLaws
  <2>5. Len(u) = n + 1 /\ u[n + 1] = e /\ \A i \in 1..n : u[i] = b[i]
    BY <2>2, <2>3 DEF CatShape
  <2>6. Len(c) = (n + 1) + 1 /\ c[(n + 1) + 1] = f /\ \A i \in 1..(n + 1) : c[i] = u[i]
    BY <2>2, <2>4, <2>5 DEF CatShape
  <2>7. (n + 1) + 1 = n + 2 /\ n + 1 \in 1..(n + 1) /\ \A i \in 1..n : i \in 1..(n + 1)
    BY <1>0
  <2> HIDE DEF n
  <2> QED  BY <2>4, <2>5, <2>6, <2>7
<1> DEFINE J2 == J \cup {n + 2}
           H2 == [j \in 0..(n + 2) |-> IF j = n + 2 THEN q ELSE H[j]]
           W2 == [j \in 0..(n + 2) |-> IF j = n + 2 THEN x ELSE W[j]]
<1>5. \A j \in J : j \in 0..n /\ j # n + 2 /\ j <= n + 2 /\ ~(n + 2 <= j)
  BY <1>0, <1>1 DEF Chain
<1>6. /\ \A j \in J : H2[j] = H[j] /\ W2[j] = W[j]
      /\ H2[n + 2] = q /\ W2[n + 2] = x /\ J \subseteq J2 /\ n + 2 \in J2
      /\ \A j \in J2 : j \in J \/ j = n + 2
  BY <1>0, <1>5
<1>7. n \in J /\ 0 \in J /\ H[0] = 1 /\ W[0] = <<>>
  BY <1>1 DEF Chain
<1> HIDE DEF J2, H2, W2, x, c, n
<1>8. ASSUME NEW j \in J2
      PROVE  /\ j \in 0..(n + 2) /\ H2[j] \in Nat /\ H2[j] >= 1 /\ IsSeq(W2[j])
             /\ \A i \in J2 : i <= j => H2[i] <= H2[j]
  <2>1. CASE j = n + 2
    <3>1. ASSUME NEW i \in J  PROVE H2[i] <= q
      <4>1. H[i] \in Nat /\ H[i] <= H[n]
        BY <1>0, <1>1, <1>5, <1>7 DEF Chain
      <4> QED  BY <1>0, <1>1, <1>6, <4>1
    <3>2. q <= q
      BY <1>0
    <3>3. \A i \in J2 : H2[i] <= H2[j]
      BY <1>6, <2>1, <3>1, <3>2
    <3>4. j \in 0..(n + 2)
      BY <1>0, <2>1
    <3>5. H2[j] \in Nat /\ H2[j] >= 1 /\ IsSeq(W2[j])
      BY <1>0, <1>3, <1>6, <2>1
    <3> QED  BY <3>3, <3>4, <3>5
  <2>2. CASE j \in J
    <3>1. j \in 0..(n + 2) /\ H2[j] \in Nat /\ H2[j] >= 1 /\ IsSeq(W2[j])
      BY <1>0, <1>1, <1>5, <1>6, <2>2 DEF Chain
    <3>2. ASSUME NEW i \in J2, i <= j  PROVE H2[i] <= H2[j]
      <4>1. i \in J
        BY <1>5, <1>6, <2>2, <3>2
      <4> QED  BY <1>1, <1>6, <2>2, <3>2, <4>1 DEF Chain
    <3> QED  BY <3>1, <3>2
  <2> QED  BY <1>6, <2>1, <2>2
<1>9. ASSUME NEW j \in J2, j # 0  PROVE Hole(c, V, J2, H2, W2, j) \/ Pair(c, J2, H2, W2, j)
  <2>1. CASE j = n + 2
    <3>1. j - 2 = n /\ j - 1 = n + 1 /\ j >= 2
      BY <1>0, <2>1
    <3>2. c[j] = f /\ c[j - 1] = e /\ H2[j] = q /\ W2[j] = x /\ H2[j - 2] = q /\ W2[j - 2] = w /\ j - 2 \in J2
      BY <1>1, <1>4, <1>6, <1>7, <2>1, <3>1
    <3>3. Pair(c, J2, H2, W2, j)
      BY <1>3, <3>1, <3>2 DEF Pair
    <3> QED  BY <3>3
  <2>2. CASE j \in J
    <3>1. /\ n \in Nat /\ Chain(b, V, J, H, W, n) /\ J \subseteq J2
          /\ \A i \in 1..n : c[i] = b[i]
          /\ \A i \in 1..(H[n] - 1) : V[i] = V[i]
          /\ \A i \in J : H2[i] = H[i] /\ W2[i] = W[i]
      BY <1>0, <1>1, <1>4, <1>6
    <3> QED  BY <1>9, <2>2, <3>1, ChainStep
  <2> QED  BY <1>6, <2>1, <2>2
<1>10. Chain(c, V, J2, H2, W2, n + 2)
  <2>1. 0 \in J2 /\ H2[0] = 1 /\ W2[0] = <<>>
    BY <1>6, <1>7
  <2> QED  BY <1>6, <1>8, <1>9, <2>1 DEF Chain
<1>11. Cont(c, V, q, x)
  BY <1>4, <1>6, <1>10 DEF Cont
<1> QED  BY <1>11 DEF c, x

\* What the non-terminal e on top of the stack has read, its operands included.
Body(e, V, m) ==
    CASE e[1] \in {"Expression", "WExpression"} -> <<>>
      [] e[1] = "DupIf" -> Tk("Dup") ++ (Tk("If") ++ (V[m] ++ Tk("EndIf")))
      [] e[1] = "NonZero" -> Tk("Size") ++ (Tk("ZeroNotEqual") ++ (Tk("If") ++ (V[m] ++ Tk("EndIf"))))
      [] e[1] = "EndIfNotIf" -> Tk("NotIf") ++ (V[m] ++ Tk("EndIf"))
      [] e[1] = "ThreshW" -> Adds(V, m, e[3]) ++ ThreshEnd(e)
      [] OTHER -> V[m] ++ After(e, V, m)

\* rest is what has been read when nt is still to do and m expressions, with
\* the tokens V, are on the stack.
Above(b, e, V, m, rest) ==
    /\ IsSeq(b) /\ Pops(e) \in Nat /\ HasArgs(e)
    /\ \E q, w : Cont(b, V, q, w) /\ m = q - 1 + Pops(e) /\ rest = Body(e, V, m) ++ w

Read(nt, V, m, rest) ==
    \/ nt = <<>> /\ m = 1 /\ rest = V[1]
    \/ \E b, e : nt = b ++ <<e>> /\ Above(b, e, V, m, rest)

\* The last non-terminal of a stack and the others.
LEMMA LastOf ==
    ASSUME NEW b, IsSeq(b), NEW e
    PROVE  LET nt == b ++ <<e>>
           IN  /\ IsSeq(nt) /\ nt # <<>> /\ Len(nt) = Len(b) + 1 /\ Len(b) \in Nat
               /\ nt[Len(nt)] = e /\ SubSeq(nt, 1, Len(nt) - 1) = b
               /\ \A i \in 1..Len(b) : nt[i] = b[i]
<1> DEFINE nt == b ++ <<e>>
           n == Len(b)
<1>1. n \in Nat
  BY SeqForm
<1>2. IsSeq(nt) /\ Len(nt) = n + 1 /\ nt[n + 1] = e /\ \A i \in 1..n : nt[i] = b[i]
  <2> DEFINE y == <<e>>
  <2>1. IsSeq(y) /\ Len(y) = 1 /\ y[1] = e /\ nt = b ++ y
    BY ShortSeqs
  <2> HIDE DEF y, nt
  <2>2. CatShape(b, y, nt) /\ IsSeq(nt)
    BY <2>1, CatElems, CatLaws
  <2> QED  BY <2>1, <2>2 DEF CatShape
<1> HIDE DEF nt
<1>3. nt # <<>>
  <2>1. Len(nt) # 0
    BY <1>1, <1>2
  <2> QED  BY <2>1, ShortSeqs
<1>4. SubSeq(nt, 1, Len(nt) - 1) = b
  <2> DEFINE s == SubSeq(nt, 1, n)
  <2>1. s = [i \in 1..n |-> nt[i]]
    BY <1>1, <1>2 DEF IsSeq
  <2>2. b = [i \in 1..n |-> b[i]]
    BY SeqForm
  <2>3. Len(nt) - 1 = n
    BY <1>1, <1>2
  <2> HIDE DEF s, n
  <2>4. s = b
    BY <1>2, <2>1, <2>2
  <2> QED  BY <2>3, <2>4 DEF s
<1> QED  BY <1>1, <1>2, <1>3, <1>4 DEF nt
\* An expression V[q] is complete: the non-terminal it was for goes on.
LEMMA Return ==
    ASSUME NEW nt, NEW V, NEW q, NEW w, Cont(nt, V, q, w), \A i \in 1..q : IsSeq(V[i])
    PROVE  Read(nt, V, q, V[q] ++ w)
<1> DEFINE n == Len(nt)
<1>0. IsSeq(nt) /\ n \in Nat /\ q \in Nat /\ q >= 1 /\ IsSeq(w)
  BY SeqForm, ContNat
<1>1. PICK J, H, W : Chain(nt, V, J, H, W, n) /\ H[n] = q /\ W[n] = w
  BY DEF Cont
<1>2. CASE n = 0
  <2>1. nt = <<>>
    BY <1>0, <1>2, EmptySeq DEF IsSeq
  <2>2. q = 1 /\ w = <<>>
    BY <1>1, <1>2 DEF Chain
  <2>3. V[q] ++ w = V[1]
    BY <1>0, <2>2, CatLaws
  <2> QED  BY <2>1, <2>2, <2>3 DEF Read
<1>3. CASE n # 0
  <2>1. PICK b : IsSeq(b) /\ nt = b ++ <<nt[n]>>
    BY <1>0, <1>3, SeqSnoc
  <2> DEFINE e == nt[n]
  <2>2. nt = b ++ <<e>>
    BY <2>1
  <2> HIDE DEF e
  <2>3. Len(b) = n - 1 /\ \A i \in 1..(n - 1) : nt[i] = b[i]
    <3>1. Len(nt) = Len(b) + 1 /\ Len(b) \in Nat /\ \A i \in 1..Len(b) : nt[i] = b[i]
      BY <2>1, <2>2, LastOf
    <3> QED  BY <3>1
  <2>4. n \in J /\ (Hole(nt, V, J, H, W, n) \/ Pair(nt, J, H, W, n))
    BY <1>1, <1>3 DEF Chain
  <2> HIDE DEF n
  <2>5. CASE Hole(nt, V, J, H, W, n)
    <3> DEFINE p == H[n - 1]
               x == W[n - 1]
    <3>1. n - 1 \in J /\ Waits(e) /\ q = p - 1 + Pops(e) /\ w = After(e, V, q) ++ x
      BY <1>1, <2>5 DEF Hole, e
    <3>2. Cont(b, V, p, x)
      BY <1>0, <1>1, <2>1, <2>3, <3>1, ContPrefix
    <3> HIDE DEF p, x
    <3>3. p \in Nat /\ p >= 1 /\ IsSeq(x) /\ Pops(e) \in Nat /\ HasArgs(e) /\ q >= Pops(e) /\ Pops(e) >= 1
      BY <3>1, <3>2, ContNat DEF Waits
    <3>4. IsSeq(V[q]) /\ \A i \in 1..(q - 1) : IsSeq(V[i])
      BY <1>0
    <3>5. IsSeq(After(e, V, q))
      BY <1>0, <3>1, <3>3, <3>4, AfterSeq
    <3>6. V[q] ++ w = (V[q] ++ After(e, V, q)) ++ x
      BY <3>1, <3>3, <3>4, <3>5, CatLaws
    <3>7. Body(e, V, q) = V[q] ++ After(e, V, q)
      <4>1. CASE e[1] = "ThreshW"
        <5> DEFINE A == Adds(V, q - 1, e[3] - 1)
        <5>1. Pops(e) = e[3]
          BY <4>1 DEF Pops
        <5>2. \A i \in 1..e[3] : q + 1 - i \in 1..q
          BY <1>0, <3>3, <5>1
        <5>3. e[3] \in Nat /\ e[3] >= 1 /\ q \in Int /\ \A i \in 1..e[3] : IsSeq(V[q + 1 - i])
          BY <1>0, <3>3, <5>1, <5>2
        <5>4. Adds(V, q, e[3]) = V[q] ++ (Tk("Add") ++ A)
          BY <5>3, AddsForm
        <5>5. IsSeq(A)
          <6> DEFINE g == q - 1
                     k == e[3] - 1
          <6>1. g \in Int /\ k \in Nat /\ \A i \in 1..k : g + 1 - i \in 1..q
            BY <1>0, <3>3, <5>1
          <6>2. \A i \in 1..k : IsSeq(V[g + 1 - i])
            BY <6>1
          <6> HIDE DEF g, k
          <6>3. IsSeq(Adds(V, g, k))
            BY <6>1, <6>2, AddsForm
          <6> QED  BY <6>3 DEF g, k
        <5>6. /\ Body(e, V, q) = Adds(V, q, e[3]) ++ ThreshEnd(e)
              /\ After(e, V, q) = Tk("Add") ++ (A ++ ThreshEnd(e))
          BY <4>1 DEF Body, After
        <5>7. IsSeq(ThreshEnd(e)) /\ IsSeq(Tk("Add"))
          BY CatLaws, SpellsTk DEF ThreshEnd
        <5> HIDE DEF A
        <5> QED  BY <3>4, <5>4, <5>5, <5>6, <5>7, CatLaws
      <4>2. CASE e[1] # "ThreshW"
        BY <3>1, <4>2 DEF Body, Waits, HoleKinds
      <4> QED  BY <4>1, <4>2
    <3>8. Above(b, e, V, q, V[q] ++ w)
      BY <2>1, <3>1, <3>2, <3>3, <3>6, <3>7 DEF Above
    <3> QED  BY <2>2, <3>8 DEF Read
  <2>6. CASE Pair(nt, J, H, W, n)
    <3> DEFINE f == nt[n - 1]
               x == W[n - 2]
               k == Len(b)
    <3>1. /\ n >= 2 /\ n - 2 \in J /\ e[1] = "Expression" /\ Waits(f) /\ f[1] \in {"AndB", "OrB"}
          /\ q = H[n - 2] /\ w = BoolTk(f) ++ x
      BY <1>1, <2>6 DEF Pair, e
    <3>2. k = n - 1 /\ k >= 1 /\ k \in Nat /\ n - 2 = k - 1 /\ k \in 1..k /\ b[k] = f
      BY <1>0, <2>3, <3>1
    <3>3. PICK a : IsSeq(a) /\ b = a ++ <<b[k]>>
      BY <2>1, <3>2, SeqSnoc
    <3> HIDE DEF f, x
    <3>4. b = a ++ <<f>>
      BY <3>2, <3>3
    <3>5. Len(a) = n - 2 /\ \A i \in 1..(n - 2) : a[i] = nt[i]
      <4>1. k = Len(a) + 1 /\ Len(a) \in Nat /\ \A i \in 1..Len(a) : b[i] = a[i]
        BY <3>3, <3>4, LastOf
      <4>2. Len(a) = n - 2 /\ \A i \in 1..(n - 2) : i \in 1..(n - 1)
        BY <1>0, <3>2, <4>1
      <4> QED  BY <2>3, <4>1, <4>2
    <3>6. Cont(a, V, q, x)
      BY <1>0, <1>1, <3>1, <3>3, <3>5, ContPrefix DEF x
    <3>7. Pops(f) = 2 /\ Pops(e) = 0 /\ HasArgs(e)
      BY <3>1 DEF Pops, HasArgs
    <3>8. q + 1 = q - 1 + Pops(f) /\ \A i \in 1..(q - 2 + Pops(f)) : IsSeq(V[i])
      BY <1>0, <3>7
    <3>9. Cont(b, V, q + 1, After(f, V, q + 1) ++ x)
      BY <3>1, <3>4, <3>6, <3>8, ContPush
    <3>10. After(f, V, q + 1) = V[q] ++ BoolTk(f)
      <4>1. (q + 1) - 1 = q
        BY <1>0
      <4> QED  BY <3>1, <4>1 DEF After
    <3>11. IsSeq(V[q]) /\ IsSeq(BoolTk(f)) /\ IsSeq(x)
      BY <1>0, <3>6, ContNat, SpellsTk DEF BoolTk
    <3>12. After(f, V, q + 1) ++ x = V[q] ++ w /\ IsSeq(V[q] ++ w)
      BY <1>0, <3>1, <3>10, <3>11, CatLaws
    <3>13. Body(e, V, q) ++ (V[q] ++ w) = V[q] ++ w
      BY <3>1, <3>12, CatLaws DEF Body
    <3>14. q = (q + 1) - 1 + Pops(e) /\ Pops(e) \in Nat
      BY <1>0, <3>7
    <3>15. Above(b, e, V, q, V[q] ++ w)
      BY <2>1, <3>7, <3>9, <3>12, <3>13, <3>14 DEF Above
    <3> QED  BY <2>2, <3>15 DEF Read
  <2> QED  BY <2>4, <2>5, <2>6
<1> QED  BY <1>2, <1>3
-----------------------------------------------------------------------------
(* Reading tokens. *)

TokensOK(tk) == IsSeq(tk) /\ \A i \in 1..Len(tk) : Instruction(tk[i])

Tok(i) == tokens[Len(tokens) + 1 - i]

LEMMA SkipForm ==
    ASSUME TokensOK(tokens), NEW n \in Nat, n <= Len(tokens)
    PROVE  /\ IsSeq(Skip(n)) /\ Len(Skip(n)) = Len(tokens) - n /\ TokensOK(Skip(n))
           /\ \A i \in 1..(Len(tokens) - n) : Skip(n)[i] = tokens[i]
<1> DEFINE k == Len(tokens) - n
           s == Skip(n)
<1>0. IsSeq(tokens) /\ Len(tokens) \in Nat /\ k \in Nat /\ k <= Len(tokens)
  BY SeqForm DEF TokensOK
<1>1. s = [i \in 1..k |-> tokens[i]]
  BY <1>0 DEF Skip, IsSeq
<1>2. s = [i \in 1..k |-> s[i]] /\ \A i \in 1..k : s[i] = tokens[i]
  BY <1>1
<1> HIDE DEF s
<1>3. IsSeq(s) /\ Len(s) = k
  BY <1>0, <1>2, FnSeq
<1>4. \A i \in 1..k : i \in 1..Len(tokens)
  BY <1>0
<1>5. TokensOK(s)
  BY <1>2, <1>3, <1>4 DEF TokensOK
<1> QED  BY <1>2, <1>3, <1>5 DEF s

\* The tokens from the (from + n)-th next to the next one after from.
Seg(from, n) == [i \in 1..n |-> Tok(from + n + 1 - i)]

LEMMA SkipSeg ==
    ASSUME TokensOK(tokens), NEW from \in Nat, NEW n \in Nat, from + n <= Len(tokens)
    PROVE  /\ Skip(from) = Skip(from + n) ++ Seg(from, n)
           /\ IsSeq(Seg(from, n)) /\ Len(Seg(from, n)) = n
           /\ \A i \in 1..n : Seg(from, n)[i] = Tok(from + n + 1 - i)
<1> DEFINE a == Skip(from + n)
           b == Seg(from, n)
           c == Skip(from)
           l == Len(tokens)
<1>0. l \in Nat /\ from + n \in Nat /\ from <= l
  BY SeqForm DEF TokensOK
<1>1. IsSeq(a) /\ Len(a) = l - (from + n) /\ \A i \in 1..(l - (from + n)) : a[i] = tokens[i]
  BY <1>0, SkipForm
<1>2. IsSeq(c) /\ Len(c) = l - from /\ \A i \in 1..(l - from) : c[i] = tokens[i]
  BY <1>0, SkipForm
<1>3. b = [i \in 1..n |-> b[i]] /\ \A i \in 1..n : b[i] = Tok(from + n + 1 - i)
  BY DEF Seg
<1> HIDE DEF a, b, c
<1>4. IsSeq(b) /\ Len(b) = n
  BY <1>3, FnSeq
<1>5. IsSeq(a ++ b) /\ CatShape(a, b, a ++ b)
  BY <1>1, <1>4, CatElems, CatLaws
<1>6. Len(a ++ b) = l - from
  BY <1>0, <1>1, <1>4, <1>5 DEF CatShape
<1>7. ASSUME NEW i \in 1..(l - from)  PROVE c[i] = (a ++ b)[i]
  <2>1. CASE i \in 1..Len(a)
    BY <1>1, <1>2, <1>5, <2>1 DEF CatShape
  <2>2. ASSUME NEW j \in 1..Len(b), i = Len(a) + j  PROVE c[i] = (a ++ b)[i]
    <3>1. (a ++ b)[i] = b[j]
      BY <1>5, <2>2 DEF CatShape
    <3>2. b[j] = tokens[l + 1 - (from + n + 1 - j)]
      BY <1>3, <1>4, <2>2 DEF Tok
    <3>3. l + 1 - (from + n + 1 - j) = i
      BY <1>0, <1>1, <1>4, <2>2
    <3> QED  BY <1>2, <3>1, <3>2, <3>3
  <2> QED  BY <1>5, <1>6, <2>1, <2>2 DEF CatShape
<1>8. c = a ++ b
  BY <1>2, <1>5, <1>6, <1>7, SeqEq
<1> QED  BY <1>3, <1>4, <1>8 DEF a, b, c

LEMMA SkipNone ==
    ASSUME TokensOK(tokens)
    PROVE  Skip(0) = tokens
<1>1. IsSeq(tokens) /\ Len(tokens) \in Nat /\ 0 <= Len(tokens) /\ Len(tokens) - 0 = Len(tokens)
  BY SeqForm DEF TokensOK
<1> DEFINE s == Skip(0)
<1>2. IsSeq(s) /\ Len(s) = Len(tokens) /\ \A i \in 1..Len(tokens) : s[i] = tokens[i]
  BY <1>1, SkipForm
<1> HIDE DEF s
<1>3. s = tokens
  BY <1>1, <1>2, SeqEq
<1> QED  BY <1>3 DEF s

\* One token.
LEMMA Took ==
    ASSUME TokensOK(tokens), NEW n \in Nat, Kind(n + 1) # "none"
    PROVE  /\ n + 1 <= Len(tokens) /\ Instruction(Tok(n + 1))
           /\ Tok(n + 1)[1] = Kind(n + 1)
           /\ Kind(n + 1) \in Pushes => Arg(n + 1) = Tok(n + 1)[2]
           /\ Skip(n) = Skip(n + 1) ++ <<Tok(n + 1)>>
           /\ IsSeq(Skip(n)) /\ IsSeq(Skip(n + 1)) /\ TokensOK(Skip(n + 1))
<1>1. n + 1 <= Len(tokens) /\ Len(tokens) \in Nat
  BY SeqForm DEF TokensOK, Kind
<1>2. Tok(n + 1)[1] = Kind(n + 1) /\ Arg(n + 1) = Tok(n + 1)[2]
  BY <1>1 DEF Tok, Kind, Arg
<1>3. Instruction(Tok(n + 1))
  <2>1. Len(tokens) + 1 - (n + 1) \in 1..Len(tokens)
    BY <1>1
  <2> QED  BY <2>1 DEF TokensOK, Tok
<1>4. Skip(n) = Skip(n + 1) ++ <<Tok(n + 1)>>
  <2> DEFINE b == Seg(n, 1)
             c == <<Tok(n + 1)>>
  <2>1. Skip(n) = Skip(n + 1) ++ b /\ IsSeq(b) /\ Len(b) = 1 /\ \A i \in 1..1 : b[i] = Tok(n + 1 + 1 - i)
    BY <1>1, SkipSeg
  <2>2. IsSeq(c) /\ Len(c) = 1 /\ c[1] = Tok(n + 1)
    BY ShortSeqs
  <2>3. 1 \in 1..1 /\ n + 1 + 1 - 1 = n + 1 /\ \A i \in 1..1 : i = 1
    OBVIOUS
  <2> HIDE DEF b, c
  <2>4. b[1] = Tok(n + 1)
    BY <2>1, <2>3
  <2>5. b = c
    BY <2>1, <2>2, <2>3, <2>4, SeqEq
  <2> QED  BY <2>1, <2>5 DEF c
<1>5. IsSeq(Skip(n)) /\ IsSeq(Skip(n + 1)) /\ TokensOK(Skip(n + 1))
  BY <1>1, SkipForm
<1> QED  BY <1>1, <1>2, <1>3, <1>4, <1>5

LEMMA TookOp ==
    ASSUME TokensOK(tokens), NEW n \in Nat, NEW f, Kind(n + 1) = f, f # "none", f \notin Pushes
    PROVE  /\ Skip(n) = Skip(n + 1) ++ Tk(f)
           /\ n + 1 <= Len(tokens) /\ IsSeq(Skip(n + 1)) /\ TokensOK(Skip(n + 1))
<1>1. Instruction(Tok(n + 1)) /\ Tok(n + 1)[1] = f
  BY Took
<1>2. Tok(n + 1) = <<f>>
  BY <1>1 DEF Instruction
<1>3. <<Tok(n + 1)>> = Tk(f)
  BY <1>2 DEF Tk, Op
<1> QED  BY <1>3, Took

LEMMA TookPush ==
    ASSUME TokensOK(tokens), NEW n \in Nat, NEW f, Kind(n + 1) = f, f # "none", f \in Pushes
    PROVE  /\ Skip(n) = Skip(n + 1) ++ <<<<f, Arg(n + 1)>>>>
           /\ n + 1 <= Len(tokens) /\ IsSeq(Skip(n + 1)) /\ TokensOK(Skip(n + 1))
           /\ Tok(n + 1) = <<f, Arg(n + 1)>>
           /\ f = "Num" => Arg(n + 1) \in Int /\ Skip(n) = Skip(n + 1) ++ TkNum(Arg(n + 1))
<1>1. Instruction(Tok(n + 1)) /\ Tok(n + 1)[1] = f /\ Arg(n + 1) = Tok(n + 1)[2]
  BY Took
<1>2. Tok(n + 1) = <<f, Arg(n + 1)>> /\ (f = "Num" => Arg(n + 1) \in Int)
  BY <1>1 DEF Instruction
<1>3. f = "Num" => <<Tok(n + 1)>> = TkNum(Arg(n + 1))
  BY <1>2 DEF TkNum, Num
<1>4. /\ Skip(n) = Skip(n + 1) ++ <<Tok(n + 1)>>
      /\ n + 1 <= Len(tokens) /\ IsSeq(Skip(n + 1)) /\ TokensOK(Skip(n + 1))
  BY Took
<1> QED  BY <1>2, <1>3, <1>4

LEMMA TookKey ==
    ASSUME TokensOK(tokens), NEW n \in Nat, IsKey(n + 1)
    PROVE  /\ Skip(n) = Skip(n + 1) ++ <<PushKey(Arg(n + 1))>>
           /\ n + 1 <= Len(tokens) /\ IsSeq(Skip(n + 1)) /\ TokensOK(Skip(n + 1))
           /\ Tok(n + 1) = PushKey(Arg(n + 1))
<1> DEFINE f == Kind(n + 1)
<1>1. f \in {"Bytes32", "Bytes33", "Bytes65"} /\ (Ctx = "Tap" <=> f = "Bytes32")
  BY DEF IsKey
<1>2. f # "none" /\ f \in Pushes
  BY <1>1 DEF Pushes
<1>3. Tok(n + 1) = <<f, Arg(n + 1)>>
  BY <1>2, TookPush
<1>4. Instruction(<<f, Arg(n + 1)>>)
  BY <1>2, <1>3, Took
<1>5. Ctx # "Tap" => (f = "Bytes65" <=> Arg(n + 1) \in Uncompressed)
  BY <1>1, <1>4 DEF Instruction
<1> HIDE DEF f
<1>6. PushKey(Arg(n + 1)) = <<f, Arg(n + 1)>>
  BY <1>1, <1>5 DEF PushKey
<1> QED  BY <1>2, <1>3, <1>6, Took DEF f
LEMMA MaxOf ==
    ASSUME NEW n \in Nat, NEW T \in SUBSET (0..n), T # {}
    PROVE  Max(T) \in T /\ \A y \in T : Max(T) >= y
<1>1. PICK x \in T : \A y \in T : y <= x
  BY NatMax
<1>2. x \in T /\ \A y \in T : x >= y
  BY <1>1
<1> QED  BY <1>2 DEF Max

\* A run of inscriptions.
LEMMA TookInscriptions ==
    ASSUME TokensOK(tokens), Kind(1) = "Inscription"
    PROVE  /\ InscriptionRun \in Nat /\ InscriptionRun <= Len(tokens)
           /\ tokens = Skip(InscriptionRun) ++ Envelopes(Inscriptions)
           /\ IsSeq(Skip(InscriptionRun)) /\ TokensOK(Skip(InscriptionRun))
           /\ IsSeq(Inscriptions) /\ Len(Inscriptions) >= 1
<1> DEFINE l == Len(tokens)
           T(m) == \A i \in 1..m : Kind(i) = "Inscription"
           S == {m \in 0..l : T(m)}
           n == InscriptionRun
<1>0. l \in Nat /\ l >= 1
  <2>1. 0 + 1 = 1 /\ 0 \in Nat
    OBVIOUS
  <2> QED  BY <2>1, Took, SeqForm DEF TokensOK
<1>1. 1 \in S
  BY <1>0
<1>2. S \in SUBSET (0..l) /\ S # {}
  BY <1>1
<1>3. n = Max(S)
  BY DEF InscriptionRun
<1> HIDE DEF n
<1>5. n \in S /\ \A y \in S : n >= y
  <2> HIDE DEF S
  <2> QED  BY <1>0, <1>2, <1>3, MaxOf
<1>6. n \in Nat /\ n <= l /\ n >= 1 /\ T(n)
  <2>1. n >= 1
    BY <1>1, <1>5
  <2> QED  BY <1>0, <1>5, <2>1
<1> HIDE DEF T, S
<1> DEFINE A == Inscriptions
           B == Envelopes(A)
           D == Seg(0, n)
<1>7. A = [i \in 1..n |-> A[i]] /\ \A i \in 1..n : A[i] = Arg(n + 1 - i)
  BY DEF Inscriptions, n
<1> HIDE DEF A
<1>8. IsSeq(A) /\ Len(A) = n
  BY <1>6, <1>7, FnSeq
<1>9. IsSeq(B) /\ Len(B) = n /\ \A i \in 1..n : B[i] = <<"Inscription", A[i]>>
  BY <1>6, <1>8, EnvelopesSpell
<1>10. /\ Skip(0) = Skip(n) ++ D /\ IsSeq(D) /\ Len(D) = n
       /\ \A i \in 1..n : D[i] = Tok(0 + n + 1 - i)
  <2>1. 0 + n = n /\ 0 \in Nat
    BY <1>6
  <2> QED  BY <1>6, <2>1, SkipSeg
<1> HIDE DEF B, D
<1>11. ASSUME NEW i \in 1..n  PROVE D[i] = B[i]
  <2> DEFINE k == n - i
  <2>1. k \in Nat /\ k + 1 = n + 1 - i /\ 0 + n + 1 - i = k + 1 /\ k + 1 \in 1..n
    BY <1>6
  <2> HIDE DEF k
  <2>2. Kind(k + 1) = "Inscription"
    BY <1>6, <2>1 DEF T
  <2>3. Tok(k + 1) = <<"Inscription", Arg(k + 1)>>
    BY <2>1, <2>2, TookPush DEF Pushes
  <2> QED  BY <1>7, <1>9, <1>10, <2>1, <2>3
<1>12. D = B
  BY <1>9, <1>10, <1>11, SeqEq
<1>13. tokens = Skip(n) ++ B
  BY <1>10, <1>12, SkipNone
<1>14. IsSeq(Skip(n)) /\ TokensOK(Skip(n))
  BY <1>6, SkipForm
<1> QED  BY <1>6, <1>8, <1>13, <1>14 DEF A, B, n

\* A run of keys.
LEMMA TookKeys ==
    ASSUME TokensOK(tokens), NEW from \in Nat, NEW n \in Nat, n >= 1,
           \A i \in 1..n : IsKey(from + i),
           NEW args, args = [i \in 1..n |-> Arg(from + n + 1 - i)]
    PROVE  /\ Skip(from) = Skip(from + n) ++ KeyPushes(args)
           /\ IsSeq(args) /\ Len(args) = n /\ from + n <= Len(tokens)
           /\ IsSeq(Skip(from + n)) /\ TokensOK(Skip(from + n))
<1> DEFINE B == KeyPushes(args)
           D == Seg(from, n)
<1>1. from + n <= Len(tokens)
  <2>1. IsKey(from + n)
    OBVIOUS
  <2> DEFINE k == from + n - 1
  <2>2. k \in Nat /\ k + 1 = from + n
    OBVIOUS
  <2> HIDE DEF k
  <2> QED  BY <2>1, <2>2, TookKey
<1>2. args = [i \in 1..n |-> args[i]] /\ \A i \in 1..n : args[i] = Arg(from + n + 1 - i)
  OBVIOUS
<1>3. IsSeq(args) /\ Len(args) = n
  BY <1>2, FnSeq
<1>4. IsSeq(B) /\ Len(B) = n /\ \A i \in 1..n : B[i] = PushKey(args[i])
  BY <1>3, KeyPushesForm
<1>5. /\ Skip(from) = Skip(from + n) ++ D /\ IsSeq(D) /\ Len(D) = n
      /\ \A i \in 1..n : D[i] = Tok(from + n + 1 - i)
  BY <1>1, SkipSeg
<1> HIDE DEF B, D
<1>6. ASSUME NEW i \in 1..n  PROVE D[i] = B[i]
  <2> DEFINE k == from + n - i
  <2>1. k \in Nat /\ k + 1 = from + n + 1 - i /\ k + 1 = from + (n + 1 - i) /\ n + 1 - i \in 1..n
    OBVIOUS
  <2> HIDE DEF k
  <2>2. IsKey(k + 1)
    BY <2>1
  <2>3. Tok(k + 1) = PushKey(Arg(k + 1))
    BY <2>1, <2>2, TookKey
  <2> QED  BY <1>2, <1>4, <1>5, <2>1, <2>3
<1>7. D = B
  BY <1>4, <1>5, <1>6, SeqEq
<1>8. from + n \in Nat
  OBVIOUS
<1>9. IsSeq(Skip(from + n)) /\ TokensOK(Skip(from + n))
  BY <1>1, <1>8, SkipForm
<1> QED  BY <1>1, <1>3, <1>5, <1>7, <1>9 DEF B
\* The keys of a multi_a, each with its opcode: N of them after two tokens.
LEMMA TookKeyChecks ==
    ASSUME TokensOK(tokens), NEW N \in Nat, N >= 1,
           \A i \in 1..N : /\ IsKey(2 * i + 2)
                           /\ Kind(2 * i + 1) = IF i = N THEN "CheckSig" ELSE "CheckSigAdd",
           NEW args, args = [i \in 1..N |-> Arg(2 * (N - i) + 4)]
    PROVE  /\ Skip(2) = Skip(2 * N + 2) ++ ConcatAll(KeyChecks(args))
           /\ IsSeq(args) /\ Len(args) = N
           /\ IsSeq(Skip(2 * N + 2)) /\ TokensOK(Skip(2 * N + 2))
<1> DEFINE B == KeyChecks(args)
           op(i) == IF i = 1 THEN "CheckSig" ELSE "CheckSigAdd"
           Z == Skip(2 * N + 2)
<1>1. args = [i \in 1..N |-> args[i]] /\ \A i \in 1..N : args[i] = Arg(2 * (N - i) + 4)
  OBVIOUS
<1>2. IsSeq(args) /\ Len(args) = N
  BY <1>1, FnSeq
<1>3. B = [i \in 1..N |-> B[i]] /\ \A i \in 1..N : B[i] = <<PushKey(args[i])>> ++ Tk(op(i))
  BY <1>2 DEF KeyChecks
<1>4. IsSeq(Z) /\ TokensOK(Z)
  <2> DEFINE k == 2 * N + 1
  <2>1. k \in Nat /\ k + 1 = 2 * N + 2 /\ N \in 1..N
    OBVIOUS
  <2> HIDE DEF k
  <2>2. IsKey(k + 1)
    BY <2>1
  <2> QED  BY <2>1, <2>2, TookKey
<1> HIDE DEF B, Z
<1>5. IsSeq(B) /\ Len(B) = N
  BY <1>3, FnSeq
<1>6. \A i \in 1..N : IsSeq(B[i])
  <2> HIDE DEF op
  <2>1. ASSUME NEW i \in 1..N  PROVE IsSeq(B[i])
    <3>1. B[i] = <<PushKey(args[i])>> ++ Tk(op(i)) /\ IsSeq(<<PushKey(args[i])>>) /\ IsSeq(Tk(op(i)))
      BY <1>3, CatLaws, SpellsTk
    <3> QED  BY <3>1, CatLaws
  <2> QED  BY <2>1
<1>7. PICK W : CatArray(B, W)
  BY <1>5, CatArrayExists
<1>8. ConcatAll(B) = W[N]
  BY <1>5, <1>7, CatArrayIs
<1>9. \A k \in 0..N : IsSeq(W[k])
  BY <1>5, <1>6, <1>7, CatArraySeqs
<1> DEFINE S == {k \in Nat : k <= N => Skip(2 * (N - k) + 2) = Z ++ W[k]}
<1>10. 0 \in S
  <2>1. W[0] = <<>>
    BY <1>7 DEF CatArray
  <2>2. 2 * (N - 0) + 2 = 2 * N + 2
    OBVIOUS
  <2>3. Skip(2 * (N - 0) + 2) = Z ++ W[0]
    BY <1>4, <2>1, <2>2, CatLaws DEF Z
  <2> QED  BY <2>3
<1>11. ASSUME NEW k \in Nat, k \in S  PROVE k + 1 \in S
  <2> SUFFICES ASSUME k + 1 <= N  PROVE Skip(2 * (N - (k + 1)) + 2) = Z ++ W[k + 1]
    OBVIOUS
  <2>0. Skip(2 * (N - k) + 2) = Z ++ W[k] /\ k \in 0..N /\ IsSeq(W[k])
    BY <1>9, <1>11
  <2> DEFINE p == 2 * (N - k)
             j == N - k
             r == p + 1
             i == k + 1
  <2>1. /\ p \in Nat /\ r \in Nat /\ j \in 1..N /\ r = p + 1 /\ i \in 1..N
        /\ 2 * (N - (k + 1)) + 2 = p /\ 2 * (N - k) + 2 = r + 1
        /\ 2 * j + 1 = p + 1 /\ 2 * j + 2 = r + 1 /\ (i = 1 <=> j = N)
        /\ 2 * (N - i) + 4 = r + 1
    BY <2>0
  <2>2. W[i] = W[k] ++ B[i]
    <3>1. i - 1 = k /\ i \in 1..N
      BY <2>1
    <3> QED  BY <1>5, <1>7, <3>1 DEF CatArray
  <2> HIDE DEF p, j, r, i
  <2>3. Skip(p) = Skip(r) ++ Tk(op(i)) /\ IsSeq(Skip(r))
    <3>1. Kind(p + 1) = op(i) /\ op(i) # "none" /\ op(i) \notin Pushes
      BY <2>1 DEF Pushes
    <3> HIDE DEF op
    <3> QED  BY <2>1, <3>1, TookOp
  <2>4. Skip(r) = Skip(r + 1) ++ <<PushKey(args[i])>> /\ IsSeq(Skip(r + 1))
    <3>1. IsKey(r + 1) /\ args[i] = Arg(r + 1)
      BY <1>1, <2>1
    <3> QED  BY <2>1, <3>1, TookKey
  <2>5. B[i] = <<PushKey(args[i])>> ++ Tk(op(i))
    BY <1>3, <2>1
  <2>6. Skip(r + 1) = Z ++ W[k]
    BY <2>0, <2>1
  <2> HIDE DEF op
  <2>7. Skip(p) = ((Z ++ W[k]) ++ <<PushKey(args[i])>>) ++ Tk(op(i))
    BY <2>3, <2>4, <2>6
  <2>8. Skip(p) = Z ++ (W[k] ++ (<<PushKey(args[i])>> ++ Tk(op(i))))
    BY <1>4, <2>0, <2>7, CatLaws, SpellsTk
  <2>9. Skip(p) = Z ++ W[i]
    BY <2>2, <2>5, <2>8
  <2> QED  BY <2>1, <2>9 DEF i
<1>12. N \in S
  <2> HIDE DEF S
  <2> QED  BY <1>10, <1>11, SetInduction
<1>13. Skip(2) = Z ++ W[N]
  <2>1. Skip(2 * (N - N) + 2) = Z ++ W[N]
    BY <1>12
  <2>2. 2 * (N - N) + 2 = 2
    OBVIOUS
  <2> QED  BY <2>1, <2>2
<1> QED  BY <1>2, <1>4, <1>8, <1>13 DEF B, Z
-----------------------------------------------------------------------------
(* Non-terminals put on the stack. *)

LEMMA StackCat ==
    ASSUME NEW b, IsSeq(b)
    PROVE  /\ b ++ <<>> = b
           /\ \A x, y : b ++ <<x, y>> = (b ++ <<x>>) ++ <<y>>
           /\ \A x, y, z : b ++ <<x, y, z>> = ((b ++ <<x>>) ++ <<y>>) ++ <<z>>
           /\ \A x, y, z, u : b ++ Four(x, y, z, u) = (((b ++ <<x>>) ++ <<y>>) ++ <<z>>) ++ <<u>>
           /\ \A x, p : IsSeq(p) => b ++ (<<x>> ++ p) = (b ++ <<x>>) ++ p
<1>1. b ++ <<>> = b
  BY CatLaws
<1>2. ASSUME NEW x, NEW y  PROVE b ++ <<x, y>> = (b ++ <<x>>) ++ <<y>>
  <2>1. <<x, y>> = <<x>> ++ <<y>>
    BY Tuples
  <2>2. b ++ (<<x>> ++ <<y>>) = (b ++ <<x>>) ++ <<y>>
    BY CatLaws
  <2> QED  BY <2>1, <2>2, Zenon
<1>3. ASSUME NEW x, NEW y, NEW z  PROVE b ++ <<x, y, z>> = ((b ++ <<x>>) ++ <<y>>) ++ <<z>>
  <2>1. <<x, y, z>> = <<x>> ++ (<<y>> ++ <<z>>)
    BY Tuples
  <2>2. b ++ (<<x>> ++ (<<y>> ++ <<z>>)) = ((b ++ <<x>>) ++ <<y>>) ++ <<z>>
    BY CatLaws
  <2> QED  BY <2>1, <2>2, Zenon
<1>4. ASSUME NEW x, NEW y, NEW z, NEW u
      PROVE  b ++ Four(x, y, z, u) = (((b ++ <<x>>) ++ <<y>>) ++ <<z>>) ++ <<u>>
  BY CatLaws, Tuples
<1>5. ASSUME NEW x, NEW p, IsSeq(p)  PROVE b ++ (<<x>> ++ p) = (b ++ <<x>>) ++ p
  BY <1>5, CatLaws
<1> QED  BY <1>1, <1>2, <1>3, <1>4, <1>5

Seqs(V, n) == \A i \in 1..n : IsSeq(V[i])

LEMMA ContOne ==
    ASSUME NEW b, NEW V, NEW q, NEW w, Cont(b, V, q, w), NEW e, Waits(e), Pops(e) = 1, Seqs(V, q - 1)
    PROVE  Cont(b ++ <<e>>, V, q, After(e, V, q) ++ w)
<1>1. q \in Nat /\ q - 1 + Pops(e) = q /\ q - 2 + Pops(e) = q - 1
  BY ContNat
<1>2. \A i \in 1..(q - 2 + Pops(e)) : IsSeq(V[i])
  BY <1>1 DEF Seqs
<1>3. Cont(b ++ <<e>>, V, q - 1 + Pops(e), After(e, V, q - 1 + Pops(e)) ++ w)
  BY <1>2, ContPush
<1> QED  BY <1>1, <1>3

LEMMA ContTwo ==
    ASSUME NEW b, NEW V, NEW q, NEW w, Cont(b, V, q, w), NEW e, Waits(e), Pops(e) = 2, Seqs(V, q)
    PROVE  Cont(b ++ <<e>>, V, q + 1, After(e, V, q + 1) ++ w)
<1>1. q \in Nat /\ q - 1 + Pops(e) = q + 1 /\ q - 2 + Pops(e) = q
  BY ContNat
<1>2. \A i \in 1..(q - 2 + Pops(e)) : IsSeq(V[i])
  BY <1>1 DEF Seqs
<1>3. Cont(b ++ <<e>>, V, q - 1 + Pops(e), After(e, V, q - 1 + Pops(e)) ++ w)
  BY <1>2, ContPush
<1> QED  BY <1>1, <1>3

\* One that has read nothing yet.
LEMMA ReadExpr ==
    ASSUME NEW b, NEW V, NEW q, NEW w, Cont(b, V, q, w), NEW e, e[1] \in {"Expression", "WExpression"}
    PROVE  Read(b ++ <<e>>, V, q - 1, w)
<1>1. IsSeq(b) /\ q \in Nat /\ IsSeq(w)
  BY ContNat
<1>2. Pops(e) = 0 /\ HasArgs(e) /\ Body(e, V, q - 1) = <<>>
  BY DEF Pops, HasArgs, Body
<1>3. <<>> ++ w = w
  BY <1>1, CatLaws
<1>4. Pops(e) \in Nat /\ q - 1 = q - 1 + Pops(e)
  BY <1>1, <1>2
<1>5. Above(b, e, V, q - 1, w)
  BY <1>1, <1>2, <1>3, <1>4 DEF Above
<1> QED  BY <1>5 DEF Read

LEMMA WaitsNT ==
    /\ \A f \in HoleKinds \ {"InscribePost", "ThreshW", "ThreshE"} : Waits(NT(f)) /\ NT(f)[1] = f
    /\ \A args : IsSeq(args) /\ Len(args) >= 1 => Waits(<<"InscribePost", args>>)
<1>1. ASSUME NEW f \in HoleKinds \ {"InscribePost", "ThreshW", "ThreshE"}
      PROVE  Waits(NT(f)) /\ NT(f)[1] = f
  <2>1. NT(f)[1] = f
    BY DEF NT
  <2>2. Pops(NT(f)) \in 1..3
    BY <2>1 DEF HoleKinds, Pops
  <2> QED  BY <2>1, <2>2 DEF Waits, HasArgs
<1>2. ASSUME NEW args, IsSeq(args), Len(args) >= 1  PROVE Waits(<<"InscribePost", args>>)
  <2>1. Pops(<<"InscribePost", args>>) = 1
    BY PopsValues
  <2> QED  BY <1>2, <2>1 DEF Waits, HasArgs, HoleKinds
<1> QED  BY <1>1, <1>2

\* What the tokens T before an expression make the parser put on the stack.
Wanted(p, T) ==
    \/ \E x : Waits(x) /\ Pops(x) = 1 /\ p = <<x, NT("Expression")>> /\ \A V, h : After(x, V, h) = T
    \/ \E f \in {"AndB", "OrB"} :
            p = <<NT(f), NT("Expression"), NT("WExpression")>> /\ T = BoolTk(NT(f))
    \/ p = <<NT("EndIf"), NT("MaybeAndV"), NT("Expression")>> /\ T = Tk("EndIf")
    \/ \E k : p = <<<<"ThreshW", k, 0>>>> /\ T = ThreshEnd(<<"ThreshW", k, 0>>)
    \/ \E k : /\ p = <<NT("Verify"), <<"ThreshW", k, 0>>>>
              /\ T = ThreshEnd(<<"ThreshW", k, 0>>) ++ Tk("Verify")
LEMMA WantedRead ==
    ASSUME NEW b, NEW V, NEW q, NEW w, Cont(b, V, q, w), Seqs(V, q - 1), NEW p, NEW T, Wanted(p, T)
    PROVE  Read(b ++ (<<NT("InscribePre")>> ++ p), V, q - 1, T ++ w)
<1> DEFINE pre == NT("InscribePre")
           x0 == NT("Expression")
           a == b ++ <<pre>>
<1>0. IsSeq(b) /\ q \in Nat /\ q >= 1 /\ IsSeq(w) /\ x0[1] = "Expression"
  BY ContNat DEF NT
<1>1. Cont(a, V, q, w) /\ IsSeq(a)
  <2>1. Waits(pre) /\ pre[1] = "InscribePre" /\ Pops(pre) = 1
    BY WaitsNT, PopsValues DEF HoleKinds
  <2>2. Cont(a, V, q, After(pre, V, q) ++ w)
    <3> HIDE DEF pre
    <3> QED  BY <2>1, ContOne
  <2>3. After(pre, V, q) ++ w = w
    <3>1. After(pre, V, q) = <<>>
      BY <2>1 DEF After
    <3> QED  BY <1>0, <3>1, CatLaws
  <2> HIDE DEF pre, a
  <2> QED  BY <2>2, <2>3, ContNat
<1>2. \A y : IsSeq(y) => b ++ (<<pre>> ++ y) = a ++ y
  <2> HIDE DEF pre
  <2> QED  BY <1>0, StackCat
<1> HIDE DEF pre, x0, a
<1>3. ASSUME NEW x, Waits(x), Pops(x) = 1, p = <<x, x0>>, After(x, V, q) = T
      PROVE  Read(b ++ (<<pre>> ++ p), V, q - 1, T ++ w)
  <2>1. b ++ (<<pre>> ++ p) = (a ++ <<x>>) ++ <<x0>>
    BY <1>1, <1>2, <1>3, StackCat, ShortSeqs
  <2>2. Cont(a ++ <<x>>, V, q, T ++ w)
    BY <1>1, <1>3, ContOne
  <2> QED  BY <1>0, <2>1, <2>2, ReadExpr
<1>4. ASSUME NEW f \in {"AndB", "OrB"}, p = <<NT(f), x0, NT("WExpression")>>, T = BoolTk(NT(f))
      PROVE  Read(b ++ (<<pre>> ++ p), V, q - 1, T ++ w)
  <2> DEFINE x == NT(f)
             y == NT("WExpression")
  <2>1. Waits(x) /\ x[1] \in {"AndB", "OrB"} /\ y[1] = "WExpression"
    BY WaitsNT DEF HoleKinds, NT
  <2>2. p = <<x, x0, y>> /\ T = BoolTk(x)
    BY <1>4
  <2> HIDE DEF x, y
  <2>3. b ++ (<<pre>> ++ p) = ((a ++ <<x>>) ++ <<x0>>) ++ <<y>>
    BY <1>1, <1>2, <2>2, StackCat, ShortSeqs, SMTT(30)
  <2>4. Cont((a ++ <<x>>) ++ <<x0>>, V, q, T ++ w)
    BY <1>0, <1>1, <2>1, <2>2, ContPair
  <2> QED  BY <2>1, <2>3, <2>4, ReadExpr
<1>5. ASSUME p = <<NT("EndIf"), NT("MaybeAndV"), x0>>, T = Tk("EndIf")
      PROVE  Read(b ++ (<<pre>> ++ p), V, q - 1, T ++ w)
  <2> DEFINE x == NT("EndIf")
             y == NT("MaybeAndV")
  <2>1. Waits(x) /\ Waits(y) /\ Pops(x) = 1 /\ Pops(y) = 1
    BY WaitsNT, PopsValues DEF HoleKinds
  <2>2. p = <<x, y, x0>> /\ After(x, V, q) = T /\ After(y, V, q) = <<>>
    BY <1>5 DEF After, NT
  <2> HIDE DEF x, y
  <2>3. b ++ (<<pre>> ++ p) = ((a ++ <<x>>) ++ <<y>>) ++ <<x0>>
    BY <1>1, <1>2, <2>2, StackCat, ShortSeqs, SMTT(30)
  <2>4. Cont(a ++ <<x>>, V, q, T ++ w)
    BY <1>1, <2>1, <2>2, ContOne
  <2>5. Cont((a ++ <<x>>) ++ <<y>>, V, q, <<>> ++ (T ++ w))
    BY <2>1, <2>2, <2>4, ContOne
  <2>6. <<>> ++ (T ++ w) = T ++ w
    BY <1>0, <1>5, CatLaws, SpellsTk
  <2> QED  BY <1>0, <2>3, <2>5, <2>6, ReadExpr
<1>6. ASSUME NEW c, NEW u, NEW k, Cont(c, V, q, u)
      PROVE  Read(c ++ <<<<"ThreshW", k, 0>>>>, V, q - 1, ThreshEnd(<<"ThreshW", k, 0>>) ++ u)
  <2> DEFINE e == <<"ThreshW", k, 0>>
             m == q - 1
  <2>1. e[1] = "ThreshW" /\ e[3] = 0 /\ Pops(e) = 0 /\ HasArgs(e)
    BY PopsValues DEF HasArgs
  <2> HIDE DEF e
  <2>2. IsSeq(ThreshEnd(e)) /\ IsSeq(c)
    BY <1>6, CatLaws, SpellsTk, ContNat DEF ThreshEnd
  <2>3. m \in Int /\ 0 \in Nat /\ 1..0 = {}
    BY <1>0
  <2>4. Adds(V, m, 0) = <<>>
    BY <2>3, AddsForm
  <2>5. Body(e, V, m) = Adds(V, m, 0) ++ ThreshEnd(e)
    BY <2>1 DEF Body
  <2>6. Body(e, V, m) = ThreshEnd(e)
    BY <2>2, <2>4, <2>5, CatLaws
  <2>7. Pops(e) \in Nat /\ m = q - 1 + Pops(e)
    BY <1>0, <2>1
  <2>8. Above(c, e, V, m, ThreshEnd(e) ++ u)
    BY <1>6, <2>1, <2>2, <2>6, <2>7 DEF Above
  <2>9. Read(c ++ <<e>>, V, m, ThreshEnd(e) ++ u)
    BY <2>8 DEF Read
  <2> QED  BY <2>9 DEF e
<1>7. ASSUME NEW k, p = <<<<"ThreshW", k, 0>>>>, T = ThreshEnd(<<"ThreshW", k, 0>>)
      PROVE  Read(b ++ (<<pre>> ++ p), V, q - 1, T ++ w)
  <2> DEFINE e == <<"ThreshW", k, 0>>
  <2>1. Read(a ++ <<e>>, V, q - 1, ThreshEnd(e) ++ w)
    BY <1>1, <1>6
  <2>2. p = <<e>> /\ T = ThreshEnd(e)
    BY <1>7
  <2> HIDE DEF e
  <2>3. b ++ (<<pre>> ++ p) = a ++ <<e>>
    BY <1>1, <1>2, <2>2, StackCat, ShortSeqs
  <2> QED  BY <2>1, <2>2, <2>3
<1>8. ASSUME NEW k, p = <<NT("Verify"), <<"ThreshW", k, 0>>>>,
             T = ThreshEnd(<<"ThreshW", k, 0>>) ++ Tk("Verify")
      PROVE  Read(b ++ (<<pre>> ++ p), V, q - 1, T ++ w)
  <2> DEFINE e == <<"ThreshW", k, 0>>
             x == NT("Verify")
  <2>1. Waits(x) /\ Pops(x) = 1 /\ After(x, V, q) = Tk("Verify")
    BY WaitsNT, PopsValues DEF HoleKinds, After, NT
  <2>2. p = <<x, e>> /\ T = ThreshEnd(e) ++ Tk("Verify") /\ IsSeq(ThreshEnd(e))
    BY <1>8, CatLaws, SpellsTk DEF ThreshEnd
  <2>3. Cont(a ++ <<x>>, V, q, Tk("Verify") ++ w)
    <3> HIDE DEF x, e
    <3> QED  BY <1>1, <2>1, ContOne
  <2>4. Read((a ++ <<x>>) ++ <<e>>, V, q - 1, ThreshEnd(e) ++ (Tk("Verify") ++ w))
    BY <1>6, <2>3
  <2> HIDE DEF e, x
  <2>5. b ++ (<<pre>> ++ p) = (a ++ <<x>>) ++ <<e>>
    <3>1. IsSeq(p) /\ a ++ p = (a ++ <<x>>) ++ <<e>>
      BY <1>1, <2>2, StackCat, ShortSeqs
    <3> QED  BY <1>2, <3>1
  <2>6. T ++ w = ThreshEnd(e) ++ (Tk("Verify") ++ w)
    BY <1>0, <2>2, CatLaws, SpellsTk
  <2> QED  BY <2>4, <2>5, <2>6
<1>9. Read(b ++ (<<pre>> ++ p), V, q - 1, T ++ w)
  <2>1. CASE \E x : Waits(x) /\ Pops(x) = 1 /\ p = <<x, x0>> /\ \A U, h : After(x, U, h) = T
    BY <1>3, <2>1
  <2>2. CASE \E f \in {"AndB", "OrB"} : p = <<NT(f), x0, NT("WExpression")>> /\ T = BoolTk(NT(f))
    BY <1>4, <2>2
  <2>3. CASE p = <<NT("EndIf"), NT("MaybeAndV"), x0>> /\ T = Tk("EndIf")
    BY <1>5, <2>3
  <2>4. CASE \E k : p = <<<<"ThreshW", k, 0>>>> /\ T = ThreshEnd(<<"ThreshW", k, 0>>)
    BY <1>7, <2>4
  <2>5. CASE \E k : /\ p = <<NT("Verify"), <<"ThreshW", k, 0>>>>
                    /\ T = ThreshEnd(<<"ThreshW", k, 0>>) ++ Tk("Verify")
    BY <1>8, <2>5
  <2> QED  BY <2>1, <2>2, <2>3, <2>4, <2>5 DEF Wanted, x0
<1> QED  BY <1>9 DEF pre
-----------------------------------------------------------------------------
(* What ExpressionMatches finds has the tokens it reads. *)

LEMMA ReadsTwo ==
    ASSUME NEW from \in Nat, NEW x, NEW y, Reads(from, <<x, y>>)
    PROVE  Kind(from) = x /\ Kind(from + 1) = y
<1> DEFINE s == <<x, y>>
<1>1. 1 \in DOMAIN s /\ 2 \in DOMAIN s /\ s[1] = x /\ s[2] = y
  OBVIOUS
<1>2. from + 1 - 1 = from /\ from + 2 - 1 = from + 1
  OBVIOUS
<1>3. \A i \in DOMAIN s : Kind(from + i - 1) = s[i]
  BY DEF Reads
<1> HIDE DEF s
<1>4. Kind(from + 1 - 1) = x /\ Kind(from + 2 - 1) = y
  BY <1>1, <1>3
<1> QED  BY <1>2, <1>4

LEMMA ReadsThree ==
    ASSUME NEW from \in Nat, NEW x, NEW y, NEW z, Reads(from, <<x, y, z>>)
    PROVE  Kind(from) = x /\ Kind(from + 1) = y /\ Kind(from + 2) = z
<1> DEFINE s == <<x, y, z>>
<1>1. 1 \in DOMAIN s /\ 2 \in DOMAIN s /\ 3 \in DOMAIN s /\ s[1] = x /\ s[2] = y /\ s[3] = z
  OBVIOUS
<1>2. from + 1 - 1 = from /\ from + 2 - 1 = from + 1 /\ from + 3 - 1 = from + 2
  OBVIOUS
<1>3. \A i \in DOMAIN s : Kind(from + i - 1) = s[i]
  BY DEF Reads
<1> HIDE DEF s
<1>4. Kind(from + 1 - 1) = x /\ Kind(from + 2 - 1) = y /\ Kind(from + 3 - 1) = z
  BY <1>1, <1>3
<1> QED  BY <1>2, <1>4

\* The n tokens read next are T.
Taken(n, T) == n \in Nat /\ IsSeq(T) /\ tokens = Skip(n) ++ T /\ TokensOK(Skip(n))

LEMMA TakenNone ==
    ASSUME TokensOK(tokens)
    PROVE  Taken(0, <<>>)
<1>1. IsSeq(tokens) /\ tokens ++ <<>> = tokens
  BY CatLaws DEF TokensOK
<1> QED  BY <1>1, SkipNone, CatLaws DEF Taken

LEMMA TakenMore ==
    ASSUME NEW n, NEW T, Taken(n, T), NEW k \in Nat, NEW x, IsSeq(x), Skip(n) = Skip(k) ++ x,
           IsSeq(Skip(k)), TokensOK(Skip(k))
    PROVE  Taken(k, x ++ T)
<1>1. IsSeq(T) /\ tokens = Skip(n) ++ T
  BY DEF Taken
<1>2. tokens = Skip(k) ++ (x ++ T) /\ IsSeq(x ++ T)
  BY <1>1, CatLaws
<1> QED  BY <1>2 DEF Taken

LEMMA TakenOp ==
    ASSUME TokensOK(tokens), NEW n, NEW T, Taken(n, T), NEW k, k = n + 1, NEW f, Kind(k) = f,
           f \in Ops
    PROVE  Taken(k, Tk(f) ++ T)
<1>1. f # "none" /\ f \notin Pushes /\ n \in Nat /\ k \in Nat
  BY DEF Ops, Pushes, Taken
<1>2. Skip(n) = Skip(k) ++ Tk(f) /\ IsSeq(Skip(k)) /\ TokensOK(Skip(k))
  BY <1>1, TookOp
<1> QED  BY <1>1, <1>2, TakenMore, SpellsTk

LEMMA TakenPush ==
    ASSUME TokensOK(tokens), NEW n, NEW T, Taken(n, T), NEW k, k = n + 1, NEW f, Kind(k) = f,
           f \in Pushes
    PROVE  /\ Taken(k, <<<<f, Arg(k)>>>> ++ T)
           /\ f = "Num" => Arg(k) \in Int /\ Taken(k, TkNum(Arg(k)) ++ T)
<1>1. f # "none" /\ n \in Nat /\ k \in Nat
  BY DEF Pushes, Taken
<1>2. /\ Skip(n) = Skip(k) ++ <<<<f, Arg(k)>>>> /\ IsSeq(Skip(k)) /\ TokensOK(Skip(k))
      /\ f = "Num" => Arg(k) \in Int /\ Skip(n) = Skip(k) ++ TkNum(Arg(k))
  BY <1>1, TookPush
<1>3. Taken(k, <<<<f, Arg(k)>>>> ++ T)
  <2> DEFINE x == <<<<f, Arg(k)>>>>
  <2>1. IsSeq(x) /\ Skip(n) = Skip(k) ++ x
    BY <1>2, CatLaws
  <2> HIDE DEF x
  <2>2. Taken(k, x ++ T)
    BY <1>1, <1>2, <2>1, TakenMore
  <2> QED  BY <2>2 DEF x
<1>4. ASSUME f = "Num"  PROVE Taken(k, TkNum(Arg(k)) ++ T)
  BY <1>1, <1>2, <1>4, TakenMore, SpellsTk
<1> QED  BY <1>2, <1>3, <1>4

LEMMA TakenKey ==
    ASSUME TokensOK(tokens), NEW n, NEW T, Taken(n, T), NEW k, k = n + 1, IsKey(k)
    PROVE  Taken(k, <<PushKey(Arg(k))>> ++ T)
<1>1. n \in Nat /\ k \in Nat
  BY DEF Taken
<1>2. Skip(n) = Skip(k) ++ <<PushKey(Arg(k))>> /\ IsSeq(Skip(k)) /\ TokensOK(Skip(k))
  BY <1>1, TookKey
<1> DEFINE x == <<PushKey(Arg(k))>>
<1>3. IsSeq(x) /\ Skip(n) = Skip(k) ++ x
  BY <1>2, CatLaws
<1> HIDE DEF x
<1>4. Taken(k, x ++ T)
  BY <1>1, <1>2, <1>3, TakenMore
<1> QED  BY <1>4 DEF x

\* X is the script of the leaf t.
LeafIs(t, X) ==
    \A a, sub : a.frag = t.frag /\ a.k = t.k /\ a.args = t.args => Spells(encode_node(a, sub), X)

Explained(m) ==
    \E T : /\ Taken(m.n, T)
           /\ \/ m.leaf = <<>> /\ Wanted(m.push, T)
              \/ /\ IsLeaf(m)
                 /\ \E X : /\ LeafIs(m.leaf[1], X)
                           /\ \/ m.push = <<>> /\ T = X
                              \/ m.push = <<NT("Verify")>> /\ T = X ++ Tk("Verify")

LEMMA MatchWanted ==
    ASSUME NEW ok, NEW n, NEW p, NEW T, ok => Taken(n, T) /\ Wanted(p, T)
    PROVE  \A m \in Match(ok, n, p, <<>>) : Explained(m)
<1>1. \A m \in Match(ok, n, p, <<>>) : ok /\ m.n = n /\ m.push = p /\ m.leaf = <<>>
  BY DEF Match
<1> QED  BY <1>1, Zenon DEF Explained

LEMMA MatchLeaf ==
    ASSUME NEW ok, NEW n, NEW p, NEW frag \in LeafFrags, NEW k, NEW args, NEW T, NEW X,
           ok => Taken(n, T) /\ LeafIs(Terminal(frag, <<>>, k, args), X),
           \/ p = <<>> /\ T = X
           \/ p = <<NT("Verify")>> /\ T = X ++ Tk("Verify")
    PROVE  \A m \in Match(ok, n, p, Leaf(frag, k, args)) : Explained(m)
<1> DEFINE t == Terminal(frag, <<>>, k, args)
<1>1. \A m \in Match(ok, n, p, Leaf(frag, k, args)) :
            ok /\ m.n = n /\ m.push = p /\ m.leaf = <<t>> /\ m.leaf[1] = t
  BY DEF Match, Leaf
<1>2. \A m \in Match(ok, n, p, Leaf(frag, k, args)) : IsLeaf(m)
  BY <1>1, Zenon DEF IsLeaf
<1> HIDE DEF t
<1>3. ASSUME NEW m \in Match(ok, n, p, Leaf(frag, k, args))
      PROVE  Explained(m)
  <2>1. Taken(m.n, T) /\ LeafIs(m.leaf[1], X) /\ IsLeaf(m)
    BY <1>1, <1>2 DEF t
  <2>2. \/ m.push = <<>> /\ T = X
        \/ m.push = <<NT("Verify")>> /\ T = X ++ Tk("Verify")
    BY <1>1
  <2> QED  BY <2>1, <2>2, Zenon DEF Explained
<1> QED  BY <1>3
LEMMA LeafTexts ==
    /\ LeafIs(Terminal("True", <<>>, 0, <<>>), TkNum(1))
    /\ LeafIs(Terminal("False", <<>>, 0, <<>>), TkNum(0))
    /\ \A k : LeafIs(Terminal("After", <<>>, k, <<>>), TkNum(k) ++ Tk("CheckLockTimeVerify"))
    /\ \A k : LeafIs(Terminal("Older", <<>>, k, <<>>), TkNum(k) ++ Tk("CheckSequenceVerify"))
    /\ \A x : LeafIs(Terminal("PkK", <<>>, 0, <<x>>), <<PushKey(x)>>)
    /\ \A x : LeafIs(Terminal("TxTemplate", <<>>, 0, <<x>>),
                     <<<<"Bytes32", x>>>> ++ (Tk("CheckTemplateVerify") ++ Tk("Drop")))
    /\ \A x : LeafIs(Terminal("RawPkH", <<>>, 0, <<x>>),
                     Tk("Dup") ++ (Tk("Hash160") ++ (<<<<"Hash20", x>>>>
                        ++ (Tk("Equal") ++ Tk("Verify")))))
    /\ \A f \in HashFrags : \A x :
            LeafIs(Terminal(f, <<>>, 0, <<x>>),
                   Tk("Size") ++ (TkNum(32) ++ (Tk("Equal") ++ (Tk("Verify") ++ (Tk(f)
                        ++ (HashPush(f, x) ++ Tk("Equal")))))))
<1>0. \A f, k, args : LET t == Terminal(f, <<>>, k, args) IN t.frag = f /\ t.k = k /\ t.args = args
  BY DEF Terminal
<1>00. \A x : <<x>>[1] = x
  BY ShortSeqs
<1>1. LeafIs(Terminal("True", <<>>, 0, <<>>), TkNum(1))
  <2>1. ASSUME NEW a, NEW sub, a.frag = "True"
        PROVE  Spells(encode_node(a, sub), TkNum(1))
    BY <2>1, EncodeLeaf
  <2> QED  BY <1>0, <2>1 DEF LeafIs
<1>2. LeafIs(Terminal("False", <<>>, 0, <<>>), TkNum(0))
  <2>1. ASSUME NEW a, NEW sub, a.frag = "False"
        PROVE  Spells(encode_node(a, sub), TkNum(0))
    BY <2>1, EncodeLeaf
  <2> QED  BY <1>0, <2>1 DEF LeafIs
<1>3. ASSUME NEW k  PROVE LeafIs(Terminal("After", <<>>, k, <<>>), TkNum(k) ++ Tk("CheckLockTimeVerify"))
  <2>1. ASSUME NEW a, NEW sub, a.frag = "After", a.k = k
        PROVE  Spells(encode_node(a, sub), TkNum(k) ++ Tk("CheckLockTimeVerify"))
    BY <2>1, EncodeLeaf
  <2> QED  BY <1>0, <2>1 DEF LeafIs
<1>4. ASSUME NEW k  PROVE LeafIs(Terminal("Older", <<>>, k, <<>>), TkNum(k) ++ Tk("CheckSequenceVerify"))
  <2>1. ASSUME NEW a, NEW sub, a.frag = "Older", a.k = k
        PROVE  Spells(encode_node(a, sub), TkNum(k) ++ Tk("CheckSequenceVerify"))
    BY <2>1, EncodeLeaf
  <2> QED  BY <1>0, <2>1 DEF LeafIs
<1>5. ASSUME NEW x  PROVE LeafIs(Terminal("PkK", <<>>, 0, <<x>>), <<PushKey(x)>>)
  <2>1. ASSUME NEW a, NEW sub, a.frag = "PkK", a.args = <<x>>
        PROVE  Spells(encode_node(a, sub), <<PushKey(x)>>)
    <3>1. a.args[1] = x
      BY <1>00, <2>1
    <3> QED  BY <2>1, <3>1, EncodeLeaf
  <2> QED  BY <1>0, <2>1 DEF LeafIs
<1>6. ASSUME NEW x
      PROVE  LeafIs(Terminal("TxTemplate", <<>>, 0, <<x>>),
                    <<<<"Bytes32", x>>>> ++ (Tk("CheckTemplateVerify") ++ Tk("Drop")))
  <2>1. ASSUME NEW a, NEW sub, a.frag = "TxTemplate", a.args = <<x>>
        PROVE  Spells(encode_node(a, sub), <<<<"Bytes32", x>>>> ++ (Tk("CheckTemplateVerify") ++ Tk("Drop")))
    <3>1. a.args[1] = x
      BY <1>00, <2>1
    <3> QED  BY <2>1, <3>1, EncodeLeaf
  <2> QED  BY <1>0, <2>1 DEF LeafIs
<1>7. ASSUME NEW x
      PROVE  LeafIs(Terminal("RawPkH", <<>>, 0, <<x>>),
                    Tk("Dup") ++ (Tk("Hash160") ++ (<<<<"Hash20", x>>>> ++ (Tk("Equal") ++ Tk("Verify")))))
  <2>1. ASSUME NEW a, NEW sub, a.frag = "RawPkH", a.args = <<x>>
        PROVE  Spells(encode_node(a, sub),
                      Tk("Dup") ++ (Tk("Hash160") ++ (<<<<"Hash20", x>>>> ++ (Tk("Equal") ++ Tk("Verify")))))
    <3>1. a.args[1] = x
      BY <1>00, <2>1
    <3> QED  BY <2>1, <3>1, EncodeLeaf
  <2> QED  BY <1>0, <2>1 DEF LeafIs
<1>8. ASSUME NEW f \in HashFrags, NEW x
      PROVE  LeafIs(Terminal(f, <<>>, 0, <<x>>),
                    Tk("Size") ++ (TkNum(32) ++ (Tk("Equal") ++ (Tk("Verify") ++ (Tk(f)
                        ++ (HashPush(f, x) ++ Tk("Equal")))))))
  <2>1. ASSUME NEW a, NEW sub, a.frag = f, a.args = <<x>>
        PROVE  Spells(encode_node(a, sub),
                      Tk("Size") ++ (TkNum(32) ++ (Tk("Equal") ++ (Tk("Verify") ++ (Tk(f)
                        ++ (HashPush(f, x) ++ Tk("Equal")))))))
    <3>1. a.args[1] = x
      BY <1>00, <2>1
    <3> QED  BY <2>1, <3>1, EncodeHash
  <2> QED  BY <1>0, <2>1 DEF LeafIs
<1> QED  BY <1>1, <1>2, <1>3, <1>4, <1>5, <1>6, <1>7, <1>8

LEMMA SimpleMatches ==
    ASSUME TokensOK(tokens)
    PROVE  \A m \in MatchKey \cup MatchTxTemplate \cup MatchTimelock \cup MatchConst : Explained(m)
<1> DEFINE N == <<>>
<1>0. Taken(0, N) /\ (\A x : IsSeq(x) => x ++ N = x)
  BY TakenNone, CatLaws
<1>00. 1 = 0 + 1 /\ 2 = 1 + 1 /\ 3 = 2 + 1 /\ 1 \in Nat /\ 1 + 2 = 3
  OBVIOUS
<1> HIDE DEF N
<1>1. \A m \in MatchKey : Explained(m)
  <2> DEFINE X == <<PushKey(Arg(1))>>
  <2>1. IsKey(1) => Taken(1, X ++ N)
    BY <1>0, <1>00, TakenKey
  <2>2. X ++ N = X
    BY <1>0, CatLaws
  <2>3. LeafIs(Terminal("PkK", <<>>, 0, <<Arg(1)>>), X)
    BY LeafTexts
  <2> HIDE DEF X
  <2> QED  BY <2>1, <2>2, <2>3, MatchLeaf DEF MatchKey, LeafFrags
<1>2. \A m \in MatchTxTemplate : Explained(m)
  <2> DEFINE ok == Reads(1, <<"Drop", "CheckTemplateVerify", "Bytes32">>)
             X == <<<<"Bytes32", Arg(3)>>>> ++ (Tk("CheckTemplateVerify") ++ Tk("Drop"))
  <2>1. ASSUME ok  PROVE Taken(3, X)
    <3>1. Kind(1) = "Drop" /\ Kind(2) = "CheckTemplateVerify" /\ Kind(3) = "Bytes32"
      BY <1>00, <2>1, ReadsThree
    <3>2. Taken(1, Tk("Drop") ++ N)
      BY <1>0, <1>00, <3>1, TakenOp DEF Ops
    <3>3. Tk("Drop") ++ N = Tk("Drop")
      BY <1>0, SpellsTk
    <3>4. Taken(2, Tk("CheckTemplateVerify") ++ Tk("Drop"))
      BY <1>00, <3>1, <3>2, <3>3, TakenOp DEF Ops
    <3> QED  BY <1>00, <3>1, <3>4, TakenPush DEF Pushes
  <2>2. LeafIs(Terminal("TxTemplate", <<>>, 0, <<Arg(3)>>), X)
    BY LeafTexts
  <2> HIDE DEF X
  <2> QED  BY <2>1, <2>2, MatchLeaf DEF MatchTxTemplate, LeafFrags
<1>3. ASSUME NEW f \in {"CheckSequenceVerify", "CheckLockTimeVerify"}, Reads(1, <<f, "Num">>)
      PROVE  Taken(2, TkNum(Arg(2)) ++ Tk(f))
  <2>1. Kind(1) = f /\ Kind(2) = "Num"
    BY <1>00, <1>3, ReadsTwo
  <2>2. Taken(1, Tk(f) ++ N)
    BY <1>0, <1>00, <2>1, TakenOp DEF Ops
  <2>3. Tk(f) ++ N = Tk(f)
    BY <1>0, SpellsTk
  <2> QED  BY <1>00, <2>1, <2>2, <2>3, TakenPush DEF Pushes
<1>4. \A m \in MatchTimelock : Explained(m)
  <2>1. \A m \in Match(Reads(1, <<"CheckSequenceVerify", "Num">>) /\ Arg(2) > 0, 2, <<>>,
                       Leaf("Older", Arg(2), <<>>)) : Explained(m)
    <3>1. LeafIs(Terminal("Older", <<>>, Arg(2), <<>>), TkNum(Arg(2)) ++ Tk("CheckSequenceVerify"))
      BY LeafTexts
    <3> QED  BY <1>3, <3>1, MatchLeaf DEF LeafFrags
  <2>2. \A m \in Match(Reads(1, <<"CheckLockTimeVerify", "Num">>) /\ Arg(2) > 0, 2, <<>>,
                       Leaf("After", Arg(2), <<>>)) : Explained(m)
    <3>1. LeafIs(Terminal("After", <<>>, Arg(2), <<>>), TkNum(Arg(2)) ++ Tk("CheckLockTimeVerify"))
      BY LeafTexts
    <3> QED  BY <1>3, <3>1, MatchLeaf DEF LeafFrags
  <2> QED  BY <2>1, <2>2 DEF MatchTimelock
<1>5. ASSUME NEW k, IsNum(1, k)  PROVE Taken(1, TkNum(k))
  <2>1. Kind(1) = "Num" /\ Arg(1) = k
    BY <1>5 DEF IsNum
  <2>2. Taken(1, TkNum(k) ++ N)
    BY <1>0, <1>00, <2>1, TakenPush DEF Pushes
  <2> QED  BY <1>0, <2>2, SpellsTk
<1>6. \A m \in MatchConst : Explained(m)
  <2>1. \A m \in Match(IsNum(1, 0), 1, <<>>, Leaf("False", 0, <<>>)) : Explained(m)
    BY <1>5, LeafTexts, MatchLeaf DEF LeafFrags
  <2>2. \A m \in Match(IsNum(1, 1), 1, <<>>, Leaf("True", 0, <<>>)) : Explained(m)
    BY <1>5, LeafTexts, MatchLeaf DEF LeafFrags
  <2> QED  BY <2>1, <2>2 DEF MatchConst
<1> QED  BY <1>1, <1>2, <1>4, <1>6
\* A hash fragment, before the tokens T.
HashText(f, x) ==
    Tk("Size") ++ (TkNum(32) ++ (Tk("Equal") ++ (Tk("Verify") ++ (Tk(f)
        ++ (HashPush(f, x) ++ Tk("Equal"))))))

LEMMA TakenHash ==
    ASSUME TokensOK(tokens), NEW n, NEW T, Taken(n, T), Kind(n + 1) = "Equal",
           NEW f \in HashFrags, HashAt(n + 2, f)
    PROVE  Taken(n + 7, HashText(f, Arg(n + 2)) ++ T) /\ IsSeq(HashText(f, Arg(n + 2)))
<1> DEFINE x == Arg(n + 2)
           g == IF f \in {"Sha256", "Hash256"} THEN "Bytes32" ELSE "Hash20"
<1>0. n \in Nat /\ IsSeq(T)
  BY DEF Taken
<1>1. /\ n + 2 = (n + 1) + 1 /\ n + 3 = (n + 2) + 1 /\ n + 4 = (n + 3) + 1 /\ n + 5 = (n + 4) + 1
      /\ n + 6 = (n + 5) + 1 /\ n + 7 = (n + 6) + 1 /\ n + 1 \in Nat /\ n + 2 \in Nat
      /\ n + 3 + 1 = n + 4 /\ n + 3 + 2 = n + 5 /\ (n + 2) + 4 = n + 6 /\ (n + 2) + 5 = n + 7
      /\ n + 3 \in Nat
  BY <1>0
<1>2. /\ Kind(n + 2) = g /\ Kind(n + 6) = "Num" /\ Arg(n + 6) = 32 /\ Kind(n + 7) = "Size"
      /\ Reads(n + 3, <<f, "Verify", "Equal">>)
  BY <1>1 DEF HashAt, IsNum
<1>3. Kind(n + 3) = f /\ Kind(n + 4) = "Verify" /\ Kind(n + 5) = "Equal"
  BY <1>1, <1>2, ReadsThree
<1>4. g \in Pushes /\ f \in Ops /\ <<<<g, x>>>> = HashPush(f, x)
  BY DEF Pushes, Ops, HashFrags, HashPush
<1>5. "Equal" \in Ops /\ "Verify" \in Ops /\ "Size" \in Ops /\ "Num" \in Pushes
  BY DEF Ops, Pushes
<1>6. IsSeq(HashPush(f, x))
  BY CatLaws DEF HashPush
<1> HIDE DEF g
<1> DEFINE T1 == Tk("Equal") ++ T
           T2 == HashPush(f, x) ++ T1
           T3 == Tk(f) ++ T2
           T4 == Tk("Verify") ++ T3
           T5 == Tk("Equal") ++ T4
           T6 == TkNum(32) ++ T5
           T7 == Tk("Size") ++ T6
<1>7. Taken(n + 1, T1)
  BY <1>5, TakenOp
<1>8. Taken(n + 2, T2)
  <2> HIDE DEF T1
  <2>1. Taken(n + 2, <<<<g, x>>>> ++ T1)
    BY <1>1, <1>2, <1>4, <1>7, TakenPush
  <2> QED  BY <1>4, <2>1
<1>9. Taken(n + 3, T3)
  <2> HIDE DEF T2
  <2> QED  BY <1>1, <1>3, <1>4, <1>8, TakenOp
<1>10. Taken(n + 4, T4)
  <2> HIDE DEF T3
  <2> QED  BY <1>1, <1>3, <1>5, <1>9, TakenOp
<1>11. Taken(n + 5, T5)
  <2> HIDE DEF T4
  <2> QED  BY <1>1, <1>3, <1>5, <1>10, TakenOp
<1>12. Taken(n + 6, T6)
  <2> HIDE DEF T5
  <2>1. Taken(n + 6, TkNum(Arg(n + 6)) ++ T5)
    BY <1>1, <1>2, <1>5, <1>11, TakenPush
  <2> QED  BY <1>2, <2>1
<1>13. Taken(n + 7, T7)
  <2> HIDE DEF T6
  <2> QED  BY <1>1, <1>2, <1>5, <1>12, TakenOp
<1>14. IsSeq(HashText(f, x)) /\ HashText(f, x) ++ T = T7
  <2> HIDE DEF x
  <2> DEFINE p == HashPush(f, x)
  <2>1. IsSeq(p)
    BY <1>6
  <2>2. HashText(f, x) = Tk("Size") ++ (TkNum(32) ++ (Tk("Equal") ++ (Tk("Verify") ++ (Tk(f)
                            ++ (p ++ Tk("Equal"))))))
    BY DEF HashText
  <2>3. T7 = Tk("Size") ++ (TkNum(32) ++ (Tk("Equal") ++ (Tk("Verify") ++ (Tk(f)
                            ++ (p ++ (Tk("Equal") ++ T))))))
    OBVIOUS
  <2> HIDE DEF p, T7
  <2> QED  BY <1>0, <2>1, <2>2, <2>3, CatLaws, SpellsTk
<1> HIDE DEF T7
<1> QED  BY <1>13, <1>14

\* A threshold's number, before the tokens T.
LEMMA TakenThresh ==
    ASSUME TokensOK(tokens), NEW n, NEW T, Taken(n, T), Reads(n + 1, <<"Equal", "Num">>)
    PROVE  Taken(n + 2, ThreshEnd(<<"ThreshW", Arg(n + 2), 0>>) ++ T)
<1>0. n \in Nat /\ IsSeq(T) /\ n + 1 \in Nat /\ n + 2 = (n + 1) + 1
  BY DEF Taken
<1>1. Kind(n + 1) = "Equal" /\ Kind(n + 2) = "Num"
  BY <1>0, ReadsTwo
<1>2. Taken(n + 1, Tk("Equal") ++ T)
  BY <1>1, TakenOp DEF Ops
<1>3. Taken(n + 2, TkNum(Arg(n + 2)) ++ (Tk("Equal") ++ T))
  BY <1>0, <1>1, <1>2, TakenPush DEF Pushes
<1>4. ThreshEnd(<<"ThreshW", Arg(n + 2), 0>>) = TkNum(Arg(n + 2)) ++ Tk("Equal")
  BY DEF ThreshEnd
<1>5. (TkNum(Arg(n + 2)) ++ Tk("Equal")) ++ T = TkNum(Arg(n + 2)) ++ (Tk("Equal") ++ T)
  BY <1>0, CatLaws, SpellsTk
<1> QED  BY <1>3, <1>4, <1>5

LEMMA HashMatches ==
    ASSUME TokensOK(tokens), NEW v \in BOOLEAN, v => Kind(1) = "Verify"
    PROVE  \A m \in MatchHash(v) : Explained(m)
<1> DEFINE i == IF v THEN 2 ELSE 1
           n == i - 1
           p == IF v THEN <<NT("Verify")>> ELSE <<>>
           T == IF v THEN Tk("Verify") ELSE <<>>
<1>0. n \in Nat /\ n + 1 = i /\ n + 2 = i + 1 /\ n + 7 = i + 6 /\ i \in Nat
  OBVIOUS
<1>1. Taken(n, T) /\ IsSeq(T) /\ (T = <<>> \/ T = Tk("Verify"))
  <2>1. Taken(0, <<>>)
    BY TakenNone
  <2>2. CASE v
    <3>1. Taken(1, Tk("Verify") ++ <<>>) /\ Tk("Verify") ++ <<>> = Tk("Verify")
      <4>1. 1 = 0 + 1 /\ "Verify" \in Ops /\ Kind(1) = "Verify"
        BY <2>2 DEF Ops
      <4> QED  BY <2>1, <4>1, TakenOp, CatLaws, SpellsTk
    <3> QED  BY <2>2, <3>1, SpellsTk
  <2>3. CASE ~v
    BY <2>1, <2>3, CatLaws
  <2> QED  BY <2>2, <2>3
<1>2. (p = <<>> /\ T = <<>>) \/ (p = <<NT("Verify")>> /\ T = Tk("Verify"))
  OBVIOUS
<1> DEFINE Found(f) == Match(Kind(i) = "Equal" /\ HashAt(i + 1, f), i + 6, p, Leaf(f, 0, <<Arg(i + 1)>>))
<1>3. MatchHash(v) = UNION {Found(f) : f \in HashFrags}
  BY DEF MatchHash
<1> HIDE DEF i, n, p, T
<1>4. ASSUME NEW f \in HashFrags  PROVE \A m \in Found(f) : Explained(m)
  <2> DEFINE x == Arg(i + 1)
             X == HashText(f, x)
             ok == Kind(i) = "Equal" /\ HashAt(i + 1, f)
  <2>1. ok => Taken(i + 6, X ++ T) /\ IsSeq(X)
    BY <1>0, <1>1, TakenHash
  <2>2. LeafIs(Terminal(f, <<>>, 0, <<x>>), X)
    BY LeafTexts DEF HashText
  <2>3. f \in LeafFrags
    BY DEF LeafFrags, HashFrags
  <2> HIDE DEF X, x
  <2>4. ok => \/ p = <<>> /\ X ++ T = X
              \/ p = <<NT("Verify")>> /\ X ++ T = X ++ Tk("Verify")
    BY <1>2, <2>1, CatLaws
  <2>5. CASE ok
    <3> HIDE DEF ok
    <3>1. \A m \in Match(ok, i + 6, p, Leaf(f, 0, <<x>>)) : Explained(m)
      BY <2>1, <2>2, <2>3, <2>4, <2>5, MatchLeaf
    <3> QED  BY <3>1 DEF ok, x
  <2>6. CASE ~ok
    BY <2>6 DEF Match
  <2> QED  BY <2>5, <2>6
<1> HIDE DEF Found
<1> QED  BY <1>3, <1>4, Zenon
LEMMA ThreshMatches ==
    ASSUME TokensOK(tokens), NEW v \in BOOLEAN, v => Kind(1) = "Verify"
    PROVE  \A m \in MatchThresh(v) : Explained(m)
<1>1. Taken(0, <<>>)
  BY TakenNone
<1>2. CASE v = FALSE
  <2> DEFINE e == <<"ThreshW", Arg(2), 0>>
             ok == Reads(1, <<"Equal", "Num">>)
  <2>0. 0 + 1 = 1 /\ 0 + 2 = 2 /\ 1 + 1 = 2
    OBVIOUS
  <2>1. ok => Taken(2, ThreshEnd(e) ++ <<>>)
    BY <1>1, <2>0, TakenThresh
  <2>2. ThreshEnd(e) ++ <<>> = ThreshEnd(e)
    BY CatLaws, SpellsTk DEF ThreshEnd
  <2>3. Wanted(<<e>>, ThreshEnd(e))
    BY Zenon DEF Wanted
  <2>4. MatchThresh(v) = Match(ok, 2, <<>> \o <<e>>, <<>>)
    BY <1>2, <2>0 DEF MatchThresh
  <2>5. <<>> \o <<e>> = <<e>>
    OBVIOUS
  <2> HIDE DEF e, ok
  <2>6. \A m \in Match(ok, 2, <<e>>, <<>>) : Explained(m)
    BY <2>1, <2>2, <2>3, MatchWanted
  <2> QED  BY <2>4, <2>5, <2>6, Zenon
<1>3. CASE v = TRUE
  <2> DEFINE e == <<"ThreshW", Arg(3), 0>>
             ok == Reads(2, <<"Equal", "Num">>)
             V == Tk("Verify")
  <2>0. 0 + 1 = 1 /\ 1 + 1 = 2 /\ 1 + 2 = 3 /\ 2 + 1 = 3
    OBVIOUS
  <2>1. Taken(1, V)
    <3>1. Taken(1, V ++ <<>>) /\ V ++ <<>> = V
      <4>1. 1 = 0 + 1 /\ "Verify" \in Ops /\ Kind(1) = "Verify"
        BY <1>3 DEF Ops
      <4> QED  BY <1>1, <4>1, TakenOp, CatLaws, SpellsTk
    <3> QED  BY <3>1
  <2>2. ok => Taken(3, ThreshEnd(e) ++ V)
    BY <2>0, <2>1, TakenThresh
  <2>3. Wanted(<<NT("Verify"), e>>, ThreshEnd(e) ++ V)
    BY Zenon DEF Wanted
  <2>4. MatchThresh(v) = Match(ok, 3, <<NT("Verify")>> \o <<e>>, <<>>)
    BY <1>3, <2>0 DEF MatchThresh
  <2>5. <<NT("Verify")>> \o <<e>> = <<NT("Verify"), e>>
    BY Tuples, Zenon DEF ++
  <2> HIDE DEF e, ok, V
  <2>6. \A m \in Match(ok, 3, <<NT("Verify"), e>>, <<>>) : Explained(m)
    BY <2>2, <2>3, MatchWanted
  <2> QED  BY <2>4, <2>5, <2>6, Zenon
<1> QED  BY <1>2, <1>3

LEMMA WantedOne ==
    /\ \A f \in {"Verify", "ZeroNotEqual"} : Wanted(<<NT(f), NT("Expression")>>, Tk(f))
    /\ Wanted(<<NT("Check"), NT("Expression")>>, Tk("CheckSig"))
    /\ \A args : IsSeq(args) /\ Len(args) >= 1 =>
            Wanted(<<<<"InscribePost", args>>, NT("Expression")>>, Envelopes(args))
<1>1. ASSUME NEW x, Waits(x), Pops(x) = 1, NEW T, \A V, h : After(x, V, h) = T
      PROVE  Wanted(<<x, NT("Expression")>>, T)
  BY <1>1, Zenon DEF Wanted
<1>2. ASSUME NEW f \in {"Verify", "ZeroNotEqual"}  PROVE Wanted(<<NT(f), NT("Expression")>>, Tk(f))
  <2>1. Waits(NT(f)) /\ Pops(NT(f)) = 1
    BY WaitsNT, PopsValues DEF HoleKinds
  <2>2. \A V, h : After(NT(f), V, h) = Tk(f)
    BY DEF After, NT
  <2> QED  BY <1>1, <2>1, <2>2
<1>3. Wanted(<<NT("Check"), NT("Expression")>>, Tk("CheckSig"))
  <2>1. Waits(NT("Check")) /\ Pops(NT("Check")) = 1
    BY WaitsNT, PopsValues DEF HoleKinds
  <2>2. \A V, h : After(NT("Check"), V, h) = Tk("CheckSig")
    BY DEF After, NT
  <2> QED  BY <1>1, <2>1, <2>2
<1>4. ASSUME NEW args, IsSeq(args), Len(args) >= 1
      PROVE  Wanted(<<<<"InscribePost", args>>, NT("Expression")>>, Envelopes(args))
  <2> DEFINE x == <<"InscribePost", args>>
  <2>1. Waits(x) /\ Pops(x) = 1
    BY <1>4, WaitsNT, PopsValues
  <2>2. \A V, h : After(x, V, h) = Envelopes(args)
    BY DEF After
  <2> HIDE DEF x
  <2>3. Wanted(<<x, NT("Expression")>>, Envelopes(args))
    BY <1>1, <2>1, <2>2
  <2> QED  BY <2>3 DEF x
<1> QED  BY <1>2, <1>3, <1>4

LEMMA TakenFirst ==
    ASSUME TokensOK(tokens), NEW f \in Ops, Kind(1) = f
    PROVE  Taken(1, Tk(f))
<1>1. Taken(0, <<>>) /\ 1 = 0 + 1
  BY TakenNone
<1>2. Taken(1, Tk(f) ++ <<>>)
  BY <1>1, TakenOp
<1> QED  BY <1>2, CatLaws, SpellsTk

LEMMA VerifyMatches ==
    ASSUME TokensOK(tokens), Kind(1) = "Verify"
    PROVE  \A m \in MatchVerify : Explained(m)
<1>0. "Verify" \in Ops /\ "Equal" \in Ops /\ "Hash160" \in Ops /\ "Dup" \in Ops /\ "Hash20" \in Pushes
  BY DEF Ops, Pushes
<1>1. Taken(1, Tk("Verify"))
  BY <1>0, TakenFirst
<1>2. \A m \in Match(Kind(2) # "none", 1, <<NT("Verify"), NT("Expression")>>, <<>>) : Explained(m)
  <2>1. Wanted(<<NT("Verify"), NT("Expression")>>, Tk("Verify"))
    BY WantedOne
  <2> QED  BY <1>1, <2>1, MatchWanted
<1>3. (\A m \in MatchHash(TRUE) : Explained(m)) /\ (\A m \in MatchThresh(TRUE) : Explained(m))
  BY HashMatches, ThreshMatches
<1>4. ASSUME Kind(2) = "Equal"
      PROVE  \A m \in Match(Reads(3, <<"Hash20", "Hash160", "Dup">>), 5, <<>>,
                            Leaf("RawPkH", 0, <<Arg(3)>>)) : Explained(m)
  <2> DEFINE ok == Reads(3, <<"Hash20", "Hash160", "Dup">>)
             x == Arg(3)
             X == Tk("Dup") ++ (Tk("Hash160") ++ (<<<<"Hash20", x>>>> ++ (Tk("Equal") ++ Tk("Verify"))))
  <2>0. 2 = 1 + 1 /\ 3 = 2 + 1 /\ 4 = 3 + 1 /\ 5 = 4 + 1 /\ 3 + 2 = 5 /\ 3 \in Nat
    OBVIOUS
  <2>1. ASSUME ok  PROVE Taken(5, X)
    <3>1. Kind(3) = "Hash20" /\ Kind(4) = "Hash160" /\ Kind(5) = "Dup"
      <4>1. Kind(3) = "Hash20" /\ Kind(3 + 1) = "Hash160" /\ Kind(3 + 2) = "Dup"
        BY <2>0, <2>1, ReadsThree
      <4> QED  BY <2>0, <4>1
    <3>2. Taken(2, Tk("Equal") ++ Tk("Verify"))
      BY <1>0, <1>1, <1>4, <2>0, TakenOp
    <3> DEFINE A == Tk("Equal") ++ Tk("Verify")
    <3>3. Taken(3, <<<<"Hash20", x>>>> ++ A)
      <4> HIDE DEF A
      <4>1. Taken(2, A)
        BY <3>2 DEF A
      <4> QED  BY <1>0, <2>0, <3>1, <4>1, TakenPush
    <3> DEFINE B == <<<<"Hash20", x>>>> ++ A
    <3> HIDE DEF B
    <3>4. Taken(3, B)
      BY <3>3 DEF B
    <3>5. Taken(4, Tk("Hash160") ++ B)
      BY <1>0, <2>0, <3>1, <3>4, TakenOp
    <3>6. Taken(5, Tk("Dup") ++ (Tk("Hash160") ++ B))
      BY <1>0, <2>0, <3>1, <3>5, TakenOp
    <3> QED  BY <3>6 DEF A, B
  <2>2. LeafIs(Terminal("RawPkH", <<>>, 0, <<x>>), X)
    BY LeafTexts
  <2>3. "RawPkH" \in LeafFrags
    BY DEF LeafFrags
  <2> HIDE DEF X, ok, x
  <2>4. \A m \in Match(ok, 5, <<>>, Leaf("RawPkH", 0, <<x>>)) : Explained(m)
    BY <2>1, <2>2, <2>3, MatchLeaf
  <2> QED  BY <2>4 DEF ok, x
<1> QED  BY <1>2, <1>3, <1>4, Zenon DEF MatchVerify
LEMMA SuffixMatches ==
    ASSUME TokensOK(tokens)
    PROVE  \A m \in MatchSuffix : Explained(m)
<1> DEFINE pushes == [CheckSig |-> <<NT("Check"), NT("Expression")>>,
                      ZeroNotEqual |-> <<NT("ZeroNotEqual"), NT("Expression")>>,
                      EndIf |-> <<NT("EndIf"), NT("MaybeAndV"), NT("Expression")>>,
                      BoolAnd |-> <<NT("AndB"), NT("Expression"), NT("WExpression")>>,
                      BoolOr |-> <<NT("OrB"), NT("Expression"), NT("WExpression")>>]
           f == Kind(1)
<1>1. MatchSuffix = IF f \in DOMAIN pushes THEN Match(TRUE, 1, pushes[f], <<>>) ELSE {}
  BY DEF MatchSuffix
<1>2. ASSUME f \in DOMAIN pushes  PROVE Wanted(pushes[f], Tk(f)) /\ f \in Ops
  <2>1. f \in {"CheckSig", "ZeroNotEqual", "EndIf", "BoolAnd", "BoolOr"}
    BY <1>2
  <2>2. f \in Ops
    BY <2>1 DEF Ops
  <2>3. CASE f = "CheckSig"
    <3>1. pushes[f] = <<NT("Check"), NT("Expression")>>
      BY <2>3
    <3> HIDE DEF pushes
    <3> QED  BY <2>2, <2>3, <3>1, WantedOne
  <2>4. CASE f = "ZeroNotEqual"
    <3>1. pushes[f] = <<NT("ZeroNotEqual"), NT("Expression")>>
      BY <2>4
    <3> HIDE DEF pushes
    <3> QED  BY <2>2, <2>4, <3>1, WantedOne
  <2>5. CASE f = "EndIf"
    <3>1. Wanted(<<NT("EndIf"), NT("MaybeAndV"), NT("Expression")>>, Tk("EndIf"))
      BY Zenon DEF Wanted
    <3>2. pushes[f] = <<NT("EndIf"), NT("MaybeAndV"), NT("Expression")>>
      BY <2>5
    <3> HIDE DEF pushes
    <3> QED  BY <2>2, <2>5, <3>1, <3>2
  <2>6. ASSUME NEW g \in {"AndB", "OrB"}
        PROVE  Wanted(<<NT(g), NT("Expression"), NT("WExpression")>>, BoolTk(NT(g)))
    BY <2>6, Zenon DEF Wanted
  <2>7. BoolTk(NT("AndB")) = Tk("BoolAnd") /\ BoolTk(NT("OrB")) = Tk("BoolOr")
    BY DEF BoolTk, NT
  <2>8. CASE f = "BoolAnd"
    <3>1. pushes[f] = <<NT("AndB"), NT("Expression"), NT("WExpression")>>
      BY <2>8
    <3> HIDE DEF pushes
    <3> QED  BY <2>2, <2>6, <2>7, <2>8, <3>1
  <2>9. CASE f = "BoolOr"
    <3>1. pushes[f] = <<NT("OrB"), NT("Expression"), NT("WExpression")>>
      BY <2>9
    <3> HIDE DEF pushes
    <3> QED  BY <2>2, <2>6, <2>7, <2>9, <3>1
  <2> HIDE DEF pushes, f
  <2> QED  BY <2>1, <2>2, <2>3, <2>4, <2>5, <2>8, <2>9
<1> HIDE DEF pushes
<1>3. ASSUME f \in DOMAIN pushes  PROVE \A m \in Match(TRUE, 1, pushes[f], <<>>) : Explained(m)
  <2>1. Taken(1, Tk(f)) /\ Wanted(pushes[f], Tk(f))
    BY <1>2, <1>3, TakenFirst
  <2> QED  BY <2>1, MatchWanted
<1> QED  BY <1>1, <1>3

LEMMA InscriptionMatches ==
    ASSUME TokensOK(tokens)
    PROVE  \A m \in MatchInscription : Explained(m)
<1> DEFINE ok == Kind(1) = "Inscription" /\ InscriptionsValid(Inscriptions)
           x == Inscriptions
<1>1. ASSUME Kind(1) = "Inscription"
      PROVE  Taken(InscriptionRun, Envelopes(x)) /\ IsSeq(x) /\ Len(x) >= 1
  <2>1. /\ InscriptionRun \in Nat /\ tokens = Skip(InscriptionRun) ++ Envelopes(x)
        /\ TokensOK(Skip(InscriptionRun)) /\ IsSeq(x) /\ Len(x) >= 1
    BY <1>1, TookInscriptions
  <2>2. IsSeq(Envelopes(x))
    BY <2>1, EnvelopesSpell
  <2> QED  BY <2>1, <2>2 DEF Taken
<1>2. ok => Wanted(<<<<"InscribePost", x>>, NT("Expression")>>, Envelopes(x))
  BY <1>1, WantedOne
<1>3. \A m \in Match(ok, InscriptionRun, <<<<"InscribePost", x>>, NT("Expression")>>, <<>>) : Explained(m)
  <2> HIDE DEF x
  <2> QED  BY <1>1, <1>2, MatchWanted
<1> QED  BY <1>3 DEF MatchInscription

LEMMA MultiMatches ==
    ASSUME TokensOK(tokens)
    PROVE  \A m \in MatchMulti : Explained(m)
<1> SUFFICES ASSUME Reads(1, <<"CheckMultiSig", "Num">>)  PROVE \A m \in MatchMulti : Explained(m)
  BY DEF MatchMulti
<1> DEFINE n == Arg(2)
           args == [i \in 1..n |-> Arg(n + 3 - i)]
           k == Arg(n + 3)
           ok == /\ validate_k_n(1, n, MAX_PUBKEYS_PER_MULTISIG)
                 /\ \A i \in 1..n : Kind(2 + i) \in {"Bytes33", "Bytes65"} /\ IsKey(2 + i)
                 /\ Kind(n + 3) = "Num"
                 /\ validate_k_n(Arg(n + 3), n, MAX_PUBKEYS_PER_MULTISIG)
           A == TkNum(n) ++ Tk("CheckMultiSig")
           X == TkNum(k) ++ (KeyPushes(args) ++ A)
<1>1. MatchMulti = Match(ok, n + 3, <<>>, Leaf("Multi", k, args))
  BY DEF MatchMulti
<1>2. Kind(1) = "CheckMultiSig" /\ Kind(2) = "Num"
  <2>1. 1 \in Nat /\ 1 + 1 = 2
    OBVIOUS
  <2> QED  BY <2>1, ReadsTwo
<1>3. Taken(1, Tk("CheckMultiSig"))
  BY <1>2, TakenFirst DEF Ops
<1>4. Taken(2, A) /\ n \in Int
  <2>1. 2 = 1 + 1 /\ "Num" \in Pushes
    BY DEF Pushes
  <2> QED  BY <1>2, <1>3, <2>1, TakenPush
<1>5. ASSUME ok  PROVE Taken(n + 3, X) /\ IsSeq(args) /\ Len(args) = n /\ n >= 1
  <2>1. n \in Nat /\ n >= 1
    BY <1>4, <1>5 DEF validate_k_n
  <2>2. \A i \in 1..n : IsKey(2 + i)
    BY <1>5
  <2>3. args = [i \in 1..n |-> Arg(2 + n + 1 - i)]
    <3>1. \A i \in 1..n : n + 3 - i = 2 + n + 1 - i
      BY <2>1
    <3> QED  BY <3>1
  <2>4. Kind(n + 3) = "Num"
    BY <1>5
  <2> HIDE DEF n, args, ok, A
  <2>5. /\ Skip(2) = Skip(2 + n) ++ KeyPushes(args) /\ IsSeq(args) /\ Len(args) = n
        /\ IsSeq(Skip(2 + n)) /\ TokensOK(Skip(2 + n))
    BY <2>1, <2>2, <2>3, TookKeys
  <2>6. IsSeq(KeyPushes(args))
    BY <2>5, KeyPushesForm
  <2>7. 2 + n \in Nat /\ n + 3 = (2 + n) + 1
    BY <2>1
  <2>8. Taken(2 + n, KeyPushes(args) ++ A)
    BY <1>4, <2>5, <2>6, <2>7, TakenMore
  <2> DEFINE B == KeyPushes(args) ++ A
  <2>9. Taken(2 + n, B)
    BY <2>8
  <2> HIDE DEF B
  <2>10. Taken(n + 3, TkNum(k) ++ B)
    <3>1. "Num" \in Pushes
      BY DEF Pushes
    <3> QED  BY <2>4, <2>7, <2>9, <3>1, TakenPush
  <2> QED  BY <2>1, <2>5, <2>10 DEF B
<1>6. ASSUME ok  PROVE LeafIs(Terminal("Multi", <<>>, k, args), X)
  <2>1. IsSeq(args) /\ Len(args) = n /\ n >= 1
    BY <1>5, <1>6
  <2> HIDE DEF n, args, ok, k
  <2>2. ASSUME NEW a, NEW sub, a.frag = "Multi", a.k = k, a.args = args
        PROVE  Spells(encode_node(a, sub), X)
    <3>1. IsSeq(a.args) /\ Len(a.args) >= 1
      BY <2>1, <2>2
    <3>2. Spells(encode_node(a, sub),
                 TkNum(a.k) ++ (KeyPushes(a.args) ++ (TkNum(Len(a.args)) ++ Tk("CheckMultiSig"))))
      BY <2>2, <3>1, EncodeMulti
    <3> QED  BY <2>1, <2>2, <3>2
  <2>3. LET t == Terminal("Multi", <<>>, k, args) IN t.frag = "Multi" /\ t.k = k /\ t.args = args
    BY DEF Terminal
  <2> QED  BY <2>2, <2>3 DEF LeafIs
<1>7. "Multi" \in LeafFrags
  BY DEF LeafFrags
<1>8. \A m \in Match(ok, n + 3, <<>>, Leaf("Multi", k, args)) : Explained(m)
  <2> HIDE DEF ok, n, args, k, X
  <2> QED  BY <1>5, <1>6, <1>7, MatchLeaf
<1> HIDE DEF ok, n, args, k
<1> QED  BY <1>1, <1>8
LEMMA MultiAMatches ==
    ASSUME TokensOK(tokens)
    PROVE  \A m \in MatchMultiA : Explained(m)
<1> SUFFICES ASSUME Reads(1, <<"NumEqual", "Num">>)  PROVE \A m \in MatchMultiA : Explained(m)
  BY DEF MatchMultiA
<1> DEFINE S == {j \in 0..Len(tokens) :
                    \A i \in 1..j : Reads(2 * i + 1, <<"CheckSigAdd", "Bytes32">>)}
           q == Max(S)
           N == q + 1
           k == Arg(2)
           args == [i \in 1..(q + 1) |-> Arg(2 * (q + 1 - i) + 4)]
           ok == /\ validate_k_n(Arg(2), Arg(2), MAX_PUBKEYS_IN_CHECKSIGADD)
                 /\ Reads(2 * q + 3, <<"CheckSig", "Bytes32">>)
                 /\ \A i \in 1..(q + 1) : IsKey(2 * i + 2)
                 /\ validate_k_n(Arg(2), q + 1, MAX_PUBKEYS_IN_CHECKSIGADD)
           A == TkNum(k) ++ Tk("NumEqual")
           X == ConcatAll(KeyChecks(args)) ++ A
<1>1. MatchMultiA = Match(ok, 2 * q + 4, <<>>, Leaf("MultiA", k, args))
  BY DEF MatchMultiA
<1>2. Kind(1) = "NumEqual" /\ Kind(2) = "Num"
  <2>1. 1 \in Nat /\ 1 + 1 = 2
    OBVIOUS
  <2> QED  BY <2>1, ReadsTwo
<1>3. Taken(1, Tk("NumEqual"))
  BY <1>2, TakenFirst DEF Ops
<1>4. Taken(2, A)
  <2>1. 2 = 1 + 1 /\ "Num" \in Pushes
    BY DEF Pushes
  <2> QED  BY <1>2, <1>3, <2>1, TakenPush
<1>5. q \in S
  <2>0. Len(tokens) \in Nat
    BY SeqForm DEF TokensOK
  <2>1. S \in SUBSET (0..Len(tokens))
    OBVIOUS
  <2>2. 0 \in S
    BY <2>0
  <2> HIDE DEF S
  <2> QED  BY <2>0, <2>1, <2>2, MaxOf
<1>6. q \in Nat /\ \A i \in 1..q : Reads(2 * i + 1, <<"CheckSigAdd", "Bytes32">>)
  <2> HIDE DEF q
  <2> QED  BY <1>5, SeqForm DEF TokensOK
<1> HIDE DEF q, S
<1>7. ASSUME ok
      PROVE  Taken(2 * q + 4, X) /\ IsSeq(args) /\ Len(args) >= 1
  <2>1. N \in Nat /\ N >= 1 /\ 2 * N + 2 = 2 * q + 4 /\ 2 * N + 2 \in Nat
    BY <1>6
  <2>2. args = [i \in 1..N |-> Arg(2 * (N - i) + 4)]
    <3>1. \A i \in 1..N : 2 * (q + 1 - i) + 4 = 2 * (N - i) + 4
      BY <1>6
    <3> QED  BY <3>1
  <2>3. ASSUME NEW i \in 1..N
        PROVE  IsKey(2 * i + 2) /\ Kind(2 * i + 1) = IF i = N THEN "CheckSig" ELSE "CheckSigAdd"
    <3>1. IsKey(2 * i + 2) /\ 2 * i + 1 \in Nat
      BY <1>6, <1>7
    <3>2. CASE i = N
      <4>1. 2 * q + 3 = 2 * i + 1
        BY <1>6, <3>2
      <4>2. Reads(2 * i + 1, <<"CheckSig", "Bytes32">>)
        BY <1>7, <4>1
      <4> QED  BY <3>1, <3>2, <4>2, ReadsTwo
    <3>3. CASE i # N
      <4>1. i \in 1..q
        BY <1>6, <3>3
      <4> QED  BY <1>6, <3>1, <3>3, <4>1, ReadsTwo
    <3> QED  BY <3>2, <3>3
  <2> HIDE DEF N, args, ok, A
  <2>4. /\ Skip(2) = Skip(2 * N + 2) ++ ConcatAll(KeyChecks(args)) /\ IsSeq(args) /\ Len(args) = N
        /\ IsSeq(Skip(2 * N + 2)) /\ TokensOK(Skip(2 * N + 2))
    BY <2>1, <2>2, <2>3, TookKeyChecks
  <2>5. IsSeq(ConcatAll(KeyChecks(args)))
    <3> DEFINE t == Terminal("MultiA", <<>>, 0, args)
    <3>1. t.frag = "MultiA" /\ t.args = args
      BY DEF Terminal
    <3> HIDE DEF t
    <3>2. IsSeq(t.args) /\ Len(t.args) >= 1
      BY <2>1, <2>4, <3>1
    <3>3. IsSeq(ConcatAll(KeyChecks(t.args)))
      BY <3>1, <3>2, EncodeMultiA
    <3> QED  BY <3>1, <3>3
  <2>6. Taken(2 * N + 2, ConcatAll(KeyChecks(args)) ++ A)
    BY <1>4, <2>1, <2>4, <2>5, TakenMore
  <2> QED  BY <2>1, <2>4, <2>6
<1>8. ASSUME ok  PROVE LeafIs(Terminal("MultiA", <<>>, k, args), X)
  <2>1. IsSeq(args) /\ Len(args) >= 1
    BY <1>7, <1>8
  <2> HIDE DEF args, ok, k
  <2>2. ASSUME NEW a, NEW sub, a.frag = "MultiA", a.k = k, a.args = args
        PROVE  Spells(encode_node(a, sub), X)
    <3>1. IsSeq(a.args) /\ Len(a.args) >= 1
      BY <2>1, <2>2
    <3>2. Spells(encode_node(a, sub), ConcatAll(KeyChecks(a.args)) ++ (TkNum(a.k) ++ Tk("NumEqual")))
      BY <2>2, <3>1, EncodeMultiA
    <3> QED  BY <2>2, <3>2
  <2>3. LET t == Terminal("MultiA", <<>>, k, args) IN t.frag = "MultiA" /\ t.k = k /\ t.args = args
    BY DEF Terminal
  <2> QED  BY <2>2, <2>3 DEF LeafIs
<1>9. "MultiA" \in LeafFrags
  BY DEF LeafFrags
<1>10. \A m \in Match(ok, 2 * q + 4, <<>>, Leaf("MultiA", k, args)) : Explained(m)
  <2> HIDE DEF ok, args, k, X
  <2> QED  BY <1>7, <1>8, <1>9, MatchLeaf
<1> HIDE DEF ok, args, k
<1> QED  BY <1>1, <1>10

LEMMA AllExplained ==
    ASSUME TokensOK(tokens)
    PROVE  \A m \in ExpressionMatches : Explained(m)
<1>1. CASE Kind(1) = "Inscription"
  BY <1>1, InscriptionMatches DEF ExpressionMatches
<1>2. CASE Kind(1) = "Verify"
  BY <1>2, VerifyMatches DEF ExpressionMatches
<1>3. CASE Kind(1) = "Equal"
  <2>1. ExpressionMatches = MatchHash(FALSE) \cup MatchThresh(FALSE)
    BY <1>3 DEF ExpressionMatches
  <2>2. (\A m \in MatchHash(FALSE) : Explained(m)) /\ (\A m \in MatchThresh(FALSE) : Explained(m))
    BY HashMatches, ThreshMatches
  <2> QED  BY <2>1, <2>2, Zenon
<1>4. CASE Kind(1) \notin {"Inscription", "Verify", "Equal"}
  <2>1. ExpressionMatches = MatchKey \cup MatchTxTemplate \cup MatchTimelock \cup MatchConst
                                \cup MatchMulti \cup MatchMultiA \cup MatchSuffix
    BY <1>4 DEF ExpressionMatches
  <2>2. /\ \A m \in MatchKey \cup MatchTxTemplate \cup MatchTimelock \cup MatchConst : Explained(m)
        /\ \A m \in MatchMulti : Explained(m)
        /\ \A m \in MatchMultiA : Explained(m)
        /\ \A m \in MatchSuffix : Explained(m)
    BY SimpleMatches, MultiMatches, MultiAMatches, SuffixMatches
  <2> QED  BY <2>1, <2>2, Zenon
<1> QED  BY <1>1, <1>2, <1>3, <1>4
-----------------------------------------------------------------------------
(* The invariant, and the parser's two kinds of step. *)

\* The tokens of the expressions on the stack tm, with E their scripts.
Values(E, tm) == [i \in 1..Len(tm) |-> lex(E[tm[i]])]

\* The tokens tk are still to be read; the others are those of the
\* expressions on the stack and of the non-terminals.
ReadSoFar(sc, tk, nt, ns, tm) ==
    /\ TokensOK(tk)
    /\ \E E, rest : /\ Arena(ns, E) /\ IsSeq(rest) /\ lex(sc) = tk ++ rest
                    /\ Read(nt, Values(E, tm), Len(tm), rest)

\* The script's tokens once the expression is complete.
Decoded ==
    /\ script \in Scripts /\ lex_ok(script)
    /\ Root \in 1..Len(nodes)
    /\ \E E : Arena(nodes, E) /\ lex(script) = lex(E[Root])

RInv ==
    /\ status = "idle" => nodes = <<>>
    /\ status = "decoding" => /\ script \in Scripts /\ lex_ok(script)
                              /\ ReadSoFar(script, tokens, non_term, nodes, term)
    /\ status = "done" => Decoded

\* The non-terminal on top has read B, and w comes after that.
Here(E, q, w, B) ==
    /\ TokensOK(tokens)
    /\ Arena(nodes, E)
    /\ Cont(Below, Values(E, term), q, w)
    /\ Pops(Top) \in Nat /\ HasArgs(Top) /\ Len(term) = q - 1 + Pops(Top)
    /\ B = Body(Top, Values(E, term), Len(term))
    /\ lex(script) = tokens ++ (B ++ w) /\ IsSeq(B ++ w)

LEMMA ArenaSeqs ==
    ASSUME NEW ns, NEW E, Arena(ns, E), NEW tm \in Seq(1..Len(ns))
    PROVE  Len(tm) \in Nat /\ Seqs(Values(E, tm), Len(tm))
<1>1. Len(tm) \in Nat /\ \A i \in 1..Len(tm) : tm[i] \in 1..Len(ns)
  OBVIOUS
<1>2. ASSUME NEW i \in 1..Len(tm)  PROVE IsSeq(Values(E, tm)[i])
  <2>1. Neat(E[tm[i]])
    BY <1>1 DEF Arena
  <2>2. IsSeq(E[tm[i]])
    BY <2>1 DEF Neat
  <2>3. IsSeq(lex(E[tm[i]]))
    BY <2>2, LexLaws
  <2> QED  BY <2>3 DEF Values
<1> QED  BY <1>1, <1>2 DEF Seqs

LEMMA WeAreHere ==
    ASSUME IInv, RInv, status = "decoding", non_term # <<>>
    PROVE  /\ script \in Scripts /\ lex_ok(script)
           /\ \E E, q, w, B : Here(E, q, w, B)
<1>1. /\ script \in Scripts /\ lex_ok(script)
      /\ ReadSoFar(script, tokens, non_term, nodes, term)
  BY DEF RInv
<1>2. TokensOK(tokens)
  BY <1>1 DEF ReadSoFar
<1>3. PICK E, rest : /\ Arena(nodes, E) /\ IsSeq(rest) /\ lex(script) = tokens ++ rest
                     /\ Read(non_term, Values(E, term), Len(term), rest)
  BY <1>1 DEF ReadSoFar
<1> DEFINE V == Values(E, term)
           m == Len(term)
<1>4. PICK b, e : non_term = b ++ <<e>> /\ Above(b, e, V, m, rest)
  BY <1>3 DEF Read
<1>5. IsSeq(b)
  BY <1>4 DEF Above
<1>6. Top = e /\ Below = b
  BY <1>4, <1>5, LastOf DEF Top, Below
<1>7. PICK q, w : /\ Cont(b, V, q, w) /\ m = q - 1 + Pops(e) /\ rest = Body(e, V, m) ++ w
                  /\ Pops(e) \in Nat /\ HasArgs(e)
  BY <1>4 DEF Above
<1> DEFINE B == Body(Top, V, m)
<1>8. Here(E, q, w, B)
  BY <1>2, <1>3, <1>6, <1>7 DEF Here
<1> QED  BY <1>1, <1>8

LEMMA HereFacts ==
    ASSUME IInv, NEW E, NEW q, NEW w, NEW B, Here(E, q, w, B)
    PROVE  /\ IsSeq(Below) /\ q \in Nat /\ q >= 1 /\ IsSeq(w) /\ IsSeq(tokens)
           /\ Len(term) \in Nat /\ Seqs(Values(E, term), Len(term))
<1>1. Arena(nodes, E) /\ Cont(Below, Values(E, term), q, w) /\ IsSeq(tokens)
  BY DEF Here, TokensOK
<1>2. term \in Seq(1..Len(nodes))
  BY DEF IInv
<1> QED  BY <1>1, <1>2, ArenaSeqs, ContNat

\* An early return.
LEMMA HaltRead ==
    ASSUME RInv, Halt("err")
    PROVE  RInv'
<1>1. status' = "err"
  BY DEF Halt
<1> QED  BY <1>1 DEF RInv

LEMMA ShiftRead ==
    ASSUME IInv, RInv, status = "decoding", non_term # <<>>,
           NEW E, NEW q, NEW w, NEW B, Here(E, q, w, B),
           NEW n, NEW T, Taken(n, T), NEW push, Shift(n, push),
           Read(Below \o push, Values(E, term), Len(term), T ++ (B ++ w))
    PROVE  RInv'
<1>1. /\ tokens' = Skip(n) /\ non_term' = Below \o push /\ script' = script /\ nodes' = nodes
      /\ term' = term /\ status' = "decoding"
  BY DEF Shift
<1>2. script \in Scripts /\ lex_ok(script)
  BY WeAreHere
<1>3. Arena(nodes, E) /\ lex(script) = tokens ++ (B ++ w) /\ IsSeq(B ++ w)
  BY DEF Here
<1>4. IsSeq(T) /\ tokens = Skip(n) ++ T /\ TokensOK(Skip(n))
  BY DEF Taken
<1> DEFINE rest == T ++ (B ++ w)
<1>5. IsSeq(rest) /\ lex(script) = Skip(n) ++ rest
  <2>1. IsSeq(Skip(n))
    BY <1>4 DEF TokensOK
  <2> QED  BY <1>3, <1>4, <2>1, CatLaws
<1> HIDE DEF rest
<1>6. Read(Below \o push, Values(E, term), Len(term), rest)
  BY DEF rest
<1>7. ReadSoFar(script, Skip(n), Below \o push, nodes, term)
  BY <1>3, <1>4, <1>5, <1>6 DEF ReadSoFar
<1>8. ReadSoFar(script', tokens', non_term', nodes', term')
  BY <1>1, <1>7, Zenon
<1>9. status' \notin {"idle", "done"} /\ script' \in Scripts /\ lex_ok(script')
  BY <1>1, <1>2
<1> QED  BY <1>8, <1>9 DEF RInv
\* A new node on the stack, in the place of those from the q-th on.
Replaced(ns2, F, tm2, V, q, X) ==
    /\ Arena(ns2, F)
    /\ Len(tm2) = q /\ Seqs(Values(F, tm2), q)
    /\ Values(F, tm2)[q] = X
    /\ \A i \in 1..(q - 1) : Values(F, tm2)[i] = V[i]

LEMMA NewNode ==
    ASSUME NEW ns, NodesOK(ns), NEW tm \in Seq(1..Len(ns)), NEW E, Arena(ns, E),
           NEW a, a.subs \in Seq(1..Len(ns)), NEW X,
           Spells(encode_node(a, Subs(a, E)), X),
           NEW q \in Nat, q >= 1, q - 1 <= Len(tm)
    PROVE  \E F : Replaced(Append(ns, a), F, Append(SubSeq(tm, 1, q - 1), Len(ns) + 1),
                           Values(E, tm), q, X)
<1> DEFINE s == encode_node(a, Subs(a, E))
           n == Len(ns)
           F == Grown(E, n, s)
           ns2 == Append(ns, a)
           b == SubSeq(tm, 1, q - 1)
           tm2 == Append(b, n + 1)
<1>0. n \in Nat /\ Len(tm) \in Nat /\ \A i \in 1..Len(tm) : tm[i] \in 1..n
  BY SeqForm DEF NodesOK
<1>1. Neat(s) /\ lex(s) = X /\ IsSeq(X)
  BY SpellsLaws DEF Spells
<1>2. Arena(ns2, F) /\ F[n + 1] = s /\ \A i \in 1..n : F[i] = E[i]
  <2> HIDE DEF s
  <2>1. s = encode_node(a, Subs(a, E))
    BY DEF s
  <2> QED  BY <1>1, <2>1, ArenaAppend
<1>3. b \in Seq(1..n) /\ Len(b) = q - 1 /\ \A i \in 1..(q - 1) : b[i] = tm[i]
  BY <1>0
<1>4. /\ Len(tm2) = q /\ tm2[q] = n + 1 /\ q \in 1..q
      /\ \A i \in 1..(q - 1) : tm2[i] = tm[i] /\ tm[i] \in 1..n /\ i \in 1..q /\ i \in 1..Len(tm)
  BY <1>0, <1>3
<1> HIDE DEF s, F, ns2, b, tm2, n
<1>5. Values(F, tm2)[q] = X
  BY <1>1, <1>2, <1>4 DEF Values
<1>6. ASSUME NEW i \in 1..(q - 1)  PROVE Values(F, tm2)[i] = Values(E, tm)[i]
  <2>1. /\ tm2[i] = tm[i] /\ tm[i] \in 1..n /\ i \in 1..Len(tm2) /\ i \in 1..Len(tm)
        /\ F[tm[i]] = E[tm[i]]
    BY <1>2, <1>4
  <2> QED  BY <2>1 DEF Values
<1>7. Seqs(Values(E, tm), Len(tm))
  BY ArenaSeqs
<1>8. Seqs(Values(F, tm2), q)
  <2>1. ASSUME NEW i \in 1..q  PROVE IsSeq(Values(F, tm2)[i])
    <3>1. CASE i = q
      BY <1>1, <1>5, <3>1
    <3>2. CASE i # q
      <4>1. i \in 1..(q - 1)
        BY <3>2
      <4> QED  BY <1>4, <1>6, <1>7, <4>1 DEF Seqs
    <3> QED  BY <3>1, <3>2
  <2> QED  BY <2>1 DEF Seqs
<1>9. Replaced(ns2, F, tm2, Values(E, tm), q, X)
  BY <1>2, <1>4, <1>5, <1>6, <1>8 DEF Replaced
<1> QED  BY <1>9 DEF ns2, tm2, b, n

\* X is the script of the fragment over the operands subs, counted from the
\* m-th down.
Builds(frag, k, args, subs, V, m, X) ==
    \A a, sub : /\ a.frag = frag /\ a.k = k /\ a.args = args
                /\ sub = [i \in 1..Len(subs) |-> sub[i]]
                /\ \A i \in 1..Len(subs) : Spells(sub[i], V[m + 1 - subs[i]])
                => Spells(encode_node(a, sub), X)

\* A reduction: T and what the non-terminal on top has read are the tokens of
\* the fragment it builds.
LEMMA ReduceRead ==
    ASSUME IInv, RInv, status = "decoding", non_term # <<>>,
           NEW E, NEW q, NEW w, NEW B, Here(E, q, w, B), IsSeq(B),
           NEW n, NEW T, Taken(n, T), NEW subs \in Seq(1..Pops(Top)),
           NEW frag, NEW k, NEW args,
           Builds(frag, k, args, subs, Values(E, term), Len(term), T ++ B),
           Reduce(n, Pops(Top), subs, Terminal(frag, <<>>, k, args), <<>>)
    PROVE  RInv'
<1> DEFINE pops == Pops(Top)
           m == Len(term)
           V == Values(E, term)
           us == [i \in DOMAIN subs |-> term[m + 1 - subs[i]]]
           u == [Terminal(frag, <<>>, k, args) EXCEPT !.subs = us]
           a == Annotate(nodes, u)
           X == T ++ B
<1>0. /\ IsSeq(Below) /\ q \in Nat /\ q >= 1 /\ IsSeq(w) /\ m \in Nat /\ Seqs(V, m)
      /\ pops \in Nat /\ m = q - 1 + pops /\ Cont(Below, V, q, w) /\ Arena(nodes, E)
      /\ lex(script) = tokens ++ (B ++ w)
  BY HereFacts DEF Here
<1>1. NodesOK(nodes) /\ term \in Seq(1..Len(nodes))
  BY DEF IInv
<1>2. script \in Scripts /\ lex_ok(script)
  BY WeAreHere
<1>3. IsSeq(T) /\ tokens = Skip(n) ++ T /\ TokensOK(Skip(n)) /\ IsSeq(Skip(n))
  BY DEF Taken, TokensOK
<1>4. a.frag = frag /\ a.k = k /\ a.args = args /\ a.subs = us
  BY DEF Annotate, Terminal
<1>5. /\ us \in Seq(1..Len(nodes)) /\ DOMAIN us = 1..Len(subs)
      /\ \A i \in 1..Len(subs) : us[i] = term[m + 1 - subs[i]] /\ m + 1 - subs[i] \in 1..m
  <2>1. Len(subs) \in Nat /\ DOMAIN subs = 1..Len(subs) /\ \A i \in 1..Len(subs) : subs[i] \in 1..pops
    BY SeqOver, Zenon
  <2>2. \A i \in 1..Len(subs) : m + 1 - subs[i] \in 1..m
    BY <1>0, <2>1
  <2>3. \A i \in 1..m : term[i] \in 1..Len(nodes)
    BY <1>1
  <2>4. \A i \in 1..Len(subs) : us[i] = term[m + 1 - subs[i]] /\ us[i] \in 1..Len(nodes)
    BY <2>1, <2>2, <2>3
  <2> QED  BY <2>1, <2>2, <2>4
<1>6. \/ Halt("err")
      \/ /\ tokens' = Skip(n) /\ non_term' = Below \o <<>>
         /\ nodes' = Append(nodes, a)
         /\ term' = Append(SubSeq(term, 1, m - pops), Len(nodes) + 1)
         /\ script' = script /\ status' = status
  <2>1. ~(m < pops)
    BY <1>0
  <2> QED  BY <2>1 DEF Reduce
<1>7. CASE Halt("err")
  BY <1>7, HaltRead
<1> HIDE DEF us, a
<1> DEFINE sub == [j \in DOMAIN us |-> E[us[j]]]
<1>8. Spells(encode_node(a, sub), X)
  <2>1. sub = [i \in 1..Len(subs) |-> sub[i]] /\ \A i \in 1..Len(subs) : sub[i] = E[us[i]]
    BY <1>5
  <2> HIDE DEF sub
  <2>2. ASSUME NEW i \in 1..Len(subs)  PROVE Spells(sub[i], V[m + 1 - subs[i]])
    <3>1. sub[i] = E[term[m + 1 - subs[i]]] /\ m + 1 - subs[i] \in 1..m
      BY <1>5, <2>1
    <3> DEFINE j == m + 1 - subs[i]
    <3>2. j \in 1..m /\ sub[i] = E[term[j]]
      BY <3>1
    <3> HIDE DEF j
    <3>3. V[j] = lex(E[term[j]])
      BY <3>2 DEF Values
    <3>4. term[j] \in 1..Len(nodes)
      BY <1>1, <3>2
    <3>5. Neat(E[term[j]])
      BY <1>0, <3>4 DEF Arena
    <3>6. Spells(sub[i], V[j])
      BY <3>2, <3>3, <3>5 DEF Spells
    <3> QED  BY <3>6 DEF j
  <2> HIDE DEF V
  <2> QED  BY <1>4, <2>1, <2>2 DEF V, Builds
<1>9. CASE /\ tokens' = Skip(n) /\ non_term' = Below \o <<>>
           /\ nodes' = Append(nodes, a)
           /\ term' = Append(SubSeq(term, 1, m - pops), Len(nodes) + 1)
           /\ script' = script /\ status' = status
  <2> DEFINE ns2 == Append(nodes, a)
             tm2 == Append(SubSeq(term, 1, q - 1), Len(nodes) + 1)
  <2>1. m - pops = q - 1 /\ q - 1 <= m
    BY <1>0
  <2>2. nodes' = ns2 /\ term' = tm2
    BY <1>9, <2>1
  <2>3. PICK F : /\ Arena(ns2, F)
                 /\ Len(tm2) = q /\ Seqs(Values(F, tm2), q)
                 /\ Values(F, tm2)[q] = X
                 /\ \A i \in 1..(q - 1) : Values(F, tm2)[i] = V[i]
    <3>1. a.subs \in Seq(1..Len(nodes)) /\ sub = Subs(a, E)
      BY <1>4, <1>5 DEF Subs
    <3> HIDE DEF sub, X, V, m
    <3>2. Spells(encode_node(a, Subs(a, E)), X)
      BY <1>8, <3>1
    <3>3. \E F : Replaced(Append(nodes, a), F, Append(SubSeq(term, 1, q - 1), Len(nodes) + 1),
                          Values(E, term), q, X)
      BY <1>0, <1>1, <2>1, <3>1, <3>2, NewNode DEF m
    <3> QED  BY <3>3 DEF Replaced, V
  <2> DEFINE U == Values(F, tm2)
  <2> HIDE DEF ns2, tm2
  <2>4. Cont(Below, U, q, w)
    <3> HIDE DEF U, V
    <3>1. \A i \in 1..(q - 1) : U[i] = V[i]
      BY <2>3 DEF U
    <3> QED  BY <1>0, <3>1, ContV
  <2>5. Read(Below, U, q, U[q] ++ w)
    <3>1. \A i \in 1..q : IsSeq(U[i])
      BY <2>3 DEF Seqs
    <3> HIDE DEF U
    <3> QED  BY <2>4, <3>1, Return
  <2>6. Read(Below, U, Len(tm2), X ++ w)
    BY <2>3, <2>5
  <2>7. IsSeq(X ++ w) /\ lex(script) = Skip(n) ++ (X ++ w)
    BY <1>0, <1>3, CatLaws
  <2> HIDE DEF X
  <2>8. ReadSoFar(script, Skip(n), Below, ns2, tm2)
    BY <1>3, <2>3, <2>6, <2>7 DEF ReadSoFar
  <2>9. non_term' = Below
    BY <1>0, <1>9, CatEmpty
  <2>10. ReadSoFar(script', tokens', non_term', nodes', term')
    BY <1>9, <2>2, <2>8, <2>9
  <2>11. status' \notin {"idle", "done"} /\ script' \in Scripts /\ lex_ok(script')
    BY <1>2, <1>9
  <2> QED  BY <2>10, <2>11 DEF RInv
<1> QED  BY <1>6, <1>7, <1>9
-----------------------------------------------------------------------------
(* One lemma per action. *)

LEMMA PushLeafRead ==
    ASSUME IInv, RInv, status = "decoding", non_term # <<>>,
           NEW E, NEW q, NEW w, NEW B, Here(E, q, w, B), Pops(Top) = 0, B = <<>>,
           NEW m, IsLeaf(m), NEW T, Taken(m.n, T), NEW X, LeafIs(m.leaf[1], X),
           \/ m.push = <<>> /\ T = X
           \/ m.push = <<NT("Verify")>> /\ T = X ++ Tk("Verify"),
           PushLeaf(m, m.leaf[1])
    PROVE  RInv'
<1> DEFINE V == Values(E, term)
           t == m.leaf[1]
           a == Annotate(nodes, t)
           pre == NT("InscribePre")
           ver == NT("Verify")
<1>0. /\ IsSeq(Below) /\ q \in Nat /\ q >= 1 /\ IsSeq(w) /\ Len(term) \in Nat
      /\ Len(term) = q - 1 /\ Cont(Below, V, q, w) /\ Arena(nodes, E)
      /\ lex(script) = tokens ++ (B ++ w)
  BY HereFacts DEF Here
<1>1. NodesOK(nodes) /\ term \in Seq(1..Len(nodes))
  BY DEF IInv
<1>2. script \in Scripts /\ lex_ok(script)
  BY WeAreHere
<1>3. IsSeq(T) /\ tokens = Skip(m.n) ++ T /\ TokensOK(Skip(m.n)) /\ IsSeq(Skip(m.n))
  BY DEF Taken, TokensOK
<1>4. t.subs = <<>>
  <2>1. PICK frag \in LeafFrags : \E k, args : m.leaf = <<Terminal(frag, <<>>, k, args)>>
    BY DEF IsLeaf
  <2>2. PICK k, args : m.leaf = <<Terminal(frag, <<>>, k, args)>>
    BY <2>1
  <2>3. t = Terminal(frag, <<>>, k, args)
    BY <2>2, ShortSeqs
  <2> QED  BY <2>3 DEF Terminal
<1>5. a.frag = t.frag /\ a.k = t.k /\ a.args = t.args /\ a.subs = <<>>
  BY <1>4 DEF Annotate
<1>6. \/ Halt("err")
      \/ /\ tokens' = Skip(m.n) /\ non_term' = (Below \o <<pre>>) \o m.push
         /\ nodes' = Append(nodes, a) /\ term' = Append(term, Len(nodes) + 1)
         /\ script' = script /\ status' = status
  BY DEF PushLeaf
<1>7. CASE Halt("err")
  BY <1>7, HaltRead
<1> HIDE DEF a, t
<1>8. Spells(encode_node(a, Subs(a, E)), X)
  BY <1>5 DEF LeafIs, t
<1>9. CASE /\ tokens' = Skip(m.n) /\ non_term' = (Below \o <<pre>>) \o m.push
           /\ nodes' = Append(nodes, a) /\ term' = Append(term, Len(nodes) + 1)
           /\ script' = script /\ status' = status
  <2> DEFINE ns2 == Append(nodes, a)
             tm2 == Append(SubSeq(term, 1, q - 1), Len(nodes) + 1)
  <2>1. a.subs \in Seq(1..Len(nodes)) /\ q - 1 <= Len(term)
    BY <1>0, <1>5
  <2>2. nodes' = ns2 /\ term' = tm2
    <3>1. SubSeq(term, 1, q - 1) = term
      BY <1>0, <1>1
    <3> QED  BY <1>9, <3>1
  <2>3. PICK F : Replaced(ns2, F, tm2, V, q, X)
    <3> HIDE DEF pre, ver
    <3> QED  BY <1>0, <1>1, <1>8, <2>1, NewNode
  <2> HIDE DEF ns2, tm2
  <2> DEFINE U == Values(F, tm2)
  <2>4. /\ Arena(ns2, F) /\ Len(tm2) = q /\ Seqs(U, q) /\ U[q] = X
        /\ \A i \in 1..(q - 1) : U[i] = V[i]
    BY <2>3 DEF Replaced
  <2> HIDE DEF U, V
  <2>5. Cont(Below, U, q, w)
    BY <1>0, <2>4, ContV
  <2>6. Seqs(U, q - 1) /\ \A i \in 1..q : IsSeq(U[i])
    BY <1>0, <2>4 DEF Seqs
  <2>60. IsSeq(X)
    <3>1. q \in 1..q
      BY <1>0
    <3> QED  BY <2>4, <2>6, <3>1
  <2> DEFINE b == Below ++ <<pre>>
  <2>7. Cont(b, U, q, w) /\ IsSeq(b)
    <3>1. Waits(pre) /\ pre[1] = "InscribePre" /\ Pops(pre) = 1
      BY WaitsNT, PopsValues DEF HoleKinds
    <3>2. After(pre, U, q) = <<>>
      BY <3>1 DEF After
    <3> HIDE DEF pre
    <3>3. Cont(b, U, q, <<>> ++ w)
      BY <2>5, <2>6, <3>1, <3>2, ContOne
    <3>4. <<>> ++ w = w
      BY <1>0, CatLaws
    <3> HIDE DEF b
    <3> QED  BY <3>3, <3>4, ContNat
  <2>8. Read(b ++ m.push, U, q, T ++ w)
    <3> HIDE DEF b
    <3>1. CASE m.push = <<>> /\ T = X
      <4>1. Read(b, U, q, U[q] ++ w)
        BY <2>6, <2>7, Return
      <4>2. b ++ m.push = b
        BY <2>7, <3>1, CatLaws
      <4> QED  BY <2>4, <3>1, <4>1, <4>2
    <3>2. CASE m.push = <<ver>> /\ T = X ++ Tk("Verify")
      <4>1. Waits(ver) /\ ver[1] = "Verify" /\ Pops(ver) = 1
        BY WaitsNT, PopsValues DEF HoleKinds
      <4>2. After(ver, U, q) = Tk("Verify")
        BY <4>1 DEF After
      <4> HIDE DEF ver
      <4>3. Cont(b ++ <<ver>>, U, q, Tk("Verify") ++ w)
        BY <2>6, <2>7, <4>1, <4>2, ContOne
      <4>4. Read(b ++ <<ver>>, U, q, U[q] ++ (Tk("Verify") ++ w))
        BY <2>6, <4>3, Return
      <4>5. T ++ w = X ++ (Tk("Verify") ++ w)
        BY <1>0, <2>60, <3>2, CatLaws, SpellsTk
      <4> QED  BY <2>4, <3>2, <4>4, <4>5
    <3> QED  BY <3>1, <3>2
  <2>9. non_term' = b ++ m.push
    BY <1>9, Zenon DEF ++
  <2>10. IsSeq(T ++ w) /\ lex(script) = Skip(m.n) ++ (T ++ w)
    BY <1>0, <1>3, CatLaws
  <2> HIDE DEF b
  <2>11. ReadSoFar(script, Skip(m.n), b ++ m.push, ns2, tm2)
    BY <1>3, <2>4, <2>8, <2>10 DEF ReadSoFar, U
  <2>12. ReadSoFar(script', tokens', non_term', nodes', term')
    BY <1>9, <2>2, <2>9, <2>11, Zenon
  <2>13. status' \notin {"idle", "done"} /\ script' \in Scripts /\ lex_ok(script')
    BY <1>2, <1>9
  <2> QED  BY <2>12, <2>13 DEF RInv
<1> QED  BY <1>6, <1>7, <1>9

LEMMA ExpressionRead ==
    ASSUME IInv, RInv, Expression
    PROVE  RInv'
<1>1. status = "decoding" /\ non_term # <<>> /\ Top[1] = "Expression" /\ Pops(Top) = 0
  BY DEF Expression, At, Pops
<1>2. PICK E, q, w, B : Here(E, q, w, B)
  BY <1>1, WeAreHere
<1> DEFINE V == Values(E, term)
<1>3. /\ IsSeq(Below) /\ q \in Nat /\ q >= 1 /\ IsSeq(w) /\ Len(term) \in Nat
      /\ Seqs(V, Len(term)) /\ Len(term) = q - 1 /\ Cont(Below, V, q, w) /\ TokensOK(tokens)
  BY <1>1, <1>2, HereFacts DEF Here
<1>4. B = <<>> /\ B ++ w = w
  <2>1. B = <<>>
    BY <1>1, <1>2 DEF Here, Body
  <2> QED  BY <1>3, <2>1, CatLaws
<1>5. CASE Halt("err")
  BY <1>5, HaltRead
<1>6. ASSUME NEW m \in ExpressionMatches,
             IF m.leaf = <<>> THEN Shift(m.n, <<NT("InscribePre")>> \o m.push)
             ELSE PushLeaf(m, m.leaf[1])
      PROVE  RInv'
  <2>1. Explained(m)
    BY <1>3, AllExplained
  <2>2. PICK T : /\ Taken(m.n, T)
                 /\ \/ m.leaf = <<>> /\ Wanted(m.push, T)
                    \/ /\ IsLeaf(m)
                       /\ \E X : /\ LeafIs(m.leaf[1], X)
                                 /\ \/ m.push = <<>> /\ T = X
                                    \/ m.push = <<NT("Verify")>> /\ T = X ++ Tk("Verify")
    BY <2>1 DEF Explained
  <2>3. CASE m.leaf = <<>> /\ Wanted(m.push, T)
    <3> DEFINE p == <<NT("InscribePre")>> \o m.push
    <3>1. Shift(m.n, p)
      BY <1>6, <2>3
    <3>2. Seqs(V, q - 1)
      BY <1>3
    <3>3. Read(Below ++ (<<NT("InscribePre")>> ++ m.push), V, q - 1, T ++ w)
      <4> HIDE DEF V
      <4> QED  BY <1>3, <2>3, <3>2, WantedRead
    <3>4. Read(Below \o p, V, q - 1, T ++ w)
      BY <3>3, Zenon DEF ++
    <3> HIDE DEF p
    <3>5. Read(Below \o p, Values(E, term), Len(term), T ++ (B ++ w))
      BY <1>3, <1>4, <3>4
    <3> QED  BY <1>1, <1>2, <2>2, <3>1, <3>5, ShiftRead
  <2>4. ASSUME IsLeaf(m), NEW X, LeafIs(m.leaf[1], X),
               \/ m.push = <<>> /\ T = X
               \/ m.push = <<NT("Verify")>> /\ T = X ++ Tk("Verify")
        PROVE  RInv'
    <3>1. PushLeaf(m, m.leaf[1])
      <4>1. m.leaf # <<>>
        BY <2>4, ShortSeqs DEF IsLeaf
      <4> QED  BY <1>6, <4>1
    <3> QED  BY <1>1, <1>2, <1>4, <2>2, <2>4, <3>1, PushLeafRead
  <2> QED  BY <2>2, <2>3, <2>4
<1>7. \/ Halt("err")
      \/ \E m \in ExpressionMatches :
            IF m.leaf = <<>> THEN Shift(m.n, <<NT("InscribePre")>> \o m.push)
            ELSE PushLeaf(m, m.leaf[1])
  BY DEF Expression
<1> QED  BY <1>5, <1>6, <1>7
\* A non-terminal x that waits for the expression read next.
LEMMA PushTwo ==
    ASSUME NEW b, NEW V, NEW q, NEW w, Cont(b, V, q, w), NEW x, Waits(x), NEW h, h = q - 1 + Pops(x),
           Seqs(V, h - 1), NEW y, y[1] \in {"Expression", "WExpression"}
    PROVE  Read(b \o <<x, y>>, V, h - 1, After(x, V, h) ++ w)
<1>1. IsSeq(b) /\ q \in Nat /\ IsSeq(w) /\ Pops(x) \in Nat /\ q - 2 + Pops(x) = h - 1
  BY ContNat DEF Waits
<1>2. \A i \in 1..(q - 2 + Pops(x)) : IsSeq(V[i])
  BY <1>1 DEF Seqs
<1>3. Cont(b ++ <<x>>, V, h, After(x, V, h) ++ w)
  BY <1>2, ContPush
<1>4. Read((b ++ <<x>>) ++ <<y>>, V, h - 1, After(x, V, h) ++ w)
  BY <1>3, ReadExpr
<1>5. b ++ <<x, y>> = (b ++ <<x>>) ++ <<y>>
  BY <1>1, StackCat
<1>6. b \o <<x, y>> = b ++ <<x, y>>
  BY Zenon DEF ++
<1> QED  BY <1>4, <1>5, <1>6

\* A MaybeAndV on top of it.
LEMMA ContMaybe ==
    ASSUME NEW b, NEW V, NEW q, NEW w, Cont(b, V, q, w), Seqs(V, q - 1)
    PROVE  Cont(b ++ <<NT("MaybeAndV")>>, V, q, w)
<1> DEFINE x == NT("MaybeAndV")
<1>1. Waits(x) /\ x[1] = "MaybeAndV" /\ Pops(x) = 1
  BY WaitsNT, PopsValues DEF HoleKinds
<1>2. After(x, V, q) = <<>> /\ IsSeq(w)
  BY <1>1, ContNat DEF After
<1> HIDE DEF x
<1>3. Cont(b ++ <<x>>, V, q, <<>> ++ w)
  BY <1>1, <1>2, ContOne
<1>4. <<>> ++ w = w
  BY <1>2, CatLaws
<1> QED  BY <1>3, <1>4 DEF x

LEMMA PushMaybe ==
    ASSUME NEW b, NEW V, NEW q, NEW w, Cont(b, V, q, w), NEW x, Waits(x), NEW h, h = q - 1 + Pops(x),
           Seqs(V, h - 1), NEW y, y[1] \in {"Expression", "WExpression"}
    PROVE  /\ Read(b \o <<x, NT("MaybeAndV"), y>>, V, h - 1, After(x, V, h) ++ w)
           /\ Seqs(V, h) => Read(b \o <<x, NT("MaybeAndV")>>, V, h, V[h] ++ (After(x, V, h) ++ w))
<1> DEFINE z == NT("MaybeAndV")
<1>1. IsSeq(b) /\ q \in Nat /\ IsSeq(w) /\ Pops(x) \in Nat /\ q - 2 + Pops(x) = h - 1
  BY ContNat DEF Waits
<1>2. \A i \in 1..(q - 2 + Pops(x)) : IsSeq(V[i])
  BY <1>1 DEF Seqs
<1>3. Cont(b ++ <<x>>, V, h, After(x, V, h) ++ w)
  BY <1>2, ContPush
<1>4. Cont((b ++ <<x>>) ++ <<z>>, V, h, After(x, V, h) ++ w)
  BY <1>3, ContMaybe
<1> HIDE DEF z
<1>5. Read(((b ++ <<x>>) ++ <<z>>) ++ <<y>>, V, h - 1, After(x, V, h) ++ w)
  BY <1>4, ReadExpr
<1>6. Seqs(V, h) => Read((b ++ <<x>>) ++ <<z>>, V, h, V[h] ++ (After(x, V, h) ++ w))
  BY <1>4, Return DEF Seqs
<1>7. b \o <<x, z, y>> = ((b ++ <<x>>) ++ <<z>>) ++ <<y>> /\ b \o <<x, z>> = (b ++ <<x>>) ++ <<z>>
  <2>1. b ++ <<x, z, y>> = ((b ++ <<x>>) ++ <<z>>) ++ <<y>> /\ b ++ <<x, z>> = (b ++ <<x>>) ++ <<z>>
    BY <1>1, StackCat
  <2>2. b ++ <<x, z, y>> = b \o <<x, z, y>> /\ b ++ <<x, z>> = b \o <<x, z>>
    BY Zenon DEF ++
  <2> QED  BY <2>1, <2>2, Zenon
<1>8. /\ Read(b \o <<x, z, y>>, V, h - 1, After(x, V, h) ++ w)
      /\ Seqs(V, h) => Read(b \o <<x, z>>, V, h, V[h] ++ (After(x, V, h) ++ w))
  BY <1>5, <1>6, <1>7, Zenon
<1> QED  BY <1>8 DEF z

LEMMA MaybeAndVRead ==
    ASSUME IInv, RInv, MaybeAndV
    PROVE  RInv'
<1>1. status = "decoding" /\ non_term # <<>> /\ Top[1] = "MaybeAndV" /\ Pops(Top) = 1
  BY DEF MaybeAndV, At, Pops
<1>2. PICK E, q, w, B : Here(E, q, w, B)
  BY <1>1, WeAreHere
<1> DEFINE V == Values(E, term)
<1>3. /\ IsSeq(Below) /\ q \in Nat /\ q >= 1 /\ IsSeq(w) /\ Len(term) = q
      /\ Seqs(V, q) /\ Cont(Below, V, q, w) /\ TokensOK(tokens) /\ IsSeq(V[q])
  <2>1. /\ IsSeq(Below) /\ q \in Nat /\ q >= 1 /\ IsSeq(w) /\ Len(term) = q
        /\ Seqs(V, q) /\ Cont(Below, V, q, w) /\ TokensOK(tokens)
    BY <1>1, <1>2, HereFacts DEF Here
  <2> QED  BY <2>1 DEF Seqs
<1>4. B = V[q]
  <2>1. B = V[q] ++ <<>>
    BY <1>1, <1>2, <1>3 DEF Here, Body, After
  <2> QED  BY <1>3, <2>1, CatLaws
<1>5. Taken(0, <<>>) /\ <<>> ++ (B ++ w) = B ++ w
  BY <1>3, <1>4, TakenNone, CatLaws
<1>6. CASE Shift(0, <<>>)
  <2>1. Read(Below, V, q, V[q] ++ w)
    BY <1>3, Return DEF Seqs
  <2>2. Below \o <<>> = Below
    BY <1>3, CatEmpty
  <2> QED  BY <1>1, <1>2, <1>3, <1>4, <1>5, <1>6, <2>1, <2>2, ShiftRead
<1>7. CASE Shift(0, <<NT("AndV"), NT("Expression")>>)
  <2> DEFINE x == NT("AndV")
             y == NT("Expression")
             h == q + 1
  <2>1. /\ Waits(x) /\ Pops(x) = 2 /\ x[1] = "AndV" /\ y[1] = "Expression"
        /\ h = q - 1 + Pops(x) /\ h - 1 = q
    BY <1>3, WaitsNT, PopsValues DEF HoleKinds, NT
  <2>2. After(x, V, h) = V[q]
    BY <2>1 DEF After
  <2> HIDE DEF x, y, h, V
  <2>3. Read(Below \o <<x, y>>, V, h - 1, After(x, V, h) ++ w)
    BY <1>3, <2>1, PushTwo
  <2>4. Read(Below \o <<x, y>>, V, Len(term), <<>> ++ (B ++ w))
    BY <1>3, <1>4, <1>5, <2>1, <2>2, <2>3
  <2>5. Shift(0, <<x, y>>)
    BY <1>7 DEF x, y
  <2> QED  BY <1>1, <1>2, <1>5, <2>4, <2>5, ShiftRead DEF V
<1> QED  BY <1>6, <1>7 DEF MaybeAndV
\* The reductions with one and with two operands.
Builds1(frag, args, v, X) ==
    \A a, sub : a.frag = frag /\ a.args = args /\ Spells(sub[1], v) => Spells(encode_node(a, sub), X)
Builds2(frag, v, u, X) ==
    \A a, sub : a.frag = frag /\ Spells(sub[1], v) /\ Spells(sub[2], u) => Spells(encode_node(a, sub), X)

LEMMA Reduce1Read ==
    ASSUME IInv, RInv, status = "decoding", non_term # <<>>,
           NEW E, NEW q, NEW w, NEW B, Here(E, q, w, B), IsSeq(B), Pops(Top) = 1,
           NEW n, NEW T, Taken(n, T), NEW frag, NEW args,
           Builds1(frag, args, Values(E, term)[Len(term)], T ++ B), reduce1(n, frag, args)
    PROVE  RInv'
<1> DEFINE subs == <<1>>
           V == Values(E, term)
           m == Len(term)
<1>0. m \in Nat
  BY HereFacts
<1>1. subs \in Seq(1..1) /\ Len(subs) = 1 /\ subs[1] = 1 /\ 1 \in 1..1 /\ m + 1 - 1 = m
  BY <1>0
<1>2. Reduce(n, 1, subs, Terminal(frag, <<>>, 0, args), <<>>)
  BY DEF reduce1
<1> HIDE DEF subs, V, m
<1>3. Builds1(frag, args, V[m], T ++ B)
  BY DEF V, m
<1>4. Builds(frag, 0, args, subs, V, m, T ++ B)
  <2> DEFINE X == T ++ B
  <2> HIDE DEF X
  <2> SUFFICES ASSUME NEW a, NEW sub, a.frag = frag, a.args = args,
                      \A i \in 1..Len(subs) : Spells(sub[i], V[m + 1 - subs[i]])
               PROVE  Spells(encode_node(a, sub), X)
    BY DEF Builds, X
  <2>1. Spells(sub[1], V[m + 1 - subs[1]])
    BY <1>1
  <2>2. Spells(sub[1], V[m])
    BY <1>1, <2>1
  <2> QED  BY <1>3, <2>2 DEF Builds1, X
<1>5. subs \in Seq(1..Pops(Top)) /\ Reduce(n, Pops(Top), subs, Terminal(frag, <<>>, 0, args), <<>>)
  BY <1>1, <1>2
<1> QED  BY <1>4, <1>5, ReduceRead DEF V, m

LEMMA Reduce2Read ==
    ASSUME IInv, RInv, status = "decoding", non_term # <<>>,
           NEW E, NEW q, NEW w, NEW B, Here(E, q, w, B), IsSeq(B), Pops(Top) = 2,
           NEW n, NEW T, Taken(n, T), NEW frag,
           Builds2(frag, Values(E, term)[Len(term)], Values(E, term)[Len(term) - 1], T ++ B),
           reduce2(n, frag)
    PROVE  RInv'
<1> DEFINE subs == <<1, 2>>
           V == Values(E, term)
           m == Len(term)
<1>0. m \in Nat
  BY HereFacts
<1>1. /\ subs \in Seq(1..2) /\ Len(subs) = 2 /\ subs[1] = 1 /\ subs[2] = 2 /\ 1 \in 1..2 /\ 2 \in 1..2
      /\ m + 1 - 1 = m /\ m + 1 - 2 = m - 1
  BY <1>0
<1>2. Reduce(n, 2, subs, Terminal(frag, <<>>, 0, <<>>), <<>>)
  BY DEF reduce2
<1> HIDE DEF subs, V, m
<1>3. Builds2(frag, V[m], V[m - 1], T ++ B)
  BY DEF V, m
<1>4. Builds(frag, 0, <<>>, subs, V, m, T ++ B)
  <2> DEFINE X == T ++ B
  <2> HIDE DEF X
  <2> SUFFICES ASSUME NEW a, NEW sub, a.frag = frag,
                      \A i \in 1..Len(subs) : Spells(sub[i], V[m + 1 - subs[i]])
               PROVE  Spells(encode_node(a, sub), X)
    BY DEF Builds, X
  <2>1. Spells(sub[1], V[m + 1 - subs[1]]) /\ Spells(sub[2], V[m + 1 - subs[2]])
    BY <1>1
  <2>2. Spells(sub[1], V[m]) /\ Spells(sub[2], V[m - 1])
    BY <1>1, <2>1
  <2> QED  BY <1>3, <2>2 DEF Builds2, X
<1>5. subs \in Seq(1..Pops(Top)) /\ Reduce(n, Pops(Top), subs, Terminal(frag, <<>>, 0, <<>>), <<>>)
  BY <1>1, <1>2
<1> QED  BY <1>4, <1>5, ReduceRead DEF V, m

\* The non-terminals that take one expression.
LEMMA HereOne ==
    ASSUME IInv, NEW E, NEW q, NEW w, NEW B, Here(E, q, w, B), Pops(Top) = 1
    PROVE  LET V == Values(E, term)
           IN  /\ IsSeq(Below) /\ q \in Nat /\ q >= 1 /\ IsSeq(w) /\ Len(term) = q /\ TokensOK(tokens)
               /\ Seqs(V, q) /\ Seqs(V, q - 1) /\ IsSeq(V[q]) /\ Cont(Below, V, q, w)
               /\ HasArgs(Top) /\ B = Body(Top, V, q)
<1> DEFINE V == Values(E, term)
<1>1. /\ IsSeq(Below) /\ q \in Nat /\ q >= 1 /\ IsSeq(w) /\ Len(term) = q
      /\ Seqs(V, q) /\ Cont(Below, V, q, w) /\ TokensOK(tokens)
      /\ HasArgs(Top) /\ B = Body(Top, V, q)
  BY HereFacts DEF Here
<1>2. IsSeq(V[q]) /\ Seqs(V, q - 1)
  BY <1>1 DEF Seqs
<1> QED  BY <1>1, <1>2

LEMMA HereTwo ==
    ASSUME IInv, NEW E, NEW q, NEW w, NEW B, Here(E, q, w, B), Pops(Top) = 2
    PROVE  LET V == Values(E, term)
               m == q + 1
           IN  /\ IsSeq(Below) /\ q \in Nat /\ q >= 1 /\ IsSeq(w) /\ Len(term) = m /\ TokensOK(tokens)
               /\ Seqs(V, m) /\ Seqs(V, q) /\ IsSeq(V[m]) /\ IsSeq(V[q]) /\ Cont(Below, V, q, w)
               /\ B = Body(Top, V, m) /\ m - 1 = q
<1> DEFINE V == Values(E, term)
           m == q + 1
<1>1. /\ IsSeq(Below) /\ q \in Nat /\ q >= 1 /\ IsSeq(w) /\ Len(term) = q + 1
      /\ Seqs(V, q + 1) /\ Cont(Below, V, q, w) /\ TokensOK(tokens) /\ B = Body(Top, V, q + 1)
  BY HereFacts DEF Here
<1>2. IsSeq(V[q]) /\ IsSeq(V[q + 1]) /\ Seqs(V, q)
  BY <1>1 DEF Seqs
<1> QED  BY <1>1, <1>2

LEMMA SwapAltRead ==
    ASSUME IInv, RInv, Swap \/ Alt
    PROVE  RInv'
<1>1. status = "decoding" /\ non_term # <<>> /\ Pops(Top) = 1
  BY DEF Swap, Alt, At, Pops
<1>2. PICK E, q, w, B : Here(E, q, w, B)
  BY <1>1, WeAreHere
<1> DEFINE V == Values(E, term)
           v == V[q]
<1>3. Len(term) = q /\ TokensOK(tokens) /\ IsSeq(v) /\ B = Body(Top, V, q)
  BY <1>1, <1>2, HereOne
<1> HIDE DEF V
<1>4. CASE Halt("err")
  BY <1>4, HaltRead
<1>5. CASE Top[1] = "Swap" /\ Kind(1) = "Swap" /\ reduce1(1, "Swap", <<>>)
  <2>1. B = v
    <3>1. B = v ++ <<>>
      BY <1>3, <1>5 DEF Body, After
    <3> QED  BY <1>3, <3>1, CatLaws
  <2>2. Taken(1, Tk("Swap"))
    BY <1>3, <1>5, TakenFirst DEF Ops
  <2> HIDE DEF v
  <2>3. Builds1("Swap", <<>>, v, Tk("Swap") ++ B)
    BY <2>1, EncodeWrap DEF Builds1
  <2> QED  BY <1>1, <1>2, <1>3, <1>5, <2>1, <2>2, <2>3, Reduce1Read DEF V, v
<1>6. CASE Top[1] = "Alt" /\ Kind(1) = "ToAltStack" /\ reduce1(1, "Alt", <<>>)
  <2>1. B = v ++ Tk("FromAltStack")
    BY <1>3, <1>6 DEF Body, After
  <2>2. Taken(1, Tk("ToAltStack"))
    BY <1>3, <1>6, TakenFirst DEF Ops
  <2>3. IsSeq(B)
    BY <1>3, <2>1, CatLaws, SpellsTk
  <2> HIDE DEF v
  <2>4. Builds1("Alt", <<>>, v, Tk("ToAltStack") ++ B)
    BY <2>1, EncodeWrap DEF Builds1
  <2> QED  BY <1>1, <1>2, <1>3, <1>6, <2>2, <2>3, <2>4, Reduce1Read DEF V, v
<1> QED  BY <1>4, <1>5, <1>6 DEF Swap, Alt, At

LEMMA WrapperRead ==
    ASSUME IInv, RInv, Wrapper
    PROVE  RInv'
<1>0. PICK f \in {"Check", "DupIf", "Verify", "NonZero", "ZeroNotEqual"} : At(f) /\ reduce1(0, f, <<>>)
  BY DEF Wrapper
<1>1. status = "decoding" /\ non_term # <<>> /\ Pops(Top) = 1 /\ Top[1] = f
  BY <1>0 DEF At, Pops
<1>2. PICK E, q, w, B : Here(E, q, w, B)
  BY <1>1, WeAreHere
<1> DEFINE V == Values(E, term)
           v == V[q]
<1>3. Len(term) = q /\ TokensOK(tokens) /\ IsSeq(v) /\ B = Body(Top, V, q)
  BY <1>1, <1>2, HereOne
<1> HIDE DEF V
<1>4. /\ f = "Check" => B = v ++ Tk("CheckSig")
      /\ f = "DupIf" => B = Tk("Dup") ++ (Tk("If") ++ (v ++ Tk("EndIf")))
      /\ f = "Verify" => B = v ++ Tk("Verify")
      /\ f = "NonZero" => B = Tk("Size") ++ (Tk("ZeroNotEqual") ++ (Tk("If") ++ (v ++ Tk("EndIf"))))
      /\ f = "ZeroNotEqual" => B = v ++ Tk("ZeroNotEqual")
  BY <1>1, <1>3 DEF Body, After
<1> HIDE DEF v
<1>5. IsSeq(B)
  BY <1>3, <1>4, CatLaws, SpellsTk
<1>6. Taken(0, <<>>) /\ <<>> ++ B = B
  BY <1>3, <1>5, TakenNone, CatLaws
<1>7. Builds1(f, <<>>, v, <<>> ++ B)
  <2>1. ASSUME NEW a, NEW sub, a.frag = f, Spells(sub[1], v)  PROVE Spells(encode_node(a, sub), B)
    BY <1>4, <2>1, EncodeWrap
  <2> QED  BY <1>6, <2>1 DEF Builds1
<1> QED  BY <1>0, <1>1, <1>2, <1>3, <1>5, <1>6, <1>7, Reduce1Read DEF V, v
LEMMA BinaryRead ==
    ASSUME IInv, RInv, Binary
    PROVE  RInv'
<1>0. PICK f \in {"AndB", "OrB", "OrC", "OrD"} : At(f) /\ reduce2(0, f)
  BY DEF Binary
<1>1. status = "decoding" /\ non_term # <<>> /\ Pops(Top) = 2 /\ Top[1] = f
  BY <1>0 DEF At, Pops
<1>2. PICK E, q, w, B : Here(E, q, w, B)
  BY <1>1, WeAreHere
<1> DEFINE V == Values(E, term)
           m == q + 1
           v == V[m]
           u == V[m - 1]
<1>3. Len(term) = m /\ TokensOK(tokens) /\ IsSeq(v) /\ IsSeq(u) /\ B = Body(Top, V, m)
  BY <1>1, <1>2, HereTwo
<1> HIDE DEF V, m
<1>4. /\ f = "AndB" => B = v ++ (u ++ Tk("BoolAnd"))
      /\ f = "OrB" => B = v ++ (u ++ Tk("BoolOr"))
      /\ f = "OrC" => B = v ++ (Tk("NotIf") ++ (u ++ Tk("EndIf")))
      /\ f = "OrD" => B = v ++ (Tk("IfDup") ++ (Tk("NotIf") ++ (u ++ Tk("EndIf"))))
  BY <1>1, <1>3 DEF Body, After, BoolTk
<1> HIDE DEF v, u
<1>5. IsSeq(B)
  BY <1>3, <1>4, CatLaws, SpellsTk
<1>6. Taken(0, <<>>) /\ <<>> ++ B = B
  BY <1>3, <1>5, TakenNone, CatLaws
<1>7. Builds2(f, v, u, <<>> ++ B)
  <2>1. ASSUME NEW a, NEW sub, a.frag = f, Spells(sub[1], v), Spells(sub[2], u)
        PROVE  Spells(encode_node(a, sub), B)
    BY <1>4, <2>1, EncodeBinary
  <2> QED  BY <1>6, <2>1 DEF Builds2
<1> QED  BY <1>0, <1>1, <1>2, <1>3, <1>5, <1>6, <1>7, Reduce2Read DEF V, v, u

LEMMA AndVRead ==
    ASSUME IInv, RInv, AndV
    PROVE  RInv'
<1>1. status = "decoding" /\ non_term # <<>> /\ Pops(Top) = 2 /\ Top[1] = "AndV"
  BY DEF AndV, At, Pops
<1>2. PICK E, q, w, B : Here(E, q, w, B)
  BY <1>1, WeAreHere
<1> DEFINE V == Values(E, term)
           m == q + 1
           v == V[m]
           u == V[m - 1]
<1>3. /\ Len(term) = m /\ TokensOK(tokens) /\ IsSeq(v) /\ IsSeq(u) /\ B = Body(Top, V, m)
      /\ q \in Nat /\ IsSeq(w) /\ Seqs(V, m) /\ Seqs(V, q) /\ m - 1 = q /\ Cont(Below, V, q, w)
  BY <1>1, <1>2, HereTwo
<1> HIDE DEF V
<1>4. B = v ++ u
  BY <1>1, <1>3 DEF Body, After
<1>5. IsSeq(B) /\ B ++ w = v ++ (u ++ w)
  <2> HIDE DEF v, u, m
  <2> QED  BY <1>3, <1>4, CatLaws
<1>6. Taken(0, <<>>) /\ <<>> ++ B = B /\ <<>> ++ (B ++ w) = B ++ w
  <2> HIDE DEF v, u, m
  <2> QED  BY <1>3, <1>5, TakenNone, CatLaws
<1>7. CASE reduce2(0, "AndV")
  <2> HIDE DEF v, u, m
  <2>1. Builds2("AndV", v, u, <<>> ++ B)
    BY <1>4, <1>6, EncodeBinary DEF Builds2
  <2> QED  BY <1>1, <1>2, <1>3, <1>5, <1>6, <1>7, <2>1, Reduce2Read DEF V, v, u
<1>8. CASE Shift(0, <<NT("AndV"), NT("MaybeAndV")>>)
  <2> DEFINE x == NT("AndV")
             y == NT("Expression")
  <2>1. /\ Waits(x) /\ Pops(x) = 2 /\ x[1] = "AndV" /\ y[1] = "Expression"
        /\ m = q - 1 + Pops(x)
    BY <1>3, WaitsNT, PopsValues DEF HoleKinds, NT
  <2>2. After(x, V, m) = u
    BY <2>1 DEF After
  <2> HIDE DEF x, y, m
  <2>3. Read(Below \o <<x, NT("MaybeAndV")>>, V, m, V[m] ++ (After(x, V, m) ++ w))
    <3>1. /\ Read(Below \o <<x, NT("MaybeAndV"), y>>, V, m - 1, After(x, V, m) ++ w)
          /\ Seqs(V, m) => Read(Below \o <<x, NT("MaybeAndV")>>, V, m, V[m] ++ (After(x, V, m) ++ w))
      BY <1>3, <2>1, PushMaybe
    <3> QED  BY <1>3, <3>1
  <2> HIDE DEF u
  <2>4. Read(Below \o <<x, NT("MaybeAndV")>>, V, Len(term), <<>> ++ (B ++ w))
    BY <1>3, <1>5, <1>6, <2>2, <2>3
  <2>5. Shift(0, <<x, NT("MaybeAndV")>>)
    BY <1>8 DEF x
  <2> QED  BY <1>1, <1>2, <1>6, <2>4, <2>5, ShiftRead DEF V
<1> QED  BY <1>7, <1>8 DEF AndV

LEMMA TernRead ==
    ASSUME IInv, RInv, Tern
    PROVE  RInv'
<1>1. status = "decoding" /\ non_term # <<>> /\ Pops(Top) = 3 /\ Top[1] = "Tern"
  BY DEF Tern, At, Pops
<1>2. PICK E, q, w, B : Here(E, q, w, B)
  BY <1>1, WeAreHere
<1> DEFINE V == Values(E, term)
           m == Len(term)
           v == V[m]
           u == V[m - 1]
           x == V[m - 2]
           subs == <<1, 3, 2>>
<1>3. TokensOK(tokens) /\ IsSeq(v) /\ IsSeq(u) /\ IsSeq(x) /\ B = Body(Top, V, m) /\ m \in Nat
  <2>1. q \in Nat /\ q >= 1 /\ m = q - 1 + 3 /\ Seqs(V, m) /\ TokensOK(tokens) /\ B = Body(Top, V, m)
    BY <1>1, <1>2, HereFacts DEF Here
  <2> HIDE DEF m, V
  <2>2. m \in 1..m /\ m - 1 \in 1..m /\ m - 2 \in 1..m
    BY <2>1
  <2> QED  BY <2>1, <2>2 DEF Seqs
<1>4. B = v ++ (Tk("NotIf") ++ (u ++ (Tk("Else") ++ (x ++ Tk("EndIf")))))
  <2> HIDE DEF V, m
  <2> QED  BY <1>1, <1>3 DEF Body, After
<1>5. IsSeq(B) /\ <<>> ++ B = B /\ Taken(0, <<>>)
  <2> HIDE DEF v, u, x
  <2> QED  BY <1>3, <1>4, CatLaws, SpellsTk, TakenNone
<1>6. /\ subs \in Seq(1..3) /\ Len(subs) = 3 /\ subs[1] = 1 /\ subs[2] = 3 /\ subs[3] = 2
      /\ 1 \in 1..3 /\ 2 \in 1..3 /\ 3 \in 1..3
      /\ m + 1 - 1 = m /\ m + 1 - 2 = m - 1 /\ m + 1 - 3 = m - 2
  BY <1>3
<1>7. Reduce(0, Pops(Top), subs, Terminal("AndOr", <<>>, 0, <<>>), <<>>)
  BY <1>1 DEF Tern
<1> HIDE DEF subs
<1>8. Builds("AndOr", 0, <<>>, subs, V, m, <<>> ++ B)
  <2> SUFFICES ASSUME NEW a, NEW sub, a.frag = "AndOr",
                      \A i \in 1..Len(subs) : Spells(sub[i], V[m + 1 - subs[i]])
               PROVE  Spells(encode_node(a, sub), B)
    BY <1>5 DEF Builds
  <2> HIDE DEF V, m
  <2>1. /\ Spells(sub[1], V[m + 1 - subs[1]]) /\ Spells(sub[2], V[m + 1 - subs[2]])
        /\ Spells(sub[3], V[m + 1 - subs[3]])
    BY <1>6
  <2>2. Spells(sub[1], v) /\ Spells(sub[2], x) /\ Spells(sub[3], u)
    BY <1>6, <2>1
  <2> HIDE DEF v, u, x
  <2> QED  BY <1>4, <2>2, EncodeAndOr
<1>9. subs \in Seq(1..Pops(Top))
  BY <1>1, <1>6
<1> QED  BY <1>1, <1>2, <1>5, <1>7, <1>8, <1>9, ReduceRead

LEMMA InscribePreRead ==
    ASSUME IInv, RInv, InscribePre
    PROVE  RInv'
<1>1. status = "decoding" /\ non_term # <<>> /\ Pops(Top) = 1 /\ Top[1] = "InscribePre"
  BY DEF InscribePre, At, Pops
<1>2. PICK E, q, w, B : Here(E, q, w, B)
  BY <1>1, WeAreHere
<1> DEFINE V == Values(E, term)
           v == V[q]
<1>3. /\ Len(term) = q /\ TokensOK(tokens) /\ IsSeq(v) /\ B = Body(Top, V, q) /\ IsSeq(Below)
      /\ Seqs(V, q) /\ Cont(Below, V, q, w) /\ IsSeq(w)
  BY <1>1, <1>2, HereOne
<1> HIDE DEF V
<1>4. B = v
  <2>1. B = v ++ <<>>
    BY <1>1, <1>3 DEF Body, After
  <2> QED  BY <1>3, <2>1, CatLaws
<1>5. Taken(0, <<>>) /\ <<>> ++ (B ++ w) = B ++ w
  BY <1>3, <1>4, TakenNone, CatLaws
<1>6. CASE Shift(0, <<>>)
  <2>1. Read(Below, V, q, V[q] ++ w)
    BY <1>3, Return DEF Seqs
  <2>2. Below \o <<>> = Below
    BY <1>3, CatEmpty
  <2> QED  BY <1>1, <1>2, <1>3, <1>4, <1>5, <1>6, <2>1, <2>2, ShiftRead DEF V
<1>7. CASE Halt("err")
  BY <1>7, HaltRead
<1>8. CASE Kind(1) = "Inscription" /\ reduce1(InscriptionRun, "InscribePre", Inscriptions)
  <2> DEFINE x == Inscriptions
             T == Envelopes(x)
  <2>1. Taken(InscriptionRun, T) /\ IsSeq(x) /\ Len(x) >= 1
    <3>1. /\ InscriptionRun \in Nat /\ tokens = Skip(InscriptionRun) ++ T
          /\ TokensOK(Skip(InscriptionRun)) /\ IsSeq(x) /\ Len(x) >= 1
      BY <1>3, <1>8, TookInscriptions
    <3>2. IsSeq(T)
      BY <3>1, EnvelopesSpell
    <3> QED  BY <3>1, <3>2 DEF Taken
  <2> HIDE DEF x, v
  <2>2. Builds1("InscribePre", x, v, T ++ B)
    <3>1. ASSUME NEW a, NEW sub, a.frag = "InscribePre", a.args = x, Spells(sub[1], v)
          PROVE  Spells(encode_node(a, sub), Envelopes(x) ++ v)
      <4>1. IsSeq(a.args) /\ Len(a.args) >= 1
        BY <2>1, <3>1
      <4>2. Spells(encode_node(a, sub), Envelopes(a.args) ++ v)
        BY <3>1, <4>1, EncodeInscribe
      <4> QED  BY <3>1, <4>2
    <3> QED  BY <1>4, <3>1 DEF Builds1
  <2>3. reduce1(InscriptionRun, "InscribePre", x)
    BY <1>8 DEF x
  <2> HIDE DEF T
  <2> QED  BY <1>1, <1>2, <1>3, <1>4, <2>1, <2>2, <2>3, Reduce1Read DEF V, v
<1> QED  BY <1>6, <1>7, <1>8 DEF InscribePre

LEMMA InscribePostRead ==
    ASSUME IInv, RInv, InscribePost
    PROVE  RInv'
<1>1. status = "decoding" /\ non_term # <<>> /\ Pops(Top) = 1 /\ Top[1] = "InscribePost"
  BY DEF InscribePost, At, Pops
<1>2. PICK E, q, w, B : Here(E, q, w, B)
  BY <1>1, WeAreHere
<1> DEFINE V == Values(E, term)
           v == V[q]
           x == Top[2]
<1>3. /\ Len(term) = q /\ TokensOK(tokens) /\ IsSeq(v) /\ B = Body(Top, V, q)
      /\ IsSeq(x) /\ Len(x) >= 1
  BY <1>1, <1>2, HereOne DEF HasArgs
<1> HIDE DEF V
<1>4. B = v ++ Envelopes(x)
  BY <1>1, <1>3 DEF Body, After
<1>5. IsSeq(B) /\ Taken(0, <<>>) /\ <<>> ++ B = B
  <2>1. IsSeq(Envelopes(x))
    BY <1>3, EnvelopesSpell
  <2> HIDE DEF x, v
  <2> QED  BY <1>3, <1>4, <2>1, TakenNone, CatLaws
<1>6. Builds1("InscribePost", x, v, <<>> ++ B)
  <2> HIDE DEF x, v
  <2>1. ASSUME NEW a, NEW sub, a.frag = "InscribePost", a.args = x, Spells(sub[1], v)
        PROVE  Spells(encode_node(a, sub), v ++ Envelopes(x))
    <3>1. IsSeq(a.args) /\ Len(a.args) >= 1
      BY <1>3, <2>1
    <3>2. Spells(encode_node(a, sub), v ++ Envelopes(a.args))
      BY <2>1, <3>1, EncodeInscribe
    <3> QED  BY <2>1, <3>2
  <2> QED  BY <1>4, <1>5, <2>1 DEF Builds1
<1>7. reduce1(0, "InscribePost", x)
  BY DEF InscribePost
<1> HIDE DEF x
<1> QED  BY <1>1, <1>2, <1>3, <1>5, <1>6, <1>7, Reduce1Read DEF V, v
\* A non-terminal that has read all its operands.
LEMMA PushDone ==
    ASSUME NEW b, NEW V, NEW q, NEW w, Cont(b, V, q, w), NEW x,
           x[1] \in {"DupIf", "NonZero", "EndIfNotIf"}
    PROVE  Read(b \o <<x>>, V, q, Body(x, V, q) ++ w)
<1>1. IsSeq(b) /\ q \in Nat
  BY ContNat
<1>2. Pops(x) = 1 /\ HasArgs(x)
  BY DEF Pops, HasArgs
<1>3. Pops(x) \in Nat /\ q = q - 1 + Pops(x)
  BY <1>1, <1>2
<1>4. Above(b, x, V, q, Body(x, V, q) ++ w)
  BY <1>1, <1>2, <1>3 DEF Above
<1>5. Read(b ++ <<x>>, V, q, Body(x, V, q) ++ w)
  BY <1>4 DEF Read
<1>6. b ++ <<x>> = b \o <<x>>
  BY Zenon DEF ++
<1> QED  BY <1>5, <1>6

LEMMA EndIfRead ==
    ASSUME IInv, RInv, EndIf
    PROVE  RInv'
<1>1. status = "decoding" /\ non_term # <<>> /\ Pops(Top) = 1 /\ Top[1] = "EndIf"
  BY DEF EndIf, At, Pops
<1>2. PICK E, q, w, B : Here(E, q, w, B)
  BY <1>1, WeAreHere
<1> DEFINE V == Values(E, term)
           v == V[q]
<1>3. /\ Len(term) = q /\ TokensOK(tokens) /\ IsSeq(v) /\ B = Body(Top, V, q) /\ IsSeq(Below)
      /\ Seqs(V, q) /\ Cont(Below, V, q, w) /\ IsSeq(w) /\ q \in Nat
  BY <1>1, <1>2, HereOne
<1> HIDE DEF V
<1>4. B = v ++ Tk("EndIf")
  BY <1>1, <1>3 DEF Body, After
<1>5. CASE Halt("err")
  BY <1>5, HaltRead
<1>6. CASE Kind(1) = "Else" /\ Shift(1, <<NT("EndIfElse"), NT("MaybeAndV"), NT("Expression")>>)
  <2> DEFINE x == NT("EndIfElse")
             y == NT("Expression")
             h == q + 1
  <2>1. /\ Waits(x) /\ Pops(x) = 2 /\ x[1] = "EndIfElse" /\ y[1] = "Expression"
        /\ h = q - 1 + Pops(x) /\ h - 1 = q
    BY <1>3, WaitsNT, PopsValues DEF HoleKinds, NT
  <2>2. After(x, V, h) = Tk("Else") ++ (v ++ Tk("EndIf"))
    BY <2>1 DEF After
  <2>3. Taken(1, Tk("Else"))
    BY <1>3, <1>6, TakenFirst DEF Ops
  <2> HIDE DEF x, y, h
  <2>4. Read(Below \o <<x, NT("MaybeAndV"), y>>, V, h - 1, After(x, V, h) ++ w)
    <3>1. /\ Read(Below \o <<x, NT("MaybeAndV"), y>>, V, h - 1, After(x, V, h) ++ w)
          /\ Seqs(V, h) => Read(Below \o <<x, NT("MaybeAndV")>>, V, h, V[h] ++ (After(x, V, h) ++ w))
      BY <1>3, <2>1, PushMaybe
    <3> QED  BY <3>1
  <2> HIDE DEF v
  <2>5. After(x, V, h) ++ w = Tk("Else") ++ (B ++ w)
    BY <1>3, <1>4, <2>2, CatLaws, SpellsTk
  <2>6. Read(Below \o <<x, NT("MaybeAndV"), y>>, V, Len(term), Tk("Else") ++ (B ++ w))
    BY <1>3, <2>1, <2>4, <2>5
  <2>7. Shift(1, <<x, NT("MaybeAndV"), y>>)
    BY <1>6 DEF x, y
  <2> QED  BY <1>1, <1>2, <2>3, <2>6, <2>7, ShiftRead DEF V
<1>7. ASSUME NEW n, NEW T, Taken(n, T), NEW f \in {"DupIf", "NonZero", "EndIfNotIf"},
             Body(NT(f), V, q) = T ++ B, Shift(n, <<NT(f)>>)
      PROVE  RInv'
  <2> DEFINE x == NT(f)
  <2>1. x[1] = f /\ IsSeq(T) /\ IsSeq(B) /\ Shift(n, <<x>>) /\ Body(x, V, q) = T ++ B
    <3>1. IsSeq(B)
      <4> HIDE DEF v
      <4> QED  BY <1>3, <1>4, CatLaws, SpellsTk
    <3> QED  BY <1>7, <3>1 DEF NT, Taken
  <2> HIDE DEF x
  <2>2. Read(Below \o <<x>>, V, q, Body(x, V, q) ++ w)
    BY <1>3, <2>1, PushDone
  <2>3. Body(x, V, q) ++ w = T ++ (B ++ w)
    BY <1>3, <2>1, CatLaws
  <2>4. Read(Below \o <<x>>, V, Len(term), T ++ (B ++ w))
    BY <1>3, <2>2, <2>3
  <2> QED  BY <1>1, <1>2, <1>7, <2>1, <2>4, ShiftRead DEF V
<1>8. "If" \in Ops /\ "Dup" \in Ops /\ "ZeroNotEqual" \in Ops /\ "Size" \in Ops /\ "NotIf" \in Ops
  BY DEF Ops
<1>9. CASE Reads(1, <<"If", "Dup">>) /\ Shift(2, <<NT("DupIf")>>)
  <2> DEFINE T == Tk("Dup") ++ Tk("If")
  <2>0. 2 = 1 + 1 /\ 1 \in Nat
    OBVIOUS
  <2>1. Kind(1) = "If" /\ Kind(2) = "Dup"
    <3>1. Kind(1) = "If" /\ Kind(1 + 1) = "Dup"
      BY <1>9, <2>0, ReadsTwo
    <3> QED  BY <2>0, <3>1
  <2>2. Taken(1, Tk("If"))
    BY <1>3, <1>8, <2>1, TakenFirst
  <2>3. Taken(2, T)
    BY <1>3, <1>8, <2>0, <2>1, <2>2, TakenOp
  <2>4. Body(NT("DupIf"), V, q) = Tk("Dup") ++ (Tk("If") ++ (v ++ Tk("EndIf")))
    BY DEF Body, NT
  <2>5. Body(NT("DupIf"), V, q) = T ++ B
    <3> HIDE DEF v
    <3> QED  BY <1>3, <1>4, <2>4, CatLaws, SpellsTk
  <2> HIDE DEF T
  <2> QED  BY <1>7, <1>9, <2>3, <2>5
<1>10. CASE Reads(1, <<"If", "ZeroNotEqual", "Size">>) /\ Shift(3, <<NT("NonZero")>>)
  <2> DEFINE T == Tk("Size") ++ (Tk("ZeroNotEqual") ++ Tk("If"))
  <2>0. 2 = 1 + 1 /\ 3 = 2 + 1 /\ 1 + 2 = 3 /\ 1 \in Nat
    OBVIOUS
  <2>1. Kind(1) = "If" /\ Kind(2) = "ZeroNotEqual" /\ Kind(3) = "Size"
    <3>1. Kind(1) = "If" /\ Kind(1 + 1) = "ZeroNotEqual" /\ Kind(1 + 2) = "Size"
      BY <1>10, <2>0, ReadsThree
    <3> QED  BY <2>0, <3>1
  <2>2. Taken(1, Tk("If"))
    BY <1>3, <1>8, <2>1, TakenFirst
  <2>3. Taken(2, Tk("ZeroNotEqual") ++ Tk("If"))
    BY <1>3, <1>8, <2>0, <2>1, <2>2, TakenOp
  <2>4. Taken(3, T)
    BY <1>3, <1>8, <2>0, <2>1, <2>3, TakenOp
  <2>5. Body(NT("NonZero"), V, q) = Tk("Size") ++ (Tk("ZeroNotEqual") ++ (Tk("If") ++ (v ++ Tk("EndIf"))))
    BY DEF Body, NT
  <2>6. Body(NT("NonZero"), V, q) = T ++ B
    <3> HIDE DEF v
    <3> QED  BY <1>3, <1>4, <2>5, CatLaws, SpellsTk
  <2> HIDE DEF T
  <2> QED  BY <1>7, <1>10, <2>4, <2>6
<1>11. CASE Kind(1) = "NotIf" /\ Shift(1, <<NT("EndIfNotIf")>>)
  <2>1. Taken(1, Tk("NotIf"))
    BY <1>3, <1>8, <1>11, TakenFirst
  <2>2. Body(NT("EndIfNotIf"), V, q) = Tk("NotIf") ++ B
    BY <1>4 DEF Body, NT
  <2> QED  BY <1>7, <1>11, <2>1, <2>2
<1> QED  BY <1>5, <1>6, <1>9, <1>10, <1>11 DEF EndIf

LEMMA EndIfNotIfRead ==
    ASSUME IInv, RInv, EndIfNotIf
    PROVE  RInv'
<1>1. status = "decoding" /\ non_term # <<>> /\ Pops(Top) = 1 /\ Top[1] = "EndIfNotIf"
  BY DEF EndIfNotIf, At, Pops
<1>2. PICK E, q, w, B : Here(E, q, w, B)
  BY <1>1, WeAreHere
<1> DEFINE V == Values(E, term)
           v == V[q]
           y == NT("Expression")
           h == q + 1
<1>3. /\ Len(term) = q /\ TokensOK(tokens) /\ IsSeq(v) /\ B = Body(Top, V, q) /\ IsSeq(Below)
      /\ Seqs(V, q) /\ Cont(Below, V, q, w) /\ IsSeq(w) /\ q \in Nat
  BY <1>1, <1>2, HereOne
<1> HIDE DEF V
<1>4. B = Tk("NotIf") ++ (v ++ Tk("EndIf")) /\ y[1] = "Expression" /\ h - 1 = q
  BY <1>1, <1>3 DEF Body, NT
<1>5. CASE Halt("err")
  BY <1>5, HaltRead
<1>6. IsSeq(B)
  <2> HIDE DEF v
  <2> QED  BY <1>3, <1>4, CatLaws, SpellsTk
<1>7. ASSUME NEW f \in {"OrC", "OrD"}, NEW n, NEW T, Taken(n, T), After(NT(f), V, h) = T ++ B,
             Shift(n, <<NT(f), NT("Expression")>>)
      PROVE  RInv'
  <2> DEFINE x == NT(f)
  <2>1. Waits(x) /\ Pops(x) = 2 /\ h = q - 1 + Pops(x)
    BY <1>3, WaitsNT, PopsValues DEF HoleKinds
  <2>2. Shift(n, <<x, y>>) /\ After(x, V, h) = T ++ B /\ IsSeq(T)
    BY <1>7 DEF Taken
  <2> HIDE DEF x, y, h
  <2>3. Read(Below \o <<x, y>>, V, h - 1, After(x, V, h) ++ w)
    BY <1>3, <1>4, <2>1, PushTwo
  <2>4. (T ++ B) ++ w = T ++ (B ++ w)
    BY <1>3, <1>6, <2>2, CatLaws
  <2>5. Read(Below \o <<x, y>>, V, Len(term), T ++ (B ++ w))
    BY <1>3, <1>4, <2>2, <2>3, <2>4
  <2> QED  BY <1>1, <1>2, <1>7, <2>2, <2>5, ShiftRead DEF V
<1>8. CASE Kind(1) = "IfDup" /\ Shift(1, <<NT("OrD"), NT("Expression")>>)
  <2>1. Taken(1, Tk("IfDup"))
    BY <1>3, <1>8, TakenFirst DEF Ops
  <2>2. After(NT("OrD"), V, h) = Tk("IfDup") ++ B
    BY <1>4 DEF After, NT
  <2> QED  BY <1>7, <1>8, <2>1, <2>2
<1>9. CASE Shift(0, <<NT("OrC"), NT("Expression")>>)
  <2>1. Taken(0, <<>>) /\ <<>> ++ B = B
    BY <1>3, <1>6, TakenNone, CatLaws
  <2>2. After(NT("OrC"), V, h) = B
    BY <1>4 DEF After, NT
  <2> QED  BY <1>7, <1>9, <2>1, <2>2
<1> QED  BY <1>5, <1>8, <1>9 DEF EndIfNotIf

LEMMA EndIfElseRead ==
    ASSUME IInv, RInv, EndIfElse
    PROVE  RInv'
<1>1. status = "decoding" /\ non_term # <<>> /\ Pops(Top) = 2 /\ Top[1] = "EndIfElse"
  BY DEF EndIfElse, At, Pops
<1>2. PICK E, q, w, B : Here(E, q, w, B)
  BY <1>1, WeAreHere
<1> DEFINE V == Values(E, term)
           m == q + 1
           v == V[m]
           u == V[m - 1]
<1>3. /\ Len(term) = m /\ TokensOK(tokens) /\ IsSeq(v) /\ IsSeq(u) /\ B = Body(Top, V, m)
      /\ q \in Nat /\ IsSeq(w) /\ Seqs(V, m) /\ m - 1 = q /\ Cont(Below, V, q, w)
  BY <1>1, <1>2, HereTwo
<1> HIDE DEF V
<1>4. B = v ++ (Tk("Else") ++ (u ++ Tk("EndIf")))
  BY <1>1, <1>3 DEF Body, After
<1>5. IsSeq(B)
  <2> HIDE DEF v, u, m
  <2> QED  BY <1>3, <1>4, CatLaws, SpellsTk
<1>6. CASE Halt("err")
  BY <1>6, HaltRead
<1>7. CASE Kind(1) = "If" /\ reduce2(1, "OrI")
  <2>1. Taken(1, Tk("If"))
    BY <1>3, <1>7, TakenFirst DEF Ops
  <2> HIDE DEF v, u, m
  <2>2. Builds2("OrI", v, u, Tk("If") ++ B)
    BY <1>4, EncodeBinary DEF Builds2
  <2> QED  BY <1>1, <1>2, <1>3, <1>5, <1>7, <2>1, <2>2, Reduce2Read DEF V, v, u
<1>8. CASE Kind(1) = "NotIf" /\ Shift(1, <<NT("Tern"), NT("Expression")>>)
  <2> DEFINE x == NT("Tern")
             y == NT("Expression")
             h == m + 1
  <2>1. /\ Waits(x) /\ Pops(x) = 3 /\ x[1] = "Tern" /\ y[1] = "Expression"
        /\ h = q - 1 + Pops(x) /\ h - 1 = m /\ h - 2 = m - 1
    BY <1>3, WaitsNT, PopsValues DEF HoleKinds, NT
  <2>2. Taken(1, Tk("NotIf"))
    BY <1>3, <1>8, TakenFirst DEF Ops
  <2> HIDE DEF x, y, h, m
  <2>3. After(x, V, h) = Tk("NotIf") ++ B
    BY <1>4, <2>1 DEF After
  <2>4. Read(Below \o <<x, y>>, V, h - 1, After(x, V, h) ++ w)
    BY <1>3, <2>1, PushTwo
  <2>5. (Tk("NotIf") ++ B) ++ w = Tk("NotIf") ++ (B ++ w)
    BY <1>3, <1>5, CatLaws, SpellsTk
  <2>6. Read(Below \o <<x, y>>, V, Len(term), Tk("NotIf") ++ (B ++ w))
    BY <1>3, <2>1, <2>3, <2>4, <2>5
  <2>7. Shift(1, <<x, y>>)
    BY <1>8 DEF x, y
  <2> QED  BY <1>1, <1>2, <2>2, <2>6, <2>7, ShiftRead DEF V
<1> QED  BY <1>6, <1>7, <1>8 DEF EndIfElse
\* An InscribePre on top of it.
LEMMA ContPre ==
    ASSUME NEW b, NEW V, NEW q, NEW w, Cont(b, V, q, w), Seqs(V, q - 1)
    PROVE  Cont(b ++ <<NT("InscribePre")>>, V, q, w) /\ IsSeq(b ++ <<NT("InscribePre")>>)
<1> DEFINE x == NT("InscribePre")
<1>1. Waits(x) /\ x[1] = "InscribePre" /\ Pops(x) = 1
  BY WaitsNT, PopsValues DEF HoleKinds
<1>2. After(x, V, q) = <<>> /\ IsSeq(w)
  BY <1>1, ContNat DEF After
<1> HIDE DEF x
<1>3. Cont(b ++ <<x>>, V, q, <<>> ++ w)
  BY <1>1, <1>2, ContOne
<1>4. <<>> ++ w = w
  BY <1>2, CatLaws
<1>5. Cont(b ++ <<x>>, V, q, w)
  BY <1>3, <1>4
<1> QED  BY <1>5, ContNat DEF x

LEMMA WExpressionRead ==
    ASSUME IInv, RInv, WExpression
    PROVE  RInv'
<1>1. status = "decoding" /\ non_term # <<>> /\ Top[1] = "WExpression" /\ Pops(Top) = 0
  BY DEF WExpression, At, Pops
<1>2. PICK E, q, w, B : Here(E, q, w, B)
  BY <1>1, WeAreHere
<1> DEFINE V == Values(E, term)
           pre == NT("InscribePre")
           c == Below ++ <<pre>>
<1>3. /\ IsSeq(Below) /\ q \in Nat /\ q >= 1 /\ IsSeq(w) /\ Len(term) = q - 1
      /\ Seqs(V, q - 1) /\ Cont(Below, V, q, w) /\ TokensOK(tokens)
  BY <1>1, <1>2, HereFacts DEF Here
<1>4. B = <<>> /\ B ++ w = w
  <2>1. B = <<>>
    BY <1>1, <1>2 DEF Here, Body
  <2> QED  BY <1>3, <2>1, CatLaws
<1>5. CASE Halt("err")
  BY <1>5, HaltRead
<1> HIDE DEF V
<1>6. Cont(c, V, q, w) /\ IsSeq(c)
  BY <1>3, ContPre
<1> HIDE DEF pre, c
<1>7. ASSUME NEW x, Waits(x), Pops(x) = 1, NEW n, NEW T, Taken(n, T), After(x, V, q) = T
      PROVE  /\ Shift(n, <<pre, x, NT("WExpression")>>) => RInv'
             /\ Shift(n, Four(pre, x, NT("MaybeAndV"), NT("Expression"))) => RInv'
  <2> DEFINE y == NT("WExpression")
             y2 == NT("Expression")
             z == NT("MaybeAndV")
  <2>1. q = q - 1 + Pops(x) /\ y[1] = "WExpression" /\ y2[1] = "Expression"
    BY <1>3, <1>7 DEF NT
  <2> HIDE DEF y, y2
  <2>2. Read(c \o <<x, y>>, V, q - 1, After(x, V, q) ++ w)
    BY <1>3, <1>6, <1>7, <2>1, PushTwo
  <2>3. Read(c \o <<x, z, y2>>, V, q - 1, After(x, V, q) ++ w)
    <3>1. /\ Read(c \o <<x, NT("MaybeAndV"), y2>>, V, q - 1, After(x, V, q) ++ w)
          /\ Seqs(V, q) => Read(c \o <<x, NT("MaybeAndV")>>, V, q, V[q] ++ (After(x, V, q) ++ w))
      BY <1>3, <1>6, <1>7, <2>1, PushMaybe
    <3> QED  BY <3>1
  <2> HIDE DEF z
  <2>4. c \o <<x, y>> = Below \o <<pre, x, y>>
    <3>1. /\ c ++ <<x, y>> = (c ++ <<x>>) ++ <<y>>
          /\ Below ++ <<pre, x, y>> = ((Below ++ <<pre>>) ++ <<x>>) ++ <<y>>
      BY <1>3, <1>6, StackCat
    <3>2. c ++ <<x, y>> = Below ++ <<pre, x, y>>
      BY <3>1, Zenon DEF c
    <3>3. c ++ <<x, y>> = c \o <<x, y>> /\ Below ++ <<pre, x, y>> = Below \o <<pre, x, y>>
      BY Zenon DEF ++
    <3> QED  BY <3>2, <3>3, Zenon
  <2>5. c \o <<x, z, y2>> = Below \o Four(pre, x, z, y2)
    <3>1. /\ c ++ <<x, z, y2>> = ((c ++ <<x>>) ++ <<z>>) ++ <<y2>>
          /\ Below ++ Four(pre, x, z, y2) = (((Below ++ <<pre>>) ++ <<x>>) ++ <<z>>) ++ <<y2>>
      BY <1>3, <1>6, StackCat
    <3>2. c ++ <<x, z, y2>> = Below ++ Four(pre, x, z, y2)
      BY <3>1, Zenon DEF c
    <3>3. /\ c ++ <<x, z, y2>> = c \o <<x, z, y2>>
          /\ Below ++ Four(pre, x, z, y2) = Below \o Four(pre, x, z, y2)
      BY Zenon DEF ++
    <3> QED  BY <3>2, <3>3, Zenon
  <2> DEFINE p1 == <<pre, x, y>>
             p2 == Four(pre, x, z, y2)
  <2>6. Read(Below \o p1, V, q - 1, After(x, V, q) ++ w)
    BY <2>2, <2>4, Zenon
  <2>7. Read(Below \o p2, V, q - 1, After(x, V, q) ++ w)
    BY <2>3, <2>5, Zenon
  <2> HIDE DEF p1, p2
  <2>8. /\ Read(Below \o p1, V, Len(term), T ++ (B ++ w))
        /\ Read(Below \o p2, V, Len(term), T ++ (B ++ w))
    BY <1>3, <1>4, <1>7, <2>6, <2>7
  <2>9. Shift(n, p1) => RInv'
    BY <1>1, <1>2, <1>7, <2>8, ShiftRead DEF V
  <2>10. Shift(n, p2) => RInv'
    BY <1>1, <1>2, <1>7, <2>8, ShiftRead DEF V
  <2> QED  BY <2>9, <2>10 DEF p1, p2, y, z, y2
<1>8. CASE Kind(1) = "Inscription" /\ Shift(InscriptionRun,
                <<NT("InscribePre"), <<"InscribePost", Inscriptions>>, NT("WExpression")>>)
  <2> DEFINE x == <<"InscribePost", Inscriptions>>
             T == Envelopes(Inscriptions)
  <2>1. /\ InscriptionRun \in Nat /\ tokens = Skip(InscriptionRun) ++ T
        /\ TokensOK(Skip(InscriptionRun)) /\ IsSeq(Inscriptions) /\ Len(Inscriptions) >= 1
    BY <1>3, <1>8, TookInscriptions
  <2>2. IsSeq(T)
    BY <2>1, EnvelopesSpell
  <2>3. Taken(InscriptionRun, T)
    BY <2>1, <2>2 DEF Taken
  <2>4. Waits(x) /\ Pops(x) = 1
    BY <2>1, WaitsNT, PopsValues
  <2>5. After(x, V, q) = T
    BY DEF After
  <2>6. Shift(InscriptionRun, <<pre, x, NT("WExpression")>>)
    BY <1>8 DEF pre
  <2> HIDE DEF x, T
  <2> QED  BY <1>7, <2>3, <2>4, <2>5, <2>6
<1>9. CASE Kind(1) = "FromAltStack" /\ Shift(1,
                <<NT("InscribePre"), NT("Alt"), NT("MaybeAndV"), NT("Expression")>>)
  <2> DEFINE x == NT("Alt")
  <2>1. Waits(x) /\ x[1] = "Alt" /\ Pops(x) = 1
    BY WaitsNT, PopsValues DEF HoleKinds
  <2>2. After(x, V, q) = Tk("FromAltStack")
    BY <2>1 DEF After
  <2>3. Taken(1, Tk("FromAltStack"))
    BY <1>3, <1>9, TakenFirst DEF Ops
  <2>4. Shift(1, Four(pre, x, NT("MaybeAndV"), NT("Expression")))
    BY <1>9 DEF pre, Four
  <2> HIDE DEF x
  <2> QED  BY <1>7, <2>1, <2>2, <2>3, <2>4
<1>10. CASE Shift(0, <<NT("InscribePre"), NT("Swap"), NT("MaybeAndV"), NT("Expression")>>)
  <2> DEFINE x == NT("Swap")
  <2>1. Waits(x) /\ x[1] = "Swap" /\ Pops(x) = 1
    BY WaitsNT, PopsValues DEF HoleKinds
  <2>2. After(x, V, q) = <<>>
    BY <2>1 DEF After
  <2>3. Taken(0, <<>>)
    BY <1>3, TakenNone
  <2>4. Shift(0, Four(pre, x, NT("MaybeAndV"), NT("Expression")))
    BY <1>10 DEF pre, Four
  <2> HIDE DEF x
  <2> QED  BY <1>7, <2>1, <2>2, <2>3, <2>4
<1> QED  BY <1>5, <1>8, <1>9, <1>10 DEF WExpression
LEMMA ThreshWRead ==
    ASSUME IInv, RInv, ThreshW
    PROVE  RInv'
<1> DEFINE n == Top[3]
           k == Top[2]
<1>1. status = "decoding" /\ non_term # <<>> /\ Pops(Top) = n /\ Top[1] = "ThreshW"
  BY DEF ThreshW, At, Pops
<1>2. PICK E, q, w, B : Here(E, q, w, B)
  BY <1>1, WeAreHere
<1> DEFINE V == Values(E, term)
           m == Len(term)
           h == m + 1
<1>3. /\ n \in Nat /\ m \in Nat /\ q \in Nat /\ q >= 1 /\ m = q - 1 + n /\ Seqs(V, m) /\ IsSeq(w)
      /\ TokensOK(tokens) /\ B = Body(Top, V, m) /\ Cont(Below, V, q, w) /\ IsSeq(Below)
  BY <1>1, <1>2, HereFacts DEF Here
<1> HIDE DEF V, n, k, m
<1>4. B = Adds(V, m, n) ++ ThreshEnd(Top)
  BY <1>1, <1>3 DEF Body, n
<1>5. IsSeq(B)
  <2>1. \A i \in 1..n : IsSeq(V[m + 1 - i])
    <3>1. \A i \in 1..n : m + 1 - i \in 1..m
      BY <1>3
    <3> QED  BY <1>3, <3>1 DEF Seqs
  <2>2. IsSeq(Adds(V, m, n))
    BY <1>3, <2>1, AddsForm
  <2>3. IsSeq(ThreshEnd(Top))
    BY CatLaws, SpellsTk DEF ThreshEnd
  <2> QED  BY <1>4, <2>2, <2>3, CatLaws
<1>6. CASE Halt("err")
  BY <1>6, HaltRead
<1>7. ASSUME NEW f \in {"ThreshW", "ThreshE"}, NEW j, NEW T, Taken(j, T), NEW g \in {"Expression", "WExpression"},
             After(<<f, k, n + 1>>, V, h) = T ++ B,
             Shift(j, <<<<f, k, n + 1>>, NT(g)>>)
      PROVE  RInv'
  <2> DEFINE x == <<f, k, n + 1>>
             y == NT(g)
  <2>1. Pops(x) = n + 1 /\ HasArgs(x) /\ x[1] \in HoleKinds
    BY DEF Pops, HasArgs, HoleKinds
  <2>2. Waits(x) /\ h = q - 1 + Pops(x) /\ h - 1 = m
    BY <1>3, <2>1 DEF Waits
  <2>3. Shift(j, <<x, y>>) /\ After(x, V, h) = T ++ B /\ IsSeq(T) /\ y[1] \in {"Expression", "WExpression"}
    BY <1>7 DEF Taken, NT
  <2> HIDE DEF x, y, h
  <2>4. Read(Below \o <<x, y>>, V, h - 1, After(x, V, h) ++ w)
    BY <1>3, <2>2, <2>3, PushTwo
  <2>5. (T ++ B) ++ w = T ++ (B ++ w)
    BY <1>3, <1>5, <2>3, CatLaws
  <2>6. Read(Below \o <<x, y>>, V, Len(term), T ++ (B ++ w))
    BY <2>2, <2>3, <2>4, <2>5 DEF m
  <2> QED  BY <1>1, <1>2, <1>7, <2>3, <2>6, ShiftRead DEF V
<1>8. /\ h - 1 = m /\ (n + 1) - 1 = n
      /\ \A f : <<f, k, n + 1>>[1] = f /\ <<f, k, n + 1>>[3] = n + 1
      /\ \A f : ThreshEnd(<<f, k, n + 1>>) = ThreshEnd(Top)
  BY <1>3 DEF ThreshEnd, k
<1>9. CASE Kind(1) = "Add" /\ Shift(1, <<<<"ThreshW", Top[2], Top[3] + 1>>, NT("WExpression")>>)
  <2>1. Taken(1, Tk("Add"))
    BY <1>3, <1>9, TakenFirst DEF Ops
  <2>2. After(<<"ThreshW", k, n + 1>>, V, h) = Tk("Add") ++ B
    <3> DEFINE x == <<"ThreshW", k, n + 1>>
    <3>1. x[1] = "ThreshW" /\ x[3] - 1 = n /\ ThreshEnd(x) = ThreshEnd(Top)
      BY <1>8
    <3> HIDE DEF x, h
    <3>2. After(x, V, h) = Tk("Add") ++ (Adds(V, h - 1, x[3] - 1) ++ ThreshEnd(x))
      BY <3>1 DEF After
    <3>3. After(x, V, h) = Tk("Add") ++ B
      BY <1>4, <1>8, <3>1, <3>2
    <3> QED  BY <3>3 DEF x
  <2>3. Shift(1, <<<<"ThreshW", k, n + 1>>, NT("WExpression")>>)
    BY <1>9 DEF k, n
  <2> QED  BY <1>7, <2>1, <2>2, <2>3
<1>10. CASE Shift(0, <<<<"ThreshE", Top[2], Top[3] + 1>>, NT("Expression")>>)
  <2>1. Taken(0, <<>>) /\ <<>> ++ B = B
    BY <1>3, <1>5, TakenNone, CatLaws
  <2>2. After(<<"ThreshE", k, n + 1>>, V, h) = <<>> ++ B
    <3> DEFINE x == <<"ThreshE", k, n + 1>>
    <3>1. x[1] = "ThreshE" /\ x[3] - 1 = n /\ ThreshEnd(x) = ThreshEnd(Top)
      BY <1>8
    <3> HIDE DEF x, h
    <3>2. After(x, V, h) = Adds(V, h - 1, x[3] - 1) ++ ThreshEnd(x)
      BY <3>1 DEF After
    <3>3. After(x, V, h) = <<>> ++ B
      BY <1>4, <1>8, <2>1, <3>1, <3>2
    <3> QED  BY <3>3 DEF x
  <2>3. Shift(0, <<<<"ThreshE", k, n + 1>>, NT("Expression")>>)
    BY <1>10 DEF k, n
  <2> QED  BY <1>7, <2>1, <2>2, <2>3
<1> QED  BY <1>6, <1>9, <1>10 DEF ThreshW

LEMMA ThreshERead ==
    ASSUME IInv, RInv, ThreshE
    PROVE  RInv'
<1> DEFINE n == Top[3]
           k == Top[2]
           subs == [i \in 1..n |-> i]
<1>1. status = "decoding" /\ non_term # <<>> /\ Pops(Top) = n /\ Top[1] = "ThreshE"
  BY DEF ThreshE, At, Pops
<1>2. PICK E, q, w, B : Here(E, q, w, B)
  BY <1>1, WeAreHere
<1> DEFINE V == Values(E, term)
           m == Len(term)
<1>3. /\ n \in Nat /\ m \in Nat /\ q \in Nat /\ q >= 1 /\ m = q - 1 + n /\ Seqs(V, m) /\ IsSeq(w)
      /\ TokensOK(tokens) /\ B = Body(Top, V, m) /\ Cont(Below, V, q, w) /\ IsSeq(Below)
  BY <1>1, <1>2, HereFacts DEF Here
<1>4. CASE Halt("err")
  BY <1>4, HaltRead
<1>5. ~(m < n)
  BY <1>3
<1>6. CASE /\ validate_k_n(k, n, 0)
           /\ Reduce(0, n, subs, Terminal("Thresh", <<>>, k, <<>>), <<>>)
  <2>1. n >= 1
    BY <1>3, <1>6 DEF validate_k_n
  <2>2. subs \in Seq(1..n) /\ Len(subs) = n /\ \A i \in 1..n : subs[i] = i
    BY <1>3
  <2> HIDE DEF V, m, subs
  <2>3. B = V[m] ++ (Adds(V, m - 1, n - 1) ++ ThreshEnd(Top))
    BY <1>1, <1>3 DEF Body, After
  <2>4. Reduce(0, Pops(Top), subs, Terminal("Thresh", <<>>, k, <<>>), <<>>) /\ subs \in Seq(1..Pops(Top))
    BY <1>1, <1>6, <2>2
  <2> HIDE DEF n, k
  <2>5. IsSeq(B) /\ <<>> ++ B = B /\ Taken(0, <<>>)
    <3>1. \A i \in 1..(n - 1) : (m - 1) + 1 - i \in 1..m
      BY <1>3, <2>1
    <3>2. \A i \in 1..(n - 1) : IsSeq(V[(m - 1) + 1 - i])
      BY <1>3, <3>1 DEF Seqs
    <3>3. n - 1 \in Nat /\ m - 1 \in Int
      BY <1>3, <2>1
    <3>4. IsSeq(Adds(V, m - 1, n - 1))
      BY <3>2, <3>3, AddsForm
    <3>5. IsSeq(ThreshEnd(Top))
      BY CatLaws, SpellsTk DEF ThreshEnd
    <3>6. m \in 1..m
      BY <1>3, <2>1
    <3>7. IsSeq(V[m])
      BY <1>3, <3>6 DEF Seqs
    <3> QED  BY <1>3, <2>3, <3>4, <3>5, <3>7, CatLaws, TakenNone
  <2>6. Builds("Thresh", k, <<>>, subs, V, m, <<>> ++ B)
    <3> SUFFICES ASSUME NEW a, NEW sub, a.frag = "Thresh", a.k = k,
                        sub = [i \in 1..Len(subs) |-> sub[i]],
                        \A i \in 1..Len(subs) : Spells(sub[i], V[m + 1 - subs[i]])
                 PROVE  Spells(encode_node(a, sub), B)
      BY <2>5 DEF Builds
    <3>1. sub = [i \in 1..n |-> sub[i]] /\ \A i \in 1..n : Spells(sub[i], V[m + 1 - i])
      BY <2>2
    <3>2. m \in Int
      BY <1>3
    <3>3. Spells(encode_node(a, sub),
                 V[m] ++ (Adds(V, m - 1, n - 1) ++ (TkNum(a.k) ++ Tk("Equal"))))
      BY <1>3, <2>1, <3>1, <3>2, EncodeThresh
    <3>4. ThreshEnd(Top) = TkNum(a.k) ++ Tk("Equal")
      BY DEF ThreshEnd, k
    <3> QED  BY <2>3, <3>3, <3>4
  <2> QED  BY <1>1, <1>2, <2>4, <2>5, <2>6, ReduceRead DEF V, m
<1> QED  BY <1>4, <1>5, <1>6 DEF ThreshE
-----------------------------------------------------------------------------
(* The beginning and the end of decode. *)

LEMMA TokensCat ==
    ASSUME NEW a, NEW b, TokensOK(a), TokensOK(b)
    PROVE  TokensOK(a ++ b)
<1>1. IsSeq(a) /\ IsSeq(b)
  BY DEF TokensOK
<1> DEFINE c == a ++ b
<1>2. IsSeq(c) /\ CatShape(a, b, c)
  BY <1>1, CatElems, CatLaws
<1> HIDE DEF c
<1>3. ASSUME NEW i \in 1..Len(c)  PROVE Instruction(c[i])
  <2>1. CASE i \in 1..Len(a)
    <3>1. c[i] = a[i] /\ Instruction(a[i])
      BY <1>2, <2>1 DEF CatShape, TokensOK
    <3> QED  BY <3>1
  <2>2. ASSUME NEW j \in 1..Len(b), i = Len(a) + j  PROVE Instruction(c[i])
    <3>1. c[i] = b[j] /\ Instruction(b[j])
      BY <1>2, <2>2 DEF CatShape, TokensOK
    <3> QED  BY <3>1
  <2> QED  BY <1>2, <2>1, <2>2 DEF CatShape
<1> QED  BY <1>2, <1>3 DEF TokensOK, c

LEMMA TokensConcat ==
    ASSUME NEW ss, IsSeq(ss), \A i \in 1..Len(ss) : TokensOK(ss[i])
    PROVE  TokensOK(ConcatAll(ss))
<1>1. PICK W : CatArray(ss, W)
  BY CatArrayExists
<1> DEFINE n == Len(ss)
           S == {k \in Nat : k <= n => TokensOK(W[k])}
<1>0. n \in Nat
  BY SeqForm
<1>2. 0 \in S
  <2>1. W[0] = <<>>
    BY <1>1 DEF CatArray
  <2> QED  BY <2>1, ShortSeqs DEF TokensOK
<1>3. ASSUME NEW k \in Nat, k \in S  PROVE k + 1 \in S
  <2> SUFFICES ASSUME k + 1 <= n  PROVE TokensOK(W[k + 1])
    OBVIOUS
  <2>1. k + 1 \in 1..n /\ (k + 1) - 1 = k /\ TokensOK(W[k])
    BY <1>0, <1>3
  <2>2. W[k + 1] = W[k] ++ ss[k + 1]
    BY <1>1, <2>1 DEF CatArray
  <2> QED  BY <2>1, <2>2, TokensCat
<1> HIDE DEF S
<1>4. Nat \subseteq S
  BY <1>2, <1>3, SetInduction
<1>5. TokensOK(W[n])
  BY <1>0, <1>4 DEF S
<1> QED  BY <1>1, <1>5, CatArrayIs

\* The tokens of a script are instructions.
LEMMA LexTokens ==
    ASSUME NEW s \in Scripts
    PROVE  IsSeq(s) /\ TokensOK(lex(s))
<1>1. IsSeq(s) /\ \A i \in DOMAIN s : Instruction(s[i])
  BY ScriptsAssumption DEF IsSeq
<1>2. DOMAIN s = 1..Len(s)
  BY <1>1, SeqForm
<1>3. ASSUME NEW f, f \notin Pushes  PROVE Instruction(Op(f))
  <2>1. Op(f)[1] = f /\ Op(f) = <<f>> /\ f \notin {"Num", "Bytes33", "Bytes65"}
    BY <1>3 DEF Op, Pushes
  <2> QED  BY <1>3, <2>1 DEF Instruction
<1>4. ASSUME NEW x, Instruction(x)  PROVE TokensOK(Lex1(x))
  <2>1. CASE x[1] \in DOMAIN Merged
    <3> DEFINE a == Op(Merged[x[1]])
               b == Op("Verify")
               y == <<a, b>>
    <3>1. Merged[x[1]] \notin Pushes /\ "Verify" \notin Pushes
      BY <2>1 DEF Merged, Pushes
    <3>2. Instruction(a) /\ Instruction(b)
      BY <1>3, <3>1
    <3>3. Lex1(x) = y
      BY <2>1 DEF Lex1
    <3> HIDE DEF a, b
    <3>4. IsSeq(y) /\ Len(y) = 2 /\ y[1] = a /\ y[2] = b
      BY ShortSeqs
    <3> HIDE DEF y
    <3>5. \A i \in 1..2 : i = 1 \/ i = 2
      OBVIOUS
    <3>6. \A i \in 1..2 : Instruction(y[i])
      BY <3>2, <3>4, <3>5
    <3> QED  BY <3>3, <3>4, <3>6 DEF TokensOK
  <2>2. CASE x[1] \notin DOMAIN Merged
    <3>1. Lex1(x) = <<x>> /\ IsSeq(<<x>>) /\ Len(<<x>>) = 1 /\ <<x>>[1] = x
      BY <2>2, ShortSeqs DEF Lex1
    <3>2. \A i \in 1..1 : i = 1
      OBVIOUS
    <3> QED  BY <1>4, <3>1, <3>2 DEF TokensOK
  <2> QED  BY <2>1, <2>2
<1> DEFINE p == LexParts(s)
<1>5. IsSeq(p) /\ Len(p) = Len(s) /\ \A i \in 1..Len(s) : p[i] = Lex1(s[i])
  BY <1>1, LexPartsSeq
<1>6. lex(s) = ConcatAll(p)
  BY LexIs
<1> HIDE DEF p
<1>7. \A i \in 1..Len(p) : TokensOK(p[i])
  BY <1>1, <1>2, <1>4, <1>5
<1>8. TokensOK(ConcatAll(p))
  BY <1>5, <1>7, TokensConcat
<1> QED  BY <1>1, <1>6, <1>8

LEMMA DecodeRead ==
    ASSUME IInv, RInv, NEW s \in Scripts, decode(s)
    PROVE  RInv'
<1>1. /\ status = "idle" /\ nodes = <<>> /\ term = <<>> /\ nodes' = <<>> /\ term' = <<>>
      /\ script' = s /\ non_term' = <<NT("MaybeAndV"), NT("Expression")>>
  BY DEF IInv, RInv, decode
<1>2. CASE ~lex_ok(s)
  <2>1. status' = "err"
    BY <1>2 DEF decode
  <2> QED  BY <2>1 DEF RInv
<1>3. CASE lex_ok(s)
  <2>1. tokens' = lex(s) /\ status' = "decoding"
    BY <1>3 DEF decode
  <2>2. TokensOK(lex(s)) /\ IsSeq(lex(s))
    BY LexTokens DEF TokensOK
  <2> DEFINE E == <<>>
             V == Values(E, <<>>)
             x == NT("MaybeAndV")
             y == NT("Expression")
             b == <<>> ++ <<x>>
  <2>3. Len(<<>>) = 0 /\ 0 = 1 - 1 /\ IsSeq(<<>>) /\ y[1] = "Expression" /\ Seqs(V, 0)
    BY ShortSeqs DEF NT, Seqs
  <2>4. Arena(<<>>, E)
    BY <2>3 DEF Arena
  <2> HIDE DEF E, V
  <2>5. Cont(<<>>, V, 1, <<>>)
    BY ContEmpty
  <2>6. Cont(b, V, 1, <<>>)
    BY <2>3, <2>5, ContMaybe
  <2> HIDE DEF x, y, b
  <2>7. Read(b ++ <<y>>, V, 1 - 1, <<>>)
    BY <2>3, <2>6, ReadExpr
  <2>8. b ++ <<y>> = <<x, y>>
    <3>1. <<>> ++ <<x>> = <<x>>
      BY CatLaws, ShortSeqs
    <3>2. <<x, y>> = <<x>> ++ <<y>>
      BY Tuples
    <3> QED  BY <3>1, <3>2, Zenon DEF b
  <2>9. lex(s) ++ <<>> = lex(s)
    BY <2>2, CatLaws
  <2>10. Read(<<x, y>>, Values(E, <<>>), Len(<<>>), <<>>)
    BY <2>3, <2>7, <2>8 DEF V
  <2>11. ReadSoFar(s, lex(s), <<x, y>>, <<>>, <<>>)
    BY <2>2, <2>3, <2>4, <2>9, <2>10 DEF ReadSoFar
  <2>12. ReadSoFar(script', tokens', non_term', nodes', term')
    BY <1>1, <2>1, <2>11, Zenon DEF x, y
  <2>13. status' \notin {"idle", "done"} /\ script' \in Scripts /\ lex_ok(script')
    BY <1>1, <1>3, <2>1
  <2> QED  BY <2>12, <2>13 DEF RInv
<1> QED  BY <1>2, <1>3

LEMMA FinishRead ==
    ASSUME IInv, RInv, Finish
    PROVE  RInv'
<1>1. status = "decoding" /\ non_term = <<>>
  BY DEF Finish
<1>2. \/ status' = "panic" \/ status' = "err"
      \/ /\ Len(term) = 1 /\ tokens = <<>> /\ status' = "done"
         /\ script' = script /\ nodes' = nodes /\ term' = term
  BY DEF Finish, Halt
<1>3. CASE status' = "panic" \/ status' = "err"
  BY <1>3 DEF RInv
<1>4. CASE /\ Len(term) = 1 /\ tokens = <<>> /\ status' = "done"
           /\ script' = script /\ nodes' = nodes /\ term' = term
  <2>1. /\ script \in Scripts /\ lex_ok(script)
        /\ ReadSoFar(script, tokens, non_term, nodes, term)
    BY <1>1 DEF RInv
  <2>2. PICK E, rest : /\ Arena(nodes, E) /\ IsSeq(rest) /\ lex(script) = tokens ++ rest
                       /\ Read(non_term, Values(E, term), Len(term), rest)
    BY <2>1 DEF ReadSoFar
  <2>3. rest = Values(E, term)[1]
    <3>1. ASSUME NEW b, NEW e, non_term = b ++ <<e>>, Above(b, e, Values(E, term), Len(term), rest)
          PROVE  FALSE
      <4>1. IsSeq(b)
        BY <3>1 DEF Above
      <4>2. b ++ <<e>> # <<>>
        BY <4>1, LastOf
      <4> QED  BY <1>1, <3>1, <4>2
    <3> QED  BY <2>2, <3>1 DEF Read
  <2>4. Root \in 1..Len(nodes) /\ Values(E, term)[1] = lex(E[Root])
    <3>1. term[1] \in 1..Len(nodes)
      BY <1>4 DEF IInv
    <3> QED  BY <1>4, <3>1 DEF Root, Values
  <2>5. lex(script) = lex(E[Root])
    <3>1. lex(script) = <<>> ++ rest
      BY <1>4, <2>2
    <3> QED  BY <2>2, <2>3, <2>4, <3>1, CatLaws
  <2>6. Decoded
    BY <2>1, <2>2, <2>4, <2>5 DEF Decoded
  <2>7. Decoded'
    BY <1>4, <2>6 DEF Decoded, Root
  <2> QED  BY <1>4, <2>7 DEF RInv
<1> QED  BY <1>2, <1>3, <1>4

LEMMA RInit == Init => RInv
  BY DEF Init, RInv

LEMMA RStep == IInv /\ RInv /\ [Next]_vars => RInv'
<1> SUFFICES ASSUME IInv, RInv, [Next]_vars
             PROVE  RInv'
  OBVIOUS
<1>1. CASE UNCHANGED vars
  BY <1>1 DEF vars, RInv, Decoded, Root
<1>2. CASE \E s \in Scripts : decode(s)
  BY <1>2, DecodeRead
<1>3. CASE Step
  BY <1>3, ExpressionRead, WExpressionRead, InscribePreRead, InscribePostRead, MaybeAndVRead,
     AndVRead, SwapAltRead, WrapperRead, BinaryRead, TernRead, ThreshWRead, ThreshERead,
     EndIfRead, EndIfNotIfRead, EndIfElseRead, FinishRead DEF Step
<1> QED  BY <1>1, <1>2, <1>3 DEF Next

-----------------------------------------------------------------------------

LEMMA DecodedRoundTrip ==
    ASSUME IInv, Decoded, ~HasSplitNumEqualVerify
    PROVE  encode(nodes, Root) = script
<1>1. script \in Scripts /\ lex_ok(script) /\ Root \in 1..Len(nodes)
  BY DEF Decoded
<1>2. PICK E : Arena(nodes, E) /\ lex(script) = lex(E[Root])
  BY DEF Decoded
<1> DEFINE s == script
           t == E[Root]
<1>3. Neat(t)
  BY <1>1, <1>2 DEF Arena
<1>4. encode(nodes, Root) = t
  <2>1. NodesOK(nodes)
    BY DEF IInv
  <2> QED  BY <1>1, <1>2, <2>1, ArenaIs
<1> HIDE DEF t
<1>5. IsSeq(t) /\ Bare(t) /\ NoSplit(t)
  <2>1. IsSeq(t) /\ Bare(t)
    BY <1>3 DEF Neat, Bare
  <2>2. ASSUME NEW i \in 1..(Len(t) - 1), NEW f \in DOMAIN VerifyForm,
               t[i] = Op(f), t[i + 1] = Op("Verify")
        PROVE  FALSE
    <3>1. t[i][1] = f /\ t[i + 1][1] = "Verify"
      BY <2>2 DEF Op
    <3> QED  BY <1>3, <3>1 DEF Neat
  <2> QED  BY <2>1, <2>2 DEF NoSplit
<1>6. IsSeq(s) /\ Len(s) \in Nat /\ DOMAIN s = 1..Len(s) /\ \A i \in 1..Len(s) : Instruction(s[i])
  <2>1. IsSeq(s) /\ \A i \in DOMAIN s : Instruction(s[i])
    BY <1>1, ScriptsAssumption DEF IsSeq
  <2> QED  BY <2>1, SeqForm
<1>7. Bare(s)
  <2>1. \A f \in DOMAIN Merged : f \notin Pushes
    BY DEF Merged, Pushes
  <2> QED  BY <1>6, <2>1 DEF Bare, Instruction
<1>8. NoSplit(s)
  <2>1. ASSUME NEW i \in 1..(Len(s) - 1), NEW f \in DOMAIN VerifyForm,
               s[i] = Op(f), s[i + 1] = Op("Verify")
        PROVE  FALSE
    <3>1. s[i][1] = f /\ s[i + 1][1] = "Verify"
      BY <2>1 DEF Op
    <3>2. i + 1 \in DOMAIN s /\ i + 1 # 1 /\ (i + 1) - 1 = i
      BY <1>6
    <3>3. f \notin {"Equal", "CheckSig", "CheckMultiSig"}
      <4>1. ~lex_error(s, i + 1)
        BY <1>1, <3>2 DEF lex_ok
      <4> QED  BY <3>1, <3>2, <4>1 DEF lex_error
    <3>4. f = "NumEqual"
      BY <3>3, Names
    <3> QED  BY <2>1, <3>4 DEF HasSplitNumEqualVerify
  <2> QED  BY <2>1 DEF NoSplit
<1>9. s = t
  BY <1>2, <1>5, <1>6, <1>7, <1>8, Unlex DEF t
<1> QED  BY <1>4, <1>9

(* A script that decode accepts (decode.rs:725-732) is the encoding of the  *)
(* expression it returns, whatever the script, the context and the limits;  *)
(* only NUMEQUAL VERIFY, which the lexer takes for NUMEQUALVERIFY, is not   *)
(* written as it was read.                                                  *)
THEOREM DecodeRoundTrips == Spec => []RoundTrip
<1>1. IInv /\ RInv => RoundTrip
  BY DecodedRoundTrip DEF RInv, RoundTrip
<1>2. Init => RInv
  BY RInit
<1> QED  BY <1>1, <1>2, RStep, InductiveInvariant, PTL DEF Spec
=============================================================================
