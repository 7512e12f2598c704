---------------------------- MODULE Redeem_proofs ----------------------------
(***************************************************************************)
(* Proofs about the interpreter, for every expression that can be built,   *)
(* every witness and every transaction: what it yields holds, fragments    *)
(* are resumed as their arms expect, and what was yielded before a success *)
(* satisfies the policy that the expression lifts to.                      *)
(***************************************************************************)
EXTENDS Redeem, FiniteSetTheorems, DataLemmas

-----------------------------------------------------------------------------
(* Arenas: children come before their parents, and every fragment has the  *)
(* children that its match arm reads.                                      *)

NodeOK(i, t) ==
    /\ Len(t.subs) \in Nat /\ DOMAIN t.subs = 1..Len(t.subs)
    /\ \A j \in 1..Len(t.subs) : t.subs[j] \in 1..(i - 1)
    /\ t.frag \in WrapFrags \cup InscribeFrags => Len(t.subs) = 1
    /\ t.frag \in BinaryFrags => Len(t.subs) = 2
    /\ t.frag = "AndOr" => Len(t.subs) = 3
    /\ t.frag = "Thresh" => Len(t.subs) >= 1
    /\ t.frag \in {"Multi", "MultiA"} =>
        /\ t.k \in Nat /\ Len(t.args) \in Nat /\ Len(t.args) >= 1
        /\ DOMAIN t.args = 1..Len(t.args)

ArenaOK(ns) == IsSeq(ns) /\ \A i \in 1..Len(ns) : NodeOK(i, ns[i])

BuildOK == ArenaOK(ast) /\ roots \in Seq(1..Len(ast))

(* A node whose children are in the arena may be added to it. *)
LEMMA ArenaAppend ==
    ASSUME NEW ns, ArenaOK(ns), NEW t, NodeOK(Len(ns) + 1, t)
    PROVE  /\ ArenaOK(Append(ns, t))
           /\ Len(Append(ns, t)) = Len(ns) + 1
           /\ Len(ns) \in Nat
<1> DEFINE S == {ns[i] : i \in DOMAIN ns} \cup {t}
           a == Append(ns, t)
<1>1. ns \in Seq({ns[i] : i \in DOMAIN ns})
  BY DEF ArenaOK, IsSeq
<1>2. ns \in Seq(S) /\ t \in S
  BY <1>1
<1>3. /\ a \in Seq(S) /\ Len(a) = Len(ns) + 1 /\ Len(ns) \in Nat
      /\ \A i \in 1..Len(ns) : a[i] = ns[i]
      /\ a[Len(ns) + 1] = t
  BY <1>2
<1>4. IsSeq(a)
  BY <1>3, SeqIsSeq
<1>5. ASSUME NEW i \in 1..Len(a) PROVE NodeOK(i, a[i])
  <2>1. CASE i = Len(ns) + 1
    BY <2>1, <1>3
  <2>2. CASE i # Len(ns) + 1
    <3>1. i \in 1..Len(ns)
      BY <2>2, <1>3
    <3> QED
      BY <3>1, <1>3 DEF ArenaOK
  <2> QED
    BY <2>1, <2>2
<1> QED
  BY <1>3, <1>4, <1>5 DEF ArenaOK

(* The last n elements of a sequence. *)
LEMMA LastOnes ==
    ASSUME NEW S, NEW s \in Seq(S), NEW n \in Nat, n <= Len(s)
    PROVE  /\ SubSeq(s, Len(s) - n + 1, Len(s)) \in Seq(S)
           /\ Len(SubSeq(s, Len(s) - n + 1, Len(s))) = n
           /\ \A j \in 1..n : SubSeq(s, Len(s) - n + 1, Len(s))[j] \in S
<1> DEFINE m == Len(s) - n + 1
           x == SubSeq(s, m, Len(s))
<1>1. m \in 1..(Len(s) + 1) /\ Len(s) \in m - 1..Len(s)
  OBVIOUS
<1>2. x \in Seq(S) /\ Len(x) = Len(s) - m + 1
  BY <1>1, SubSeqProperties
<1>3. Len(s) - m + 1 = n
  OBVIOUS
<1>4. \A j \in 1..n : x[j] \in S
  <2> HIDE DEF x
  <2> QED
    BY <1>2, <1>3
<1> QED
  BY <1>2, <1>3, <1>4

\* What a constructor must see to that makes a fragment of pops expressions.
ArityOK(frag, k, args, pops) ==
    /\ frag \in WrapFrags \cup InscribeFrags => pops = 1
    /\ frag \in BinaryFrags => pops = 2
    /\ frag = "AndOr" => pops = 3
    /\ frag = "Thresh" => pops >= 1
    /\ frag \in {"Multi", "MultiA"} =>
        /\ k \in Nat /\ Len(args) \in Nat /\ Len(args) >= 1
        /\ DOMAIN args = 1..Len(args)

LEMMA FromAstOK ==
    ASSUME BuildOK, NEW frag, NEW k, NEW args, NEW pops \in Nat, NEW w,
           ArityOK(frag, k, args, pops),
           from_ast(Terminal(frag, <<>>, k, args), pops, w)
    PROVE  BuildOK'
<1> DEFINE n == Len(roots)
           sub == SubSeq(roots, n - pops + 1, n)
           u == [Terminal(frag, <<>>, k, args) EXCEPT !.subs = sub]
           e == Annotate(ast, u)
<1>1. /\ roots \in Seq(1..Len(ast)) /\ n \in Nat /\ pops <= n
      /\ ast' = Append(ast, e)
      /\ roots' = Append(SubSeq(roots, 1, n - pops), Len(ast) + 1)
  BY DEF BuildOK, from_ast
<1>2. sub \in Seq(1..Len(ast)) /\ Len(sub) = pops /\ \A j \in 1..pops : sub[j] \in 1..Len(ast)
  <2> DEFINE S == 1..Len(ast)
  <2>1. roots \in Seq(S) /\ pops <= Len(roots)
    BY <1>1
  <2> HIDE DEF S
  <2>2. /\ SubSeq(roots, Len(roots) - pops + 1, Len(roots)) \in Seq(S)
        /\ Len(SubSeq(roots, Len(roots) - pops + 1, Len(roots))) = pops
        /\ \A j \in 1..pops : SubSeq(roots, Len(roots) - pops + 1, Len(roots))[j] \in S
    BY <2>1, LastOnes, Zenon
  <2> QED
    BY <2>2, Zenon DEF S
<1>3. e.frag = frag /\ e.subs = sub /\ e.args = args /\ e.k = k
  BY DEF Annotate, Terminal
<1>4. Len(ast) \in Nat
  <2>1. IsSeq(ast)
    BY DEF BuildOK, ArenaOK
  <2> QED
    BY <2>1 DEF IsSeq
<1>5. NodeOK(Len(ast) + 1, e)
  <2> HIDE DEF sub, e
  <2>1. Len(ast) + 1 - 1 = Len(ast)
    BY <1>4
  <2>2. /\ Len(e.subs) = pops /\ \A j \in 1..pops : e.subs[j] \in 1..Len(ast)
        /\ DOMAIN e.subs = 1..Len(e.subs)
    BY <1>2, <1>3
  <2>3. ArityOK(e.frag, e.k, e.args, pops)
    BY <1>3
  <2> QED
    BY <2>1, <2>2, <2>3 DEF NodeOK, ArityOK
<1>6. ArenaOK(ast') /\ Len(ast') = Len(ast) + 1
  <2> HIDE DEF e
  <2>1. ArenaOK(ast)
    BY DEF BuildOK
  <2> QED
    BY <2>1, <1>5, <1>1, ArenaAppend
<1>7. roots' \in Seq(1..Len(ast'))
  <2>1. SubSeq(roots, 1, n - pops) \in Seq(1..Len(ast'))
    <3>1. SubSeq(roots, 1, n - pops) \in Seq(1..Len(ast))
      BY <1>1
    <3>2. 1..Len(ast) \subseteq 1..Len(ast')
      BY <1>4, <1>6
    <3> QED
      BY <3>1, <3>2
  <2>2. Len(ast) + 1 \in 1..Len(ast')
    BY <1>4, <1>6
  <2> QED
    BY <2>1, <2>2, <1>1
<1> QED
  BY <1>6, <1>7 DEF BuildOK

LEMMA ConstructOK ==
    ASSUME BuildOK, ConstructNext
    PROVE  BuildOK'
<1> USE DEF ArityOK
<1>1. CASE MakeLeaf
  <2>1. PICK l \in LeafTerms : from_ast(Terminal(l[1], <<>>, l[2], l[3]), 0, l[4])
    BY <1>1 DEF MakeLeaf
  <2>2. /\ l[1] \in LeafFrags
        /\ l[1] \in {"Multi", "MultiA"} =>
            /\ l[2] \in Nat /\ Len(l[3]) \in Nat /\ Len(l[3]) >= 1
            /\ DOMAIN l[3] = 1..Len(l[3])
    BY LeavesAssumed DEF LeafAssumption, validate_k_n
  <2>3. ArityOK(l[1], l[2], l[3], 0)
    BY <2>2 DEF LeafFrags, HashFrags, WrapFrags, InscribeFrags, BinaryFrags
  <2> QED
    BY <2>1, <2>3, FromAstOK
<1>2. CASE MakeWrapper
  <2>1. PICK f \in WrapFrags :
            from_ast(Terminal(f, <<>>, 0, <<>>), 1, IF f \in FreeWrappers THEN 0 ELSE 1)
    BY <1>2 DEF MakeWrapper
  <2>2. ArityOK(f, 0, <<>>, 1)
    BY DEF WrapFrags, BinaryFrags
  <2> QED
    BY <2>1, <2>2, FromAstOK
<1>3. CASE MakeInscribed
  <2>1. PICK f \in InscribeFrags, x \in InscribedWith :
            from_ast(Terminal(f, <<>>, 0, <<x>>), 1, 1)
    BY <1>3 DEF MakeInscribed
  <2>2. ArityOK(f, 0, <<x>>, 1)
    BY DEF InscribeFrags, BinaryFrags
  <2> QED
    BY <2>1, <2>2, FromAstOK
<1>4. CASE MakeBinary
  <2>1. PICK f \in BinaryFrags : from_ast(Terminal(f, <<>>, 0, <<>>), 2, 0)
    BY <1>4 DEF MakeBinary
  <2>2. ArityOK(f, 0, <<>>, 2)
    BY DEF WrapFrags, InscribeFrags, BinaryFrags
  <2> QED
    BY <2>1, <2>2, FromAstOK
<1>5. CASE MakeAndOr
  <2>1. ArityOK("AndOr", 0, <<>>, 3)
    BY DEF WrapFrags, InscribeFrags, BinaryFrags
  <2> QED
    BY <1>5, <2>1, FromAstOK DEF MakeAndOr
<1>6. CASE MakeThresh
  <2>1. PICK n \in 1..Len(roots) : \E k \in 1..n :
            from_ast(Terminal("Thresh", <<>>, k, <<>>), n, IF n = 1 THEN 1 ELSE 0)
    BY <1>6 DEF MakeThresh
  <2>2. n \in Nat /\ \A k : ArityOK("Thresh", k, <<>>, n)
    BY DEF WrapFrags, InscribeFrags, BinaryFrags, BuildOK
  <2> QED
    BY <2>1, <2>2, FromAstOK
<1> QED
  BY <1>1, <1>2, <1>3, <1>4, <1>5, <1>6 DEF ConstructNext

-----------------------------------------------------------------------------
(* The interpreter: fragments to evaluate are resumed with counters that   *)
(* fit, and what is on the stack came from the witness or is a result.     *)

OkStates ==
    {s \in [node : DOMAIN program, n_evaluated : Nat, n_satisfied : Nat] :
        s.n_evaluated \in Evaluated(program[s.node]) /\ s.n_satisfied <= s.n_evaluated}

Elems == Range(witness) \cup {Satisfied_, Dissatisfied}

RunOK ==
    /\ ArenaOK(program)
    /\ result \in {"idle", "running", "ok", "err"}
    /\ state \in Seq(OkStates)
    /\ stack \in Seq(Elems)
    /\ IsSeq(yielded)
    /\ Backed

Running == RunOK /\ result = "running" /\ state # <<>>

LEMMA ArenaDomain ==
    ASSUME NEW ns, ArenaOK(ns)
    PROVE  Len(ns) \in Nat /\ DOMAIN ns = 1..Len(ns)
  BY DEF ArenaOK, IsSeq

LEMMA ZeroEvaluated ==
    ASSUME NEW i, NEW t, NodeOK(i, t)
    PROVE  0 \in Evaluated(t) /\ Evaluated(t) \subseteq Nat
  BY DEF NodeOK, Evaluated

(* The last element of a sequence, and those before it. *)
LEMMA FrontAndLast ==
    ASSUME NEW S, NEW s \in Seq(S), s # <<>>
    PROVE  s[Len(s)] \in S /\ SubSeq(s, 1, Len(s) - 1) \in Seq(S) /\ Len(s) \in Nat /\ Len(s) >= 1
  OBVIOUS

LEMMA Front ==
    ASSUME NEW S, NEW s \in Seq(S), NEW n \in Nat, n <= Len(s)
    PROVE  SubSeq(s, 1, Len(s) - n) \in Seq(S)
  OBVIOUS

(* The fragment in hand. *)
LEMMA Here ==
    ASSUME Running
    PROVE  /\ Rest \in Seq(OkStates)
           /\ This \in OkStates
           /\ This.node \in DOMAIN program
           /\ This.n_evaluated \in Evaluated(Node)
           /\ This.n_evaluated \in Nat
           /\ This.n_satisfied \in Nat /\ This.n_satisfied <= This.n_evaluated
           /\ NodeOK(This.node, Node)
<1>1. state \in Seq(OkStates) /\ state # <<>>
  BY DEF Running, RunOK
<1>2. Rest \in Seq(OkStates) /\ This \in OkStates
  <2> HIDE DEF OkStates
  <2> QED
    BY <1>1, FrontAndLast DEF Rest, This
<1>3. /\ This.node \in DOMAIN program /\ This.n_evaluated \in Evaluated(program[This.node])
      /\ This.n_evaluated \in Nat
      /\ This.n_satisfied \in Nat /\ This.n_satisfied <= This.n_evaluated
  BY <1>2 DEF OkStates
<1>4. NodeOK(This.node, Node)
  <2>1. ArenaOK(program)
    BY DEF Running, RunOK
  <2>2. This.node \in 1..Len(program)
    BY <2>1, <1>3, ArenaDomain
  <2> QED
    BY <2>1, <2>2 DEF ArenaOK, Node
<1> QED
  BY <1>2, <1>3, <1>4 DEF Node

LEMMA SubOK ==
    ASSUME Running, NEW i \in 1..Len(Node.subs)
    PROVE  Sub(i) \in OkStates
<1>1. NodeOK(This.node, Node) /\ This.node \in DOMAIN program
  BY Here
<1>2. ArenaOK(program) /\ Len(program) \in Nat /\ DOMAIN program = 1..Len(program)
  BY ArenaDomain DEF Running, RunOK
<1> DEFINE c == Node.subs[i]
<1>3. c \in 1..(This.node - 1)
  BY <1>1 DEF NodeOK
<1>4. c \in DOMAIN program
  BY <1>1, <1>2, <1>3
<1>5. NodeOK(c, program[c])
  BY <1>2, <1>4 DEF ArenaOK
<1>6. 0 \in Evaluated(program[c])
  BY <1>5, ZeroEvaluated
<1> HIDE DEF c
<1>7. [node |-> c, n_evaluated |-> 0, n_satisfied |-> 0] \in OkStates
  BY <1>4, <1>6 DEF OkStates
<1> QED
  BY <1>7 DEF Sub, NodeState, c

LEMMA SelfOK ==
    ASSUME Running, NEW n \in Nat, NEW m \in Nat, n \in Evaluated(Node), m <= n
    PROVE  Self(n, m) \in OkStates
<1>1. This.node \in DOMAIN program /\ n \in Evaluated(program[This.node])
  BY Here DEF Node
<1> DEFINE c == This.node
<1> HIDE DEF c
<1>2. [node |-> c, n_evaluated |-> n, n_satisfied |-> m] \in OkStates
  BY <1>1 DEF OkStates, c
<1> QED
  BY <1>2 DEF Self, NodeState, c

(* The elements. *)
LEMMA Popped ==
    ASSUME RunOK
    PROVE  /\ stack \in Seq(Elems) /\ Len(stack) \in Nat
           /\ stack # <<>> => Len(stack) >= 1
           /\ \A n \in 1..Len(stack) : Peek(n) \in Elems
           /\ \A n \in Nat : n <= Len(stack) => Pop(n) \in Seq(Elems)
           /\ \A st \in Seq(Elems), e \in Elems : Append(st, e) \in Seq(Elems)
           /\ \A b : Bool(b) \in Elems
<1>1. stack \in Seq(Elems)
  BY DEF RunOK
<1>2. \A b : Bool(b) \in Elems
  BY DEF Bool, Elems
<1> HIDE DEF Elems
<1>3. /\ stack # <<>> => Len(stack) >= 1
      /\ \A n \in 1..Len(stack) : Peek(n) \in Elems
  BY <1>1 DEF Peek
<1>4. \A n \in Nat : n <= Len(stack) => Pop(n) \in Seq(Elems)
  BY <1>1, Front DEF Pop
<1>5. \A st \in Seq(Elems), e \in Elems : Append(st, e) \in Seq(Elems)
  OBVIOUS
<1>6. Len(stack) \in Nat
  BY <1>1
<1> QED
  BY <1>1, <1>2, <1>3, <1>4, <1>5, <1>6

(* What iter_next does keeps the invariant if it goes on with elements of  *)
(* the witness or results, fragments that may be resumed, and at most one  *)
(* constraint that holds.                                                  *)
LEMMA GotoOK ==
    ASSUME Running, NEW st \in Seq(Elems), NEW push \in Seq(OkStates), NEW cs,
           cs = <<>> \/ \E c : cs = <<c>> /\ Proven(c),
           Goto(st, push, cs)
    PROVE  RunOK'
<1>1. /\ program' = program /\ witness' = witness /\ tx' = tx /\ result' = result
      /\ stack' = st /\ state' = Rest \o push /\ yielded' = yielded \o cs
  BY DEF Goto, given
<1>2. Elems' = Elems /\ OkStates' = OkStates
  BY <1>1 DEF Elems, OkStates, Evaluated
<1>3. \A c : Proven(c) <=> Proven(c)'
  BY <1>1 DEF Proven
<1>4. state' \in Seq(OkStates')
  <2>1. Rest \in Seq(OkStates)
    BY Here
  <2> HIDE DEF OkStates
  <2> QED
    BY <2>1, <1>1, <1>2
<1>5. stack' \in Seq(Elems')
  BY <1>1, <1>2
<1>6. IsSeq(yielded') /\ \A i \in DOMAIN yielded' : Proven(yielded'[i])
  <2> DEFINE S == {c \in {yielded[i] : i \in DOMAIN yielded} \cup {cs[i] : i \in DOMAIN cs} : Proven(c)}
  <2>1. IsSeq(yielded) /\ \A i \in DOMAIN yielded : Proven(yielded[i])
    BY DEF Running, RunOK, Backed
  <2>2. yielded \in Seq(S)
    <3>1. yielded \in Seq({yielded[i] : i \in DOMAIN yielded})
      BY <2>1 DEF IsSeq
    <3>2. \A i \in DOMAIN yielded : yielded[i] \in S
      BY <2>1
    <3> HIDE DEF S
    <3> QED
      BY <3>1, <3>2
  <2>3. cs \in Seq(S)
    <3>1. CASE cs = <<>>
      BY <3>1
    <3>2. CASE cs # <<>>
      <4>1. PICK c : cs = <<c>> /\ Proven(c)
        BY <3>2
      <4>2. c \in S
        <5>1. 1 \in DOMAIN cs /\ cs[1] = c
          BY <4>1
        <5> QED
          BY <4>1, <5>1
      <4> HIDE DEF S
      <4> QED
        BY <4>1, <4>2
    <3> QED
      BY <3>1, <3>2
  <2>4. \A c \in S : Proven(c)
    OBVIOUS
  <2> HIDE DEF S
  <2>5. yielded' \in Seq(S)
    BY <2>2, <2>3, <1>1
  <2>6. \A i \in DOMAIN yielded' : yielded'[i] \in S
    BY <2>5
  <2>7. IsSeq(yielded')
    BY <2>5, SeqIsSeq
  <2> QED
    BY <2>4, <2>6, <2>7
<1>7. Backed'
  BY <1>3, <1>6 DEF Backed
<1> QED
  BY <1>1, <1>4, <1>5, <1>6, <1>7 DEF RunOK, Running, ArenaOK, NodeOK, IsSeq

(* What was given and what was yielded stay; an error ends the iteration.  *)
LEMMA FailOK ==
    ASSUME RunOK, Fail("err")
    PROVE  RunOK'
<1>1. /\ program' = program /\ witness' = witness /\ tx' = tx /\ result' = "err"
      /\ stack' = stack /\ state' = state /\ yielded' = yielded
  BY DEF Fail, given
<1>2. Elems' = Elems /\ OkStates' = OkStates
  BY <1>1 DEF Elems, OkStates, Evaluated
<1>3. Backed'
  BY <1>1 DEF RunOK, Backed, Proven
<1> QED
  BY <1>1, <1>2, <1>3 DEF RunOK, ArenaOK, NodeOK, IsSeq

(* The same where one element is popped, and a result pushed. *)
LEMMA PopOne ==
    ASSUME RunOK, stack # <<>>
    PROVE  /\ Peek(1) \in Elems
           /\ Pop(1) \in Seq(Elems)
           /\ Append(Pop(1), Satisfied_) \in Seq(Elems)
           /\ \A b : Append(Pop(1), Bool(b)) \in Seq(Elems)
<1>1. /\ Len(stack) \in Nat /\ Len(stack) >= 1
      /\ \A n \in 1..Len(stack) : Peek(n) \in Elems
      /\ \A n \in Nat : n <= Len(stack) => Pop(n) \in Seq(Elems)
      /\ \A st \in Seq(Elems), e \in Elems : Append(st, e) \in Seq(Elems)
      /\ \A b : Bool(b) \in Elems
  BY Popped
<1>2. Peek(1) \in Elems /\ Pop(1) \in Seq(Elems)
  BY <1>1
<1>3. Satisfied_ \in Elems
  BY DEF Elems
<1> QED
  BY <1>1, <1>2, <1>3

LEMMA Quiet ==
    ASSUME Running, NEW st \in Seq(Elems), NEW push \in Seq(OkStates), Goto(st, push, <<>>)
    PROVE  RunOK'
  BY GotoOK, Zenon

LEMMA Yields ==
    ASSUME Running, NEW st \in Seq(Elems), NEW push \in Seq(OkStates), NEW c, Proven(c),
           Goto(st, push, <<c>>)
    PROVE  RunOK'
  BY GotoOK, Zenon

LEMMA Short ==
    ASSUME NEW S
    PROVE  /\ <<>> \in Seq(S)
           /\ \A a \in S : <<a>> \in Seq(S)
           /\ \A a, b \in S : <<a, b>> \in Seq(S)
  OBVIOUS

(* A fragment without counters has not been evaluated in part. *)
LEMMA FreshHere ==
    ASSUME Running,
           Node.frag \notin {"DupIf", "Verify", "ZeroNotEqual", "AndOr", "OrC", "OrD", "AndB",
                             "OrB", "Thresh", "Multi", "MultiA"}
    PROVE  This.n_evaluated = 0 /\ This.n_satisfied = 0
<1>1. /\ This.n_evaluated \in Evaluated(Node) /\ This.n_evaluated \in Nat
      /\ This.n_satisfied \in Nat /\ This.n_satisfied <= This.n_evaluated
  BY Here
<1>2. Evaluated(Node) = {0}
  BY DEF Evaluated
<1> QED
  BY <1>1, <1>2

(* An element on the stack that is no result was in the witness. *)
LEMMA FromWitness ==
    ASSUME RunOK, NEW x
    PROVE  /\ Sig(x) \in Elems => Sig(x) \in Range(witness)
           /\ Preimage(x) \in Elems => Preimage(x) \in Range(witness)
  BY DEF Elems, Sig, Preimage, Satisfied_, Dissatisfied, PushOne, PushZero

LEMMA EvalPkOK ==
    ASSUME RunOK, EvalPk
    PROVE  RunOK'
<1> DEFINE key == Node.args[1]
<1>1. Running /\ Node.frag = "PkK"
  BY DEF EvalPk, At, Running
<1>2. This.n_evaluated = 0 /\ This.n_satisfied = 0
  BY <1>1, FreshHere
<1>3. \/ Fail("err")
      \/ Goto(stack, <<>>, <<>>)
      \/ /\ stack # <<>> /\ Peek(1) = Sig(key)
         /\ Goto(Append(Pop(1), Satisfied_), <<>>, <<<<"PublicKey", key>>>>)
  BY <1>2, Zenon DEF EvalPk, Fresh, verify_sersig
<1>4. stack \in Seq(Elems) /\ <<>> \in Seq(OkStates)
  BY <1>1, Popped, Short
<1>5. CASE Goto(stack, <<>>, <<>>)
  BY <1>1, <1>4, <1>5, Quiet
<1>6. ASSUME stack # <<>> /\ Peek(1) = Sig(key)
      PROVE  Append(Pop(1), Satisfied_) \in Seq(Elems) /\ Proven(<<"PublicKey", key>>)
  <2>1. Append(Pop(1), Satisfied_) \in Seq(Elems) /\ Peek(1) \in Elems
    BY <1>1, <1>6, PopOne
  <2>2. Sig(key) \in Range(witness)
    BY <1>1, <1>6, <2>1, FromWitness
  <2> QED
    BY <2>1, <2>2 DEF Proven
<1> QED
  BY <1>1, <1>3, <1>4, <1>5, <1>6, FailOK, Yields

LEMMA EvalPkhOK ==
    ASSUME RunOK, EvalPkh
    PROVE  RunOK'
<1> DEFINE key == Node.args[1]
<1>1. Running /\ Node.frag \in {"PkH", "RawPkH"}
  BY DEF EvalPkh, At, Running
<1>2. This.n_evaluated = 0 /\ This.n_satisfied = 0
  BY <1>1, FreshHere
<1>3. \/ Fail("err")
      \/ ~(Len(stack) < 2) /\ Goto(Append(Pop(2), Dissatisfied), <<>>, <<>>)
      \/ /\ ~(Len(stack) < 2) /\ Peek(2) = Sig(key)
         /\ Goto(Append(Pop(2), Satisfied_), <<>>, <<<<"PublicKeyHash", key>>>>)
  BY <1>2, Zenon DEF EvalPkh, Fresh, verify_sersig
<1>4. <<>> \in Seq(OkStates)
  BY Short
<1>5. ASSUME ~(Len(stack) < 2)
      PROVE  /\ Append(Pop(2), Satisfied_) \in Seq(Elems)
             /\ Append(Pop(2), Dissatisfied) \in Seq(Elems)
             /\ Peek(2) \in Elems
  <2>1. /\ Len(stack) \in Nat
        /\ \A n \in 1..Len(stack) : Peek(n) \in Elems
        /\ \A n \in Nat : n <= Len(stack) => Pop(n) \in Seq(Elems)
        /\ \A st \in Seq(Elems), e \in Elems : Append(st, e) \in Seq(Elems)
    BY <1>1, Popped
  <2>2. Peek(2) \in Elems /\ Pop(2) \in Seq(Elems)
    BY <2>1, <1>5
  <2>3. Satisfied_ \in Elems /\ Dissatisfied \in Elems
    BY DEF Elems
  <2> QED
    BY <2>1, <2>2, <2>3
<1>6. ASSUME Peek(2) = Sig(key), Peek(2) \in Elems
      PROVE  Proven(<<"PublicKeyHash", key>>)
  <2>1. Sig(key) \in Range(witness)
    BY <1>1, <1>6, FromWitness
  <2> QED
    BY <2>1 DEF Proven
<1>7. CASE ~(Len(stack) < 2) /\ Goto(Append(Pop(2), Dissatisfied), <<>>, <<>>)
  BY <1>1, <1>4, <1>5, <1>7, Quiet
<1>8. CASE /\ ~(Len(stack) < 2) /\ Peek(2) = Sig(key)
           /\ Goto(Append(Pop(2), Satisfied_), <<>>, <<<<"PublicKeyHash", key>>>>)
  BY <1>1, <1>4, <1>5, <1>6, <1>8, Yields
<1> QED
  BY <1>3, <1>7, <1>8, FailOK

(* Leaves that read the transaction, or nothing. *)
LEMMA EvalLeafOK ==
    ASSUME RunOK, EvalConst \/ EvalTxTemplate \/ EvalAfter \/ EvalOlder
    PROVE  RunOK'
<1>1. Running /\ Node.frag \in {"True", "False", "TxTemplate", "After", "Older"}
  BY DEF EvalConst, EvalTxTemplate, EvalAfter, EvalOlder, At, Running
<1>2. This.n_evaluated = 0 /\ This.n_satisfied = 0
  BY <1>1, FreshHere
<1>3. /\ stack \in Seq(Elems) /\ <<>> \in Seq(OkStates)
      /\ Append(stack, Satisfied_) \in Seq(Elems)
      /\ \A b : Append(stack, Bool(b)) \in Seq(Elems)
  <2>1. /\ stack \in Seq(Elems)
        /\ \A st \in Seq(Elems), e \in Elems : Append(st, e) \in Seq(Elems)
        /\ \A b : Bool(b) \in Elems
    BY <1>1, Popped
  <2>2. Satisfied_ \in Elems
    BY DEF Elems
  <2> QED
    BY <2>1, <2>2, Short
<1>4. CASE EvalConst
  <2>1. Goto(Append(stack, Bool(Node.frag = "True")), <<>>, <<>>)
    BY <1>4, <1>2, Zenon DEF EvalConst, Fresh
  <2> QED
    BY <2>1, <1>1, <1>3, Quiet
<1>5. CASE EvalTxTemplate
  <2>1. \/ Fail("err")
        \/ /\ tx.template = Node.args[1]
           /\ Goto(stack, <<>>, <<<<"TxTemplate", Node.args[1]>>>>)
    BY <1>5, <1>2, Zenon DEF EvalTxTemplate, Fresh
  <2>2. tx.template = Node.args[1] => Proven(<<"TxTemplate", Node.args[1]>>)
    BY DEF Proven
  <2> QED
    BY <2>1, <2>2, <1>1, <1>3, Yields, FailOK
<1>6. CASE EvalAfter
  <2>1. \/ Fail("err")
        \/ /\ abs_is_implied_by(Node.k, tx.lock_time)
           /\ Goto(Append(stack, Satisfied_), <<>>, <<<<"AbsoluteTimelock", Node.k>>>>)
    BY <1>6, <1>2, Zenon DEF EvalAfter, Fresh
  <2>2. abs_is_implied_by(Node.k, tx.lock_time) => Proven(<<"AbsoluteTimelock", Node.k>>)
    BY DEF Proven
  <2> QED
    BY <2>1, <2>2, <1>1, <1>3, Yields, FailOK
<1>7. CASE EvalOlder
  <2>1. \/ Fail("err")
        \/ /\ tx.sequence >= 0 /\ rel_is_implied_by(Node.k, tx.sequence)
           /\ Goto(Append(stack, Satisfied_), <<>>, <<<<"RelativeTimelock", Node.k>>>>)
    BY <1>7, <1>2, Zenon DEF EvalOlder, Fresh
  <2>2. tx.sequence >= 0 /\ rel_is_implied_by(Node.k, tx.sequence)
            => Proven(<<"RelativeTimelock", Node.k>>)
    BY DEF Proven
  <2> QED
    BY <2>1, <2>2, <1>1, <1>3, Yields, FailOK
<1> QED
  BY <1>4, <1>5, <1>6, <1>7

LEMMA EvalHashOK ==
    ASSUME RunOK, EvalHash
    PROVE  RunOK'
<1> DEFINE h == Node.args[1]
<1>1. Running /\ Node.frag \in HashFrags
  BY DEF EvalHash, At, Running
<1>2. This.n_evaluated = 0 /\ This.n_satisfied = 0
  BY <1>1, FreshHere DEF HashFrags
<1>3. \/ Fail("err")
      \/ stack # <<>> /\ Goto(Append(Pop(1), Dissatisfied), <<>>, <<>>)
      \/ /\ stack # <<>> /\ Peek(1) = Preimage(h)
         /\ Goto(Append(Pop(1), Satisfied_), <<>>, <<<<"HashLock", h>>>>)
  BY <1>2, Zenon DEF EvalHash, Fresh
<1>4. <<>> \in Seq(OkStates)
  BY Short
<1>5. CASE stack # <<>> /\ Goto(Append(Pop(1), Dissatisfied), <<>>, <<>>)
  <2>1. Bool(FALSE) = Dissatisfied
    BY DEF Bool
  <2>2. Append(Pop(1), Dissatisfied) \in Seq(Elems)
    BY <1>1, <1>5, <2>1, PopOne
  <2> QED
    BY <1>1, <1>4, <1>5, <2>2, Quiet
<1>6. CASE /\ stack # <<>> /\ Peek(1) = Preimage(h)
           /\ Goto(Append(Pop(1), Satisfied_), <<>>, <<<<"HashLock", h>>>>)
  <2>1. Append(Pop(1), Satisfied_) \in Seq(Elems) /\ Preimage(h) \in Elems
    BY <1>1, <1>6, PopOne
  <2>2. Preimage(h) \in Range(witness)
    BY <1>1, <2>1, FromWitness
  <2>3. Proven(<<"HashLock", h>>)
    BY <2>2 DEF Proven
  <2> QED
    BY <1>1, <1>4, <1>6, <2>1, <2>3, Yields
<1> QED
  BY <1>3, <1>5, <1>6, FailOK

(* The children of each kind of fragment, when it first meets them. *)
LEMMA Children ==
    ASSUME Running
    PROVE  /\ Node.frag \in WrapFrags \cup InscribeFrags => Sub(1) \in OkStates
           /\ Node.frag \in BinaryFrags => Sub(1) \in OkStates /\ Sub(2) \in OkStates
           /\ Node.frag = "AndOr" =>
                Sub(1) \in OkStates /\ Sub(2) \in OkStates /\ Sub(3) \in OkStates
           /\ Node.frag = "Thresh" => Sub(1) \in OkStates
<1>1. NodeOK(This.node, Node)
  BY Here
<1>2. \A i \in 1..Len(Node.subs) : Sub(i) \in OkStates
  BY SubOK
<1> DEFINE n == Len(Node.subs)
           ok(i) == Sub(i) \in OkStates
<1>3. /\ n \in Nat
      /\ Node.frag \in WrapFrags \cup InscribeFrags => n = 1
      /\ Node.frag \in BinaryFrags => n = 2
      /\ Node.frag = "AndOr" => n = 3
      /\ Node.frag = "Thresh" => n >= 1
  BY <1>1, Zenon DEF NodeOK
<1>4. \A i \in 1..n : ok(i)
  BY <1>2
<1> HIDE DEF n, ok
<1>5. (n >= 1 => ok(1)) /\ (n >= 2 => ok(2)) /\ (n >= 3 => ok(3))
  BY <1>3, <1>4
<1>6. (n = 1 => n >= 1) /\ (n = 2 => n >= 1 /\ n >= 2) /\ (n = 3 => n >= 1 /\ n >= 2 /\ n >= 3)
  OBVIOUS
<1> QED
  BY <1>3, <1>5, <1>6, Zenon DEF ok

LEMMA WrappersOK ==
    ASSUME RunOK, Descend \/ EvalDupIf \/ EvalVerify \/ EvalZeroNotEqual \/ EvalNonZero
    PROVE  RunOK'
<1>1. Running /\ Node.frag \in WrapFrags \cup InscribeFrags
  BY DEF Descend, EvalDupIf, EvalVerify, EvalZeroNotEqual, EvalNonZero, At, Running, WrapFrags
<1>2. stack \in Seq(Elems) /\ Append(stack, Satisfied_) \in Seq(Elems)
  <2>1. Satisfied_ \in Elems
    BY DEF Elems
  <2> QED
    BY <1>1, <2>1, Popped
<1>3. <<>> \in Seq(OkStates) /\ <<Sub(1)>> \in Seq(OkStates)
  BY <1>1, Children, Short
<1>4. ASSUME Node.frag \in {"DupIf", "Verify", "ZeroNotEqual"}
      PROVE  <<Self(1, 1), Sub(1)>> \in Seq(OkStates) /\ <<Self(1, 0), Sub(1)>> \in Seq(OkStates)
  <2>1. 1 \in Evaluated(Node)
    BY <1>4 DEF Evaluated
  <2>2. Self(1, 1) \in OkStates /\ Self(1, 0) \in OkStates
    BY <1>1, <2>1, SelfOK
  <2> QED
    BY <1>1, <2>2, Children, Short
<1>5. stack # <<>> =>
        /\ Pop(1) \in Seq(Elems)
        /\ \A b : Append(Pop(1), Bool(b)) \in Seq(Elems)
  BY <1>1, PopOne
<1>6. CASE Descend
  <2>1. This.n_evaluated = 0 /\ This.n_satisfied = 0
    BY <1>1, <1>6, FreshHere DEF Descend, At, InscribeFrags
  <2>2. Goto(stack, <<Sub(1)>>, <<>>)
    BY <1>6, <2>1, Zenon DEF Descend, Fresh
  <2> QED
    BY <2>2, <1>1, <1>2, <1>3, Quiet
<1>7. CASE EvalDupIf
  <2>1. /\ Node.frag = "DupIf"
        /\ \/ Fail("err")
           \/ Goto(Append(stack, Satisfied_), <<>>, <<>>)
           \/ Goto(stack, <<>>, <<>>)
           \/ stack # <<>> /\ Goto(Pop(1), <<Self(1, 1), Sub(1)>>, <<>>)
    BY <1>7, Zenon DEF EvalDupIf, At
  <2> QED
    BY <2>1, <1>1, <1>2, <1>3, <1>4, <1>5, Quiet, FailOK
<1>8. CASE EvalVerify
  <2>1. /\ Node.frag = "Verify"
        /\ \/ Fail("err")
           \/ Goto(stack, <<Self(1, 0), Sub(1)>>, <<>>)
           \/ stack # <<>> /\ Goto(Pop(1), <<>>, <<>>)
    BY <1>8, Zenon DEF EvalVerify, At
  <2> QED
    BY <2>1, <1>1, <1>2, <1>3, <1>4, <1>5, Quiet, FailOK
<1>9. CASE EvalZeroNotEqual
  <2>1. /\ Node.frag = "ZeroNotEqual"
        /\ \/ Fail("err")
           \/ Goto(stack, <<Self(1, 0), Sub(1)>>, <<>>)
           \/ stack # <<>> /\ Goto(Append(Pop(1), Bool(Peek(1) # Dissatisfied)), <<>>, <<>>)
    BY <1>9, Zenon DEF EvalZeroNotEqual, At
  <2> QED
    BY <2>1, <1>1, <1>2, <1>3, <1>4, <1>5, Quiet, FailOK
<1>10. CASE EvalNonZero
  <2>1. This.n_evaluated = 0 /\ This.n_satisfied = 0
    BY <1>1, <1>10, FreshHere DEF EvalNonZero, At
  <2>2. \/ Fail("err")
        \/ Goto(stack, <<>>, <<>>)
        \/ Goto(stack, <<Sub(1)>>, <<>>)
    BY <1>10, <2>1, Zenon DEF EvalNonZero, Fresh
  <2> QED
    BY <2>2, <1>1, <1>2, <1>3, Quiet, FailOK
<1> QED
  BY <1>6, <1>7, <1>8, <1>9, <1>10

LEMMA EvalAndVOK ==
    ASSUME RunOK, EvalAndV
    PROVE  RunOK'
<1>1. Running /\ Node.frag = "AndV"
  BY DEF EvalAndV, At, Running
<1>2. This.n_evaluated = 0 /\ This.n_satisfied = 0
  BY <1>1, FreshHere
<1>3. Goto(stack, <<Sub(2), Sub(1)>>, <<>>)
  BY <1>2, Zenon DEF EvalAndV, Fresh
<1>4. stack \in Seq(Elems) /\ <<Sub(2), Sub(1)>> \in Seq(OkStates)
  <2>1. Node.frag \in BinaryFrags
    BY <1>1 DEF BinaryFrags
  <2> QED
    BY <1>1, <2>1, Children, Short, Popped
<1> QED
  BY <1>1, <1>3, <1>4, Quiet

LEMMA EvalBothOK ==
    ASSUME RunOK, EvalBoth
    PROVE  RunOK'
<1> DEFINE m == IF Peek(1) = Satisfied_ THEN 1 ELSE 0
<1>1. Running /\ Node.frag \in {"AndB", "OrB"}
  BY DEF EvalBoth, At, Running
<1>2. \/ Fail("err")
      \/ Goto(stack, <<Self(1, 0), Sub(1)>>, <<>>)
      \/ stack # <<>> /\ Goto(Pop(1), <<Self(2, m), Sub(2)>>, <<>>)
      \/ stack # <<>> /\ \E b : Goto(Append(Pop(1), Bool(b)), <<>>, <<>>)
  BY Zenon DEF EvalBoth
<1>3. /\ stack \in Seq(Elems)
      /\ stack # <<>> => Pop(1) \in Seq(Elems) /\ \A b : Append(Pop(1), Bool(b)) \in Seq(Elems)
  BY <1>1, Popped, PopOne
<1>4. /\ <<>> \in Seq(OkStates)
      /\ <<Self(1, 0), Sub(1)>> \in Seq(OkStates)
      /\ <<Self(2, m), Sub(2)>> \in Seq(OkStates)
  <2>1. Sub(1) \in OkStates /\ Sub(2) \in OkStates
    BY <1>1, Children DEF BinaryFrags
  <2>2. 1 \in Evaluated(Node) /\ 2 \in Evaluated(Node)
    BY <1>1 DEF Evaluated
  <2>3. m \in Nat /\ m <= 2
    OBVIOUS
  <2> HIDE DEF m
  <2>4. Self(1, 0) \in OkStates /\ Self(2, m) \in OkStates
    BY <1>1, <2>2, <2>3, SelfOK
  <2> QED
    BY <2>1, <2>4, Short
<1> HIDE DEF m
<1> QED
  BY <1>1, <1>2, <1>3, <1>4, Quiet, FailOK

LEMMA EvalLeftOK ==
    ASSUME RunOK, EvalLeft
    PROVE  RunOK'
<1>1. Running /\ Node.frag \in {"AndOr", "OrC", "OrD"} /\ Goto(stack, <<Self(1, 0), Sub(1)>>, <<>>)
  BY DEF EvalLeft, At, Running
<1>2. 1 \in Evaluated(Node)
  BY <1>1 DEF Evaluated
<1>3. Self(1, 0) \in OkStates
  BY <1>1, <1>2, SelfOK
<1>4. Sub(1) \in OkStates
  BY <1>1, Children DEF BinaryFrags
<1>5. stack \in Seq(Elems) /\ <<Self(1, 0), Sub(1)>> \in Seq(OkStates)
  BY <1>1, <1>3, <1>4, Popped, Short
<1> QED
  BY <1>1, <1>5, Quiet

LEMMA EvalBranchOK ==
    ASSUME RunOK, EvalBranch
    PROVE  RunOK'
<1> DEFINE i == IF Peek(1) = Satisfied_ THEN 1 ELSE 2
           b == Branches[Node.frag][i]
           push == [j \in DOMAIN b.subs |-> Sub(b.subs[j])]
<1>1. Running /\ Node.frag \in {"AndOr", "OrC", "OrD", "OrI"}
  BY DEF EvalBranch, At, Running
<1>2. \/ Fail("err")
      \/ stack # <<>> /\ Goto(Pop(1) \o b.push, push, <<>>)
  BY Zenon DEF EvalBranch
<1>3. /\ b.push \in {<<>>, <<Satisfied_>>}
      /\ b.subs \in {<<>>, <<1>>, <<2>>, <<3>>}
      /\ b.subs = <<3>> => Node.frag = "AndOr"
  BY <1>1 DEF Branches, Branch
<1>4. push \in Seq(OkStates)
  <2>1. Sub(1) \in OkStates /\ Sub(2) \in OkStates /\ (Node.frag = "AndOr" => Sub(3) \in OkStates)
    BY <1>1, Children DEF BinaryFrags
  <2> DEFINE sub(x) == Sub(x)
             subs == b.subs
  <2>2. subs \in {<<>>, <<1>>, <<2>>, <<3>>}
        /\ sub(1) \in OkStates /\ sub(2) \in OkStates /\ (subs = <<3>> => sub(3) \in OkStates)
    BY <2>1, <1>3
  <2> HIDE DEF sub, subs
  <2>3. [j \in DOMAIN subs |-> sub(subs[j])] \in Seq(OkStates)
    <3> HIDE DEF OkStates
    <3>1. CASE subs = <<>>
      BY <3>1
    <3>2. CASE subs # <<>>
      <4>1. PICK x \in {1, 2, 3} : subs = <<x>>
        BY <2>2, <3>2
      <4>2. sub(x) \in OkStates
        BY <2>2, <4>1
      <4>3. [j \in DOMAIN subs |-> sub(subs[j])] = <<sub(x)>>
        BY <4>1
      <4> QED
        BY <4>2, <4>3, Short
    <3> QED
      BY <3>1, <3>2
  <2> QED
    BY <2>3 DEF sub, subs
<1>5. ASSUME stack # <<>> PROVE Pop(1) \o b.push \in Seq(Elems)
  <2>1. Pop(1) \in Seq(Elems)
    BY <1>1, <1>5, PopOne
  <2>2. b.push \in Seq(Elems)
    <3>1. Satisfied_ \in Elems
      BY DEF Elems
    <3> QED
      BY <3>1, <1>3, Short
  <2> HIDE DEF b, Elems
  <2> QED
    BY <2>1, <2>2
<1> HIDE DEF push, b
<1> QED
  BY <1>1, <1>2, <1>4, <1>5, Quiet, FailOK

LEMMA EvalThreshOK ==
    ASSUME RunOK, EvalThresh
    PROVE  RunOK'
<1> DEFINE n == Len(Node.subs)
           e == This.n_evaluated
           m == This.n_satisfied + (IF Peek(1) = Satisfied_ THEN 1 ELSE 0)
<1>1. Running /\ Node.frag = "Thresh"
  BY DEF EvalThresh, At, Running
<1>2. \/ Fail("err")
      \/ Goto(stack, <<Self(1, 0), Sub(1)>>, <<>>)
      \/ stack # <<>> /\ Goto(Append(Pop(1), Bool(m = Node.k)), <<>>, <<>>)
      \/ stack # <<>> /\ e # n /\ Goto(Pop(1), <<Self(e + 1, m), Sub(e + 1)>>, <<>>)
  BY Zenon DEF EvalThresh
<1>3. /\ stack \in Seq(Elems)
      /\ stack # <<>> => Pop(1) \in Seq(Elems) /\ \A b : Append(Pop(1), Bool(b)) \in Seq(Elems)
  BY <1>1, Popped, PopOne
<1>4. n \in Nat /\ n >= 1 /\ Evaluated(Node) = 0..n /\ e \in 0..n
  <2>1. NodeOK(This.node, Node) /\ e \in Evaluated(Node)
    BY <1>1, Here
  <2>2. Evaluated(Node) = 0..n
    BY <1>1 DEF Evaluated
  <2> QED
    BY <2>1, <2>2, <1>1 DEF NodeOK
<1>5. m \in Nat /\ m <= e + 1
  <2>1. This.n_satisfied \in Nat /\ This.n_satisfied <= e /\ e \in Nat
    BY <1>1, Here
  <2> QED
    BY <2>1
<1> HIDE DEF n, e, m
<1>6. <<Self(1, 0), Sub(1)>> \in Seq(OkStates) /\ <<>> \in Seq(OkStates)
  <2>1. 1 \in Evaluated(Node)
    BY <1>4
  <2>2. Self(1, 0) \in OkStates
    BY <1>1, <2>1, SelfOK
  <2> QED
    BY <1>1, <2>2, Children, Short
<1>7. e # n => <<Self(e + 1, m), Sub(e + 1)>> \in Seq(OkStates)
  <2> SUFFICES ASSUME e # n PROVE Self(e + 1, m) \in OkStates /\ Sub(e + 1) \in OkStates
    BY Short
  <2>1. e + 1 \in 1..n /\ e + 1 \in Evaluated(Node) /\ e + 1 \in Nat
    BY <1>4
  <2>2. Self(e + 1, m) \in OkStates
    BY <1>1, <1>5, <2>1, SelfOK
  <2>3. e + 1 \in 1..Len(Node.subs)
    BY <2>1 DEF n
  <2> QED
    BY <1>1, <2>2, <2>3, SubOK
<1> QED
  BY <1>1, <1>2, <1>3, <1>6, <1>7, Quiet, FailOK

(* Multisignatures count one more key, which is there. *)
LEMMA NextKey ==
    ASSUME Running, Node.frag \in {"Multi", "MultiA"}, This.n_evaluated # Len(Node.args)
    PROVE  /\ <<Self(This.n_evaluated + 1, This.n_satisfied + 1)>> \in Seq(OkStates)
           /\ <<Self(This.n_evaluated + 1, This.n_satisfied)>> \in Seq(OkStates)
<1> DEFINE n == Len(Node.args)
           e == This.n_evaluated
           m == This.n_satisfied
<1>1. /\ NodeOK(This.node, Node) /\ e \in Evaluated(Node)
      /\ m \in Nat /\ e \in Nat /\ m <= e
  BY Here
<1>2. Evaluated(Node) = 0..n
  BY DEF Evaluated
<1>3. n \in Nat
  BY <1>1 DEF NodeOK
<1>4. e # n
  OBVIOUS
<1> HIDE DEF n, e, m
<1>5. /\ e + 1 \in Nat /\ m + 1 \in Nat /\ m + 1 <= e + 1 /\ m <= e + 1
      /\ e + 1 \in Evaluated(Node)
  BY <1>1, <1>2, <1>3, <1>4
<1>6. Self(e + 1, m + 1) \in OkStates /\ Self(e + 1, m) \in OkStates
  BY <1>1, <1>5, SelfOK
<1> QED
  BY <1>6, Short DEF e, m

LEMMA SigProven ==
    ASSUME RunOK, stack # <<>>, NEW key, Peek(1) = Sig(key)
    PROVE  Proven(<<"PublicKey", key>>)
<1>1. Sig(key) \in Elems
  BY PopOne
<1>2. Sig(key) \in Range(witness)
  BY <1>1, FromWitness
<1> QED
  BY <1>2 DEF Proven

LEMMA EvalMultiAOK ==
    ASSUME RunOK, EvalMultiA
    PROVE  RunOK'
<1> DEFINE n == This.n_evaluated
           key == Node.args[n + 1]
           last == n = Len(Node.args)
<1>1. Running /\ Node.frag = "MultiA"
  BY DEF EvalMultiA, At, Running
<1>2. \/ Fail("err")
      \/ Goto(Append(stack, Bool(This.n_satisfied = Node.k)), <<>>, <<>>)
      \/ /\ ~last /\ stack # <<>> /\ Peek(1) = Sig(key)
         /\ Goto(Pop(1), <<Self(n + 1, This.n_satisfied + 1)>>, <<<<"PublicKey", key>>>>)
      \/ /\ ~last /\ stack # <<>>
         /\ Goto(Pop(1), <<Self(n + 1, This.n_satisfied)>>, <<>>)
  BY Zenon DEF EvalMultiA, multi_a_result, verify_sersig
<1>3. /\ \A b : Append(stack, Bool(b)) \in Seq(Elems)
      /\ stack # <<>> => Pop(1) \in Seq(Elems)
      /\ <<>> \in Seq(OkStates)
  BY <1>1, Popped, PopOne, Short
<1>4. ~last => /\ <<Self(n + 1, This.n_satisfied + 1)>> \in Seq(OkStates)
               /\ <<Self(n + 1, This.n_satisfied)>> \in Seq(OkStates)
  BY <1>1, NextKey
<1>5. stack # <<>> /\ Peek(1) = Sig(key) => Proven(<<"PublicKey", key>>)
  BY <1>1, SigProven
<1> HIDE DEF last, key, n
<1> QED
  BY <1>1, <1>2, <1>3, <1>4, <1>5, Quiet, Yields, FailOK

LEMMA MultiKeyOK ==
    ASSUME RunOK, Running, Node.frag = "Multi", This.n_evaluated # Len(Node.args), MultiKey
    PROVE  RunOK'
<1> DEFINE n == This.n_evaluated
           key == Node.args[Len(Node.args) - n]
<1>1. \/ Fail("err")
      \/ /\ stack # <<>> /\ Peek(1) = Sig(key)
         /\ Goto(Pop(1), <<Self(n + 1, This.n_satisfied + 1)>>, <<<<"PublicKey", key>>>>)
      \/ Goto(stack, <<Self(n + 1, This.n_satisfied)>>, <<>>)
  BY Zenon DEF MultiKey, verify_sersig
<1>2. /\ stack \in Seq(Elems)
      /\ stack # <<>> => Pop(1) \in Seq(Elems)
  BY Popped, PopOne
<1>3. /\ <<Self(n + 1, This.n_satisfied + 1)>> \in Seq(OkStates)
      /\ <<Self(n + 1, This.n_satisfied)>> \in Seq(OkStates)
  BY NextKey
<1>4. stack # <<>> /\ Peek(1) = Sig(key) => Proven(<<"PublicKey", key>>)
  BY SigProven
<1>5. RunOK
  BY DEF Running
<1> HIDE DEF key, n
<1> QED
  BY <1>1, <1>2, <1>3, <1>4, <1>5, Quiet, Yields, FailOK

LEMMA EvalMultiOK ==
    ASSUME RunOK, EvalMulti
    PROVE  RunOK'
<1>1. Running /\ Node.frag = "Multi"
  BY DEF EvalMulti, At, Running
<1>2. Node.k \in Nat /\ Len(Node.args) \in Nat /\ Len(Node.args) >= 1
  <2>1. NodeOK(This.node, Node)
    BY <1>1, Here
  <2> QED
    BY <1>1, <2>1 DEF NodeOK
<1>3. 0 # Len(Node.args)
  BY <1>2
<1>4. \/ Fail("err")
      \/ This.n_evaluated # Len(Node.args) /\ MultiKey
      \/ /\ ~(Len(stack) < Node.k + 1)
         /\ Goto(Append(Pop(Node.k + 1), Dissatisfied), <<>>, <<>>)
      \/ stack # <<>> /\ Goto(Append(Pop(1), Satisfied_), <<>>, <<>>)
  BY <1>3, Zenon DEF EvalMulti
<1>5. CASE /\ ~(Len(stack) < Node.k + 1)
           /\ Goto(Append(Pop(Node.k + 1), Dissatisfied), <<>>, <<>>)
  <2>1. /\ Len(stack) \in Nat
        /\ \A n \in Nat : n <= Len(stack) => Pop(n) \in Seq(Elems)
        /\ \A st \in Seq(Elems), e \in Elems : Append(st, e) \in Seq(Elems)
    BY <1>1, Popped
  <2>2. Node.k + 1 \in Nat /\ Node.k + 1 <= Len(stack)
    BY <1>2, <1>5, <2>1
  <2>3. Dissatisfied \in Elems
    BY DEF Elems
  <2>4. Append(Pop(Node.k + 1), Dissatisfied) \in Seq(Elems)
    BY <2>1, <2>2, <2>3
  <2> QED
    BY <1>1, <1>5, <2>4, Quiet, Short
<1>6. CASE stack # <<>> /\ Goto(Append(Pop(1), Satisfied_), <<>>, <<>>)
  BY <1>1, <1>6, PopOne, Quiet, Short
<1> QED
  BY <1>1, <1>4, <1>5, <1>6, MultiKeyOK, FailOK

LEMMA EvalPublicKeyOK ==
    ASSUME RunOK, EvalPublicKey
    PROVE  RunOK'
<1>1. CASE Fail("err")
  BY <1>1, FailOK
<1>2. CASE ~Fail("err")
  <2>1. /\ stack # <<>> /\ Peek(1) = Sig(public_key)
        /\ stack' = Append(Pop(1), Satisfied_)
        /\ yielded' = Append(yielded, <<"PublicKey", public_key>>)
        /\ program' = program /\ witness' = witness /\ tx' = tx
        /\ state' = state /\ result' = result
    BY <1>2 DEF EvalPublicKey, verify_sersig, given
  <2>2. Elems' = Elems /\ OkStates' = OkStates
    BY <2>1 DEF Elems, OkStates, Evaluated
  <2>3. stack' \in Seq(Elems')
    BY <2>1, <2>2, PopOne
  <2>4. IsSeq(yielded) /\ \A i \in DOMAIN yielded : Proven(yielded[i])
    BY DEF RunOK, Backed
  <2>5. Proven(<<"PublicKey", public_key>>)
    BY <2>1, SigProven
  <2>6. IsSeq(yielded') /\ \A i \in DOMAIN yielded' : Proven(yielded'[i])
    <3> DEFINE c == <<"PublicKey", public_key>>
               S == {yielded[i] : i \in DOMAIN yielded} \cup {c}
    <3>1. yielded \in Seq(S) /\ c \in S
      BY <2>4 DEF IsSeq
    <3>2. \A x \in S : Proven(x)
      BY <2>4, <2>5
    <3> HIDE DEF S, c
    <3>3. yielded' = Append(yielded, c)
      BY <2>1 DEF c
    <3>4. yielded' \in Seq(S)
      BY <3>1, <3>3
    <3>5. \A i \in DOMAIN yielded' : yielded'[i] \in S
      BY <3>4
    <3> QED
      BY <3>2, <3>4, <3>5, SeqIsSeq
  <2>7. Backed'
    <3>1. \A c : Proven(c) <=> Proven(c)'
      BY <2>1 DEF Proven
    <3> QED
      BY <2>6, <3>1 DEF Backed
  <2> QED
    BY <2>1, <2>2, <2>3, <2>6, <2>7 DEF RunOK, ArenaOK, NodeOK, IsSeq
<1> QED
  BY <1>1, <1>2

LEMMA FinishOK ==
    ASSUME RunOK, Finish
    PROVE  RunOK'
<1>1. CASE Fail("err")
  BY <1>1, FailOK
<1>2. CASE ~Fail("err")
  <2>1. /\ stack' = <<>> /\ result' = "ok" /\ yielded' = yielded
        /\ program' = program /\ witness' = witness /\ tx' = tx /\ state' = state
    BY <1>2 DEF Finish, given
  <2>2. Elems' = Elems /\ OkStates' = OkStates
    BY <2>1 DEF Elems, OkStates, Evaluated
  <2>3. Backed'
    BY <2>1 DEF RunOK, Backed, Proven
  <2>4. stack' \in Seq(Elems')
    BY <2>1, Short
  <2> QED
    BY <2>1, <2>2, <2>3, <2>4 DEF RunOK, ArenaOK, NodeOK, IsSeq
<1> QED
  BY <1>1, <1>2

(* Every step of the interpreter. *)
LEMMA IterNextOK ==
    ASSUME RunOK, iter_next
    PROVE  RunOK'
  BY EvalPkOK, EvalPkhOK, EvalLeafOK, EvalHashOK, WrappersOK, EvalAndVOK, EvalBothOK,
     EvalLeftOK, EvalBranchOK, EvalThreshOK, EvalMultiAOK, EvalMultiOK, EvalPublicKeyOK,
     FinishOK DEF iter_next

(* A spend with any witness, for any transaction. *)
LEMMA IterCustomOK ==
    ASSUME NEW nodes, ArenaOK(nodes), NEW key, NEW t, NEW w, IsSeq(w),
           iter_custom(nodes, key, t, w)
    PROVE  RunOK'
<1>1. /\ program' = nodes /\ witness' = w /\ stack' = w /\ yielded' = <<>>
      /\ result' = "running"
      /\ state' = IF nodes = <<>> THEN <<>> ELSE <<NodeState(Len(nodes), 0, 0)>>
  BY DEF iter_custom
<1>2. stack' \in Seq(Elems')
  <2>1. Elems' = Range(w) \cup {Satisfied_, Dissatisfied}
    BY <1>1 DEF Elems
  <2>2. w \in Seq({w[i] : i \in DOMAIN w})
    BY DEF IsSeq
  <2>3. {w[i] : i \in DOMAIN w} \subseteq Elems'
    BY <2>1 DEF Range
  <2> HIDE DEF Elems
  <2> DEFINE S == {w[i] : i \in DOMAIN w}
  <2>4. w \in Seq(S) /\ S \subseteq Elems'
    BY <2>2, <2>3
  <2> HIDE DEF S
  <2> QED
    BY <1>1, <2>4
<1>3. state' \in Seq(OkStates')
  <2>1. CASE nodes = <<>>
    BY <1>1, <2>1, Short
  <2>2. CASE nodes # <<>>
    <3> DEFINE n == Len(nodes)
    <3>1. n \in 1..n /\ n \in DOMAIN nodes
      BY <2>2, ArenaDomain DEF ArenaOK, IsSeq
    <3>2. 0 \in Evaluated(nodes[n])
      BY <3>1, ZeroEvaluated DEF ArenaOK
    <3>3. Evaluated(nodes[n])' = Evaluated(nodes[n])
      BY DEF Evaluated
    <3> HIDE DEF n
    <3>4. [node |-> n, n_evaluated |-> 0, n_satisfied |-> 0] \in OkStates'
      <4>1. OkStates' = {s \in [node : DOMAIN nodes, n_evaluated : Nat, n_satisfied : Nat] :
                            /\ s.n_evaluated \in Evaluated(nodes[s.node])
                            /\ s.n_satisfied <= s.n_evaluated}
        BY <1>1 DEF OkStates, Evaluated
      <4> QED
        BY <4>1, <3>1, <3>2
    <3>5. state' = <<[node |-> n, n_evaluated |-> 0, n_satisfied |-> 0]>>
      BY <1>1, <2>2 DEF NodeState, n
    <3> HIDE DEF OkStates
    <3> QED
      BY <3>4, <3>5
  <2> QED
    BY <2>1, <2>2
<1>4. IsSeq(yielded') /\ Backed'
  BY <1>1 DEF IsSeq, Backed
<1> QED
  BY <1>1, <1>2, <1>3, <1>4 DEF RunOK, ArenaOK, NodeOK, IsSeq

-----------------------------------------------------------------------------
(* The same system without the choice of witnesses and transactions that   *)
(* makes it finite: an expression, or a key, is spent with anything.       *)

SpendAny ==
    /\ \/ \E t : \E w : IsSeq(w) /\ iter_custom(ast, "none", t, w)
       \/ \E key : \E t : \E w : IsSeq(w) /\ iter_custom(<<>>, key, t, w)
    /\ UNCHANGED cvars

AnyNext == Build \/ SpendAny \/ Interpret

AnySpec == RedeemInit /\ [][AnyNext]_rvars

IInv == BuildOK /\ RunOK

LEMMA InitOK == RedeemInit => IInv
<1> SUFFICES ASSUME RedeemInit PROVE IInv
  OBVIOUS
<1> USE DEF RedeemInit, ConstructInit, InterpreterInit
<1>1. BuildOK
  BY DEF BuildOK, ArenaOK, IsSeq
<1>2. ArenaOK(program) /\ IsSeq(yielded) /\ Backed
  BY DEF ArenaOK, IsSeq, Backed
<1>3. state \in Seq(OkStates) /\ stack \in Seq(Elems)
  BY Short
<1> QED
  BY <1>1, <1>2, <1>3 DEF IInv, RunOK

LEMMA StutterOK ==
    ASSUME RunOK, UNCHANGED ivars
    PROVE  RunOK'
<1>1. /\ program' = program /\ witness' = witness /\ tx' = tx /\ result' = result
      /\ stack' = stack /\ state' = state /\ yielded' = yielded
  BY DEF ivars, given
<1>2. Elems' = Elems /\ OkStates' = OkStates
  BY <1>1 DEF Elems, OkStates, Evaluated
<1>3. Backed'
  BY <1>1 DEF RunOK, Backed, Proven
<1> QED
  BY <1>1, <1>2, <1>3 DEF RunOK, ArenaOK, NodeOK, IsSeq

LEMMA NextOK ==
    ASSUME IInv, [AnyNext]_rvars
    PROVE  IInv'
<1>1. BuildOK /\ RunOK
  BY DEF IInv
<1>2. ASSUME UNCHANGED cvars PROVE BuildOK'
  BY <1>1, <1>2 DEF cvars, BuildOK, ArenaOK, NodeOK, IsSeq
<1>3. CASE Build
  BY <1>1, <1>3, ConstructOK, StutterOK DEF Build, IInv
<1>4. CASE SpendAny
  <2>1. ArenaOK(ast)
    BY <1>1 DEF BuildOK
  <2>2. ArenaOK(<<>>)
    BY DEF ArenaOK, IsSeq
  <2>3. RunOK'
    <3>1. CASE \E t : \E w : IsSeq(w) /\ iter_custom(ast, "none", t, w)
      <4>1. PICK t : \E w : IsSeq(w) /\ iter_custom(ast, "none", t, w)
        BY <3>1
      <4>2. PICK w : IsSeq(w) /\ iter_custom(ast, "none", t, w)
        BY <4>1
      <4> QED
        BY <2>1, <4>2, IterCustomOK
    <3>2. CASE \E key : \E t : \E w : IsSeq(w) /\ iter_custom(<<>>, key, t, w)
      <4>1. PICK key : \E t : \E w : IsSeq(w) /\ iter_custom(<<>>, key, t, w)
        BY <3>2
      <4>2. PICK t : \E w : IsSeq(w) /\ iter_custom(<<>>, key, t, w)
        BY <4>1
      <4>3. PICK w : IsSeq(w) /\ iter_custom(<<>>, key, t, w)
        BY <4>2
      <4> QED
        BY <2>2, <4>3, IterCustomOK
    <3> QED
      BY <1>4, <3>1, <3>2 DEF SpendAny
  <2> QED
    BY <1>2, <1>4, <2>3 DEF SpendAny, IInv
<1>5. CASE Interpret
  BY <1>1, <1>2, <1>5, IterNextOK DEF Interpret, IInv
<1>6. CASE UNCHANGED rvars
  BY <1>1, <1>2, <1>6, StutterOK DEF rvars, IInv
<1> QED
  BY <1>3, <1>4, <1>5, <1>6 DEF AnyNext

LEMMA IInvMeans == IInv => Resumable /\ Backed
<1> SUFFICES ASSUME IInv PROVE Resumable
  BY DEF IInv, RunOK
<1>1. result # "panic" /\ state \in Seq(OkStates)
  BY DEF IInv, RunOK
<1>2. \A i \in DOMAIN state : state[i] \in OkStates
  <2> HIDE DEF OkStates
  <2> QED
    BY <1>1
<1>3. \A s \in OkStates :
        /\ s.node \in DOMAIN program
        /\ s.n_evaluated \in Evaluated(program[s.node])
        /\ s.n_satisfied \in 0..s.n_evaluated
  BY DEF OkStates
<1> HIDE DEF OkStates
<1> QED
  BY <1>1, <1>2, <1>3 DEF Resumable

(* Whatever the witness and the transaction are, every fragment is resumed  *)
(* with counters that iter_next handles and no debug assertion fails, and   *)
(* every constraint that next() yields is backed by the witness or the      *)
(* transaction, even if an error follows.                                   *)
THEOREM AnySpendSafe == AnySpec => [](Resumable /\ Backed)
<1>1. RedeemInit => IInv
  BY InitOK
<1>2. IInv /\ [AnyNext]_rvars => IInv'
  BY NextOK
<1>3. IInv => Resumable /\ Backed
  BY IInvMeans
<1> QED
  BY <1>1, <1>2, <1>3, PTL DEF AnySpec

LEMMA RedeemIsAny == ASSUME RedeemNext PROVE AnyNext
<1>1. CASE Spend
  <2>1. PICK lock_time \in LockTimes, sequence \in Sequences, template \in Templates :
          \E w : w \in Seq(Pool) /\
            iter_custom(ast, "none",
                [lock_time |-> lock_time, sequence |-> sequence, template |-> template], w)
    BY <1>1, Zenon DEF Spend
  <2>2. PICK w : w \in Seq(Pool) /\
            iter_custom(ast, "none",
                [lock_time |-> lock_time, sequence |-> sequence, template |-> template], w)
    BY <2>1
  <2>3. IsSeq(w)
    BY <2>2, SeqIsSeq
  <2>4. SpendAny
    BY <1>1, <2>2, <2>3, Zenon DEF SpendAny, Spend
  <2> QED
    BY <2>4 DEF AnyNext
<1>2. CASE SpendKey
  <2> DEFINE W == {<<>>, <<PushZero>>, <<PushOne>>} \cup
                  {<<Sig(k)>> : k \in Keys} \cup {<<PushOne, Sig(k)>> : k \in Keys}
  <2>1. PICK key \in Keys, w \in W : iter_custom(<<>>, key, NoTx, w)
    BY <1>2, Zenon DEF SpendKey
  <2>2. IsSeq(w)
    <3>1. IsSeq(<<>>) /\ \A a : IsSeq(<<a>>) /\ \A b : IsSeq(<<a, b>>)
      BY DEF IsSeq
    <3> QED
      BY <3>1, Zenon
  <2>3. SpendAny
    BY <1>2, <2>1, <2>2, Zenon DEF SpendAny, SpendKey
  <2> QED
    BY <2>3 DEF AnyNext
<1> QED
  BY <1>1, <1>2 DEF RedeemNext, AnyNext

(* The counters of iter_next in the system that the runs check.             *)
THEOREM RedeemResumable == RedeemSpec => []Resumable
<1>1. RedeemInit => IInv
  BY InitOK
<1>2. IInv /\ [RedeemNext]_rvars => IInv'
  BY NextOK, RedeemIsAny
<1>3. IInv => Resumable
  BY IInvMeans
<1> QED
  BY <1>1, <1>2, <1>3, PTL DEF RedeemSpec

(* The constraints of next() in the system that the runs check.             *)
THEOREM RedeemBacked == RedeemSpec => []Backed
<1>1. RedeemInit => IInv
  BY InitOK
<1>2. IInv /\ [RedeemNext]_rvars => IInv'
  BY NextOK, RedeemIsAny
<1>3. IInv => Backed
  BY IInvMeans
<1> QED
  BY <1>1, <1>2, <1>3, PTL DEF RedeemSpec

-----------------------------------------------------------------------------
(* The policy of an expression, as a function of the constraints that hold. *)

\* What lift gives for the children of t.
LiftedSubs(ns, t, Y) == [j \in DOMAIN t.subs |-> lift(ns, t.subs[j], Y)]

(* lift is determined by lift_node at every node of an arena.               *)
LEMMA LiftIs ==
    ASSUME NEW ns, ArenaOK(ns), NEW Y, NEW r \in 1..Len(ns)
    PROVE  lift(ns, r, Y) = lift_node(ns[r], LiftedSubs(ns, ns[r], Y), Y)
<1> DEFINE n == Len(ns)
           Node_(f, i) == lift_node(ns[i], [j \in DOMAIN ns[i].subs |-> f[ns[i].subs[j]]], Y)
           Is(f) == f = [i \in DOMAIN ns |-> Node_(f, i)]
           g == CHOOSE f : Is(f)
           Up(m) == \E f : \A i \in 1..m : f[i] = Node_(f, i)
           S == {m \in Nat : m <= n => Up(m)}
<1>1. n \in Nat /\ DOMAIN ns = 1..n
  BY ArenaDomain
<1>2. \A i \in 1..n : \A j \in DOMAIN ns[i].subs : ns[i].subs[j] \in 1..(i - 1)
  BY DEF ArenaOK, NodeOK
<1>3. 0 \in S
  OBVIOUS
<1>4. ASSUME NEW m \in Nat, m \in S PROVE m + 1 \in S
  <2> SUFFICES ASSUME m + 1 <= n PROVE Up(m + 1)
    <3> HIDE DEF Up, n
    <3> QED
      BY <1>4
  <2>1. Up(m)
    <3> HIDE DEF Up
    <3> QED
      BY <1>1, <1>4
  <2>2. PICK f : \A i \in 1..m : f[i] = Node_(f, i)
    BY <2>1
  <2> DEFINE h == [i \in 1..(m + 1) |-> IF i = m + 1 THEN Node_(f, m + 1) ELSE f[i]]
  <2>3. \A i \in 1..m : h[i] = f[i]
    <3> HIDE DEF Node_
    <3> QED
      OBVIOUS
  <2>4. h[m + 1] = Node_(f, m + 1)
    <3> HIDE DEF Node_
    <3> QED
      OBVIOUS
  <2>5. ASSUME NEW i \in 1..(m + 1) PROVE Node_(h, i) = Node_(f, i)
    <3>1. i \in 1..n /\ \A x \in 1..(i - 1) : x \in 1..m
      BY <1>1
    <3>2. \A j \in DOMAIN ns[i].subs : ns[i].subs[j] \in 1..m
      BY <1>2, <3>1
    <3> HIDE DEF h
    <3>3. \A j \in DOMAIN ns[i].subs : h[ns[i].subs[j]] = f[ns[i].subs[j]]
      BY <2>3, <3>2
    <3>4. [j \in DOMAIN ns[i].subs |-> h[ns[i].subs[j]]] = [j \in DOMAIN ns[i].subs |-> f[ns[i].subs[j]]]
      BY <3>3
    <3> QED
      BY <3>4
  <2>6. ASSUME NEW i \in 1..(m + 1) PROVE h[i] = Node_(h, i)
    <3> HIDE DEF h, Node_
    <3>1. i \in 1..m \/ i = m + 1
      OBVIOUS
    <3> QED
      BY <3>1, <2>2, <2>3, <2>4, <2>5
  <2> HIDE DEF h, Node_
  <2> QED
    BY <2>6
<1>5. n \in S
  <2> HIDE DEF S
  <2>1. \A m \in Nat : m \in S => m + 1 \in S
    BY <1>4
  <2> QED
    BY <1>1, <1>3, <2>1, SetInduction
<1>6. PICK f : \A i \in 1..n : f[i] = Node_(f, i)
  <2>1. Up(n)
    <3> HIDE DEF Up
    <3> QED
      BY <1>1, <1>5
  <2> QED
    BY <2>1
<1>7. \E h : Is(h)
  <2> DEFINE h == [i \in 1..n |-> f[i]]
  <2>1. ASSUME NEW i \in 1..n PROVE Node_(h, i) = Node_(f, i)
    <3>1. \A x \in 1..(i - 1) : x \in 1..n
      BY <1>1
    <3>2. \A j \in DOMAIN ns[i].subs : h[ns[i].subs[j]] = f[ns[i].subs[j]]
      BY <1>2, <3>1
    <3> HIDE DEF h
    <3>3. [j \in DOMAIN ns[i].subs |-> h[ns[i].subs[j]]] = [j \in DOMAIN ns[i].subs |-> f[ns[i].subs[j]]]
      BY <3>2
    <3> QED
      BY <3>3
  <2>2. h = [i \in 1..n |-> Node_(h, i)]
    <3>1. h = [i \in 1..n |-> f[i]]
      OBVIOUS
    <3> HIDE DEF h, Node_
    <3> QED
      BY <3>1, <2>1, <1>6
  <2>3. Is(h)
    <3> HIDE DEF h, Node_
    <3> QED
      BY <2>2, <1>1
  <2> QED
    BY <2>3
<1>8. Is(g)
  <2> HIDE DEF Is
  <2> QED
    BY <1>7
<1>9. \A i \in 1..n : g[i] = Node_(g, i)
  <2> HIDE DEF g, Node_
  <2> QED
    BY <1>1, <1>8
<1>10. \A i : lift(ns, i, Y) = g[i]
  BY DEF lift
<1>11. LiftedSubs(ns, ns[r], Y) = [j \in DOMAIN ns[r].subs |-> g[ns[r].subs[j]]]
  <2> HIDE DEF g
  <2> QED
    BY <1>10 DEF LiftedSubs
<1>12. lift(ns, r, Y) = Node_(g, r)
  <2> HIDE DEF g, Node_
  <2> QED
    BY <1>9, <1>10
<1> QED
  BY <1>11, <1>12

-----------------------------------------------------------------------------
(* What holds for good: the constraints yielded so far are a set y, and     *)
(* every set Y that is yielded in the end includes it.                      *)

Met(ns, y, i) == \A Y : y \subseteq Y => lift(ns, i, Y)
Ent(ns, y, a, b) == \A Y : y \subseteq Y /\ lift(ns, a, Y) => lift(ns, b, Y)
Ent2(ns, y, a, b, c) ==
    \A Y : y \subseteq Y /\ lift(ns, a, Y) /\ lift(ns, b, Y) => lift(ns, c, Y)

\* The node i of ns and its children, as the lemmas below name them.
At_(ns, i, t) == ArenaOK(ns) /\ i \in 1..Len(ns) /\ t = ns[i]

LEMMA Later ==
    ASSUME NEW ns, NEW y, NEW z, y \subseteq z
    PROVE  /\ \A i : Met(ns, y, i) => Met(ns, z, i)
           /\ \A a, b : Ent(ns, y, a, b) => Ent(ns, z, a, b)
           /\ \A a, b, c : Ent2(ns, y, a, b, c) => Ent2(ns, z, a, b, c)
  BY Zenon DEF Met, Ent, Ent2

LEMMA Entailed ==
    ASSUME NEW ns, NEW y
    PROVE  /\ \A a : Ent(ns, y, a, a)
           /\ \A a, b : Met(ns, y, a) /\ Ent(ns, y, a, b) => Met(ns, y, b)
           /\ \A a, b, c : Ent(ns, y, a, b) /\ Ent(ns, y, b, c) => Ent(ns, y, a, c)
           /\ \A a, b, c : Met(ns, y, a) /\ Ent2(ns, y, a, b, c) => Ent(ns, y, b, c)
           /\ \A a, b, c, d : Ent2(ns, y, a, b, c) /\ Ent(ns, y, c, d) => Ent2(ns, y, a, b, d)
  BY Zenon DEF Met, Ent, Ent2

(* The children of each kind of fragment. *)
LEMMA Subs ==
    ASSUME NEW ns, NEW i, NEW t, At_(ns, i, t)
    PROVE  /\ Len(t.subs) \in Nat /\ DOMAIN t.subs = 1..Len(t.subs)
           /\ \A j \in 1..Len(t.subs) : t.subs[j] \in 1..Len(ns)
           /\ t.frag \in WrapFrags \cup InscribeFrags => 1 \in DOMAIN t.subs
           /\ t.frag \in BinaryFrags => 1 \in DOMAIN t.subs /\ 2 \in DOMAIN t.subs
           /\ t.frag = "AndOr" => {1, 2, 3} \subseteq DOMAIN t.subs
<1>1. NodeOK(i, t) /\ i \in 1..Len(ns) /\ Len(ns) \in Nat
  BY ArenaDomain DEF At_, ArenaOK
<1>2. \A x \in 1..(i - 1) : x \in 1..Len(ns)
  BY <1>1
<1> DEFINE n == Len(t.subs)
<1>3. /\ n \in Nat /\ DOMAIN t.subs = 1..n
      /\ \A j \in 1..n : t.subs[j] \in 1..(i - 1)
      /\ t.frag \in WrapFrags \cup InscribeFrags => n = 1
      /\ t.frag \in BinaryFrags => n = 2
      /\ t.frag = "AndOr" => n = 3
  BY <1>1, Zenon DEF NodeOK
<1>4. \A j \in 1..n : t.subs[j] \in 1..Len(ns)
  BY <1>2, <1>3
<1> DEFINE d == DOMAIN t.subs
<1>5. /\ n = 1 => 1 \in d
      /\ n = 2 => 1 \in d /\ 2 \in d
      /\ n = 3 => {1, 2, 3} \subseteq d
  <2>1. d = 1..n
    BY <1>3
  <2> HIDE DEF n, d
  <2> QED
    BY <2>1
<1> HIDE DEF n
<1> QED
  BY <1>3, <1>4, <1>5, Zenon DEF n

LEMMA Lifted ==
    ASSUME NEW ns, NEW i, NEW t, At_(ns, i, t), NEW Y
    PROVE  /\ lift(ns, i, Y) = lift_node(t, LiftedSubs(ns, t, Y), Y)
           /\ \A j \in DOMAIN t.subs : LiftedSubs(ns, t, Y)[j] = lift(ns, t.subs[j], Y)
  BY LiftIs DEF At_, LiftedSubs

LEMMA LiftWrap ==
    ASSUME NEW ns, NEW i, NEW t, At_(ns, i, t), t.frag \in WrapFrags \cup InscribeFrags, NEW y
    PROVE  Ent(ns, y, t.subs[1], i)
<1> SUFFICES ASSUME NEW Y PROVE lift(ns, i, Y) = lift(ns, t.subs[1], Y)
  BY Zenon DEF Ent
<1>1. lift_node(t, LiftedSubs(ns, t, Y), Y) = LiftedSubs(ns, t, Y)[1]
  BY DEF lift_node, WrapFrags, InscribeFrags, HashFrags
<1> QED
  BY <1>1, Lifted, Subs

LEMMA LiftAnd ==
    ASSUME NEW ns, NEW i, NEW t, At_(ns, i, t), t.frag \in {"AndV", "AndB"}, NEW y
    PROVE  Ent2(ns, y, t.subs[1], t.subs[2], i)
<1> SUFFICES ASSUME NEW Y PROVE lift(ns, t.subs[1], Y) /\ lift(ns, t.subs[2], Y) => lift(ns, i, Y)
  BY Zenon DEF Ent2
<1> DEFINE sub == LiftedSubs(ns, t, Y)
<1>1. lift_node(t, sub, Y) = (sub[1] /\ sub[2])
  BY DEF lift_node, WrapFrags, InscribeFrags, HashFrags
<1>2. 1 \in DOMAIN t.subs /\ 2 \in DOMAIN t.subs
  BY Subs DEF BinaryFrags
<1>3. /\ lift(ns, i, Y) = lift_node(t, sub, Y)
      /\ sub[1] = lift(ns, t.subs[1], Y) /\ sub[2] = lift(ns, t.subs[2], Y)
  BY <1>2, Lifted
<1> HIDE DEF sub
<1> QED
  BY <1>1, <1>3, Zenon

LEMMA LiftOr ==
    ASSUME NEW ns, NEW i, NEW t, At_(ns, i, t), t.frag \in {"OrB", "OrC", "OrD", "OrI"}, NEW y
    PROVE  Ent(ns, y, t.subs[1], i) /\ Ent(ns, y, t.subs[2], i)
<1> SUFFICES ASSUME NEW Y, lift(ns, t.subs[1], Y) \/ lift(ns, t.subs[2], Y)
             PROVE  lift(ns, i, Y)
  BY Zenon DEF Ent
<1> DEFINE sub == LiftedSubs(ns, t, Y)
<1>1. lift_node(t, sub, Y) = (sub[1] \/ sub[2])
  BY DEF lift_node, WrapFrags, InscribeFrags, HashFrags
<1>2. 1 \in DOMAIN t.subs /\ 2 \in DOMAIN t.subs
  BY Subs DEF BinaryFrags
<1>3. /\ lift(ns, i, Y) = lift_node(t, sub, Y)
      /\ sub[1] = lift(ns, t.subs[1], Y) /\ sub[2] = lift(ns, t.subs[2], Y)
  BY <1>2, Lifted
<1> HIDE DEF sub
<1> QED
  BY <1>1, <1>3, Zenon

LEMMA LiftAndOr ==
    ASSUME NEW ns, NEW i, NEW t, At_(ns, i, t), t.frag = "AndOr", NEW y
    PROVE  Ent2(ns, y, t.subs[1], t.subs[2], i) /\ Ent(ns, y, t.subs[3], i)
<1> SUFFICES ASSUME NEW Y,
                    (lift(ns, t.subs[1], Y) /\ lift(ns, t.subs[2], Y)) \/ lift(ns, t.subs[3], Y)
             PROVE  lift(ns, i, Y)
  BY Zenon DEF Ent, Ent2
<1> DEFINE sub == LiftedSubs(ns, t, Y)
<1>1. lift_node(t, sub, Y) = ((sub[1] /\ sub[2]) \/ sub[3])
  BY DEF lift_node, WrapFrags, InscribeFrags, HashFrags
<1>2. 1 \in DOMAIN t.subs /\ 2 \in DOMAIN t.subs /\ 3 \in DOMAIN t.subs
  BY Subs
<1>3. /\ lift(ns, i, Y) = lift_node(t, sub, Y)
      /\ sub[1] = lift(ns, t.subs[1], Y) /\ sub[2] = lift(ns, t.subs[2], Y)
      /\ sub[3] = lift(ns, t.subs[3], Y)
  BY <1>2, Lifted
<1> HIDE DEF sub
<1> QED
  BY <1>1, <1>3, Zenon

LEMMA LeafPolicy ==
    ASSUME NEW t, NEW sub, NEW Y
    PROVE  LET x == lift_node(t, sub, Y)
           IN  /\ t.frag = "True" => x
               /\ t.frag \in {"PkK", "PkH"} =>
                    x = Holds(Y, {"PublicKey", "PublicKeyHash"}, t.args[1])
               /\ t.frag = "After" => x = Holds(Y, {"AbsoluteTimelock"}, t.k)
               /\ t.frag = "Older" => x = Holds(Y, {"RelativeTimelock"}, t.k)
               /\ t.frag \in HashFrags => x = Holds(Y, {"HashLock"}, t.args[1])
               /\ t.frag = "TxTemplate" => x = Holds(Y, {"TxTemplate"}, t.args[1])
<1> USE DEF lift_node, HashFrags, WrapFrags, InscribeFrags
<1>1. t.frag = "True" => lift_node(t, sub, Y)
  OBVIOUS
<1>2. t.frag \in {"PkK", "PkH"} =>
        lift_node(t, sub, Y) = Holds(Y, {"PublicKey", "PublicKeyHash"}, t.args[1])
  OBVIOUS
<1>3. t.frag = "After" => lift_node(t, sub, Y) = Holds(Y, {"AbsoluteTimelock"}, t.k)
  OBVIOUS
<1>4. t.frag = "Older" => lift_node(t, sub, Y) = Holds(Y, {"RelativeTimelock"}, t.k)
  OBVIOUS
<1>5. t.frag \in HashFrags => lift_node(t, sub, Y) = Holds(Y, {"HashLock"}, t.args[1])
  OBVIOUS
<1>6. t.frag = "TxTemplate" => lift_node(t, sub, Y) = Holds(Y, {"TxTemplate"}, t.args[1])
  OBVIOUS
<1> HIDE DEF lift_node, HashFrags, WrapFrags, InscribeFrags
<1> QED
  BY <1>1, <1>2, <1>3, <1>4, <1>5, <1>6, Zenon

(* A leaf whose constraint was yielded. *)
LEMMA LiftLeaf ==
    ASSUME NEW ns, NEW i, NEW t, At_(ns, i, t), NEW y,
           \/ t.frag = "True"
           \/ t.frag = "PkK" /\ <<"PublicKey", t.args[1]>> \in y
           \/ t.frag = "PkH" /\ <<"PublicKeyHash", t.args[1]>> \in y
           \/ t.frag = "After" /\ <<"AbsoluteTimelock", t.k>> \in y
           \/ t.frag = "Older" /\ <<"RelativeTimelock", t.k>> \in y
           \/ t.frag \in HashFrags /\ <<"HashLock", t.args[1]>> \in y
           \/ t.frag = "TxTemplate" /\ <<"TxTemplate", t.args[1]>> \in y
    PROVE  Met(ns, y, i)
<1> SUFFICES ASSUME NEW Y, y \subseteq Y
             PROVE  lift_node(t, LiftedSubs(ns, t, Y), Y)
  BY Lifted DEF Met
<1> DEFINE x == lift_node(t, LiftedSubs(ns, t, Y), Y)
<1>1. /\ t.frag = "True" => x
      /\ t.frag \in {"PkK", "PkH"} => x = Holds(Y, {"PublicKey", "PublicKeyHash"}, t.args[1])
      /\ t.frag = "After" => x = Holds(Y, {"AbsoluteTimelock"}, t.k)
      /\ t.frag = "Older" => x = Holds(Y, {"RelativeTimelock"}, t.k)
      /\ t.frag \in HashFrags => x = Holds(Y, {"HashLock"}, t.args[1])
      /\ t.frag = "TxTemplate" => x = Holds(Y, {"TxTemplate"}, t.args[1])
  BY LeafPolicy
<1>2. \A c, ns_ : c \in ns_ => \A z : <<c, z>> \in Y => Holds(Y, ns_, z)
  BY Zenon DEF Holds
<1> HIDE DEF x
<1> QED
  BY <1>1, <1>2 DEF x

(* A part of a finite interval counts no more than what includes it. *)
LEMMA Counted ==
    ASSUME NEW n \in Nat, NEW T \in SUBSET (1..n), NEW S \in SUBSET T
    PROVE  /\ Cardinality(S) \in Nat /\ Cardinality(T) \in Nat
           /\ Cardinality(S) <= Cardinality(T)
<1>1. IsFiniteSet(1..n)
  BY FS_Interval
<1>2. IsFiniteSet(T)
  BY <1>1, FS_Subset
<1>3. IsFiniteSet(S) /\ Cardinality(S) <= Cardinality(T)
  BY <1>2, FS_Subset
<1> QED
  BY <1>2, <1>3, FS_CardinalityType

LEMMA LiftThresh ==
    ASSUME NEW ns, NEW i, NEW t, At_(ns, i, t), t.frag = "Thresh", NEW y,
           NEW S \in SUBSET (1..Len(t.subs)), \A j \in S : Met(ns, y, t.subs[j]),
           Cardinality(S) = t.k
    PROVE  Met(ns, y, i)
<1> SUFFICES ASSUME NEW Y, y \subseteq Y
             PROVE  lift_node(t, LiftedSubs(ns, t, Y), Y)
  BY Lifted DEF Met
<1> DEFINE sub == LiftedSubs(ns, t, Y)
           T == {j \in DOMAIN sub : sub[j]}
<1>1. Len(t.subs) \in Nat /\ DOMAIN t.subs = 1..Len(t.subs)
  BY Subs
<1>2. DOMAIN sub = 1..Len(t.subs)
  BY <1>1 DEF LiftedSubs
<1>3. \A j \in S : sub[j]
  BY <1>1, Lifted DEF Met
<1>4. S \subseteq T /\ T \subseteq 1..Len(t.subs)
  BY <1>2, <1>3
<1>5. lift_node(t, sub, Y) = (Cardinality(T) >= t.k)
  BY DEF lift_node, WrapFrags, InscribeFrags, HashFrags
<1> HIDE DEF T, sub
<1>6. Cardinality(S) \in Nat /\ Cardinality(T) \in Nat /\ Cardinality(S) <= Cardinality(T)
  BY <1>1, <1>4, Counted
<1> QED
  BY <1>5, <1>6 DEF sub

LEMMA LiftMulti ==
    ASSUME NEW ns, NEW i, NEW t, At_(ns, i, t), t.frag \in {"Multi", "MultiA"}, NEW y,
           NEW S \in SUBSET (1..Len(t.args)), \A j \in S : <<"PublicKey", t.args[j]>> \in y,
           Cardinality(S) = t.k
    PROVE  Met(ns, y, i)
<1> SUFFICES ASSUME NEW Y, y \subseteq Y
             PROVE  lift_node(t, LiftedSubs(ns, t, Y), Y)
  BY Lifted DEF Met
<1> DEFINE T == {j \in DOMAIN t.args : Holds(Y, {"PublicKey"}, t.args[j])}
<1>1. Len(t.args) \in Nat /\ DOMAIN t.args = 1..Len(t.args)
  BY DEF At_, ArenaOK, NodeOK
<1>2. \A j \in S : Holds(Y, {"PublicKey"}, t.args[j])
  BY DEF Holds
<1>3. S \subseteq T /\ T \subseteq 1..Len(t.args)
  BY <1>1, <1>2
<1>4. lift_node(t, LiftedSubs(ns, t, Y), Y) = (Cardinality(T) >= t.k)
  BY DEF lift_node, WrapFrags, InscribeFrags, HashFrags
<1> HIDE DEF T
<1>5. Cardinality(S) \in Nat /\ Cardinality(T) \in Nat /\ Cardinality(S) <= Cardinality(T)
  BY <1>1, <1>3, Counted
<1> QED
  BY <1>4, <1>5

-----------------------------------------------------------------------------
(* What the evaluation still has to show.  Each entry of the stack of       *)
(* fragments has a goal: the child of the fragment below that it stands     *)
(* for, or what it has become since.                                        *)

\* The expression leaves no result on the stack.
IsV(ns, i) == ns[i].ty.corr.base = "V"

\* The fragment of s waits for the result of its child.
Waits(ns, s) == s.n_evaluated # 0 /\ ns[s.node].frag \notin {"Multi", "MultiA"}
Child(ns, s) == ns[s.node].subs[s.n_evaluated]

\* The keys that a multisignature has tried.
Tried(t, n) == IF t.frag = "MultiA" THEN 1..n ELSE (Len(t.args) + 1 - n)..Len(t.args)

\* What is counted or remembered as satisfied holds.
Progress(ns, y, s) ==
    LET t == ns[s.node] IN
    /\ t.frag \in {"AndB", "OrB"} /\ s.n_evaluated = 2 /\ s.n_satisfied = 1
        => Met(ns, y, t.subs[1])
    /\ t.frag = "Thresh" /\ s.n_evaluated # 0 =>
        \E S \in SUBSET (1..(s.n_evaluated - 1)) :
            Cardinality(S) = s.n_satisfied /\ \A j \in S : Met(ns, y, t.subs[j])
    /\ t.frag \in {"Multi", "MultiA"} =>
        \E S \in SUBSET Tried(t, s.n_evaluated) :
            /\ Cardinality(S) = s.n_satisfied
            /\ \A j \in S : <<"PublicKey", t.args[j]>> \in y

\* The entry s has the goal n; above it, if s is not the last, is one with the goal up.
Serves(ns, y, s, n) ==
    /\ n \in 1..Len(ns)
    /\ IsV(ns, n) <=> IsV(ns, s.node)
    /\ Progress(ns, y, s)
    /\ Waits(ns, s) => Ent(ns, y, s.node, n)
Serves_last(ns, y, s, n) == Serves(ns, y, s, n) /\ Ent(ns, y, s.node, n)
Serves_below(ns, y, s, n, up) ==
    /\ Serves(ns, y, s, n)
    /\ Waits(ns, s) => up = Child(ns, s)
    /\ ~Waits(ns, s) => IsV(ns, up) /\ Ent2(ns, y, up, s.node, n)

GoalsOK(ns, y, st, g) ==
    /\ DOMAIN g = 1..Len(st)
    /\ st # <<>> => g[1] = Len(ns) /\ Serves_last(ns, y, st[Len(st)], g[Len(st)])
    /\ \A i \in 1..(Len(st) - 1) : Serves_below(ns, y, st[i], g[i], g[i + 1])

\* The evaluation of n is over: a result on the top of the stack is Satisfied
\* only if n holds, and without a result n holds.
ResultOK(ns, y, elems, n) ==
    IF IsV(ns, n) THEN Met(ns, y, n)
    ELSE /\ elems # <<>> /\ elems[Len(elems)] \in {Satisfied_, Dissatisfied}
         /\ elems[Len(elems)] = Satisfied_ => Met(ns, y, n)

TopOK(ns, y, st, elems) ==
    /\ st = <<>> => ResultOK(ns, y, elems, Len(ns))
    /\ st # <<>> /\ Waits(ns, st[Len(st)]) => ResultOK(ns, y, elems, Child(ns, st[Len(st)]))

OnCourse(ns, y, st, elems) ==
    (\E g : GoalsOK(ns, y, st, g)) /\ TopOK(ns, y, st, elems)

LEMMA LaterProgress ==
    ASSUME NEW ns, NEW y, NEW z, y \subseteq z, NEW s, Progress(ns, y, s)
    PROVE  Progress(ns, z, s)
<1>1. \A i : Met(ns, y, i) => Met(ns, z, i)
  BY Later
<1> QED
  BY <1>1, Zenon DEF Progress

LEMMA LaterServes ==
    ASSUME NEW ns, NEW y, NEW z, y \subseteq z, NEW s, NEW n
    PROVE  /\ Serves(ns, y, s, n) => Serves(ns, z, s, n)
           /\ Serves_last(ns, y, s, n) => Serves_last(ns, z, s, n)
           /\ \A up : Serves_below(ns, y, s, n, up) => Serves_below(ns, z, s, n, up)
<1>1. /\ \A a, b : Ent(ns, y, a, b) => Ent(ns, z, a, b)
      /\ \A a, b, c : Ent2(ns, y, a, b, c) => Ent2(ns, z, a, b, c)
      /\ Progress(ns, y, s) => Progress(ns, z, s)
  BY Later, LaterProgress
<1> QED
  BY <1>1, Zenon DEF Serves, Serves_last, Serves_below

(* Sequences that share all but their last elements. *)
LEMMA Replaced ==
    ASSUME NEW E, NEW st \in Seq(E), st # <<>>
    PROVE  LET m == Len(st)
               rest == SubSeq(st, 1, m - 1)
           IN  /\ m \in Nat \ {0} /\ rest \in Seq(E) /\ Len(rest) = m - 1
               /\ \A i \in 1..(m - 1) : rest[i] = st[i]
               /\ rest \o <<>> = rest
               /\ \A a : LET s == rest \o <<a>>
                         IN  /\ Len(s) = m /\ s # <<>> /\ s[m] = a
                             /\ \A i \in 1..(m - 1) : s[i] = st[i]
<1> DEFINE m == Len(st)
           rest == SubSeq(st, 1, m - 1)
<1>1. m \in Nat \ {0}
  OBVIOUS
<1>2. rest \in Seq(E) /\ Len(rest) = m - 1 /\ \A i \in 1..(m - 1) : rest[i] = st[i]
  <2>1. rest \in Seq(E)
    BY <1>1
  <2>2. rest = [i \in 1..(m - 1) |-> st[i]]
    BY <1>1
  <2> HIDE DEF rest, m
  <2>3. Len(rest) = m - 1 /\ \A i \in 1..(m - 1) : rest[i] = st[i]
    BY <1>1, <2>2
  <2> QED
    BY <2>1, <2>3
<1> HIDE DEF rest, m
<1>3. rest \o <<>> = rest
  BY <1>2
<1>4. ASSUME NEW a
      PROVE  LET s == rest \o <<a>>
             IN  /\ Len(s) = m /\ s # <<>> /\ s[m] = a
                 /\ \A i \in 1..(m - 1) : s[i] = st[i]
  <2> DEFINE s == rest \o <<a>>
  <2>1. /\ Len(s) = Len(rest) + 1 /\ s[Len(rest) + 1] = a
        /\ \A i \in 1..Len(rest) : s[i] = rest[i]
    BY <1>2
  <2>2. Len(s) # 0 => s # <<>>
    OBVIOUS
  <2> HIDE DEF s
  <2>3. Len(s) = m /\ s[m] = a /\ Len(s) # 0 /\ \A i \in 1..(m - 1) : s[i] = st[i]
    BY <1>1, <1>2, <2>1
  <2> QED
    BY <2>2, <2>3 DEF s
<1> QED
  BY <1>1, <1>2, <1>3, <1>4 DEF m, rest

WithTwo(st, a, b) == SubSeq(st, 1, Len(st) - 1) \o <<a, b>>

LEMMA ReplacedByTwo ==
    ASSUME NEW E, NEW st \in Seq(E), st # <<>>, NEW a, NEW b
    PROVE  LET m == Len(st)
               s == WithTwo(st, a, b)
           IN  /\ m \in Nat \ {0}
               /\ Len(s) = m + 1 /\ s # <<>> /\ s[m] = a /\ s[m + 1] = b
               /\ \A i \in 1..(m - 1) : s[i] = st[i]
<1> DEFINE m == Len(st)
           rest == SubSeq(st, 1, m - 1)
           s == rest \o <<a, b>>
<1>1. /\ m \in Nat \ {0} /\ rest \in Seq(E) /\ Len(rest) = m - 1
      /\ \A i \in 1..(m - 1) : rest[i] = st[i]
  BY Replaced
<1> HIDE DEF rest, m
<1>2. /\ Len(s) = Len(rest) + 2 /\ s[Len(rest) + 1] = a /\ s[Len(rest) + 2] = b
      /\ \A i \in 1..Len(rest) : s[i] = rest[i]
  <2> DEFINE F == E \cup {a, b}
  <2>1. rest \in Seq(F) /\ a \in F /\ b \in F
    BY <1>1
  <2> HIDE DEF F
  <2>2. <<a, b>> \in Seq(F) /\ Len(<<a, b>>) = 2
    BY <2>1
  <2> QED
    BY <1>1, <2>1, <2>2, SMTT(30)
<1>3. Len(s) # 0 => s # <<>>
  OBVIOUS
<1> HIDE DEF s
<1>4. /\ Len(s) = m + 1 /\ s[m] = a /\ s[m + 1] = b /\ Len(s) # 0
      /\ \A i \in 1..(m - 1) : s[i] = st[i]
  BY <1>1, <1>2
<1> QED
  BY <1>1, <1>3, <1>4 DEF s, rest, m, WithTwo

(* The fragment in hand is done: its goal is the child that the one below   *)
(* waits for, the first part of a conjunction, or the expression.           *)
LEMMA Finishes ==
    ASSUME NEW ns, NEW y, NEW z, y \subseteq z, NEW E, NEW st \in Seq(E), st # <<>>,
           NEW g, GoalsOK(ns, y, st, g),
           NEW elems, ResultOK(ns, z, elems, st[Len(st)].node)
    PROVE  OnCourse(ns, z, SubSeq(st, 1, Len(st) - 1) \o <<>>, elems)
<1> DEFINE m == Len(st)
           rest == SubSeq(st, 1, m - 1)
<1>1. /\ m \in Nat \ {0} /\ rest \in Seq(E) /\ Len(rest) = m - 1
      /\ \A i \in 1..(m - 1) : rest[i] = st[i]
      /\ rest \o <<>> = rest
  BY Replaced
<1>2. ResultOK(ns, z, elems, g[m])
  <2>1. Serves_last(ns, z, st[m], g[m])
    BY LaterServes DEF GoalsOK
  <2>2. (IsV(ns, g[m]) <=> IsV(ns, st[m].node)) /\ Ent(ns, z, st[m].node, g[m])
    BY <2>1 DEF Serves_last, Serves
  <2>3. Met(ns, z, st[m].node) => Met(ns, z, g[m])
    BY <2>2, Entailed
  <2> QED
    BY <2>2, <2>3, Zenon DEF ResultOK
<1>3. CASE m = 1
  <2>1. rest = <<>> /\ g[m] = Len(ns)
    BY <1>1, <1>3 DEF GoalsOK
  <2>2. GoalsOK(ns, z, <<>>, <<>>)
    BY DEF GoalsOK
  <2>3. TopOK(ns, z, <<>>, elems)
    BY <1>2, <2>1, Zenon DEF TopOK
  <2> QED
    BY <1>1, <2>1, <2>2, <2>3 DEF OnCourse
<1>4. CASE m # 1
  <2> DEFINE h == [i \in 1..(m - 1) |-> g[i]]
  <2>1. m - 1 \in 1..(m - 1) /\ (m - 1) + 1 = m /\ 1 \in 1..(m - 1)
    BY <1>1, <1>4
  <2>2. rest # <<>> /\ rest[m - 1] = st[m - 1]
    <3> HIDE DEF rest, m
    <3>1. Len(rest) # 0 /\ rest[m - 1] = st[m - 1]
      BY <1>1, <1>4, <2>1
    <3> QED
      BY <3>1
  <2>3. Serves_below(ns, z, st[m - 1], g[m - 1], g[m])
    BY <2>1, LaterServes DEF GoalsOK
  <2>4. Waits(ns, st[m - 1]) => ResultOK(ns, z, elems, Child(ns, st[m - 1]))
    BY <1>2, <2>3 DEF Serves_below
  <2>5. Serves_last(ns, z, st[m - 1], g[m - 1])
    <3>1. CASE Waits(ns, st[m - 1])
      BY <2>3, <3>1 DEF Serves_below, Serves_last, Serves
    <3>2. CASE ~Waits(ns, st[m - 1])
      <4>1. Met(ns, z, g[m])
        BY <1>2, <2>3, <3>2 DEF Serves_below, ResultOK
      <4>2. Ent(ns, z, st[m - 1].node, g[m - 1])
        BY <4>1, <2>3, <3>2, Entailed DEF Serves_below
      <4> QED
        BY <4>2, <2>3 DEF Serves_below, Serves_last
    <3> QED
      BY <3>1, <3>2
  <2>6. ASSUME NEW i \in 1..((m - 1) - 1)
        PROVE  Serves_below(ns, z, rest[i], h[i], h[i + 1])
    <3>1. i \in 1..(m - 1) /\ i + 1 \in 1..(m - 1)
      BY <1>1
    <3>2. Serves_below(ns, z, st[i], g[i], g[i + 1])
      BY <3>1, LaterServes DEF GoalsOK
    <3> QED
      BY <1>1, <3>1, <3>2
  <2>7. g[1] = Len(ns)
    BY DEF GoalsOK
  <2>8. DOMAIN h = 1..(m - 1) /\ h[1] = g[1] /\ h[m - 1] = g[m - 1]
    BY <2>1
  <2> HIDE DEF h, rest, m
  <2>9. GoalsOK(ns, z, rest, h)
    BY <1>1, <2>2, <2>5, <2>6, <2>7, <2>8 DEF GoalsOK
  <2>10. TopOK(ns, z, rest, elems)
    BY <1>1, <2>2, <2>4 DEF TopOK
  <2> QED
    BY <1>1, <2>9, <2>10, Zenon DEF OnCourse, m, rest
<1> QED
  BY <1>3, <1>4

(* The fragment in hand becomes another one, which does not wait. *)
LEMMA Becomes ==
    ASSUME NEW ns, NEW y, NEW z, y \subseteq z, NEW E, NEW st \in Seq(E), st # <<>>,
           NEW g, GoalsOK(ns, y, st, g),
           NEW e, ~Waits(ns, e), Progress(ns, z, e), IsV(ns, e.node) <=> IsV(ns, st[Len(st)].node),
           Ent(ns, z, e.node, st[Len(st)].node), NEW elems
    PROVE  OnCourse(ns, z, SubSeq(st, 1, Len(st) - 1) \o <<e>>, elems)
<1> DEFINE m == Len(st)
           s == SubSeq(st, 1, m - 1) \o <<e>>
<1>1. /\ m \in Nat \ {0}
      /\ Len(s) = m /\ s # <<>> /\ s[m] = e
      /\ \A i \in 1..(m - 1) : s[i] = st[i]
  BY Replaced
<1>2. Serves_last(ns, z, e, g[m])
  <2>1. Serves_last(ns, z, st[m], g[m])
    BY LaterServes DEF GoalsOK
  <2>2. Ent(ns, z, e.node, g[m])
    BY <2>1, Entailed DEF Serves_last
  <2> QED
    BY <2>1, <2>2 DEF Serves_last, Serves
<1>3. \A i \in 1..(m - 1) : Serves_below(ns, z, s[i], g[i], g[i + 1])
  BY <1>1, LaterServes DEF GoalsOK
<1>4. DOMAIN g = 1..m /\ g[1] = Len(ns)
  BY DEF GoalsOK
<1> HIDE DEF s, m
<1>5. GoalsOK(ns, z, s, g)
  BY <1>1, <1>2, <1>3, <1>4 DEF GoalsOK
<1>6. TopOK(ns, z, s, elems)
  BY <1>1 DEF TopOK
<1> QED
  BY <1>5, <1>6, Zenon DEF OnCourse, s, m

(* The fragment in hand becomes a, and b is evaluated first: the child that *)
(* a waits for, or the first part of a conjunction.                         *)
LEMMA Calls ==
    ASSUME NEW ns, NEW y, NEW z, y \subseteq z, NEW E, NEW st \in Seq(E), st # <<>>,
           NEW g, GoalsOK(ns, y, st, g), NEW a, NEW b, NEW elems,
           ~Waits(ns, b), Progress(ns, z, b), b.node \in 1..Len(ns),
           Progress(ns, z, a), IsV(ns, a.node) <=> IsV(ns, st[Len(st)].node),
           Waits(ns, a) => b.node = Child(ns, a) /\ a.node = st[Len(st)].node,
           ~Waits(ns, a) => IsV(ns, b.node) /\ Ent2(ns, z, b.node, a.node, st[Len(st)].node)
    PROVE  OnCourse(ns, z, WithTwo(st, a, b), elems)
<1> DEFINE m == Len(st)
           s == WithTwo(st, a, b)
           h == [i \in 1..(m + 1) |-> IF i = m + 1 THEN b.node ELSE g[i]]
<1>1. /\ m \in Nat \ {0}
      /\ Len(s) = m + 1 /\ s # <<>> /\ s[m] = a /\ s[m + 1] = b
      /\ \A i \in 1..(m - 1) : s[i] = st[i]
  BY ReplacedByTwo
<1>2. Serves_last(ns, z, b, b.node)
  BY Entailed DEF Serves_last, Serves
<1>3. Serves_below(ns, z, a, g[m], b.node)
  <2>1. Serves_last(ns, z, st[m], g[m])
    BY LaterServes DEF GoalsOK
  <2>2. Serves(ns, z, a, g[m])
    BY <2>1 DEF Serves_last, Serves
  <2>3. ~Waits(ns, a) => Ent2(ns, z, b.node, a.node, g[m])
    BY <2>1, Entailed DEF Serves_last
  <2> QED
    BY <2>2, <2>3 DEF Serves_below
<1>4. /\ DOMAIN h = 1..(m + 1) /\ h[m + 1] = b.node
      /\ \A i \in 1..m : h[i] = g[i]
  BY <1>1
<1>5. DOMAIN g = 1..m /\ g[1] = Len(ns)
  BY DEF GoalsOK
<1>6. \A i \in 1..(m - 1) : Serves_below(ns, z, st[i], g[i], g[i + 1])
  BY LaterServes DEF GoalsOK
<1> HIDE DEF s, m, h
<1>7. ASSUME NEW i \in 1..((m + 1) - 1)
      PROVE  Serves_below(ns, z, s[i], h[i], h[i + 1])
  <2>1. CASE i = m
    <3>1. m \in 1..m
      BY <1>1
    <3> QED
      BY <2>1, <3>1, <1>1, <1>3, <1>4
  <2>2. CASE i # m
    <3>1. i \in 1..(m - 1) /\ i \in 1..m /\ i + 1 \in 1..m
      BY <1>1, <2>2
    <3> QED
      BY <3>1, <1>1, <1>4, <1>6
  <2> QED
    BY <2>1, <2>2
<1>8. 1 \in 1..m
  BY <1>1
<1>9. GoalsOK(ns, z, s, h)
  BY <1>1, <1>2, <1>4, <1>5, <1>7, <1>8 DEF GoalsOK
<1>10. TopOK(ns, z, s, elems)
  BY <1>1 DEF TopOK
<1> QED
  BY <1>9, <1>10, Zenon DEF OnCourse, s, m

-----------------------------------------------------------------------------
(* The types of the fragments that from_ast builds, as far as they tell     *)
(* which children leave a result.                                           *)

\* v tells whether a fragment is verified, i.e. leaves no result, and sub its children.
Verified(frag, v, sub) ==
    /\ frag \in LeafFrags => (v <=> frag = "TxTemplate")
    /\ frag \in {"Alt", "Swap", "Check", "NonZero", "ZeroNotEqual"} => ~v /\ ~sub[1]
    /\ frag = "Verify" => v /\ ~sub[1]
    /\ frag = "DupIf" => ~v /\ sub[1]
    /\ frag \in InscribeFrags => (v <=> sub[1])
    /\ frag = "AndV" => sub[1] /\ (v <=> sub[2])
    /\ frag \in {"AndB", "OrB", "OrD"} => ~v /\ ~sub[1] /\ ~sub[2]
    /\ frag = "OrC" => v /\ ~sub[1] /\ sub[2]
    /\ frag = "OrI" => (v <=> sub[1]) /\ (v <=> sub[2])
    /\ frag = "AndOr" => ~sub[1] /\ (v <=> sub[2]) /\ (v <=> sub[3])
    /\ frag = "Thresh" => ~v /\ \A j \in DOMAIN sub : ~sub[j]

VerifiedSubs(tys) == [j \in DOMAIN tys |-> tys[j].corr.base = "V"]

LEMMA TypedLeaf ==
    ASSUME NEW frag \in LeafFrags
    PROVE  leaf_type(frag) # Err => (leaf_type(frag).corr.base = "V" <=> frag = "TxTemplate")
<1> USE DEF Ty, Err, C!Corr, C!Err
<1>1. CASE frag = "True"
  BY <1>1 DEF leaf_type, HashFrags, C!TRUE_
<1>2. CASE frag = "False"
  BY <1>2 DEF leaf_type, HashFrags, C!FALSE_
<1>3. CASE frag = "PkK"
  BY <1>3 DEF leaf_type, HashFrags, C!pk_k
<1>4. CASE frag = "PkH"
  BY <1>4 DEF leaf_type, HashFrags, C!pk_h
<1>5. CASE frag = "RawPkH"
  BY <1>5 DEF leaf_type, HashFrags, C!pk_h
<1>6. CASE frag = "Multi"
  BY <1>6 DEF leaf_type, HashFrags, C!multi
<1>7. CASE frag = "MultiA"
  BY <1>7 DEF leaf_type, HashFrags, C!multi_a
<1>8. CASE frag = "After"
  BY <1>8 DEF leaf_type, HashFrags, C!time
<1>9. CASE frag = "Older"
  BY <1>9 DEF leaf_type, HashFrags, C!time
<1>10. CASE frag \in HashFrags
  BY <1>10 DEF leaf_type, HashFrags, C!hash
<1>11. CASE frag = "TxTemplate"
  BY <1>11 DEF leaf_type, HashFrags, tx_template
<1> QED
  BY <1>1, <1>2, <1>3, <1>4, <1>5, <1>6, <1>7, <1>8, <1>9, <1>10, <1>11 DEF LeafFrags

LEMMA TypedWrapper ==
    ASSUME NEW frag \in WrapFrags, NEW x, wrap_type(frag, x) # Err
    PROVE  /\ frag \in {"Alt", "Swap", "Check", "NonZero", "ZeroNotEqual"} =>
                wrap_type(frag, x).corr.base # "V" /\ x.corr.base # "V"
           /\ frag = "Verify" => wrap_type(frag, x).corr.base = "V" /\ x.corr.base # "V"
           /\ frag = "DupIf" => wrap_type(frag, x).corr.base # "V" /\ x.corr.base = "V"
<1> USE DEF Ty, Err, C!Corr, C!Err, C!Result
<1>1. CASE frag = "Alt"
  BY <1>1 DEF wrap_type, C!cast_alt
<1>2. CASE frag = "Swap"
  BY <1>2 DEF wrap_type, C!cast_swap
<1>3. CASE frag = "Check"
  BY <1>3 DEF wrap_type, C!cast_check
<1>4. CASE frag = "DupIf"
  BY <1>4 DEF wrap_type, C!cast_dupif
<1>5. CASE frag = "Verify"
  BY <1>5 DEF wrap_type, C!cast_verify
<1>6. CASE frag = "NonZero"
  BY <1>6 DEF wrap_type, C!cast_nonzero
<1>7. CASE frag = "ZeroNotEqual"
  BY <1>7 DEF wrap_type, C!cast_zeronotequal
<1> QED
  BY <1>1, <1>2, <1>3, <1>4, <1>5, <1>6, <1>7 DEF WrapFrags

LEMMA TypedBinary ==
    ASSUME NEW frag \in BinaryFrags, NEW l, NEW r, binary_type(frag, l, r) # Err
    PROVE  LET b == binary_type(frag, l, r).corr.base
           IN  /\ frag = "AndV" => l.corr.base = "V" /\ (b = "V" <=> r.corr.base = "V")
               /\ frag \in {"AndB", "OrB", "OrD"} =>
                    b # "V" /\ l.corr.base # "V" /\ r.corr.base # "V"
               /\ frag = "OrC" => b = "V" /\ l.corr.base # "V" /\ r.corr.base = "V"
               /\ frag = "OrI" => (b = "V" <=> l.corr.base = "V") /\ (b = "V" <=> r.corr.base = "V")
<1> USE DEF Ty, Err, C!Corr, C!Err, C!Result
<1>1. CASE frag = "AndV"
  BY <1>1 DEF binary_type, C!and_v
<1>2. CASE frag = "AndB"
  BY <1>2 DEF binary_type, C!and_b
<1>3. CASE frag = "OrB"
  BY <1>3 DEF binary_type, C!or_b
<1>4. CASE frag = "OrD"
  BY <1>4 DEF binary_type, C!or_d
<1>5. CASE frag = "OrC"
  BY <1>5 DEF binary_type, C!or_c
<1>6. CASE frag = "OrI"
  BY <1>6 DEF binary_type, C!or_i
<1> QED
  BY <1>1, <1>2, <1>3, <1>4, <1>5, <1>6 DEF BinaryFrags

LEMMA TypedAndOr ==
    ASSUME NEW a, NEW b, NEW c, and_or(a, b, c) # Err
    PROVE  LET v == and_or(a, b, c).corr.base
           IN  /\ a.corr.base # "V" /\ (v = "V" <=> b.corr.base = "V")
               /\ v = "V" <=> c.corr.base = "V"
  BY DEF Ty, Err, C!Corr, C!Err, C!Result, and_or, C!and_or

LEMMA TypedThreshold ==
    ASSUME NEW k, NEW subs, threshold(k, subs) # Err
    PROVE  /\ threshold(k, subs).corr.base # "V"
           /\ \A i \in DOMAIN subs : subs[i].corr.base # "V"
<1> DEFINE corrs == [i \in DOMAIN subs |-> subs[i].corr]
           cr == C!threshold(k, corrs)
<1>1. cr # C!Err /\ threshold(k, subs).corr = cr
  BY DEF threshold, Ty, Err
<1>2. /\ \A i \in DOMAIN corrs : corrs[i].base = IF i = 1 THEN "B" ELSE "W"
      /\ cr.base = "B"
  BY <1>1 DEF C!threshold, C!Result, C!Corr
<1>3. DOMAIN corrs = DOMAIN subs /\ \A i \in DOMAIN subs : corrs[i] = subs[i].corr
  OBVIOUS
<1> HIDE DEF cr, corrs
<1> QED
  BY <1>1, <1>2, <1>3

(* A fragment that type_check accepts. *)
LEMMA TypeCheckVerified ==
    ASSUME NEW frag \in Frags, NEW k, NEW subs, NEW inscribed,
           type_check(frag, k, subs, inscribed) # Err,
           frag \in WrapFrags \cup InscribeFrags => 1 \in DOMAIN subs,
           frag \in BinaryFrags => 1 \in DOMAIN subs /\ 2 \in DOMAIN subs,
           frag = "AndOr" => {1, 2, 3} \subseteq DOMAIN subs
    PROVE  Verified(frag, type_check(frag, k, subs, inscribed).corr.base = "V", VerifiedSubs(subs))
<1> DEFINE t == type_check(frag, k, subs, inscribed)
           sub == VerifiedSubs(subs)
<1>0. DOMAIN sub = DOMAIN subs /\ \A j \in DOMAIN subs : sub[j] = (subs[j].corr.base = "V")
  BY DEF VerifiedSubs
<1> USE DEF LeafFrags, HashFrags, WrapFrags, InscribeFrags, BinaryFrags
<1> HIDE DEF sub
<1>1. CASE frag \in LeafFrags
  <2>1. t = leaf_type(frag)
    BY <1>1 DEF type_check
  <2> HIDE DEF t
  <2>2. t.corr.base = "V" <=> frag = "TxTemplate"
    BY <1>1, <2>1, TypedLeaf DEF t
  <2> QED
    BY <1>1, <2>2 DEF Verified, t, sub
<1>2. CASE frag \in WrapFrags
  <2>1. t = wrap_type(frag, subs[1])
    BY <1>2 DEF type_check
  <2>2. sub[1] = (subs[1].corr.base = "V")
    BY <1>0, <1>2
  <2> HIDE DEF t
  <2>3. /\ frag \in {"Alt", "Swap", "Check", "NonZero", "ZeroNotEqual"} =>
                t.corr.base # "V" /\ ~sub[1]
        /\ frag = "Verify" => t.corr.base = "V" /\ ~sub[1]
        /\ frag = "DupIf" => t.corr.base # "V" /\ sub[1]
    <3> DEFINE w == wrap_type(frag, subs[1])
               x == subs[1]
    <3>1. frag \in WrapFrags /\ w # Err
      BY <1>2, <2>1 DEF t
    <3> HIDE DEF WrapFrags, x
    <3>2. /\ frag \in {"Alt", "Swap", "Check", "NonZero", "ZeroNotEqual"} =>
                w.corr.base # "V" /\ x.corr.base # "V"
          /\ frag = "Verify" => w.corr.base = "V" /\ x.corr.base # "V"
          /\ frag = "DupIf" => w.corr.base # "V" /\ x.corr.base = "V"
      BY <3>1, TypedWrapper DEF x
    <3> HIDE DEF w
    <3> QED
      BY <2>1, <2>2, <3>2 DEF w, x
  <2> QED
    BY <1>2, <2>3 DEF Verified, t, sub
<1>3. CASE frag \in InscribeFrags
  <2>1. t = subs[1]
    BY <1>3 DEF type_check
  <2>2. sub[1] = (subs[1].corr.base = "V")
    BY <1>0, <1>3
  <2> HIDE DEF t
  <2> QED
    BY <1>3, <2>1, <2>2 DEF Verified, t, sub
<1>4. CASE frag \in BinaryFrags
  <2>1. t = binary_type(frag, subs[1], subs[2])
    BY <1>4 DEF type_check
  <2>2. sub[1] = (subs[1].corr.base = "V") /\ sub[2] = (subs[2].corr.base = "V")
    BY <1>0, <1>4
  <2> HIDE DEF t
  <2>3. /\ frag = "AndV" => sub[1] /\ (t.corr.base = "V" <=> sub[2])
        /\ frag \in {"AndB", "OrB", "OrD"} => t.corr.base # "V" /\ ~sub[1] /\ ~sub[2]
        /\ frag = "OrC" => t.corr.base = "V" /\ ~sub[1] /\ sub[2]
        /\ frag = "OrI" => (t.corr.base = "V" <=> sub[1]) /\ (t.corr.base = "V" <=> sub[2])
    <3> DEFINE w == binary_type(frag, subs[1], subs[2])
               l == subs[1]
               r == subs[2]
    <3>1. frag \in BinaryFrags /\ w # Err
      BY <1>4, <2>1 DEF t
    <3> HIDE DEF BinaryFrags, l, r
    <3>2. /\ frag = "AndV" => l.corr.base = "V" /\ (w.corr.base = "V" <=> r.corr.base = "V")
          /\ frag \in {"AndB", "OrB", "OrD"} =>
                w.corr.base # "V" /\ l.corr.base # "V" /\ r.corr.base # "V"
          /\ frag = "OrC" => w.corr.base = "V" /\ l.corr.base # "V" /\ r.corr.base = "V"
          /\ frag = "OrI" =>
                (w.corr.base = "V" <=> l.corr.base = "V") /\ (w.corr.base = "V" <=> r.corr.base = "V")
      BY <3>1, TypedBinary DEF l, r
    <3> HIDE DEF w
    <3> QED
      BY <2>1, <2>2, <3>2 DEF w, l, r
  <2> QED
    BY <1>4, <2>3 DEF Verified, t, sub
<1>5. CASE frag = "AndOr"
  <2>1. t = and_or(subs[1], subs[2], subs[3])
    BY <1>5 DEF type_check
  <2>2. /\ sub[1] = (subs[1].corr.base = "V") /\ sub[2] = (subs[2].corr.base = "V")
        /\ sub[3] = (subs[3].corr.base = "V")
    BY <1>0, <1>5
  <2> HIDE DEF t
  <2>3. ~sub[1] /\ (t.corr.base = "V" <=> sub[2]) /\ (t.corr.base = "V" <=> sub[3])
    <3> DEFINE a == subs[1]
               b == subs[2]
               c == subs[3]
               w == and_or(a, b, c)
    <3>1. w # Err
      BY <2>1 DEF t
    <3> HIDE DEF a, b, c
    <3>2. /\ a.corr.base # "V" /\ (w.corr.base = "V" <=> b.corr.base = "V")
          /\ w.corr.base = "V" <=> c.corr.base = "V"
      BY <3>1, TypedAndOr
    <3> HIDE DEF w
    <3> QED
      BY <2>1, <2>2, <3>2 DEF w, a, b, c
  <2> QED
    BY <1>5, <2>3 DEF Verified, t, sub
<1>6. CASE frag = "Thresh"
  <2>1. t = threshold(k, subs)
    BY <1>6 DEF type_check
  <2> HIDE DEF t
  <2>2. t.corr.base # "V" /\ \A j \in DOMAIN sub : ~sub[j]
    <3> DEFINE w == threshold(k, subs)
    <3>1. w # Err
      BY <2>1 DEF t
    <3>2. w.corr.base # "V" /\ \A i \in DOMAIN subs : subs[i].corr.base # "V"
      BY <3>1, TypedThreshold, Zenon
    <3> HIDE DEF w
    <3> QED
      BY <1>0, <2>1, <3>2 DEF w
  <2> QED
    BY <1>6, <2>2 DEF Verified, t, sub
<1> QED
  BY <1>1, <1>2, <1>3, <1>4, <1>5, <1>6 DEF Frags

-----------------------------------------------------------------------------
(* Arenas whose fragments are verified as their types say. *)

SubsV(ns, t) == [j \in DOMAIN t.subs |-> IsV(ns, t.subs[j])]
NodeTyped(ns, t) == t.frag \in Frags /\ Verified(t.frag, t.ty.corr.base = "V", SubsV(ns, t))
TypedOK(ns) == \A i \in 1..Len(ns) : NodeTyped(ns, ns[i])

LEMMA TypedNode ==
    ASSUME NEW ns, NEW i, NEW t, At_(ns, i, t), TypedOK(ns)
    PROVE  LET v == IsV(ns, i)
               w(j) == IsV(ns, t.subs[j])
           IN  /\ t.frag \in LeafFrags => (v <=> t.frag = "TxTemplate")
               /\ t.frag \in {"Alt", "Swap", "Check", "NonZero", "ZeroNotEqual"} => ~v /\ ~w(1)
               /\ t.frag = "Verify" => v /\ ~w(1)
               /\ t.frag = "DupIf" => ~v /\ w(1)
               /\ t.frag \in InscribeFrags => (v <=> w(1))
               /\ t.frag = "AndV" => w(1) /\ (v <=> w(2))
               /\ t.frag \in {"AndB", "OrB", "OrD"} => ~v /\ ~w(1) /\ ~w(2)
               /\ t.frag = "OrC" => v /\ ~w(1) /\ w(2)
               /\ t.frag = "OrI" => (v <=> w(1)) /\ (v <=> w(2))
               /\ t.frag = "AndOr" => ~w(1) /\ (v <=> w(2)) /\ (v <=> w(3))
               /\ t.frag = "Thresh" => ~v /\ \A j \in DOMAIN t.subs : ~w(j)
<1> DEFINE v == IsV(ns, i)
           sub == SubsV(ns, t)
<1>1. Verified(t.frag, v, sub)
  BY DEF At_, TypedOK, NodeTyped, IsV
<1>2. DOMAIN sub = DOMAIN t.subs /\ \A j \in DOMAIN t.subs : sub[j] = IsV(ns, t.subs[j])
  BY DEF SubsV
<1>3. /\ t.frag \in WrapFrags \cup InscribeFrags => 1 \in DOMAIN t.subs
      /\ t.frag \in BinaryFrags => 1 \in DOMAIN t.subs /\ 2 \in DOMAIN t.subs
      /\ t.frag = "AndOr" => 1 \in DOMAIN t.subs /\ 2 \in DOMAIN t.subs /\ 3 \in DOMAIN t.subs
  BY Subs
<1> HIDE DEF sub, v
<1>4. t.frag \in LeafFrags => (v <=> t.frag = "TxTemplate")
  BY <1>1, Zenon DEF Verified
<1>5. t.frag \in WrapFrags \cup InscribeFrags => sub[1] = IsV(ns, t.subs[1])
  BY <1>2, <1>3
<1>6. t.frag \in BinaryFrags => sub[1] = IsV(ns, t.subs[1]) /\ sub[2] = IsV(ns, t.subs[2])
  BY <1>2, <1>3
<1>7. t.frag = "AndOr" => /\ sub[1] = IsV(ns, t.subs[1]) /\ sub[2] = IsV(ns, t.subs[2])
                          /\ sub[3] = IsV(ns, t.subs[3])
  BY <1>2, <1>3
<1>8. t.frag \in {"Alt", "Swap", "Check", "NonZero", "ZeroNotEqual"} => ~v /\ ~IsV(ns, t.subs[1])
  BY <1>1, <1>5 DEF Verified, WrapFrags
<1>9. /\ t.frag = "Verify" => v /\ ~IsV(ns, t.subs[1])
      /\ t.frag = "DupIf" => ~v /\ IsV(ns, t.subs[1])
  BY <1>1, <1>5 DEF Verified, WrapFrags
<1>10. t.frag \in InscribeFrags => (v <=> IsV(ns, t.subs[1]))
  BY <1>1, <1>5 DEF Verified
<1>11. /\ t.frag = "AndV" => IsV(ns, t.subs[1]) /\ (v <=> IsV(ns, t.subs[2]))
       /\ t.frag \in {"AndB", "OrB", "OrD"} => ~v /\ ~IsV(ns, t.subs[1]) /\ ~IsV(ns, t.subs[2])
       /\ t.frag = "OrC" => v /\ ~IsV(ns, t.subs[1]) /\ IsV(ns, t.subs[2])
       /\ t.frag = "OrI" => (v <=> IsV(ns, t.subs[1])) /\ (v <=> IsV(ns, t.subs[2]))
  BY <1>1, <1>6 DEF Verified, BinaryFrags
<1>12. t.frag = "AndOr" =>
          ~IsV(ns, t.subs[1]) /\ (v <=> IsV(ns, t.subs[2])) /\ (v <=> IsV(ns, t.subs[3]))
  BY <1>1, <1>7 DEF Verified
<1>13. t.frag = "Thresh" => ~v /\ \A j \in DOMAIN t.subs : ~IsV(ns, t.subs[j])
  BY <1>1, <1>2, Zenon DEF Verified
<1> QED
  BY <1>4, <1>8, <1>9, <1>10, <1>11, <1>12, <1>13 DEF v

(* from_ast adds a fragment that type_check accepts.                        *)
LEMMA FromAstTyped ==
    ASSUME BuildOK, TypedOK(ast), NEW frag \in Frags, NEW k, NEW args, NEW pops \in Nat, NEW w,
           ArityOK(frag, k, args, pops),
           from_ast(Terminal(frag, <<>>, k, args), pops, w)
    PROVE  TypedOK(ast')
<1> DEFINE n == Len(roots)
           sub == SubSeq(roots, n - pops + 1, n)
           u == [Terminal(frag, <<>>, k, args) EXCEPT !.subs = sub]
           e == Annotate(ast, u)
           tys == [i \in DOMAIN sub |-> ast[sub[i]].ty]
<1>1. /\ roots \in Seq(1..Len(ast)) /\ n \in Nat /\ pops <= n
      /\ ast' = Append(ast, e) /\ from_ast_ok(ast, u)
  BY DEF BuildOK, from_ast
<1>2. sub \in Seq(1..Len(ast)) /\ Len(sub) = pops /\ \A j \in 1..pops : sub[j] \in 1..Len(ast)
  <2> DEFINE S == 1..Len(ast)
  <2>1. roots \in Seq(S) /\ pops <= Len(roots)
    BY <1>1
  <2> HIDE DEF S
  <2>2. /\ SubSeq(roots, Len(roots) - pops + 1, Len(roots)) \in Seq(S)
        /\ Len(SubSeq(roots, Len(roots) - pops + 1, Len(roots))) = pops
        /\ \A j \in 1..pops : SubSeq(roots, Len(roots) - pops + 1, Len(roots))[j] \in S
    BY <2>1, LastOnes, Zenon
  <2> QED
    BY <2>2, Zenon DEF S
<1>3. /\ e.frag = frag /\ e.subs = sub /\ e.ty = ty_of(ast, u)
      /\ u.frag = frag /\ u.subs = sub /\ u.k = k /\ u.args = args
  BY DEF Annotate, Terminal
<1>4. DOMAIN sub = 1..pops /\ DOMAIN tys = 1..pops
  BY <1>2
<1> HIDE DEF sub, e, u
<1>5. e.ty = type_check(frag, k, tys, InscriptionsValid(args)) /\ e.ty # Err
  BY <1>1, <1>3 DEF ty_of, from_ast_ok
<1>6. /\ frag \in WrapFrags \cup InscribeFrags => 1 \in DOMAIN tys
      /\ frag \in BinaryFrags => 1 \in DOMAIN tys /\ 2 \in DOMAIN tys
      /\ frag = "AndOr" => {1, 2, 3} \subseteq DOMAIN tys
  BY <1>4 DEF ArityOK
<1>7. \A j \in 1..pops : tys[j] = ast[sub[j]].ty
  BY <1>4
<1> HIDE DEF tys
<1>8. Verified(frag, e.ty.corr.base = "V", VerifiedSubs(tys))
  BY <1>5, <1>6, TypeCheckVerified
<1>9. /\ Len(ast') = Len(ast) + 1 /\ Len(ast) \in Nat
      /\ \A i \in 1..Len(ast) : ast'[i] = ast[i]
      /\ ast'[Len(ast) + 1] = e
  <2>1. ast \in Seq({ast[i] : i \in DOMAIN ast})
    BY DEF BuildOK, ArenaOK, IsSeq
  <2> DEFINE S == {ast[i] : i \in DOMAIN ast} \cup {e}
  <2>2. ast \in Seq(S) /\ e \in S
    BY <2>1
  <2> HIDE DEF S
  <2> QED
    BY <2>2, <1>1
<1>10. VerifiedSubs(tys) = SubsV(ast', e)
  <2>1. \A j \in 1..pops : IsV(ast', sub[j]) = (tys[j].corr.base = "V")
    BY <1>2, <1>7, <1>9 DEF IsV
  <2> QED
    BY <2>1, <1>3, <1>4 DEF VerifiedSubs, SubsV
<1>11. NodeTyped(ast', e)
  BY <1>3, <1>8, <1>10 DEF NodeTyped
<1>12. ASSUME NEW i \in 1..Len(ast) PROVE NodeTyped(ast', ast[i])
  <2> DEFINE t == ast[i]
  <2>1. NodeTyped(ast, t) /\ At_(ast, i, t)
    BY DEF TypedOK, BuildOK, At_
  <2>2. DOMAIN t.subs = 1..Len(t.subs) /\ \A j \in 1..Len(t.subs) : t.subs[j] \in 1..Len(ast)
    BY <2>1, Subs
  <2> HIDE DEF t
  <2>3. \A j \in DOMAIN t.subs : IsV(ast', t.subs[j]) = IsV(ast, t.subs[j])
    BY <2>2, <1>9 DEF IsV
  <2>4. SubsV(ast', t) = SubsV(ast, t)
    BY <2>3 DEF SubsV
  <2>5. NodeTyped(ast', t)
    BY <2>1, <2>4 DEF NodeTyped
  <2> QED
    BY <2>5 DEF t
<1>13. ASSUME NEW i \in 1..(Len(ast) + 1) PROVE NodeTyped(ast', ast'[i])
  <2>1. CASE i = Len(ast) + 1
    BY <2>1, <1>9, <1>11
  <2>2. CASE i # Len(ast) + 1
    <3>1. i \in 1..Len(ast)
      BY <2>2, <1>9
    <3> QED
      BY <3>1, <1>9, <1>12
  <2> QED
    BY <2>1, <2>2
<1> QED
  BY <1>9, <1>13 DEF TypedOK

LEMMA ConstructTyped ==
    ASSUME BuildOK, TypedOK(ast), ConstructNext
    PROVE  TypedOK(ast')
<1> USE DEF ArityOK
<1>1. CASE MakeLeaf
  <2>1. PICK l \in LeafTerms : from_ast(Terminal(l[1], <<>>, l[2], l[3]), 0, l[4])
    BY <1>1 DEF MakeLeaf
  <2>2. /\ l[1] \in LeafFrags
        /\ l[1] \in {"Multi", "MultiA"} =>
            /\ l[2] \in Nat /\ Len(l[3]) \in Nat /\ Len(l[3]) >= 1
            /\ DOMAIN l[3] = 1..Len(l[3])
    BY LeavesAssumed DEF LeafAssumption, validate_k_n
  <2>3. ArityOK(l[1], l[2], l[3], 0) /\ l[1] \in Frags
    BY <2>2 DEF LeafFrags, HashFrags, WrapFrags, InscribeFrags, BinaryFrags, Frags
  <2> QED
    BY <2>1, <2>3, FromAstTyped
<1>2. CASE MakeWrapper
  <2>1. PICK f \in WrapFrags :
            from_ast(Terminal(f, <<>>, 0, <<>>), 1, IF f \in FreeWrappers THEN 0 ELSE 1)
    BY <1>2 DEF MakeWrapper
  <2>2. ArityOK(f, 0, <<>>, 1) /\ f \in Frags
    BY DEF WrapFrags, BinaryFrags, Frags
  <2> QED
    BY <2>1, <2>2, FromAstTyped
<1>3. CASE MakeInscribed
  <2>1. PICK f \in InscribeFrags, x \in InscribedWith :
            from_ast(Terminal(f, <<>>, 0, <<x>>), 1, 1)
    BY <1>3 DEF MakeInscribed
  <2>2. ArityOK(f, 0, <<x>>, 1) /\ f \in Frags
    BY DEF InscribeFrags, BinaryFrags, Frags
  <2> QED
    BY <2>1, <2>2, FromAstTyped
<1>4. CASE MakeBinary
  <2>1. PICK f \in BinaryFrags : from_ast(Terminal(f, <<>>, 0, <<>>), 2, 0)
    BY <1>4 DEF MakeBinary
  <2>2. ArityOK(f, 0, <<>>, 2) /\ f \in Frags
    BY DEF WrapFrags, InscribeFrags, BinaryFrags, Frags
  <2> QED
    BY <2>1, <2>2, FromAstTyped
<1>5. CASE MakeAndOr
  <2>1. ArityOK("AndOr", 0, <<>>, 3) /\ "AndOr" \in Frags
    BY DEF WrapFrags, InscribeFrags, BinaryFrags, Frags
  <2> QED
    BY <1>5, <2>1, FromAstTyped DEF MakeAndOr
<1>6. CASE MakeThresh
  <2>1. PICK n \in 1..Len(roots) : \E k \in 1..n :
            from_ast(Terminal("Thresh", <<>>, k, <<>>), n, IF n = 1 THEN 1 ELSE 0)
    BY <1>6 DEF MakeThresh
  <2>2. n \in Nat /\ "Thresh" \in Frags /\ \A k : ArityOK("Thresh", k, <<>>, n)
    BY DEF WrapFrags, InscribeFrags, BinaryFrags, BuildOK, Frags
  <2> QED
    BY <2>1, <2>2, FromAstTyped
<1> QED
  BY <1>1, <1>2, <1>3, <1>4, <1>5, <1>6 DEF ConstructNext

-----------------------------------------------------------------------------
(* The steps of the interpreter. *)

\* The run of an expression that can be lifted.
Course ==
    /\ Running /\ TypedOK(program) /\ Lifts(program)
    /\ OnCourse(program, Range(yielded), state, stack)

\* The constraints that have been yielded when cs follow.
Now(cs) == Range(yielded \o cs)
Short_(cs) == cs = <<>> \/ \E c : cs = <<c>>

\* What a step must keep.
Kept == result' = "running" => OnCourse(program, Range(yielded'), state', stack')

LEMMA Yielded ==
    ASSUME Running
    PROVE  /\ Now(<<>>) = Range(yielded)
           /\ \A c : Range(yielded) \subseteq Now(<<c>>) /\ c \in Now(<<c>>)
<1>1. yielded \in Seq({yielded[i] : i \in DOMAIN yielded})
  BY DEF Running, RunOK, IsSeq
<1>2. yielded \o <<>> = yielded
  BY <1>1
<1>3. ASSUME NEW c PROVE Range(yielded) \subseteq Now(<<c>>) /\ c \in Now(<<c>>)
  <2> DEFINE S == {yielded[i] : i \in DOMAIN yielded} \cup {c}
             more == yielded \o <<c>>
  <2>1. yielded \in Seq(S) /\ c \in S
    BY <1>1
  <2> HIDE DEF S
  <2>2. /\ DOMAIN yielded = 1..Len(yielded) /\ Len(yielded) \in Nat
        /\ DOMAIN more = 1..(Len(yielded) + 1)
        /\ \A i \in 1..Len(yielded) : more[i] = yielded[i]
        /\ more[Len(yielded) + 1] = c
    BY <2>1
  <2> HIDE DEF more
  <2>3. Len(yielded) + 1 \in DOMAIN more /\ DOMAIN yielded \subseteq DOMAIN more
    BY <2>2
  <2>4. Range(yielded) \subseteq Range(more) /\ c \in Range(more)
    BY <2>2, <2>3 DEF Range
  <2> QED
    BY <2>4 DEF Now, more
<1> QED
  BY <1>2, <1>3 DEF Now

LEMMA YieldedShort ==
    ASSUME Running, NEW cs, Short_(cs)
    PROVE  Range(yielded) \subseteq Now(cs)
  BY Yielded, Zenon DEF Short_

(* Where the evaluation of an expression stands. *)
LEMMA CourseHere ==
    ASSUME Course
    PROVE  /\ Running
           /\ state \in Seq(OkStates) /\ state # <<>> /\ This = state[Len(state)]
           /\ At_(program, This.node, Node)
           /\ Progress(program, Range(yielded), This)
           /\ \E g : GoalsOK(program, Range(yielded), state, g)
           /\ Waits(program, This) =>
                ResultOK(program, Range(yielded), stack, Node.subs[This.n_evaluated])
<1>1. Running /\ RunOK /\ state # <<>> /\ state \in Seq(OkStates)
  BY DEF Course, Running, RunOK
<1>2. This = state[Len(state)]
  BY DEF This
<1>3. At_(program, This.node, Node)
  <2>1. This.node \in DOMAIN program /\ ArenaOK(program)
    BY <1>1, Here DEF RunOK
  <2> QED
    BY <2>1, ArenaDomain DEF At_, Node
<1>4. PICK g : GoalsOK(program, Range(yielded), state, g)
  BY DEF Course, OnCourse
<1>5. Progress(program, Range(yielded), This)
  BY <1>1, <1>2, <1>4 DEF GoalsOK, Serves_last, Serves
<1>6. TopOK(program, Range(yielded), state, stack)
  BY DEF Course, OnCourse
<1>7. Waits(program, This) =>
        ResultOK(program, Range(yielded), stack, Node.subs[This.n_evaluated])
  BY <1>1, <1>2, <1>6 DEF TopOK, Child, Node
<1> QED
  BY <1>1, <1>2, <1>3, <1>4, <1>5, <1>7

LEMMA GotoFinishes ==
    ASSUME Course, NEW st, NEW cs, Short_(cs), Goto(st, <<>>, cs),
           ResultOK(program, Now(cs), st, This.node)
    PROVE  Kept
<1>1. /\ state \in Seq(OkStates) /\ state # <<>> /\ This = state[Len(state)] /\ Running
  BY CourseHere
<1>2. PICK g : GoalsOK(program, Range(yielded), state, g)
  BY CourseHere
<1>3. Range(yielded) \subseteq Now(cs)
  BY <1>1, YieldedShort
<1>4. /\ stack' = st /\ Range(yielded') = Now(cs)
      /\ state' = SubSeq(state, 1, Len(state) - 1) \o <<>>
  BY DEF Goto, Now, Rest
<1>5. ResultOK(program, Now(cs), st, state[Len(state)].node)
  BY <1>1
<1> DEFINE y == Range(yielded)
           z == Now(cs)
           E == OkStates
<1> HIDE DEF y, z, E
<1>6. OnCourse(program, z, SubSeq(state, 1, Len(state) - 1) \o <<>>, st)
  BY <1>1, <1>2, <1>3, <1>5, Finishes DEF y, z, E
<1> QED
  BY <1>4, <1>6 DEF Kept, z

LEMMA GotoBecomes ==
    ASSUME Course, NEW st, NEW e, NEW cs, Short_(cs), Goto(st, <<e>>, cs),
           ~Waits(program, e), Progress(program, Now(cs), e),
           IsV(program, e.node) <=> IsV(program, This.node),
           Ent(program, Now(cs), e.node, This.node)
    PROVE  Kept
<1>1. /\ state \in Seq(OkStates) /\ state # <<>> /\ This = state[Len(state)] /\ Running
  BY CourseHere
<1>2. PICK g : GoalsOK(program, Range(yielded), state, g)
  BY CourseHere
<1>3. Range(yielded) \subseteq Now(cs)
  BY <1>1, YieldedShort
<1>4. /\ stack' = st /\ Range(yielded') = Now(cs)
      /\ state' = SubSeq(state, 1, Len(state) - 1) \o <<e>>
  BY DEF Goto, Now, Rest
<1> DEFINE y == Range(yielded)
           z == Now(cs)
           E == OkStates
<1>5. /\ IsV(program, e.node) <=> IsV(program, state[Len(state)].node)
      /\ Ent(program, z, e.node, state[Len(state)].node)
  BY <1>1
<1> HIDE DEF y, z, E
<1>6. OnCourse(program, z, SubSeq(state, 1, Len(state) - 1) \o <<e>>, st)
  BY <1>1, <1>2, <1>3, <1>5, Becomes DEF y, z, E
<1> QED
  BY <1>4, <1>6 DEF Kept, z

LEMMA GotoCalls ==
    ASSUME Course, NEW st, NEW a, NEW b, Goto(st, <<a, b>>, <<>>),
           ~Waits(program, b), Progress(program, Range(yielded), b), b.node \in 1..Len(program),
           Progress(program, Range(yielded), a),
           IsV(program, a.node) <=> IsV(program, This.node),
           Waits(program, a) => b.node = Child(program, a) /\ a.node = This.node,
           ~Waits(program, a) => /\ IsV(program, b.node)
                                 /\ Ent2(program, Range(yielded), b.node, a.node, This.node)
    PROVE  Kept
<1>1. /\ state \in Seq(OkStates) /\ state # <<>> /\ This = state[Len(state)] /\ Running
  BY CourseHere
<1>2. PICK g : GoalsOK(program, Range(yielded), state, g)
  BY CourseHere
<1>3. Range(yielded') = Range(yielded)
  BY <1>1, Yielded DEF Goto, Now
<1>4. stack' = st /\ state' = WithTwo(state, a, b)
  BY DEF Goto, Rest, WithTwo
<1> DEFINE y == Range(yielded)
           E == OkStates
<1>5. OnCourse(program, y, WithTwo(state, a, b), st)
  <2>1. y \subseteq y
    OBVIOUS
  <2>2. /\ IsV(program, a.node) <=> IsV(program, state[Len(state)].node)
        /\ Waits(program, a) => b.node = Child(program, a) /\ a.node = state[Len(state)].node
        /\ ~Waits(program, a) => /\ IsV(program, b.node)
                                 /\ Ent2(program, y, b.node, a.node, state[Len(state)].node)
    BY <1>1
  <2> HIDE DEF y, E
  <2> QED
    BY <1>1, <1>2, <2>1, <2>2, Calls DEF y, E
<1> QED
  BY <1>3, <1>4, <1>5 DEF Kept

LEMMA FailKept == ASSUME Fail("err") PROVE Kept
  BY DEF Fail, Kept

(* The elements on the stack. *)
LEMMA Distinct == Satisfied_ # Dissatisfied
  BY DEF Satisfied_, Dissatisfied, PushOne, PushZero

LEMMA OnTop ==
    ASSUME NEW E, NEW st \in Seq(E), NEW e
    PROVE  LET s == Append(st, e) IN s # <<>> /\ s[Len(s)] = e
<1> DEFINE F == E \cup {e}
<1>1. st \in Seq(F) /\ e \in F
  OBVIOUS
<1> HIDE DEF F
<1> QED
  BY <1>1

LEMMA TopElement ==
    ASSUME RunOK, stack # <<>>
    PROVE  Peek(1) = stack[Len(stack)] /\ Pop(1) \in Seq(Elems)
<1>1. Len(stack) \in Nat
  BY Popped
<1>2. Len(stack) + 1 - 1 = Len(stack)
  BY <1>1
<1> QED
  BY <1>2, PopOne DEF Peek

(* A fragment that ends with the result e, with a dissatisfaction that is   *)
(* on the stack, or without a result.                                       *)
LEMMA EndsWith ==
    ASSUME Course, ~IsV(program, This.node), NEW st \in Seq(Elems), NEW cs, Short_(cs),
           NEW e \in {Satisfied_, Dissatisfied},
           e = Satisfied_ => Met(program, Now(cs), This.node),
           Goto(Append(st, e), <<>>, cs)
    PROVE  Kept
<1> DEFINE s == Append(st, e)
           E == Elems
<1>1. s # <<>> /\ s[Len(s)] = e
  <2> HIDE DEF E
  <2> QED
    BY OnTop DEF E
<1> HIDE DEF s
<1>2. ResultOK(program, Now(cs), s, This.node)
  BY <1>1 DEF ResultOK
<1> QED
  BY <1>2, GotoFinishes DEF s

LEMMA EndsDissatisfied ==
    ASSUME Course, ~IsV(program, This.node), stack # <<>>, Peek(1) = Dissatisfied,
           Goto(stack, <<>>, <<>>)
    PROVE  Kept
<1>1. Peek(1) = stack[Len(stack)]
  BY TopElement DEF Course, Running
<1>2. ResultOK(program, Now(<<>>), stack, This.node)
  BY <1>1, Distinct DEF ResultOK
<1> QED
  BY <1>2, GotoFinishes DEF Short_

LEMMA EndsVerified ==
    ASSUME Course, IsV(program, This.node), NEW st, NEW cs, Short_(cs),
           Met(program, Now(cs), This.node), Goto(st, <<>>, cs)
    PROVE  Kept
<1>1. ResultOK(program, Now(cs), st, This.node)
  BY DEF ResultOK
<1> QED
  BY <1>1, GotoFinishes

(* The result of the child that the fragment in hand waits for. *)
LEMMA Answer ==
    ASSUME Course, Waits(program, This)
    PROVE  LET x == Node.subs[This.n_evaluated]
               y == Range(yielded)
           IN  /\ IsV(program, x) => Met(program, y, x)
               /\ ~IsV(program, x) =>
                    /\ stack # <<>> /\ Peek(1) \in {Satisfied_, Dissatisfied}
                    /\ Peek(1) = Satisfied_ => Met(program, y, x)
<1> DEFINE x == Node.subs[This.n_evaluated]
           y == Range(yielded)
<1>1. ResultOK(program, y, stack, x) /\ RunOK
  BY CourseHere DEF Running
<1>2. stack # <<>> => Peek(1) = stack[Len(stack)]
  BY <1>1, TopElement
<1> QED
  BY <1>1, <1>2 DEF ResultOK

(* Fragments to go on with: a child from its start, or the same again. *)
LEMMA NoProgress ==
    ASSUME NEW ns, NEW y, NEW s, s.n_satisfied = 0, s.n_evaluated \in {0, 1},
           ns[s.node].frag \in {"Multi", "MultiA"} => s.n_evaluated = 0
    PROVE  Progress(ns, y, s)
<1> DEFINE t == ns[s.node]
<1>1. /\ Cardinality({}) = 0
      /\ \A R : {} \in SUBSET R
  BY FS_EmptySet
<1>2. \A n : n = 0 \/ n = 1 => n # 2
  OBVIOUS
<1>3. s.n_evaluated # 2
  BY <1>2
<1>4. \E S \in SUBSET (1..(s.n_evaluated - 1)) :
        Cardinality(S) = s.n_satisfied /\ \A j \in S : Met(ns, y, t.subs[j])
  <2> WITNESS {} \in SUBSET (1..(s.n_evaluated - 1))
  <2> QED
    BY <1>1
<1>5. \E S \in SUBSET Tried(t, s.n_evaluated) :
        Cardinality(S) = s.n_satisfied /\ \A j \in S : <<"PublicKey", t.args[j]>> \in y
  <2> WITNESS {} \in SUBSET Tried(t, s.n_evaluated)
  <2> QED
    BY <1>1
<1> QED
  BY <1>3, <1>4, <1>5, Zenon DEF Progress

LEMMA Fresh_ ==
    ASSUME Course, NEW i \in DOMAIN Node.subs, NEW y
    PROVE  /\ ~Waits(program, Sub(i)) /\ Progress(program, y, Sub(i))
           /\ Sub(i).node = Node.subs[i] /\ Sub(i).node \in 1..Len(program)
<1>1. At_(program, This.node, Node)
  BY CourseHere
<1>2. Node.subs[i] \in 1..Len(program)
  BY <1>1, Subs
<1>3. Sub(i).node = Node.subs[i] /\ Sub(i).n_evaluated = 0 /\ Sub(i).n_satisfied = 0
  BY DEF Sub, NodeState
<1>4. Progress(program, y, Sub(i))
  BY <1>3, NoProgress
<1> QED
  BY <1>2, <1>3, <1>4 DEF Waits

LEMMA Again ==
    ASSUME NEW n, NEW m
    PROVE  Self(n, m).node = This.node /\ Self(n, m).n_evaluated = n /\ Self(n, m).n_satisfied = m
  BY DEF Self, NodeState

(* The two ways to evaluate a child first. *)
LEMMA GotoChild ==
    ASSUME Course, NEW st, NEW n, NEW m, n \in DOMAIN Node.subs, n # 0,
           Node.frag \notin {"Multi", "MultiA"},
           Progress(program, Range(yielded), Self(n, m)),
           Goto(st, <<Self(n, m), Sub(n)>>, <<>>)
    PROVE  Kept
<1> DEFINE a == Self(n, m)
           b == Sub(n)
<1>1. /\ ~Waits(program, b) /\ Progress(program, Range(yielded), b)
      /\ b.node = Node.subs[n] /\ b.node \in 1..Len(program)
  BY Fresh_
<1>2. a.node = This.node /\ a.n_evaluated = n
  BY Again
<1>3. Waits(program, a) /\ Child(program, a) = Node.subs[n]
  BY <1>2 DEF Waits, Child, Node
<1> HIDE DEF a, b
<1> QED
  BY <1>1, <1>2, <1>3, GotoCalls DEF a, b

LEMMA GotoSub ==
    ASSUME Course, NEW st, NEW i \in DOMAIN Node.subs, Goto(st, <<Sub(i)>>, <<>>),
           IsV(program, Node.subs[i]) <=> IsV(program, This.node),
           Ent(program, Range(yielded), Node.subs[i], This.node)
    PROVE  Kept
<1> DEFINE e == Sub(i)
<1>1. /\ ~Waits(program, e) /\ Progress(program, Range(yielded), e)
      /\ e.node = Node.subs[i]
  BY Fresh_
<1>2. Now(<<>>) = Range(yielded) /\ Short_(<<>>)
  BY CourseHere, Yielded DEF Short_
<1> HIDE DEF e
<1> QED
  BY <1>1, <1>2, GotoBecomes DEF e

-----------------------------------------------------------------------------
(* Each action. *)

LEMMA ThisTyped ==
    ASSUME Course
    PROVE  LET v == IsV(program, This.node)
               w(j) == IsV(program, Node.subs[j])
               f == Node.frag
           IN  /\ f \in LeafFrags => (v <=> f = "TxTemplate")
               /\ f \in {"Alt", "Swap", "Check", "NonZero", "ZeroNotEqual"} => ~v /\ ~w(1)
               /\ f = "Verify" => v /\ ~w(1)
               /\ f = "DupIf" => ~v /\ w(1)
               /\ f \in InscribeFrags => (v <=> w(1))
               /\ f = "AndV" => w(1) /\ (v <=> w(2))
               /\ f \in {"AndB", "OrB", "OrD"} => ~v /\ ~w(1) /\ ~w(2)
               /\ f = "OrC" => v /\ ~w(1) /\ w(2)
               /\ f = "OrI" => (v <=> w(1)) /\ (v <=> w(2))
               /\ f = "AndOr" => ~w(1) /\ (v <=> w(2)) /\ (v <=> w(3))
               /\ f = "Thresh" => ~v /\ \A j \in DOMAIN Node.subs : ~w(j)
<1> DEFINE i == This.node
           t == Node
<1>1. At_(program, i, t) /\ TypedOK(program)
  BY CourseHere DEF Course
<1> HIDE DEF i, t
<1> QED
  BY <1>1, TypedNode DEF i, t

(* A leaf that yields the constraint it stands for. *)
LEMMA LeafYields ==
    ASSUME Course, NEW c, NEW st,
           \/ Node.frag = "PkK" /\ c = <<"PublicKey", Node.args[1]>>
           \/ Node.frag = "PkH" /\ c = <<"PublicKeyHash", Node.args[1]>>
           \/ Node.frag = "After" /\ c = <<"AbsoluteTimelock", Node.k>>
           \/ Node.frag = "Older" /\ c = <<"RelativeTimelock", Node.k>>
           \/ Node.frag \in HashFrags /\ c = <<"HashLock", Node.args[1]>>
           \/ Node.frag = "TxTemplate" /\ c = <<"TxTemplate", Node.args[1]>>,
           IF Node.frag = "TxTemplate" THEN Goto(st, <<>>, <<c>>)
           ELSE st \in Seq(Elems) /\ Goto(Append(st, Satisfied_), <<>>, <<c>>)
    PROVE  Kept
<1>1. At_(program, This.node, Node) /\ Running
  BY CourseHere
<1>2. c \in Now(<<c>>) /\ Short_(<<c>>)
  BY <1>1, Yielded, Zenon DEF Short_
<1>3. Met(program, Now(<<c>>), This.node)
  <2> DEFINE i == This.node
             t == Node
             y == Now(<<c>>)
  <2>1. At_(program, i, t)
    BY <1>1
  <2>2. \/ t.frag = "PkK" /\ <<"PublicKey", t.args[1]>> \in y
        \/ t.frag = "PkH" /\ <<"PublicKeyHash", t.args[1]>> \in y
        \/ t.frag = "After" /\ <<"AbsoluteTimelock", t.k>> \in y
        \/ t.frag = "Older" /\ <<"RelativeTimelock", t.k>> \in y
        \/ t.frag \in HashFrags /\ <<"HashLock", t.args[1]>> \in y
        \/ t.frag = "TxTemplate" /\ <<"TxTemplate", t.args[1]>> \in y
    BY <1>2, Zenon
  <2> HIDE DEF i, t, y
  <2>3. Met(program, y, i)
    BY <2>1, <2>2, LiftLeaf
  <2> QED
    BY <2>3 DEF i, y
<1>4. IsV(program, This.node) <=> Node.frag = "TxTemplate"
  <2>1. Node.frag \in LeafFrags
    BY DEF LeafFrags
  <2> QED
    BY <2>1, ThisTyped
<1>5. CASE Node.frag = "TxTemplate"
  BY <1>2, <1>3, <1>4, <1>5, EndsVerified
<1>6. CASE Node.frag # "TxTemplate"
  BY <1>2, <1>3, <1>4, <1>6, EndsWith
<1> QED
  BY <1>5, <1>6

LEMMA LeafEnds ==
    ASSUME Course, Node.frag \in LeafFrags, Node.frag # "TxTemplate", NEW st \in Seq(Elems),
           Goto(Append(st, Dissatisfied), <<>>, <<>>)
    PROVE  Kept
<1>1. ~IsV(program, This.node)
  BY ThisTyped
<1> QED
  BY <1>1, EndsWith, Distinct DEF Short_

LEMMA PkKept ==
    ASSUME Course, EvalPk \/ EvalPkh
    PROVE  Kept
<1> DEFINE key == Node.args[1]
<1>1. Running /\ RunOK /\ Node.frag \in {"PkK", "PkH", "RawPkH"}
  BY CourseHere DEF EvalPk, EvalPkh, At, Running
<1>2. Node.frag # "RawPkH"
  <2>1. This.node \in DOMAIN program
    BY <1>1, Here
  <2> QED
    BY <2>1 DEF Course, Lifts, Node
<1>3. This.n_evaluated = 0 /\ This.n_satisfied = 0
  BY <1>1, FreshHere
<1>4. CASE EvalPk
  <2>1. /\ Node.frag = "PkK"
        /\ \/ Fail("err")
           \/ stack # <<>> /\ Peek(1) = Dissatisfied /\ Goto(stack, <<>>, <<>>)
           \/ /\ stack # <<>>
              /\ Goto(Append(Pop(1), Satisfied_), <<>>, <<<<"PublicKey", key>>>>)
    BY <1>3, <1>4, Zenon DEF EvalPk, Fresh, At
  <2>2. ~IsV(program, This.node)
    BY <2>1, ThisTyped DEF LeafFrags
  <2>3. stack # <<>> => Pop(1) \in Seq(Elems)
    BY <1>1, PopOne
  <2>4. CASE stack # <<>> /\ Goto(Append(Pop(1), Satisfied_), <<>>, <<<<"PublicKey", key>>>>)
    BY <2>1, <2>3, <2>4, LeafYields
  <2> QED
    BY <2>1, <2>2, <2>4, EndsDissatisfied, FailKept
<1>5. CASE EvalPkh
  <2>1. \/ Fail("err")
        \/ /\ ~(Len(stack) < 2)
           /\ Goto(Append(Pop(2), Dissatisfied), <<>>, <<>>)
        \/ /\ ~(Len(stack) < 2)
           /\ Goto(Append(Pop(2), Satisfied_), <<>>, <<<<"PublicKeyHash", key>>>>)
    BY <1>3, <1>5, Zenon DEF EvalPkh, Fresh
  <2>2. Node.frag = "PkH"
    BY <1>2, <1>5 DEF EvalPkh, At
  <2>3. ~(Len(stack) < 2) => Pop(2) \in Seq(Elems)
    BY <1>1, Popped
  <2>4. Node.frag \in LeafFrags
    BY <2>2 DEF LeafFrags
  <2>5. CASE /\ ~(Len(stack) < 2)
             /\ Goto(Append(Pop(2), Dissatisfied), <<>>, <<>>)
    BY <2>2, <2>3, <2>4, <2>5, LeafEnds
  <2>6. CASE /\ ~(Len(stack) < 2)
             /\ Goto(Append(Pop(2), Satisfied_), <<>>, <<<<"PublicKeyHash", key>>>>)
    BY <2>2, <2>3, <2>6, LeafYields
  <2> QED
    BY <2>1, <2>5, <2>6, FailKept
<1> QED
  BY <1>4, <1>5

LEMMA LeafKept ==
    ASSUME Course, EvalConst \/ EvalTxTemplate \/ EvalAfter \/ EvalOlder
    PROVE  Kept
<1>1. /\ Running /\ RunOK
      /\ Node.frag \in {"True", "False", "TxTemplate", "After", "Older"}
  BY CourseHere DEF EvalConst, EvalTxTemplate, EvalAfter, EvalOlder, At, Running
<1>2. This.n_evaluated = 0 /\ This.n_satisfied = 0
  BY <1>1, FreshHere
<1>3. stack \in Seq(Elems) /\ Node.frag \in LeafFrags
  BY <1>1, Popped DEF LeafFrags
<1>4. CASE EvalConst
  <2>1. Goto(Append(stack, Bool(Node.frag = "True")), <<>>, <<>>)
    BY <1>4, <1>2, Zenon DEF EvalConst, Fresh
  <2>2. Node.frag \in {"True", "False"}
    BY <1>4 DEF EvalConst, At
  <2>3. CASE Node.frag = "False"
    <3>1. Goto(Append(stack, Dissatisfied), <<>>, <<>>)
      BY <2>1, <2>3 DEF Bool
    <3> QED
      BY <3>1, <2>3, <1>3, LeafEnds
  <2>4. CASE Node.frag = "True"
    <3>1. Goto(Append(stack, Satisfied_), <<>>, <<>>)
      BY <2>1, <2>4 DEF Bool
    <3>2. ~IsV(program, This.node)
      BY <1>3, <2>4, ThisTyped
    <3>3. Met(program, Now(<<>>), This.node)
      <4> DEFINE i == This.node
                 t == Node
                 y == Now(<<>>)
      <4>1. At_(program, i, t) /\ t.frag = "True"
        BY CourseHere, <2>4
      <4> HIDE DEF i, t, y
      <4>2. Met(program, y, i)
        BY <4>1, LiftLeaf
      <4> QED
        BY <4>2 DEF i, y
    <3> QED
      BY <1>3, <3>1, <3>2, <3>3, EndsWith DEF Short_
  <2> QED
    BY <2>2, <2>3, <2>4
<1>5. CASE EvalTxTemplate
  <2>1. \/ Fail("err")
        \/ Goto(stack, <<>>, <<<<"TxTemplate", Node.args[1]>>>>)
    BY <1>5, <1>2, Zenon DEF EvalTxTemplate, Fresh
  <2>2. Node.frag = "TxTemplate"
    BY <1>5 DEF EvalTxTemplate, At
  <2> QED
    BY <2>1, <2>2, LeafYields, FailKept
<1>6. CASE EvalAfter
  <2>1. \/ Fail("err")
        \/ Goto(Append(stack, Satisfied_), <<>>, <<<<"AbsoluteTimelock", Node.k>>>>)
    BY <1>6, <1>2, Zenon DEF EvalAfter, Fresh
  <2>2. Node.frag = "After"
    BY <1>6 DEF EvalAfter, At
  <2> QED
    BY <1>3, <2>1, <2>2, LeafYields, FailKept
<1>7. CASE EvalOlder
  <2>1. \/ Fail("err")
        \/ Goto(Append(stack, Satisfied_), <<>>, <<<<"RelativeTimelock", Node.k>>>>)
    BY <1>7, <1>2, Zenon DEF EvalOlder, Fresh
  <2>2. Node.frag = "Older"
    BY <1>7 DEF EvalOlder, At
  <2> QED
    BY <1>3, <2>1, <2>2, LeafYields, FailKept
<1> QED
  BY <1>4, <1>5, <1>6, <1>7

LEMMA HashKept ==
    ASSUME Course, EvalHash
    PROVE  Kept
<1> DEFINE h == Node.args[1]
<1>1. Running /\ RunOK /\ Node.frag \in HashFrags
  BY CourseHere DEF EvalHash, At, Running
<1>2. This.n_evaluated = 0 /\ This.n_satisfied = 0
  BY <1>1, FreshHere DEF HashFrags
<1>3. \/ Fail("err")
      \/ stack # <<>> /\ Goto(Append(Pop(1), Satisfied_), <<>>, <<<<"HashLock", h>>>>)
      \/ stack # <<>> /\ Goto(Append(Pop(1), Dissatisfied), <<>>, <<>>)
  BY <1>2, Zenon DEF EvalHash, Fresh
<1>4. stack # <<>> => Pop(1) \in Seq(Elems)
  BY <1>1, PopOne
<1>5. Node.frag \in LeafFrags /\ Node.frag # "TxTemplate"
  BY <1>1 DEF HashFrags, LeafFrags
<1>6. CASE stack # <<>> /\ Goto(Append(Pop(1), Satisfied_), <<>>, <<<<"HashLock", h>>>>)
  BY <1>1, <1>4, <1>5, <1>6, LeafYields
<1>7. CASE stack # <<>> /\ Goto(Append(Pop(1), Dissatisfied), <<>>, <<>>)
  BY <1>4, <1>5, <1>7, LeafEnds
<1> QED
  BY <1>3, <1>6, <1>7, FailKept

(* The fragments that count nothing. *)
LEMMA OtherProgress ==
    ASSUME NEW ns, NEW y, NEW s, ns[s.node].frag \notin {"AndB", "OrB", "Thresh", "Multi", "MultiA"}
    PROVE  Progress(ns, y, s)
  BY DEF Progress

LEMMA SelfProgress ==
    ASSUME NEW y
    PROVE  /\ Node.frag \notin {"AndB", "OrB", "Thresh", "Multi", "MultiA"} =>
                \A n, m : Progress(program, y, Self(n, m))
           /\ Node.frag \notin {"Multi", "MultiA"} => Progress(program, y, Self(1, 0))
<1>1. \A n, m : Self(n, m).node = This.node /\ Self(n, m).n_evaluated = n /\ Self(n, m).n_satisfied = m
  BY Again
<1>2. ASSUME Node.frag \notin {"AndB", "OrB", "Thresh", "Multi", "MultiA"}, NEW n, NEW m
      PROVE  Progress(program, y, Self(n, m))
  <2> DEFINE s == Self(n, m)
  <2>1. program[s.node].frag \notin {"AndB", "OrB", "Thresh", "Multi", "MultiA"}
    BY <1>1, <1>2 DEF Node
  <2> HIDE DEF s
  <2> QED
    BY <2>1, OtherProgress DEF s
<1>3. ASSUME Node.frag \notin {"Multi", "MultiA"} PROVE Progress(program, y, Self(1, 0))
  <2> DEFINE s == Self(1, 0)
  <2>1. program[s.node].frag \notin {"Multi", "MultiA"} /\ s.n_evaluated = 1 /\ s.n_satisfied = 0
    BY <1>1, <1>3 DEF Node
  <2> HIDE DEF s
  <2> QED
    BY <2>1, NoProgress DEF s
<1> QED
  BY <1>2, <1>3

(* The fragment in hand follows from its children. *)
LEMMA Follows ==
    ASSUME Course
    PROVE  LET y == Range(yielded)
               i == This.node
               x(j) == Node.subs[j]
               f == Node.frag
           IN  /\ f \in WrapFrags \cup InscribeFrags => Ent(program, y, x(1), i)
               /\ f \in {"AndV", "AndB"} => Ent2(program, y, x(1), x(2), i)
               /\ f \in {"OrB", "OrC", "OrD", "OrI"} =>
                    Ent(program, y, x(1), i) /\ Ent(program, y, x(2), i)
               /\ f = "AndOr" => Ent2(program, y, x(1), x(2), i) /\ Ent(program, y, x(3), i)
<1> DEFINE i == This.node
           t == Node
           y == Range(yielded)
<1>1. At_(program, i, t)
  BY CourseHere
<1> HIDE DEF i, t, y
<1>2. t.frag \in WrapFrags \cup InscribeFrags => Ent(program, y, t.subs[1], i)
  BY <1>1, LiftWrap
<1>3. t.frag \in {"AndV", "AndB"} => Ent2(program, y, t.subs[1], t.subs[2], i)
  BY <1>1, LiftAnd
<1>4. t.frag \in {"OrB", "OrC", "OrD", "OrI"} =>
        Ent(program, y, t.subs[1], i) /\ Ent(program, y, t.subs[2], i)
  BY <1>1, LiftOr
<1>5. t.frag = "AndOr" => Ent2(program, y, t.subs[1], t.subs[2], i) /\ Ent(program, y, t.subs[3], i)
  BY <1>1, LiftAndOr
<1> QED
  BY <1>2, <1>3, <1>4, <1>5, Zenon DEF i, t, y

(* The results that need no more constraints. *)
LEMMA Results ==
    ASSUME Course
    PROVE  LET i == This.node
               y == Range(yielded)
           IN  /\ \A e \in {Satisfied_, Dissatisfied} : \A st \in Seq(Elems) :
                    /\ ~IsV(program, i) /\ (e = Satisfied_ => Met(program, y, i))
                    /\ Goto(Append(st, e), <<>>, <<>>)
                    => Kept
               /\ \A st : IsV(program, i) /\ Met(program, y, i) /\ Goto(st, <<>>, <<>>) => Kept
               /\ ~IsV(program, i) /\ stack # <<>> /\ Peek(1) = Dissatisfied
                  /\ Goto(stack, <<>>, <<>>) => Kept
<1>1. Now(<<>>) = Range(yielded) /\ Short_(<<>>)
  BY CourseHere, Yielded DEF Short_
<1>2. ASSUME NEW e \in {Satisfied_, Dissatisfied}, NEW st \in Seq(Elems),
             ~IsV(program, This.node), e = Satisfied_ => Met(program, Range(yielded), This.node),
             Goto(Append(st, e), <<>>, <<>>)
      PROVE  Kept
  BY <1>1, <1>2, EndsWith
<1>3. ASSUME NEW st, IsV(program, This.node), Met(program, Range(yielded), This.node),
             Goto(st, <<>>, <<>>)
      PROVE  Kept
  BY <1>1, <1>3, EndsVerified
<1> QED
  BY <1>2, <1>3, EndsDissatisfied

LEMMA ThisSubs ==
    ASSUME Course
    PROVE  /\ Len(Node.subs) \in Nat /\ DOMAIN Node.subs = 1..Len(Node.subs)
           /\ Node.frag \in WrapFrags \cup InscribeFrags => 1 \in DOMAIN Node.subs
           /\ Node.frag \in BinaryFrags => 1 \in DOMAIN Node.subs /\ 2 \in DOMAIN Node.subs
           /\ Node.frag = "AndOr" =>
                1 \in DOMAIN Node.subs /\ 2 \in DOMAIN Node.subs /\ 3 \in DOMAIN Node.subs
<1> DEFINE i == This.node
           t == Node
<1>1. At_(program, i, t)
  BY CourseHere
<1> HIDE DEF i, t
<1> QED
  BY <1>1, Subs DEF t

LEMMA WrapperKept ==
    ASSUME Course, Descend \/ EvalDupIf \/ EvalVerify \/ EvalZeroNotEqual \/ EvalNonZero
    PROVE  Kept
<1> DEFINE y == Range(yielded)
           i == This.node
           x == Node.subs[1]
<1>1. Running /\ RunOK /\ Node.frag \in WrapFrags \cup InscribeFrags
  BY CourseHere DEF Descend, EvalDupIf, EvalVerify, EvalZeroNotEqual, EvalNonZero, At, Running,
                    WrapFrags
<1>2. 1 \in DOMAIN Node.subs /\ Ent(program, y, x, i)
  BY <1>1, ThisSubs, Follows
<1>3. Met(program, y, x) => Met(program, y, i)
  BY <1>2, Entailed
<1>4. Node.frag \notin {"AndB", "OrB", "Thresh", "Multi", "MultiA"}
  BY <1>1 DEF WrapFrags, InscribeFrags
<1>5. \A n, m : Progress(program, y, Self(n, m))
  BY <1>4, SelfProgress
<1>6. \A st, m : Goto(st, <<Self(1, m), Sub(1)>>, <<>>) => Kept
  BY <1>2, <1>4, <1>5, GotoChild
<1>7. stack \in Seq(Elems) /\ (stack # <<>> => Pop(1) \in Seq(Elems))
  BY <1>1, Popped, PopOne
<1>8. ASSUME Node.frag \in {"DupIf", "Verify", "ZeroNotEqual"}, This.n_evaluated # 0
      PROVE  /\ IsV(program, x) => Met(program, y, i)
             /\ ~IsV(program, x) => /\ Peek(1) \in {Satisfied_, Dissatisfied}
                                    /\ Peek(1) = Satisfied_ => Met(program, y, i)
  <2>1. This.n_evaluated = 1
    <3>1. This.n_evaluated \in Evaluated(Node)
      BY <1>1, Here
    <3> QED
      BY <1>8, <3>1 DEF Evaluated
  <2>2. Waits(program, This)
    BY <1>4, <1>8 DEF Waits, Node
  <2> QED
    BY <2>1, <2>2, <1>3, Answer
<1>9. CASE Descend
  <2>1. This.n_evaluated = 0 /\ This.n_satisfied = 0
    BY <1>1, <1>9, FreshHere DEF Descend, At, InscribeFrags
  <2>2. Goto(stack, <<Sub(1)>>, <<>>) /\ Node.frag \in {"Alt", "Swap", "Check"} \cup InscribeFrags
    BY <1>9, <2>1, Zenon DEF Descend, Fresh, At
  <2>3. IsV(program, x) <=> IsV(program, i)
    BY <2>2, ThisTyped
  <2> QED
    BY <1>2, <2>2, <2>3, GotoSub
<1>10. CASE EvalDupIf
  <2>1. /\ Node.frag = "DupIf"
        /\ \/ Fail("err")
           \/ This.n_evaluated = 1 /\ Goto(Append(stack, Satisfied_), <<>>, <<>>)
           \/ stack # <<>> /\ Peek(1) = Dissatisfied /\ Goto(stack, <<>>, <<>>)
           \/ Goto(Pop(1), <<Self(1, 1), Sub(1)>>, <<>>)
    BY <1>10, Zenon DEF EvalDupIf, At
  <2>2. ~IsV(program, i) /\ IsV(program, x)
    BY <2>1, ThisTyped
  <2>3. CASE This.n_evaluated = 1 /\ Goto(Append(stack, Satisfied_), <<>>, <<>>)
    BY <1>7, <1>8, <2>1, <2>2, <2>3, Results
  <2> QED
    BY <2>1, <2>2, <2>3, <1>6, Results, FailKept
<1>11. CASE EvalVerify
  <2>1. /\ Node.frag = "Verify"
        /\ \/ Fail("err")
           \/ Goto(stack, <<Self(1, 0), Sub(1)>>, <<>>)
           \/ This.n_evaluated # 0 /\ Peek(1) = Satisfied_ /\ Goto(Pop(1), <<>>, <<>>)
    BY <1>11, Zenon DEF EvalVerify, At
  <2>2. IsV(program, i) /\ ~IsV(program, x)
    BY <2>1, ThisTyped
  <2>3. CASE This.n_evaluated # 0 /\ Peek(1) = Satisfied_ /\ Goto(Pop(1), <<>>, <<>>)
    BY <1>8, <2>1, <2>2, <2>3, Results
  <2> QED
    BY <2>1, <2>3, <1>6, FailKept
<1>12. CASE EvalZeroNotEqual
  <2>1. /\ Node.frag = "ZeroNotEqual"
        /\ \/ Fail("err")
           \/ Goto(stack, <<Self(1, 0), Sub(1)>>, <<>>)
           \/ /\ This.n_evaluated # 0 /\ stack # <<>>
              /\ Goto(Append(Pop(1), Bool(Peek(1) # Dissatisfied)), <<>>, <<>>)
    BY <1>12, Zenon DEF EvalZeroNotEqual, At
  <2>2. ~IsV(program, i) /\ ~IsV(program, x)
    BY <2>1, ThisTyped
  <2>3. CASE /\ This.n_evaluated # 0 /\ stack # <<>>
             /\ Goto(Append(Pop(1), Bool(Peek(1) # Dissatisfied)), <<>>, <<>>)
    <3> DEFINE e == Bool(Peek(1) # Dissatisfied)
    <3>1. /\ e \in {Satisfied_, Dissatisfied}
          /\ e = Satisfied_ => Peek(1) # Dissatisfied
      BY Distinct DEF Bool
    <3> HIDE DEF e
    <3>2. e = Satisfied_ => Met(program, y, i)
      BY <1>8, <2>1, <2>2, <2>3, <3>1
    <3> QED
      BY <1>7, <2>2, <2>3, <3>1, <3>2, Results DEF e
  <2> QED
    BY <2>1, <2>3, <1>6, FailKept
<1>13. CASE EvalNonZero
  <2>1. This.n_evaluated = 0 /\ This.n_satisfied = 0
    BY <1>1, <1>13, FreshHere DEF EvalNonZero, At
  <2>2. /\ Node.frag = "NonZero"
        /\ \/ Fail("err")
           \/ stack # <<>> /\ Peek(1) = Dissatisfied /\ Goto(stack, <<>>, <<>>)
           \/ Goto(stack, <<Sub(1)>>, <<>>)
    BY <1>13, <2>1, Zenon DEF EvalNonZero, Fresh, At
  <2>3. ~IsV(program, i) /\ ~IsV(program, x)
    BY <2>2, ThisTyped
  <2>4. CASE Goto(stack, <<Sub(1)>>, <<>>)
    BY <1>2, <2>3, <2>4, GotoSub
  <2> QED
    BY <2>2, <2>3, <2>4, Results, FailKept
<1> QED
  BY <1>9, <1>10, <1>11, <1>12, <1>13

LEMMA AndVKept ==
    ASSUME Course, EvalAndV
    PROVE  Kept
<1> DEFINE y == Range(yielded)
           a == Sub(2)
           b == Sub(1)
<1>1. Running /\ Node.frag = "AndV"
  BY CourseHere DEF EvalAndV, At, Running
<1>2. This.n_evaluated = 0 /\ This.n_satisfied = 0
  BY <1>1, FreshHere
<1>3. Goto(stack, <<a, b>>, <<>>)
  BY <1>2, Zenon DEF EvalAndV, Fresh
<1>4. 1 \in DOMAIN Node.subs /\ 2 \in DOMAIN Node.subs
  BY <1>1, ThisSubs DEF BinaryFrags
<1>5. /\ ~Waits(program, a) /\ Progress(program, y, a) /\ a.node = Node.subs[2]
      /\ ~Waits(program, b) /\ Progress(program, y, b) /\ b.node = Node.subs[1]
      /\ b.node \in 1..Len(program)
  BY <1>4, Fresh_
<1>6. /\ IsV(program, Node.subs[1])
      /\ IsV(program, This.node) <=> IsV(program, Node.subs[2])
      /\ Ent2(program, y, Node.subs[1], Node.subs[2], This.node)
  BY <1>1, ThisTyped, Follows
<1> HIDE DEF a, b
<1> QED
  BY <1>3, <1>5, <1>6, GotoCalls

LEMMA BothKept ==
    ASSUME Course, EvalBoth
    PROVE  Kept
<1> DEFINE y == Range(yielded)
           i == This.node
           n == This.n_evaluated
           q == IF Peek(1) = Satisfied_ THEN 1 ELSE 0
           left == This.n_satisfied = 1
           e == Bool(IF Node.frag = "AndB" THEN left /\ Peek(1) = Satisfied_
                     ELSE left \/ Peek(1) # Dissatisfied)
<1>1. Running /\ RunOK /\ Node.frag \in {"AndB", "OrB"}
  BY CourseHere DEF EvalBoth, At, Running
<1>2. n \in 0..2 /\ (n # 0 => Waits(program, This))
  <2>1. n \in Evaluated(Node)
    BY <1>1, Here
  <2> QED
    BY <1>1, <2>1 DEF Evaluated, Waits, Node
<1>3. \/ Fail("err")
      \/ Goto(stack, <<Self(1, 0), Sub(1)>>, <<>>)
      \/ n = 1 /\ Goto(Pop(1), <<Self(2, q), Sub(2)>>, <<>>)
      \/ n # 0 /\ n # 1 /\ stack # <<>> /\ Goto(Append(Pop(1), e), <<>>, <<>>)
  BY Zenon DEF EvalBoth
<1>4. 1 \in DOMAIN Node.subs /\ 2 \in DOMAIN Node.subs
  BY <1>1, ThisSubs DEF BinaryFrags
<1>5. ~IsV(program, i) /\ ~IsV(program, Node.subs[1]) /\ ~IsV(program, Node.subs[2])
  BY <1>1, ThisTyped
<1>6. n = 1 => /\ Peek(1) \in {Satisfied_, Dissatisfied}
               /\ Peek(1) = Satisfied_ => Met(program, y, Node.subs[1])
  <2> SUFFICES ASSUME n = 1 PROVE /\ Peek(1) \in {Satisfied_, Dissatisfied}
                                  /\ Peek(1) = Satisfied_ => Met(program, y, Node.subs[1])
    OBVIOUS
  <2>1. Waits(program, This)
    BY <1>2
  <2> QED
    BY <2>1, <1>5, Answer
<1>7. n = 2 => /\ Peek(1) \in {Satisfied_, Dissatisfied}
               /\ Peek(1) = Satisfied_ => Met(program, y, Node.subs[2])
               /\ left => Met(program, y, Node.subs[1])
  <2> SUFFICES ASSUME n = 2 PROVE /\ Peek(1) \in {Satisfied_, Dissatisfied}
                                  /\ Peek(1) = Satisfied_ => Met(program, y, Node.subs[2])
                                  /\ left => Met(program, y, Node.subs[1])
    OBVIOUS
  <2>1. Waits(program, This)
    BY <1>2
  <2>2. Progress(program, y, This)
    BY CourseHere
  <2>3. left => Met(program, y, Node.subs[1])
    BY <1>1, <2>2 DEF Progress, Node
  <2> QED
    BY <2>1, <2>3, <1>5, Answer
<1>8. CASE Goto(stack, <<Self(1, 0), Sub(1)>>, <<>>)
  BY <1>1, <1>4, <1>8, SelfProgress, GotoChild
<1>9. CASE n = 1 /\ Goto(Pop(1), <<Self(2, q), Sub(2)>>, <<>>)
  <2> DEFINE s == Self(2, q)
  <2>1. s.node = i /\ s.n_evaluated = 2 /\ s.n_satisfied = q
    BY Again
  <2>2. q = 1 => Met(program, y, Node.subs[1])
    BY <1>6, <1>9
  <2> HIDE DEF s, q
  <2>3. program[s.node] = Node
    BY <2>1 DEF Node
  <2>4. Progress(program, y, s)
    BY <1>1, <2>1, <2>2, <2>3 DEF Progress
  <2> QED
    BY <1>1, <1>4, <1>9, <2>4, GotoChild DEF s
<1>10. CASE n # 0 /\ n # 1 /\ stack # <<>> /\ Goto(Append(Pop(1), e), <<>>, <<>>)
  <2>1. n = 2
    BY <1>2, <1>10
  <2>2. e \in {Satisfied_, Dissatisfied}
    BY DEF Bool
  <2>3. ASSUME e = Satisfied_ PROVE Met(program, y, i)
    <3>1. CASE Node.frag = "AndB"
      <4>1. left /\ Peek(1) = Satisfied_
        BY <2>3, <3>1, Distinct DEF Bool
      <4>2. Met(program, y, Node.subs[1]) /\ Met(program, y, Node.subs[2])
        BY <4>1, <2>1, <1>7
      <4>3. Ent2(program, y, Node.subs[1], Node.subs[2], i)
        BY <3>1, Follows
      <4> QED
        BY <4>2, <4>3, Entailed
    <3>2. CASE Node.frag = "OrB"
      <4>1. left \/ Peek(1) # Dissatisfied
        BY <2>3, <3>2, Distinct DEF Bool
      <4>2. Met(program, y, Node.subs[1]) \/ Met(program, y, Node.subs[2])
        BY <4>1, <2>1, <1>7
      <4>3. Ent(program, y, Node.subs[1], i) /\ Ent(program, y, Node.subs[2], i)
        BY <3>2, Follows
      <4> QED
        BY <4>2, <4>3, Entailed
    <3> QED
      BY <1>1, <3>1, <3>2
  <2>4. Pop(1) \in Seq(Elems)
    BY <1>1, <1>10, PopOne
  <2> HIDE DEF e
  <2> QED
    BY <1>5, <1>10, <2>2, <2>3, <2>4, Results
<1> QED
  BY <1>3, <1>8, <1>9, <1>10, FailKept

LEMMA LeftKept ==
    ASSUME Course, EvalLeft
    PROVE  Kept
<1>1. Node.frag \in {"AndOr", "OrC", "OrD"} /\ Goto(stack, <<Self(1, 0), Sub(1)>>, <<>>)
  BY DEF EvalLeft, At
<1>2. 1 \in DOMAIN Node.subs
  BY <1>1, ThisSubs DEF BinaryFrags
<1> QED
  BY <1>1, <1>2, SelfProgress, GotoChild

(* What EvalBranch goes on with. *)
LEMMA BranchSteps ==
    ASSUME Course, EvalBranch
    PROVE  \/ Fail("err")
           \/ /\ stack # <<>> /\ Peek(1) = Satisfied_
              /\ \/ Node.frag = "OrC" /\ Goto(Pop(1), <<>>, <<>>)
                 \/ Node.frag = "OrD" /\ Goto(Append(Pop(1), Satisfied_), <<>>, <<>>)
                 \/ Node.frag = "AndOr" /\ Goto(Pop(1), <<Sub(2)>>, <<>>)
                 \/ Node.frag = "OrI" /\ Goto(Pop(1), <<Sub(1)>>, <<>>)
           \/ \/ Node.frag \in {"OrC", "OrD", "OrI"} /\ Goto(Pop(1), <<Sub(2)>>, <<>>)
              \/ Node.frag = "AndOr" /\ Goto(Pop(1), <<Sub(3)>>, <<>>)
<1> DEFINE k == IF Peek(1) = Satisfied_ THEN 1 ELSE 2
           b == Branches[Node.frag][k]
           push == [j \in DOMAIN b.subs |-> Sub(b.subs[j])]
           f == Node.frag
<1>1. RunOK /\ f \in {"AndOr", "OrC", "OrD", "OrI"}
  BY CourseHere DEF EvalBranch, At, Running
<1>2. Fail("err") \/ (stack # <<>> /\ Goto(Pop(1) \o b.push, push, <<>>))
  BY Zenon DEF EvalBranch
<1>3. /\ k = 1 => /\ f = "OrC" => b.push = <<>> /\ b.subs = <<>>
                  /\ f = "OrD" => b.push = <<Satisfied_>> /\ b.subs = <<>>
                  /\ f = "AndOr" => b.push = <<>> /\ b.subs = <<2>>
                  /\ f = "OrI" => b.push = <<>> /\ b.subs = <<1>>
      /\ k = 2 => /\ f \in {"OrC", "OrD", "OrI"} => b.push = <<>> /\ b.subs = <<2>>
                  /\ f = "AndOr" => b.push = <<>> /\ b.subs = <<3>>
  <2>1. /\ Branches["OrC"] = <<Branch(<<>>, <<>>), Branch(<<>>, <<2>>)>>
        /\ Branches["OrD"] = <<Branch(<<Satisfied_>>, <<>>), Branch(<<>>, <<2>>)>>
        /\ Branches["AndOr"] = <<Branch(<<>>, <<2>>), Branch(<<>>, <<3>>)>>
        /\ Branches["OrI"] = <<Branch(<<>>, <<1>>), Branch(<<>>, <<2>>)>>
    BY DEF Branches
  <2>2. \A push_, subs_ : Branch(push_, subs_).push = push_ /\ Branch(push_, subs_).subs = subs_
    BY DEF Branch
  <2>3. k \in {1, 2} /\ b = Branches[f][k]
    OBVIOUS
  <2> HIDE DEF k, b, f
  <2> QED  BY <1>1, <2>1, <2>2, <2>3, SMTT(30)
<1>4. k \in {1, 2} /\ (k = 1 => Peek(1) = Satisfied_)
  OBVIOUS
<1>5. /\ b.subs = <<>> => push = <<>>
      /\ \A j : b.subs = <<j>> => push = <<Sub(j)>>
  <2> DEFINE sub(j) == Sub(j)
             subs == b.subs
  <2> HIDE DEF sub, subs
  <2>1. subs = <<>> => [j \in DOMAIN subs |-> sub(subs[j])] = <<>>
    OBVIOUS
  <2>2. ASSUME NEW j, subs = <<j>> PROVE [l \in DOMAIN subs |-> sub(subs[l])] = <<sub(j)>>
    BY <2>2
  <2> QED
    BY <2>1, <2>2 DEF sub, subs
<1>6. stack # <<>> => Pop(1) \o <<>> = Pop(1) /\ Pop(1) \o <<Satisfied_>> = Append(Pop(1), Satisfied_)
  <2> SUFFICES ASSUME stack # <<>>
               PROVE  Pop(1) \o <<>> = Pop(1) /\ Pop(1) \o <<Satisfied_>> = Append(Pop(1), Satisfied_)
    OBVIOUS
  <2> DEFINE s == Pop(1)
             E == Elems
             x == Satisfied_
  <2>1. s \in Seq(E) /\ x \in E
    BY <1>1, PopOne DEF Elems
  <2> HIDE DEF s, E, x
  <2>2. s \o <<>> = s /\ s \o <<x>> = Append(s, x)
    BY <2>1
  <2> QED
    BY <2>2 DEF s, x
<1> HIDE DEF push, b, k
<1>7. CASE k = 1
  BY <1>1, <1>2, <1>3, <1>4, <1>5, <1>6, <1>7
<1>8. CASE k = 2
  BY <1>1, <1>2, <1>3, <1>4, <1>5, <1>6, <1>8
<1> QED
  BY <1>4, <1>7, <1>8

LEMMA BranchKept ==
    ASSUME Course, EvalBranch
    PROVE  Kept
<1> DEFINE y == Range(yielded)
           i == This.node
           x(j) == Node.subs[j]
           f == Node.frag
<1>1. RunOK /\ Running /\ f \in {"AndOr", "OrC", "OrD", "OrI"}
  BY CourseHere DEF EvalBranch, At, Running
<1>2. /\ f \in {"OrC", "OrD", "OrI"} => Ent(program, y, x(1), i) /\ Ent(program, y, x(2), i)
      /\ f = "AndOr" => Ent2(program, y, x(1), x(2), i) /\ Ent(program, y, x(3), i)
  BY Follows
<1>3. /\ f = "OrC" => IsV(program, i) /\ IsV(program, x(2))
      /\ f = "OrD" => ~IsV(program, i) /\ ~IsV(program, x(2))
      /\ f = "OrI" => /\ IsV(program, i) <=> IsV(program, x(1))
                      /\ IsV(program, i) <=> IsV(program, x(2))
      /\ f = "AndOr" => /\ IsV(program, i) <=> IsV(program, x(2))
                        /\ IsV(program, i) <=> IsV(program, x(3))
      /\ f \in {"OrC", "OrD", "AndOr"} => ~IsV(program, x(1))
  BY ThisTyped
<1>4. /\ 1 \in DOMAIN Node.subs /\ 2 \in DOMAIN Node.subs
      /\ f = "AndOr" => 3 \in DOMAIN Node.subs
  BY <1>1, ThisSubs DEF BinaryFrags
<1>5. ASSUME f \in {"OrC", "OrD", "AndOr"}, Peek(1) = Satisfied_ PROVE Met(program, y, x(1))
  <2>1. This.n_evaluated = 1
    BY <1>5 DEF EvalBranch
  <2>2. Waits(program, This)
    BY <1>5, <2>1 DEF Waits, Node
  <2> QED
    BY <1>3, <1>5, <2>1, <2>2, Answer
<1>6. CASE /\ stack # <<>> /\ Peek(1) = Satisfied_
           /\ \/ f = "OrC" /\ Goto(Pop(1), <<>>, <<>>)
              \/ f = "OrD" /\ Goto(Append(Pop(1), Satisfied_), <<>>, <<>>)
  <2>1. Met(program, y, i)
    BY <1>2, <1>5, <1>6, Entailed
  <2>2. Pop(1) \in Seq(Elems)
    BY <1>1, <1>6, PopOne
  <2> QED
    BY <1>3, <1>6, <2>1, <2>2, Results
<1>7. CASE f = "AndOr" /\ Peek(1) = Satisfied_ /\ Goto(Pop(1), <<Sub(2)>>, <<>>)
  <2>1. Ent(program, y, x(2), i)
    BY <1>2, <1>5, <1>7, Entailed
  <2> QED
    BY <1>3, <1>4, <1>7, <2>1, GotoSub
<1>8. CASE f = "OrI" /\ Goto(Pop(1), <<Sub(1)>>, <<>>)
  BY <1>2, <1>3, <1>4, <1>8, GotoSub
<1>9. CASE f \in {"OrC", "OrD", "OrI"} /\ Goto(Pop(1), <<Sub(2)>>, <<>>)
  BY <1>2, <1>3, <1>4, <1>9, GotoSub
<1>10. CASE f = "AndOr" /\ Goto(Pop(1), <<Sub(3)>>, <<>>)
  BY <1>2, <1>3, <1>4, <1>10, GotoSub
<1> QED
  BY <1>6, <1>7, <1>8, <1>9, <1>10, BranchSteps, FailKept

(* One more element of an interval is counted. *)
LEMMA CountOne ==
    ASSUME NEW a \in Int, NEW b \in Int, NEW S \in SUBSET (a..b), NEW x, x \notin S
    PROVE  /\ IsFiniteSet(S) /\ Cardinality(S) \in Nat
           /\ Cardinality(S \cup {x}) = Cardinality(S) + 1
<1>1. IsFiniteSet(a..b)
  BY FS_Interval
<1>2. IsFiniteSet(S)
  BY <1>1, FS_Subset
<1> QED
  BY <1>2, FS_CardinalityType, FS_AddElement

LEMMA ThreshCounts ==
    ASSUME Course, Node.frag = "Thresh", This.n_evaluated # 0
    PROVE  \E T \in SUBSET (1..This.n_evaluated) :
                /\ Cardinality(T) = This.n_satisfied + (IF Peek(1) = Satisfied_ THEN 1 ELSE 0)
                /\ \A j \in T : Met(program, Range(yielded), Node.subs[j])
<1> DEFINE e == This.n_evaluated
           m == This.n_satisfied
           met(j) == Met(program, Range(yielded), Node.subs[j])
           sat == Peek(1) = Satisfied_
<1>1. e \in Nat /\ e # 0 /\ e \in 1..Len(Node.subs)
  <2>1. Running
    BY CourseHere
  <2>2. e \in Nat /\ e \in Evaluated(Node) /\ NodeOK(This.node, Node)
    BY <2>1, Here
  <2>3. e \in 0..Len(Node.subs) /\ Len(Node.subs) \in Nat
    BY <2>2 DEF Evaluated, NodeOK
  <2> QED
    BY <2>2, <2>3
<1>2. PICK S \in SUBSET (1..(e - 1)) : Cardinality(S) = m /\ \A j \in S : met(j)
  <2>1. Progress(program, Range(yielded), This)
    BY CourseHere
  <2> QED
    BY <2>1, Zenon DEF Progress, Node
<1>3. sat => met(e)
  <2>1. Waits(program, This)
    BY DEF Waits, Node
  <2>2. ~IsV(program, Node.subs[e])
    BY <1>1, ThisTyped, ThisSubs
  <2> QED
    BY <2>1, <2>2, Answer
<1> HIDE DEF e, m, met, sat
<1>4. e \notin S /\ S \subseteq 1..e
  BY <1>1
<1>5. /\ Cardinality(S) \in Nat /\ Cardinality(S \cup {e}) = Cardinality(S) + 1
  <2>1. 1 \in Int /\ e - 1 \in Int
    BY <1>1
  <2> QED
    BY <2>1, <1>4, CountOne
<1>6. \E T \in SUBSET (1..e) : Cardinality(T) = m + (IF sat THEN 1 ELSE 0) /\ \A j \in T : met(j)
  <2>1. CASE sat
    <3>1. S \cup {e} \in SUBSET (1..e)
      BY <1>1, <1>4
    <3>2. Cardinality(S \cup {e}) = m + 1 /\ \A j \in S \cup {e} : met(j)
      BY <1>2, <1>3, <1>5, <2>1
    <3> QED
      BY <3>1, <3>2, <2>1
  <2>2. CASE ~sat
    <3>1. S \in SUBSET (1..e) /\ m + 0 = m
      BY <1>2, <1>4, <1>5
    <3> QED
      BY <3>1, <1>2, <2>2
  <2> QED
    BY <2>1, <2>2
<1> QED
  BY <1>6 DEF e, m, met, sat

LEMMA ThreshKept ==
    ASSUME Course, EvalThresh
    PROVE  Kept
<1> DEFINE n == Len(Node.subs)
           e == This.n_evaluated
           m == This.n_satisfied + (IF Peek(1) = Satisfied_ THEN 1 ELSE 0)
           y == Range(yielded)
           i == This.node
<1>1. Running /\ RunOK /\ Node.frag = "Thresh"
  BY CourseHere DEF EvalThresh, At, Running
<1>2. \/ Fail("err")
      \/ Goto(stack, <<Self(1, 0), Sub(1)>>, <<>>)
      \/ /\ e # 0 /\ e = n /\ stack # <<>>
         /\ Goto(Append(Pop(1), Bool(m = Node.k)), <<>>, <<>>)
      \/ e # 0 /\ e # n /\ stack # <<>> /\ Goto(Pop(1), <<Self(e + 1, m), Sub(e + 1)>>, <<>>)
  BY Zenon DEF EvalThresh
<1>3. n \in Nat /\ n >= 1 /\ e \in 0..n /\ DOMAIN Node.subs = 1..n
  <2>1. NodeOK(i, Node) /\ e \in Evaluated(Node)
    BY <1>1, Here
  <2>2. Evaluated(Node) = 0..n
    BY <1>1 DEF Evaluated
  <2> QED
    BY <2>1, <2>2, <1>1 DEF NodeOK
<1>4. ~IsV(program, i)
  BY <1>1, ThisTyped
<1>5. CASE Goto(stack, <<Self(1, 0), Sub(1)>>, <<>>)
  BY <1>1, <1>3, <1>5, SelfProgress, GotoChild
<1>6. CASE /\ e # 0 /\ e = n /\ stack # <<>>
           /\ Goto(Append(Pop(1), Bool(m = Node.k)), <<>>, <<>>)
  <2>1. PICK T \in SUBSET (1..e) : Cardinality(T) = m /\ \A j \in T : Met(program, y, Node.subs[j])
    BY <1>1, <1>6, ThreshCounts
  <2>2. m = Node.k => Met(program, y, i)
    <3> SUFFICES ASSUME m = Node.k PROVE Met(program, y, i)
      OBVIOUS
    <3> DEFINE t == Node
    <3>1. /\ At_(program, i, t) /\ t.frag = "Thresh" /\ T \in SUBSET (1..Len(t.subs))
          /\ \A j \in T : Met(program, y, t.subs[j])
          /\ Cardinality(T) = t.k
      BY <1>1, <1>6, <2>1, CourseHere
    <3> HIDE DEF i, t, y
    <3> QED
      BY <3>1, LiftThresh
  <2> DEFINE r == Bool(m = Node.k)
  <2>3. r \in {Satisfied_, Dissatisfied} /\ (r = Satisfied_ => m = Node.k)
    BY Distinct DEF Bool
  <2>4. Pop(1) \in Seq(Elems)
    BY <1>1, <1>6, PopOne
  <2> HIDE DEF r
  <2> QED
    BY <1>4, <1>6, <2>2, <2>3, <2>4, Results DEF r
<1>7. CASE e # 0 /\ e # n /\ stack # <<>> /\ Goto(Pop(1), <<Self(e + 1, m), Sub(e + 1)>>, <<>>)
  <2>1. PICK T \in SUBSET (1..e) : Cardinality(T) = m /\ \A j \in T : Met(program, y, Node.subs[j])
    BY <1>1, <1>7, ThreshCounts
  <2>2. e + 1 \in DOMAIN Node.subs /\ e + 1 # 0 /\ (e + 1) - 1 = e
    BY <1>3, <1>7
  <2> DEFINE s == Self(e + 1, m)
  <2>3. s.node = i /\ s.n_evaluated = e + 1 /\ s.n_satisfied = m
    BY Again
  <2> HIDE DEF s
  <2>4. program[s.node] = Node
    BY <2>3 DEF Node
  <2>5. Progress(program, y, s)
    <3>1. \E S \in SUBSET (1..(s.n_evaluated - 1)) :
            Cardinality(S) = s.n_satisfied /\ \A j \in S : Met(program, y, Node.subs[j])
      BY <2>1, <2>2, <2>3
    <3> QED
      BY <1>1, <2>4, <3>1 DEF Progress
  <2> QED
    BY <1>1, <1>7, <2>2, <2>5, GotoChild DEF s
<1> QED
  BY <1>2, <1>5, <1>6, <1>7, FailKept

(* The key that a multisignature tries next. *)
NextTried == IF Node.frag = "MultiA" THEN This.n_evaluated + 1
             ELSE Len(Node.args) - This.n_evaluated

LEMMA MultiHere ==
    ASSUME Course, Node.frag \in {"Multi", "MultiA"}
    PROVE  /\ Running /\ RunOK /\ ~IsV(program, This.node)
           /\ Len(Node.args) \in Nat /\ This.n_evaluated \in 0..Len(Node.args)
           /\ Tried(Node, This.n_evaluated) \subseteq 1..Len(Node.args)
           /\ \E S \in SUBSET Tried(Node, This.n_evaluated) :
                /\ Cardinality(S) = This.n_satisfied
                /\ \A j \in S : <<"PublicKey", Node.args[j]>> \in Range(yielded)
<1>1. Running /\ RunOK
  BY CourseHere DEF Running
<1>2. NodeOK(This.node, Node) /\ This.n_evaluated \in Evaluated(Node)
  BY <1>1, Here
<1>3. Len(Node.args) \in Nat /\ This.n_evaluated \in 0..Len(Node.args)
  BY <1>2 DEF NodeOK, Evaluated
<1>4. Tried(Node, This.n_evaluated) \subseteq 1..Len(Node.args)
  <2> DEFINE n == Len(Node.args)
             e == This.n_evaluated
  <2>1. n \in Nat /\ e \in 0..n
    BY <1>3
  <2> HIDE DEF n, e
  <2>2. 1..e \subseteq 1..n /\ (n + 1 - e)..n \subseteq 1..n
    BY <2>1
  <2> QED
    BY <2>2 DEF Tried, n, e
<1>5. ~IsV(program, This.node)
  <2>1. Node.frag \in LeafFrags /\ Node.frag # "TxTemplate"
    BY DEF LeafFrags
  <2> QED
    BY <2>1, ThisTyped
<1>6. Progress(program, Range(yielded), This)
  BY CourseHere
<1>7. \E S \in SUBSET Tried(Node, This.n_evaluated) :
                /\ Cardinality(S) = This.n_satisfied
                /\ \A j \in S : <<"PublicKey", Node.args[j]>> \in Range(yielded)
  BY <1>6, Zenon DEF Progress, Node
<1> QED
  BY <1>1, <1>3, <1>4, <1>5, <1>7

LEMMA MultiEnds ==
    ASSUME Course, Node.frag \in {"Multi", "MultiA"}, NEW st \in Seq(Elems),
           NEW e \in {Satisfied_, Dissatisfied},
           e = Satisfied_ => This.n_satisfied = Node.k,
           Goto(Append(st, e), <<>>, <<>>)
    PROVE  Kept
<1>1. ~IsV(program, This.node)
  BY MultiHere
<1>2. This.n_satisfied = Node.k => Met(program, Range(yielded), This.node)
  <2> SUFFICES ASSUME This.n_satisfied = Node.k PROVE Met(program, Range(yielded), This.node)
    OBVIOUS
  <2> DEFINE i == This.node
             t == Node
             y == Range(yielded)
  <2>1. PICK S \in SUBSET Tried(t, This.n_evaluated) :
                /\ Cardinality(S) = This.n_satisfied
                /\ \A j \in S : <<"PublicKey", t.args[j]>> \in y
    BY MultiHere
  <2>2. S \in SUBSET (1..Len(t.args))
    BY MultiHere
  <2>3. At_(program, i, t) /\ t.frag \in {"Multi", "MultiA"} /\ Cardinality(S) = t.k
    BY <2>1, CourseHere
  <2> HIDE DEF i, t, y
  <2>4. Met(program, y, i)
    BY <2>1, <2>2, <2>3, LiftMulti
  <2> QED
    BY <2>4 DEF i, y
<1> QED
  BY <1>1, <1>2, Results

LEMMA MultiGoesOn ==
    ASSUME Course, Node.frag \in {"Multi", "MultiA"}, This.n_evaluated # Len(Node.args),
           NEW st, NEW m, NEW cs,
           \/ cs = <<>> /\ m = This.n_satisfied
           \/ cs = <<<<"PublicKey", Node.args[NextTried]>>>> /\ m = This.n_satisfied + 1,
           Goto(st, <<Self(This.n_evaluated + 1, m)>>, cs)
    PROVE  Kept
<1> DEFINE t == Node
           e == This.n_evaluated
           s == Self(e + 1, m)
           y == Range(yielded)
           z == Now(cs)
           x == NextTried
           q == This.n_satisfied
           in_(j, w) == <<"PublicKey", t.args[j]>> \in w
<1>1. Running /\ Len(t.args) \in Nat /\ e \in 0..Len(t.args) /\ e # Len(t.args)
  BY MultiHere
<1>2. y \subseteq z /\ Short_(cs)
  <2>1. Short_(cs)
    BY Zenon DEF Short_
  <2> QED
    BY <1>1, <2>1, YieldedShort
<1>3. PICK S \in SUBSET Tried(t, e) : Cardinality(S) = q /\ \A j \in S : in_(j, y)
  BY MultiHere
<1>4. /\ S \subseteq Tried(t, e + 1) /\ x \in Tried(t, e + 1) /\ x \notin S
      /\ Cardinality(S) \in Nat /\ Cardinality(S \cup {x}) = Cardinality(S) + 1
  <2> DEFINE n == Len(t.args)
  <2>1. n \in Nat /\ e \in 0..n /\ e # n
    BY <1>1
  <2>2. CASE t.frag = "MultiA"
    <3>1. Tried(t, e) = 1..e /\ Tried(t, e + 1) = 1..(e + 1) /\ x = e + 1
      BY <2>2 DEF Tried, NextTried
    <3> HIDE DEF e, n, x, t
    <3>2. S \in SUBSET (1..e) /\ 1 \in Int /\ e \in Int /\ x \notin S
      BY <2>1, <3>1
    <3>3. S \subseteq 1..(e + 1) /\ x \in 1..(e + 1)
      BY <2>1, <3>1, <3>2
    <3>4. Cardinality(S) \in Nat /\ Cardinality(S \cup {x}) = Cardinality(S) + 1
      BY <3>2, CountOne
    <3> QED
      BY <3>1, <3>2, <3>3, <3>4
  <2>3. CASE t.frag # "MultiA"
    <3>1. Tried(t, e) = (n + 1 - e)..n /\ Tried(t, e + 1) = (n + 1 - (e + 1))..n /\ x = n - e
      BY <2>3 DEF Tried, NextTried
    <3> HIDE DEF e, n, x, t
    <3>2. S \in SUBSET ((n + 1 - e)..n) /\ n + 1 - e \in Int /\ n \in Int /\ x \notin S
      BY <2>1, <3>1
    <3>3. S \subseteq (n + 1 - (e + 1))..n /\ x \in (n + 1 - (e + 1))..n
      BY <2>1, <3>1, <3>2
    <3>4. Cardinality(S) \in Nat /\ Cardinality(S \cup {x}) = Cardinality(S) + 1
      BY <3>2, CountOne
    <3> QED
      BY <3>1, <3>2, <3>3, <3>4
  <2> QED
    BY <2>2, <2>3
<1>5. \E R \in SUBSET Tried(t, e + 1) : Cardinality(R) = m /\ \A j \in R : in_(j, z)
  <2>1. CASE cs = <<>> /\ m = q
    BY <1>2, <1>3, <1>4, <2>1
  <2>2. CASE cs = <<<<"PublicKey", t.args[x]>>>> /\ m = q + 1
    <3>1. in_(x, z)
      BY <1>1, <2>2, Yielded
    <3>2. \A j \in S \cup {x} : in_(j, z)
      BY <1>2, <1>3, <3>1
    <3>3. S \cup {x} \in SUBSET Tried(t, e + 1) /\ Cardinality(S \cup {x}) = m
      BY <1>3, <1>4, <2>2
    <3> HIDE DEF x, z, t, e, in_
    <3> QED
      BY <3>2, <3>3
  <2> QED
    BY <2>1, <2>2
<1>6. s.node = This.node /\ s.n_evaluated = e + 1 /\ s.n_satisfied = m
  BY Again
<1>7. t.frag \in {"Multi", "MultiA"} /\ t = program[This.node]
  BY DEF Node
<1>8. Goto(st, <<s>>, cs)
  OBVIOUS
<1> HIDE DEF s, e, x, z, t
<1>9. t = program[s.node]
  BY <1>6, <1>7
<1>10. Progress(program, z, s)
  BY <1>5, <1>6, <1>7, <1>9 DEF Progress
<1>11. ~Waits(program, s)
  BY <1>7, <1>9 DEF Waits
<1>12. Ent(program, z, s.node, This.node) /\ (IsV(program, s.node) <=> IsV(program, This.node))
  BY <1>6, Entailed
<1> QED
  BY <1>2, <1>8, <1>10, <1>11, <1>12, GotoBecomes DEF z

LEMMA MultiAKept ==
    ASSUME Course, EvalMultiA
    PROVE  Kept
<1> DEFINE n == This.n_evaluated
           key == Node.args[n + 1]
           last == n = Len(Node.args)
           e == Bool(This.n_satisfied = Node.k)
<1>1. Node.frag = "MultiA" /\ stack \in Seq(Elems) /\ NextTried = n + 1
  <2>1. Node.frag = "MultiA" /\ RunOK
    BY CourseHere DEF EvalMultiA, At, Running
  <2> QED
    BY <2>1, Popped DEF NextTried
<1>2. \/ Fail("err")
      \/ Goto(Append(stack, e), <<>>, <<>>)
      \/ ~last /\ Goto(Pop(1), <<Self(n + 1, This.n_satisfied + 1)>>, <<<<"PublicKey", key>>>>)
      \/ ~last /\ Goto(Pop(1), <<Self(n + 1, This.n_satisfied)>>, <<>>)
  BY Zenon DEF EvalMultiA, multi_a_result
<1>3. e \in {Satisfied_, Dissatisfied} /\ (e = Satisfied_ => This.n_satisfied = Node.k)
  BY Distinct DEF Bool
<1>4. CASE Goto(Append(stack, e), <<>>, <<>>)
  <2> HIDE DEF e
  <2> QED
    BY <1>1, <1>3, <1>4, MultiEnds
<1>5. CASE ~last /\ Goto(Pop(1), <<Self(n + 1, This.n_satisfied + 1)>>, <<<<"PublicKey", key>>>>)
  BY <1>1, <1>5, MultiGoesOn
<1>6. CASE ~last /\ Goto(Pop(1), <<Self(n + 1, This.n_satisfied)>>, <<>>)
  BY <1>1, <1>6, MultiGoesOn
<1> QED
  BY <1>2, <1>4, <1>5, <1>6, FailKept

LEMMA MultiKeyKept ==
    ASSUME Course, Node.frag = "Multi", This.n_evaluated # Len(Node.args), MultiKey
    PROVE  Kept
<1> DEFINE n == This.n_evaluated
           key == Node.args[Len(Node.args) - n]
<1>1. NextTried = Len(Node.args) - n
  BY DEF NextTried
<1>2. \/ Fail("err")
      \/ Goto(Pop(1), <<Self(n + 1, This.n_satisfied + 1)>>, <<<<"PublicKey", key>>>>)
      \/ Goto(stack, <<Self(n + 1, This.n_satisfied)>>, <<>>)
  BY Zenon DEF MultiKey
<1>3. CASE Goto(Pop(1), <<Self(n + 1, This.n_satisfied + 1)>>, <<<<"PublicKey", key>>>>)
  BY <1>1, <1>3, MultiGoesOn
<1>4. CASE Goto(stack, <<Self(n + 1, This.n_satisfied)>>, <<>>)
  BY <1>4, MultiGoesOn
<1> QED
  BY <1>2, <1>3, <1>4, FailKept

LEMMA MultiKept ==
    ASSUME Course, EvalMulti
    PROVE  Kept
<1>1. Running /\ RunOK /\ Node.frag = "Multi"
  BY CourseHere DEF EvalMulti, At, Running
<1>2. Node.k \in Nat /\ Len(Node.args) \in Nat /\ Len(Node.args) >= 1
  <2>1. NodeOK(This.node, Node)
    BY <1>1, Here
  <2> QED
    BY <1>1, <2>1 DEF NodeOK
<1>3. 0 # Len(Node.args)
  BY <1>2
<1>4. \/ Fail("err")
      \/ This.n_evaluated # Len(Node.args) /\ MultiKey
      \/ /\ ~(Len(stack) < Node.k + 1)
         /\ Goto(Append(Pop(Node.k + 1), Dissatisfied), <<>>, <<>>)
      \/ /\ This.n_satisfied = Node.k /\ stack # <<>>
         /\ Goto(Append(Pop(1), Satisfied_), <<>>, <<>>)
  BY <1>3, Zenon DEF EvalMulti
<1>5. CASE /\ ~(Len(stack) < Node.k + 1)
           /\ Goto(Append(Pop(Node.k + 1), Dissatisfied), <<>>, <<>>)
  <2>1. Len(stack) \in Nat /\ \A n \in Nat : n <= Len(stack) => Pop(n) \in Seq(Elems)
    BY <1>1, Popped
  <2>2. Node.k + 1 \in Nat /\ Node.k + 1 <= Len(stack)
    BY <1>2, <1>5, <2>1
  <2>3. Pop(Node.k + 1) \in Seq(Elems)
    BY <2>1, <2>2
  <2> QED
    BY <1>1, <1>5, <2>3, Distinct, MultiEnds
<1>6. CASE /\ This.n_satisfied = Node.k /\ stack # <<>>
           /\ Goto(Append(Pop(1), Satisfied_), <<>>, <<>>)
  BY <1>1, <1>6, PopOne, MultiEnds
<1> QED
  BY <1>1, <1>4, <1>5, <1>6, MultiKeyKept, FailKept

-----------------------------------------------------------------------------
(* The invariant: as long as the interpreter runs, the evaluation is on its *)
(* course, and when it is over without an error the expression holds.       *)

Track ==
    /\ TypedOK(program)
    /\ program # <<>> /\ Lifts(program) =>
        /\ result = "running" =>
            public_key = "none" /\ OnCourse(program, Range(yielded), state, stack)
        /\ result = "ok" => Met(program, Range(yielded), Len(program))

PolicyInv == TypedOK(ast) /\ Track

\* A step that does not succeed.
Went == program' = program /\ public_key' = public_key /\ result' # "ok"

LEMMA Goes ==
    ASSUME result = "running"
    PROVE  /\ \A st, push, cs : Goto(st, push, cs) => Went
           /\ Fail("err") => Went
           /\ Fail("panic") => Went
  BY DEF Goto, Fail, Went, given

(* Every action but the last two. *)
Turn ==
    \/ EvalConst \/ EvalPk \/ EvalPkh \/ EvalTxTemplate \/ EvalAfter \/ EvalOlder
    \/ EvalHash \/ Descend \/ EvalDupIf \/ EvalVerify \/ EvalZeroNotEqual
    \/ EvalNonZero \/ EvalAndV \/ EvalBoth \/ EvalLeft \/ EvalBranch
    \/ EvalThresh \/ EvalMultiA \/ EvalMulti

LEMMA TurnGoes ==
    ASSUME Turn
    PROVE  result = "running" /\ state # <<>> /\ Went
<1>1. result = "running" /\ state # <<>>
  BY DEF Turn, EvalConst, EvalPk, EvalPkh, EvalTxTemplate, EvalAfter, EvalOlder, EvalHash, Descend,
         EvalDupIf, EvalVerify, EvalZeroNotEqual, EvalNonZero, EvalAndV, EvalBoth, EvalLeft,
         EvalBranch, EvalThresh, EvalMultiA, EvalMulti, At
<1>2. /\ \A st, push, cs : Goto(st, push, cs) => Went
      /\ Fail("err") => Went
      /\ Fail("panic") => Went
  BY <1>1, Goes
<1>3. EvalConst \/ EvalPk \/ EvalPkh \/ EvalTxTemplate => Went
  BY <1>2, Zenon DEF EvalConst, EvalPk, EvalPkh, EvalTxTemplate, Fresh
<1>4. EvalAfter \/ EvalOlder \/ EvalHash \/ Descend => Went
  BY <1>2, Zenon DEF EvalAfter, EvalOlder, EvalHash, Descend, Fresh
<1>5. EvalDupIf \/ EvalVerify \/ EvalZeroNotEqual => Went
  BY <1>2, Zenon DEF EvalDupIf, EvalVerify, EvalZeroNotEqual
<1>6. EvalNonZero \/ EvalAndV => Went
  BY <1>2, Zenon DEF EvalNonZero, EvalAndV, Fresh
<1>7. EvalBoth \/ EvalLeft \/ EvalBranch => Went
  BY <1>2, Zenon DEF EvalBoth, EvalLeft, EvalBranch
<1>8. EvalThresh \/ EvalMultiA => Went
  BY <1>2, Zenon DEF EvalThresh, EvalMultiA
<1>9. MultiKey => Went
  BY <1>2, Zenon DEF MultiKey
<1>10. EvalMulti => Went
  BY <1>2, <1>9, Zenon DEF EvalMulti
<1> QED
  BY <1>1, <1>3, <1>4, <1>5, <1>6, <1>7, <1>8, <1>10 DEF Turn

LEMMA TurnKept ==
    ASSUME Course, Turn
    PROVE  Kept
  BY LeafKept, PkKept, HashKept, WrapperKept, AndVKept, BothKept, LeftKept, BranchKept, ThreshKept,
     MultiAKept, MultiKept DEF Turn

LEMMA IterNextTrack ==
    ASSUME RunOK, Track, iter_next
    PROVE  Track'
<1>1. CASE Turn
  <2>1. result = "running" /\ state # <<>> /\ Went
    BY <1>1, TurnGoes
  <2>2. TypedOK(program')
    BY <2>1 DEF Track, Went
  <2>3. ASSUME program # <<>>, Lifts(program), result' = "running"
        PROVE  public_key' = "none" /\ OnCourse(program, Range(yielded'), state', stack')
    <3>1. Course /\ public_key = "none"
      BY <2>1, <2>3 DEF Course, Running, Track
    <3> QED
      BY <3>1, <1>1, <2>1, <2>3, TurnKept DEF Kept, Went
  <2> QED
    BY <2>1, <2>2, <2>3 DEF Track, Went, TypedOK, NodeTyped, SubsV, IsV, Lifts
<1>2. CASE EvalPublicKey
  <2>1. /\ program' = program /\ result' # "ok" /\ public_key # "none" /\ result = "running"
    BY <1>2 DEF EvalPublicKey, Fail, given
  <2>2. TypedOK(program')
    BY <2>1 DEF Track
  <2>3. ~(program # <<>> /\ Lifts(program))
    BY <2>1 DEF Track
  <2> QED
    BY <2>1, <2>2, <2>3 DEF Track, TypedOK, NodeTyped, SubsV, IsV, Lifts
<1>3. CASE Finish
  <2>1. /\ program' = program /\ result = "running" /\ state = <<>>
        /\ \/ result' = "err"
           \/ stack = <<Satisfied_>> /\ yielded' = yielded /\ result' = "ok"
    BY <1>3 DEF Finish, Fail, given
  <2>2. TypedOK(program')
    BY <2>1 DEF Track
  <2>3. ASSUME program # <<>>, Lifts(program), result' = "ok"
        PROVE  Met(program, Range(yielded), Len(program))
    <3>1. ResultOK(program, Range(yielded), stack, Len(program))
      BY <2>1, <2>3 DEF Track, OnCourse, TopOK
    <3>2. stack[Len(stack)] = Satisfied_
      BY <2>1, <2>3
    <3> QED
      BY <3>1, <3>2 DEF ResultOK
  <2>4. result' = "ok" => yielded' = yielded
    BY <2>1
  <2> QED
    BY <2>1, <2>2, <2>3, <2>4 DEF Track, TypedOK, NodeTyped, SubsV, IsV, Lifts
<1> QED
  BY <1>1, <1>2, <1>3 DEF iter_next, Turn

LEMMA IterCustomTrack ==
    ASSUME NEW nodes, ArenaOK(nodes), TypedOK(nodes), NEW key, NEW t, NEW w,
           nodes # <<>> => key = "none",
           iter_custom(nodes, key, t, w)
    PROVE  Track'
<1>1. /\ program' = nodes /\ result' = "running" /\ public_key' = key
      /\ state' = IF nodes = <<>> THEN <<>> ELSE <<NodeState(Len(nodes), 0, 0)>>
  BY DEF iter_custom
<1>2. ASSUME nodes # <<>> PROVE OnCourse(nodes, Range(yielded'), state', stack')
  <2> DEFINE y == Range(yielded')
             n == Len(nodes)
             s == NodeState(n, 0, 0)
             st == <<s>>
             g == <<n>>
             elems == stack'
  <2>1. n \in 1..n
    BY <1>2, ArenaDomain DEF ArenaOK, IsSeq
  <2>2. s.node = n /\ s.n_evaluated = 0 /\ s.n_satisfied = 0
    BY DEF NodeState
  <2> HIDE DEF s, y, n
  <2>3. Progress(nodes, y, s)
    BY <2>2, NoProgress
  <2>4. Serves_last(nodes, y, s, n)
    BY <2>1, <2>2, <2>3, Entailed DEF Serves_last, Serves, n
  <2>5. /\ st # <<>> /\ Len(st) = 1 /\ st[1] = s /\ DOMAIN g = 1..1 /\ g[1] = n
        /\ 1..(Len(st) - 1) = {}
    OBVIOUS
  <2> HIDE DEF st, g, elems
  <2>6. GoalsOK(nodes, y, st, g)
    BY <2>4, <2>5 DEF GoalsOK, n
  <2>7. TopOK(nodes, y, st, elems)
    BY <2>2, <2>5 DEF TopOK, Waits
  <2>8. OnCourse(nodes, y, st, elems)
    BY <2>6, <2>7 DEF OnCourse
  <2> QED
    BY <1>1, <1>2, <2>8 DEF y, st, s, n, elems
<1>3. TypedOK(program')
  BY <1>1
<1> QED
  BY <1>1, <1>2, <1>3 DEF Track, TypedOK, NodeTyped, SubsV, IsV, Lifts

LEMMA TrackStutters ==
    ASSUME Track, UNCHANGED ivars
    PROVE  Track'
<1>1. /\ program' = program /\ result' = result /\ public_key' = public_key
      /\ stack' = stack /\ state' = state /\ yielded' = yielded
  BY DEF ivars, given
<1>2. /\ TypedOK(program')
      /\ program' # <<>> /\ Lifts(program') =>
            /\ result' = "running" =>
                public_key' = "none" /\ OnCourse(program', Range(yielded'), state', stack')
            /\ result' = "ok" => Met(program', Range(yielded'), Len(program'))
  BY <1>1 DEF Track
<1> QED
  BY <1>2 DEF Track, TypedOK, NodeTyped, SubsV, IsV, Lifts

LEMMA PolicyInit == RedeemInit => PolicyInv
  BY DEF RedeemInit, ConstructInit, InterpreterInit, PolicyInv, Track, TypedOK

LEMMA PolicyNext ==
    ASSUME IInv, PolicyInv, [AnyNext]_rvars
    PROVE  PolicyInv'
<1>1. BuildOK /\ RunOK /\ TypedOK(ast) /\ Track
  BY DEF IInv, PolicyInv
<1>2. ASSUME UNCHANGED cvars PROVE TypedOK(ast)'
  BY <1>1, <1>2 DEF cvars, TypedOK, NodeTyped, SubsV, IsV
<1>3. CASE Build
  <2>1. TypedOK(ast')
    BY <1>1, <1>3, ConstructTyped DEF Build
  <2> QED
    BY <2>1, <1>1, <1>3, TrackStutters DEF Build, PolicyInv, TypedOK, NodeTyped, SubsV, IsV
<1>4. CASE SpendAny
  <2>1. Track'
    <3>1. CASE \E t : \E w : IsSeq(w) /\ iter_custom(ast, "none", t, w)
      <4>1. PICK t : \E w : IsSeq(w) /\ iter_custom(ast, "none", t, w)
        BY <3>1
      <4>2. PICK w : IsSeq(w) /\ iter_custom(ast, "none", t, w)
        BY <4>1
      <4> QED
        BY <1>1, <4>2, IterCustomTrack DEF BuildOK
    <3>2. CASE \E key : \E t : \E w : IsSeq(w) /\ iter_custom(<<>>, key, t, w)
      <4>1. PICK key : \E t : \E w : IsSeq(w) /\ iter_custom(<<>>, key, t, w)
        BY <3>2
      <4>2. PICK t : \E w : IsSeq(w) /\ iter_custom(<<>>, key, t, w)
        BY <4>1
      <4>3. PICK w : IsSeq(w) /\ iter_custom(<<>>, key, t, w)
        BY <4>2
      <4>4. ArenaOK(<<>>) /\ TypedOK(<<>>)
        BY DEF ArenaOK, IsSeq, TypedOK
      <4> QED
        BY <4>3, <4>4, IterCustomTrack
    <3> QED
      BY <1>4, <3>1, <3>2 DEF SpendAny
  <2> QED
    BY <1>2, <1>4, <2>1 DEF SpendAny, PolicyInv
<1>5. CASE Interpret
  BY <1>1, <1>2, <1>5, IterNextTrack DEF Interpret, PolicyInv
<1>6. CASE UNCHANGED rvars
  BY <1>1, <1>2, <1>6, TrackStutters DEF rvars, PolicyInv
<1> QED
  BY <1>3, <1>4, <1>5, <1>6 DEF AnyNext

LEMMA PolicyInvMeans == PolicyInv => PolicyMet
  BY DEF PolicyInv, Track, PolicyMet, Met

(* Whatever the witness and the transaction are, the constraints that the   *)
(* interpreter yields on its way to a success satisfy the policy that the   *)
(* expression lifts to.                                                     *)
THEOREM AnySpendMeetsPolicy == AnySpec => []PolicyMet
<1>1. RedeemInit => IInv /\ PolicyInv
  BY InitOK, PolicyInit
<1>2. IInv /\ PolicyInv /\ [AnyNext]_rvars => (IInv /\ PolicyInv)'
  BY NextOK, PolicyNext
<1>3. IInv /\ PolicyInv => PolicyMet
  BY PolicyInvMeans
<1> QED
  BY <1>1, <1>2, <1>3, PTL DEF AnySpec

(* The policy that a success satisfies, in the system that the runs check.  *)
THEOREM RedeemPolicyMet == RedeemSpec => []PolicyMet
<1>1. RedeemInit => IInv /\ PolicyInv
  BY InitOK, PolicyInit
<1>2. IInv /\ PolicyInv /\ [RedeemNext]_rvars => (IInv /\ PolicyInv)'
  BY NextOK, PolicyNext, RedeemIsAny
<1>3. IInv /\ PolicyInv => PolicyMet
  BY PolicyInvMeans
<1> QED
  BY <1>1, <1>2, <1>3, PTL DEF RedeemSpec
=============================================================================
