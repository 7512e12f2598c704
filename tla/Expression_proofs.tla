------------------------- MODULE Expression_proofs -------------------------
(***************************************************************************)
(* Proofs about Expression: the second pass of the parser may rely on the  *)
(* first, and links the nodes to a tree.                                   *)
(***************************************************************************)
EXTENDS Expression, SequenceTheorems, FiniteSetTheorems, TLAPS

-----------------------------------------------------------------------------
(* Vectors of nodes.                                                        *)

Chars == Opening \cup Closing \cup {Comma, Name}

NodeSet ==
    [name_pos : Nat, name : Seq(Chars), parens : Opening \cup {"none"}, n_children : Nat,
     parent_idx : Nat, last_child_idx : Nat, right_sibling_idx : Nat]

SameLinks(m, n) ==
    /\ m.parent_idx = n.parent_idx /\ m.n_children = n.n_children
    /\ m.last_child_idx = n.last_child_idx /\ m.right_sibling_idx = n.right_sibling_idx

LEMMA NodeFields ==
    ASSUME NEW n \in NodeSet
    PROVE  /\ n.parent_idx \in Nat /\ n.last_child_idx \in Nat
           /\ n.right_sibling_idx \in Nat /\ n.n_children \in Nat
BY DEF NodeSet

(* Names and parentheses do not matter for the tree.                        *)
LEMMA LinkedSame ==
    ASSUME NEW vec, NEW new, Linked(vec), DOMAIN new = DOMAIN vec,
           \A i \in DOMAIN vec : SameLinks(new[i], vec[i])
    PROVE  Linked(new)
<1>1. \A i : Below(new, i) = Below(vec, i)
  BY DEF Below, SameLinks
<1>2. \A i \in DOMAIN vec : PreOrder(vec, i) => PreOrder(new, i)
  BY DEF PreOrder, SameLinks
<1> QED  BY <1>1, <1>2 DEF Linked, SameLinks

\* new is vec with one more node, the last child of p.
Grown(vec, new, p) ==
    LET k == Len(vec) + 1
    IN  /\ DOMAIN new = 1..k
        /\ new[k].parent_idx = p /\ new[k].n_children = 0
        /\ new[k].last_child_idx = 0 /\ new[k].right_sibling_idx = 0
        /\ \A i \in DOMAIN vec :
              /\ new[i].parent_idx = vec[i].parent_idx
              /\ i # p => /\ new[i].n_children = vec[i].n_children
                          /\ new[i].last_child_idx = vec[i].last_child_idx
              /\ new[i].right_sibling_idx =
                    IF i = vec[p].last_child_idx THEN k ELSE vec[i].right_sibling_idx
        /\ new[p].n_children = vec[p].n_children + 1
        /\ new[p].last_child_idx = k

(* A node may be added below a node that is open.                           *)
LEMMA LinkedGrown ==
    ASSUME NEW vec \in Seq(NodeSet), NEW new, NEW p \in DOMAIN vec, Linked(vec), Grown(vec, new, p),
           \A j \in DOMAIN vec : j > p => vec[j].parent_idx >= p
    PROVE  Linked(new)
<1> DEFINE k == Len(vec) + 1
<1>1. /\ DOMAIN vec = 1..Len(vec) /\ Len(vec) \in Nat /\ p \in 1..Len(vec) /\ k \in Nat
      /\ DOMAIN new = DOMAIN vec \cup {k} /\ k \notin DOMAIN vec
  BY DEF Grown
<1>2. \A i \in DOMAIN vec :
          /\ vec[i].parent_idx \in Nat /\ vec[i].last_child_idx \in Nat
          /\ vec[i].right_sibling_idx \in Nat /\ vec[i].n_children \in Nat
  <2>1. \A i \in DOMAIN vec : vec[i] \in NodeSet
    OBVIOUS
  <2> QED  BY <2>1, NodeFields
<1>3. \A i : Below(new, i) = IF i = p THEN Below(vec, i) \cup {k} ELSE Below(vec, i)
  BY <1>1 DEF Grown, Below
<1>4. /\ new[k].parent_idx = p /\ new[k].n_children = 0
      /\ new[k].last_child_idx = 0 /\ new[k].right_sibling_idx = 0
      /\ new[p].n_children = vec[p].n_children + 1 /\ new[p].last_child_idx = k
      /\ \A i \in DOMAIN vec :
              /\ new[i].parent_idx = vec[i].parent_idx
              /\ i # p => /\ new[i].n_children = vec[i].n_children
                          /\ new[i].last_child_idx = vec[i].last_child_idx
              /\ new[i].right_sibling_idx =
                    IF i = vec[p].last_child_idx THEN k ELSE vec[i].right_sibling_idx
  BY DEF Grown
<1>5. Below(vec, k) = {}
  <2>1. \A j \in DOMAIN vec : vec[j].parent_idx \in 0..(j - 1)
    BY DEF Linked
  <2>2. \A j \in DOMAIN vec : vec[j].parent_idx # k
    BY <1>1, <2>1
  <2> QED  BY <2>2 DEF Below
<1>6. \A i : IsFiniteSet(Below(vec, i)) /\ k \notin Below(vec, i)
  <2> SUFFICES ASSUME NEW i  PROVE IsFiniteSet(Below(vec, i)) /\ k \notin Below(vec, i)
    OBVIOUS
  <2>1. Below(vec, i) \subseteq 1..Len(vec)
    BY <1>1 DEF Below
  <2>2. IsFiniteSet(1..Len(vec))
    BY <1>1, FS_Interval
  <2>3. IsFiniteSet(Below(vec, i))
    BY <2>1, <2>2, FS_Subset
  <2>4. k \notin Below(vec, i)
    BY <1>1, <2>1
  <2> QED  BY <2>3, <2>4
<1>7. ASSUME NEW i \in DOMAIN new
      PROVE  new[i].n_children = Cardinality(Below(new, i))
  <2>1. CASE i = p
    <3>1. Below(new, i) = Below(vec, p) \cup {k} /\ new[i].n_children = vec[p].n_children + 1
      BY <1>3, <1>4, <2>1
    <3>2. vec[p].n_children = Cardinality(Below(vec, p))
      BY DEF Linked
    <3>3. Cardinality(Below(vec, p) \cup {k}) = Cardinality(Below(vec, p)) + 1
      BY <1>6, FS_AddElement
    <3> QED  BY <3>1, <3>2, <3>3
  <2>2. CASE i = k
    BY <1>1, <1>3, <1>4, <1>5, <2>2, FS_EmptySet
  <2>3. CASE i \in DOMAIN vec /\ i # p
    BY <1>3, <1>4, <2>3 DEF Linked
  <2> QED  BY <1>1, <2>1, <2>2, <2>3
<1>8. ASSUME NEW i \in DOMAIN new
      PROVE  /\ new[i].parent_idx \in 0..(i - 1) /\ (new[i].parent_idx = 0 <=> i = 1)
             /\ new[i].last_child_idx \in Below(new, i) \cup {0}
             /\ \A j \in Below(new, i) : j <= new[i].last_child_idx
  <2>1. CASE i = k
    BY <1>1, <1>3, <1>4, <1>5, <2>1
  <2>2. CASE i = p
    <3>1. vec[p].parent_idx \in 0..(p - 1) /\ (vec[p].parent_idx = 0 <=> p = 1)
      BY DEF Linked
    <3>2. new[p].parent_idx = vec[p].parent_idx /\ Below(new, p) = Below(vec, p) \cup {k}
      BY <1>3, <1>4
    <3>3. \A j \in Below(vec, p) : j <= k
      BY <1>1 DEF Below
    <3> QED  BY <1>1, <1>4, <2>2, <3>1, <3>2, <3>3
  <2>3. CASE i \in DOMAIN vec /\ i # p
    BY <1>1, <1>3, <1>4, <2>3, SMTT(30) DEF Linked
  <2> QED  BY <1>1, <2>1, <2>2, <2>3
<1>9. ASSUME NEW i \in DOMAIN new
      PROVE  /\ \/ new[i].right_sibling_idx = 0
                \/ /\ new[i].right_sibling_idx > i
                   /\ new[i].right_sibling_idx \in Below(new, new[i].parent_idx)
             /\ \A j \in Below(new, new[i].parent_idx) :
                   j > i => new[i].right_sibling_idx # 0 /\ new[i].right_sibling_idx <= j
  <2> DEFINE l == vec[p].last_child_idx
  <2>1. CASE i = k
    BY <1>1, <1>3, <1>4, <2>1 DEF Below
  <2>2. l # 0 => l \in DOMAIN vec /\ vec[l].parent_idx = p
    BY DEF Linked, Below
  <2>3. CASE i \in DOMAIN vec /\ i = l
    <3>1. new[i].right_sibling_idx = k /\ k > i /\ new[i].parent_idx = p /\ k \in Below(new, p)
      BY <1>1, <1>3, <1>4, <2>2, <2>3
    <3>2. \A j \in Below(new, p) : j > i => j = k
      <4>1. \A j \in Below(vec, p) : j <= l
        BY DEF Linked
      <4>2. \A j \in Below(vec, p) : j \in Nat
        BY <1>1 DEF Below
      <4> QED  BY <1>1, <1>3, <2>3, <4>1, <4>2
    <3> QED  BY <1>1, <3>1, <3>2
  <2>4. CASE i \in DOMAIN vec /\ i # l
    <3>1. new[i].right_sibling_idx = vec[i].right_sibling_idx /\ new[i].parent_idx = vec[i].parent_idx
      BY <1>4, <2>4
    <3>2. CASE vec[i].parent_idx # p
      BY <1>3, <2>4, <3>1, <3>2 DEF Linked
    <3>3. CASE vec[i].parent_idx = p
      <4>1. i < l /\ l \in Below(vec, p)
        <5>1. i \in Below(vec, p)
          BY <2>4, <3>3 DEF Below
        <5>2. i <= l /\ l \in Below(vec, p) \cup {0}
          BY <5>1 DEF Linked
        <5>3. i \in Nat /\ i > 0 /\ l \in Nat
          BY <1>1, <1>2, <2>4
        <5> QED  BY <2>4, <5>2, <5>3
      <4>2. vec[i].right_sibling_idx # 0 /\ vec[i].right_sibling_idx <= l
        BY <2>4, <3>3, <4>1 DEF Linked
      <4>3. \A j \in Below(new, p) : j = k \/ j \in Below(vec, p)
        BY <1>3
      <4>4. l <= k
        BY <1>1, <2>2, <4>1 DEF Below
      <4>5. Below(vec, p) \subseteq Below(new, p)
        BY <1>3
      <4> QED  BY <1>1, <1>2, <2>4, <3>1, <3>3, <4>1, <4>2, <4>3, <4>4, <4>5 DEF Linked
    <3> QED  BY <3>2, <3>3
  <2> QED  BY <1>1, <2>1, <2>3, <2>4
<1>10. ASSUME NEW i \in DOMAIN new  PROVE PreOrder(new, i)
  <2>1. CASE i = k
    BY <1>1, <2>1 DEF PreOrder
  <2>2. CASE i \in DOMAIN vec
    <3>1. PreOrder(vec, i)
      BY <2>2 DEF Linked
    <3>2. p <= new[i].parent_idx \/ p >= i
      BY <1>1, <1>2, <1>4, <2>2
    <3> QED  BY <1>1, <1>4, <2>2, <3>1, <3>2 DEF PreOrder
  <2> QED  BY <1>1, <2>1, <2>2
<1> QED  BY <1>7, <1>8, <1>9, <1>10 DEF Linked


-----------------------------------------------------------------------------
(* What the second pass does to the vector.                                 *)

\* The vector with the current node at its end.
Listed == nodes \o current_node

\* Everything after an open node is below it.
StackOf(vec, stack) ==
    \A m \in DOMAIN stack :
        /\ stack[m] \in DOMAIN vec
        /\ \A j \in DOMAIN vec : j > stack[m] => vec[j].parent_idx >= stack[m]
        /\ \A o \in DOMAIN stack : o < m => stack[o] < stack[m]

Vectors ==
    /\ input \in Seq(Chars) /\ pos \in 1..(Len(input) + 1)
    /\ nodes \in Seq(NodeSet) /\ current_node \in Seq(NodeSet) /\ Len(current_node) \in {0, 1}
    /\ current_node # <<>> => current_node[1].name_pos \in 1..pos
    /\ parent_stack \in Seq(Nat) /\ \A m \in DOMAIN parent_stack : parent_stack[m] <= Len(nodes)

(* The nodes on the stack are indices into the vector.                      *)
LEMMA StackIndices ==
    ASSUME Vectors
    PROVE  /\ Len(nodes) \in Nat
           /\ \A m \in DOMAIN parent_stack : parent_stack[m] \in Nat /\ parent_stack[m] <= Len(nodes)
<1>1. nodes \in Seq(NodeSet) /\ parent_stack \in Seq(Nat)
  BY DEF Vectors
<1>2. \A m \in DOMAIN parent_stack : parent_stack[m] <= Len(nodes)
  BY DEF Vectors
<1>3. Len(nodes) \in Nat
  BY <1>1, LenProperties
<1>4. ASSUME NEW m \in DOMAIN parent_stack  PROVE parent_stack[m] \in Nat
  BY <1>1, ElementOfSeq
<1> QED  BY <1>2, <1>3, <1>4

LEMMA NullNode ==
    ASSUME NEW q \in Nat, NEW p \in Nat
    PROVE  /\ null(q, p) \in NodeSet
           /\ null(q, p).name_pos = q /\ null(q, p).parent_idx = p /\ null(q, p).n_children = 0
           /\ null(q, p).last_child_idx = 0 /\ null(q, p).right_sibling_idx = 0
<1>1. <<>> \in Seq(Chars)
  BY EmptySeq
<1> QED  BY <1>1 DEF null, NodeSet

(* The current node gets its name and is pushed.                            *)
LEMMA PushedIs ==
    ASSUME Vectors
    PROVE  /\ Listed \in Seq(NodeSet) /\ pushed \in Seq(NodeSet)
           /\ Len(Listed) = Len(nodes) + Len(current_node) /\ Len(pushed) = Len(Listed)
           /\ DOMAIN pushed = DOMAIN Listed
           /\ \A i \in DOMAIN Listed : SameLinks(pushed[i], Listed[i])
<1>1. /\ Listed \in Seq(NodeSet) /\ Len(Listed) = Len(nodes) + Len(current_node)
      /\ \A i \in 1..(Len(nodes) + Len(current_node)) :
            Listed[i] = IF i <= Len(nodes) THEN nodes[i] ELSE current_node[i - Len(nodes)]
  BY ConcatProperties DEF Listed, Vectors
<1>2. Len(nodes) \in Nat
  BY DEF Vectors
<1>3. CASE current_node = <<>>
  <2>1. pushed = nodes /\ Len(current_node) = 0
    BY <1>3 DEF pushed
  <2>2. \A i \in 1..Len(nodes) : Listed[i] = nodes[i]
    BY <1>1, <1>2, <2>1
  <2> QED  BY <1>1, <1>2, <2>1, <2>2 DEF Vectors, SameLinks
<1>4. CASE current_node # <<>>
  <2> DEFINE n == current_node[1]
             name == SubSeq(input, n.name_pos, pos - 1)
             m == [n EXCEPT !.name = name]
  <2>1. Len(current_node) = 1 /\ n \in NodeSet /\ n.name_pos \in 1..pos
    BY <1>4, EmptySeq DEF Vectors
  <2>2. name \in Seq(Chars)
    <3>1. \A i \in n.name_pos..(pos - 1) : input[i] \in Chars
      BY <2>1 DEF Vectors
    <3>2. n.name_pos \in Int /\ pos - 1 \in Int
      BY <2>1 DEF Vectors
    <3> QED  BY <3>1, <3>2, SubSeqProperties
  <2> HIDE DEF name, n
  <2>3. m \in NodeSet /\ SameLinks(m, n)
    BY <2>1, <2>2 DEF NodeSet, SameLinks
  <2>4. pushed = Append(nodes, m)
    BY <1>4 DEF pushed, n, name
  <2> HIDE DEF m
  <2>5. /\ pushed \in Seq(NodeSet) /\ Len(pushed) = Len(nodes) + 1 /\ pushed[Len(nodes) + 1] = m
        /\ \A i \in 1..Len(nodes) : pushed[i] = nodes[i]
    BY <2>3, <2>4 DEF Vectors
  <2>6. /\ Listed[Len(nodes) + 1] = n
        /\ \A i \in 1..Len(nodes) : Listed[i] = nodes[i]
    BY <1>1, <1>2, <2>1 DEF n
  <2>7. \A i \in 1..Len(nodes) : SameLinks(nodes[i], nodes[i])
    BY DEF SameLinks
  <2> QED  BY <1>1, <1>2, <2>1, <2>3, <2>5, <2>6, <2>7
<1> QED  BY <1>3, <1>4

(* A node with one more child.                                              *)
LEMMA ChildCounted ==
    ASSUME NEW n \in NodeSet, NEW k \in Nat
    PROVE  LET w == [n EXCEPT !.n_children = @ + 1, !.last_child_idx = k]
           IN  /\ w \in NodeSet /\ w.parent_idx = n.parent_idx
               /\ w.right_sibling_idx = n.right_sibling_idx
               /\ w.n_children = n.n_children + 1 /\ w.last_child_idx = k
<1> DEFINE c == n.n_children + 1
           u == [n EXCEPT !.n_children = c]
           w == [u EXCEPT !.last_child_idx = k]
<1>1. c \in Nat
  BY NodeFields
<1> HIDE DEF c
<1>2. u \in NodeSet /\ u.n_children = c /\ u.parent_idx = n.parent_idx
      /\ u.right_sibling_idx = n.right_sibling_idx
  BY <1>1 DEF NodeSet
<1> HIDE DEF u
<1>3. w \in NodeSet /\ w.n_children = u.n_children /\ w.parent_idx = u.parent_idx
      /\ w.right_sibling_idx = u.right_sibling_idx /\ w.last_child_idx = k
  BY <1>2 DEF NodeSet
<1> QED  BY <1>2, <1>3 DEF c, u

(* The links that a new last child of p needs.                              *)
LEMMA ParentLinked ==
    ASSUME NEW vec \in Seq(NodeSet), NEW stack \in Seq(Nat), stack # <<>>,
           LastOf(stack) \in DOMAIN vec
    PROVE  LET p == LastOf(stack)
               v == link_parent(vec, stack)
           IN  /\ v \in Seq(NodeSet) /\ Len(v) = Len(vec)
               /\ \A i \in DOMAIN vec : i # p => v[i] = vec[i]
               /\ v[p].parent_idx = vec[p].parent_idx
               /\ v[p].right_sibling_idx = vec[p].right_sibling_idx
               /\ v[p].n_children = vec[p].n_children + 1
               /\ v[p].last_child_idx = Len(vec) + 1
<1> DEFINE p == LastOf(stack)
           k == Len(vec) + 1
           v == link_parent(vec, stack)
           w == [vec[p] EXCEPT !.n_children = @ + 1, !.last_child_idx = k]
<1>1. vec[p] \in NodeSet /\ k \in Nat /\ p \in 1..Len(vec)
  OBVIOUS
<1> HIDE DEF p, k
<1>2. /\ w \in NodeSet /\ w.parent_idx = vec[p].parent_idx
      /\ w.right_sibling_idx = vec[p].right_sibling_idx
      /\ w.n_children = vec[p].n_children + 1 /\ w.last_child_idx = k
  BY <1>1, ChildCounted
<1>3. v = [vec EXCEPT ![p] = w]
  BY <1>1 DEF link_parent, p, k, NodeSet
<1> HIDE DEF w, v
<1> QED  BY <1>1, <1>2, <1>3, ExceptSeq DEF p, k, v

LEMMA SiblingLinked ==
    ASSUME NEW vec \in Seq(NodeSet), parent_stack \in Seq(Nat), parent_stack # <<>>,
           LastOf(parent_stack) \in DOMAIN vec,
           vec[LastOf(parent_stack)].last_child_idx \in DOMAIN vec \cup {0}
    PROVE  LET l == vec[LastOf(parent_stack)].last_child_idx
               v == link_sibling(vec)
           IN  /\ v \in Seq(NodeSet) /\ Len(v) = Len(vec)
               /\ \A i \in DOMAIN vec :
                     /\ v[i].parent_idx = vec[i].parent_idx /\ v[i].n_children = vec[i].n_children
                     /\ v[i].last_child_idx = vec[i].last_child_idx
                     /\ v[i].right_sibling_idx =
                           IF i = l THEN Len(vec) + 1 ELSE vec[i].right_sibling_idx
<1> DEFINE l == vec[LastOf(parent_stack)].last_child_idx
           k == Len(vec) + 1
           v == link_sibling(vec)
           w == [vec[l] EXCEPT !.right_sibling_idx = k]
<1>1. CASE l = 0
  <2>1. v = vec
    BY <1>1 DEF link_sibling
  <2> QED  BY <1>1, <2>1
<1>2. CASE l # 0
  <2>1. l \in 1..Len(vec) /\ vec[l] \in NodeSet /\ k \in Nat
    BY <1>2
  <2>2. v = [vec EXCEPT ![l].right_sibling_idx = k]
    BY <1>2 DEF link_sibling
  <2> HIDE DEF l, v, k
  <2>3. /\ w \in NodeSet /\ w.parent_idx = vec[l].parent_idx /\ w.n_children = vec[l].n_children
        /\ w.last_child_idx = vec[l].last_child_idx /\ w.right_sibling_idx = k
    BY <2>1 DEF NodeSet
  <2>4. v = [vec EXCEPT ![l] = w]
    BY <2>1, <2>2
  <2> HIDE DEF w
  <2> QED  BY <2>1, <2>3, <2>4, ExceptSeq DEF l, v, k
<1> QED  BY <1>1, <1>2


(* A new last child of the innermost open node.                             *)
LEMMA GrownStack ==
    ASSUME NEW vec \in Seq(NodeSet), NEW new, NEW stack \in Seq(Nat), stack # <<>>,
           Linked(vec), StackOf(vec, stack), Grown(vec, new, LastOf(stack))
    PROVE  Linked(new) /\ StackOf(new, stack)
<1> DEFINE p == LastOf(stack)
           k == Len(vec) + 1
<1>1. Len(stack) \in DOMAIN stack /\ p = stack[Len(stack)] /\ DOMAIN stack = 1..Len(stack)
  BY DEF LastOf
<1>2. p \in DOMAIN vec /\ \A j \in DOMAIN vec : j > p => vec[j].parent_idx >= p
  BY <1>1 DEF StackOf
<1>3. Linked(new)
  BY <1>2, LinkedGrown
<1>4. /\ DOMAIN new = DOMAIN vec \cup {k} /\ new[k].parent_idx = p
      /\ \A i \in DOMAIN vec : new[i].parent_idx = vec[i].parent_idx
  BY DEF Grown
<1>5. \A m \in DOMAIN stack : stack[m] \in Nat /\ stack[m] <= p
  <2>1. \A m \in DOMAIN stack : stack[m] \in Nat /\ (m < Len(stack) => stack[m] < p)
    BY <1>1 DEF StackOf
  <2>2. \A m \in DOMAIN stack : m < Len(stack) \/ m = Len(stack)
    BY <1>1
  <2> QED  BY <1>1, <2>1, <2>2
<1>6. StackOf(new, stack)
  <2> HIDE DEF p
  <2> SUFFICES ASSUME NEW m \in DOMAIN stack
               PROVE  /\ stack[m] \in DOMAIN new
                      /\ \A j \in DOMAIN new : j > stack[m] => new[j].parent_idx >= stack[m]
                      /\ \A o \in DOMAIN stack : o < m => stack[o] < stack[m]
    BY DEF StackOf
  <2>1. /\ stack[m] \in DOMAIN vec
        /\ \A j \in DOMAIN vec : j > stack[m] => vec[j].parent_idx >= stack[m]
        /\ \A o \in DOMAIN stack : o < m => stack[o] < stack[m]
    BY DEF StackOf
  <2>2. p >= stack[m]
    BY <1>1, <1>5, <1>2
  <2> QED  BY <1>4, <2>1, <2>2
<1> QED  BY <1>3, <1>6

(* Names and parentheses do not matter for the stack.                       *)
LEMMA StackSame ==
    ASSUME NEW vec, NEW new, NEW stack, StackOf(vec, stack), DOMAIN new = DOMAIN vec,
           \A i \in DOMAIN vec : SameLinks(new[i], vec[i])
    PROVE  StackOf(new, stack)
BY DEF StackOf, SameLinks

Links == Linked(Listed) /\ StackOf(Listed, parent_stack)

LEMMA PushedLinks ==
    ASSUME Vectors, Links
    PROVE  Linked(pushed) /\ StackOf(pushed, parent_stack)
BY PushedIs, LinkedSame, StackSame DEF Links

(* A vector and a new current node.                                         *)
LEMMA WithCurrent ==
    ASSUME NEW v \in Seq(NodeSet), NEW q \in Nat, NEW p \in Nat
    PROVE  LET w == v \o <<null(q, p)>>
           IN  /\ w \in Seq(NodeSet) /\ Len(w) = Len(v) + 1 /\ DOMAIN w = 1..(Len(v) + 1)
               /\ w[Len(v) + 1] = null(q, p)
               /\ \A i \in DOMAIN v : w[i] = v[i]
<1>1. null(q, p) \in NodeSet
  BY NullNode
<1> DEFINE n == null(q, p)
<1> HIDE DEF n
<1>2. <<n>> \in Seq(NodeSet) /\ Len(<<n>>) = 1 /\ <<n>>[1] = n
  BY <1>1 DEF n
<1> QED  BY <1>2, ConcatProperties DEF n

(* What is added at a comma.                                                *)
LEMMA CommaGrows ==
    ASSUME NEW vec \in Seq(NodeSet), parent_stack \in Seq(Nat), parent_stack # <<>>, NEW q \in Nat,
           Linked(vec), StackOf(vec, parent_stack)
    PROVE  LET p == LastOf(parent_stack)
               v == link_parent(link_sibling(vec), parent_stack)
           IN  /\ v \in Seq(NodeSet) /\ Len(v) = Len(vec) /\ p \in Nat
               /\ Grown(vec, v \o <<null(q, p)>>, p)
<1> DEFINE p == LastOf(parent_stack)
           u == link_sibling(vec)
           v == link_parent(u, parent_stack)
           w == v \o <<null(q, p)>>
           l == vec[p].last_child_idx
<1>1. p \in DOMAIN vec /\ p \in Nat /\ Len(vec) \in Nat /\ DOMAIN vec = 1..Len(vec)
  BY DEF LastOf, StackOf
<1>2. l \in DOMAIN vec \cup {0}
  BY <1>1 DEF Linked, Below
<1>3. /\ u \in Seq(NodeSet) /\ Len(u) = Len(vec)
      /\ \A i \in DOMAIN vec :
            /\ u[i].parent_idx = vec[i].parent_idx /\ u[i].n_children = vec[i].n_children
            /\ u[i].last_child_idx = vec[i].last_child_idx
            /\ u[i].right_sibling_idx = IF i = l THEN Len(vec) + 1 ELSE vec[i].right_sibling_idx
  BY <1>1, <1>2, SiblingLinked
<1> HIDE DEF u
<1>4. p \in DOMAIN u /\ DOMAIN u = DOMAIN vec
  BY <1>1, <1>3
<1>5. /\ v \in Seq(NodeSet) /\ Len(v) = Len(vec)
      /\ \A i \in DOMAIN vec : i # p => v[i] = u[i]
      /\ v[p].parent_idx = u[p].parent_idx
      /\ v[p].right_sibling_idx = u[p].right_sibling_idx
      /\ v[p].n_children = u[p].n_children + 1
      /\ v[p].last_child_idx = Len(vec) + 1
  <2>1. /\ v \in Seq(NodeSet) /\ Len(v) = Len(u)
        /\ \A i \in DOMAIN u : i # p => v[i] = u[i]
        /\ v[p].parent_idx = u[p].parent_idx
        /\ v[p].right_sibling_idx = u[p].right_sibling_idx
        /\ v[p].n_children = u[p].n_children + 1
        /\ v[p].last_child_idx = Len(u) + 1
    BY <1>3, <1>4, ParentLinked
  <2> QED  BY <1>3, <1>4, <2>1
<1> HIDE DEF v, p
<1>6. DOMAIN v = DOMAIN vec
  BY <1>1, <1>5
<1>7. /\ DOMAIN w = 1..(Len(vec) + 1) /\ w[Len(vec) + 1] = null(q, p)
      /\ \A i \in DOMAIN vec : w[i] = v[i]
  BY <1>1, <1>5, <1>6, WithCurrent
<1> HIDE DEF w
<1>8. /\ null(q, p).parent_idx = p /\ null(q, p).n_children = 0
      /\ null(q, p).last_child_idx = 0 /\ null(q, p).right_sibling_idx = 0
  BY <1>1, NullNode
<1>9. ASSUME NEW i \in DOMAIN vec
      PROVE  /\ w[i].parent_idx = vec[i].parent_idx
             /\ i # p => /\ w[i].n_children = vec[i].n_children
                         /\ w[i].last_child_idx = vec[i].last_child_idx
             /\ w[i].right_sibling_idx = IF i = l THEN Len(vec) + 1 ELSE vec[i].right_sibling_idx
  BY <1>3, <1>5, <1>7
<1>10. w[p].n_children = vec[p].n_children + 1 /\ w[p].last_child_idx = Len(vec) + 1
  BY <1>1, <1>3, <1>5, <1>7
<1>11. Grown(vec, w, p)
  BY <1>7, <1>8, <1>9, <1>10 DEF Grown
<1> QED  BY <1>1, <1>5, <1>11 DEF v, u, p, w

(* What is added at an opening parenthesis: the first child of the last     *)
(* node.                                                                    *)
LEMMA OpenGrows ==
    ASSUME NEW vec \in Seq(NodeSet), NEW stack \in Seq(Nat), stack # <<>>, NEW q \in Nat,
           Linked(vec), LastOf(stack) = Len(vec), vec # <<>>
    PROVE  LET p == LastOf(stack)
               v == link_parent(vec, stack)
           IN  /\ v \in Seq(NodeSet) /\ Len(v) = Len(vec) /\ p \in Nat
               /\ Grown(vec, v \o <<null(q, p)>>, p)
<1> DEFINE p == LastOf(stack)
           v == link_parent(vec, stack)
           w == v \o <<null(q, p)>>
<1>1. p \in DOMAIN vec /\ p \in Nat /\ Len(vec) \in Nat /\ DOMAIN vec = 1..Len(vec)
  BY EmptySeq
<1>2. vec[p].last_child_idx = 0
  <2>1. \A j \in DOMAIN vec : vec[j].parent_idx \in 0..(j - 1)
    BY DEF Linked
  <2>2. \A j \in DOMAIN vec : vec[j].parent_idx # p
    BY <1>1, <2>1
  <2>3. Below(vec, p) = {}
    BY <2>2 DEF Below
  <2> QED  BY <1>1, <2>3 DEF Linked
<1>3. /\ v \in Seq(NodeSet) /\ Len(v) = Len(vec)
      /\ \A i \in DOMAIN vec : i # p => v[i] = vec[i]
      /\ v[p].parent_idx = vec[p].parent_idx
      /\ v[p].right_sibling_idx = vec[p].right_sibling_idx
      /\ v[p].n_children = vec[p].n_children + 1
      /\ v[p].last_child_idx = Len(vec) + 1
  BY <1>1, ParentLinked
<1> HIDE DEF v, p
<1>4. DOMAIN v = DOMAIN vec
  BY <1>1, <1>3
<1>5. /\ DOMAIN w = 1..(Len(vec) + 1) /\ w[Len(vec) + 1] = null(q, p)
      /\ \A i \in DOMAIN vec : w[i] = v[i]
  <2>1. /\ DOMAIN w = 1..(Len(v) + 1) /\ w[Len(v) + 1] = null(q, p)
        /\ \A i \in DOMAIN v : w[i] = v[i]
    BY <1>1, <1>3, WithCurrent, ZenonT(30)
  <2> QED  BY <1>3, <1>4, <2>1
<1> HIDE DEF w
<1>6. /\ null(q, p).parent_idx = p /\ null(q, p).n_children = 0
      /\ null(q, p).last_child_idx = 0 /\ null(q, p).right_sibling_idx = 0
  BY <1>1, NullNode
<1>7. ASSUME NEW i \in DOMAIN vec
      PROVE  /\ w[i].parent_idx = vec[i].parent_idx
             /\ i # p => /\ w[i].n_children = vec[i].n_children
                         /\ w[i].last_child_idx = vec[i].last_child_idx
             /\ w[i].right_sibling_idx =
                   IF i = vec[p].last_child_idx THEN Len(vec) + 1 ELSE vec[i].right_sibling_idx
  BY <1>1, <1>2, <1>3, <1>5
<1>8. Grown(vec, w, p)
  BY <1>1, <1>3, <1>5, <1>6, <1>7 DEF Grown
<1> QED  BY <1>1, <1>3, <1>8 DEF v, p, w


-----------------------------------------------------------------------------
(* What the first pass has made sure of.                                    *)

\* D: the number of open parentheses after p characters of s; N: the number of
\* closing ones and of commas.
Reading(D, N, s) ==
    /\ D \in [0..Len(s) -> Nat] /\ N \in [0..Len(s) -> Nat]
    /\ D[0] = 0 /\ N[0] = 0
    /\ \A p \in 1..Len(s) :
          /\ s[p] \in Opening => D[p] = D[p - 1] + 1 /\ N[p] = N[p - 1]
          /\ s[p] \in Closing => D[p - 1] = D[p] + 1 /\ N[p] = N[p - 1] + 1
          /\ s[p] = Comma => D[p] = D[p - 1] /\ D[p] > 0 /\ N[p] = N[p - 1] + 1
          /\ s[p] = Name => D[p] = D[p - 1] /\ N[p] = N[p - 1]
          /\ p > 1 /\ s[p - 1] \in Closing => s[p] \in Closing \cup {Comma}

\* The second pass has as many open nodes as there are open parentheses.
ParseState(D, N) ==
    /\ Vectors /\ Links
    /\ Len(parent_stack) = D[pos - 1]
    /\ Len(nodes) + Len(current_node) = 1 + N[pos - 1] + D[pos - 1]
    /\ current_node = <<>> <=> pos > 1 /\ input[pos - 1] \in Closing

(* The characters differ.                                                   *)
LEMMA Distinct ==
    /\ \A ch \in Opening : ch \notin Closing /\ ch # Comma /\ ch # Name
    /\ \A ch \in Closing : ch \notin Opening /\ ch # Comma /\ ch # Name
    /\ Comma \notin Opening \cup Closing /\ Name \notin Opening \cup Closing /\ Name # Comma
BY DEF Opening, Closing, Name, Comma

\* What is known of a character that is read again.
CharAt(D, N, s, p) ==
    /\ D[p] \in Nat /\ D[p - 1] \in Nat /\ N[p] \in Nat /\ N[p - 1] \in Nat
    /\ s[p] \in Opening => D[p] = D[p - 1] + 1 /\ N[p] = N[p - 1]
    /\ s[p] \in Closing => D[p - 1] = D[p] + 1 /\ N[p] = N[p - 1] + 1
    /\ s[p] = Comma => D[p] = D[p - 1] /\ D[p] > 0 /\ N[p] = N[p - 1] + 1
    /\ s[p] = Name => D[p] = D[p - 1] /\ N[p] = N[p - 1]
    /\ s[p] \in Opening \/ s[p] = Name => ~(p > 1 /\ s[p - 1] \in Closing)

LEMMA ReadingAt ==
    ASSUME NEW D, NEW N, NEW s, Reading(D, N, s), Len(s) \in Nat, NEW p \in 1..Len(s)
    PROVE  CharAt(D, N, s, p)
<1>1. p \in 0..Len(s) /\ p - 1 \in 0..Len(s)
  OBVIOUS
<1>2. D[p] \in Nat /\ D[p - 1] \in Nat /\ N[p] \in Nat /\ N[p - 1] \in Nat
  BY <1>1 DEF Reading
<1>3. p > 1 /\ s[p - 1] \in Closing => s[p] \in Closing \cup {Comma}
  BY DEF Reading
<1>4. s[p] \in Opening \/ s[p] = Name => s[p] \notin Closing \cup {Comma}
  BY Distinct
<1> QED  BY <1>2, <1>3, <1>4 DEF Reading, CharAt

(* One more element at the end.                                             *)
LEMMA AppendIs ==
    ASSUME NEW S, NEW s \in Seq(S), NEW x \in S
    PROVE  LET t == Append(s, x)
           IN  /\ t \in Seq(S) /\ t # <<>> /\ Len(t) = Len(s) + 1 /\ LastOf(t) = x
               /\ t[Len(s) + 1] = x /\ \A m \in DOMAIN s : t[m] = s[m]
               /\ DOMAIN t = DOMAIN s \cup {Len(s) + 1} /\ Len(s) + 1 \notin DOMAIN s
<1> DEFINE t == Append(s, x)
<1>1. t \in Seq(S) /\ Len(t) = Len(s) + 1 /\ Len(s) \in Nat
  OBVIOUS
<1>2. t[Len(s) + 1] = x /\ \A m \in 1..Len(s) : t[m] = s[m]
  OBVIOUS
<1>3. DOMAIN s = 1..Len(s) /\ DOMAIN t = 1..(Len(s) + 1)
  BY <1>1
<1> HIDE DEF t
<1>4. t # <<>>
  BY <1>1, EmptySeq
<1> QED  BY <1>1, <1>2, <1>3, <1>4 DEF LastOf, t

(* A name is skipped.                                                       *)
LEMMA NameKeeps ==
    ASSUME NEW D, NEW N, Reading(D, N, input), ParseState(D, N), ParseName
    PROVE  ParseState(D, N)' /\ phase' = phase
<1>1. /\ pos \in 1..Len(input) /\ input[pos] = Name /\ pos' = pos + 1 /\ input' = input
      /\ nodes' = nodes /\ current_node' = current_node /\ parent_stack' = parent_stack
      /\ phase' = phase /\ Len(input) \in Nat
  BY DEF ParseName, ParseStep, ParseState, Vectors
<1>2. D[pos] = D[pos - 1] /\ N[pos] = N[pos - 1] /\ ~(pos > 1 /\ input[pos - 1] \in Closing)
  <2>1. CharAt(D, N, input, pos)
    BY <1>1, ReadingAt
  <2> QED  BY <1>1, <2>1 DEF CharAt
<1>3. Vectors'
  BY <1>1, SMTT(30) DEF ParseState, Vectors
<1>4. Links'
  BY <1>1 DEF ParseState, Links, Listed
<1>5. pos' - 1 = pos /\ pos' > 1
  BY <1>1
<1>6. current_node # <<>> /\ input[pos] \notin Closing
  BY <1>1, <1>2, Distinct DEF ParseState
<1> QED  BY <1>1, <1>2, <1>3, <1>4, <1>5, <1>6 DEF ParseState

(* An opening parenthesis: the current node gets a child.                   *)
LEMMA OpenKeeps ==
    ASSUME NEW D, NEW N, Reading(D, N, input), ParseState(D, N), ParseOpen
    PROVE  ParseState(D, N)' /\ phase' = phase
<1>1. PICK ch \in Opening :
          /\ ParseStep(ch)
          /\ IF current_node = <<>>
             THEN phase' = "panic" /\ UNCHANGED <<nodes, parent_stack, current_node>>
             ELSE /\ parent_stack' = Append(parent_stack, Len(nodes) + 1)
                  /\ LET vec == [pushed EXCEPT ![Len(nodes) + 1].parens = ch]
                     IN  nodes' = link_parent(vec, parent_stack')
                  /\ current_node' = << new_node(parent_stack') >>
                  /\ UNCHANGED phase
  BY DEF ParseOpen
<1>2. /\ pos \in 1..Len(input) /\ input[pos] \in Opening /\ pos' = pos + 1 /\ input' = input
      /\ Len(input) \in Nat /\ Vectors /\ Links
  BY <1>1 DEF ParseStep, ParseState, Vectors
<1>3. /\ D[pos] = D[pos - 1] + 1 /\ N[pos] = N[pos - 1]
      /\ ~(pos > 1 /\ input[pos - 1] \in Closing) /\ D[pos - 1] \in Nat /\ N[pos - 1] \in Nat
  <2>1. CharAt(D, N, input, pos)
    BY <1>2, ReadingAt
  <2> QED  BY <1>2, <2>1 DEF CharAt
<1>4. current_node # <<>> /\ Len(current_node) = 1
  BY <1>2, <1>3, EmptySeq DEF ParseState, Vectors
<1> DEFINE k == Len(nodes) + 1
           vec == [pushed EXCEPT ![k].parens = ch]
           stack == Append(parent_stack, k)
           v == link_parent(vec, stack)
<1>5. /\ stack \in Seq(Nat) /\ stack # <<>> /\ LastOf(stack) = k /\ Len(stack) = Len(parent_stack) + 1
      /\ stack[Len(parent_stack) + 1] = k /\ \A m \in DOMAIN parent_stack : stack[m] = parent_stack[m]
      /\ DOMAIN stack = DOMAIN parent_stack \cup {Len(parent_stack) + 1}
      /\ Len(parent_stack) + 1 \notin DOMAIN parent_stack /\ k \in Nat
  <2>1. k \in Nat /\ parent_stack \in Seq(Nat)
    BY <1>2 DEF Vectors
  <2> HIDE DEF k
  <2> QED  BY <2>1, AppendIs
<1>6. /\ parent_stack' = stack /\ nodes' = v /\ current_node' = <<null(pos + 1, k)>> /\ phase' = phase
  <2>1. new_node(stack) = null(pos + 1, k)
    BY <1>5 DEF new_node
  <2> QED  BY <1>1, <1>4, <2>1
<1>7. pushed \in Seq(NodeSet) /\ Len(pushed) = k /\ k \in 1..Len(pushed)
  BY <1>2, <1>4, <1>5, PushedIs DEF Vectors
<1>8. /\ vec \in Seq(NodeSet) /\ Len(vec) = k /\ DOMAIN vec = DOMAIN pushed /\ vec # <<>>
      /\ \A i \in DOMAIN pushed : SameLinks(vec[i], pushed[i])
  <2> DEFINE w == [pushed[k] EXCEPT !.parens = ch]
  <2>1. pushed[k] \in NodeSet
    BY <1>7, ElementOfSeq
  <2>2. w \in NodeSet /\ SameLinks(w, pushed[k])
    BY <1>1, <2>1 DEF NodeSet, SameLinks
  <2>3. vec = [pushed EXCEPT ![k] = w]
    OBVIOUS
  <2> HIDE DEF w, vec, k
  <2>4. vec \in Seq(NodeSet) /\ Len(vec) = Len(pushed)
        /\ \A j \in 1..Len(pushed) : vec[j] = IF j = k THEN w ELSE pushed[j]
    BY <1>7, <2>2, <2>3, ExceptSeq
  <2>5. DOMAIN vec = 1..k /\ DOMAIN pushed = 1..k /\ vec # <<>>
    BY <1>5, <1>7, <2>4, EmptySeq
  <2> QED  BY <1>7, <2>2, <2>4, <2>5 DEF SameLinks
<1>9. Linked(vec) /\ StackOf(vec, parent_stack)
  BY <1>2, <1>8, PushedLinks, LinkedSame, StackSame
<1>10. DOMAIN vec = 1..k
  BY <1>7, <1>8
<1> HIDE DEF vec, stack, v, k
<1>11. StackOf(vec, stack)
  <2>1. \A m \in DOMAIN parent_stack : parent_stack[m] \in Nat /\ parent_stack[m] < k
    BY <1>2, StackIndices DEF k
  <2>2. \A o, m \in DOMAIN stack : o < m => o \in DOMAIN parent_stack
    BY <1>2, <1>5 DEF Vectors
  <2> SUFFICES ASSUME NEW m \in DOMAIN stack
               PROVE  /\ stack[m] \in DOMAIN vec
                      /\ \A j \in DOMAIN vec : j > stack[m] => vec[j].parent_idx >= stack[m]
                      /\ \A o \in DOMAIN stack : o < m => stack[o] < stack[m]
    BY DEF StackOf
  <2>3. CASE m \in DOMAIN parent_stack
    <3>1. \A o \in DOMAIN stack : o < m => o \in DOMAIN parent_stack /\ stack[o] = parent_stack[o]
      BY <1>5, <2>2
    <3> QED  BY <1>5, <1>9, <2>3, <3>1 DEF StackOf
  <2>4. CASE m = Len(parent_stack) + 1
    <3>1. stack[m] = k
      BY <1>5, <2>4
    <3>2. \A j \in DOMAIN vec : ~(j > k)
      BY <1>5, <1>10
    <3>3. \A o \in DOMAIN stack : o < m => stack[o] < k
      BY <1>5, <2>1, <2>2
    <3>4. k \in DOMAIN vec
      BY <1>5, <1>7, <1>10
    <3> QED  BY <3>1, <3>2, <3>3, <3>4
  <2> QED  BY <1>5, <2>3, <2>4
<1>12. /\ v \in Seq(NodeSet) /\ Len(v) = k /\ Grown(vec, v \o <<null(pos + 1, k)>>, k)
  <2>1. pos + 1 \in Nat /\ LastOf(stack) = Len(vec)
    BY <1>2, <1>5, <1>8
  <2> QED  BY <1>5, <1>8, <1>9, <2>1, OpenGrows DEF v
<1>13. Links'
  <2>1. Linked(v \o <<null(pos + 1, k)>>) /\ StackOf(v \o <<null(pos + 1, k)>>, stack)
    BY <1>5, <1>8, <1>9, <1>11, <1>12, GrownStack
  <2> QED  BY <1>6, <2>1 DEF Links, Listed
<1>14. Vectors'
  <2>1. null(pos + 1, k) \in NodeSet /\ null(pos + 1, k).name_pos = pos + 1
    BY <1>2, <1>5, NullNode
  <2>2. /\ current_node' \in Seq(NodeSet) /\ Len(current_node') = 1
        /\ current_node'[1].name_pos \in 1..pos'
    BY <1>2, <1>6, <2>1
  <2>3. \A m \in DOMAIN stack : stack[m] <= Len(v)
    <3>1. \A m \in DOMAIN parent_stack : parent_stack[m] \in Nat /\ parent_stack[m] <= k
      <4>1. /\ Len(nodes) \in Nat
            /\ \A m \in DOMAIN parent_stack : parent_stack[m] \in Nat /\ parent_stack[m] <= Len(nodes)
        BY <1>2, StackIndices
      <4> QED  BY <4>1 DEF k
    <3> QED  BY <1>5, <1>12, <3>1
  <2>4. pos' \in 1..(Len(input') + 1) /\ input' \in Seq(Chars)
    BY <1>2 DEF Vectors
  <2> QED  BY <1>5, <1>6, <1>12, <2>2, <2>3, <2>4 DEF Vectors
<1>15. Len(parent_stack') = D[pos' - 1] /\ Len(nodes') + Len(current_node') = 1 + N[pos' - 1] + D[pos' - 1]
  <2>1. pos' - 1 = pos /\ Len(current_node') = 1 /\ Len(nodes) \in Nat /\ Len(parent_stack) \in Nat
    BY <1>2, <1>6 DEF Vectors
  <2>2. Len(parent_stack) = D[pos - 1] /\ Len(nodes) + 1 = 1 + N[pos - 1] + D[pos - 1]
    BY <1>4 DEF ParseState
  <2>3. Len(parent_stack') = Len(parent_stack) + 1 /\ Len(nodes') = Len(nodes) + 1
    BY <1>5, <1>6, <1>12 DEF k
  <2> QED  BY <1>3, <2>1, <2>2, <2>3
<1>16. current_node' # <<>> /\ input'[pos' - 1] \notin Closing
  <2>1. pos' - 1 = pos /\ input' = input
    BY <1>2
  <2>0. input[pos] \notin Closing
    BY <1>2, Distinct, Zenon
  <2>2. \A n : <<n>> # <<>>
    OBVIOUS
  <2> QED  BY <1>6, <2>0, <2>1, <2>2
<1> QED  BY <1>6, <1>13, <1>14, <1>15, <1>16 DEF ParseState


(* A comma: the innermost open node gets one more child.                    *)
LEMMA CommaKeeps ==
    ASSUME NEW D, NEW N, Reading(D, N, input), ParseState(D, N), ParseComma
    PROVE  ParseState(D, N)' /\ phase' = phase
<1>1. /\ pos \in 1..Len(input) /\ input[pos] = Comma /\ pos' = pos + 1 /\ input' = input
      /\ parent_stack' = parent_stack /\ phase' = phase
      /\ nodes' = link_parent(link_sibling(pushed), parent_stack)
      /\ current_node' = <<new_node(parent_stack)>>
      /\ Len(input) \in Nat /\ Vectors /\ Links
  BY DEF ParseComma, ParseStep, ParseState, Vectors
<1>2. D[pos] = D[pos - 1] /\ D[pos] > 0 /\ N[pos] = N[pos - 1] + 1 /\ N[pos - 1] \in Nat /\ D[pos] \in Nat
  <2>1. CharAt(D, N, input, pos)
    BY <1>1, ReadingAt
  <2> QED  BY <1>1, <2>1 DEF CharAt
<1>3. parent_stack # <<>> /\ parent_stack \in Seq(Nat)
  BY <1>1, <1>2, EmptySeq DEF ParseState, Vectors
<1> DEFINE vec == pushed
           p == LastOf(parent_stack)
           v == link_parent(link_sibling(vec), parent_stack)
           w == v \o <<null(pos + 1, p)>>
<1>4. vec \in Seq(NodeSet) /\ Len(vec) = Len(nodes) + Len(current_node) /\ Len(nodes) \in Nat
      /\ Linked(vec) /\ StackOf(vec, parent_stack) /\ Len(current_node) \in Nat
  BY <1>1, PushedIs, PushedLinks DEF Vectors
<1>5. current_node' = <<null(pos + 1, p)>> /\ nodes' = v /\ pos + 1 \in Nat
  BY <1>1, <1>3 DEF new_node
<1> HIDE DEF vec
<1>6. v \in Seq(NodeSet) /\ Len(v) = Len(vec) /\ p \in Nat /\ Grown(vec, w, p)
  BY <1>3, <1>4, <1>5, CommaGrows
<1>7. Links'
  <2>1. Linked(w) /\ StackOf(w, parent_stack)
    BY <1>3, <1>4, <1>6, GrownStack
  <2> QED  BY <1>1, <1>5, <2>1 DEF Links, Listed
<1> HIDE DEF v, p, w
<1>8. null(pos + 1, p) \in NodeSet /\ null(pos + 1, p).name_pos = pos + 1
  BY <1>5, <1>6, NullNode
<1>9. Vectors'
  <2>1. /\ current_node' \in Seq(NodeSet) /\ Len(current_node') = 1
        /\ current_node'[1].name_pos \in 1..pos'
    BY <1>1, <1>5, <1>8
  <2>2. \A m \in DOMAIN parent_stack : parent_stack[m] <= Len(v)
    <3>1. \A m \in DOMAIN parent_stack : parent_stack[m] \in Nat /\ parent_stack[m] <= Len(nodes)
      BY <1>1, StackIndices
    <3> QED  BY <1>4, <1>6, <3>1
  <2>3. pos' \in 1..(Len(input') + 1) /\ input' \in Seq(Chars)
    BY <1>1 DEF Vectors
  <2> QED  BY <1>1, <1>3, <1>5, <1>6, <2>1, <2>2, <2>3 DEF Vectors
<1>10. Len(parent_stack') = D[pos' - 1] /\ Len(nodes') + Len(current_node') = 1 + N[pos' - 1] + D[pos' - 1]
  <2>1. pos' - 1 = pos /\ Len(current_node') = 1
    BY <1>1, <1>5
  <2>2. Len(parent_stack) = D[pos - 1] /\ Len(nodes) + Len(current_node) = 1 + N[pos - 1] + D[pos - 1]
    BY DEF ParseState
  <2>3. Len(parent_stack') = Len(parent_stack) /\ Len(nodes') = Len(nodes) + Len(current_node)
    BY <1>1, <1>4, <1>5, <1>6
  <2> QED  BY <1>2, <1>4, <2>1, <2>2, <2>3, SMTT(30)
<1>11. current_node' # <<>> /\ input'[pos' - 1] \notin Closing
  <2>1. pos' - 1 = pos /\ input' = input
    BY <1>1
  <2>2. input[pos] \notin Closing
    BY <1>1, Distinct, Zenon
  <2>3. \A n : <<n>> # <<>>
    OBVIOUS
  <2> QED  BY <1>5, <2>1, <2>2, <2>3
<1> QED  BY <1>1, <1>7, <1>9, <1>10, <1>11 DEF ParseState

(* A closing parenthesis: the current node, if any, is pushed.              *)
LEMMA CloseKeeps ==
    ASSUME NEW D, NEW N, Reading(D, N, input), ParseState(D, N), ParseClose
    PROVE  ParseState(D, N)' /\ phase' = phase
<1>1. /\ pos \in 1..Len(input) /\ input[pos] \in Closing /\ pos' = pos + 1 /\ input' = input
      /\ parent_stack' = Front1(parent_stack) /\ phase' = phase
      /\ nodes' = pushed /\ current_node' = <<>>
      /\ Len(input) \in Nat /\ Vectors /\ Links
  BY DEF ParseClose, ParseStep, ParseState, Vectors
<1>2. D[pos - 1] = D[pos] + 1 /\ N[pos] = N[pos - 1] + 1 /\ N[pos - 1] \in Nat /\ D[pos] \in Nat
  <2>1. CharAt(D, N, input, pos)
    BY <1>1, ReadingAt
  <2> QED  BY <1>1, <2>1 DEF CharAt
<1>3. /\ pushed \in Seq(NodeSet) /\ Len(pushed) = Len(nodes) + Len(current_node) /\ Len(nodes) \in Nat
      /\ Linked(pushed) /\ StackOf(pushed, parent_stack) /\ Len(current_node) \in Nat
  BY <1>1, PushedIs, PushedLinks DEF Vectors
<1> DEFINE stack == Front1(parent_stack)
<1>4. /\ stack \in Seq(Nat) /\ Len(stack) = Len(parent_stack) - 1
      /\ DOMAIN stack \subseteq DOMAIN parent_stack
      /\ \A m \in DOMAIN stack : stack[m] = parent_stack[m]
  <2>1. parent_stack \in Seq(Nat) /\ Len(parent_stack) = D[pos] + 1
    BY <1>1, <1>2 DEF Vectors, ParseState
  <2>2. Len(parent_stack) \in Nat /\ Len(parent_stack) > 0
    BY <1>2, <2>1
  <2>3. /\ stack \in Seq(Nat) /\ Len(stack) = Len(parent_stack) - 1
        /\ \A m \in 1..(Len(parent_stack) - 1) : stack[m] = parent_stack[m]
    BY <2>1, <2>2, SubSeqProperties DEF Front1
  <2> HIDE DEF stack
  <2>4. DOMAIN stack = 1..(Len(parent_stack) - 1) /\ DOMAIN parent_stack = 1..Len(parent_stack)
    BY <2>1, <2>3
  <2> QED  BY <2>2, <2>3, <2>4
<1> HIDE DEF stack
<1>5. nodes' \o current_node' = pushed
  BY <1>1, <1>3, ConcatEmptySeq
<1>6. Links'
  <2>1. StackOf(pushed, stack)
    BY <1>3, <1>4 DEF StackOf
  <2> QED  BY <1>1, <1>3, <1>5, <2>1 DEF Links, Listed, stack
<1>7. Vectors'
  <2>1. \A m \in DOMAIN stack : stack[m] <= Len(pushed)
    <3>1. \A m \in DOMAIN parent_stack : parent_stack[m] \in Nat /\ parent_stack[m] <= Len(nodes)
      BY <1>1, StackIndices
    <3> QED  BY <1>3, <1>4, <3>1
  <2>2. pos' \in 1..(Len(input') + 1) /\ input' \in Seq(Chars)
    BY <1>1 DEF Vectors
  <2>3. <<>> \in Seq(NodeSet) /\ Len(<<>>) = 0
    BY EmptySeq
  <2> QED  BY <1>1, <1>3, <1>4, <2>1, <2>2, <2>3 DEF Vectors, stack
<1>8. Len(parent_stack') = D[pos' - 1] /\ Len(nodes') + Len(current_node') = 1 + N[pos' - 1] + D[pos' - 1]
  <2>1. pos' - 1 = pos /\ Len(current_node') = 0 /\ Len(nodes') = Len(nodes) + Len(current_node)
    BY <1>1, <1>3
  <2>2. Len(parent_stack) = D[pos - 1] /\ Len(nodes) + Len(current_node) = 1 + N[pos - 1] + D[pos - 1]
    BY DEF ParseState
  <2>3. Len(parent_stack') = Len(parent_stack) - 1
    BY <1>1, <1>4 DEF stack
  <2>4. Len(parent_stack') = D[pos] /\ Len(nodes') + Len(current_node') = 1 + N[pos] + D[pos]
    <3>1. Len(parent_stack') = D[pos]
      BY <1>2, <2>2, <2>3
    <3>2. Len(nodes') + Len(current_node') = Len(nodes) + Len(current_node)
      BY <1>3, <2>1
    <3>3. 1 + N[pos - 1] + D[pos - 1] = 1 + N[pos] + D[pos]
      BY <1>2
    <3> QED  BY <2>2, <3>1, <3>2, <3>3
  <2> QED  BY <2>1, <2>4
<1>9. pos' > 1 /\ input'[pos' - 1] \in Closing
  <2>1. pos' - 1 = pos /\ input' = input /\ pos' > 1
    BY <1>1
  <2> QED  BY <1>1, <2>1
<1> QED  BY <1>1, <1>6, <1>7, <1>8, <1>9 DEF ParseState

(* The end: as many nodes as were counted.                                  *)
LEMMA EndCounts ==
    ASSUME NEW D, NEW N, Reading(D, N, input), ParseState(D, N), ParseEnd,
           D[Len(input)] = 0, n_nodes = 1 + N[Len(input)]
    PROVE  phase' = "parsed" /\ Linked(nodes')
<1>1. /\ pos = Len(input) + 1 /\ nodes' = pushed /\ Len(input) \in Nat /\ Vectors /\ Links
      /\ phase' = IF Len(nodes') = n_nodes THEN "parsed" ELSE "panic"
  BY DEF ParseEnd, ParseState, Vectors
<1>2. Len(pushed) = Len(nodes) + Len(current_node) /\ Linked(pushed)
  BY <1>1, PushedIs, PushedLinks
<1>3. pos - 1 = Len(input) /\ N[Len(input)] \in Nat
  BY <1>1 DEF Reading
<1>4. Len(nodes) + Len(current_node) = 1 + N[Len(input)] + D[Len(input)]
  BY <1>3 DEF ParseState
<1> QED  BY <1>1, <1>2, <1>3, <1>4


-----------------------------------------------------------------------------
(* The first pass.                                                          *)

\* What one more character, after which d parentheses are open and n nodes were
\* counted, must satisfy.
Fits(D, N, s, ch, d, n) ==
    LET q == Len(s)
    IN  /\ ch \in Opening => d = D[q] + 1 /\ n = N[q]
        /\ ch \in Closing => D[q] = d + 1 /\ n = N[q] + 1
        /\ ch = Comma => d = D[q] /\ d > 0 /\ n = N[q] + 1
        /\ ch = Name => d = D[q] /\ n = N[q]
        /\ q > 0 /\ s[q] \in Closing => ch \in Closing \cup {Comma}

LEMMA ReadingExtends ==
    ASSUME NEW D, NEW N, NEW s \in Seq(Chars), NEW ch \in Chars, NEW d \in Nat, NEW n \in Nat,
           Reading(D, N, s), Fits(D, N, s, ch, d, n)
    PROVE  \E D2, N2 : /\ Reading(D2, N2, Append(s, ch))
                       /\ D2[Len(s) + 1] = d /\ N2[Len(s) + 1] = n
                       /\ \A p \in 0..Len(s) : D2[p] = D[p]
<1> DEFINE q == Len(s)
           t == Append(s, ch)
           D2 == [p \in 0..(q + 1) |-> IF p = q + 1 THEN d ELSE D[p]]
           N2 == [p \in 0..(q + 1) |-> IF p = q + 1 THEN n ELSE N[p]]
<1>1. q \in Nat /\ Len(t) = q + 1 /\ t[q + 1] = ch /\ \A p \in 1..q : t[p] = s[p]
  OBVIOUS
<1>2. /\ D \in [0..q -> Nat] /\ N \in [0..q -> Nat] /\ D[0] = 0 /\ N[0] = 0
      /\ \A p \in 1..q :
            /\ s[p] \in Opening => D[p] = D[p - 1] + 1 /\ N[p] = N[p - 1]
            /\ s[p] \in Closing => D[p - 1] = D[p] + 1 /\ N[p] = N[p - 1] + 1
            /\ s[p] = Comma => D[p] = D[p - 1] /\ D[p] > 0 /\ N[p] = N[p - 1] + 1
            /\ s[p] = Name => D[p] = D[p - 1] /\ N[p] = N[p - 1]
            /\ p > 1 /\ s[p - 1] \in Closing => s[p] \in Closing \cup {Comma}
  BY DEF Reading
<1>3. /\ ch \in Opening => d = D[q] + 1 /\ n = N[q]
      /\ ch \in Closing => D[q] = d + 1 /\ n = N[q] + 1
      /\ ch = Comma => d = D[q] /\ d > 0 /\ n = N[q] + 1
      /\ ch = Name => d = D[q] /\ n = N[q]
      /\ q > 0 /\ s[q] \in Closing => ch \in Closing \cup {Comma}
  BY DEF Fits
<1> HIDE DEF q, t
<1>4. /\ D2 \in [0..(q + 1) -> Nat] /\ N2 \in [0..(q + 1) -> Nat]
      /\ D2[q + 1] = d /\ N2[q + 1] = n
      /\ \A p \in 0..q : D2[p] = D[p] /\ N2[p] = N[p]
  BY <1>1, <1>2
<1> HIDE DEF D2, N2
<1>5. ASSUME NEW p \in 1..(q + 1)
      PROVE  /\ t[p] \in Opening => D2[p] = D2[p - 1] + 1 /\ N2[p] = N2[p - 1]
             /\ t[p] \in Closing => D2[p - 1] = D2[p] + 1 /\ N2[p] = N2[p - 1] + 1
             /\ t[p] = Comma => D2[p] = D2[p - 1] /\ D2[p] > 0 /\ N2[p] = N2[p - 1] + 1
             /\ t[p] = Name => D2[p] = D2[p - 1] /\ N2[p] = N2[p - 1]
             /\ p > 1 /\ t[p - 1] \in Closing => t[p] \in Closing \cup {Comma}
  <2>1. CASE p = q + 1
    <3>1. /\ p - 1 = q /\ D2[p] = d /\ N2[p] = n /\ D2[p - 1] = D[q] /\ N2[p - 1] = N[q]
          /\ t[p] = ch /\ (p > 1 => t[p - 1] = s[q] /\ q > 0)
      BY <1>1, <1>4, <2>1
    <3> QED  BY <1>3, <3>1
  <2>2. CASE p \in 1..q
    <3>1. /\ D2[p] = D[p] /\ N2[p] = N[p] /\ D2[p - 1] = D[p - 1] /\ N2[p - 1] = N[p - 1]
          /\ t[p] = s[p] /\ (p > 1 => t[p - 1] = s[p - 1])
      <4>1. p \in 0..q /\ p - 1 \in 0..q /\ p \in 1..q /\ (p > 1 => p - 1 \in 1..q)
        BY <1>1, <2>2
      <4> QED  BY <1>1, <1>4, <4>1
    <3> QED  BY <1>2, <2>2, <3>1
  <2> QED  BY <1>1, <2>1, <2>2
<1>6. D2[0] = 0 /\ N2[0] = 0
  BY <1>1, <1>2, <1>4
<1>7. Reading(D2, N2, t)
  BY <1>1, <1>4, <1>5, <1>6 DEF Reading
<1> QED  BY <1>4, <1>7 DEF t, q

\* The state of the first pass: open holds what is open, and max_depth was
\* never exceeded.
CheckState(D, N) ==
    /\ Reading(D, N, input)
    /\ Len(open) = D[Len(input)] /\ n_nodes = 1 + N[Len(input)]
    /\ \A p \in 0..Len(input) : D[p] <= max_depth

Typed == input \in Seq(Chars) /\ open \in Seq(Opening) /\ max_depth \in Nat /\ n_nodes \in Nat

\* Nothing is parsed yet.
Fresh == pos = 1 /\ nodes = <<>> /\ parent_stack = <<>> /\ current_node = << null(1, 0) >>

(* What holds of every state: the two passes agree on how many nodes are    *)
(* open after each character.                                               *)
ExpressionInv ==
    /\ phase # "panic"
    /\ phase = "check" => Typed /\ Fresh /\ \E D, N : CheckState(D, N)
    /\ phase = "parse" =>
          /\ Typed /\ open = <<>> /\ max_depth <= MAX_RECURSION_DEPTH
          /\ \E D, N : CheckState(D, N) /\ ParseState(D, N)
    /\ phase = "parsed" => Linked(nodes)

(* One more character is read.                                              *)
LEMMA ReadKeeps ==
    ASSUME NEW D, NEW N, CheckState(D, N), Typed, NEW ch \in Chars, input' = Append(input, ch),
           NEW d \in Nat, NEW n \in Nat, Fits(D, N, input, ch, d, n),
           open' \in Seq(Opening), Len(open') = d, n_nodes' = 1 + n, max_depth' \in Nat,
           max_depth' >= max_depth, d <= max_depth'
    PROVE  Typed' /\ \E D2, N2 : CheckState(D2, N2)'
<1>1. input \in Seq(Chars) /\ Len(input) \in Nat /\ max_depth \in Nat
  BY DEF Typed
<1>2. Reading(D, N, input) /\ \A p \in 0..Len(input) : D[p] <= max_depth
  BY DEF CheckState
<1>3. PICK D2, N2 : /\ Reading(D2, N2, Append(input, ch))
                    /\ D2[Len(input) + 1] = d /\ N2[Len(input) + 1] = n
                    /\ \A p \in 0..Len(input) : D2[p] = D[p]
  BY <1>1, <1>2, ReadingExtends
<1>4. input' \in Seq(Chars) /\ Len(input') = Len(input) + 1
  BY <1>1
<1>5. \A p \in 0..Len(input') : D2[p] <= max_depth'
  <2>1. \A p \in 0..Len(input) : D[p] \in Nat
    BY <1>2 DEF Reading
  <2> QED  BY <1>1, <1>2, <1>3, <1>4, <2>1
<1>6. Typed'
  BY <1>4 DEF Typed
<1>7. CheckState(D2, N2)'
  BY <1>3, <1>4, <1>5 DEF CheckState
<1> QED  BY <1>6, <1>7


\* A state in which the first pass goes on, before and after a character.
Goes(D, N) == phase = "check" /\ Typed /\ Fresh /\ CheckState(D, N)

Went == Typed' /\ Fresh' /\ \E D2, N2 : CheckState(D2, N2)'

LEMMA FreshKept ==
    ASSUME Fresh, UNCHANGED parse_vars
    PROVE  Fresh'
BY DEF Fresh, parse_vars

(* What the guard of the first pass says.                                   *)
LEMMA MayFollow ==
    ASSUME Typed, NEW ch, may_follow(ch)
    PROVE  Len(input) > 0 /\ input[Len(input)] \in Closing => ch \in Closing \cup {Comma}
<1>1. Len(input) > 0 => input # <<>>
  BY EmptySeq DEF Typed
<1> QED  BY <1>1 DEF may_follow, LastOf

(* The values the first pass has after the last character.                  *)
LEMMA LastCounted ==
    ASSUME NEW D, NEW N, Typed, CheckState(D, N)
    PROVE  /\ D[Len(input)] \in Nat /\ N[Len(input)] \in Nat /\ Len(open) \in Nat
           /\ D[Len(input)] = Len(open) /\ n_nodes = 1 + N[Len(input)]
           /\ D[Len(input)] <= max_depth /\ max_depth \in Nat /\ n_nodes \in Nat
<1>1. Len(input) \in 0..Len(input)
  BY DEF Typed
<1> QED  BY <1>1 DEF CheckState, Typed, Reading

LEMMA ReadNameKeeps ==
    ASSUME NEW D, NEW N, Goes(D, N), ReadName, phase' = "check"
    PROVE  Went
<1> DEFINE d == D[Len(input)]
           n == N[Len(input)]
<1>1. /\ Typed /\ Fresh /\ CheckState(D, N) /\ phase = "check"
  BY DEF Goes
<1>2. /\ input' = Append(input, Name) /\ UNCHANGED parse_vars /\ may_follow(Name)
      /\ open' = open /\ max_depth' = max_depth /\ n_nodes' = n_nodes
  BY <1>1 DEF ReadName, Read, check_vars
<1>3. /\ d \in Nat /\ n \in Nat /\ Len(open) = d /\ n_nodes = 1 + n /\ d <= max_depth
      /\ max_depth \in Nat
  BY <1>1, LastCounted
<1>4. Fits(D, N, input, Name, d, n)
  BY <1>1, <1>2, Distinct, MayFollow DEF Fits
<1>5. Name \in Chars /\ open \in Seq(Opening)
  BY <1>1 DEF Chars, Typed
<1> HIDE DEF d, n
<1>6. open' \in Seq(Opening) /\ Len(open') = d /\ n_nodes' = 1 + n /\ max_depth' \in Nat
      /\ max_depth' >= max_depth /\ d <= max_depth'
  BY <1>2, <1>3, <1>5
<1>7. Typed' /\ \E D2, N2 : CheckState(D2, N2)'
  BY <1>1, <1>2, <1>3, <1>4, <1>5, <1>6, ReadKeeps
<1> QED  BY <1>1, <1>2, <1>7, FreshKept DEF Went

LEMMA ReadCommaKeeps ==
    ASSUME NEW D, NEW N, Goes(D, N), ReadComma, phase' = "check"
    PROVE  Went
<1> DEFINE d == D[Len(input)]
           m == N[Len(input)]
           n == m + 1
<1>1. /\ Typed /\ Fresh /\ CheckState(D, N) /\ phase = "check"
  BY DEF Goes
<1>2. /\ input' = Append(input, Comma) /\ UNCHANGED parse_vars /\ may_follow(Comma) /\ open # <<>>
      /\ open' = open /\ max_depth' = max_depth /\ n_nodes' = n_nodes + 1
  BY <1>1 DEF ReadComma, Read
<1>3. /\ d \in Nat /\ m \in Nat /\ Len(open) = d /\ n_nodes = 1 + m /\ d <= max_depth
      /\ max_depth \in Nat
  BY <1>1, LastCounted
<1>4. Comma \in Chars /\ open \in Seq(Opening) /\ d > 0
  BY <1>1, <1>2, <1>3, EmptySeq DEF Chars, Typed
<1>5. Fits(D, N, input, Comma, d, n)
  BY <1>1, <1>2, <1>4, Distinct, MayFollow DEF Fits
<1> HIDE DEF d, m
<1>6. open' \in Seq(Opening) /\ Len(open') = d /\ n_nodes' = 1 + n /\ max_depth' \in Nat
      /\ max_depth' >= max_depth /\ d <= max_depth' /\ n \in Nat
  BY <1>2, <1>3, <1>4
<1> HIDE DEF n
<1>7. Typed' /\ \E D2, N2 : CheckState(D2, N2)'
  BY <1>1, <1>2, <1>3, <1>4, <1>5, <1>6, ReadKeeps
<1> QED  BY <1>1, <1>2, <1>7, FreshKept DEF Went

LEMMA ReadOpenKeeps ==
    ASSUME NEW D, NEW N, Goes(D, N), ReadOpen, phase' = "check"
    PROVE  Went
<1> DEFINE c == D[Len(input)]
           d == c + 1
           n == N[Len(input)]
<1>1. /\ Typed /\ Fresh /\ CheckState(D, N) /\ phase = "check"
  BY DEF Goes
<1>2. PICK ch \in Opening :
          /\ input' = Append(input, ch) /\ UNCHANGED parse_vars /\ may_follow(ch)
          /\ open' = Append(open, ch) /\ max_depth' = deepest(max_depth, open') /\ n_nodes' = n_nodes
  BY <1>1 DEF ReadOpen, Read
<1>3. /\ c \in Nat /\ n \in Nat /\ Len(open) = c /\ n_nodes = 1 + n /\ c <= max_depth
      /\ max_depth \in Nat
  BY <1>1, LastCounted
<1>4. ch \in Chars /\ open \in Seq(Opening) /\ ch \notin Closing /\ ch # Comma /\ ch # Name
  BY <1>1, Distinct DEF Chars, Typed
<1>5. Fits(D, N, input, ch, d, n)
  BY <1>1, <1>2, <1>4, MayFollow DEF Fits
<1> HIDE DEF c, n
<1>6. open' \in Seq(Opening) /\ Len(open') = d /\ d \in Nat
  BY <1>2, <1>3, <1>4
<1> HIDE DEF d
<1>7. max_depth' \in Nat /\ max_depth' >= max_depth /\ d <= max_depth' /\ n_nodes' = 1 + n
  BY <1>2, <1>3, <1>6 DEF deepest
<1>8. Typed' /\ \E D2, N2 : CheckState(D2, N2)'
  BY <1>1, <1>2, <1>3, <1>4, <1>5, <1>6, <1>7, ReadKeeps
<1> QED  BY <1>1, <1>2, <1>8, FreshKept DEF Went

LEMMA ReadCloseKeeps ==
    ASSUME NEW D, NEW N, Goes(D, N), ReadClose, phase' = "check"
    PROVE  Went
<1> DEFINE c == D[Len(input)]
           d == c - 1
           m == N[Len(input)]
           n == m + 1
<1>1. /\ Typed /\ Fresh /\ CheckState(D, N) /\ phase = "check"
  BY DEF Goes
<1>2. PICK ch \in Closing :
          /\ input' = Append(input, ch) /\ UNCHANGED parse_vars /\ may_follow(ch) /\ open # <<>>
          /\ open' = Front1(open) /\ max_depth' = max_depth /\ n_nodes' = n_nodes + 1
  BY <1>1 DEF ReadClose, Read, closes
<1>3. /\ c \in Nat /\ m \in Nat /\ Len(open) = c /\ n_nodes = 1 + m /\ c <= max_depth
      /\ max_depth \in Nat
  BY <1>1, LastCounted
<1>4. ch \in Chars /\ open \in Seq(Opening) /\ ch \notin Opening /\ ch # Comma /\ ch # Name
  BY <1>1, Distinct DEF Chars, Typed
<1>5. c > 0 /\ d \in Nat /\ c = d + 1 /\ n \in Nat
  BY <1>2, <1>3, <1>4, EmptySeq, SMTT(30)
<1>6. Fits(D, N, input, ch, d, n)
  BY <1>1, <1>2, <1>4, <1>5, MayFollow DEF Fits
<1> HIDE DEF c, d, m
<1>7. open' \in Seq(Opening) /\ Len(open') = d
  BY <1>2, <1>3, <1>4, <1>5, SubSeqProperties DEF Front1
<1>8. max_depth' \in Nat /\ max_depth' >= max_depth /\ d <= max_depth' /\ n_nodes' = 1 + n
  BY <1>2, <1>3, <1>5
<1> HIDE DEF n
<1>9. Typed' /\ \E D2, N2 : CheckState(D2, N2)'
  BY <1>1, <1>2, <1>4, <1>5, <1>6, <1>7, <1>8, ReadKeeps
<1> QED  BY <1>1, <1>2, <1>9, FreshKept DEF Went


-----------------------------------------------------------------------------
(* Both passes.                                                             *)

(* A single node is a tree.                                                 *)
LEMMA RootLinked ==
    LET vec == << null(1, 0) >>
    IN  Linked(vec) /\ StackOf(vec, <<>>)
<1> DEFINE n == null(1, 0)
           vec == <<n>>
<1>1. /\ n.parent_idx = 0 /\ n.n_children = 0
      /\ n.last_child_idx = 0 /\ n.right_sibling_idx = 0
  BY NullNode
<1> HIDE DEF n
<1>2. DOMAIN vec = {1} /\ vec[1] = n
  <2>1. Len(vec) = 1 /\ vec \in Seq({n}) /\ vec[1] = n
    OBVIOUS
  <2>2. DOMAIN vec = 1..1 /\ 1..1 = {1}
    BY <2>1
  <2> QED  BY <2>1, <2>2
<1> HIDE DEF vec
<1>3. Below(vec, 1) = {} /\ Below(vec, 0) = {1}
  BY <1>1, <1>2 DEF Below
<1>4. PreOrder(vec, 1)
  BY <1>2 DEF PreOrder
<1>5. Cardinality(Below(vec, 1)) = 0
  BY <1>3, FS_EmptySet
<1>6. Linked(vec)
  BY <1>1, <1>2, <1>3, <1>4, <1>5 DEF Linked
<1>7. StackOf(vec, <<>>)
  <2>1. DOMAIN <<>> = {}
    OBVIOUS
  <2> QED  BY <2>1 DEF StackOf
<1> QED  BY <1>6, <1>7 DEF vec, n

(* The second pass starts.                                                  *)
LEMMA ParseStarts ==
    ASSUME NEW D, NEW N, Typed, Fresh, Reading(D, N, input)
    PROVE  ParseState(D, N)
<1> DEFINE n == null(1, 0)
<1>1. n \in NodeSet /\ n.name_pos = 1
  BY NullNode
<1>2. /\ pos = 1 /\ nodes = <<>> /\ parent_stack = <<>> /\ current_node = <<n>>
      /\ input \in Seq(Chars) /\ Len(input) \in Nat
  BY DEF Fresh, Typed
<1>3. Linked(<<n>>) /\ StackOf(<<n>>, <<>>)
  BY RootLinked
<1> HIDE DEF n
<1>4. <<n>> \in Seq(NodeSet) /\ Len(<<n>>) = 1 /\ <<n>>[1] = n /\ <<n>> # <<>>
  BY <1>1
<1>5. /\ nodes \in Seq(NodeSet) /\ Len(nodes) = 0
      /\ parent_stack \in Seq(Nat) /\ Len(parent_stack) = 0 /\ DOMAIN parent_stack = {}
  BY <1>2, EmptySeq
<1>6. Listed = <<n>>
  BY <1>2, <1>4, ConcatEmptySeq DEF Listed
<1>7. Links
  BY <1>2, <1>3, <1>6 DEF Links
<1>8. /\ current_node \in Seq(NodeSet) /\ Len(current_node) = 1 /\ current_node # <<>>
      /\ current_node[1].name_pos = 1
  BY <1>1, <1>2, <1>4
<1>9. Vectors
  BY <1>2, <1>5, <1>8 DEF Vectors
<1>10. D[0] = 0 /\ N[0] = 0
  BY DEF Reading
<1> QED  BY <1>2, <1>5, <1>7, <1>8, <1>9, <1>10 DEF ParseState

\* A state of the second pass.
Parses(D, N) ==
    /\ phase = "parse" /\ Typed /\ open = <<>> /\ max_depth <= MAX_RECURSION_DEPTH
    /\ CheckState(D, N) /\ ParseState(D, N)

LEMMA EndStarts ==
    ASSUME NEW D, NEW N, Goes(D, N), EndOfInput, phase' = "parse"
    PROVE  Parses(D, N)'
<1>1. /\ phase = "check" /\ Typed /\ Fresh /\ CheckState(D, N) /\ Reading(D, N, input)
  BY DEF Goes, CheckState
<1>2. /\ open = <<>> /\ max_depth <= MAX_RECURSION_DEPTH
      /\ input' = input /\ open' = open /\ max_depth' = max_depth /\ n_nodes' = n_nodes
      /\ pos' = pos /\ nodes' = nodes /\ parent_stack' = parent_stack /\ current_node' = current_node
  BY DEF EndOfInput, check_vars, parse_vars
<1>3. ParseState(D, N)
  BY <1>1, ParseStarts
<1>4. ParseState(D, N)'
  BY <1>2, <1>3 DEF ParseState, Vectors, Links, Listed
<1>5. Typed' /\ CheckState(D, N)'
  BY <1>1, <1>2 DEF Typed, CheckState
<1> QED  BY <1>2, <1>4, <1>5 DEF Parses

LEMMA ParseStepKeeps ==
    ASSUME NEW D, NEW N, Parses(D, N), ParseName \/ ParseOpen \/ ParseComma \/ ParseClose
    PROVE  Parses(D, N)'
<1>1. /\ phase = "parse" /\ Typed /\ open = <<>> /\ max_depth <= MAX_RECURSION_DEPTH
      /\ CheckState(D, N) /\ ParseState(D, N) /\ Reading(D, N, input)
  BY DEF Parses, CheckState
<1>2. input' = input /\ open' = open /\ max_depth' = max_depth /\ n_nodes' = n_nodes
  BY DEF ParseName, ParseOpen, ParseComma, ParseClose, ParseStep, check_vars
<1>3. ParseState(D, N)' /\ phase' = phase
  BY <1>1, NameKeeps, OpenKeeps, CommaKeeps, CloseKeeps
<1>4. Typed' /\ CheckState(D, N)'
  BY <1>1, <1>2 DEF Typed, CheckState
<1> QED  BY <1>1, <1>2, <1>3, <1>4 DEF Parses

(* The end: the nodes are as many as were counted.                          *)
LEMMA ParseEndKeeps ==
    ASSUME NEW D, NEW N, Parses(D, N), ParseEnd
    PROVE  phase' = "parsed" /\ Linked(nodes')
<1>1. Typed /\ CheckState(D, N) /\ ParseState(D, N) /\ Reading(D, N, input) /\ open = <<>>
  BY DEF Parses, CheckState
<1>2. Len(open) = 0
  BY <1>1, EmptySeq
<1>3. D[Len(input)] = 0 /\ n_nodes = 1 + N[Len(input)]
  BY <1>1, <1>2, LastCounted
<1> QED  BY <1>1, <1>3, EndCounts

LEMMA InitExpression ==
    ASSUME ExpressionInit
    PROVE  ExpressionInv
<1> DEFINE D == [p \in 0..0 |-> 0]
<1>1. Typed
  <2>1. <<>> \in Seq(Chars) /\ <<>> \in Seq(Opening)
    BY EmptySeq
  <2> QED  BY <2>1 DEF ExpressionInit, Typed
<1>2. Fresh /\ phase = "check" /\ input = <<>> /\ open = <<>> /\ max_depth = 0 /\ n_nodes = 1
  BY DEF ExpressionInit, Fresh
<1>3. Len(input) = 0 /\ Len(open) = 0
  BY <1>2, EmptySeq
<1>4. D \in [0..0 -> Nat] /\ D[0] = 0 /\ 1..0 = {} /\ 0..0 = {0}
  OBVIOUS
<1> HIDE DEF D
<1>5. Reading(D, D, input)
  BY <1>3, <1>4 DEF Reading
<1>6. CheckState(D, D)
  BY <1>2, <1>3, <1>4, <1>5 DEF CheckState
<1> QED  BY <1>1, <1>2, <1>6 DEF ExpressionInv

(* Every step keeps the invariant: a character of the first pass adds one   *)
(* entry to the two counts, one of the second pass finds its entry there.   *)
LEMMA StepExpression ==
    ASSUME ExpressionInv, ExpressionNext
    PROVE  ExpressionInv'
<1> DEFINE Reads == ReadName \/ ReadOpen \/ ReadClose \/ ReadComma
           Steps == ParseName \/ ParseOpen \/ ParseComma \/ ParseClose
<1>1. CASE Reads
  <2>1. phase = "check" /\ phase' \in {"check", "refused"}
    BY <1>1 DEF ReadName, ReadOpen, ReadClose, ReadComma, Read
  <2>2. PICK D, N : Goes(D, N)
    BY <2>1 DEF ExpressionInv, Goes
  <2>3. phase' = "check" => Went
    BY <1>1, <2>2, ReadNameKeeps, ReadOpenKeeps, ReadCloseKeeps, ReadCommaKeeps
  <2> QED  BY <2>1, <2>3 DEF ExpressionInv, Went
<1>2. CASE EndOfInput
  <2>1. phase = "check" /\ phase' \in {"parse", "unmatched_open", "too_deep"}
    BY <1>2 DEF EndOfInput
  <2>2. PICK D, N : Goes(D, N)
    BY <2>1 DEF ExpressionInv, Goes
  <2>3. phase' = "parse" => Parses(D, N)'
    BY <1>2, <2>2, EndStarts
  <2> QED  BY <2>1, <2>3 DEF ExpressionInv, Parses
<1>3. CASE Steps
  <2>1. phase = "parse"
    BY <1>3 DEF ParseName, ParseOpen, ParseComma, ParseClose, ParseStep
  <2>2. PICK D, N : Parses(D, N)
    BY <2>1 DEF ExpressionInv, Parses
  <2>3. Parses(D, N)'
    BY <1>3, <2>2, ParseStepKeeps
  <2> QED  BY <2>3 DEF ExpressionInv, Parses
<1>4. CASE ParseEnd
  <2>1. phase = "parse"
    BY <1>4 DEF ParseEnd
  <2>2. PICK D, N : Parses(D, N)
    BY <2>1 DEF ExpressionInv, Parses
  <2>3. phase' = "parsed" /\ Linked(nodes')
    BY <1>4, <2>2, ParseEndKeeps
  <2> QED  BY <2>3 DEF ExpressionInv
<1> QED  BY <1>1, <1>2, <1>3, <1>4 DEF ExpressionNext

(* The second pass has at most as many open nodes as the first saw.         *)
LEMMA InvFaithful ==
    ASSUME ExpressionInv
    PROVE  TreeFaithful
<1>1. ASSUME phase = "parse"
      PROVE  Len(parent_stack) <= max_depth /\ max_depth <= MAX_RECURSION_DEPTH
  <2>1. PICK D, N : Parses(D, N)
    BY <1>1 DEF ExpressionInv, Parses
  <2>2. /\ Typed /\ CheckState(D, N) /\ ParseState(D, N) /\ Vectors
        /\ max_depth <= MAX_RECURSION_DEPTH /\ Reading(D, N, input)
    BY <2>1 DEF Parses, ParseState, CheckState
  <2>3. pos - 1 \in 0..Len(input)
    BY <2>2 DEF Vectors
  <2>4. Len(parent_stack) = D[pos - 1] /\ D[pos - 1] <= max_depth /\ D[pos - 1] \in Nat
    BY <2>2, <2>3 DEF ParseState, CheckState, Reading
  <2> QED  BY <2>2, <2>4
<1> QED  BY <1>1 DEF ExpressionInv, TreeFaithful

(* The two passes of the parser agree on every string: whatever it is, the  *)
(* vector that Tree::from_str_inner returns is a tree in pre-order whose    *)
(* links are all right, its assertions and its expect never panic, and it   *)
(* has never more open nodes than the first pass saw, which are at most     *)
(* MAX_RECURSION_DEPTH.                                                     *)
THEOREM TreeIsFaithful == ExpressionSpec => []TreeFaithful
<1>1. ExpressionInit => ExpressionInv
  BY InitExpression
<1>2. ExpressionInv /\ [ExpressionNext]_evars => ExpressionInv'
  <2>1. ASSUME ExpressionInv, UNCHANGED evars  PROVE ExpressionInv'
    BY <2>1 DEF ExpressionInv, evars, check_vars, parse_vars, Typed, Fresh, CheckState,
                ParseState, Vectors, Links, Listed
  <2> QED  BY <2>1, StepExpression
<1>3. ExpressionInv => TreeFaithful
  BY InvFaithful
<1> QED  BY <1>1, <1>2, <1>3, PTL DEF ExpressionSpec
=============================================================================
