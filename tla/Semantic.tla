------------------------------ MODULE Semantic ------------------------------
(***************************************************************************)
(* Abstract policies (src/src/policy/semantic.rs): what an output requires *)
(* of a spender, whatever its script looks like.                           *)
(*                                                                         *)
(* A policy is a tree of nodes; name is the key, the hash or the           *)
(* inscription of a node, k its locktime or its threshold.  The same nodes *)
(* serve the concrete policies, whose disjunctions also have odds.         *)
(***************************************************************************)
EXTENDS TimelockInfo, FiniteSets, FiniteSetsExt

CONSTANTS
    NameOrder,                    \* all names, in the order of the keys and hashes
    ENTAILMENT_MAX_TERMINALS      \* 20 in semantic.rs

LOCAL Node(tag, k, name, odds, subs) ==
    [tag |-> tag, k |-> k, name |-> name, odds |-> odds, subs |-> subs]

Unsatisfiable == Node("Unsatisfiable", 0, "", <<>>, <<>>)
Trivial == Node("Trivial", 0, "", <<>>, <<>>)
Key(pk) == Node("Key", 0, pk, <<>>, <<>>)
Hash(tag, h) == Node(tag, 0, h, <<>>, <<>>)
After(t) == Node("After", t, "", <<>>, <<>>)
Older(t) == Node("Older", t, "", <<>>, <<>>)
Inscribe(i, sub) == Node("Inscribe", 0, i, <<>>, <<sub>>)
Thresh(k, subs) == Node("Thresh", k, "", <<>>, subs)
And(subs) == Node("And", 0, "", <<>>, subs)
Or(odds, subs) == Node("Or", 0, "", odds, subs)

HashTags == {"Sha256", "Hash256", "Ripemd160", "Hash160"}

\* pre_order_iter: all the nodes of a policy.
RECURSIVE pre_order(_)
pre_order(p) == <<p>> \o FlattenSeq([i \in DOMAIN p.subs |-> pre_order(p.subs[i])])

NodesOf(p) == Range(pre_order(p))

\* A post-order loop that rebuilds every node from its new children.
Rebuild(policy, f(_)) ==
    LET RECURSIVE New(_)
        New(p) == f([p EXCEPT !.subs = [i \in DOMAIN p.subs |-> New(p.subs[i])]])
    IN  New(policy)

-----------------------------------------------------------------------------
(* Normal form. *)

\* Wrong: the children of a disjunction are taken into a threshold.
NormalizedFlattening(k, subs) ==
    LET rest == SelectSeq(subs, LAMBDA s : s \notin {Trivial, Unsatisfiable})
        m == Max({0, k - Len(SelectSeq(subs, LAMBDA s : s = Trivial))})
        flat == FlattenSeq([i \in DOMAIN rest |->
                    IF rest[i].tag = "Thresh" /\ rest[i].k = 1 THEN rest[i].subs ELSE <<rest[i]>>])
    IN  CASE m = 0 -> Trivial
          [] m > Len(flat) -> Unsatisfiable
          [] OTHER -> IF Len(flat) = 1 THEN flat[1] ELSE Thresh(m, flat)

\* The threshold k of normalized children, without the trivial and the
\* unsatisfiable ones, nested conjunctions and disjunctions made flat.
normalized_thresh(k, subs) ==
    LET rest == SelectSeq(subs, LAMBDA s : s \notin {Trivial, Unsatisfiable})
        trivial_count == Len(SelectSeq(subs, LAMBDA s : s = Trivial))
        n == Len(rest)
        m == Max({0, k - trivial_count})
        is_and == m = n
        is_or == m = 1
        Merges(s) ==
            /\ s.tag = "Thresh"
            /\ is_and # is_or
            /\ s.k = (IF is_and THEN Len(s.subs) ELSE 1)
        ret_subs == FlattenSeq([i \in DOMAIN rest |->
                        IF Merges(rest[i]) THEN rest[i].subs ELSE <<rest[i]>>])
    IN  CASE m = 0 -> Trivial
          [] m > Len(ret_subs) -> Unsatisfiable
          [] OTHER ->
                IF Len(ret_subs) = 1 THEN ret_subs[1]
                ELSE Thresh(IF is_and THEN Len(ret_subs) ELSE m, ret_subs)

normalized(policy) ==
    Rebuild(policy, LAMBDA p :
        CASE p.tag = "Inscribe" /\ p.subs[1] = Unsatisfiable -> Unsatisfiable
          [] p.tag = "Thresh" -> normalized_thresh(p.k, p.subs)
          [] OTHER -> p)

-----------------------------------------------------------------------------
(* Entailment. *)

n_terminals(p) ==
    Len(SelectSeq(pre_order(p), LAMBDA q : q.tag \notin {"Thresh", "Trivial", "Unsatisfiable"}))

RECURSIVE first_constraint(_)
first_constraint(p) == IF p.tag = "Thresh" THEN first_constraint(p.subs[1]) ELSE p

\* The debug assertion of first_constraint and satisfy_constraint.
IsNormalized(p) == normalized(p) = p

satisfy_constraint(policy, witness, available) ==
    Rebuild(policy, LAMBDA p :
        normalized(IF p # witness THEN p ELSE IF available THEN Trivial ELSE Unsatisfiable))

\* Some(b) is <<b>>, None is <<>>.  Wrong: only the satisfied side is compared.
RECURSIVE EntailsOneSided(_, _)
EntailsOneSided(a, b) ==
    CASE a.tag = "Unsatisfiable" -> <<TRUE>>
      [] a.tag = "Trivial" -> <<b.tag = "Trivial">>
      [] b.tag = "Unsatisfiable" /\ a.tag \notin {"Trivial", "Unsatisfiable"} -> <<FALSE>>
      [] OTHER ->
            LET c == first_constraint(normalized(a))
            IN  EntailsOneSided(satisfy_constraint(normalized(a), c, TRUE),
                                satisfy_constraint(normalized(b), c, TRUE))

RECURSIVE entails(_, _)
entails(a, b) ==
    IF \/ \E p \in NodesOf(a) \cup NodesOf(b) : p.tag = "Inscribe"
       \/ n_terminals(a) > ENTAILMENT_MAX_TERMINALS
    THEN <<>>
    ELSE CASE a.tag = "Unsatisfiable" -> <<TRUE>>
           [] a.tag = "Trivial" -> <<b.tag = "Trivial">>
           [] b.tag = "Unsatisfiable" /\ a.tag \notin {"Trivial", "Unsatisfiable"} -> <<FALSE>>
           [] OTHER ->
                LET a_norm == normalized(a)
                    b_norm == normalized(b)
                    c == first_constraint(a_norm)
                    with == entails(satisfy_constraint(a_norm, c, TRUE),
                                    satisfy_constraint(b_norm, c, TRUE))
                    without == entails(satisfy_constraint(a_norm, c, FALSE),
                                       satisfy_constraint(b_norm, c, FALSE))
                IN  CASE with = <<>> -> <<>>
                      [] with = <<FALSE>> -> <<FALSE>>
                      [] OTHER -> without

-----------------------------------------------------------------------------
(* Timelocks; is_implied_by is rust-bitcoin's. *)

RelImplied(t, age) == is_time_locked(t) = is_time_locked(age) /\ t % 65536 <= age % 65536
AbsImplied(t, n) == is_block_time(t) = is_block_time(n) /\ t <= n

at_age(policy, age) ==
    normalized(Rebuild(policy, LAMBDA p :
        IF p.tag = "Older" /\ ~RelImplied(p.k, age) THEN Unsatisfiable ELSE p))

at_lock_time(policy, n) ==
    normalized(Rebuild(policy, LAMBDA p :
        IF p.tag = "After" /\ ~AbsImplied(p.k, n) THEN Unsatisfiable ELSE p))

Dedup(S) == SetToSortSeq(S, <)
relative_timelocks(p) == Dedup({q.k : q \in {r \in NodesOf(p) : r.tag = "Older"}})
absolute_timelocks(p) == Dedup({q.k : q \in {r \in NodesOf(p) : r.tag = "After"}})

-----------------------------------------------------------------------------
(* Keys. *)

n_keys(p) == Len(SelectSeq(pre_order(p), LAMBDA q : q.tag = "Key"))

\* The sum of the k smallest; None is <<>>.
fewest(k, sublens) ==
    IF Len(sublens) < k THEN <<>>
    ELSE << FoldSeq(+, 0, SubSeq(SortSeq(sublens, <), 1, k)) >>

RECURSIVE minimum_n_keys(_)
minimum_n_keys(p) ==
    CASE p.tag = "Unsatisfiable" -> <<>>
      [] p.tag = "Key" -> <<1>>
      [] p.tag = "Inscribe" -> minimum_n_keys(p.subs[1])
      [] p.tag = "Thresh" ->
            fewest(p.k, FlattenSeq([i \in DOMAIN p.subs |-> minimum_n_keys(p.subs[i])]))
      [] OTHER -> <<0>>

\* Translator::pk and its hash functions: None is a failing translation.
translate_pk(policy, names) ==
    IF \E p \in NodesOf(policy) : p.tag \in HashTags \cup {"Key"} /\ p.name \notin DOMAIN names
    THEN <<>>
    ELSE << Rebuild(policy, LAMBDA p :
                IF p.tag \in HashTags \cup {"Key"} THEN [p EXCEPT !.name = names[p.name]] ELSE p) >>

-----------------------------------------------------------------------------
(* The order that is derived for policies, and sorting. *)

TagOrder ==
    << "Unsatisfiable", "Trivial", "Key", "After", "Older", "Sha256", "Hash256",
       "Ripemd160", "Hash160", "TxTemplate", "Inscribe", "Thresh" >>
LOCAL Position(seq, x) == CHOOSE i \in DOMAIN seq : seq[i] = x

RECURSIVE Compare(_, _)
Compare(p, q) ==
    LET d == << Position(TagOrder, p.tag) - Position(TagOrder, q.tag),
                IF p.name = "" \/ q.name = "" THEN 0
                ELSE Position(NameOrder, p.name) - Position(NameOrder, q.name),
                p.k - q.k >>
        differ == {i \in DOMAIN d : d[i] # 0}
        both == 1..Min({Len(p.subs), Len(q.subs)})
        children == {i \in both : p.subs[i] # q.subs[i]}
    IN  CASE differ # {} -> d[Min(differ)]
          [] differ = {} /\ children # {} -> Compare(p.subs[Min(children)], q.subs[Min(children)])
          [] OTHER -> Len(p.subs) - Len(q.subs)

sorted(policy) ==
    Rebuild(policy, LAMBDA p :
        IF p.tag = "Thresh"
        THEN [p EXCEPT !.subs = SortSeq(p.subs, LAMBDA a, b : Compare(a, b) < 0)] ELSE p)

-----------------------------------------------------------------------------
(* The text of a policy: a tree of words.  prob is the number before an @  *)
(* in front of a word, 0 if there is none; the first child of thresh, its  *)
(* k, and the arguments of the terminals are fields of the word.           *)

Text(word, k, name, prob, kids) ==
    [word |-> word, k |-> k, name |-> name, prob |-> prob, kids |-> kids]

WordOf ==
    [Unsatisfiable |-> "UNSATISFIABLE", Trivial |-> "TRIVIAL", Key |-> "pk", After |-> "after",
     Older |-> "older", Sha256 |-> "sha256", Hash256 |-> "hash256", Ripemd160 |-> "ripemd160",
     Hash160 |-> "hash160", TxTemplate |-> "txtmpl", Inscribe |-> "inscribe",
     Thresh |-> "thresh", And |-> "and", Or |-> "or"]
TagOf(word) == CHOOSE tag \in DOMAIN WordOf : WordOf[tag] = word

RECURSIVE words(_)
words(text) == {text} \cup UNION {words(text.kids[i]) : i \in DOMAIN text.kids}

\* Wrong: a conjunction is also written as a threshold.
RECURSIVE DisplayThresh(_)
DisplayThresh(p) ==
    LET or == p.tag = "Thresh" /\ p.k = 1
    IN  Text(IF or THEN "or" ELSE WordOf[p.tag], IF or THEN 0 ELSE p.k, p.name, 0,
             [i \in DOMAIN p.subs |-> DisplayThresh(p.subs[i])])

\* fmt::Display: a threshold of all or of one is written as and, or.
RECURSIVE display(_)
display(p) ==
    LET word == CASE p.tag = "Thresh" /\ p.k = Len(p.subs) -> "and"
                  [] p.tag = "Thresh" /\ p.k = 1 -> "or"
                  [] OTHER -> WordOf[p.tag]
    IN  Text(word, IF word \in {"and", "or"} THEN 0 ELSE p.k, p.name, 0,
             [i \in DOMAIN p.subs |-> display(p.subs[i])])

\* Arguments that no kind of policy takes: a locktime out of range, a
\* threshold out of range.
bad_argument(text) ==
    \/ text.word \in {"after", "older"} /\ text.k \notin 1..2147483647
    \/ text.word = "thresh" /\ text.k \notin 1..Len(text.kids)

\* FromTree: the policy, or <<>> for an error.  A probability is part of an
\* unknown word; thresh is neither a conjunction nor a disjunction.
from_tree(text) ==
    LET refused(w) ==
            \/ bad_argument(w)
            \/ w.prob # 0
            \/ w.word \in {"and", "or"} /\ Len(w.kids) < 2
            \/ w.word = "thresh" /\ w.k \in {1, Len(w.kids)}
        RECURSIVE Parsed(_)
        Parsed(w) ==
            LET subs == [i \in DOMAIN w.kids |-> Parsed(w.kids[i])]
            IN  CASE w.word = "and" -> Thresh(Len(subs), subs)
                  [] w.word = "or" -> Thresh(1, subs)
                  [] OTHER -> Node(TagOf(w.word), w.k, w.name, <<>>, subs)
    IN  IF \E w \in words(text) : refused(w) THEN <<>> ELSE << Parsed(text) >>

-----------------------------------------------------------------------------
(* What a policy means: the sets of conditions that are enough for it.     *)

IsLeaf(p) == p.subs = <<>> /\ p.tag \notin {"Trivial", "Unsatisfiable"}
Conditions(p) == {q \in NodesOf(p) : IsLeaf(q)}

RECURSIVE Holds(_, _)
Holds(p, W) ==
    LET met == {i \in DOMAIN p.subs : Holds(p.subs[i], W)}
    IN  CASE p.tag = "Unsatisfiable" -> FALSE
          [] p.tag = "Trivial" -> TRUE
          [] p.tag = "Thresh" -> Cardinality(met) >= p.k
          [] p.tag \in {"And", "Inscribe"} -> met = DOMAIN p.subs
          [] p.tag = "Or" -> met # {}
          [] OTHER -> p \in W

Meaning(p, conditions) == {W \in SUBSET conditions : Holds(p, W)}
=============================================================================
