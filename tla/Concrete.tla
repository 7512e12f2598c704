------------------------------ MODULE Concrete ------------------------------
(***************************************************************************)
(* Concrete policies (src/src/policy/concrete.rs): what a user writes and  *)
(* the compiler turns into a script.                                       *)
(***************************************************************************)
EXTENDS Semantic

CONSTANTS
    ProbOne,                   \* the probability 1.0; all others are multiples of 1/ProbOne
    BadInscriptions,           \* the inscriptions that Inscription::validate refuses
    MAX_COMPILATION_LEAVES     \* 1024 in concrete.rs

is_or(p) == p.tag = "Thresh" /\ p.k = 1
is_and(p) == p.tag = "Thresh" /\ p.k = Len(p.subs)

check_binary_ops(p) == \A q \in NodesOf(p) : q.tag \in {"And", "Or"} => Len(q.subs) = 2

keys(p) ==
    LET ks == SelectSeq(pre_order(p), LAMBDA q : q.tag = "Key")
    IN  [i \in DOMAIN ks |-> ks[i].name]

check_duplicate_keys(p) == Cardinality(ToSet(keys(p))) = Len(keys(p))

RECURSIVE timelock_info(_)
timelock_info(p) ==
    LET infos == [i \in DOMAIN p.subs |-> timelock_info(p.subs[i])]
    IN  CASE p.tag = "After" -> after_info(p.k)
          [] p.tag = "Older" -> older_info(p.k)
          [] p.tag = "And" -> combine_threshold(Len(infos), infos)
          [] p.tag = "Or" -> combine_threshold(1, infos)
          [] p.tag = "Thresh" -> combine_threshold(p.k, infos)
          [] p.tag = "Inscribe" -> infos[1]
          [] OTHER -> {}

check_timelocks(p) == ~contains_unspendable_path(timelock_info(p))

is_valid(p) ==
    /\ \A q \in NodesOf(p) : q.tag = "Inscribe" => q.name \notin BadInscriptions
    /\ check_timelocks(p)
    /\ check_duplicate_keys(p)

RECURSIVE is_safe_nonmalleable(_)
is_safe_nonmalleable(p) ==
    LET acc == [i \in DOMAIN p.subs |-> is_safe_nonmalleable(p.subs[i])]
        safe == {i \in DOMAIN acc : acc[i].safe}
        all_non_mall == \A i \in DOMAIN acc : acc[i].non_mall
    IN  CASE p.tag \in {"Unsatisfiable", "Trivial", "Key", "TxTemplate"} ->
                [safe |-> TRUE, non_mall |-> TRUE]
          [] p.tag = "Inscribe" -> acc[1]
          [] p.tag \in HashTags \cup {"After", "Older"} -> [safe |-> FALSE, non_mall |-> TRUE]
          [] p.tag = "And" -> [safe |-> safe # {}, non_mall |-> all_non_mall]
          [] p.tag = "Or" -> [safe |-> safe = DOMAIN acc, non_mall |-> safe # {} /\ all_non_mall]
          [] p.tag = "Thresh" ->
                [safe |-> Cardinality(safe) >= Len(acc) - p.k + 1,
                 non_mall |-> all_non_mall /\ Cardinality(safe) >= Len(acc) - p.k]

\* The checks that precede every compilation.
compilable(p) ==
    /\ is_valid(p)
    /\ check_binary_ops(p)
    /\ is_safe_nonmalleable(p).safe
    /\ is_safe_nonmalleable(p).non_mall

-----------------------------------------------------------------------------
(* Lifting (policy/mod.rs); <<>> is an error. *)

lift(policy) ==
    IF ~check_timelocks(policy) THEN <<>>
    ELSE << Rebuild(policy, LAMBDA p :
                normalized(CASE p.tag = "And" -> Thresh(2, p.subs)
                             [] p.tag = "Or" -> Thresh(1, p.subs)
                             [] OTHER -> p)) >>

-----------------------------------------------------------------------------
(* Text. *)

\* fmt::Display: the probability goes in front of the child of an or.
RECURSIVE display_concrete(_)
display_concrete(p) ==
    Text(WordOf[p.tag], p.k, p.name, 0,
         [i \in DOMAIN p.subs |->
            [display_concrete(p.subs[i]) EXCEPT !.prob = IF p.tag = "Or" THEN p.odds[i] ELSE 0]])

\* FromStr and FromTree; a child of an or without a probability has 1.
from_str(text) ==
    LET refused(w) ==
            \/ bad_argument(w)
            \/ w.word \in {"and", "or"} /\ Len(w.kids) # 2
            \/ w.word # "or" /\ \E i \in DOMAIN w.kids : w.kids[i].prob # 0
        RECURSIVE Parsed(_)
        Parsed(w) ==
            LET subs == [i \in DOMAIN w.kids |-> Parsed(w.kids[i])]
                odds == [i \in DOMAIN w.kids |-> Max({1, w.kids[i].prob})]
            IN  CASE w.word = "and" -> And(subs)
                  [] w.word = "or" -> Or(odds, subs)
                  [] OTHER -> [And(subs) EXCEPT !.tag = TagOf(w.word), !.k = w.k, !.name = w.name]
    IN  IF \/ text.prob # 0
           \/ \E w \in words(text) : refused(w)
           \/ ~check_timelocks(Parsed(text))
        THEN <<>> ELSE << Parsed(text) >>

-----------------------------------------------------------------------------
(* Splitting a policy into the leaves of a Taproot tree.  A leaf is a pair *)
(* of its probability and its policy.                                      *)

\* Policy::enumerate_pol, one level of a disjunction.
ByOdds(odds, subs, prob) ==
    LET total == FoldSeq(+, 0, odds)
    IN  [i \in DOMAIN subs |-> << (prob * odds[i]) \div total, subs[i] >>]
Evenly(subs, prob) == [i \in DOMAIN subs |-> << prob \div Len(subs), subs[i] >>]

RECURSIVE tapleaves(_, _)
tapleaves(p, prob) ==
    LET split == CASE p.tag = "Or" -> ByOdds(p.odds, p.subs, prob)
                   [] is_or(p) -> Evenly(p.subs, prob)
                   [] OTHER -> <<>>
    IN  IF split = <<>> THEN << <<prob, p>> >>
        ELSE FlattenSeq([i \in DOMAIN split |-> tapleaves(split[i][2], split[i][1])])

tapleaf_probability_iter(p) == tapleaves(p, ProbOne)

\* thresh(k) of n as the n thresholds over n - 1 of its children.
generate_combination(p, prob) ==
    [i \in DOMAIN p.subs |->
        << prob \div Len(p.subs), [p EXCEPT !.subs = RemoveAt(p.subs, i)] >>]

enumerate_pol(p, prob) ==
    CASE p.tag = "Or" -> ByOdds(p.odds, p.subs, prob)
      [] is_or(p) -> Evenly(p.subs, prob)
      [] p.tag = "Thresh" /\ ~is_or(p) /\ ~is_and(p) -> generate_combination(p, prob)
      [] OTHER -> << <<prob, p>> >>

translate_unsatisfiable_pk(policy, key) ==
    Rebuild(policy, LAMBDA p : IF p.tag = "Key" /\ p.name = key THEN Unsatisfiable ELSE p)

\* The most likely key among the leaves, the last one of several.
internal_keys(policy) ==
    LET leaves == tapleaf_probability_iter(policy)
        ks == {i \in DOMAIN leaves : leaves[i][2].tag = "Key"}
        best == {i \in ks : \A j \in ks : leaves[j][1] <= leaves[i][1]}
    IN  {leaves[i][2].name : i \in {j \in best : \A l \in best : l <= j}}

check_num_tapleaves(p) == Len(tapleaf_probability_iter(p)) <= MAX_COMPILATION_LEAVES
=============================================================================
