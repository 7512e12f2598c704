------------------------------ MODULE Policies ------------------------------
(***************************************************************************)
(* A program that writes the text of a policy, parses it as a concrete     *)
(* policy that it lifts, or as an abstract policy, and applies the         *)
(* operations of abstract policies to the result in any order.  worlds is  *)
(* what the policy must mean after each of them.                           *)
(***************************************************************************)
EXTENDS Concrete

CONSTANTS
    Terminals,         \* the words without children to write
    Inscriptions,      \* the inscriptions to carry
    Probs,             \* the probabilities of two alternatives; 0 is not written
    Ages,              \* the ages to filter with
    Heights,           \* the locktimes to filter with
    Renaming,          \* a translation of keys and hashes
    MaxLeaves          \* bound: terminals and words with one child of a policy

VARIABLES
    texts,             \* texts not yet used, the newest last
    leaves,            \* number of terminals and words with one child in them
    conc,              \* the concrete policy; <<>> if there is none
    first,             \* the abstract policy that was got first; <<>> before that
    pol,               \* what the operations made of it
    conds,             \* the conditions it may have
    worlds             \* the sets of them that must satisfy it

pvars == <<texts, leaves, conc, first, pol, conds, worlds>>

Write(text, uses, w) ==
    /\ conc = <<>> /\ first = <<>>
    /\ leaves + w <= MaxLeaves
    /\ texts' = Append(SubSeq(texts, 1, Len(texts) - uses), text)
    /\ leaves' = leaves + w
    /\ UNCHANGED <<conc, first, pol, conds, worlds>>

NewestOf(n) == SubSeq(texts, Len(texts) - n + 1, Len(texts))

WriteTerminal == \E t \in Terminals : Write(t, 0, 1)
WriteInscribe ==
    /\ texts # <<>>
    /\ \E i \in Inscriptions : Write(Text("inscribe", 0, i, 0, NewestOf(1)), 1, 1)
WriteAnd == \E n \in 2..Len(texts) : Write(Text("and", 0, "", 0, NewestOf(n)), n, 0)
WriteOr ==
    \E n \in 2..Len(texts) : \E probs \in Probs :
        LET kids == [i \in 1..n |-> [NewestOf(n)[i] EXCEPT !.prob = IF i <= 2 THEN probs[i] ELSE 0]]
        IN  Write(Text("or", 0, "", 0, kids), n, 0)
WriteThresh ==
    \E n \in 1..Len(texts) : \E k \in 1..n :
        Write(Text("thresh", k, "", 0, NewestOf(n)), n, IF n = 1 THEN 1 ELSE 0)

-----------------------------------------------------------------------------

Enter(p, source) ==
    /\ first' = <<p>>
    /\ pol' = p
    /\ conds' = Conditions(source)
    /\ worlds' = Meaning(source, Conditions(source))
    /\ UNCHANGED <<texts, leaves, conc>>

FromStr ==
    /\ conc = <<>> /\ first = <<>> /\ Len(texts) = 1
    /\ from_str(texts[1]) # <<>>
    /\ conc' = from_str(texts[1])
    /\ UNCHANGED <<texts, leaves, first, pol, conds, worlds>>

Lift ==
    /\ conc # <<>> /\ first = <<>>
    /\ lift(conc[1]) # <<>>
    /\ Enter(lift(conc[1])[1], conc[1])

FromTree ==
    /\ conc = <<>> /\ first = <<>> /\ Len(texts) = 1
    /\ from_tree(texts[1]) # <<>>
    /\ Enter(from_tree(texts[1])[1], from_tree(texts[1])[1])

Operate(p, cs, ws) ==
    /\ first # <<>>
    /\ pol' = p
    /\ conds' = cs
    /\ worlds' = ws
    /\ UNCHANGED <<texts, leaves, conc, first>>

\* The worlds in which the conditions of lost do not count.
Without(lost) == {W \in SUBSET conds : W \ lost \in worlds}

Normalized == Operate(normalized(pol), conds, worlds)
Sorted == Operate(sorted(pol), conds, worlds)
AtAge ==
    \E age \in Ages :
        Operate(at_age(pol, age), conds,
                Without({c \in conds : c.tag = "Older" /\ ~RelImplied(c.k, age)}))
AtLockTime ==
    \E n \in Heights :
        Operate(at_lock_time(pol, n), conds,
                Without({c \in conds : c.tag = "After" /\ ~AbsImplied(c.k, n)}))
Rename(c) == translate_pk(c, Renaming)[1]
TranslatePk ==
    /\ first # <<>> /\ translate_pk(pol, Renaming) # <<>>
    /\ \A c \in conds : translate_pk(c, Renaming) # <<>>
    /\ LET cs == {Rename(c) : c \in conds}
       IN  Operate(translate_pk(pol, Renaming)[1], cs,
                   {W \in SUBSET cs : {c \in conds : Rename(c) \in W} \in worlds})

PoliciesInit ==
    /\ texts = <<>> /\ leaves = 0 /\ conc = <<>>
    /\ first = <<>> /\ pol = Unsatisfiable /\ conds = {} /\ worlds = {}

PoliciesNext ==
    \/ WriteTerminal \/ WriteInscribe \/ WriteAnd \/ WriteOr \/ WriteThresh
    \/ FromStr \/ Lift \/ FromTree
    \/ Normalized \/ Sorted \/ AtAge \/ AtLockTime \/ TranslatePk

PoliciesSpec == PoliciesInit /\ [][PoliciesNext]_pvars

-----------------------------------------------------------------------------

\* A lifted policy is in normal form, and stays there under the operations
\* that normalize: normalizing it once more changes nothing, as the debug
\* assertions of first_constraint and satisfy_constraint demand.
NormalForm ==
    /\ IsNormalized(normalized(pol))
    /\ IsNormalized(first[1]) => IsNormalized(pol)
    /\ IsNormalized(pol) /\ (\A q \in NodesOf(pol) : q.tag # "Inscribe") =>
            (worlds = {} <=> pol = Unsatisfiable)

\* minimum_n_keys is the least number of keys of any satisfaction, if no key
\* occurs twice; it never promises fewer than are needed, and it is None
\* exactly for a policy without satisfaction.
KeyCount(W) == Cardinality({c \in W : c.tag = "Key"})
MinimumKeysExact ==
    LET min == minimum_n_keys(pol)
        distinct == n_keys(pol) = KeyCount(Conditions(pol))
    IN  IF worlds = {} THEN min = <<>>
        ELSE /\ min # <<>> /\ min[1] <= n_keys(pol)
             /\ distinct => min[1] = Min({KeyCount(W) : W \in worlds})
             /\ min[1] >= Min({KeyCount(W) : W \in worlds})

\* The timelocks on which a satisfaction depends are listed.
TimelocksListed ==
    \A c \in conds :
        /\ c.tag = "Older" /\ (\E W \in worlds : W \ {c} \notin worlds) => c.k \in ToSet(relative_timelocks(pol))
        /\ c.tag = "After" /\ (\E W \in worlds : W \ {c} \notin worlds) => c.k \in ToSet(absolute_timelocks(pol))

(* However a policy was lifted or parsed, normalized, sorted, translated    *)
(* and filtered, it is satisfied by exactly the worlds that these           *)
(* operations promise, trivial and unsatisfiable policies are found by      *)
(* their outermost node, minimum_n_keys counts the keys these worlds need   *)
(* and the timelocks they need are listed.                                  *)
MeaningKept ==
    first # <<>> =>
        /\ Meaning(pol, conds) = worlds
        /\ NormalForm
        /\ MinimumKeysExact
        /\ TimelocksListed

\* A policy without satisfaction is Unsatisfiable, one that needs nothing is
\* Trivial; entails decides on the outermost nodes before it normalizes.
SaysSo(p) ==
    /\ Holds(p, Conditions(p)) \/ p = Unsatisfiable
    /\ Holds(p, {}) => p = Trivial

Entailment(a, b) ==
    LET cs == Conditions(a) \cup Conditions(b)
    IN  entails(a, b) \in {<<>>, <<Meaning(a, cs) \subseteq Meaning(b, cs)>>}

(* entails compares all satisfactions of the two policies, one of them the  *)
(* result of operations on the other; it only gives up on inscriptions and  *)
(* on many terminals.  It needs policies that show when they are constant,  *)
(* as the ones in normal form do.                                           *)
EntailsExact ==
    first # <<>> /\ SaysSo(pol) /\ SaysSo(first[1]) =>
        Entailment(pol, first[1]) /\ Entailment(first[1], pol)

(* What is displayed parses as the policy it came from, with the odds of a  *)
(* concrete policy on the right children; the abstract policies that are    *)
(* conjunctions or disjunctions are never written as thresholds.            *)
TextRoundTrip ==
    /\ conc # <<>> => from_str(display_concrete(conc[1])) = conc
    /\ first # <<>> => from_tree(display(pol)) = <<pol>>

\* The ways to satisfy a policy, each the set of the conditions it needs.
RECURSIVE Paths(_)
Paths(p) ==
    LET k == CASE p.tag = "Thresh" -> p.k [] p.tag = "Or" -> 1 [] OTHER -> Len(p.subs)
        Ways(S) == {f \in [S -> SUBSET Conditions(p)] : \A i \in S : f[i] \in Paths(p.subs[i])}
    IN  CASE p.tag = "Unsatisfiable" -> {}
          [] p.tag = "Trivial" -> {{}}
          [] IsLeaf(p) -> {{p}}
          [] OTHER -> UNION {{UNION {f[i] : i \in S} : f \in Ways(S)} : S \in kSubset(k, DOMAIN p.subs)}

Mixed(W) ==
    \/ \E a, b \in W : a.tag = "After" /\ b.tag = "After" /\ is_block_time(a.k) /\ ~is_block_time(b.k)
    \/ \E a, b \in W : a.tag = "Older" /\ b.tag = "Older" /\ is_time_locked(a.k) /\ ~is_time_locked(b.k)

(* check_timelocks, before a policy is lifted or compiled, refuses the      *)
(* policies with a path that needs a height and a time of the same kind of  *)
(* lock, however deep the two are, and no others; a path is only refused    *)
(* without being there if a part of the policy is unsatisfiable.            *)
TimelocksExact ==
    Len(texts) = 1 /\ from_tree(texts[1]) # <<>> =>
        LET p == from_tree(texts[1])[1]
            mixed == \E W \in Paths(p) : Mixed(W)
        IN  /\ mixed => ~check_timelocks(p)
            /\ Unsatisfiable \notin NodesOf(p) /\ ~check_timelocks(p) => mixed
=============================================================================
