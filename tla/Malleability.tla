---------------------------- MODULE Malleability ----------------------------
(***************************************************************************)
(* Malleability type properties of a Miniscript fragment                   *)
(* (src/src/miniscript/types/malleability.rs), one operator per constructor. *)
(***************************************************************************)
EXTENDS Naturals, Sequences, FiniteSets

Dissat == {"None", "Unique", "Unknown"}

Malleability == [dissat : Dissat, safe : BOOLEAN, non_malleable : BOOLEAN]

Mall(dissat, safe, non_malleable) ==
    [dissat |-> dissat, safe |-> safe, non_malleable |-> non_malleable]

dissat_is_subtype(x, y) == x = y \/ y = "Unknown"

is_subtype(m, n) ==
    /\ dissat_is_subtype(m.dissat, n.dissat)
    /\ n.safe => m.safe
    /\ n.non_malleable => m.non_malleable

-----------------------------------------------------------------------------
(* Leaves. *)

TRUE_ == Mall("None", FALSE, TRUE)
FALSE_ == Mall("Unique", TRUE, TRUE)
pk_k == Mall("Unique", TRUE, TRUE)
pk_h == Mall("Unique", TRUE, TRUE)
multi == Mall("Unique", TRUE, TRUE)
multi_a == Mall("Unique", TRUE, TRUE)
hash == Mall("Unknown", FALSE, TRUE)
time == Mall("None", FALSE, TRUE)

-----------------------------------------------------------------------------
(* Wrappers.  d:, j: and l:/u: add a dissatisfaction of their own. *)

new_dissat(m) ==
    Mall(IF m.dissat = "None" THEN "Unique" ELSE "Unknown",
         m.safe, m.non_malleable)

cast_alt(m) == m
cast_swap(m) == m
cast_check(m) == m
cast_dupif(m) == new_dissat(m)
cast_verify(m) == Mall("None", m.safe, m.non_malleable)
cast_nonzero(m) == new_dissat(m)
cast_zeronotequal(m) == m
cast_true(m) == Mall("None", m.safe, m.non_malleable)
cast_or_i_false(m) == new_dissat(m)

-----------------------------------------------------------------------------
(* Conjunctions and disjunctions. *)

and_b(l, r) ==
    Mall(CASE \/ l.dissat = "None" /\ r.dissat = "None"
              \/ l.dissat = "None" /\ l.safe
              \/ r.dissat = "None" /\ r.safe -> "None"
           [] /\ l.dissat = "Unique" /\ r.dissat = "Unique"
              /\ l.safe /\ r.safe -> "Unique"
           [] OTHER -> "Unknown",
         l.safe \/ r.safe,
         l.non_malleable /\ r.non_malleable)

and_v(l, r) ==
    Mall(IF r.dissat = "None" \/ l.safe THEN "None" ELSE "Unknown",
         l.safe \/ r.safe,
         l.non_malleable /\ r.non_malleable)

or_b(l, r) ==
    Mall("Unique",
         l.safe /\ r.safe,
         /\ l.non_malleable /\ l.dissat = "Unique"
         /\ r.non_malleable /\ r.dissat = "Unique"
         /\ l.safe \/ r.safe)

\* A wrong rule: the dissatisfaction of or_c.
or_d_like_or_c(l, r) ==
    Mall("None",
         l.safe /\ r.safe,
         /\ l.non_malleable /\ l.dissat = "Unique"
         /\ r.non_malleable
         /\ l.safe \/ r.safe)

\* A wrong rule: any dissatisfaction of the left child will do.
or_d_any_dissat(l, r) ==
    Mall(r.dissat,
         l.safe /\ r.safe,
         l.non_malleable /\ r.non_malleable /\ (l.safe \/ r.safe))

or_d(l, r) ==
    Mall(r.dissat,
         l.safe /\ r.safe,
         /\ l.non_malleable /\ l.dissat = "Unique"
         /\ r.non_malleable
         /\ l.safe \/ r.safe)

or_c(l, r) ==
    Mall("None",
         l.safe /\ r.safe,
         /\ l.non_malleable /\ l.dissat = "Unique"
         /\ r.non_malleable
         /\ l.safe \/ r.safe)

or_i(l, r) ==
    Mall(CASE l.dissat = "None" /\ r.dissat = "None" -> "None"
           [] {l.dissat, r.dissat} = {"None", "Unique"} -> "Unique"
           [] OTHER -> "Unknown",
         l.safe /\ r.safe,
         l.non_malleable /\ r.non_malleable /\ (l.safe \/ r.safe))

and_or(a, b, c) ==
    Mall(IF a.safe \/ b.dissat = "None" THEN c.dissat ELSE "Unknown",
         (a.safe \/ b.safe) /\ c.safe,
         /\ a.non_malleable /\ a.dissat = "Unique"
         /\ b.non_malleable
         /\ c.non_malleable
         /\ a.safe \/ b.safe \/ c.safe)

\* subs is the sequence of the children's malleability.
safe_count(subs) == Cardinality({i \in DOMAIN subs : subs[i].safe})

threshold(k, subs) ==
    LET n == Len(subs)
        all_unique == \A i \in DOMAIN subs : subs[i].dissat = "Unique"
        all_nonmall == \A i \in DOMAIN subs : subs[i].non_malleable
    IN  Mall(IF all_unique /\ safe_count(subs) = n THEN "Unique" ELSE "Unknown",
             safe_count(subs) > n - k,
             all_nonmall /\ safe_count(subs) >= n - k /\ all_unique)
=============================================================================
