----------------------------- MODULE Correctness -----------------------------
(***************************************************************************)
(* Correctness/soundness type properties of a Miniscript fragment          *)
(* (src/src/miniscript/types/correctness.rs).  One operator per constructor *)
(* of the source; a constructor that returns Err(_) there returns Err here *)
(* (the kind of the error is only ever displayed).                         *)
(***************************************************************************)
EXTENDS Naturals, Sequences

Base == {"B", "K", "V", "W"}
Input == {"Zero", "One", "Any", "OneNonZero", "AnyNonZero"}

Correctness ==
    [base : Base, input : Input, dissatisfiable : BOOLEAN, unit : BOOLEAN]

Err == [err |-> "ErrorKind"]

Corr(base, input, dissatisfiable, unit) ==
    [base |-> base, input |-> input,
     dissatisfiable |-> dissatisfiable, unit |-> unit]

\* Ok(c) when the constructor's conditions hold, Err(_) otherwise.
Result(ok, c) == IF ok THEN c ELSE Err

-----------------------------------------------------------------------------
(* Subtyping. *)

input_is_subtype(x, y) ==
    \/ x = y
    \/ x = "OneNonZero" /\ y \in {"One", "AnyNonZero"}
    \/ y = "Any"

is_subtype(c, d) ==
    /\ c.base = d.base
    /\ input_is_subtype(c.input, d.input)
    /\ d.dissatisfiable => c.dissatisfiable
    /\ d.unit => c.unit

(* The debug assertions of Correctness::sanity_checks. *)
sanity_checks(c) ==
    /\ c.base = "K" => c.unit
    /\ c.base = "V" => ~c.unit /\ ~c.dissatisfiable
    /\ c.base = "W" => c.input \notin {"OneNonZero", "AnyNonZero"}

-----------------------------------------------------------------------------
(* Leaves. *)

TRUE_ == Corr("B", "Zero", FALSE, TRUE)
FALSE_ == Corr("B", "Zero", TRUE, TRUE)
pk_k == Corr("K", "OneNonZero", TRUE, TRUE)
pk_h == Corr("K", "AnyNonZero", TRUE, TRUE)
multi == Corr("B", "AnyNonZero", TRUE, TRUE)
multi_a == Corr("B", "Any", TRUE, TRUE)
hash == Corr("B", "OneNonZero", TRUE, TRUE)
time == Corr("B", "Zero", FALSE, FALSE)

-----------------------------------------------------------------------------
(* Wrappers. *)

cast_alt(c) ==
    Result(c.base = "B", Corr("W", "Any", c.dissatisfiable, c.unit))

cast_swap(c) ==
    Result(c.base = "B" /\ c.input \in {"One", "OneNonZero"},
           Corr("W", "Any", c.dissatisfiable, c.unit))

cast_check(c) ==
    Result(c.base = "K", Corr("B", c.input, c.dissatisfiable, TRUE))

cast_dupif(c) ==
    Result(c.base = "V" /\ c.input = "Zero",
           Corr("B", "OneNonZero", TRUE, FALSE))

cast_verify(c) ==
    Result(c.base = "B", Corr("V", c.input, FALSE, FALSE))

cast_nonzero(c) ==
    Result(c.base = "B" /\ c.input \in {"OneNonZero", "AnyNonZero"},
           Corr("B", c.input, TRUE, c.unit))

cast_zeronotequal(c) ==
    Result(c.base = "B", Corr("B", c.input, c.dissatisfiable, TRUE))

\* The type the compiler gives `t:X', i.e. and_v(X,1).
cast_true(c) ==
    Result(c.base = "V", Corr("B", c.input, FALSE, TRUE))

\* The type the compiler gives `l:X' and `u:X', i.e. or_i(0,X) and or_i(X,0).
cast_or_i_false(c) ==
    Result(c.base = "B",
           Corr("B", IF c.input = "Zero" THEN "One" ELSE "Any", TRUE, c.unit))

-----------------------------------------------------------------------------
(* Conjunctions and disjunctions. *)

One == {"One", "OneNonZero"}

\* The input property of and_b and and_v: both children always run.
and_input(l, r) ==
    CASE l = "Zero" -> r
      [] l # "Zero" /\ r = "Zero" -> l
      [] r # "Zero" /\ l \in {"OneNonZero", "AnyNonZero"} -> "AnyNonZero"
      [] OTHER -> "Any"

and_b(l, r) ==
    Result(l.base = "B" /\ r.base = "W",
           Corr("B", and_input(l.input, r.input),
                l.dissatisfiable /\ r.dissatisfiable, TRUE))

and_v(l, r) ==
    Result(l.base = "V" /\ r.base \in {"B", "K", "V"},
           Corr(r.base, and_input(l.input, r.input), FALSE, r.unit))

or_b(l, r) ==
    Result(/\ l.dissatisfiable /\ r.dissatisfiable
           /\ l.base = "B" /\ r.base = "W",
           Corr("B",
                CASE l.input = "Zero" /\ r.input = "Zero" -> "Zero"
                  [] l.input = "Zero" /\ r.input \in One -> "One"
                  [] l.input \in One /\ r.input = "Zero" -> "One"
                  [] OTHER -> "Any",
                TRUE, TRUE))

\* The input property of or_d and or_c: the right child may be skipped.
or_input(l, r) ==
    CASE l = "Zero" /\ r = "Zero" -> "Zero"
      [] l \in One /\ r = "Zero" -> "One"
      [] OTHER -> "Any"

or_d(l, r) ==
    Result(/\ l.dissatisfiable /\ l.unit
           /\ l.base = "B" /\ r.base = "B",
           Corr("B", or_input(l.input, r.input), r.dissatisfiable, r.unit))

or_c(l, r) ==
    Result(/\ l.dissatisfiable /\ l.unit
           /\ l.base = "B" /\ r.base = "V",
           Corr("V", or_input(l.input, r.input), FALSE, FALSE))

or_i(l, r) ==
    Result(l.base = r.base /\ l.base \in {"B", "V", "K"},
           Corr(l.base,
                IF l.input = "Zero" /\ r.input = "Zero" THEN "One" ELSE "Any",
                l.dissatisfiable \/ r.dissatisfiable, l.unit /\ r.unit))

and_or(a, b, c) ==
    Result(/\ a.dissatisfiable /\ a.unit
           /\ a.base = "B" /\ b.base = c.base /\ b.base \in {"B", "K", "V"},
           Corr(b.base,
                CASE {a.input, b.input, c.input} = {"Zero"} -> "Zero"
                  [] a.input = "Zero" /\ b.input \in One /\ c.input \in One
                        -> "One"
                  [] a.input \in One /\ b.input = "Zero" /\ c.input = "Zero"
                        -> "One"
                  [] OTHER -> "Any",
                c.dissatisfiable, b.unit /\ c.unit))

\* subs is the sequence of the children's correctness.  The source adds up
\* the children's arguments only to tell 0 and 1 from more.
threshold(k, subs) ==
    Result(\A i \in DOMAIN subs :
              /\ subs[i].base = IF i = 1 THEN "B" ELSE "W"
              /\ subs[i].unit
              /\ subs[i].dissatisfiable,
           Corr("B",
                CASE \A i \in DOMAIN subs : subs[i].input = "Zero" -> "Zero"
                  [] \E i \in DOMAIN subs :
                        /\ subs[i].input \in One
                        /\ \A j \in DOMAIN subs \ {i} : subs[j].input = "Zero"
                        -> "One"
                  [] OTHER -> "Any",
                TRUE, TRUE))
=============================================================================
