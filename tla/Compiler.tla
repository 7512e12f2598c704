------------------------------ MODULE Compiler ------------------------------
(***************************************************************************)
(* The policy compiler (src/src/policy/compiler.rs).  It keeps, for every  *)
(* part of a policy, the cheapest expression of each type; all of them are *)
(* built from the same alternatives, with casts in between.  Which one is  *)
(* cheapest is left open here: a behaviour builds one expression and takes *)
(* any alternative wherever the compiler may keep it.  Resource limits do  *)
(* not remove any.                                                         *)
(***************************************************************************)
EXTENDS Concrete

T == INSTANCE MiniscriptTypes

CONSTANTS
    SigType,           \* of the script context: "Ecdsa" or "Schnorr"
    MaxMulti,          \* keys of a multi, multi_a: 20 in the code, 125000 for Schnorr
    Sources,           \* the policies to compile
    MaxCasts(_)        \* bound: casts in an expression of a policy

VARIABLES
    source,            \* the policy that is compiled
    todo,              \* policies to compile and fragments to build, the next one last
    elems,             \* the expressions built, the newest last
    casts              \* number of casts in them

cvars == <<source, todo, elems, casts>>

\* AstElemExt: an expression with its type; dissat tells whether its
\* dissat_cost is Some.
AstElemExt(frag, k, args, subs, ty, dissat) ==
    [frag |-> frag, k |-> k, args |-> args, subs |-> subs, ty |-> ty, dissat |-> dissat]

-----------------------------------------------------------------------------
(* CompilerExtData. *)

leaf_dissat(frag) == frag \notin {"True", "After", "Older", "TxTemplate"}
cast_dissat(cast, x) ==
    CASE cast \in {"Alt", "Swap", "Check", "ZeroNotEqual"} -> x
      [] cast \in {"DupIf", "NonZero", "Likely", "Unlikely"} -> TRUE
      [] cast \in {"Verify", "CastTrue"} -> FALSE
binary_dissat(frag, l, r) ==
    CASE frag = "AndB" -> l /\ r
      [] frag = "OrB" -> TRUE
      [] frag = "OrD" -> r
      [] frag = "OrI" -> l \/ r
      [] OTHER -> FALSE
and_or_dissat(a, b, c) == c
threshold_dissat(subs) == TRUE

\* The children whose dissat_cost is unwrapped.
unwrapped(frag, subs) ==
    CASE frag = "OrB" -> {1, 2}
      [] frag \in {"OrD", "OrC", "AndOr"} -> {1}
      [] frag = "Thresh" -> DOMAIN subs
      [] OTHER -> {}

-----------------------------------------------------------------------------
(* Expressions. *)

terminal(frag, k, args) == AstElemExt(frag, k, args, <<>>, T!leaf_type(frag), leaf_dissat(frag))
FALSE_ == terminal("False", 0, <<>>)
TRUE_ == terminal("True", 0, <<>>)

types(subs) == [i \in DOMAIN subs |-> subs[i].ty]

\* binary, ternary and the threshold of best_compilations.
dissat_of(frag, subs) ==
    CASE frag \in T!BinaryFrags -> binary_dissat(frag, subs[1].dissat, subs[2].dissat)
      [] frag = "AndOr" -> and_or_dissat(subs[1].dissat, subs[2].dissat, subs[3].dissat)
      [] frag = "Thresh" -> threshold_dissat(subs)
      [] frag = "InscribePre" -> subs[1].dissat
Compound(frag, k, args, subs) ==
    AstElemExt(frag, k, args, subs, T!type_check(frag, k, types(subs), BadInscriptions \cap ToSet(args) = {}),
               dissat_of(frag, subs))

\* Wrong: t:X is forgotten.
CastsOfWrappers == {"Check", "DupIf", "Likely", "Unlikely", "Verify", "NonZero", "Swap", "Alt", "ZeroNotEqual"}

\* all_casts: the wrappers, t:X = and_v(X,1), l:X = or_i(0,X), u:X = or_i(X,0).
all_casts == {"Check", "DupIf", "Likely", "Unlikely", "Verify", "NonZero", "CastTrue", "Swap", "Alt",
              "ZeroNotEqual"}

\* Wrong: l:X and u:X have the dissatisfactions of X only.
CastTypeKept(cast, x) ==
    CASE cast = "CastTrue" -> T!Ty(T!C!cast_true(x.corr), T!M!cast_true(x.mall))
      [] cast \in {"Likely", "Unlikely"} -> T!Ty(T!C!cast_or_i_false(x.corr), x.mall)
      [] OTHER -> T!wrap_type(cast, x)

cast_type(cast, x) ==
    CASE cast = "CastTrue" -> T!Ty(T!C!cast_true(x.corr), T!M!cast_true(x.mall))
      [] cast \in {"Likely", "Unlikely"} -> T!Ty(T!C!cast_or_i_false(x.corr), T!M!cast_or_i_false(x.mall))
      [] OTHER -> T!wrap_type(cast, x)

cast_node(cast, x) ==
    CASE cast = "CastTrue" -> <<"AndV", <<x, TRUE_>> >>
      [] cast = "Likely" -> <<"OrI", <<FALSE_, x>> >>
      [] cast = "Unlikely" -> <<"OrI", <<x, FALSE_>> >>
      [] OTHER -> <<cast, <<x>> >>

cast_of(cast, x) ==
    AstElemExt(cast_node(cast, x)[1], 0, <<>>, cast_node(cast, x)[2],
               cast_type(cast, x.ty), cast_dissat(cast, x.dissat))

\* What insert_elem does not throw away whatever it costs.
insertable(ty) == ty # T!Err /\ ty.mall.non_malleable

\* The filter of best.
is_deu(base, ty) == ty.corr.base = base /\ ty.corr.unit /\ ty.mall.dissat = "Unique"

-----------------------------------------------------------------------------
(* The alternatives of best_compilations: a fragment and the policies its  *)
(* children are compiled from.  The third child of andor(X,Y,0) is no      *)
(* policy's; Unsatisfiable has the same first compilation.                 *)

Alt(frag, k, parts) == [frag |-> frag, k |-> k, parts |-> parts]

\* Wrong: both conjuncts are tried in front, but only one is put behind.
AndOrOfFirst(x, c) == {Alt("AndOr", 0, <<x[1], x[2], c>>), Alt("AndOr", 0, <<x[2], x[2], c>>)}

\* or(and(X,Y),Z) as andor; x the conjuncts.
and_or_alternatives(x, c) == {Alt("AndOr", 0, <<x[1], x[2], c>>), Alt("AndOr", 0, <<x[2], x[1], c>>)}

both_orders(frag, subs) == {Alt(frag, 0, <<subs[1], subs[2]>>), Alt(frag, 0, <<subs[2], subs[1]>>)}

and_alternatives(subs) ==
    both_orders("AndB", subs) \cup both_orders("AndV", subs)
        \cup and_or_alternatives(subs, Unsatisfiable)

or_alternatives(subs) ==
    UNION {both_orders(frag, subs) : frag \in {"OrB", "OrD", "OrC", "OrI"}}
        \cup (IF subs[1].tag = "And" THEN and_or_alternatives(subs[1].subs, subs[2]) ELSE {})
        \cup (IF subs[2].tag = "And" THEN and_or_alternatives(subs[2].subs, subs[1]) ELSE {})

\* A child that is cheap as a B is swapped with the first one.
thresh_alternatives(k, subs) ==
    {Alt("Thresh", k, [subs EXCEPT ![1] = subs[i], ![i] = subs[1]]) : i \in DOMAIN subs}

\* A conjunction is compiled as a chain of and instead.
folded(subs) == FoldLeft(LAMBDA acc, pol : And(<<acc, pol>>), subs[1], Tail(subs))

multi_of(subs) ==
    IF (\A i \in DOMAIN subs : subs[i].tag = "Key") /\ Len(subs) <= MaxMulti
    THEN {IF SigType = "Schnorr" THEN "MultiA" ELSE "Multi"} ELSE {}

\* The terminals of a policy without children.
terminals(p) ==
    CASE p.tag = "Key" -> {terminal("PkH", 0, <<p.name>>), terminal("PkK", 0, <<p.name>>)}
      [] p.tag = "Unsatisfiable" -> {FALSE_}
      [] p.tag = "Trivial" -> {TRUE_}
      [] p.tag \in HashTags \cup {"TxTemplate"} -> {terminal(p.tag, 0, <<p.name>>)}
      [] p.tag \in {"After", "Older"} -> {terminal(p.tag, p.k, <<>>)}
      [] p.tag = "Thresh" ->
            IF is_and(p) THEN {}
            ELSE {terminal(frag, p.k, [i \in DOMAIN p.subs |-> p.subs[i].name]) : frag \in multi_of(p.subs)}
      [] OTHER -> {}

alternatives(p) ==
    CASE p.tag = "And" -> and_alternatives(p.subs)
      [] p.tag = "Or" -> or_alternatives(p.subs)
      [] p.tag = "Thresh" -> IF is_and(p) THEN {} ELSE thresh_alternatives(p.k, p.subs)
      [] p.tag = "Inscribe" -> {Alt("InscribePre", 0, p.subs)}
      [] OTHER -> {}

-----------------------------------------------------------------------------
(* The types of all the expressions of a policy.                           *)

RECURSIVE CastClosure(_, _)
CastClosure(new, all) ==
    LET more == {ty \in {cast_type(cast, x) : cast \in all_casts, x \in new} : insertable(ty)} \ all
    IN  IF more = {} THEN all ELSE CastClosure(more, all \cup more)

RECURSIVE TypesOf(_)
TypesOf(p) ==
    LET Deu(base, q) == {ty \in TypesOf(q) : is_deu(base, ty)}
        Part(alt, i) ==
            CASE alt.frag = "Thresh" -> Deu(IF i = 1 THEN "B" ELSE "W", alt.parts[i])
              [] p.tag = "And" /\ i = 3 -> {FALSE_.ty}
              [] OTHER -> TypesOf(alt.parts[i])
        Combined(alt) ==
            LET parts == [i \in DOMAIN alt.parts |-> Part(alt, i)]
                all == UNION Range(parts)
            IN  {T!type_check(alt.frag, alt.k, tys, TRUE) :
                    tys \in {f \in [DOMAIN parts -> all] : \A i \in DOMAIN parts : f[i] \in parts[i]}}
        first == {e.ty : e \in terminals(p)} \cup UNION {Combined(alt) : alt \in alternatives(p)}
        found == {ty \in first : insertable(ty)}
    IN  CASE p.tag = "Thresh" /\ is_and(p) ->
                IF \A i \in DOMAIN p.subs : Deu("B", p.subs[i]) # {} THEN TypesOf(folded(p.subs)) ELSE {}
          [] OTHER -> CastClosure(found, found)

-----------------------------------------------------------------------------

Goal(p) == [alt |-> Alt("", 0, <<>>), policy |-> p]
Build(alt, p) == [alt |-> alt, policy |-> p]

CompilerInit ==
    /\ source \in Sources
    /\ todo = << Goal(source) >> /\ elems = <<>> /\ casts = 0

Next_ == todo[Len(todo)]
IsGoal == todo # <<>> /\ Next_.alt.frag = ""
Rest == SubSeq(todo, 1, Len(todo) - 1)

Elem(e, p) == [ms |-> e, policy |-> p]

\* An arm of best_compilations without children.
CompileTerminal ==
    /\ IsGoal
    /\ \E e \in terminals(Next_.policy) : elems' = Append(elems, Elem(e, Next_.policy))
    /\ todo' = Rest
    /\ UNCHANGED <<source, casts>>

\* An arm with children: these first.
CompileParts ==
    /\ IsGoal
    /\ \E alt \in alternatives(Next_.policy) :
        todo' = Rest \o << Build(alt, Next_.policy) >>
                     \o Reverse([i \in DOMAIN alt.parts |-> Goal(alt.parts[i])])
    /\ UNCHANGED <<source, elems, casts>>

\* thresh(n,...) of n; a threshold is built first, and must not fail.
CompileFolded ==
    /\ IsGoal /\ Next_.policy.tag = "Thresh" /\ is_and(Next_.policy)
    /\ \A i \in DOMAIN Next_.policy.subs :
        \E ty \in TypesOf(Next_.policy.subs[i]) : is_deu("B", ty)
    /\ todo' = Append(Rest, Goal(folded(Next_.policy.subs)))
    /\ UNCHANGED <<source, elems, casts>>

Children(n) == [i \in 1..n |-> elems[Len(elems) - n + i].ms]

\* compile_binary, compile_tern, the threshold and the inscription.
BuildFragment ==
    /\ todo # <<>> /\ ~IsGoal
    /\ LET alt == Next_.alt
           subs == Children(Len(alt.parts))
           args == IF alt.frag = "InscribePre" THEN <<Next_.policy.name>> ELSE <<>>
           e == Compound(alt.frag, alt.k, args, subs)
       IN  /\ alt.frag = "AndOr" /\ alt.parts[3] = Unsatisfiable /\ Next_.policy.tag = "And" =>
                subs[3] = FALSE_
           /\ alt.frag = "Thresh" =>
                \A i \in DOMAIN subs : is_deu(IF i = 1 THEN "B" ELSE "W", subs[i].ty)
           /\ insertable(e.ty)
           /\ elems' = Append(SubSeq(elems, 1, Len(elems) - Len(subs)), Elem(e, Next_.policy))
    /\ todo' = Rest
    /\ UNCHANGED <<source, casts>>

\* insert_elem_closure and insert_best_wrapped: the newest is wrapped.
CastElem ==
    /\ elems # <<>> /\ casts < MaxCasts(source)
    /\ \E cast \in all_casts :
        LET n == Len(elems)
            e == cast_of(cast, elems[n].ms)
        IN  insertable(e.ty) /\ elems' = [elems EXCEPT ![n].ms = e]
    /\ casts' = casts + 1
    /\ UNCHANGED <<source, todo>>

CompilerNext == CompileTerminal \/ CompileParts \/ CompileFolded \/ BuildFragment \/ CastElem

CompilerSpec == CompilerInit /\ [][CompilerNext]_cvars

-----------------------------------------------------------------------------
(* Lifting an expression (policy/mod.rs). *)

lift_ms(e) ==
    LET RECURSIVE Lifted(_)
        Lifted(x) ==
            LET subs == [i \in DOMAIN x.subs |-> Lifted(x.subs[i])]
            IN  CASE x.frag \in {"PkK", "PkH"} -> Key(x.args[1])
                  [] x.frag \in T!HashFrags \cup {"TxTemplate"} -> Hash(x.frag, x.args[1])
                  [] x.frag = "After" -> After(x.k)
                  [] x.frag = "Older" -> Older(x.k)
                  [] x.frag = "InscribePre" -> Inscribe(x.args[1], subs[1])
                  [] x.frag = "False" -> Unsatisfiable
                  [] x.frag = "True" -> Trivial
                  [] x.frag \in T!WrapFrags -> subs[1]
                  [] x.frag \in {"AndV", "AndB"} -> Thresh(2, subs)
                  [] x.frag = "AndOr" -> Thresh(1, <<Thresh(2, <<subs[1], subs[2]>>), subs[3]>>)
                  [] x.frag \in {"OrB", "OrD", "OrC", "OrI"} -> Thresh(1, subs)
                  [] x.frag = "Thresh" -> Thresh(x.k, subs)
                  [] x.frag \in {"Multi", "MultiA"} ->
                        Thresh(x.k, [i \in DOMAIN x.args |-> Key(x.args[i])])
    IN  normalized(Lifted(e))

Newest == elems[Len(elems)]

(* Every expression the compiler may keep for a policy, or a part of one,   *)
(* lifts to the same abstract policy as the policy itself, up to the order  *)
(* of the children, as the fuzz target compile_descriptor asserts.          *)
LiftsAsPolicy ==
    elems # <<>> => sorted(lift_ms(Newest.ms)) = sorted(lift(Newest.policy)[1])

HasTrivial(p) == \E q \in NodesOf(p) : q = Trivial

(* The compiler's own shortcuts are right: the types that casts give        *)
(* without looking at the fragment are those of type_check, which nothing   *)
(* else compares, every dissat_cost that is unwrapped for a fragment that   *)
(* passed the type checker is there, and all expressions of a policy are as *)
(* safe as is_safe_nonmalleable says of the policy, so that best_t cannot   *)
(* choose an unsafe one that is cheaper.                                    *)
CandidateSound ==
    elems # <<>> =>
        /\ Newest.ms.subs # <<>> =>
                LET e == Newest.ms
                IN  /\ e.ty = T!type_check(e.frag, e.k, types(e.subs), TRUE)
                    /\ \A i \in unwrapped(e.frag, e.subs) : e.subs[i].dissat
        /\ ~HasTrivial(source) =>
                Newest.ms.ty.mall.safe = is_safe_nonmalleable(Newest.policy).safe

(* A policy that passes is_safe_nonmalleable has a non-malleable B          *)
(* expression; the only errors left to the compiler are resource limits.    *)
(* And a policy that does not pass has none.  is_safe_nonmalleable takes    *)
(* TRIVIAL for safe, which its expression is not: such policies are left    *)
(* out, and and(pk(A),or(after(3),TRIVIAL)) passes but has no expression.   *)
CompilableComplete ==
    todo = << Goal(source) >> /\ ~HasTrivial(source) =>
        (is_safe_nonmalleable(source).non_mall <=> \E ty \in TypesOf(source) : ty.corr.base = "B")
=============================================================================
