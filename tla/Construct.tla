------------------------------ MODULE Construct ------------------------------
(***************************************************************************)
(* A program that builds a Miniscript with Miniscript::from_ast, bottom    *)
(* up: roots are the expressions it holds, the last one in its hands.      *)
(* Every well-typed expression within the bound is built.                  *)
(***************************************************************************)
EXTENDS Miniscript

CONSTANTS
    LeafTerms,        \* the leaves to build with: tuples <<frag, k, args, weight>>
    InscribedWith,    \* the inscriptions to wrap with
    FreeWrappers,     \* the wrappers that weigh nothing
    MaxWeight         \* bound: the weight of the leaves and of the nodes with one child

\* A leaf is a Terminal without children; a Threshold is valid.
LeafAssumption ==
    \A l \in LeafTerms :
        /\ l[1] \in LeafFrags
        /\ l[1] \in {"Multi", "MultiA"} =>
            /\ Len(l[3]) \in Nat /\ DOMAIN l[3] = 1..Len(l[3])
            /\ validate_k_n(l[2], Len(l[3]), 0)

ASSUME LeavesAssumed == LeafAssumption

VARIABLES
    ast,              \* arena of the expressions built so far
    roots,            \* the expressions not yet used, the newest last
    weight            \* what they weigh

cvars == <<ast, roots, weight>>

\* Make t of the newest `pops' expressions, if from_ast accepts it.
from_ast(t, pops, w) ==
    LET n == Len(roots)
        u == [t EXCEPT !.subs = SubSeq(roots, n - pops + 1, n)]
    IN  /\ pops <= n
        /\ weight + w <= MaxWeight
        /\ from_ast_ok(ast, u)
        /\ ast' = Append(ast, Annotate(ast, u))
        /\ roots' = Append(SubSeq(roots, 1, n - pops), Len(ast) + 1)
        /\ weight' = weight + w

MakeLeaf ==
    \E l \in LeafTerms : from_ast(Terminal(l[1], <<>>, l[2], l[3]), 0, l[4])

MakeWrapper ==
    \E f \in WrapFrags :
        from_ast(Terminal(f, <<>>, 0, <<>>), 1, IF f \in FreeWrappers THEN 0 ELSE 1)

MakeInscribed ==
    \E f \in InscribeFrags, i \in InscribedWith :
        from_ast(Terminal(f, <<>>, 0, <<i>>), 1, 1)

MakeBinary == \E f \in BinaryFrags : from_ast(Terminal(f, <<>>, 0, <<>>), 2, 0)

MakeAndOr == from_ast(Terminal("AndOr", <<>>, 0, <<>>), 3, 0)

MakeThresh ==
    \E n \in 1..Len(roots) : \E k \in 1..n :
        from_ast(Terminal("Thresh", <<>>, k, <<>>), n, IF n = 1 THEN 1 ELSE 0)

ConstructInit == ast = <<>> /\ roots = <<>> /\ weight = 0

ConstructNext ==
    \/ MakeLeaf \/ MakeWrapper \/ MakeInscribed
    \/ MakeBinary \/ MakeAndOr \/ MakeThresh

\* What the program holds is one expression of base type B.
Built == Len(roots) = 1 /\ ast[roots[1]].ty.corr.base = "B"
=============================================================================
