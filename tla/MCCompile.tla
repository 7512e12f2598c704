----------------------------- MODULE MCCompile -----------------------------
(***************************************************************************)
(* Model checking of Compiler and CompileTr.                               *)
(***************************************************************************)
EXTENDS CompileTr

A == Key("A")
B == Key("B")
C == Key("C")
D == Key("D")
H == Hash("Sha256", "H")
X == Hash("TxTemplate", "X")
Or1(x, y) == Or(<<1, 1>>, <<x, y>>)
Or2(x, y) == Or(<<2, 1>>, <<x, y>>)
And2(x, y) == And(<<x, y>>)

\* Policies of which only the types are studied.
Leaves == {A, H, X, After(3), Unsatisfiable}
Pairs(S, U) == UNION {{And2(x, y), Or1(x, y)} : x \in S, y \in U}
Few == {A, H, After(3)}
Studied ==
    Pairs(Leaves, Leaves) \cup Pairs(Pairs(Few, Few), Few)
        \cup {Thresh(2, <<x, y, z>>) : x \in Few, y \in Few, z \in Leaves}
        \cup {Thresh(3, <<x, y, A>>) : x \in Few, y \in Few}
Built ==
    {A, H, X, After(3), Older(2), Trivial, And2(A, H), And2(X, A), Inscribe("I", A), And2(Inscribe("I", A), B),
     Or1(A, B), Or1(A, H), Or1(A, X), Or1(H, After(3)), Or1(Unsatisfiable, A),
     Thresh(1, <<A, B>>), Thresh(2, <<A, B, C>>), Thresh(1, <<A, H>>),
     Thresh(3, <<A, B, C>>), Or1(And2(A, B), C), Or1(H, And2(A, B))}
MCSources == Studied \cup Built
MCMaxCasts(p) == CASE p \notin Built -> 0 [] p.tag = "Thresh" /\ p.k # 3 -> 5 [] OTHER -> 3
MCTrSources ==
    {A, Trivial, Unsatisfiable, And2(A, H), Or1(A, B), Or2(A, And2(B, H)), Or1(Or1(A, B), Or2(C, And2(D, H))),
     Or2(Thresh(1, <<And2(A, H), B, C>>), D), Thresh(2, <<A, B, C>>), Thresh(2, <<A, B, C, D>>), Or1(A, Thresh(2, <<B, C, D>>)),
     Or2(Or2(And2(A, H), And2(B, After(3))), Or1(And2(C, X), D)), Or1(A, Trivial), Or1(X, X)}
MCNames == <<"A", "B", "C", "D", "H", "X", "I", "U">>
=============================================================================
