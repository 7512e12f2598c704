--------------------------- MODULE ExpressionTree ---------------------------
(***************************************************************************)
(* How the nodes of a parsed expression are walked, and the language that  *)
(* the parser accepts.                                                     *)
(***************************************************************************)
EXTENDS Expression

-----------------------------------------------------------------------------
(* The tree, by its links. *)

first_child(i) == IF nodes[i].last_child_idx = 0 THEN 0 ELSE i + 1

RECURSIVE siblings_from(_)
siblings_from(i) == IF i = 0 THEN <<>> ELSE <<i>> \o siblings_from(nodes[i].right_sibling_idx)

children(i) == siblings_from(first_child(i))

RECURSIVE rightmost_descendant_idx(_)
rightmost_descendant_idx(i) ==
    IF nodes[i].last_child_idx = 0 THEN i
    ELSE rightmost_descendant_idx(LastOf(siblings_from(nodes[i].last_child_idx)))

\* Every node of the subtree, as the pre-order iterator gives them.
descendants(i) == i..rightmost_descendant_idx(i)

-----------------------------------------------------------------------------
(* The language, as the documentation of the module describes it. *)

RECURSIVE WellFormed(_), Arguments(_)
WellFormed(s) ==
    \/ s \in {<<>>, <<Name>>}
    \/ \E i \in 1..2 :
        /\ i < Len(s) /\ s[i] \in Opening
        /\ i = 2 => s[1] = Name
        /\ LastOf(s) = ClosingOf(s[i])
        /\ Arguments(SubSeq(s, i + 1, Len(s) - 1))
Arguments(s) ==
    \/ WellFormed(s)
    \/ \E c \in DOMAIN s :
        s[c] = Comma /\ WellFormed(SubSeq(s, 1, c - 1)) /\ Arguments(SubSeq(s, c + 1, Len(s)))

RECURSIVE Unparse(_), UnparseAll(_)
UnparseAll(is) ==
    IF Len(is) = 1 THEN Unparse(is[1])
    ELSE Unparse(is[1]) \o <<Comma>> \o UnparseAll(Tail(is))
Unparse(i) ==
    nodes[i].name \o
    (IF nodes[i].n_children = 0 THEN <<>>
     ELSE <<nodes[i].parens>> \o UnparseAll(children(i)) \o <<ClosingOf(nodes[i].parens)>>)

Nesting(s) ==
    Len(SelectSeq(s, LAMBDA ch : ch \in Opening)) - Len(SelectSeq(s, LAMBDA ch : ch \in Closing))
\* Where the parentheses are that are open at the end.
Unclosed(s) ==
    SelectSeq([i \in DOMAIN s |-> i],
              LAMBDA i : s[i] \in Opening /\ \A n \in i..Len(s) : Nesting(SubSeq(s, i, n)) > 0)

\* The string with these closed, which is an expression if any continuation is one.
Completed(s) ==
    LET at == Unclosed(s)
    IN  s \o [i \in DOMAIN at |-> ClosingOf(s[at[Len(at) + 1 - i]])]

TooDeep(s) == \E n \in 1..Len(s) : Nesting(SubSeq(s, 1, n)) > MAX_RECURSION_DEPTH

(* The first pass refuses the first character after which no continuation   *)
(* is an expression, and no other.  A string that is read to its end is     *)
(* refused with UnmatchedOpenParen only if it is no expression, and with    *)
(* MaxRecursionDepthExceeded only if it is one that is nested too deeply;   *)
(* any other is parsed, and its nodes, walked along the links, give back    *)
(* the string.                                                              *)
GrammarExact ==
    /\ phase = "check" => WellFormed(Completed(input))
    /\ phase = "refused" => ~WellFormed(Completed(input))
    /\ phase = "unmatched_open" => ~WellFormed(input)
    /\ phase = "too_deep" => WellFormed(input) /\ TooDeep(input)
    /\ phase \in {"parse", "parsed"} => WellFormed(input) /\ ~TooDeep(input)
    /\ phase = "parsed" =>
        /\ Unparse(1) = input
        /\ \A i \in DOMAIN nodes :
            /\ Len(children(i)) = nodes[i].n_children
            /\ \A c \in DOMAIN children(i) : nodes[children(i)[c]].parent_idx = i
            /\ \A j \in DOMAIN nodes : nodes[j].parent_idx # 0 =>
                  (nodes[j].parent_idx \in descendants(i) <=> j \in descendants(i) \ {i})
=============================================================================
