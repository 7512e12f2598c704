----------------------------- MODULE Expression -----------------------------
(***************************************************************************)
(* The parser of expression strings (src/src/expression/mod.rs), which all *)
(* descriptors, miniscripts and policies are read with: a first pass that  *)
(* checks the parentheses and counts the nodes, and a second one that      *)
(* fills a vector of nodes with links, in pre-order.                       *)
(*                                                                         *)
(* A string is a sequence of parentheses, commas and names; a name is one  *)
(* character here, and there may be none.  The checksum that may follow    *)
(* has been removed.  Indices start at 1, and 0 is None.                   *)
(***************************************************************************)
EXTENDS Integers, Sequences, FiniteSets

CONSTANTS
    MAX_RECURSION_DEPTH,    \* 402 in the code
    MayWrite(_),            \* bound: the strings to read
    MaxLen                  \* bound: characters of a string

ASSUME RecursionAssumption == MAX_RECURSION_DEPTH \in Nat

VARIABLES
    input,                  \* the string
    open,                   \* open_paren_stack
    max_depth, n_nodes,     \* what the first pass counts
    pos,                    \* the next character of the second pass
    nodes, parent_stack,
    current_node,           \* <<node>>, or <<>> after a closing parenthesis
    phase                   \* check, parse, parsed or panic; no_tree in Taproot; the errors of
                            \* the first pass: refused at a character, unmatched_open, too_deep

check_vars == <<open, max_depth, n_nodes>>
parse_vars == <<pos, nodes, parent_stack, current_node>>
evars == <<input, check_vars, parse_vars, phase>>

Name == "n"
Comma == ","
Opening == {"(", "{"}
Closing == {")", "}"}
ClosingOf(ch) == IF ch = "(" THEN ")" ELSE "}"

null(name_pos, parent) ==
    [name_pos |-> name_pos, name |-> <<>>, parens |-> "none", n_children |-> 0,
     parent_idx |-> parent, last_child_idx |-> 0, right_sibling_idx |-> 0]

ExpressionInit ==
    /\ input = <<>> /\ open = <<>> /\ max_depth = 0 /\ n_nodes = 1
    /\ pos = 1 /\ nodes = <<>> /\ parent_stack = <<>> /\ current_node = << null(1, 0) >>
    /\ phase = "check"

LastOf(s) == s[Len(s)]
Front1(s) == SubSeq(s, 1, Len(s) - 1)

-----------------------------------------------------------------------------
(* parse_pre_check; the string is read while it is written. *)

\* Wrong: a closing parenthesis is the end of the last argument.
EndsArguments(ch) ==
    input # <<>> /\ LastOf(input) \in Closing => open # <<>> /\ ch \in Closing

\* What may follow a closing parenthesis.
may_follow(ch) ==
    input # <<>> /\ LastOf(input) \in Closing =>
        open # <<>> /\ ch \in Closing \cup {Comma}

Read(ch) ==
    /\ phase = "check"
    /\ Len(input) < MaxLen
    /\ input' = Append(input, ch)
    /\ MayWrite(input')
    /\ UNCHANGED parse_vars

ReadName ==
    /\ ~(input # <<>> /\ LastOf(input) = Name)
    /\ Read(Name)
    /\ phase' = IF may_follow(Name) THEN phase ELSE "refused"
    /\ UNCHANGED check_vars

deepest(depth, opened) == IF depth < Len(opened) THEN Len(opened) ELSE depth

ReadOpen ==
    \E ch \in Opening :
        /\ Read(ch)
        /\ phase' = IF may_follow(ch) THEN phase ELSE "refused"
        /\ open' = Append(open, ch)
        /\ max_depth' = deepest(max_depth, open')
        /\ UNCHANGED n_nodes

\* Wrong: the kind of the parenthesis is not compared.
ClosesAny(ch) == open # <<>>

\* Not UnmatchedCloseParen, not MismatchedParens.
closes(ch) == open # <<>> /\ ClosingOf(LastOf(open)) = ch

ReadClose ==
    \E ch \in Closing :
        /\ Read(ch)
        /\ IF may_follow(ch) /\ closes(ch)
           THEN open' = Front1(open) /\ n_nodes' = n_nodes + 1 /\ phase' = phase
           ELSE UNCHANGED <<open, n_nodes>> /\ phase' = "refused"
        /\ UNCHANGED max_depth

ReadComma ==
    /\ Read(Comma)
    /\ IF may_follow(Comma) /\ open # <<>>
       THEN n_nodes' = n_nodes + 1 /\ phase' = phase
       ELSE UNCHANGED n_nodes /\ phase' = "refused"
    /\ UNCHANGED <<open, max_depth>>

EndOfInput ==
    /\ phase = "check"
    /\ \/ open # <<>> /\ phase' = "unmatched_open"
       \/ open = <<>> /\ max_depth > MAX_RECURSION_DEPTH /\ phase' = "too_deep"
       \/ open = <<>> /\ max_depth <= MAX_RECURSION_DEPTH /\ phase' = "parse"
    /\ UNCHANGED <<input, check_vars, parse_vars>>

-----------------------------------------------------------------------------
(* from_str_inner. *)

\* The vector with the new node that is about to be current linked to its parent.
link_parent(vec, stack) ==
    IF stack = <<>> THEN vec
    ELSE [vec EXCEPT ![LastOf(stack)].n_children = @ + 1,
                     ![LastOf(stack)].last_child_idx = Len(vec) + 1]

new_node(stack) == null(pos + 1, IF stack = <<>> THEN 0 ELSE LastOf(stack))

\* The current node, which ends before this character, is added to the vector.
pushed ==
    IF current_node = <<>> THEN nodes
    ELSE LET n == current_node[1]
         IN  Append(nodes, [n EXCEPT !.name = SubSeq(input, n.name_pos, pos - 1)])

ParseStep(ch) ==
    /\ phase = "parse"
    /\ pos <= Len(input) /\ input[pos] = ch
    /\ pos' = pos + 1
    /\ UNCHANGED <<input, check_vars>>

ParseName == ParseStep(Name) /\ UNCHANGED <<nodes, parent_stack, current_node, phase>>

ParseOpen ==
    \E ch \in Opening :
        /\ ParseStep(ch)
        /\ IF current_node = <<>>
           THEN phase' = "panic" /\ UNCHANGED <<nodes, parent_stack, current_node>>
           ELSE /\ parent_stack' = Append(parent_stack, Len(nodes) + 1)
                /\ LET vec == [pushed EXCEPT ![Len(nodes) + 1].parens = ch]
                   IN  nodes' = link_parent(vec, parent_stack')
                /\ current_node' = << new_node(parent_stack') >>
                /\ UNCHANGED phase

\* Wrong: the node before the comma gets the link, not the last child.
LinkPrevious(vec) == [vec EXCEPT ![Len(vec)].right_sibling_idx = Len(vec) + 1]

\* The last child of the open node gets its right sibling.
link_sibling(vec) ==
    IF parent_stack = <<>> \/ vec[LastOf(parent_stack)].last_child_idx = 0 THEN vec
    ELSE [vec EXCEPT ![vec[LastOf(parent_stack)].last_child_idx].right_sibling_idx = Len(vec) + 1]

ParseComma ==
    /\ ParseStep(Comma)
    /\ nodes' = link_parent(link_sibling(pushed), parent_stack)
    /\ current_node' = << new_node(parent_stack) >>
    /\ UNCHANGED <<parent_stack, phase>>

ParseClose ==
    \E ch \in Closing :
        /\ ParseStep(ch)
        /\ nodes' = pushed
        /\ current_node' = <<>>
        /\ parent_stack' = Front1(parent_stack)
        /\ UNCHANGED phase

\* The assertions say that the first pass counted the nodes, and that the
\* parent stack never outgrew the capacity of max_depth that it was given.
\* The latter is a part of TreeFaithful.
ParseEnd ==
    /\ phase = "parse" /\ pos = Len(input) + 1
    /\ nodes' = pushed
    /\ phase' = IF Len(nodes') = n_nodes THEN "parsed" ELSE "panic"
    /\ UNCHANGED <<input, check_vars, pos, parent_stack, current_node>>

ExpressionNext ==
    \/ ReadName \/ ReadOpen \/ ReadClose \/ ReadComma \/ EndOfInput
    \/ ParseName \/ ParseOpen \/ ParseComma \/ ParseClose \/ ParseEnd

ExpressionSpec == ExpressionInit /\ [][ExpressionNext]_evars

-----------------------------------------------------------------------------
(* The tree that the links stand for.                                       *)

Below(vec, i) == {j \in DOMAIN vec : vec[j].parent_idx = i}

\* The nodes are in pre-order: what follows node i is not below an earlier
\* sibling of it or of the nodes above it.
PreOrder(vec, i) ==
    \A j \in DOMAIN vec :
        j > i => vec[j].parent_idx <= vec[i].parent_idx \/ vec[j].parent_idx >= i

Linked(vec) ==
    \A i \in DOMAIN vec :
        LET n == vec[i]
        IN  /\ n.parent_idx \in 0..(i - 1) /\ (n.parent_idx = 0 <=> i = 1)
            /\ n.n_children = Cardinality(Below(vec, i))
            /\ n.last_child_idx \in Below(vec, i) \cup {0}
            /\ \A j \in Below(vec, i) : j <= n.last_child_idx
            /\ n.right_sibling_idx = 0 \/ (/\ n.right_sibling_idx > i
                                         /\ n.right_sibling_idx \in Below(vec, n.parent_idx))
            /\ \A j \in Below(vec, n.parent_idx) :
                  j > i => n.right_sibling_idx # 0 /\ n.right_sibling_idx <= j
            /\ PreOrder(vec, i)

(* Every link of the parsed nodes is right, and the nodes below one follow  *)
(* it without a gap, so that they can be skipped.  The second pass relies   *)
(* on the first: it never panics, since an opening parenthesis follows a    *)
(* name and the nodes were counted right, and it has never more open nodes  *)
(* than the first pass saw, which are at most MAX_RECURSION_DEPTH.          *)
TreeFaithful ==
    /\ phase # "panic"
    /\ phase = "parse" => Len(parent_stack) <= max_depth /\ max_depth <= MAX_RECURSION_DEPTH
    /\ phase = "parsed" => Linked(nodes)
=============================================================================
