------------------------------ MODULE TapTree ------------------------------
(***************************************************************************)
(* Taproot trees (src/src/descriptor/tr/taptree.rs): the sequence of the   *)
(* leaves with their depths.  They are made by combining two trees, or by  *)
(* a builder that a parser drives in pre-order.                            *)
(***************************************************************************)
EXTENDS Integers, Sequences, SequencesExt, FiniteSetsExt

CONSTANT TAPROOT_CONTROL_MAX_NODE_COUNT    \* 128 in Taproot

leaf(ms) == << [depth |-> 0, ms |-> ms] >>

\* <<>> is TapTreeDepthError.
combine(left, right) ==
    LET both == left \o right
    IN  IF \E i \in DOMAIN both : both[i].depth > TAPROOT_CONTROL_MAX_NODE_COUNT - 1 THEN <<>>
        ELSE [i \in DOMAIN both |-> [both[i] EXCEPT !.depth = @ + 1]]

-----------------------------------------------------------------------------
(* TapTreeBuilder; complete_heights is the bitmap of the heights at which  *)
(* the left child is complete, complete_128 the bit that does not fit.     *)

new_builder ==
    [depths_leaves |-> <<>>, complete_heights |-> {}, complete_128 |-> FALSE, current_height |-> 0]

push_inner_node(b) == [b EXCEPT !.current_height = @ + 1]
too_deep(b) == b.current_height > TAPROOT_CONTROL_MAX_NODE_COUNT

\* Wrong: the deepest height is forgotten after its second leaf.
PushLeafStay(b, ms) ==
    LET h == b.current_height
        top == Max({x \in 0..h : x \notin b.complete_heights})
    IN  [b EXCEPT !.depths_leaves = Append(@, [depth |-> h, ms |-> ms]),
                  !.complete_heights = (@ \ (top + 1)..h) \cup ({top} \ {0, TAPROOT_CONTROL_MAX_NODE_COUNT}),
                  !.current_height = top]

push_leaf(b, ms) ==
    LET h == b.current_height
        deepest_height == h = TAPROOT_CONTROL_MAX_NODE_COUNT
        start == IF deepest_height THEN h - 1 ELSE h
        \* the loop climbs over the heights with a complete left child
        top == Max({x \in 0..start : x \notin b.complete_heights})
        added == [b EXCEPT !.depths_leaves = Append(@, [depth |-> h, ms |-> ms])]
    IN  IF deepest_height /\ ~b.complete_128 THEN [added EXCEPT !.complete_128 = TRUE]
        ELSE [added EXCEPT !.complete_128 = FALSE,
                           !.complete_heights = (@ \ (top + 1)..start) \cup ({top} \ {0}),
                           !.current_height = top]

-----------------------------------------------------------------------------
(* fmt_helper; text[ms] is what is written for a leaf. *)

Repeat(ch, n) == [i \in 1..n |-> ch]

fmt_helper(tree, text) ==
    LET Write(acc, item) ==
            LET comma == IF acc.last_depth > 0 THEN <<",">> ELSE <<>>
                opened == Repeat("{", Max({0, item.depth - acc.last_depth}))
                closed == Repeat("}", Max({0, acc.last_depth - item.depth}))
            IN  [out |-> acc.out \o comma \o opened \o text[item.ms] \o closed,
                 last_depth |-> item.depth]
        all == FoldLeft(Write, [out |-> <<>>, last_depth |-> 0], tree)
    IN  all.out \o Repeat("}", all.last_depth)
=============================================================================
