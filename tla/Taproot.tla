------------------------------ MODULE Taproot ------------------------------
(***************************************************************************)
(* Taproot descriptors from their strings (src/src/descriptor/tr/mod.rs):  *)
(* the tree of tr(K,TREE) is parsed as an expression, built leaf by leaf,  *)
(* hashed, and its leaves are iterated over with their control blocks.     *)
(* The string here is TREE; a leaf is known by the place of its name.      *)
(***************************************************************************)
EXTENDS ExpressionTree, TrSpendInfo

VARIABLES
    at,             \* the next node of the pre-order iterator
    builder,
    tree,           \* the finished tree; <<>> before
    info,           \* TrSpendInfo and the stack of its construction
    hashed,         \* number of leaves in info
    it,             \* the iterator over info
    blocks          \* what it gave: the control blocks

tree_vars == <<at, builder, tree, info, hashed, it, blocks>>
tvars == <<evars, tree_vars>>

TaprootInit ==
    /\ ExpressionInit
    /\ at = 1 /\ builder = new_builder /\ tree = <<>>
    /\ info = new_info /\ hashed = 0 /\ it = new_iter /\ blocks = <<>>

Parse == ExpressionNext /\ UNCHANGED tree_vars

\* The expression is no tree of scripts.
Refuse == phase' = "no_tree" /\ UNCHANGED <<input, check_vars, parse_vars, tree_vars>>

ReadNode ==
    /\ phase = "parsed" /\ tree = <<>> /\ at <= Len(nodes)
    /\ UNCHANGED <<tree, info, hashed, it, blocks>>

\* A pair of curly braces around two trees.
PushInnerNode ==
    /\ ReadNode
    /\ nodes[at].parens = "{"
    /\ nodes[at].name = <<>> /\ nodes[at].n_children = 2
    /\ ~too_deep(push_inner_node(builder))
    /\ builder' = push_inner_node(builder)
    /\ at' = at + 1
    /\ UNCHANGED evars

RefuseInnerNode ==
    /\ ReadNode
    /\ nodes[at].parens = "{"
    /\ \/ nodes[at].name # <<>> \/ nodes[at].n_children # 2
       \/ too_deep(push_inner_node(builder))
    /\ Refuse

\* What Miniscript::from_tree takes: any named node without curly braces below.
is_script(i) == nodes[i].name # <<>> /\ \A d \in descendants(i) : nodes[d].parens # "{"

\* skip_descendants
after_descendants(i) == rightmost_descendant_idx(i) + 1

PushLeaf ==
    /\ ReadNode
    /\ nodes[at].parens # "{" /\ is_script(at)
    /\ builder' = push_leaf(builder, nodes[at].name_pos)
    /\ at' = after_descendants(at)
    /\ UNCHANGED evars

RefuseLeaf ==
    /\ ReadNode
    /\ nodes[at].parens # "{" /\ ~is_script(at)
    /\ Refuse

Finalize ==
    /\ phase = "parsed" /\ tree = <<>> /\ at > Len(nodes)
    /\ tree' = builder.depths_leaves
    /\ UNCHANGED <<evars, at, builder, info, hashed, it, blocks>>

\* One leaf of nodes_from_tap_tree.
HashLeaf ==
    /\ hashed < Len(tree)
    /\ IF depth_reached(info, tree[hashed + 1])
       THEN info' = add_leaf(info, tree[hashed + 1]) /\ UNCHANGED phase
       ELSE phase' = "panic" /\ UNCHANGED info
    /\ hashed' = hashed + 1
    /\ UNCHANGED <<input, check_vars, parse_vars, at, builder, tree, it, blocks>>

\* One node of TrSpendInfoIter::next.
VisitNode ==
    /\ tree # <<>> /\ hashed = Len(tree) /\ it.index < Len(info.nodes)
    /\ LET node == info.nodes[it.index + 1]
       IN  /\ it' = visit(it, node)
           /\ blocks' = IF node.leaf = 0 THEN blocks
                        ELSE Append(blocks, [ms |-> node.leaf, branch |-> merkle_branch(it, node)])
    /\ UNCHANGED <<evars, at, builder, tree, info, hashed>>

TaprootNext ==
    \/ Parse
    \/ PushInnerNode \/ RefuseInnerNode \/ PushLeaf \/ RefuseLeaf \/ Finalize
    \/ HashLeaf \/ VisitNode

TaprootSpec == TaprootInit /\ [][TaprootNext]_tvars

-----------------------------------------------------------------------------

Done == tree # <<>> /\ hashed = Len(tree) /\ it.index = Len(info.nodes)

RECURSIVE CurlyAncestors(_)
CurlyAncestors(i) ==
    LET p == nodes[i].parent_idx IN IF p = 0 THEN 0 ELSE 1 + CurlyAncestors(p)

\* The scripts: the nodes without curly braces whose parents have them.
Scripts ==
    {i \in DOMAIN nodes :
        nodes[i].parens # "{" /\ (nodes[i].parent_idx = 0 \/ nodes[nodes[i].parent_idx].parens = "{")}

\* The bitmap of the builder finds the depth of every leaf: the number of
\* braces around it, the deepest level, whose bit is elsewhere, included.
\* The builder ends at the root, with no half-complete node.
BuilderExact ==
    tree # <<>> =>
        /\ builder.current_height = 0 /\ builder.complete_heights = {} /\ ~builder.complete_128
        /\ Len(tree) = Cardinality(Scripts)
        /\ \A i \in Scripts :
            \E l \in DOMAIN tree :
                tree[l] = [depth |-> CurlyAncestors(i), ms |-> nodes[i].name_pos]

(* The tree has the leaves and depths of the string, and every leaf, in     *)
(* this order, gets a control block from which a                            *)
(* verifier computes the Merkle root of the output, and whose length is the *)
(* depth of the leaf.  At the end no node is left on the stacks, and they   *)
(* never hold more bits than the 128 there are.                             *)
ControlBlocksVerify ==
    /\ BuilderExact
    /\ Len(it.done_left_stack) <= TAPROOT_CONTROL_MAX_NODE_COUNT
    /\ Done =>
        /\ info.parents = <<>> /\ it.merkle_stack = <<>> /\ it.done_left_stack = <<>>
        /\ Len(blocks) = Len(tree)
        /\ \A l \in DOMAIN tree :
            /\ blocks[l].ms = tree[l].ms
            /\ Len(blocks[l].branch) = tree[l].depth
            /\ RootOf(tree[l].ms, blocks[l].branch) = merkle_root(info)

\* What is written for a leaf: the text that was read.
TextOf(name_pos) ==
    Unparse(CHOOSE i \in DOMAIN nodes : nodes[i].name_pos = name_pos /\ nodes[i].name # <<>>)

(* A parsed tree is written as the string it came from.                     *)
DisplayRoundTrip == tree # <<>> =>
    fmt_helper(tree, [l \in {tree[i].ms : i \in DOMAIN tree} |-> TextOf(l)]) = input
=============================================================================
