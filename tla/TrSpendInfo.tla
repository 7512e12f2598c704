---------------------------- MODULE TrSpendInfo ----------------------------
(***************************************************************************)
(* Spending information of a Taproot output                                *)
(* (src/src/descriptor/tr/spend_info.rs): the nodes of the tree in         *)
(* pre-order, each with the hash of its sibling, and an iterator that      *)
(* makes the control block of every leaf from them.                        *)
(***************************************************************************)
EXTENDS TapTree

\* Hashes are terms; the hash of a node does not tell left from right.
LeafHash(ms) == [leaf |-> ms, kids |-> {}]
from_node_hashes(a, b) == [leaf |-> 0, kids |-> {a, b}]

\* TrSpendInfoNode; leaf 0 is an internal node.
InfoNode(hash, ms) == [sibling_hash |-> hash, leaf |-> ms]

-----------------------------------------------------------------------------
(* nodes_from_tap_tree: the loop over the leaves.  parents is parent_stack *)
(* with <<done_left_child, index>>.                                        *)

new_info == [nodes |-> <<>>, parents |-> <<>>]

\* Step 3: nodes are complete as long as the leaf is on a right branch.
RECURSIVE complete(_, _, _)
complete(info, cur_index, current_hash) ==
    LET n == Len(info.parents)
        parent_idx == info.parents[n][2]
        lchild_hash == info.nodes[parent_idx + 1].sibling_hash
        new_merkle_root == from_node_hashes(lchild_hash, current_hash)
    IN  CASE n = 0 -> info
          [] n > 0 /\ ~info.parents[n][1] -> [info EXCEPT !.parents[n] = <<TRUE, parent_idx>>]
          [] OTHER ->
                complete([nodes |-> [info.nodes EXCEPT ![parent_idx].sibling_hash = new_merkle_root,
                                                       ![parent_idx + 1].sibling_hash = current_hash,
                                                       ![cur_index].sibling_hash = lchild_hash],
                          parents |-> SubSeq(info.parents, 1, n - 1)],
                         parent_idx, new_merkle_root)

add_leaf(info, item) ==
    LET hash == LeafHash(item.ms)
        missing == Max({0, item.depth - Len(info.parents)})
        at == Len(info.nodes)
        with_parents == [nodes |-> info.nodes \o Repeat(InfoNode(hash, 0), missing),
                         parents |-> info.parents \o [i \in 1..missing |-> <<FALSE, at + i>>]]
    IN  complete([with_parents EXCEPT !.nodes = Append(@, InfoNode(hash, item.ms))],
                 at + missing + 1, hash)

\* assert_eq!(depth, parent_stack.len()) after step 1.
depth_reached(info, item) == Len(info.parents) <= item.depth

merkle_root(info) == info.nodes[1].sibling_hash

-----------------------------------------------------------------------------
(* TrSpendInfoIter. *)

new_iter == [index |-> 0, merkle_stack |-> <<>>, done_left_stack |-> <<>>]

\* One node of the loop in next().
visit(it, node) ==
    LET merkle == IF it.index > 0 THEN Append(it.merkle_stack, node.sibling_hash) ELSE it.merkle_stack
        left_at == {i \in DOMAIN it.done_left_stack : ~it.done_left_stack[i]}
        \* the lefts that are done are popped, down to one that is not
        last == IF left_at = {} THEN 0 ELSE Max(left_at)
        popped == Len(it.done_left_stack) - last
    IN  IF node.leaf = 0
        THEN [index |-> it.index + 1, merkle_stack |-> merkle,
              done_left_stack |-> Append(it.done_left_stack, FALSE)]
        ELSE [index |-> it.index + 1,
              merkle_stack |-> SubSeq(merkle, 1, Max({0, Len(merkle) - 1 - popped})),
              done_left_stack |-> IF last = 0 THEN <<>>
                                  ELSE Append(SubSeq(it.done_left_stack, 1, last - 1), TRUE)]

\* The Merkle branch of the control block of a leaf.
merkle_branch(it, node) ==
    Reverse(IF it.index > 0 THEN Append(it.merkle_stack, node.sibling_hash) ELSE it.merkle_stack)

\* What a verifier computes from a control block (BIP 341).
RootOf(ms, branch) == FoldLeft(from_node_hashes, LeafHash(ms), branch)
=============================================================================
