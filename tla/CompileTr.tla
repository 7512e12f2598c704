----------------------------- MODULE CompileTr -----------------------------
(***************************************************************************)
(* Compiling a policy to a Taproot descriptor (compile_tr and              *)
(* compile_tr_private_experimental of src/src/policy/concrete.rs): a key   *)
(* is taken out of the policy, the rest becomes leaves, and these a        *)
(* Huffman tree.  A leaf is known by its policy; Compiler shows what its   *)
(* expression has in common with it.                                       *)
(***************************************************************************)
EXTENDS Compiler, TapTree

CONSTANTS
    Unspendable,       \* the name of the key that a caller may provide
    TrSources          \* the policies to compile to Taproot

VARIABLES
    stage,             \* ms while Compiler works; start, leaves, enumerate, huffman, done, error, panic
    given,             \* whether the caller provides a key
    internal_key,
    rest,              \* the policy without the key
    pending, placed,   \* tapleaf_prob_vec and ret of enumerate_policy_tree: <<prob, policy>>
    pol_prob_map,
    prev_len, enum_len,
    heap               \* node_weights, <<prob, tree>>, and the result at the end

enum_vars == <<pending, placed, pol_prob_map, prev_len, enum_len>>
tr_vars == <<stage, given, internal_key, rest, enum_vars, heap>>
all_vars == <<cvars, tr_vars>>

Empty == [p \in {} |-> 0]
TrIdle ==
    /\ internal_key = "" /\ rest = Unsatisfiable /\ heap = <<>>
    /\ pending = {} /\ placed = <<>> /\ pol_prob_map = Empty /\ prev_len = 0 /\ enum_len = 0

CompileInit ==
    /\ TrIdle
    /\ \/ CompilerInit /\ stage = "ms" /\ given = FALSE
       \/ /\ source \in TrSources /\ todo = <<>> /\ elems = <<>> /\ casts = 0
          /\ stage = "start" /\ given \in BOOLEAN

-----------------------------------------------------------------------------

\* The checks of compile_tr, and extract_key.
ExtractKey ==
    /\ stage = "start"
    /\ LET own == internal_keys(source)
       IN  IF ~compilable(source) \/ (own = {} /\ ~given)
           THEN stage' = "error" /\ UNCHANGED <<internal_key, rest>>
           ELSE /\ stage' = "leaves"
                /\ internal_key' = IF own = {} THEN Unspendable ELSE CHOOSE k \in own : TRUE
                /\ rest' = IF own = {} THEN source
                           ELSE translate_unsatisfiable_pk(source, CHOOSE k \in own : TRUE)
    /\ UNCHANGED <<cvars, given, enum_vars, heap>>

\* best_compilation finds a safe expression.
compiles(p) == \E ty \in TypesOf(p) : ty.corr.base = "B" /\ ty.mall.safe

\* Leaves for the heap; those that are unsatisfiable are skipped.
plant(leaves) ==
    LET kept == SelectSeq(leaves, LAMBDA l : l[2] # Unsatisfiable)
    IN  [i \in DOMAIN kept |-> << kept[i][1], leaf(kept[i][2]) >>]

\* The loop over tapleaf_probability_iter.  The expect on the sanity check of
\* each expression is left out: it depends on which one is chosen.
CollectLeaves ==
    /\ stage = "leaves"
    /\ LET leaves == IF rest = Trivial THEN <<>> ELSE tapleaf_probability_iter(rest)
           planted == plant(leaves)
           ok == /\ check_num_tapleaves(rest)
                 /\ \A i \in DOMAIN leaves : leaves[i][2] # Unsatisfiable => compiles(leaves[i][2])
       IN  /\ stage' = CASE ~ok -> "error" [] ok /\ planted = <<>> -> "done" [] OTHER -> "huffman"
           /\ heap' = IF ok THEN planted ELSE <<>>
    /\ UNCHANGED <<cvars, given, internal_key, rest, enum_vars>>

-----------------------------------------------------------------------------
(* enumerate_policy_tree. *)

StartEnumeration ==
    /\ stage = "leaves" /\ rest # Trivial
    /\ stage' = "enumerate"
    /\ pending' = { <<ProbOne, rest>> }
    /\ pol_prob_map' = [p \in {rest} |-> ProbOne]
    /\ prev_len' = 0 /\ enum_len' = 1
    /\ UNCHANGED <<cvars, given, internal_key, rest, placed, heap>>

\* The nodes at which the inner loop may stop.
plausible == {x \in pending : prev_len < enum_len + Len(enumerate_pol(x[2], x[1])) - 1}

\* Wrong: the probability of a policy that is there is replaced.
MergeReplacing(acc, new) ==
    [acc EXCEPT !.nodes = {x \in @ : x[2] # new[2]} \cup {new},
                !.probs = [p \in DOMAIN @ \cup {new[2]} |-> IF p = new[2] THEN new[1] ELSE @[p]]]

\* A new node is appended, or its probability added to that of its policy.
merge(acc, new) ==
    LET p == new[1]
        policy == new[2]
        known == policy \in DOMAIN acc.probs
        prev == IF known THEN acc.probs[policy] ELSE 0
    IN  [nodes |-> (acc.nodes \ {<<prev, policy>>}) \cup {<<prev + p, policy>>},
         probs |-> [q \in DOMAIN acc.probs \cup {policy} |->
                        IF q = policy THEN prev + p ELSE acc.probs[q]],
         ok |-> acc.ok /\ (known => <<prev, policy>> \in acc.nodes)]

\* One round of the outer loop.  The order of nodes with the same
\* probability is that of their policies, and left open here.
EnumerateStep ==
    /\ stage = "enumerate"
    /\ \E x \in plausible :
        /\ \A y \in plausible : y[1] <= x[1]
        /\ \E ties \in SUBSET {y \in pending \ plausible : y[1] = x[1]} :
            LET to_del == ties \cup {y \in pending : y[1] > x[1]}
                replace == enumerate_pol(x[2], x[1])
                len == enum_len + Len(replace) - 1
                all == FoldLeft(merge, [nodes |-> pending \ (to_del \cup {x}), probs |-> pol_prob_map, ok |-> TRUE],
                                replace)
            IN  /\ len <= MAX_COMPILATION_LEAVES
                /\ pending' = all.nodes
                /\ pol_prob_map' = all.probs
                /\ placed' = placed \o SetToSeq(to_del)
                /\ enum_len' = len /\ prev_len' = len
                /\ stage' = IF all.ok THEN stage ELSE "panic"
    /\ UNCHANGED <<cvars, given, internal_key, rest, heap>>

\* No node can be split, or there would be too many.
EndEnumeration ==
    /\ stage = "enumerate"
    /\ \/ plausible = {}
       \/ \E x \in plausible :
            /\ \A y \in plausible : y[1] <= x[1]
            /\ enum_len + Len(enumerate_pol(x[2], x[1])) - 1 > MAX_COMPILATION_LEAVES
    /\ LET planted == plant(placed \o SetToSeq(pending))
           ok == \A i \in DOMAIN planted : compiles(planted[i][2][1].ms)
       IN  /\ stage' = CASE ~ok -> "panic" [] ok /\ planted = <<>> -> "done" [] OTHER -> "huffman"
           /\ heap' = planted
    /\ UNCHANGED <<cvars, given, internal_key, rest, enum_vars>>

-----------------------------------------------------------------------------
(* with_huffman_tree. *)

\* Wrong: the heap gives the largest first.
LargestOf(nodes) == {i \in DOMAIN nodes : \A j \in DOMAIN nodes : nodes[j][1] <= nodes[i][1]}

\* What the heap may pop.
first_of(nodes) == {i \in DOMAIN nodes : \A j \in DOMAIN nodes : nodes[i][1] <= nodes[j][1]}

CombineNodes ==
    /\ stage = "huffman" /\ Len(heap) > 1
    /\ \E i \in first_of(heap) : \E j \in first_of(RemoveAt(heap, i)) :
        LET less == RemoveAt(heap, i)
            tree == combine(heap[i][2], less[j][2])
        IN  IF tree = <<>> THEN stage' = "panic" /\ UNCHANGED heap
            ELSE heap' = Append(RemoveAt(less, j), << heap[i][1] + less[j][1], tree >>) /\ UNCHANGED stage
    /\ UNCHANGED <<cvars, given, internal_key, rest, enum_vars>>

FinishTree ==
    /\ stage = "huffman" /\ Len(heap) = 1
    /\ stage' = "done"
    /\ UNCHANGED <<cvars, given, internal_key, rest, enum_vars, heap>>

CompileNext ==
    \/ CompilerNext /\ UNCHANGED tr_vars
    \/ ExtractKey \/ CollectLeaves \/ StartEnumeration \/ EnumerateStep \/ EndEnumeration
    \/ CombineNodes \/ FinishTree

CompileSpec == CompileInit /\ [][CompileNext]_all_vars

-----------------------------------------------------------------------------

\* Tr::lift and TapTree::lift.
lift_tree(tree) == normalized(Thresh(1, [i \in DOMAIN tree |-> lift(tree[i].ms)[1]]))
lift_tr(key, tree) ==
    IF tree = <<>> THEN Key(key) ELSE Thresh(1, <<Key(key), lift_tree(tree)>>)

(* What is left to do for compile_tr always means what the policy means:    *)
(* the nodes of the enumeration, whose probabilities add up to one, the     *)
(* leaves in the heap and at last the descriptor, together with the         *)
(* internal key.  A key of the caller is nobody's.  A policy that is        *)
(* nothing but trivial is compiled to that key alone, and is left out.      *)
TrKeepsMeaning ==
    stage \in {"leaves", "enumerate", "huffman", "done"} /\ source # Trivial =>
        LET nodes == SetToSeq(pending) \o placed
            policies == [i \in DOMAIN nodes |-> nodes[i][2]]
            trees == FlattenSeq([i \in DOMAIN heap |-> heap[i][2]])
            p == CASE stage = "leaves" -> Or(<<1, 1>>, <<Key(internal_key), rest>>)
                   [] stage = "enumerate" -> Thresh(1, <<Key(internal_key)>> \o policies)
                   [] OTHER -> lift_tr(internal_key, trees)
        IN  /\ Meaning(p, Conditions(source)) = Meaning(source, Conditions(source))
            /\ stage = "enumerate" => FoldSeq(LAMBDA x, sum : x[1] + sum, 0, nodes) = ProbOne

\* The least sum of probability and depth of all binary trees over leaves.
RECURSIVE Optimum(_, _)
Optimum(S, prob) ==
    IF Cardinality(S) = 1 THEN 0
    ELSE FoldSet(LAMBDA i, sum : prob[i] + sum, 0, S)
         + Min({Optimum(L, prob) + Optimum(S \ L, prob) : L \in SUBSET S \ {{}, S}})

(* The tree is an optimal one: the expected depth of the leaf that is used, *)
(* by the probabilities of the policy, is the least of all binary trees.    *)
HuffmanOptimal ==
    stage = "done" /\ heap # <<>> /\ placed = <<>> /\ pending = {} =>
        LET leaves == plant(tapleaf_probability_iter(rest))
            probs == [i \in DOMAIN leaves |-> leaves[i][1]]
            tree == heap[1][2]
            ProbOf(p) == leaves[CHOOSE i \in DOMAIN leaves : leaves[i][2][1].ms = p][1]
        IN  FoldSeq(LAMBDA x, sum : ProbOf(x.ms) * x.depth + sum, 0, tree)
                = Optimum(DOMAIN leaves, probs)
=============================================================================
