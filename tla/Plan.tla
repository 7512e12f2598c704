-------------------------------- MODULE Plan --------------------------------
(***************************************************************************)
(* Planning a spend (src/src/plan.rs, Descriptor::plan): a wallet collects *)
(* assets, asks a descriptor for a plan, lets the plan update a PSBT input *)
(* and completes it with signatures.  Several plans for one output may     *)
(* update the same input.                                                  *)
(*                                                                         *)
(* A descriptor is a record: its kind (DescriptorType), the key of the     *)
(* kinds with a key, the arena of the script or of every leaf, and the     *)
(* tree of a tr(): its leaves, by number, with their depths.  The number   *)
(* of a leaf stands for its leaf hash.                                     *)
(***************************************************************************)
EXTENDS Assets, TrSpendInfo

CONSTANTS
    Descriptors,
    KeyOrder,        \* the keys in the order of their serialization
    KeySets,         \* the sets of keys a wallet adds
    Custom,          \* the Assets it makes by hand
    Olders, Afters,  \* the timelocks it allows
    MaxPlans         \* bound: plans that update the input

VARIABLES desc, assets, plan, input, used, result

pvars == <<desc, assets, plan, input, used, result>>

S(c) == INSTANCE Script WITH
            Ctx <- c, Uncompressed <- {}, BadInscriptions <- {}, InscriptionSize <- 0,
            MAX_RECURSION_DEPTH <- 402, Keys <- DOMAIN Key
D(c) == INSTANCE SatData WITH
            Ctx <- c, Uncompressed <- {}, BadInscriptions <- {}, InscriptionSize <- 0,
            MAX_RECURSION_DEPTH <- 402

-----------------------------------------------------------------------------
(* Descriptors. *)

KeyKinds == {"Pkh", "Wpkh", "ShWpkh"}
SortedKinds == {"WshSortedMulti", "ShSortedMulti", "ShWshSortedMulti"}
LegacyKinds == {"Bare", "Sh", "Pkh", "ShSortedMulti"}     \* segwit_version() is None
WrappedWsh == {"ShWsh", "ShWshSortedMulti"}

Ctx_of(kind) ==
    CASE kind \in {"Bare", "Pkh"} -> "Bare"
      [] kind \in {"Sh", "ShSortedMulti"} -> "Legacy"
      [] kind = "Tr" -> "Tap"
      [] OTHER -> "Segwitv0"

\* SortedMultiVec::sorted_node
sorted_node(nodes) ==
    [nodes EXCEPT ![1].args = SelectSeq(KeyOrder, LAMBDA key : key \in ToSet(nodes[1].args))]

inner(d) == IF d.kind \in SortedKinds THEN sorted_node(d.nodes) ELSE d.nodes
inner_script(d) == S(Ctx_of(d.kind))!encode(inner(d), Len(d.nodes))

\* Tr::spend_info().leaves(): every leaf with its control block.
spend_info(d) == FoldLeft(add_leaf, new_info, d.tree)
spend_leaves(d) ==
    LET Visit(acc, node) ==
            [it |-> visit(acc.it, node),
             out |-> IF node.leaf = 0 THEN acc.out
                     ELSE Append(acc.out, [ms |-> node.leaf, branch |-> merkle_branch(acc.it, node)])]
    IN  FoldLeft(Visit, [it |-> new_iter, out |-> <<>>], spend_info(d).nodes).out
tap_merkle_root(d) == IF d.tree = <<>> THEN <<>> ELSE << merkle_root(spend_info(d)) >>

-----------------------------------------------------------------------------
(* Templates: the placeholders of Satisfy, and those of Taproot; leaf 0 is *)
(* a key spend.                                                            *)

SchnorrSigPk(key, lh, len) == <<"schnorr", key, lh, len>>
TapScript(ms, len) == <<"script", ms, len>>
TapControlBlock(branch) == <<"block", branch>>

varint_len(n) == IF n < 253 THEN 1 ELSE IF n < 65536 THEN 3 ELSE 5
control_block_len(depth) == 33 + 32 * depth

item_size(c, e) ==
    CASE e[1] = "schnorr" -> e[4] + 1
      [] e[1] = "script" -> e[3] + varint_len(e[3])
      [] e[1] = "block" -> control_block_len(Len(e[2])) + varint_len(control_block_len(Len(e[2])))
      [] OTHER -> S(c)!size(e)

witness_size(c, items) ==
    FoldLeft(LAMBDA n, e : n + item_size(c, e), varint_len(Len(items)), items)

Spend(items) == [S("Tap")!Satisfaction(S("Tap")!Stack(items), TRUE) EXCEPT !.panic = FALSE]
NoSpend == S("Tap")!Satisfaction(S("Tap")!Unavailable, FALSE)

\* plan_satisfaction of Pkh and Wpkh.
key_template(d, a) ==
    IF has_ecdsa_key(a, d.key) THEN Spend(<< <<"sig", d.key>>, <<"key", d.key>> >>) ELSE NoSpend

\* plan_satisfaction of Bare, Sh and Wsh.
script_template(d, a, mall) ==
    S(Ctx_of(d.kind))!build_template(inner(d), Len(d.nodes),
        provider(a, {key \in DOMAIN Key : has_ecdsa_key(a, key)}), mall)

\* What one leaf offers: its witness, its script and its control block.
leaf_template(d, a, mall, lf) ==
    LET nodes == d.leaves[lf.ms]
        signers == {key \in DOMAIN Key : has_taproot_script_key(a, key, lf.ms) # <<>>}
        placeholder(e) ==
            IF e[1] = "sig" THEN SchnorrSigPk(e[2], lf.ms, has_taproot_script_key(a, e[2], lf.ms)[1])
            ELSE e
        script_len == S("Tap")!script_len(S("Tap")!encode(nodes, Len(nodes)))
    IN  [S("Tap")!build_template(nodes, Len(nodes), provider(a, signers), mall) EXCEPT !.stack.items =
            [i \in DOMAIN @ |-> placeholder(@[i])] \o <<TapScript(lf.ms, script_len), TapControlBlock(lf.branch)>>]

\* The later one of equals.
smaller(best, sat) ==
    CASE sat.stack.tag # "Stack" -> best
      [] /\ sat.stack.tag = "Stack" /\ best.stack.tag = "Stack"
         /\ witness_size("Tap", sat.stack.items) > witness_size("Tap", best.stack.items) -> best
      [] OTHER -> sat

best_tap_spend(d, a, mall) ==
    LET internal == has_taproot_internal_key(a, d.key)
        all == spend_leaves(d)
    IN  IF internal # <<>> THEN Spend(<<SchnorrSigPk(d.key, 0, internal[1])>>)
        ELSE FoldLeft(smaller, NoSpend,
                      [i \in DOMAIN all |-> leaf_template(d, a, mall, all[i])])

plan_satisfaction(d, a, mall) ==
    CASE d.kind \in KeyKinds -> key_template(d, a)
      [] d.kind = "Tr" -> best_tap_spend(d, a, mall)
      [] OTHER -> script_template(d, a, mall)

KeysIn(nodes) == UNION {ToSet(nodes[i].args) : i \in DOMAIN nodes} \cap DOMAIN Key

\* A lookup panics on the way.
plan_panics(d, a) ==
    CASE d.kind \in KeyKinds -> lookup_panics(ecdsa_able(a), d.key)
      [] d.kind = "Tr" ->
            \/ lookup_panics(key_spend_able(a), d.key)
            \/ /\ has_taproot_internal_key(a, d.key) = <<>>
               /\ \E i \in DOMAIN d.leaves : \E key \in KeysIn(d.leaves[i]) :
                    lookup_panics(script_spend_able(a, i), key)
      [] OTHER -> \E key \in KeysIn(d.nodes) : lookup_panics(ecdsa_able(a), key)

-----------------------------------------------------------------------------
(* The sizes that a plan and a descriptor announce. *)

scriptsig_size(d, items) ==
    CASE d.kind \in LegacyKinds -> witness_size(Ctx_of(d.kind), items)
      [] d.kind = "ShWpkh" -> 23
      [] d.kind \in WrappedWsh -> 35
      [] OTHER -> 1

plan_witness_size(d, items) ==
    IF d.kind \in LegacyKinds THEN 0 ELSE witness_size(Ctx_of(d.kind), items)

satisfaction_weight(d, items) == plan_witness_size(d, items) + 4 * scriptsig_size(d, items)

push_opcode_size(n) == IF n < 76 THEN 1 ELSE IF n < 256 THEN 2 ELSE IF n < 65536 THEN 3 ELSE 5

\* The script and its worst satisfaction; the counts of a sortedmulti are
\* those of a multi.
script_bytes(d) == D(Ctx_of(d.kind))!script_size(inner(d))
max_sat_size(d) == D(Ctx_of(d.kind))!max_satisfaction_size(D(Ctx_of(d.kind))!data(inner(d), Len(d.nodes)))[1]

\* Wrong: the control block is forgotten.
LeafWithoutBlock(d, item) ==
    LET nodes == d.leaves[item.ms]
        script == D("Tap")!script_size(nodes)
    IN  D("Tap")!max_satisfaction_size(D("Tap")!data(nodes, Len(nodes)))[1] + varint_len(script) + script

leaf_weight(d, item) ==
    LET nodes == d.leaves[item.ms]
        script == D("Tap")!script_size(nodes)
        block == control_block_len(item.depth)
    IN  D("Tap")!max_satisfaction_size(D("Tap")!data(nodes, Len(nodes)))[1]
            + varint_len(script) + script + varint_len(block) + block

\* Witnesses have fewer than 252 elements: their number takes one byte, as
\* does the number 0 that it replaces.
max_weight_to_satisfy(d) ==
    LET wsh == varint_len(script_bytes(d)) + script_bytes(d) + max_sat_size(d)
        sig_bytes(n) == 4 * (varint_len(n) - 1 + n)
    IN  CASE d.kind = "Bare" -> sig_bytes(max_sat_size(d))
          [] d.kind = "Pkh" -> sig_bytes(73 + 34)
          [] d.kind = "Wpkh" -> 73 + 34
          [] d.kind = "ShWpkh" -> sig_bytes(23) + 73 + 34
          [] d.kind \in {"Wsh", "WshSortedMulti"} -> wsh
          [] d.kind \in WrappedWsh -> sig_bytes(35) + wsh
          [] d.kind \in {"Sh", "ShSortedMulti"} ->
                sig_bytes(push_opcode_size(script_bytes(d)) + script_bytes(d) + max_sat_size(d))
          [] d.kind = "Tr" ->
                IF d.tree = <<>> THEN 66
                ELSE Max({leaf_weight(d, d.tree[i]) : i \in DOMAIN d.tree})

-----------------------------------------------------------------------------
(* Plan::update_psbt_input. *)

new_input ==
    [tap_merkle_root |-> <<>>, tap_internal_key |-> <<>>, tap_key_origins |-> <<>>,
     tap_scripts |-> {}, bip32_derivation |-> <<>>, witness_script |-> <<>>, redeem_script |-> <<>>]

KeySource(key) == <<master_fingerprint(Key[key]), path_of(key)>>

\* Wrong: the entry of a known key is left as it is.
OriginsOnce(origins, keys, lh) ==
    [key \in DOMAIN origins \cup keys |->
        IF key \in DOMAIN origins THEN origins[key]
        ELSE [leaf_hashes |-> {}, source |-> KeySource(key)]]

\* The leaf hash is added to the entry of a known key; a new entry has none.
add_origins(origins, keys, lh) ==
    [key \in DOMAIN origins \cup keys |->
        CASE key \in DOMAIN origins /\ key \in keys /\ lh # 0 ->
                [origins[key] EXCEPT !.leaf_hashes = @ \cup {lh}]
          [] key \in DOMAIN origins /\ ~(key \in keys /\ lh # 0) -> origins[key]
          [] OTHER -> [leaf_hashes |-> {}, source |-> KeySource(key)]]

Items(p, tag) == {e \in ToSet(p.template) : e[1] = tag}

\* All signatures of a template are for the same spend.
update_tap(in, d, p) ==
    LET sigs == Items(p, "schnorr")
        spend_type == IF sigs = {} THEN 0 ELSE (CHOOSE e \in sigs : TRUE)[3]
        blocks == {<<b[2], s[2]>> : b \in Items(p, "block"), s \in Items(p, "script")}
    IN  [in EXCEPT !.tap_merkle_root = tap_merkle_root(d),
                   !.tap_internal_key = IF sigs # {} /\ spend_type = 0 THEN << d.key >> ELSE @,
                   !.tap_key_origins = add_origins(@, {e[2] : e \in sigs}, spend_type),
                   !.tap_scripts = @ \cup blocks]

\* The script that the output of an sh() commits to.
redeem_script(d) ==
    CASE d.kind \in {"Sh", "ShSortedMulti"} -> << <<"script", inner_script(d)>> >>
      [] d.kind \in WrappedWsh -> << <<"p2wsh", inner_script(d)>> >>
      [] d.kind = "ShWpkh" -> << <<"p2wpkh", d.key>> >>
      [] OTHER -> <<>>

update_other(in, d, p) ==
    LET keys == {e[2] : e \in Items(p, "sig")}
    IN  [in EXCEPT !.bip32_derivation =
                        [key \in DOMAIN @ \cup keys |-> KeySource(key)],
                   !.witness_script = IF d.kind \in {"Wsh", "WshSortedMulti"} \cup WrappedWsh
                                      THEN << inner_script(d) >> ELSE @,
                   !.redeem_script = IF redeem_script(d) # <<>> THEN redeem_script(d) ELSE @]

update_psbt_input(in, d, p) == IF d.kind = "Tr" THEN update_tap(in, d, p) ELSE update_other(in, d, p)

-----------------------------------------------------------------------------
(* Plan::satisfy with a satisfier that holds what is in has: signatures,   *)
(* named by their placeholders, and preimages.                             *)

Needed(p) == {e \in ToSet(p.template) : e[1] \in {"sig", "schnorr"} \/ (e[1] = "pre" /\ e[2] # "zeros")}

satisfy(d, p, has) ==
    IF ~(Needed(p) \subseteq has) THEN [ok |-> FALSE, witness |-> <<>>, script_sig |-> <<>>]
    ELSE CASE d.kind \in LegacyKinds -> [ok |-> TRUE, witness |-> <<>>, script_sig |-> p.template]
           [] d.kind \in WrappedWsh \cup {"ShWpkh"} ->
                \* unsigned_script_sig
                [ok |-> TRUE, witness |-> p.template, script_sig |-> redeem_script(d)]
           [] OTHER -> [ok |-> TRUE, witness |-> p.template, script_sig |-> <<>>]

-----------------------------------------------------------------------------

NoPlan == [made |-> "none", template |-> <<>>, absolute |-> 0, relative |-> 0]
NoResult == [ok |-> FALSE, witness |-> <<>>, script_sig |-> <<>>]

PlanInit ==
    /\ desc \in Descriptors
    /\ assets = new_assets
    /\ plan = NoPlan
    /\ input = new_input
    /\ used = <<>>
    /\ result = NoResult

Collect(a) ==
    /\ plan = NoPlan
    /\ assets' = a
    /\ UNCHANGED <<desc, plan, input, used, result>>

AddKeys == \E pks \in KeySets : Collect(append(assets, from_iter(pks)))
AddAssets == \E b \in Custom : Collect(append(assets, b))
Older == \E n \in Olders : Collect([assets EXCEPT !.relative = <<n>>])
After == \E n \in Afters : Collect([assets EXCEPT !.absolute = <<n>>])

plan_of(sat, mall) ==
    IF sat.stack.tag = "Stack"
    THEN [made |-> IF mall THEN "mall" ELSE "plan", template |-> sat.stack.items,
          absolute |-> sat.absolute_timelock, relative |-> sat.relative_timelock]
    ELSE [NoPlan EXCEPT !.made = IF mall THEN "err_mall" ELSE "err"]

\* Descriptor::plan, or plan_mall.
MakePlan(mall) ==
    /\ plan = NoPlan
    /\ plan' = IF plan_panics(desc, assets) THEN [NoPlan EXCEPT !.made = "panic"]
               ELSE plan_of(plan_satisfaction(desc, assets, mall), mall)
    /\ UNCHANGED <<desc, assets, input, used, result>>

Made == plan.made \in {"plan", "mall"}

UpdateInput ==
    /\ Made /\ ~result.ok
    /\ Len(used) < MaxPlans /\ plan \notin ToSet(used)
    /\ input' = update_psbt_input(input, desc, plan)
    /\ used' = Append(used, plan)
    /\ UNCHANGED <<desc, assets, plan, result>>

\* Other assets are collected for another plan for the same input.
Replan ==
    /\ Made /\ ~result.ok /\ used # <<>> /\ Last(used) = plan /\ Len(used) < MaxPlans
    /\ plan' = NoPlan /\ assets' = new_assets
    /\ UNCHANGED <<desc, input, used, result>>

SatisfyPlan ==
    /\ Made /\ ~result.ok
    /\ \E has \in SUBSET Needed(plan) : result' = satisfy(desc, plan, has)
    /\ UNCHANGED <<desc, assets, plan, input, used>>

PlanNext ==
    \/ AddKeys \/ AddAssets \/ Older \/ After
    \/ MakePlan(FALSE) \/ MakePlan(TRUE)
    \/ UpdateInput \/ Replan \/ SatisfyPlan

PlanSpec == PlanInit /\ [][PlanNext]_pvars

-----------------------------------------------------------------------------
(* What a plan promises. *)

\* A transaction with just the timelocks of the plan.
tx_of(p) == [lock_time |-> p.absolute, sequence |-> IF p.relative = 0 THEN -2 ELSE p.relative,
             template |-> "none"]

Execute(c, nodes, items, p) == S(c)!accepts(S(c)!encode(nodes, Len(nodes)), items, tx_of(p))

\* What the output of the descriptor accepts; the script of an sh() or a
\* wsh() is not among the items.
Accepted(d, items, p) ==
    CASE d.kind \in KeyKinds -> items = << <<"sig", d.key>>, <<"key", d.key>> >>
      [] d.kind = "Tr" ->
            \/ Len(items) = 1 /\ items[1][1] = "schnorr" /\ items[1][2] = d.key /\ items[1][3] = 0
            \/ /\ Len(items) >= 2
               /\ LET n == Len(items)
                      ms == items[n - 1][2]
                  IN  /\ RootOf(ms, items[n][2]) = tap_merkle_root(d)[1]
                      /\ \A i \in 1..(n - 2) : items[i][1] = "schnorr" => items[i][3] = ms
                      /\ Execute("Tap", d.leaves[ms],
                                 [i \in 1..(n - 2) |-> IF items[i][1] = "schnorr" THEN <<"sig", items[i][2]>>
                                                       ELSE items[i]], p)
      [] OTHER -> Execute(Ctx_of(d.kind), inner(d), items, p)

\* The bytes of the script of an sh() or wsh(), which the plan leaves out.
script_weight(d) ==
    CASE d.kind \in {"Sh", "ShSortedMulti"} -> 4 * (push_opcode_size(script_bytes(d)) + script_bytes(d))
      [] d.kind \in {"Wsh", "WshSortedMulti"} \cup WrappedWsh -> varint_len(script_bytes(d)) + script_bytes(d)
      [] OTHER -> 0

\* The lengths of the scriptSig and of the witness are there in an unsigned input too.
added_weight(d, items) ==
    satisfaction_weight(d, items) - 4 - (IF d.kind \in LegacyKinds THEN 0 ELSE 1)

(* A plan is kept: whoever brings the signatures and preimages that it      *)
(* names gets a witness that the output accepts, in a transaction with just *)
(* the timelocks of the plan, and whoever lacks one of them gets none.  It  *)
(* weighs no more than the descriptor announces.  The script of an sh() or  *)
(* a wsh() has to be added by the caller, to the witness and to its weight. *)
PlanKept ==
    /\ result.ok =>
            LET items == IF desc.kind \in LegacyKinds THEN result.script_sig ELSE result.witness
            IN  Accepted(desc, items, plan)
    /\ Made => added_weight(desc, plan.template) + script_weight(desc) <= max_weight_to_satisfy(desc)

\* The keys that can be signed with, from the documentation of Assets: the
\* path, or the path with one more step.
Held(able) ==
    {key \in DOMAIN Key : \E x \in Candidates(able, key) :
        path_of(key) = x.path \/ \E step \in ToSet(path_of(key)) : path_of(key) = Append(x.path, step)}

Findable(c, nodes, held) ==
    LET public == {<<"num", 0>>, <<"num", 1>>, <<"pre", "zeros">>} \cup {<<"key", k>> : k \in DOMAIN Key}
        own == {<<"sig", k>> : k \in held} \cup {<<"pre", h>> : h \in assets.preimages}
    IN  S(c)!witnesses(S(c)!encode(nodes, Len(nodes)), public \cup own, provider(assets, held)) # {}

Spendable ==
    CASE desc.kind \in KeyKinds -> desc.key \in Held(ecdsa_able(assets))
      [] desc.kind = "Tr" ->
            \/ desc.key \in Held(key_spend_able(assets))
            \/ \E i \in DOMAIN desc.leaves :
                    Findable("Tap", desc.leaves[i], Held(script_spend_able(assets, i)))
      [] OTHER -> Findable(Ctx_of(desc.kind), inner(desc), Held(ecdsa_able(assets)))


SignersOf(p) == {e[2] : e \in Items(p, "schnorr") \cup Items(p, "sig")}

(* The input holds what every plan that updated it needs, also after the    *)
(* updates of other plans, and names no other keys: the origin of each key  *)
(* that signs, the scripts, and for a leaf a control block of the output    *)
(* and the leaf hash of each key (but for the plan that brought the key).   *)
InputUpdated ==
    LET origins == IF desc.kind = "Tr" THEN input.tap_key_origins ELSE input.bip32_derivation
    IN  /\ DOMAIN origins = UNION {SignersOf(used[i]) : i \in DOMAIN used}
        /\ used # <<>> /\ desc.kind \in {"Wsh", "WshSortedMulti"} \cup WrappedWsh =>
                input.witness_script = << inner_script(desc) >>
        /\ used # <<>> /\ desc.kind \in WrappedWsh =>
                input.redeem_script = << <<"p2wsh", input.witness_script[1]>> >>
        /\ used # <<>> /\ desc.kind = "Tr" => input.tap_merkle_root = tap_merkle_root(desc)
        /\ \A i \in DOMAIN used : \A e \in Items(used[i], "schnorr") :
                IF e[3] = 0 THEN input.tap_internal_key = << e[2] >>
                ELSE /\ \E b \in input.tap_scripts :
                            b[2] = e[3] /\ RootOf(b[2], b[1]) = input.tap_merkle_root[1]
                     /\ (\E j \in 1..(i - 1) : e[2] \in SignersOf(used[j])) =>
                            e[3] \in origins[e[2]].leaf_hashes
=============================================================================
