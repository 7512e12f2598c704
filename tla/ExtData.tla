------------------------------- MODULE ExtData -------------------------------
(***************************************************************************)
(* The extra properties of a fragment that from_ast checks                 *)
(* (src/src/miniscript/types/extra_props.rs): the size of its script, if a *)
(* VERIFY can be merged into its last opcode, and its height.              *)
(***************************************************************************)
EXTENDS Integers, Sequences, FiniteSetsExt

Ext(pk_cost, has_free_verify, tree_height) ==
    [pk_cost |-> pk_cost, has_free_verify |-> has_free_verify,
     tree_height |-> tree_height]

\* lib.rs: bytes of the push of the number n.
script_num_size(n) ==
    CASE n <= 16 -> 1
      [] n > 16 /\ n < 128 -> 2
      [] n >= 128 /\ n < 32768 -> 3
      [] n >= 32768 /\ n < 8388608 -> 4
      [] OTHER -> 5

\* The push size multi and pk_k assume for a key.
key_bytes(tap, uncompressed) ==
    IF tap THEN 33 ELSE IF uncompressed THEN 65 ELSE 34

\* A wrong price: only k is counted.
num_cost_of_k(k, n) == 1 + (IF k > 16 THEN 1 ELSE 0)

\* multi and multi_a price both numbers k and n.
num_cost(k, n) == 2 + (IF k > 16 THEN 1 ELSE 0) + (IF n > 16 THEN 1 ELSE 0)

SumOver(S, f(_)) == FoldSet(LAMBDA i, acc : acc + f(i), 0, S)

\* keys is the sequence of the keys, unc the set of uncompressed ones.
multi_ext(k, keys, unc) ==
    Ext(num_cost(k, Len(keys)) + 1
          + SumOver(DOMAIN keys, LAMBDA i : key_bytes(FALSE, keys[i] \in unc)),
        TRUE, 0)

multi_a_ext(k, n) == Ext(num_cost(k, n) + 33 * n + (n - 1) + 1, TRUE, 0)

hash_ext(frag) ==
    Ext(6 + (IF frag \in {"Sha256", "Hash256"} THEN 33 ELSE 21), TRUE, 0)

time_ext(t) == Ext(script_num_size(t) + 1, FALSE, 0)

\* args is the sequence of the fragment's keys, k its threshold or locktime.
leaf_ext(frag, k, args, tap, unc) ==
    CASE frag \in {"True", "False"} -> Ext(1, FALSE, 0)
      [] frag = "PkK" -> Ext(key_bytes(tap, args[1] \in unc), FALSE, 0)
      [] frag \in {"PkH", "RawPkH"} -> Ext(24, FALSE, 0)
      [] frag \in {"After", "Older"} -> time_ext(k)
      [] frag \in {"Sha256", "Hash256", "Ripemd160", "Hash160"} -> hash_ext(frag)
      [] frag = "TxTemplate" -> Ext(35, FALSE, 0)
      [] frag = "Multi" -> multi_ext(k, args, unc)
      [] frag = "MultiA" -> multi_a_ext(k, Len(args))

\* Bytes and free-verify of a wrapper around x.
wrap_ext(frag, x) ==
    CASE frag = "Alt" -> Ext(x.pk_cost + 2, FALSE, x.tree_height + 1)
      [] frag = "Swap" -> Ext(x.pk_cost + 1, x.has_free_verify, x.tree_height + 1)
      [] frag = "Check" -> Ext(x.pk_cost + 1, TRUE, x.tree_height + 1)
      [] frag = "DupIf" -> Ext(x.pk_cost + 3, FALSE, x.tree_height + 1)
      [] frag = "Verify" ->
            Ext(x.pk_cost + (IF x.has_free_verify THEN 0 ELSE 1), FALSE,
                x.tree_height + 1)
      [] frag = "NonZero" -> Ext(x.pk_cost + 4, FALSE, x.tree_height + 1)
      [] frag = "ZeroNotEqual" -> Ext(x.pk_cost + 1, FALSE, x.tree_height + 1)

\* size is the total size of the envelopes.
inscribing(x, size, postfix) ==
    Ext(x.pk_cost + size, x.has_free_verify /\ ~postfix, x.tree_height + 1)

binary_ext(frag, l, r) ==
    Ext(l.pk_cost + r.pk_cost
          + (CASE frag = "AndV" -> 0
               [] frag \in {"AndB", "OrB"} -> 1
               [] frag = "OrC" -> 2
               [] frag \in {"OrD", "OrI"} -> 3),
        frag = "AndV" /\ r.has_free_verify,
        1 + Max({l.tree_height, r.tree_height}))

and_or_ext(a, b, c) ==
    Ext(a.pk_cost + b.pk_cost + c.pk_cost + 3, FALSE,
        1 + Max({a.tree_height, b.tree_height, c.tree_height}))

threshold_ext(k, subs) ==
    Ext(1 + script_num_size(k) + Len(subs) - 1
          + SumOver(DOMAIN subs, LAMBDA i : subs[i].pk_cost),
        TRUE,
        1 + Max({subs[i].tree_height : i \in DOMAIN subs}))
=============================================================================
