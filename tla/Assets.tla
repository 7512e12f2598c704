------------------------------- MODULE Assets -------------------------------
(***************************************************************************)
(* What a wallet can sign with (src/src/plan.rs): keys known by the        *)
(* fingerprint of their master key and a derivation path, preimages and    *)
(* the timelocks it is ready to wait for.                                  *)
(*                                                                         *)
(* An Option is a sequence of at most one element; None of a timelock is   *)
(* <<>>.  A preimage is known by its hash, whatever the hash function.     *)
(***************************************************************************)
EXTENDS Integers, Sequences, FiniteSetsExt

CONSTANT Key       \* the DescriptorPublicKey of every key name

\* A DescriptorPublicKey: an origin <<[fp, path]>> or none, the fingerprint
\* of the key itself and its derivation paths; a definite key has one.
PublicKey(origin, fp, paths) == [origin |-> origin, fp |-> fp, paths |-> paths]

master_fingerprint(pk) == IF pk.origin = <<>> THEN pk.fp ELSE pk.origin[1].fp

\* The paths up to the wildcard.
full_derivation_paths(pk) ==
    {(IF pk.origin = <<>> THEN <<>> ELSE pk.origin[1].path) \o p : p \in pk.paths}

-----------------------------------------------------------------------------

\* TaprootAvailableLeaves; of is the set of the leaves.
Leaves(kind, of) == [kind |-> kind, of |-> of]
is_available(leaves, lh) == leaves.kind = "Any" \/ lh \in leaves.of

CanSign(ecdsa, key_spend, script_spend, sighash_default) ==
    [ecdsa |-> ecdsa, key_spend |-> key_spend, script_spend |-> script_spend,
     sighash_default |-> sighash_default]
CanSignDefault == CanSign(TRUE, TRUE, Leaves("Any", {}), TRUE)

sig_len(can_sign) == IF can_sign.sighash_default THEN 64 ELSE 65

Source(fp, path, can_sign) == [fp |-> fp, path |-> path, can_sign |-> can_sign]

new_assets == [keys |-> {}, preimages |-> {}, absolute |-> <<>>, relative |-> <<>>]

from_iter(pks) ==
    [new_assets EXCEPT !.keys =
        UNION {{Source(master_fingerprint(pk), path, CanSignDefault) :
                    path \in full_derivation_paths(pk)} : pk \in pks}]

append(a, b) ==
    [keys |-> a.keys \cup b.keys, preimages |-> a.preimages \cup b.preimages,
     absolute |-> IF b.absolute = <<>> THEN a.absolute ELSE b.absolute,
     relative |-> IF b.relative = <<>> THEN a.relative ELSE b.relative]

-----------------------------------------------------------------------------
(* Looking up a definite key. *)

path_of(key) == CHOOSE path \in full_derivation_paths(Key[key]) : TRUE


\* The path itself or one step below it.
is_key_direct_child_of(key, path) ==
    \/ path_of(key) = path
    \/ path_of(key) # <<>> /\ path = SubSeq(path_of(key), 1, Len(path_of(key)) - 1)

\* The keys that can make a signature of a kind.
ecdsa_able(a) == {x \in a.keys : x.can_sign.ecdsa}
key_spend_able(a) == {x \in a.keys : x.can_sign.key_spend}
script_spend_able(a, lh) == {x \in a.keys : is_available(x.can_sign.script_spend, lh)}

Candidates(able, key) == {x \in able : x.fp = master_fingerprint(Key[key])}

\* The last step of an empty path is cut off: pk_path[..(0 - 1)].
lookup_panics(able, key) ==
    /\ path_of(key) = <<>>
    /\ Candidates(able, key) # {}
    /\ \A x \in Candidates(able, key) : x.path # <<>>

\* The order of the BTreeSet, among the keys that match: the path of the
\* parent before the path of the key.
order(x) ==
    LET bit(b) == IF b THEN 1 ELSE 0
        rank == [None |-> 0, Any |-> 1, Single |-> 2, Many |-> 3]
    IN  <<Len(x.path), bit(x.can_sign.ecdsa), bit(x.can_sign.key_spend),
          rank[x.can_sign.script_spend.kind], bit(x.can_sign.sighash_default)>>

Before(s, t) == \E n \in DOMAIN s : s[n] < t[n] /\ \A m \in 1..(n - 1) : s[m] = t[m]

\* find_map over the keys: the length of the signature.
find_key(able, key) ==
    LET matches == {x \in Candidates(able, key) : is_key_direct_child_of(key, x.path)}
        first == CHOOSE x \in matches : \A y \in matches : ~Before(order(y), order(x))
    IN  IF matches = {} THEN <<>> ELSE << sig_len(first.can_sign) >>

has_ecdsa_key(a, key) == find_key(ecdsa_able(a), key) # <<>>
has_taproot_internal_key(a, key) == find_key(key_spend_able(a), key)
has_taproot_script_key(a, key, lh) == find_key(script_spend_able(a, lh), key)

\* AssetProvider for Assets, as the record of a satisfier (Satisfy): no
\* locktime is 0, a negative sequence disables the relative timelock, and
\* neither keys by their hash nor transaction templates are provided.
provider(a, sigs) ==
    [sigs |-> sigs, preimages |-> a.preimages, template |-> "none",
     lock_time |-> IF a.absolute = <<>> THEN 0 ELSE a.absolute[1],
     sequence |-> IF a.relative = <<>> THEN -2 ELSE a.relative[1],
     raw_pk |-> {}, raw_x_only |-> {}, raw_sigs |-> {}]
=============================================================================
