-------------------------------- MODULE Spend --------------------------------
(***************************************************************************)
(* Spending an output: a program builds an expression, collects assets for *)
(* a transaction and asks Miniscript::satisfy or satisfy_malleable (mod.rs) *)
(* for a witness.  What it gets is compared with the execution of the      *)
(* encoded script.                                                         *)
(***************************************************************************)
EXTENDS Construct, Script, SatData

CONSTANTS
    LockTimes,         \* the transaction's nLockTime
    Sequences,         \* the input's nSequence
    Templates,         \* the transaction's template hash
    RawLookups         \* the lookups by key hash: pairs of functions of the satisfier

VARIABLES
    assets,            \* what the satisfier was given
    mode,              \* "none", "satisfy" or "satisfy_malleable"
    sat                \* the satisfaction that was returned

svars == <<cvars, assets, mode, sat>>

KeyFrags == {"PkK", "PkH", "RawPkH", "Multi", "MultiA"}
ArgsOf(frags) ==
    UNION {Range(ast[i].args) : i \in {j \in DOMAIN ast : ast[j].frag \in frags}}
KeysOf == ArgsOf(KeyFrags)
HashesOf == ArgsOf(HashFrags)

\* Names are either keys or hashes; a locktime is not 0.  An input with an
\* absolute locktime is not final, and keys can be looked up by their hashes.
SpendAssumption ==
    \A l \in LeafTerms :
        /\ l[3] \in Seq(Range(l[3]))
        /\ l[1] \in KeyFrags \cup HashFrags \cup {"TxTemplate"} => l[3] # <<>>
        /\ l[1] \in KeyFrags => Range(l[3]) \subseteq Keys
        /\ l[1] \in HashFrags \cup {"TxTemplate"} => Range(l[3]) \cap Keys = {}
        /\ l[1] \in HashFrags => "zeros" \notin Range(l[3])
        /\ l[1] \in {"After", "Older"} => l[2] \in Nat \ {0}
        /\ l[1] = "After" => -1 \notin Sequences
        /\ l[1] = "RawPkH" => Ctx # "Tap" /\ \A raw \in RawLookups : "pk" \in raw

ASSUME SpendAssumed == SpendAssumption

\* A satisfier over a map from keys, or from key hashes, to signatures; the
\* third kind only knows key hashes and serves Tapscript (satisfy.rs).
Assets(sigs, raw, preimages, lock_time, sequence, template) ==
    [sigs |-> sigs, preimages |-> preimages, lock_time |-> lock_time,
     sequence |-> sequence, template |-> template,
     raw_pk |-> IF "pk" \in raw THEN KeysOf ELSE {},
     raw_x_only |-> IF "x_only" \in raw THEN KeysOf ELSE {},
     raw_sigs |-> IF "sigs" \in raw THEN sigs ELSE {}]

SpendInit ==
    /\ ConstructInit
    /\ assets = [sigs |-> {}, preimages |-> {}, lock_time |-> 0, sequence |-> 0,
                 template |-> "none", raw_pk |-> {}, raw_x_only |-> {}, raw_sigs |-> {}]
    /\ mode = "none"
    /\ sat = Satisfaction(Unavailable, FALSE)

Build == mode = "none" /\ ConstructNext /\ UNCHANGED <<assets, mode, sat>>

Ask(name, mall) ==
    /\ mode = "none"
    /\ Built
    /\ \E sigs \in SUBSET KeysOf, preimages \in SUBSET HashesOf, raw \in RawLookups,
          lock_time \in LockTimes, sequence \in Sequences, template \in Templates :
            assets' = Assets(sigs, raw, preimages, lock_time, sequence, template)
    /\ mode' = name
    /\ sat' = satisfy(ast, roots[1], assets', mall)
    /\ UNCHANGED cvars

Satisfy == Ask("satisfy", FALSE)
SatisfyMalleable == Ask("satisfy_malleable", TRUE)

SpendNext == Build \/ Satisfy \/ SatisfyMalleable

SpendSpec == SpendInit /\ [][SpendNext]_svars

-----------------------------------------------------------------------------
(* analyzable.rs.  The expressions of the runs do not mix heights with     *)
(* times; a key hash is not a key.                                         *)

root_ty == ast[roots[1]].ty

has_repeated_keys ==
    \E i, j \in DOMAIN ast : \E x \in DOMAIN ast[i].args, y \in DOMAIN ast[j].args :
        /\ {ast[i].frag, ast[j].frag} \subseteq KeyFrags \ {"RawPkH"}
        /\ <<i, x>> # <<j, y>> /\ ast[i].args[x] = ast[j].args[y]

sanity_check ==
    /\ root_ty.mall.safe /\ root_ty.mall.non_malleable /\ ~has_repeated_keys
    /\ within_resource_limits(data(ast, roots[1]))

-----------------------------------------------------------------------------

script == encode(ast, roots[1])

Satisfied == mode # "none" /\ sat.stack.tag = "Stack"

\* What anyone can put in a witness; two strings that are no preimage.
Public ==
    {PushZero, PushOne, HashDissatisfaction, <<"pre", "other">>}
        \cup {Pubkey(k) : k \in KeysOf}

\* What the holder of the assets can put in a witness.
Holder == Public \cup {Sig(k) : k \in assets.sigs} \cup {Preimage(h) : h \in assets.preimages}

\* What a third party can put in a witness once it has seen the witness w.
ThirdParty(w) ==
    Public \cup {Preimage(h) : h \in HashesOf} \cup {e \in Range(w) : e[1] = "sig"}

Unmalleable(w) == witnesses(script, ThirdParty(w), assets) = {w}

(* What the satisfier returns is a witness: the script accepts it.  On the  *)
(* way no assertion of the satisfier fails, and it can complete the         *)
(* template it has chosen.                                                  *)
SatisfierSound ==
    /\ ~sat.panic
    /\ Satisfied => accepts(script, sat.stack.items, assets)

(* The malleable satisfier finds a witness whenever one exists.             *)
MalleableComplete ==
    mode = "satisfy_malleable" /\ witnesses(script, Holder, assets) # {}
        => sat.stack.tag = "Stack"

(* The non-malleable satisfier finds a witness of a sane expression         *)
(* whenever one exists that a third party could not replace.                *)
NonMalleableComplete ==
    mode = "satisfy" /\ sanity_check
    /\ (\E w \in witnesses(script, Holder, assets) : Unmalleable(w))
        => sat.stack.tag = "Stack"

(* A third party that sees the witness of a sane expression, and knows all  *)
(* preimages, cannot make another one for the same transaction.             *)
NonMalleable ==
    mode = "satisfy" /\ Satisfied /\ sanity_check => Unmalleable(sat.stack.items)

(* The timelocks that a non-malleable satisfaction of a sane expression     *)
(* reports are enough: a transaction with just these locktimes is accepted  *)
(* with the witness.                                                        *)
SaneTimelocksReported ==
    mode = "satisfy" /\ Satisfied /\ sanity_check =>
        accepts(script, sat.stack.items,
                [assets EXCEPT !.lock_time = sat.absolute_timelock,
                               !.sequence = IF sat.relative_timelock = 0 THEN -2
                                            ELSE sat.relative_timelock])

\* Where the announced sizes fall short.  The satisfier finds a
\* dissatisfaction of a child of or_i for which no size is announced: an
\* and_v whose second child has one.
OrIForgets(d) ==
    LET t == Satisfactions(ast, assets, root_ty.mall.safe, mode = "satisfy_malleable")
    IN  \E i \in DOMAIN ast : \E j \in Range(ast[i].subs) :
            ast[i].frag = "OrI" /\ d[j].dis = NoData /\ t[j].dis.stack.tag = "Stack"

\* A threshold counts one satisfaction too many, which makes it impossible
\* when a child has none, or too small when satisfying it is cheaper than
\* dissatisfying it.
ThreshForgets(d, field) ==
    \E i \in DOMAIN ast : \E j \in Range(ast[i].subs) :
        /\ ast[i].frag = "Thresh"
        /\ \/ d[j].sat = NoData
           \/ ast[i].k < Len(ast[i].subs) /\ d[j].sat[1][field] < d[j].dis[1][field]

\* d: is counted one byte short, and so is an uncompressed key behind a hash.
ByteShort ==
    \E i \in DOMAIN ast :
        \/ ast[i].frag = "DupIf"
        \/ ast[i].frag \in {"PkH", "RawPkH"} /\ ast[i].args[1] \in Uncompressed

(* A witness is no larger than the worst case that the extra properties     *)
(* announce, from which resource limits are checked and weights computed,   *)
(* but for the cases above.                                                 *)
WitnessBounded ==
    Satisfied =>
        \A d \in {all_data(ast)} : \A bound \in {d[roots[1]].sat} :
            /\ ~ThreshForgets(d, "count") /\ ~OrIForgets(d) =>
                   bound # NoData /\ Len(sat.stack.items) <= bound[1].count
            /\ ~ThreshForgets(d, "size") /\ ~OrIForgets(d) /\ ~ByteShort =>
                   bound # NoData /\ witness_size(sat.stack.items) - 1 <= bound[1].size
=============================================================================
