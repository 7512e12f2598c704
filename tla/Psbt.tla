-------------------------------- MODULE Psbt --------------------------------
(***************************************************************************)
(* The PSBT roles of psbt/mod.rs and psbt/finalizer.rs: several parties    *)
(* fill in the inputs of a transaction, in any order, and finalize inputs, *)
(* one or all, with errors half way, until somebody extracts it.           *)
(*                                                                         *)
(* A script is a sequence of paths, cheapest first.  A path needs          *)
(* signatures, public keys behind hashes, locktimes and possibly a         *)
(* template: the commitment of OP_CHECKTEMPLATEVERIFY to the transaction   *)
(* with all its scriptSigs, which changes as other inputs become final.    *)
(***************************************************************************)
EXTENDS Integers, Sequences, SequencesExt

CONSTANTS
    Txs,        \* the transactions, with the outputs they spend and what the
                \* other parties may add, which bounds the model
    Paths       \* per script: its paths

\* sanity_check refuses a transaction without inputs.  Only native witness
\* scripts have templates: top_level_checks refuses a bare script with one, and
\* in P2SH the template would commit to a scriptSig with its own hash.
ASSUME TxsAssumption ==
    \A t \in Txs :
        /\ Len(t.spent) \in Nat \ {0} /\ DOMAIN t.spent = 1..Len(t.spent)
        /\ \A i \in DOMAIN t.spent :
              /\ t.spent[i].kind \in
                    {"pk", "pkh", "wpkh", "wsh", "sh", "shwpkh", "shwsh", "bare", "tr"}
              /\ t.spent[i].kind \in {"sh", "shwsh", "bare"} =>
                    \A p \in DOMAIN Paths[t.spent[i].script] :
                        Paths[t.spent[i].script][p].template = <<>>
              /\ t.spent[i].kind \in {"wsh", "sh", "shwsh", "bare"} =>
                    t.spent[i].script \in DOMAIN Paths
              /\ t.spent[i].kind = "tr" =>
                    LET leaves == t.spent[i].leaves
                    IN  /\ Len(leaves) \in Nat /\ DOMAIN leaves = 1..Len(leaves)
                        /\ \A j \in DOMAIN leaves : leaves[j] \in DOMAIN Paths

ASSUME PathsAssumption ==
    \A s \in DOMAIN Paths :
        /\ Len(Paths[s]) \in Nat /\ DOMAIN Paths[s] = 1..Len(Paths[s])
        /\ \A p \in DOMAIN Paths[s] : Paths[s][p].size \in Nat

VARIABLES
    tx,         \* unsigned_tx and the outputs it spends, never changed
    inputs,     \* the inputs of the PSBT
    call,       \* the call of finalize_mut in progress
    result      \* what the last call returned

vars == <<tx, inputs, call, result>>

None == <<>>
Some(x) == <<x>>

KeyKinds == {"pk", "pkh", "wpkh", "shwpkh"}

(***************************************************************************)
(* An input as the creator of the PSBT leaves it.                          *)
(***************************************************************************)
Fresh == [utxo |-> None, redeem_script |-> None, witness_script |-> None,
          keys |-> {}, tap_scripts |-> {}, sigs |-> {}, sighash_type |-> None,
          final_script_sig |-> None, final_script_witness |-> None]

Final(inp) == inp.final_script_sig # None \/ inp.final_script_witness # None

unwrap_or_default(o) == IF o = None THEN <<>> ELSE o[1]

KeysOf(s) == UNION {Paths[s][p].sigs \cup Paths[s][p].hashed : p \in DOMAIN Paths[s]}
ScriptKeys(o) ==
    IF o.kind \in KeyKinds THEN {}
    ELSE IF o.kind = "tr" THEN UNION {KeysOf(o.leaves[j]) : j \in DOMAIN o.leaves}
    ELSE KeysOf(o.script)

NoCall == [op |-> "idle", mall |-> FALSE, pass |-> 1, index |-> 1, errors |-> <<>>,
           before |-> <<>>]

Returned(op, errors, mall, before) ==
    [op |-> op, errors |-> errors, mall |-> mall, before |-> before, tx |-> None]

-----------------------------------------------------------------------------
(* Transactions: the commitment of a template, and what the parts of an     *)
(* input commit to.                                                         *)

get_ctv_hash(script_sigs, i) ==
    <<i, IF \A j \in DOMAIN script_sigs : script_sigs[j] = <<>> THEN <<>> ELSE script_sigs>>

\* The scriptSigs of the transaction with the final ones and ss for input i.
Candidate(ins, i, ss) ==
    [j \in DOMAIN ins |->
        IF j = i THEN ss ELSE unwrap_or_default(ins[j].final_script_sig)]

Redeem(o) ==
    CASE o.kind = "shwpkh" -> <<"wpkh", o.key>>
      [] o.kind = "shwsh" -> <<"wsh", o.script>>
      [] OTHER -> <<"ms", o.script>>

check_sighash_type(inp, sig) == inp.sighash_type \in {None, Some(sig.flag)}

Insane(ins) ==
    {i \in DOMAIN ins : \E sig \in ins[i].sigs : ~check_sighash_type(ins[i], sig)}
sanity_check(ins) == Insane(ins) = {}

\* The inputs whose output is not known.
Unknown(ins) == {i \in DOMAIN ins : ins[i].utxo = None}

First(S) == CHOOSE i \in S : \A j \in S : i <= j

-----------------------------------------------------------------------------
(* The satisfier of an input: PsbtInputSatisfier.  `leaf' says what a       *)
(* signature signs: "ecdsa", "key" for a Taproot key path or a leaf.        *)

check_after(i, n) == tx.sequence[i] # -1 /\ n <= tx.lock_time

check_older(i, n) == tx.version >= 2 /\ n <= tx.sequence[i]

\* Wrong: the scriptSigs of the unsigned transaction, all empty.
check_tx_template_unsigned(ins, i, hash) ==
    get_ctv_hash([j \in DOMAIN ins |-> <<>>], i) = hash

check_tx_template(ins, i, hash) ==
    get_ctv_hash(Candidate(ins, i, unwrap_or_default(ins[i].final_script_sig)), i) = hash

SigsFor(inp, keys, leaf) == {sig \in inp.sigs : sig.key \in keys /\ sig.leaf = leaf}

\* substitute_raw_pkh finds keys in all inputs, bip32_derivation or
\* tap_key_origins; the satisfier in its own input.  The script of a plain P2SH
\* output is not substituted.
IsTr(i) == tx.spent[i].kind = "tr"
KnownKeys(ins, i) ==
    IF tx.spent[i].kind = "sh" THEN ins[i].keys
    ELSE UNION {ins[j].keys : j \in {j \in DOMAIN ins : IsTr(j) = IsTr(i)}}

Provided(ins, i, path, leaf, mall) ==
    /\ path.mall => mall
    /\ {sig.key : sig \in SigsFor(ins[i], path.sigs, leaf)} = path.sigs
    /\ path.hashed \subseteq KnownKeys(ins, i) \cup path.sigs
    /\ path.after > 0 => check_after(i, path.after)
    /\ path.older > 0 => check_older(i, path.older)

Available(ins, i, path, leaf, mall) ==
    /\ Provided(ins, i, path, leaf, mall)
    /\ path.template # None => check_tx_template(ins, i, path.template[1])

\* Miniscript::satisfy and satisfy_malleable: the cheapest path, if any.
satisfy(ins, i, s, leaf, mall) ==
    LET P == {p \in DOMAIN Paths[s] : Available(ins, i, Paths[s][p], leaf, mall)}
    IN  IF P = {} THEN None
        ELSE Some(<<"sat", First(P), SigsFor(ins[i], Paths[s][First(P)].sigs, leaf)>>)

-----------------------------------------------------------------------------
(* Interpretation of an input with a scriptSig and a witness.               *)

PublicKey(k, leaf, stack) == Some([inner |-> "key", name |-> k, leaf |-> leaf, stack |-> stack])
Script(s, leaf, stack) == Some([inner |-> "script", name |-> s, leaf |-> leaf, stack |-> stack])

\* A key or a script on top of a stack that must have the hash of the output.
TopKey(o, stack) ==
    IF stack # <<>> /\ Last(stack) = <<"key", o.key>>
    THEN PublicKey(o.key, "ecdsa", Front(stack)) ELSE None
TopScript(o, stack) ==
    IF stack # <<>> /\ Last(stack) = <<"script", o.script>>
    THEN Script(o.script, "ecdsa", Front(stack)) ELSE None

\* What is checked and with which stack; None is an error.
from_txdata(o, ss, wit) ==
    CASE o.kind = "pk" -> IF wit = <<>> THEN PublicKey(o.key, "ecdsa", ss) ELSE None
      [] o.kind = "pkh" -> IF wit = <<>> THEN TopKey(o, ss) ELSE None
      [] o.kind = "wpkh" -> IF ss = <<>> THEN TopKey(o, wit) ELSE None
      [] o.kind = "wsh" -> IF ss = <<>> THEN TopScript(o, wit) ELSE None
      [] o.kind = "bare" -> IF wit = <<>> THEN Script(o.script, "ecdsa", ss) ELSE None
      [] o.kind = "sh" ->
            IF wit = <<>> /\ ss # <<>> /\ Last(ss) = <<"redeem", Redeem(o)>>
            THEN Script(o.script, "ecdsa", Front(ss)) ELSE None
      [] o.kind = "shwpkh" ->
            IF ss = <<<<"redeem", Redeem(o)>>>> THEN TopKey(o, wit) ELSE None
      [] o.kind = "shwsh" ->
            IF ss = <<<<"redeem", Redeem(o)>>>> THEN TopScript(o, wit) ELSE None
      [] o.kind = "tr" ->
            IF ss # <<>> \/ wit = <<>> THEN None
            ELSE IF Len(wit) = 1 THEN PublicKey(o.key, "key", wit)
            ELSE LET l == Last(wit)[2]
                 IN  IF /\ Last(wit)[1] = "control"
                        /\ Last(Front(wit)) = <<"script", l>>
                        /\ \E j \in DOMAIN o.leaves : o.leaves[j] = l
                     THEN Script(l, l, Front(Front(wit))) ELSE None

\* The signatures and the path that a stack provides.
Sigs(stack) == IF stack[1][1] = "sig" THEN {stack[1][2]} ELSE stack[1][3]
PathOf(x) == Paths[x.name][x.stack[1][2]]

\* Is there such a path, and do the signatures fit?
Signed(x) ==
    /\ Len(x.stack) = 1
    /\ x.stack[1][1] = (IF x.inner = "key" THEN "sig" ELSE "sat")
    /\ x.inner = "script" => x.stack[1][2] \in DOMAIN Paths[x.name]
    /\ \A sig \in Sigs(x.stack) : sig.good /\ sig.leaf = x.leaf
    /\ {sig.key : sig \in Sigs(x.stack)} = (IF x.inner = "key" THEN {x.name} ELSE PathOf(x).sigs)

\* Iter over the constraints of input i, and what interpreter_inp_check checks
\* again because the interpreter knows neither the version nor, for an
\* absolute locktime, the sequence number.
interpreter_inp_check(ins, i, ss, wit) ==
    LET x == from_txdata(tx.spent[i], ss, wit)
    IN  /\ x # None
        /\ Signed(x[1])
        /\ \A sig \in Sigs(x[1].stack) : check_sighash_type(ins[i], sig)
        /\ x[1].inner = "script" =>
              LET path == PathOf(x[1])
              IN  /\ path.after > 0 => path.after <= tx.lock_time /\ check_after(i, path.after)
                  /\ path.older > 0 => path.older <= tx.sequence[i] /\ check_older(i, path.older)
                  /\ path.template # None =>
                        path.template[1] = get_ctv_hash(Candidate(ins, i, ss), i)

\* The inputs at which interpreter_check fails: with the first one, if any.
Rejected(ins) ==
    {i \in DOMAIN ins :
        ~interpreter_inp_check(ins, i, unwrap_or_default(ins[i].final_script_sig),
                               unwrap_or_default(ins[i].final_script_witness))}

interpreter_check(ins) ==
    IF ~sanity_check(ins) THEN <<First(Insane(ins))>>
    ELSE IF Unknown(ins) # {} THEN <<First(Unknown(ins))>>
    ELSE IF Rejected(ins) # {} THEN <<First(Rejected(ins))>> ELSE <<>>

-----------------------------------------------------------------------------
(* Finalization of an input.                                                *)

\* get_descriptor: the scripts in the input fit the output, and for the hash of
\* a key there is a signature of it.
get_descriptor(ins, i) ==
    LET o == tx.spent[i]
        inp == ins[i]
        has_sig == SigsFor(inp, {o.key}, "ecdsa") # {}
    IN  CASE o.kind = "pk" -> TRUE
          [] o.kind \in {"pkh", "wpkh"} -> has_sig
          [] o.kind = "wsh" -> inp.redeem_script = None /\ inp.witness_script = Some(o.script)
          [] o.kind = "shwsh" -> /\ inp.redeem_script = Some(Redeem(o))
                                 /\ inp.witness_script = Some(o.script)
          [] o.kind = "shwpkh" -> inp.redeem_script = Some(Redeem(o)) /\ has_sig
          [] o.kind = "sh" -> inp.redeem_script = Some(Redeem(o)) /\ inp.witness_script = None
          [] o.kind = "bare" -> inp.redeem_script = None /\ inp.witness_script = None

Signature(ins, i, leaf) ==
    LET S == SigsFor(ins[i], {tx.spent[i].key}, leaf)
    IN  IF S = {} THEN None ELSE Some(<<"sig", CHOOSE sig \in S : TRUE>>)

Satisfaction(ss, wit) == Some([script_sig |-> ss, witness |-> wit])

\* The scriptSig and the witness that spend an output with a stack.
Unlock(o, stack) ==
    CASE o.kind \in {"pk", "bare"} -> Satisfaction(stack, <<>>)
      [] o.kind = "pkh" -> Satisfaction(stack \o <<<<"key", o.key>>>>, <<>>)
      [] o.kind = "wpkh" -> Satisfaction(<<>>, stack \o <<<<"key", o.key>>>>)
      [] o.kind = "wsh" -> Satisfaction(<<>>, stack \o <<<<"script", o.script>>>>)
      [] o.kind = "sh" -> Satisfaction(stack \o <<<<"redeem", Redeem(o)>>>>, <<>>)
      [] o.kind = "shwpkh" ->
            Satisfaction(<<<<"redeem", Redeem(o)>>>>, stack \o <<<<"key", o.key>>>>)
      [] o.kind = "shwsh" ->
            Satisfaction(<<<<"redeem", Redeem(o)>>>>, stack \o <<<<"script", o.script>>>>)

\* get_satisfaction of the descriptor.
get_satisfaction(ins, i, mall) ==
    LET o == tx.spent[i]
        stack == IF o.kind \in KeyKinds THEN Signature(ins, i, "ecdsa")
                 ELSE satisfy(ins, i, o.script, "ecdsa", mall)
    IN  IF stack = None THEN None ELSE Unlock(o, stack)

\* The witness of a leaf.
UnlockLeaf(leaf, stack) ==
    Satisfaction(<<>>, stack \o <<<<"script", leaf>>, <<"control", leaf>>>>)

\* construct_tap_witness: a key spend, or the smallest witness of a leaf, the
\* last one of those with the same size.
Leaves(ins, i) == {j \in DOMAIN tx.spent[i].leaves : tx.spent[i].leaves[j] \in ins[i].tap_scripts}
LeafSat(ins, i, j, mall) ==
    satisfy(ins, i, tx.spent[i].leaves[j], tx.spent[i].leaves[j], mall)
LeafSize(ins, i, j, mall) ==
    Paths[tx.spent[i].leaves[j]][LeafSat(ins, i, j, mall)[1][2]].size

Better(a, j, b, l) == a < b \/ (a = b /\ l <= j)
MinWitness(ins, i, J, mall) ==
    CHOOSE j \in J : \A l \in J :
        Better(LeafSize(ins, i, j, mall), j, LeafSize(ins, i, l, mall), l)
LeafWitness(ins, i, j, mall) ==
    UnlockLeaf(tx.spent[i].leaves[j], LeafSat(ins, i, j, mall))

construct_tap_witness(ins, i, mall) ==
    LET key == Signature(ins, i, "key")
        J == {j \in Leaves(ins, i) : LeafSat(ins, i, j, mall) # None}
    IN  IF key # None THEN Satisfaction(<<>>, key)
        ELSE IF J = {} THEN None
        ELSE LeafWitness(ins, i, MinWitness(ins, i, J, mall), mall)

\* In Tapscript a signature is found by the hash of its key, but the key that
\* the template then needs is not: satisfy panics.
Panics(ins, i, mall) ==
    /\ IsTr(i) /\ ins[i].utxo # None /\ ~Final(ins[i])
    /\ Signature(ins, i, "key") = None
    /\ \E j \in Leaves(ins, i) :
          LET x == LeafSat(ins, i, j, mall)
          IN  /\ x # None
              /\ ~(Paths[tx.spent[i].leaves[j]][x[1][2]].hashed \subseteq KnownKeys(ins, i))

\* finalize_input_helper and finalize_input: the input that replaces ins[i],
\* and the inputs that the errors name, at most one.
Outcome(inp, errors) == [input |-> inp, errors |-> errors]

Cleared(inp, sat) ==
    [Fresh EXCEPT !.utxo = inp.utxo,
                  !.final_script_sig = IF sat.script_sig = <<>> THEN None
                                       ELSE Some(sat.script_sig),
                  !.final_script_witness = IF sat.witness = <<>> THEN None
                                           ELSE Some(sat.witness)]

Satisfy(ins, i, mall) ==
    IF IsTr(i) THEN construct_tap_witness(ins, i, mall)
    ELSE IF get_descriptor(ins, i) THEN get_satisfaction(ins, i, mall) ELSE None

\* Wrong: the fields are taken out of the input before the check.
finalize_input_takes_first(ins, i, mall) ==
    LET inp == ins[i]
        sat == IF inp.utxo = None THEN None ELSE Satisfy(ins, i, mall)
    IN  IF Final(inp) THEN Outcome(inp, <<>>)
        ELSE IF sat = None THEN Outcome(inp, <<i>>)
        ELSE IF Unknown(ins) # {} THEN Outcome(inp, <<First(Unknown(ins))>>)
        ELSE Outcome(Cleared(inp, sat[1]),
                     IF interpreter_inp_check(ins, i, sat[1].script_sig, sat[1].witness)
                     THEN <<>> ELSE <<i>>)

\* Wrong: an input that is final already is satisfied again.
finalize_input_again(ins, i, mall) ==
    LET inp == ins[i]
        sat == IF inp.utxo = None THEN None ELSE Satisfy(ins, i, mall)
    IN  IF sat = None THEN Outcome(inp, <<i>>)
        ELSE IF Unknown(ins) # {} THEN Outcome(inp, <<First(Unknown(ins))>>)
        ELSE IF ~interpreter_inp_check(ins, i, sat[1].script_sig, sat[1].witness)
             THEN Outcome(inp, <<i>>)
        ELSE Outcome(Cleared(inp, sat[1]), <<>>)

finalize_input(ins, i, mall) ==
    LET inp == ins[i]
        sat == IF Final(inp)
               THEN Satisfaction(unwrap_or_default(inp.final_script_sig),
                                 unwrap_or_default(inp.final_script_witness))
               ELSE IF inp.utxo = None THEN None ELSE Satisfy(ins, i, mall)
    IN  IF sat = None THEN Outcome(inp, <<i>>)
        ELSE IF Unknown(ins) # {} THEN Outcome(inp, <<First(Unknown(ins))>>)
        ELSE IF ~interpreter_inp_check(ins, i, sat[1].script_sig, sat[1].witness)
             THEN Outcome(inp, <<i>>)
        ELSE IF Final(inp) THEN Outcome(inp, <<>>)
        ELSE Outcome(Cleared(inp, sat[1]), <<>>)

-----------------------------------------------------------------------------
(* The calls.  finalize_mut holds the PSBT until it returns.                *)

Init ==
    /\ tx \in Txs
    /\ inputs = [i \in DOMAIN tx.spent |-> Fresh]
    /\ call = NoCall
    /\ result = Returned("none", <<>>, FALSE, <<>>)

Idle == call.op = "idle"

\* What other parties do between the calls.
Edit(i, inp) ==
    /\ Idle
    /\ inputs' = [inputs EXCEPT ![i] = inp]
    /\ result' = Returned("edit", <<>>, FALSE, <<>>)
    /\ UNCHANGED <<tx, call>>

AddUtxo(i) ==
    /\ inputs[i].utxo = None
    /\ Edit(i, [inputs[i] EXCEPT !.utxo = Some(tx.spent[i].field)])

Sign(i, sig) ==
    /\ SigsFor(inputs[i], {sig.key}, sig.leaf) = {}
    /\ Edit(i, [inputs[i] EXCEPT !.sigs = @ \cup {sig}])

DeclareSighash(i, flag) ==
    /\ inputs[i].sighash_type = None
    /\ Edit(i, [inputs[i] EXCEPT !.sighash_type = Some(flag)])

\* A combiner copies final data from another copy of the PSBT.
Combine(i, sat) ==
    /\ ~Final(inputs[i])
    /\ sat.script_sig # <<>> \/ sat.witness # <<>>
    /\ Edit(i, [inputs[i] EXCEPT
                   !.final_script_sig = IF sat.script_sig = <<>> THEN None
                                        ELSE Some(sat.script_sig),
                   !.final_script_witness = IF sat.witness = <<>> THEN None
                                            ELSE Some(sat.witness)])

\* An updater that knows scripts, right or wrong, and no keys.
AddScripts(i, redeem, witness, leaves) ==
    Edit(i, [inputs[i] EXCEPT !.redeem_script = redeem, !.witness_script = witness,
                              !.tap_scripts = @ \cup leaves])

\* update_input_with_descriptor with the descriptor of the output.
update_input_with_descriptor(i) ==
    LET o == tx.spent[i]
        inp == inputs[i]
        keys == ScriptKeys(o) \cup IF o.kind \in KeyKinds \cup {"tr"} THEN {o.key} ELSE {}
    IN  /\ inp.utxo # None
        /\ inp.utxo = Some("witness") => o.kind \notin {"pk", "pkh", "sh", "bare"}
        /\ Edit(i, [inp EXCEPT
                !.keys = @ \cup keys,
                !.tap_scripts = IF o.kind = "tr" THEN @ \cup {o.leaves[j] : j \in DOMAIN o.leaves}
                                ELSE @,
                !.redeem_script = IF o.kind \in {"sh", "shwsh", "shwpkh"} THEN Some(Redeem(o))
                                  ELSE @,
                !.witness_script = IF o.kind \in {"wsh", "shwsh"} THEN Some(o.script) ELSE @])

\* finalize_inp_mut and finalize_inp_mall_mut.
finalize_inp_mut(i, mall) ==
    /\ Idle
    /\ IF ~sanity_check(inputs)
       THEN /\ result' = Returned("finalize_inp", <<First(Insane(inputs))>>, mall, inputs)
            /\ UNCHANGED inputs
       ELSE LET r == finalize_input(inputs, i, mall)
            IN  /\ ~Panics(inputs, i, mall)
                /\ inputs' = [inputs EXCEPT ![i] = r.input]
                /\ result' = Returned("finalize_inp", r.errors, mall, inputs)
    /\ UNCHANGED <<tx, call>>

\* finalize_mut and finalize_mall_mut, up to the loop.
finalize_mut(mall) ==
    /\ Idle
    /\ IF ~sanity_check(inputs)
       THEN /\ result' = Returned("insane", <<First(Insane(inputs))>>, mall, inputs)
            /\ UNCHANGED call
       ELSE /\ call' = [NoCall EXCEPT !.op = "finalize", !.mall = mall, !.before = inputs]
            /\ result' = Returned("none", <<>>, mall, <<>>)
    /\ UNCHANGED <<tx, inputs>>

\* Wrong: the passes are swapped.
native_witness_first(i) == tx.spent[i].kind \notin {"wpkh", "wsh", "tr"}

native_witness(i) == tx.spent[i].kind \in {"wpkh", "wsh", "tr"}

\* The input that a turn of the loop finalizes.
Due(i, pass) == inputs[i].utxo # None /\ native_witness(i) = (pass = 2)

Turn ==
    /\ call.op = "finalize" /\ call.index <= Len(tx.spent)
    /\ LET i == call.index
           r == finalize_input(inputs, i, call.mall)
           errors == IF Due(i, call.pass) THEN r.errors
                     ELSE IF inputs[i].utxo = None /\ call.pass = 1 THEN <<i>> ELSE <<>>
           last == i = Len(tx.spent) /\ call.pass = 1
       IN  /\ Due(i, call.pass) => ~Panics(inputs, i, call.mall)
           /\ inputs' = IF Due(i, call.pass) THEN [inputs EXCEPT ![i] = r.input] ELSE inputs
           /\ call' = [call EXCEPT !.errors = @ \o errors,
                                   !.pass = IF last THEN 2 ELSE @,
                                   !.index = IF last THEN 1 ELSE @ + 1]
    /\ UNCHANGED <<tx, result>>

Return ==
    /\ call.op = "finalize" /\ call.index > Len(tx.spent)
    /\ result' = Returned("finalize", IF call.errors = <<>> THEN interpreter_check(inputs)
                                      ELSE call.errors, call.mall, call.before)
    /\ call' = NoCall
    /\ UNCHANGED <<tx, inputs>>

Panic ==
    /\ \E i \in DOMAIN inputs, mall \in BOOLEAN :
          /\ Panics(inputs, i, mall) /\ sanity_check(inputs)
          /\ Idle \/ (call.op = "finalize" /\ call.index = i /\ call.mall = mall
                      /\ Due(i, call.pass))
    /\ call' = [NoCall EXCEPT !.op = "panic"]
    /\ UNCHANGED <<tx, inputs, result>>

\* extract: the scriptSigs and witnesses of the transaction.
Extracted(ins) ==
    [i \in DOMAIN ins |-> <<unwrap_or_default(ins[i].final_script_sig),
                            unwrap_or_default(ins[i].final_script_witness)>>]

Missing(ins) == {i \in DOMAIN ins : ~Final(ins[i])}

\* Wrong: the final data is copied without a check.
extract_errors_copies(ins) ==
    IF ~sanity_check(ins) THEN <<First(Insane(ins))>>
    ELSE IF Missing(ins) # {} THEN <<First(Missing(ins))>>
    ELSE <<>>

extract_errors(ins) ==
    IF ~sanity_check(ins) THEN <<First(Insane(ins))>>
    ELSE IF Missing(ins) # {} THEN <<First(Missing(ins))>>
    ELSE interpreter_check(ins)

extract ==
    /\ Idle
    /\ result' = [Returned("extract", extract_errors(inputs), FALSE, inputs) EXCEPT
                     !.tx = IF extract_errors(inputs) = <<>> THEN Some(Extracted(inputs))
                            ELSE None]
    /\ UNCHANGED <<tx, inputs, call>>

-----------------------------------------------------------------------------

\* The ways to spend output i with the signatures in S along paths in ok.
Spends(i, S, ok(_, _, _)) ==
    LET o == tx.spent[i]
        with(keys, leaf) == {sig \in S : sig.key \in keys /\ sig.leaf = leaf}
        sats(s, leaf) ==
            {<<<<"sat", p, with(Paths[s][p].sigs, leaf)>>>> :
                p \in {q \in DOMAIN Paths[s] : ok(s, q, leaf)}}
        sig(leaf) == {<<<<"sig", x>>>> : x \in with({o.key}, leaf)}
    IN  IF o.kind = "tr"
        THEN {Satisfaction(<<>>, x)[1] : x \in sig("key")}
             \cup UNION {{UnlockLeaf(o.leaves[j], x)[1] : x \in sats(o.leaves[j], o.leaves[j])} :
                           j \in DOMAIN o.leaves}
        ELSE {Unlock(o, x)[1] : x \in IF o.kind \in KeyKinds THEN sig("ecdsa")
                                      ELSE sats(o.script, "ecdsa")}

\* What another party may have made final: signatures all valid or all invalid,
\* any path.
Foreign(i) ==
    UNION {Spends(i, {x[2] : x \in {x \in tx.sigs : x[1] = i /\ x[2].good = g}},
                  LAMBDA s, p, leaf : TRUE) : g \in BOOLEAN}

Next ==
    \/ \E i \in DOMAIN inputs : AddUtxo(i)
    \/ \E x \in tx.sigs : Sign(x[1], x[2])
    \/ \E x \in tx.sighashes : DeclareSighash(x[1], x[2])
    \/ \E i \in tx.copies : \E sat \in Foreign(i) : Combine(i, sat)
    \/ \E x \in tx.scripts : AddScripts(x[1], x[2], x[3], x[4])
    \/ \E i \in DOMAIN inputs : update_input_with_descriptor(i)
    \/ \E i \in DOMAIN inputs, mall \in BOOLEAN : finalize_inp_mut(i, mall)
    \/ \E mall \in BOOLEAN : finalize_mut(mall)
    \/ Turn
    \/ Return
    \/ Panic
    \/ extract

Spec == Init /\ [][Next]_vars

-----------------------------------------------------------------------------
(* Properties.                                                              *)

\* The rules of the network for an input of a transaction.
Valid(final, i) ==
    LET x == from_txdata(tx.spent[i], final[i][1], final[i][2])
        path == PathOf(x[1])
    IN  /\ x # None
        /\ Signed(x[1])
        /\ x[1].inner = "script" =>
              /\ path.after > 0 => path.after <= tx.lock_time /\ tx.sequence[i] # -1
              /\ path.older > 0 => path.older <= tx.sequence[i] /\ tx.version >= 2
              /\ path.template # None =>
                    path.template[1] = get_ctv_hash([j \in DOMAIN final |-> final[j][1]], i)

(* What extract returns is a valid transaction, in whatever order and by    *)
(* whomever its inputs were made final: templates commit to the scriptSigs  *)
(* of all inputs, including those that became final later.                  *)
ExtractValid ==
    result.tx # None => \A i \in DOMAIN inputs : Valid(result.tx[1], i)

(* The two passes of finalize_all are enough: if no turn of its loop failed, *)
(* the complete transaction is valid, since the native inputs, which may     *)
(* commit to the scriptSigs of all inputs, come when all of those are fixed. *)
PassesSuffice ==
    call.op = "finalize" /\ call.index > Len(tx.spent) /\ call.errors = <<>> =>
        interpreter_check(inputs) = <<>>

\* finalize_mut returns `one error for each input that it cannot finalize',
\* if all outputs are known.
ErrorsNameInputs ==
    result.op = "finalize" /\ Unknown(inputs) = {} =>
        /\ Missing(inputs) \subseteq {result.errors[e] : e \in DOMAIN result.errors}
        /\ \A e, f \in DOMAIN result.errors : result.errors[e] = result.errors[f] => e = f

\* The ways to spend input i with what the PSBT provides.
Options(ins, i, mall) ==
    IF tx.spent[i].kind # "tr" /\ ~get_descriptor(ins, i) THEN {}
    ELSE Spends(i, ins[i].sigs,
                LAMBDA s, p, leaf : /\ Provided(ins, i, Paths[s][p], leaf, mall)
                                    /\ IsTr(i) => leaf \in ins[i].tap_scripts)

\* The signatures are valid, and each input knows the keys of its output.
Honest(ins) ==
    \A i \in DOMAIN ins :
        /\ ~Final(ins[i]) /\ ins[i].utxo # None
        /\ \A sig \in ins[i].sigs : sig.good
        /\ ScriptKeys(tx.spent[i]) \subseteq ins[i].keys

(* `Finalizes all inputs that it can finalize': if the data in the PSBT     *)
(* suffices for a transaction, finalize_mut makes one.  The first pass must *)
(* fix every scriptSig that a template of the second one commits to; it     *)
(* takes the cheapest one, whatever the templates say.                      *)
(* Otherwise there is one error for each input that is left.                *)
FinalizeComplete ==
    LET ins == result.before
        mall == result.mall
        all == [i \in DOMAIN ins |-> Options(ins, i, mall)]
    IN  /\ ErrorsNameInputs
        /\ result.op = "finalize" /\ result.errors # <<>> /\ Honest(ins) =>
            \A c \in [DOMAIN ins -> UNION {all[i] : i \in DOMAIN ins}] :
                (\A i \in DOMAIN ins :
                    /\ c[i] \in all[i]
                    /\ native_witness(i) \/ c[i].script_sig = Satisfy(ins, i, mall)[1].script_sig)
                => \E i \in DOMAIN ins :
                      ~Valid([j \in DOMAIN ins |-> <<c[j].script_sig, c[j].witness>>], i)

(* `The psbt is not mutated when the finalization fails', and otherwise     *)
(* only the input in question, which keeps its output and its final data.   *)
FinalizeInpAtomic ==
    result.op = "finalize_inp" =>
        \A i \in DOMAIN inputs :
            inputs[i] # result.before[i] =>
                /\ result.errors = <<>>
                /\ Final(inputs[i]) /\ ~Final(result.before[i])
                /\ inputs[i].utxo = result.before[i].utxo

Roles == INSTANCE PsbtRoles WITH
    final <- [i \in DOMAIN inputs |->
                IF Final(inputs[i]) THEN Some(Extracted(inputs)[i]) ELSE None],
    extracted <- result.tx

(* The final data of an input is written once, and a transaction is         *)
(* extracted from final data only.                                          *)
RolesKept == Roles!RolesSpec
=============================================================================
