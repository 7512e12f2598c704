---------------------------- MODULE Psbt_proofs ----------------------------
(***************************************************************************)
(* Proofs about Psbt, for all transactions and scripts: what is extracted  *)
(* is valid, final data is written once, and finalize_mut finalizes what   *)
(* can be finalized and names what it leaves.                              *)
(***************************************************************************)
EXTENDS Psbt, DataLemmas

-----------------------------------------------------------------------------
(* Every input has the fields of a fresh one, and the result of an          *)
(* extraction is about the inputs as they are.                              *)

Fields == DOMAIN Fresh

Shape == \A i \in DOMAIN inputs : DOMAIN inputs[i] = Fields

\* finalize_mut starts by forgetting the last result, and every other call
\* that changes the inputs replaces it.
ResultCurrent ==
    /\ call.op = "finalize" => result.tx = None
    /\ result.tx # None => /\ result.tx = Some(Extracted(inputs))
                           /\ extract_errors(inputs) = <<>>

ExtractInv == Shape /\ ResultCurrent

\* What every step leaves alone: the set of inputs and final data.
FinalKept ==
    /\ DOMAIN inputs' = DOMAIN inputs
    /\ \A i \in DOMAIN inputs : Final(inputs[i]) =>
          /\ inputs'[i].final_script_sig = inputs[i].final_script_sig
          /\ inputs'[i].final_script_witness = inputs[i].final_script_witness

(* finalize_input leaves a final input alone, and replaces another one by   *)
(* itself or by what is left of it.                                         *)
LEMMA FinalizeInput ==
    ASSUME NEW ins, NEW i, NEW mall
    PROVE  LET inp == finalize_input(ins, i, mall).input
           IN  /\ Final(ins[i]) => inp = ins[i]
               /\ DOMAIN ins[i] = Fields => DOMAIN inp = Fields
<1> DEFINE r == finalize_input(ins, i, mall)
<1>1. r.input = ins[i] \/ (~Final(ins[i]) /\ \E sat : r.input = Cleared(ins[i], sat))
  BY Zenon DEF finalize_input, Outcome
<1>2. \A sat : DOMAIN Cleared(ins[i], sat) = Fields
  BY DEF Cleared, Fields, Fresh
<1> HIDE DEF r
<1>3. Final(ins[i]) => r.input = ins[i]
  BY <1>1
<1>4. DOMAIN ins[i] = Fields => DOMAIN r.input = Fields
  BY <1>1, <1>2
<1> QED  BY <1>3, <1>4 DEF r

(* An edit of an input that keeps its fields and its final data.            *)
LEMMA EditKeeps ==
    ASSUME NEW i, NEW inp, Shape, Edit(i, inp),
           i \in DOMAIN inputs => /\ DOMAIN inp = Fields
                                  /\ Final(inputs[i]) =>
                                        /\ inp.final_script_sig = inputs[i].final_script_sig
                                        /\ inp.final_script_witness = inputs[i].final_script_witness
    PROVE  Shape' /\ FinalKept /\ result'.tx = None /\ call' = call /\ tx' = tx
<1>1. inputs' = [inputs EXCEPT ![i] = inp] /\ call' = call /\ tx' = tx
  BY DEF Edit
<1>2. result'.tx = None
  BY DEF Edit, Returned
<1>3. DOMAIN inputs' = DOMAIN inputs
  BY <1>1
<1>4. \A j \in DOMAIN inputs : inputs'[j] = IF j = i THEN inp ELSE inputs[j]
  BY <1>1
<1> QED  BY <1>1, <1>2, <1>3, <1>4 DEF Shape, FinalKept

(* A step in which an input is replaced by what finalize_input makes of it. *)
LEMMA FinalizeKeeps ==
    ASSUME NEW i, NEW mall, Shape,
           inputs' = [inputs EXCEPT ![i] = finalize_input(inputs, i, mall).input]
    PROVE  Shape' /\ FinalKept
<1> DEFINE inp == finalize_input(inputs, i, mall).input
<1>1. /\ Final(inputs[i]) => inp = inputs[i]
      /\ DOMAIN inputs[i] = Fields => DOMAIN inp = Fields
  BY FinalizeInput
<1>2. inputs' = [inputs EXCEPT ![i] = inp]
  OBVIOUS
<1> HIDE DEF inp
<1>3. DOMAIN inputs' = DOMAIN inputs
  BY <1>2
<1>4. \A j \in DOMAIN inputs : inputs'[j] = IF j = i THEN inp ELSE inputs[j]
  BY <1>2
<1> QED  BY <1>1, <1>3, <1>4 DEF Shape, FinalKept

(* Edits by other parties.                                                  *)
Edits ==
    \/ \E i \in DOMAIN inputs : AddUtxo(i)
    \/ \E x \in tx.sigs : Sign(x[1], x[2])
    \/ \E x \in tx.sighashes : DeclareSighash(x[1], x[2])
    \/ \E i \in tx.copies : \E sat \in Foreign(i) : Combine(i, sat)
    \/ \E x \in tx.scripts : AddScripts(x[1], x[2], x[3], x[4])
    \/ \E i \in DOMAIN inputs : update_input_with_descriptor(i)

(* The fields of an input.                                                  *)
LEMMA AllFields ==
    Fields = {"utxo", "redeem_script", "witness_script", "keys", "tap_scripts", "sigs",
              "sighash_type", "final_script_sig", "final_script_witness"}
BY DEF Fields, Fresh

(* Edits keep the fields and the final data of all inputs.                  *)
LEMMA EditsKeep ==
    ASSUME Shape, Edits
    PROVE  Shape' /\ FinalKept /\ result'.tx = None /\ call' = call /\ tx' = tx
<1> DEFINE Goal == Shape' /\ FinalKept /\ result'.tx = None /\ call' = call /\ tx' = tx
<1>1. ASSUME NEW i \in DOMAIN inputs, AddUtxo(i)  PROVE Goal
  <2> DEFINE inp == [inputs[i] EXCEPT !.utxo = Some(tx.spent[i].field)]
  <2>1. Edit(i, inp)
    BY <1>1 DEF AddUtxo
  <2>2. i \in DOMAIN inputs => DOMAIN inp = Fields
    BY AllFields DEF Shape
  <2>3. i \in DOMAIN inputs => /\ inp.final_script_sig = inputs[i].final_script_sig
                              /\ inp.final_script_witness = inputs[i].final_script_witness
    BY AllFields DEF Shape
  <2> HIDE DEF inp
  <2> QED  BY <2>1, <2>2, <2>3, EditKeeps
<1>2. ASSUME NEW i, NEW sig, Sign(i, sig)  PROVE Goal
  <2> DEFINE inp == [inputs[i] EXCEPT !.sigs = @ \cup {sig}]
  <2>1. Edit(i, inp)
    BY <1>2 DEF Sign
  <2>2. i \in DOMAIN inputs => DOMAIN inp = Fields
    BY AllFields DEF Shape
  <2>3. i \in DOMAIN inputs => /\ inp.final_script_sig = inputs[i].final_script_sig
                              /\ inp.final_script_witness = inputs[i].final_script_witness
    BY AllFields DEF Shape
  <2> HIDE DEF inp
  <2> QED  BY <2>1, <2>2, <2>3, EditKeeps
<1>3. ASSUME NEW i, NEW flag, DeclareSighash(i, flag)  PROVE Goal
  <2> DEFINE inp == [inputs[i] EXCEPT !.sighash_type = Some(flag)]
  <2>1. Edit(i, inp)
    BY <1>3 DEF DeclareSighash
  <2>2. i \in DOMAIN inputs => DOMAIN inp = Fields
    BY AllFields DEF Shape
  <2>3. i \in DOMAIN inputs => /\ inp.final_script_sig = inputs[i].final_script_sig
                              /\ inp.final_script_witness = inputs[i].final_script_witness
    BY AllFields DEF Shape
  <2> HIDE DEF inp
  <2> QED  BY <2>1, <2>2, <2>3, EditKeeps
<1>4. ASSUME NEW i, NEW sat, Combine(i, sat)  PROVE Goal
  <2> DEFINE inp == [inputs[i] EXCEPT
                        !.final_script_sig = IF sat.script_sig = <<>> THEN None
                                             ELSE Some(sat.script_sig),
                        !.final_script_witness = IF sat.witness = <<>> THEN None
                                                 ELSE Some(sat.witness)]
  <2>1. Edit(i, inp) /\ ~Final(inputs[i])
    BY <1>4 DEF Combine
  <2>2. i \in DOMAIN inputs => DOMAIN inp = Fields
    BY AllFields DEF Shape
  <2> HIDE DEF inp
  <2> QED  BY <2>1, <2>2, EditKeeps
<1>5. ASSUME NEW i, NEW redeem, NEW witness, NEW leaves, AddScripts(i, redeem, witness, leaves)  PROVE Goal
  <2> DEFINE inp == [inputs[i] EXCEPT !.redeem_script = redeem, !.witness_script = witness,
                                      !.tap_scripts = @ \cup leaves]
  <2>1. Edit(i, inp)
    BY <1>5 DEF AddScripts
  <2>2. i \in DOMAIN inputs => DOMAIN inp = Fields
    BY AllFields DEF Shape
  <2>3. i \in DOMAIN inputs => /\ inp.final_script_sig = inputs[i].final_script_sig
                              /\ inp.final_script_witness = inputs[i].final_script_witness
    BY AllFields DEF Shape
  <2> HIDE DEF inp
  <2> QED  BY <2>1, <2>2, <2>3, EditKeeps
<1>6. ASSUME NEW i \in DOMAIN inputs, update_input_with_descriptor(i)  PROVE Goal
  <2>1. PICK keys, leaves, redeem, witness :
            Edit(i, [inputs[i] EXCEPT !.keys = keys, !.tap_scripts = leaves,
                                      !.redeem_script = redeem, !.witness_script = witness])
    BY <1>6, Zenon DEF update_input_with_descriptor
  <2> DEFINE inp == [inputs[i] EXCEPT !.keys = keys, !.tap_scripts = leaves,
                                      !.redeem_script = redeem, !.witness_script = witness]
  <2>2. DOMAIN inp = Fields
    BY AllFields DEF Shape
  <2>3. /\ inp.final_script_sig = inputs[i].final_script_sig
        /\ inp.final_script_witness = inputs[i].final_script_witness
    BY AllFields DEF Shape
  <2>4. Edit(i, inp)
    BY <2>1
  <2> HIDE DEF inp
  <2> QED  BY <2>2, <2>3, <2>4, EditKeeps
<1> HIDE DEF Goal
<1>7. Goal
  BY <1>1, <1>2, <1>3, <1>4, <1>5, <1>6, Zenon DEF Edits
<1> QED  BY <1>7 DEF Goal

-----------------------------------------------------------------------------
(* The steps of the program itself.                                         *)

Calls ==
    \/ \E i \in DOMAIN inputs, mall \in BOOLEAN : finalize_inp_mut(i, mall)
    \/ \E mall \in BOOLEAN : finalize_mut(mall)
    \/ Turn
    \/ Return
    \/ Panic
    \/ extract

(* The calls keep the fields and the final data of all inputs.              *)
LEMMA CallsKeep ==
    ASSUME Shape, Calls
    PROVE  Shape' /\ FinalKept /\ tx' = tx
<1> DEFINE Goal == Shape' /\ FinalKept /\ tx' = tx
<1>0. ASSUME inputs' = inputs  PROVE Shape' /\ FinalKept
  BY <1>0 DEF Shape, FinalKept
<1>1. ASSUME NEW i, NEW mall, finalize_inp_mut(i, mall)  PROVE Goal
  <2>1. \/ inputs' = inputs
        \/ inputs' = [inputs EXCEPT ![i] = finalize_input(inputs, i, mall).input]
    BY <1>1 DEF finalize_inp_mut
  <2>2. tx' = tx
    BY <1>1 DEF finalize_inp_mut
  <2> QED  BY <1>0, <2>1, <2>2, FinalizeKeeps
<1>2. ASSUME NEW mall, finalize_mut(mall)  PROVE Goal
  BY <1>0, <1>2 DEF finalize_mut
<1>3. ASSUME Turn  PROVE Goal
  <2>1. \/ inputs' = inputs
        \/ inputs' = [inputs EXCEPT ![call.index] =
                         finalize_input(inputs, call.index, call.mall).input]
    BY <1>3 DEF Turn
  <2>2. tx' = tx
    BY <1>3 DEF Turn
  <2> QED  BY <1>0, <2>1, <2>2, FinalizeKeeps
<1>4. ASSUME Return  PROVE Goal
  BY <1>0, <1>4 DEF Return
<1>5. ASSUME Panic  PROVE Goal
  BY <1>0, <1>5 DEF Panic
<1>6. ASSUME extract  PROVE Goal
  BY <1>0, <1>6 DEF extract
<1> HIDE DEF Goal
<1>7. Goal
  BY <1>1, <1>2, <1>3, <1>4, <1>5, <1>6, Zenon DEF Calls
<1> QED  BY <1>7 DEF Goal

(* An extraction is about the inputs as they are, after every step.         *)
LEMMA ResultCurrentKept ==
    ASSUME Shape, ResultCurrent, Next
    PROVE  ResultCurrent'
<1>0. ASSUME result'.tx = None  PROVE ResultCurrent'
  BY <1>0 DEF ResultCurrent
<1>1. CASE Edits
  BY <1>0, <1>1, EditsKeep
<1>2. CASE \E i \in DOMAIN inputs, mall \in BOOLEAN : finalize_inp_mut(i, mall)
  BY <1>0, <1>2 DEF finalize_inp_mut, Returned
<1>3. CASE \E mall \in BOOLEAN : finalize_mut(mall)
  BY <1>0, <1>3 DEF finalize_mut, Returned
<1>4. CASE Turn
  BY <1>0, <1>4 DEF Turn, ResultCurrent
<1>5. CASE Return
  BY <1>0, <1>5 DEF Return, Returned
<1>6. CASE Panic
  <2>1. inputs' = inputs /\ tx' = tx /\ result' = result /\ call'.op = "panic"
    BY <1>6 DEF Panic, NoCall
  <2>2. Extracted(inputs)' = Extracted(inputs) /\ extract_errors(inputs)' = extract_errors(inputs)
    BY <2>1 DEF Extracted, extract_errors, sanity_check, Insane, Missing, interpreter_check,
                Unknown, Rejected, interpreter_inp_check, check_after, check_older
  <2> QED  BY <2>1, <2>2 DEF ResultCurrent
<1>7. CASE extract
  <2>1. inputs' = inputs /\ tx' = tx /\ call' = call /\ call.op = "idle"
    BY <1>7 DEF extract, Idle
  <2>2. Extracted(inputs)' = Extracted(inputs) /\ extract_errors(inputs)' = extract_errors(inputs)
    BY <2>1 DEF Extracted, extract_errors, sanity_check, Insane, Missing, interpreter_check,
                Unknown, Rejected, interpreter_inp_check, check_after, check_older
  <2>3. result'.tx = IF extract_errors(inputs) = <<>> THEN Some(Extracted(inputs)) ELSE None
    BY <1>7 DEF extract, Returned
  <2> QED  BY <2>1, <2>2, <2>3 DEF ResultCurrent
<1> QED  BY <1>1, <1>2, <1>3, <1>4, <1>5, <1>6, <1>7, Zenon DEF Next, Edits

(* If interpreter_inp_check accepts the final data of an input, the rules   *)
(* of the network accept it in the transaction made of all final data.      *)
LEMMA AcceptedIsValid ==
    ASSUME NEW i \in DOMAIN inputs,
           interpreter_inp_check(inputs, i, unwrap_or_default(inputs[i].final_script_sig),
                                 unwrap_or_default(inputs[i].final_script_witness))
    PROVE  Valid(Extracted(inputs), i)
<1> DEFINE ss == unwrap_or_default(inputs[i].final_script_sig)
           wit == unwrap_or_default(inputs[i].final_script_witness)
           x == from_txdata(tx.spent[i], ss, wit)
           final == Extracted(inputs)
           ctv == get_ctv_hash(Candidate(inputs, i, ss), i)
<1>1. final[i][1] = ss /\ final[i][2] = wit
  BY DEF Extracted
<1>2. [j \in DOMAIN final |-> final[j][1]] = Candidate(inputs, i, ss)
  BY DEF Extracted, Candidate
<1>3. get_ctv_hash([j \in DOMAIN final |-> final[j][1]], i) = ctv
  BY <1>2
<1> QED  BY <1>1, <1>3 DEF interpreter_inp_check, Valid, check_after, check_older

-----------------------------------------------------------------------------
(* The theorems.                                                            *)

(* The fields of the inputs, and what an extraction says of them, in every  *)
(* state: the invariant behind the theorems.                                *)
THEOREM ExtractInvariant == Spec => []ExtractInv
<1>1. Init => ExtractInv
  BY DEF Init, ExtractInv, Shape, Fields, ResultCurrent, NoCall, Returned, None
<1>2. ExtractInv /\ [Next]_vars => ExtractInv'
  <2> SUFFICES ASSUME ExtractInv, [Next]_vars  PROVE ExtractInv'
    OBVIOUS
  <2>1. CASE Next
    <3>1. Edits \/ Calls
      BY <2>1, Zenon DEF Next, Edits, Calls
    <3>2. Shape'
      BY <3>1, EditsKeep, CallsKeep DEF ExtractInv
    <3>3. ResultCurrent'
      BY <2>1, ResultCurrentKept DEF ExtractInv
    <3> QED  BY <3>2, <3>3 DEF ExtractInv
  <2>2. CASE UNCHANGED vars
    <3>1. inputs' = inputs /\ tx' = tx /\ result' = result /\ call' = call
      BY <2>2 DEF vars
    <3>2. Extracted(inputs)' = Extracted(inputs) /\ extract_errors(inputs)' = extract_errors(inputs)
      BY <3>1 DEF Extracted, extract_errors, sanity_check, Insane, Missing, interpreter_check,
                  Unknown, Rejected, interpreter_inp_check, check_after, check_older
    <3> QED  BY <3>1, <3>2 DEF ExtractInv, Shape, ResultCurrent
  <2> QED  BY <2>1, <2>2
<1> QED  BY <1>1, <1>2, PTL DEF Spec

(* Every transaction that extract returns satisfies all the scripts it      *)
(* spends, whichever scripts and whatever the parties did before.           *)
THEOREM ExtractedTransactionsAreValid == Spec => []ExtractValid
<1>1. ExtractInv => ExtractValid
  <2> SUFFICES ASSUME ExtractInv, result.tx # None, NEW i \in DOMAIN inputs
               PROVE  Valid(result.tx[1], i)
    BY DEF ExtractValid
  <2>1. result.tx[1] = Extracted(inputs) /\ extract_errors(inputs) = <<>>
    BY DEF ExtractInv, ResultCurrent, Some
  <2>2. \A S : <<First(S)>> # <<>>
    OBVIOUS
  <2>3. Rejected(inputs) = {}
    BY <2>1, <2>2, Zenon DEF extract_errors, interpreter_check
  <2>4. interpreter_inp_check(inputs, i, unwrap_or_default(inputs[i].final_script_sig),
                              unwrap_or_default(inputs[i].final_script_witness))
    BY <2>3, Zenon DEF Rejected
  <2> QED  BY <2>1, <2>4, AcceptedIsValid
<1> QED  BY <1>1, ExtractInvariant, PTL

(* Final data is written once and extracted unchanged: the PSBT roles       *)
(* implement their specification.                                           *)
THEOREM RolesAreKept == Spec => RolesKept
<1>1. Init => Roles!RolesInit
  BY DEF Init, Roles!RolesInit, Fresh, Final, None, Returned
<1>2. ExtractInv /\ ExtractInv' /\ [Next]_vars => [Roles!Finalize \/ Roles!Extract]_(Roles!rvars)
  <2> SUFFICES ASSUME ExtractInv, ExtractInv', [Next]_vars
               PROVE  [Roles!Finalize \/ Roles!Extract]_(Roles!rvars)
    OBVIOUS
  <2>0. ASSUME UNCHANGED <<inputs, result>>  PROVE UNCHANGED Roles!rvars
    BY <2>0 DEF Roles!rvars, Final, Extracted
  <2>1. ASSUME FinalKept, result'.tx \in {result.tx, <<>>}  PROVE Roles!Finalize
    <3>1. \A i \in DOMAIN inputs : Final(inputs[i]) =>
             Final(inputs'[i]) /\ Extracted(inputs')[i] = Extracted(inputs)[i]
      BY <2>1 DEF FinalKept, Final, Extracted
    <3>2. DOMAIN inputs' = DOMAIN inputs
      BY <2>1 DEF FinalKept
    <3> QED  BY <2>1, <3>1, <3>2 DEF Roles!Finalize, Some, None, Final, Extracted
  <2>2. CASE Edits
    BY <2>1, <2>2, EditsKeep DEF ExtractInv, None
  <2>3. CASE Calls /\ ~extract
    <3>1. FinalKept
      BY <2>3, CallsKeep DEF ExtractInv
    <3>2. result'.tx \in {result.tx, <<>>}
      <4>1. CASE \E i \in DOMAIN inputs, mall \in BOOLEAN : finalize_inp_mut(i, mall)
        BY <4>1 DEF finalize_inp_mut, Returned, None
      <4>2. CASE \E mall \in BOOLEAN : finalize_mut(mall)
        BY <4>2 DEF finalize_mut, Returned, None
      <4>3. CASE Turn
        BY <4>3 DEF Turn
      <4>4. CASE Return
        BY <4>4 DEF Return, Returned, None
      <4>5. CASE Panic
        BY <4>5 DEF Panic
      <4> QED  BY <2>3, <4>1, <4>2, <4>3, <4>4, <4>5, Zenon DEF Calls
    <3> QED  BY <2>1, <3>1, <3>2
  <2>4. CASE extract
    <3>1. inputs' = inputs
      BY <2>4 DEF extract
    <3>2. result'.tx = IF extract_errors(inputs) = <<>> THEN Some(Extracted(inputs)) ELSE None
      BY <2>4 DEF extract, Returned
    <3>3. FinalKept
      BY <3>1 DEF FinalKept
    <3>4. CASE extract_errors(inputs) = <<>>
      <4>1. Missing(inputs) = {}
        <5>1. \A S : <<First(S)>> # <<>>
          OBVIOUS
        <5> QED  BY <3>4, <5>1, Zenon DEF extract_errors
      <4>2. \A i \in DOMAIN inputs : Final(inputs[i])
        BY <4>1, Zenon DEF Missing
      <4>3. result'.tx = <<Extracted(inputs)>>
        BY <3>2, <3>4 DEF Some
      <4>4. Extracted(inputs) = [i \in DOMAIN inputs |-> Extracted(inputs)[i]]
        BY DEF Extracted
      <4> QED  BY <3>1, <4>2, <4>3, <4>4 DEF Roles!Extract, Some, None
    <3>5. CASE extract_errors(inputs) # <<>>
      BY <2>1, <3>2, <3>3, <3>5 DEF None
    <3> QED  BY <3>4, <3>5
  <2>5. CASE UNCHANGED vars
    BY <2>0, <2>5 DEF vars
  <2>6. Edits \/ Calls \/ UNCHANGED vars
    BY Zenon DEF Next, Edits, Calls
  <2> QED  BY <2>2, <2>3, <2>4, <2>5, <2>6
<1> QED  BY <1>1, <1>2, ExtractInvariant, PTL DEF Spec, RolesKept, Roles!RolesSpec

-----------------------------------------------------------------------------
(* The loop of finalize_mut.  While no turn has failed, the outputs of the  *)
(* inputs visited are known, and those that had their turn are accepted.    *)

Accepted(ins, i) ==
    interpreter_inp_check(ins, i, unwrap_or_default(ins[i].final_script_sig),
                          unwrap_or_default(ins[i].final_script_witness))

Visited(i) == call.pass = 2 \/ i < call.index
HadTurn(i) ==
    IF native_witness(i) THEN call.pass = 2 /\ i < call.index ELSE Visited(i)

\* What errors name.
Named == DOMAIN tx.spent \cup {First(S) : S \in SUBSET DOMAIN tx.spent}

LoopInv ==
    /\ tx \in Txs
    /\ DOMAIN inputs = DOMAIN tx.spent
    /\ call.op = "finalize" =>
          /\ DOMAIN call = DOMAIN NoCall
          /\ sanity_check(inputs)
          /\ call.pass \in {1, 2}
          /\ call.index \in 1..(Len(tx.spent) + 1)
          /\ call.pass = 1 => call.index <= Len(tx.spent)
          /\ call.errors \in Seq(Named)
          /\ call.errors = <<>> =>
                \A i \in DOMAIN inputs :
                    /\ Visited(i) => inputs[i].utxo # None
                    /\ HadTurn(i) => Accepted(inputs, i)

(* The scriptSig of a native input is empty, and the scripts of the other   *)
(* inputs are the ones without templates.                                   *)
LEMMA Native ==
    ASSUME NEW o, NEW ss, NEW wit, o.kind \in {"wpkh", "wsh", "tr"},
           from_txdata(o, ss, wit) # None
    PROVE  ss = <<>>
<1>1. CASE o.kind = "wpkh"  BY <1>1 DEF from_txdata
<1>2. CASE o.kind = "wsh"  BY <1>2 DEF from_txdata
<1>3. CASE o.kind = "tr"  BY <1>3 DEF from_txdata
<1> QED  BY <1>1, <1>2, <1>3

LEMMA NotNative ==
    ASSUME NEW o, NEW ss, NEW wit, o.kind \in {"pk", "pkh", "sh", "shwpkh", "shwsh", "bare"},
           from_txdata(o, ss, wit) # None
    PROVE  LET x == from_txdata(o, ss, wit)[1]
           IN  x.inner = "script" => o.kind \in {"sh", "shwsh", "bare"} /\ x.name = o.script
<1>1. CASE o.kind = "pk"  BY <1>1 DEF from_txdata, PublicKey, Some
<1>2. CASE o.kind = "pkh"  BY <1>2 DEF from_txdata, TopKey, PublicKey, Some
<1>3. CASE o.kind = "sh"  BY <1>3 DEF from_txdata, Script, Some
<1>4. CASE o.kind = "shwpkh"  BY <1>4 DEF from_txdata, TopKey, PublicKey, Some
<1>5. CASE o.kind = "shwsh"  BY <1>5 DEF from_txdata, TopScript, Script, Some
<1>6. CASE o.kind = "bare"  BY <1>6 DEF from_txdata, Script, Some
<1> QED  BY <1>1, <1>2, <1>3, <1>4, <1>5, <1>6

(* What interpreter_inp_check accepts for input i stays accepted if the     *)
(* inputs change as in a turn of the loop: only the scriptSigs of the other *)
(* inputs matter, and only to native inputs.                                *)
LEMMA CheckStable ==
    ASSUME NEW old, NEW new, NEW i, NEW ss, NEW wit,
           tx \in Txs, i \in DOMAIN tx.spent,
           interpreter_inp_check(old, i, ss, wit),
           new[i].sighash_type \in {None, old[i].sighash_type},
           native_witness(i) => Candidate(new, i, ss) = Candidate(old, i, ss)
    PROVE  interpreter_inp_check(new, i, ss, wit)
<1> DEFINE o == tx.spent[i]
           x == from_txdata(o, ss, wit)
           path == PathOf(x[1])
           ctv(ins) == get_ctv_hash(Candidate(ins, i, ss), i)
<1>1. /\ x # None /\ Signed(x[1])
      /\ \A sig \in Sigs(x[1].stack) : check_sighash_type(old[i], sig)
      /\ x[1].inner = "script" =>
            /\ path.after > 0 => path.after <= tx.lock_time /\ check_after(i, path.after)
            /\ path.older > 0 => path.older <= tx.sequence[i] /\ check_older(i, path.older)
            /\ path.template # None => path.template[1] = ctv(old)
  BY DEF interpreter_inp_check
<1>2. \A sig \in Sigs(x[1].stack) : check_sighash_type(new[i], sig)
  BY <1>1 DEF check_sighash_type
<1>3. x[1].inner = "script" /\ path.template # None => path.template[1] = ctv(new)
  <2>1. CASE native_witness(i)
    BY <1>1, <2>1
  <2>2. CASE ~native_witness(i)
    <3>1. o.kind \in {"pk", "pkh", "sh", "shwpkh", "shwsh", "bare"}
      BY <2>2, TxsAssumption DEF native_witness
    <3>2. x[1].inner = "script" => o.kind \in {"sh", "shwsh", "bare"} /\ x[1].name = o.script
      BY <1>1, <3>1, NotNative
    <3>3. x[1].inner = "script" => x[1].stack[1][2] \in DOMAIN Paths[x[1].name]
      BY <1>1 DEF Signed
    <3> HIDE DEF x
    <3>4. x[1].inner = "script" => path.template = <<>>
      BY <3>2, <3>3, TxsAssumption DEF PathOf
    <3> QED  BY <3>4 DEF None
  <2> QED  BY <2>1, <2>2
<1> QED  BY <1>1, <1>2, <1>3 DEF interpreter_inp_check

(* A turn without an error: the input was accepted, or is replaced by what  *)
(* is left of it with final data that is accepted.                          *)
LEMMA TurnAccepts ==
    ASSUME NEW ins, NEW i, NEW mall, finalize_input(ins, i, mall).errors = <<>>
    PROVE  LET inp == finalize_input(ins, i, mall).input
           IN  \/ Final(ins[i]) /\ inp = ins[i] /\ Accepted(ins, i)
               \/ /\ ~Final(ins[i])
                  /\ \E sat : /\ inp = Cleared(ins[i], sat)
                             /\ interpreter_inp_check(ins, i, sat.script_sig, sat.witness)
<1> DEFINE r == finalize_input(ins, i, mall)
           ss == unwrap_or_default(ins[i].final_script_sig)
           wit == unwrap_or_default(ins[i].final_script_witness)
<1>0. <<i>> # <<>> /\ \A S : <<First(S)>> # <<>>
  OBVIOUS
<1>1. CASE Final(ins[i])
  <2>1. Satisfaction(ss, wit) # None
    BY DEF Satisfaction, Some, None
  <2>2. Satisfaction(ss, wit)[1].script_sig = ss /\ Satisfaction(ss, wit)[1].witness = wit
    BY DEF Satisfaction, Some
  <2>3. r = IF Unknown(ins) # {} THEN Outcome(ins[i], <<First(Unknown(ins))>>)
            ELSE IF ~interpreter_inp_check(ins, i, ss, wit) THEN Outcome(ins[i], <<i>>)
            ELSE Outcome(ins[i], <<>>)
    BY <1>1, <2>1, <2>2, Zenon DEF finalize_input
  <2>4. interpreter_inp_check(ins, i, ss, wit) /\ r.input = ins[i]
    BY <1>0, <2>3 DEF Outcome
  <2> QED  BY <1>1, <2>4 DEF Accepted
<1>2. CASE ~Final(ins[i])
  <2> DEFINE sat == IF ins[i].utxo = None THEN None ELSE Satisfy(ins, i, mall)
  <2>1. r = IF sat = None THEN Outcome(ins[i], <<i>>)
            ELSE IF Unknown(ins) # {} THEN Outcome(ins[i], <<First(Unknown(ins))>>)
            ELSE IF ~interpreter_inp_check(ins, i, sat[1].script_sig, sat[1].witness)
                 THEN Outcome(ins[i], <<i>>)
            ELSE Outcome(Cleared(ins[i], sat[1]), <<>>)
    BY <1>2, Zenon DEF finalize_input
  <2> HIDE DEF sat
  <2>2. /\ interpreter_inp_check(ins, i, sat[1].script_sig, sat[1].witness)
        /\ r.input = Cleared(ins[i], sat[1])
    BY <1>0, <2>1 DEF Outcome
  <2> QED  BY <1>2, <2>2
<1> QED  BY <1>1, <1>2

(* An error of finalize_input names an input, and leaves the input alone.   *)
LEMMA TurnErrors ==
    ASSUME NEW ins, NEW i, NEW mall
    PROVE  LET r == finalize_input(ins, i, mall)
           IN  r.errors = <<>> \/ (r.input = ins[i] /\ r.errors \in {<<i>>, <<First(Unknown(ins))>>})
BY Zenon DEF finalize_input, Outcome

(* What is left of an input.                                                *)
LEMMA ClearedFields ==
    ASSUME NEW inp, NEW sat
    PROVE  LET c == Cleared(inp, sat)
           IN  /\ c.utxo = inp.utxo /\ c.sigs = {} /\ c.sighash_type = None
               /\ unwrap_or_default(c.final_script_sig) = sat.script_sig
               /\ unwrap_or_default(c.final_script_witness) = sat.witness
<1> DEFINE fss == IF sat.script_sig = <<>> THEN None ELSE Some(sat.script_sig)
           fsw == IF sat.witness = <<>> THEN None ELSE Some(sat.witness)
<1>1. unwrap_or_default(fss) = sat.script_sig /\ unwrap_or_default(fsw) = sat.witness
  BY DEF unwrap_or_default, Some, None
<1> HIDE DEF fss, fsw
<1>2. Cleared(inp, sat) = [Fresh EXCEPT !.utxo = inp.utxo, !.final_script_sig = fss,
                                        !.final_script_witness = fsw]
  BY DEF Cleared, fss, fsw
<1> DEFINE c == Cleared(inp, sat)
<1>3. c.utxo = inp.utxo /\ c.sigs = {} /\ c.sighash_type = None
      /\ c.final_script_sig = fss /\ c.final_script_witness = fsw
  BY <1>2 DEF Fresh
<1> QED  BY <1>1, <1>3

(* A turn of the loop without an error: the input is accepted afterwards,   *)
(* and so are the inputs that were.                                         *)
LEMMA TurnKeepsAccepted ==
    ASSUME NEW i, NEW mall, NEW ins, tx \in Txs, DOMAIN inputs = DOMAIN tx.spent,
           i \in DOMAIN inputs,
           finalize_input(inputs, i, mall).errors = <<>>,
           ins = [inputs EXCEPT ![i] = finalize_input(inputs, i, mall).input]
    PROVE  /\ Accepted(ins, i)
           /\ \A j \in DOMAIN inputs :
                 Accepted(inputs, j) /\ (native_witness(j) => native_witness(i)) => Accepted(ins, j)
<1> DEFINE inp == finalize_input(inputs, i, mall).input
           sig(x) == unwrap_or_default(x.final_script_sig)
           wit(x) == unwrap_or_default(x.final_script_witness)
<1>1. \/ Final(inputs[i]) /\ inp = inputs[i] /\ Accepted(inputs, i)
      \/ /\ ~Final(inputs[i])
         /\ \E sat : /\ inp = Cleared(inputs[i], sat)
                    /\ interpreter_inp_check(inputs, i, sat.script_sig, sat.witness)
  BY TurnAccepts
<1>2. ins = [inputs EXCEPT ![i] = inp]
  OBVIOUS
<1> HIDE DEF inp
<1>3. DOMAIN ins = DOMAIN inputs /\ ins[i] = inp
  BY <1>2
<1>4. \A j \in DOMAIN inputs : j # i => ins[j] = inputs[j]
  BY <1>2
<1>5. /\ interpreter_inp_check(inputs, i, sig(inp), wit(inp))
      /\ inp.sighash_type \in {None, inputs[i].sighash_type}
  BY <1>1, ClearedFields DEF Accepted
<1>6. \A ss : Candidate(ins, i, ss) = Candidate(inputs, i, ss)
  BY <1>3, <1>4 DEF Candidate
<1>7. Accepted(ins, i)
  BY <1>3, <1>5, <1>6, CheckStable DEF Accepted
<1>8. native_witness(i) => sig(inp) = sig(inputs[i])
  <2>1. CASE Final(inputs[i])
    BY <1>1, <2>1
  <2>2. CASE ~Final(inputs[i]) /\ native_witness(i)
    <3>1. sig(inputs[i]) = <<>>
      BY <2>2 DEF Final, unwrap_or_default
    <3>2. from_txdata(tx.spent[i], sig(inp), wit(inp)) # None
      BY <1>5 DEF interpreter_inp_check
    <3>3. sig(inp) = <<>>
      BY <2>2, <3>2, Native DEF native_witness
    <3> QED  BY <3>1, <3>3
  <2> QED  BY <2>1, <2>2
<1>9. ASSUME NEW j \in DOMAIN inputs, j # i, Accepted(inputs, j),
             native_witness(j) => native_witness(i)
      PROVE  Accepted(ins, j)
  <2>1. native_witness(j) => \A ss : Candidate(ins, j, ss) = Candidate(inputs, j, ss)
    BY <1>3, <1>4, <1>8, <1>9 DEF Candidate
  <2>2. ins[j] = inputs[j]
    BY <1>4, <1>9
  <2> QED  BY <1>9, <2>1, <2>2, CheckStable DEF Accepted
<1> QED  BY <1>7, <1>9

(* No turn makes a signature contradict a declared hash type.               *)
LEMMA TurnKeepsSane ==
    ASSUME NEW i, NEW mall, NEW ins, sanity_check(inputs),
           ins = [inputs EXCEPT ![i] = finalize_input(inputs, i, mall).input]
    PROVE  sanity_check(ins)
<1> DEFINE inp == finalize_input(inputs, i, mall).input
<1>1. inp = inputs[i] \/ \E sat : inp = Cleared(inputs[i], sat)
  BY TurnErrors, TurnAccepts
<1>2. ins = [inputs EXCEPT ![i] = inp]
  OBVIOUS
<1> HIDE DEF inp
<1>3. inp = inputs[i] \/ inp.sigs = {}
  BY <1>1, ClearedFields
<1>4. DOMAIN ins = DOMAIN inputs
  BY <1>2
<1>5. \A j \in DOMAIN inputs : ins[j] = inputs[j] \/ ins[j].sigs = {}
  BY <1>2, <1>3
<1>6. \A j \in DOMAIN inputs : \A sg \in inputs[j].sigs : check_sighash_type(inputs[j], sg)
  BY Zenon DEF sanity_check, Insane
<1>7. \A j \in DOMAIN inputs : \A sg \in ins[j].sigs : check_sighash_type(ins[j], sg)
  BY <1>5, <1>6
<1> QED  BY <1>4, <1>7, Zenon DEF sanity_check, Insane

(* No turn loses the output of an input.                                    *)
LEMMA TurnKeepsUtxo ==
    ASSUME NEW i, NEW mall
    PROVE  finalize_input(inputs, i, mall).input.utxo = inputs[i].utxo
BY TurnErrors, TurnAccepts, ClearedFields

(* A turn of the loop keeps the invariant of the loop.                      *)
LEMMA TurnKeepsLoop ==
    ASSUME LoopInv, Turn
    PROVE  LoopInv'
<1> DEFINE i == call.index
           n == Len(tx.spent)
           r == finalize_input(inputs, i, call.mall)
           due == Due(i, call.pass)
           errors == IF due THEN r.errors
                     ELSE IF inputs[i].utxo = None /\ call.pass = 1 THEN <<i>> ELSE <<>>
           last == i = n /\ call.pass = 1
           ins == IF due THEN [inputs EXCEPT ![i] = r.input] ELSE inputs
<1>1. /\ tx' = tx /\ inputs' = ins /\ call.op = "finalize" /\ i <= n
      /\ call' = [call EXCEPT !.errors = @ \o errors, !.pass = IF last THEN 2 ELSE @,
                               !.index = IF last THEN 1 ELSE @ + 1]
  BY DEF Turn
<1>2. /\ tx \in Txs /\ n \in Nat \ {0} /\ DOMAIN tx.spent = 1..n /\ DOMAIN inputs = 1..n
      /\ i \in 1..n
      /\ DOMAIN call = DOMAIN NoCall /\ sanity_check(inputs) /\ call.pass \in {1, 2}
      /\ call.errors \in Seq(Named)
  BY <1>1, TxsAssumption DEF LoopInv
<1>3. call.errors = <<>> => \A j \in DOMAIN inputs :
                               /\ Visited(j) => inputs[j].utxo # None
                               /\ HadTurn(j) => Accepted(inputs, j)
  BY <1>1 DEF LoopInv
<1>4. /\ DOMAIN call' = DOMAIN NoCall
      /\ call'.errors = call.errors \o errors
      /\ call'.pass = IF last THEN 2 ELSE call.pass
      /\ call'.index = IF last THEN 1 ELSE i + 1
  <2>1. DOMAIN call = {"op", "mall", "pass", "index", "errors", "before"}
    BY <1>2 DEF NoCall
  <2> HIDE DEF errors, last
  <2> QED  BY <1>1, <1>2, <2>1
<1>5. sanity_check(ins) /\ DOMAIN ins = DOMAIN inputs
  BY <1>2, TurnKeepsSane
<1>6. errors \in Seq(Named)
  <2>1. Unknown(inputs) \in SUBSET DOMAIN tx.spent
    BY <1>2 DEF Unknown
  <2>2. i \in Named /\ First(Unknown(inputs)) \in Named
    BY <1>2, <2>1 DEF Named
  <2>3. errors \in {<<>>, <<i>>, <<First(Unknown(inputs))>>}
    BY TurnErrors
  <2> HIDE DEF errors, i
  <2>4. <<>> \in Seq(Named) /\ \A a \in Named : <<a>> \in Seq(Named)
    OBVIOUS
  <2> QED  BY <2>2, <2>3, <2>4
<1>7. call'.errors \in Seq(Named)
  <2> HIDE DEF errors
  <2> QED  BY <1>2, <1>4, <1>6
<1>8. ASSUME call'.errors = <<>>  PROVE call.errors = <<>> /\ errors = <<>>
  <2> HIDE DEF errors
  <2>1. Len(call.errors) + Len(errors) = 0 /\ Len(call.errors) \in Nat /\ Len(errors) \in Nat
    <3> DEFINE s == call.errors
    <3>1. s \in Seq(Named) /\ errors \in Seq(Named) /\ s \o errors = <<>>
      BY <1>2, <1>4, <1>6, <1>8
    <3> HIDE DEF s
    <3>2. Len(s \o errors) = Len(s) + Len(errors) /\ Len(s) \in Nat /\ Len(errors) \in Nat
      BY <3>1, ConcatProperties, LenProperties, Zenon
    <3> QED  BY <3>1, <3>2 DEF s
  <2>2. Len(call.errors) = 0 /\ Len(errors) = 0
    BY <2>1
  <2> QED  BY <1>2, <1>6, <2>2, EmptySeq
<1>9. ASSUME call'.errors = <<>>, NEW j \in DOMAIN inputs
      PROVE  /\ Visited(j)' => ins[j].utxo # None
             /\ HadTurn(j)' => Accepted(ins, j)
  <2> USE <1>8, <1>9
  <2>0. native_witness(j)' = native_witness(j)
    BY <1>1 DEF native_witness
  <2>1. inputs[i].utxo # None
    BY <1>2, <1>3 DEF Visited, Due
  <2>2. Visited(j)' => Visited(j) \/ j = i
    BY <1>2, <1>4 DEF Visited
  <2>3. HadTurn(j)' => HadTurn(j) \/ (j = i /\ due)
    <3>1. CASE native_witness(j)
      <4>1. HadTurn(j)' => call'.pass = 2 /\ j < call'.index
        BY <2>0, <3>1 DEF HadTurn
      <4>2. HadTurn(j)' => call.pass = 2 /\ (j < i \/ j = i)
        BY <1>2, <1>4, <4>1
      <4> QED  BY <2>1, <3>1, <4>2 DEF HadTurn, Due, native_witness
    <3>2. CASE ~native_witness(j)
      <4>1. HadTurn(j)' => Visited(j) \/ j = i
        BY <2>0, <2>2, <3>2 DEF HadTurn
      <4>2. j = i => Visited(j) \/ due
        BY <1>2, <2>1, <3>2 DEF Visited, Due, native_witness
      <4> QED  BY <3>2, <4>1, <4>2 DEF HadTurn
    <3> QED  BY <3>1, <3>2
  <2>4. ins[j].utxo = inputs[j].utxo
    BY <1>2, TurnKeepsUtxo
  <2>5. Visited(j)' => ins[j].utxo # None
    BY <1>3, <2>1, <2>2, <2>4
  <2>6. CASE due
    <3>1. r.errors = <<>> /\ ins = [inputs EXCEPT ![i] = r.input]
      BY <2>6
    <3>2. /\ Accepted(ins, i)
          /\ Accepted(inputs, j) /\ (native_witness(j) => native_witness(i)) => Accepted(ins, j)
      BY <1>2, <3>1, TurnKeepsAccepted, ZenonT(40)
    <3>3. HadTurn(j) => (native_witness(j) => native_witness(i))
      BY <1>2, <2>6 DEF HadTurn, Due, native_witness
    <3> QED  BY <1>3, <2>3, <2>5, <3>2, <3>3
  <2>7. CASE ~due
    BY <1>3, <2>3, <2>5, <2>7
  <2> QED  BY <2>6, <2>7
<1>10. \A j : Accepted(inputs, j)' = Accepted(ins, j)
  <2> HIDE DEF ins
  <2> QED  BY <1>1 DEF Accepted, interpreter_inp_check, check_after, check_older
<1>11. /\ (tx \in Txs)' /\ (DOMAIN inputs = DOMAIN tx.spent)'
       /\ sanity_check(inputs)'
  <2> HIDE DEF ins
  <2> QED  BY <1>1, <1>2, <1>5 DEF sanity_check, Insane
<1>12. /\ call'.pass \in {1, 2} /\ call'.index \in 1..(n + 1)
       /\ call'.pass = 1 => call'.index <= n
  <2> HIDE DEF n
  <2> QED  BY <1>2, <1>4
<1>13. Named' = Named /\ Len(tx.spent)' = n
  BY <1>1 DEF Named
<1>14. call'.errors = <<>> => \A j \in DOMAIN inputs' :
           /\ Visited(j)' => inputs'[j].utxo # None
           /\ HadTurn(j)' => Accepted(inputs, j)'
  <2> HIDE DEF ins
  <2> QED  BY <1>1, <1>5, <1>9, <1>10
<1> HIDE DEF n, ins
<1> QED  BY <1>4, <1>7, <1>11, <1>12, <1>13, <1>14 DEF LoopInv

(* The invariant of the loop, in every state.                               *)
THEOREM LoopInvariant == Spec => []LoopInv
<1>1. Init => LoopInv
  BY DEF Init, LoopInv, NoCall
<1>2. ASSUME LoopInv, Shape, [Next]_vars  PROVE LoopInv'
  <2>0. ASSUME tx' = tx, DOMAIN inputs' = DOMAIN inputs, call'.op # "finalize"  PROVE LoopInv'
    BY <1>2, <2>0 DEF LoopInv
  <2>1. CASE Edits
    <3>1. tx' = tx /\ DOMAIN inputs' = DOMAIN inputs /\ call' = call
      BY <1>2, <2>1, EditsKeep DEF FinalKept
    <3>2. call.op = "idle"
      BY <2>1, Zenon DEF Edits, AddUtxo, Sign, DeclareSighash, Combine, AddScripts,
                         update_input_with_descriptor, Edit, Idle
    <3> QED  BY <2>0, <3>1, <3>2
  <2>2. CASE Calls
    <3>0. tx' = tx /\ DOMAIN inputs' = DOMAIN inputs
      BY <1>2, <2>2, CallsKeep DEF FinalKept
    <3>1. CASE \E i \in DOMAIN inputs, mall \in BOOLEAN : finalize_inp_mut(i, mall)
      BY <2>0, <3>0, <3>1 DEF finalize_inp_mut, Idle
    <3>2. CASE \E mall \in BOOLEAN : finalize_mut(mall)
      <4>1. PICK mall \in BOOLEAN : finalize_mut(mall)
        BY <3>2
      <4>2. CASE ~sanity_check(inputs)
        BY <2>0, <3>0, <4>1, <4>2 DEF finalize_mut, Idle
      <4>3. CASE sanity_check(inputs)
        <5>1. /\ call' = [NoCall EXCEPT !.op = "finalize", !.mall = mall, !.before = inputs]
              /\ inputs' = inputs
          BY <4>1, <4>3 DEF finalize_mut
        <5>2. DOMAIN call' = DOMAIN NoCall /\ call'.pass = 1 /\ call'.index = 1 /\ call'.errors = <<>>
          BY <5>1 DEF NoCall
        <5>3. Len(tx.spent) \in Nat \ {0} /\ DOMAIN inputs = 1..Len(tx.spent) /\ tx \in Txs
              /\ DOMAIN inputs = DOMAIN tx.spent
          BY <1>2, TxsAssumption DEF LoopInv
        <5>4. sanity_check(inputs)'
          BY <4>3, <5>1 DEF sanity_check, Insane
        <5>5. \A i \in DOMAIN inputs' : ~Visited(i)' /\ ~HadTurn(i)'
          BY <5>1, <5>2, <5>3 DEF Visited, HadTurn
        <5>6. <<>> \in Seq(Named')
          OBVIOUS
        <5>7. 1 \in 1..(Len(tx.spent) + 1) /\ 1 <= Len(tx.spent)
          BY <5>3
        <5> QED  BY <3>0, <5>1, <5>2, <5>3, <5>4, <5>5, <5>6, <5>7 DEF LoopInv
      <4> QED  BY <4>2, <4>3
    <3>3. CASE Turn
      BY <1>2, <3>3, TurnKeepsLoop
    <3>4. CASE Return
      BY <2>0, <3>0, <3>4 DEF Return, NoCall
    <3>5. CASE Panic
      BY <2>0, <3>0, <3>5 DEF Panic, NoCall
    <3>6. CASE extract
      BY <2>0, <3>0, <3>6 DEF extract, Idle
    <3> QED  BY <2>2, <3>1, <3>2, <3>3, <3>4, <3>5, <3>6 DEF Calls
  <2>3. CASE UNCHANGED vars
    <3>1. inputs' = inputs /\ tx' = tx /\ result' = result /\ call' = call
      BY <2>3 DEF vars
    <3> QED  BY <1>2, <3>1, ZenonT(40) DEF LoopInv, Visited, HadTurn, native_witness, Accepted, sanity_check,
                               Insane, Named, interpreter_inp_check, check_after, check_older
  <2> QED  BY <1>2, <2>1, <2>2, <2>3, Zenon DEF Next, Edits, Calls
<1>3. ExtractInv => Shape
  BY DEF ExtractInv
<1> QED  BY <1>1, <1>2, <1>3, ExtractInvariant, PTL DEF Spec

(* The two passes of finalize_mut suffice: if all its turns succeed, the    *)
(* check of the complete transaction that follows cannot fail.              *)
LEMMA LoopPasses == LoopInv => PassesSuffice
<1> SUFFICES ASSUME LoopInv, call.op = "finalize", call.index > Len(tx.spent), call.errors = <<>>
             PROVE  interpreter_check(inputs) = <<>>
  BY DEF PassesSuffice
<1>1. /\ Len(tx.spent) \in Nat /\ DOMAIN inputs = 1..Len(tx.spent)
      /\ call.index \in 1..(Len(tx.spent) + 1) /\ call.pass = 2 /\ sanity_check(inputs)
  BY TxsAssumption DEF LoopInv
<1>2. \A i \in DOMAIN inputs : Visited(i) /\ HadTurn(i)
  BY <1>1 DEF Visited, HadTurn
<1>3. \A i \in DOMAIN inputs : inputs[i].utxo # None /\ Accepted(inputs, i)
  BY <1>2 DEF LoopInv
<1>4. Unknown(inputs) = {} /\ Rejected(inputs) = {}
  BY <1>3 DEF Unknown, Rejected, Accepted
<1> QED  BY <1>1, <1>4 DEF interpreter_check

(* The two passes of finalize_mut suffice, in every state.                  *)
THEOREM TwoPassesSuffice == Spec => []PassesSuffice
BY LoopPasses, LoopInvariant, PTL

-----------------------------------------------------------------------------
(* finalize_inp_mut changes the input it is asked to finalize, or nothing.  *)

\* The result of finalize_inp_mut is replaced when finalize_mut begins.
AtomicInv ==
    /\ result.op = "finalize_inp" => call.op # "finalize"
    /\ FinalizeInpAtomic

(* No output is spent with an empty scriptSig and an empty witness.         *)
LEMMA AcceptedNotEmpty ==
    ASSUME NEW ins, NEW i, NEW ss, NEW wit, tx \in Txs, i \in DOMAIN tx.spent,
           interpreter_inp_check(ins, i, ss, wit)
    PROVE  ss # <<>> \/ wit # <<>>
<1> SUFFICES ASSUME ss = <<>>, wit = <<>>  PROVE FALSE
  OBVIOUS
<1> DEFINE o == tx.spent[i]
           x == from_txdata(o, <<>>, <<>>)
<1>1. x # None /\ Len(x[1].stack) = 1
  BY DEF interpreter_inp_check, Signed
<1>2. \A r : <<>> # <<<<"redeem", r>>>>
  OBVIOUS
<1>3. Len(<<>>) = 0
  OBVIOUS
<1> DEFINE kind(k) == o.kind = k
<1>4. kind("pk") \/ kind("bare")
  <2>1. o.kind \in {"pk", "pkh", "wpkh", "wsh", "sh", "shwpkh", "shwsh", "bare", "tr"}
    BY TxsAssumption
  <2>2. o.kind \in {"pkh", "wpkh"} => x = None
    BY DEF from_txdata, TopKey
  <2>3. o.kind \in {"wsh", "sh", "tr"} => x = None
    BY DEF from_txdata, TopScript
  <2>4. o.kind \in {"shwpkh", "shwsh"} => x = None
    BY <1>2 DEF from_txdata
  <2> HIDE DEF x
  <2> QED  BY <1>1, <2>1, <2>2, <2>3, <2>4
<1>5. x[1].stack = <<>>
  BY <1>4 DEF from_txdata, PublicKey, Script, Some
<1> HIDE DEF x
<1> QED  BY <1>1, <1>3, <1>5

(* What is left of an input that was accepted is final.                     *)
LEMMA ClearedFinal ==
    ASSUME NEW inp, NEW sat, sat.script_sig # <<>> \/ sat.witness # <<>>
    PROVE  Final(Cleared(inp, sat))
BY ClearedFields DEF Final, unwrap_or_default

(* What finalize_inp_mut does to the inputs and says of them.               *)
LEMMA FinalizeInpKeeps ==
    ASSUME NEW i \in DOMAIN inputs, NEW mall, LoopInv, finalize_inp_mut(i, mall)
    PROVE  AtomicInv'
<1> DEFINE r == finalize_input(inputs, i, mall)
<1>1. call.op = "idle" /\ call' = call
  BY DEF finalize_inp_mut, Idle
<1>2. result'.before = inputs
  BY DEF finalize_inp_mut, Returned
<1>3. CASE ~sanity_check(inputs)
  <2>1. inputs' = inputs
    BY <1>3 DEF finalize_inp_mut
  <2> QED  BY <1>1, <1>2, <2>1 DEF AtomicInv, FinalizeInpAtomic
<1>4. CASE sanity_check(inputs)
  <2>1. inputs' = [inputs EXCEPT ![i] = r.input] /\ result'.errors = r.errors
    BY <1>4 DEF finalize_inp_mut, Returned
  <2>2. r.input # inputs[i] =>
           /\ r.errors = <<>> /\ ~Final(inputs[i])
           /\ \E sat : r.input = Cleared(inputs[i], sat)
                      /\ interpreter_inp_check(inputs, i, sat.script_sig, sat.witness)
    BY TurnErrors, TurnAccepts
  <2>3. r.input # inputs[i] => Final(r.input) /\ r.input.utxo = inputs[i].utxo
    BY <2>2, ClearedFields, ClearedFinal, AcceptedNotEmpty DEF LoopInv
  <2> HIDE DEF r
  <2>4. ASSUME NEW j \in DOMAIN inputs', inputs'[j] # inputs[j]
        PROVE  j = i /\ inputs'[j] = r.input
    BY <2>1, <2>4
  <2> QED  BY <1>1, <1>2, <2>1, <2>2, <2>3, <2>4 DEF AtomicInv, FinalizeInpAtomic
<1> QED  BY <1>3, <1>4

(* `The psbt is not mutated when the finalization fails': finalize_inp_mut  *)
(* leaves all inputs alone if it returns an error, and otherwise all inputs *)
(* but the one it makes final.                                              *)
THEOREM FinalizeInpIsAtomic == Spec => []FinalizeInpAtomic
<1>1. Init => AtomicInv
  BY DEF Init, AtomicInv, FinalizeInpAtomic, Returned
<1>2. ASSUME LoopInv, AtomicInv, [Next]_vars  PROVE AtomicInv'
  <2>0. ASSUME result'.op # "finalize_inp"  PROVE AtomicInv'
    BY <2>0 DEF AtomicInv, FinalizeInpAtomic
  <2>1. CASE Edits
    <3>1. result' = Returned("edit", <<>>, FALSE, <<>>)
      BY <2>1, Zenon DEF Edits, AddUtxo, Sign, DeclareSighash, Combine, AddScripts,
                         update_input_with_descriptor, Edit
    <3> QED  BY <2>0, <3>1 DEF Returned
  <2>2. CASE \E i \in DOMAIN inputs, mall \in BOOLEAN : finalize_inp_mut(i, mall)
    BY <1>2, <2>2, FinalizeInpKeeps
  <2>3. CASE \E mall \in BOOLEAN : finalize_mut(mall)
    BY <2>0, <2>3 DEF finalize_mut, Returned
  <2>4. CASE Turn
    BY <1>2, <2>0, <2>4 DEF Turn, AtomicInv
  <2>5. CASE Return
    BY <2>0, <2>5 DEF Return, Returned
  <2>6. CASE Panic
    BY <1>2, <2>6 DEF Panic, NoCall, AtomicInv, FinalizeInpAtomic
  <2>7. CASE extract
    BY <2>0, <2>7 DEF extract, Returned
  <2>8. CASE UNCHANGED vars
    BY <1>2, <2>8 DEF vars, AtomicInv, FinalizeInpAtomic
  <2> QED  BY <1>2, <2>1, <2>2, <2>3, <2>4, <2>5, <2>6, <2>7, <2>8, Zenon DEF Next, Edits
<1>3. AtomicInv => FinalizeInpAtomic
  BY DEF AtomicInv
<1> QED  BY <1>1, <1>2, <1>3, LoopInvariant, PTL DEF Spec

-----------------------------------------------------------------------------
(* The errors of the loop, if all outputs are known: one for each input     *)
(* that had its turn and is not final.                                      *)

ErrorsExact ==
    call.op = "finalize" /\ Unknown(inputs) = {} =>
        /\ \A e \in DOMAIN call.errors : \E i \in DOMAIN inputs : call.errors[e] = i /\ HadTurn(i)
        /\ \A e, f \in DOMAIN call.errors : call.errors[e] = call.errors[f] => e = f
        /\ \A i \in DOMAIN inputs : HadTurn(i) /\ ~Final(inputs[i]) =>
              \E e \in DOMAIN call.errors : call.errors[e] = i

ErrorsInv ==
    /\ ErrorsExact
    /\ result.op = "finalize" => call.op # "finalize"
    /\ ErrorsNameInputs

(* Who has had a turn after a turn.                                         *)
LEMMA TurnTaken ==
    ASSUME LoopInv, Turn, NEW j \in DOMAIN inputs
    PROVE  /\ HadTurn(j) \/ (j = call.index /\ Due(j, call.pass)) => HadTurn(j)'
           /\ HadTurn(j)' /\ inputs[call.index].utxo # None =>
                 HadTurn(j) \/ (j = call.index /\ Due(j, call.pass))
           /\ j = call.index /\ Due(j, call.pass) => ~HadTurn(j)
<1> DEFINE i == call.index
           n == Len(tx.spent)
           last == i = n /\ call.pass = 1
<1>1. /\ tx' = tx /\ i \in Nat /\ n \in Nat /\ 1 <= i /\ i <= n /\ call.pass \in {1, 2} /\ j \in Nat
      /\ 1 <= j /\ j <= n
  BY TxsAssumption DEF LoopInv, Turn
<1>2. /\ call'.pass = IF last THEN 2 ELSE call.pass
      /\ call'.index = IF last THEN 1 ELSE i + 1
  <2>1. DOMAIN call = {"op", "mall", "pass", "index", "errors", "before"}
    BY DEF LoopInv, Turn, NoCall
  <2>2. \E errors : call' = [call EXCEPT !.errors = errors, !.pass = IF last THEN 2 ELSE @,
                                        !.index = IF last THEN 1 ELSE @ + 1]
    BY Zenon DEF Turn
  <2> HIDE DEF last
  <2> QED  BY <2>1, <2>2
<1>3. native_witness(j)' = native_witness(j)
  BY <1>1 DEF native_witness
<1> HIDE DEF n
<1>4. CASE native_witness(j)
  <2>1. HadTurn(j) <=> call.pass = 2 /\ j < i
    BY <1>4 DEF HadTurn
  <2>2. HadTurn(j)' <=> call'.pass = 2 /\ j < call'.index
    BY <1>3, <1>4 DEF HadTurn
  <2>3. j = i => /\ Due(j, call.pass) => call.pass = 2
                 /\ call.pass = 2 /\ inputs[i].utxo # None => Due(j, call.pass)
    BY <1>4 DEF Due, native_witness
  <2> QED  BY <1>1, <1>2, <2>1, <2>2, <2>3
<1>5. CASE ~native_witness(j)
  <2>1. HadTurn(j) <=> call.pass = 2 \/ j < i
    BY <1>5 DEF HadTurn, Visited
  <2>2. HadTurn(j)' <=> call'.pass = 2 \/ j < call'.index
    BY <1>3, <1>5 DEF HadTurn, Visited
  <2>3. j = i => /\ Due(j, call.pass) => call.pass # 2
                 /\ call.pass # 2 /\ inputs[i].utxo # None => Due(j, call.pass)
    BY <1>5 DEF Due, native_witness
  <2> QED  BY <1>1, <1>2, <2>1, <2>2, <2>3
<1> QED  BY <1>4, <1>5

(* What finalize_input does if all outputs are known: the input is final,   *)
(* or it is as it was and there is an error for it.                         *)
LEMMA InputOrError ==
    ASSUME NEW i \in DOMAIN inputs, NEW mall, LoopInv, Unknown(inputs) = {}
    PROVE  LET r == finalize_input(inputs, i, mall)
           IN  \/ r.errors = <<>> /\ Final(r.input)
               \/ r.errors = <<i>> /\ r.input = inputs[i]
<1> DEFINE r == finalize_input(inputs, i, mall)
<1>1. r.errors = <<>> \/ (r.errors = <<i>> /\ r.input = inputs[i])
  BY Zenon DEF finalize_input, Outcome
<1>2. ASSUME r.errors = <<>>  PROVE Final(r.input)
  BY <1>2, TurnAccepts, ClearedFinal, AcceptedNotEmpty DEF LoopInv
<1> QED  BY <1>1, <1>2

(* The outputs that are known stay known.                                   *)
LEMMA TurnUnknown ==
    ASSUME LoopInv, Turn
    PROVE  Unknown(inputs)' = Unknown(inputs)
<1> DEFINE r == finalize_input(inputs, call.index, call.mall)
<1>1. inputs' = inputs \/ inputs' = [inputs EXCEPT ![call.index] = r.input]
  BY DEF Turn
<1>2. r.input.utxo = inputs[call.index].utxo
  BY TurnKeepsUtxo
<1> HIDE DEF r
<1>3. DOMAIN inputs' = DOMAIN inputs /\ \A j \in DOMAIN inputs : inputs'[j].utxo = inputs[j].utxo
  BY <1>1, <1>2
<1> QED  BY <1>3 DEF Unknown

(* One more error at the end of a list of them.                             *)
LEMMA OneMore ==
    ASSUME NEW S, NEW s \in Seq(S), NEW i \in S
    PROVE  /\ DOMAIN (s \o <<i>>) = DOMAIN s \cup {Len(s) + 1}
           /\ Len(s) + 1 \notin DOMAIN s
           /\ \A e \in DOMAIN s : (s \o <<i>>)[e] = s[e]
           /\ (s \o <<i>>)[Len(s) + 1] = i
OBVIOUS

(* A turn of the loop keeps the errors exact.                               *)
LEMMA TurnKeepsErrors ==
    ASSUME LoopInv, LoopInv', ErrorsExact, Turn
    PROVE  ErrorsExact'
<1> SUFFICES ASSUME Unknown(inputs) = {}
             PROVE  /\ \A e \in DOMAIN call'.errors :
                          \E i \in DOMAIN inputs' : call'.errors[e] = i /\ HadTurn(i)'
                    /\ \A e, f \in DOMAIN call'.errors : call'.errors[e] = call'.errors[f] => e = f
                    /\ \A j \in DOMAIN inputs' : HadTurn(j)' /\ ~Final(inputs'[j]) =>
                          \E e \in DOMAIN call'.errors : call'.errors[e] = j
  BY TurnUnknown, Zenon DEF ErrorsExact
<1> DEFINE i == call.index
           s == call.errors
           t == call'.errors
           r == finalize_input(inputs, i, call.mall)
           due == Due(i, call.pass)
           errors == IF due THEN r.errors ELSE <<>>
<1>1. /\ i \in DOMAIN inputs /\ call.op = "finalize" /\ s \in Seq(Named)
      /\ DOMAIN inputs = DOMAIN tx.spent /\ i \in Named
  BY TxsAssumption DEF LoopInv, Turn, Named
<1>2. \A j \in DOMAIN inputs : inputs[j].utxo # None
  BY Zenon DEF Unknown
<1>3. t = s \o errors
  <2>1. DOMAIN call = {"op", "mall", "pass", "index", "errors", "before"}
    BY DEF LoopInv, Turn, NoCall
  <2>2. inputs[i].utxo # None
    BY <1>1, <1>2
  <2>3. \E pass, index : call' = [call EXCEPT !.errors = @ \o errors, !.pass = pass, !.index = index]
    BY <2>2, Zenon DEF Turn
  <2> HIDE DEF errors
  <2> QED  BY <2>1, <2>3
<1>4. inputs' = IF due THEN [inputs EXCEPT ![i] = r.input] ELSE inputs
  BY DEF Turn
<1>5. /\ \A e \in DOMAIN s : \E j \in DOMAIN inputs : s[e] = j /\ HadTurn(j)
      /\ \A e, f \in DOMAIN s : s[e] = s[f] => e = f
      /\ \A j \in DOMAIN inputs : HadTurn(j) /\ ~Final(inputs[j]) => \E e \in DOMAIN s : s[e] = j
  BY <1>1 DEF ErrorsExact
<1>6. \A j \in DOMAIN inputs :
          /\ HadTurn(j)' <=> HadTurn(j) \/ (j = i /\ due)
          /\ j = i /\ due => ~HadTurn(j)
  BY <1>1, <1>2, TurnTaken
<1>7. \/ r.errors = <<>> /\ Final(r.input)
      \/ r.errors = <<i>> /\ r.input = inputs[i]
  BY <1>1, InputOrError
<1> HIDE DEF i, s, t, r, due
<1>8. CASE errors = <<>>
  <2>1. t = s
    BY <1>1, <1>3, <1>8
  <2>2. DOMAIN inputs' = DOMAIN inputs /\ \A j \in DOMAIN inputs : j # i => inputs'[j] = inputs[j]
    BY <1>4
  <2>3. due => Final(inputs'[i])
    <3>1. due => inputs'[i] = r.input
      BY <1>1, <1>4
    <3>2. due => Final(r.input)
      <4>1. <<i>> # <<>>
        OBVIOUS
      <4> QED  BY <1>7, <1>8, <4>1, Zenon
    <3> QED  BY <3>1, <3>2
  <2>4. ~due => inputs' = inputs
    BY <1>4
  <2> QED  BY <1>5, <1>6, <2>1, <2>2, <2>3, <2>4 DEF t
<1>9. CASE errors # <<>>
  <2>1. due /\ errors = <<i>> /\ r.input = inputs[i]
    BY <1>7, <1>9
  <2>2. DOMAIN inputs' = DOMAIN inputs /\ \A j \in DOMAIN inputs : inputs'[j] = inputs[j]
    BY <1>4, <2>1
  <2>3. /\ DOMAIN t = DOMAIN s \cup {Len(s) + 1} /\ Len(s) + 1 \notin DOMAIN s
        /\ \A e \in DOMAIN s : t[e] = s[e]
        /\ t[Len(s) + 1] = i
    <3>1. t = s \o <<i>>
      BY <1>3, <2>1
    <3>2. s \in Seq(Named) /\ i \in Named
      BY <1>1
    <3> QED  BY <3>1, <3>2, OneMore
  <2>4. \A e \in DOMAIN s : s[e] # i
    BY <1>5, <1>6, <2>1
  <2> QED  BY <1>1, <1>5, <1>6, <2>1, <2>2, <2>3, <2>4 DEF t
<1> QED  BY <1>8, <1>9

(* finalize_mut returns one error for each input that it leaves.            *)
LEMMA ReturnErrors ==
    ASSUME LoopInv, ErrorsExact, Return
    PROVE  ErrorsNameInputs'
<1>1. /\ inputs' = inputs /\ call.op = "finalize" /\ call.index > Len(tx.spent)
      /\ result'.errors = IF call.errors = <<>> THEN interpreter_check(inputs) ELSE call.errors
  BY DEF Return, Returned
<1>2. call.errors = <<>> => interpreter_check(inputs) = <<>>
  BY <1>1, LoopPasses DEF PassesSuffice
<1>3. result'.errors = call.errors
  BY <1>1, <1>2
<1>4. \A i \in DOMAIN inputs : HadTurn(i)
  BY <1>1, TxsAssumption DEF LoopInv, HadTurn, Visited
<1> SUFFICES ASSUME Unknown(inputs) = {}
             PROVE  /\ Missing(inputs) \subseteq {call.errors[e] : e \in DOMAIN call.errors}
                    /\ \A e, f \in DOMAIN call.errors : call.errors[e] = call.errors[f] => e = f
  BY <1>1, <1>3 DEF ErrorsNameInputs, Missing, Unknown
<1> QED  BY <1>1, <1>4 DEF ErrorsExact, Missing

(* The errors that finalize_mut returns name the inputs that it leaves, in  *)
(* every state.                                                             *)
THEOREM ErrorsInvariant == Spec => []ErrorsInv
<1>1. Init => ErrorsInv
  BY DEF Init, ErrorsInv, ErrorsExact, ErrorsNameInputs, Returned, NoCall
<1>2. ASSUME LoopInv, LoopInv', ErrorsInv, [Next]_vars  PROVE ErrorsInv'
  <2>0. ASSUME result'.op # "finalize", call'.op # "finalize"  PROVE ErrorsInv'
    BY <2>0 DEF ErrorsInv, ErrorsExact, ErrorsNameInputs
  <2>1. CASE Edits
    <3>1. /\ result' = Returned("edit", <<>>, FALSE, <<>>)
          /\ call.op = "idle" /\ call' = call
      BY <2>1, Zenon DEF Edits, AddUtxo, Sign, DeclareSighash, Combine, AddScripts,
                         update_input_with_descriptor, Edit, Idle
    <3> QED  BY <2>0, <3>1 DEF Returned
  <2>2. CASE \E i \in DOMAIN inputs, mall \in BOOLEAN : finalize_inp_mut(i, mall)
    BY <2>0, <2>2 DEF finalize_inp_mut, Returned, Idle
  <2>3. CASE \E mall \in BOOLEAN : finalize_mut(mall)
    <3>1. PICK mall \in BOOLEAN : finalize_mut(mall)
      BY <2>3
    <3>2. CASE ~sanity_check(inputs)
      BY <2>0, <3>1, <3>2 DEF finalize_mut, Returned, Idle
    <3>3. CASE sanity_check(inputs)
      <4>1. /\ call' = [NoCall EXCEPT !.op = "finalize", !.mall = mall, !.before = inputs]
            /\ result'.op = "none" /\ inputs' = inputs /\ tx' = tx
        BY <3>1, <3>3 DEF finalize_mut, Returned
      <4>2. call'.errors = <<>> /\ call'.pass = 1 /\ call'.index = 1
        BY <4>1 DEF NoCall
      <4>3. DOMAIN inputs = 1..Len(tx.spent) /\ Len(tx.spent) \in Nat
        BY <1>2, TxsAssumption DEF LoopInv
      <4>4. \A i \in DOMAIN inputs' : ~HadTurn(i)'
        BY <4>1, <4>2, <4>3 DEF HadTurn, Visited
      <4> QED  BY <4>1, <4>2, <4>4 DEF ErrorsInv, ErrorsExact, ErrorsNameInputs
    <3> QED  BY <3>2, <3>3
  <2>4. CASE Turn
    <3>1. ErrorsExact'
      BY <1>2, <2>4, TurnKeepsErrors DEF ErrorsInv
    <3>2. result' = result /\ call.op = "finalize"
      BY <2>4 DEF Turn
    <3> QED  BY <1>2, <3>1, <3>2 DEF ErrorsInv, ErrorsNameInputs
  <2>5. CASE Return
    <3>1. ErrorsNameInputs'
      BY <1>2, <2>5, ReturnErrors DEF ErrorsInv
    <3>2. call'.op = "idle"
      BY <2>5 DEF Return, NoCall
    <3> QED  BY <3>1, <3>2 DEF ErrorsInv, ErrorsExact
  <2>6. CASE Panic
    <3>1. call'.op = "panic" /\ result' = result /\ inputs' = inputs
      BY <2>6 DEF Panic, NoCall
    <3> QED  BY <1>2, <3>1 DEF ErrorsInv, ErrorsExact, ErrorsNameInputs, Unknown, Missing
  <2>7. CASE extract
    BY <2>0, <2>7 DEF extract, Returned, Idle
  <2>8. CASE UNCHANGED vars
    BY <1>2, <2>8 DEF vars, ErrorsInv, ErrorsExact, ErrorsNameInputs, Unknown, Missing,
                      HadTurn, Visited, native_witness
  <2> QED  BY <1>2, <2>1, <2>2, <2>3, <2>4, <2>5, <2>6, <2>7, <2>8, Zenon DEF Next, Edits
<1> QED  BY <1>1, <1>2, LoopInvariant, PTL DEF Spec

-----------------------------------------------------------------------------
(* The satisfier of an input and the interpreter agree.                     *)

(* The least index.                                                         *)
LEMMA FirstIn ==
    ASSUME NEW S \in SUBSET Nat, S # {}
    PROVE  First(S) \in S
BY NatMin DEF First

(* What satisfy returns: an available path with its signatures, if any.     *)
LEMMA SatisfyIs ==
    ASSUME NEW ins, NEW i, NEW s \in DOMAIN Paths, NEW leaf, NEW mall
    PROVE  satisfy(ins, i, s, leaf, mall) # None =>
               \E p \in DOMAIN Paths[s] :
                   /\ Available(ins, i, Paths[s][p], leaf, mall)
                   /\ satisfy(ins, i, s, leaf, mall) =
                         <<<<"sat", p, SigsFor(ins[i], Paths[s][p].sigs, leaf)>>>>
<1> DEFINE P == {p \in DOMAIN Paths[s] : Available(ins, i, Paths[s][p], leaf, mall)}
           q == First(P)
           x == <<"sat", q, SigsFor(ins[i], Paths[s][q].sigs, leaf)>>
<1>1. satisfy(ins, i, s, leaf, mall) = IF P = {} THEN None ELSE <<x>>
  BY DEF satisfy, Some
<1>2. P \in SUBSET Nat
  BY PathsAssumption
<1>3. P # {} => q \in P
  BY <1>2, FirstIn
<1>4. q \in P => q \in DOMAIN Paths[s] /\ Available(ins, i, Paths[s][q], leaf, mall)
  OBVIOUS
<1> HIDE DEF P, q
<1> QED  BY <1>1, <1>3, <1>4

(* satisfy finds a path if one is available.                                *)
LEMMA SatisfyFinds ==
    ASSUME NEW ins, NEW i, NEW s, NEW leaf, NEW mall, NEW p \in DOMAIN Paths[s],
           Available(ins, i, Paths[s][p], leaf, mall)
    PROVE  satisfy(ins, i, s, leaf, mall) # None
<1> DEFINE P == {q \in DOMAIN Paths[s] : Available(ins, i, Paths[s][q], leaf, mall)}
           x == <<"sat", First(P), SigsFor(ins[i], Paths[s][First(P)].sigs, leaf)>>
<1>1. satisfy(ins, i, s, leaf, mall) = IF P = {} THEN None ELSE <<x>>
  BY DEF satisfy, Some
<1>2. P # {}
  OBVIOUS
<1>3. <<x>> # None
  BY DEF None
<1> HIDE DEF P, x
<1> QED  BY <1>1, <1>2, <1>3

\* An input that is not final yet, in a PSBT that passes sanity_check, with
\* valid signatures.
Ready(ins, i) ==
    /\ i \in DOMAIN ins /\ ~Final(ins[i]) /\ sanity_check(ins)
    /\ \A sig \in ins[i].sigs : sig.good

(* The interpreter accepts a signature of the satisfier.                    *)
LEMMA KeyAccepted ==
    ASSUME NEW ins, NEW i, NEW ss, NEW wit, NEW key, NEW leaf, NEW sig, Ready(ins, i),
           sig \in SigsFor(ins[i], {key}, leaf),
           from_txdata(tx.spent[i], ss, wit) = PublicKey(key, leaf, <<<<"sig", sig>>>>)
    PROVE  interpreter_inp_check(ins, i, ss, wit)
<1> DEFINE x == from_txdata(tx.spent[i], ss, wit)
<1>1. x # None /\ x[1] = [inner |-> "key", name |-> key, leaf |-> leaf, stack |-> <<<<"sig", sig>>>>]
  BY DEF PublicKey, Some, None
<1> HIDE DEF x
<1>2. /\ x[1].inner = "key" /\ x[1].name = key /\ x[1].leaf = leaf
      /\ x[1].stack = <<<<"sig", sig>>>>
  BY <1>1
<1>3. Len(x[1].stack) = 1 /\ x[1].stack[1] = <<"sig", sig>>
  BY <1>2
<1>4. Sigs(x[1].stack) = {sig} /\ x[1].stack[1][1] = "sig"
  BY <1>3 DEF Sigs
<1>5. sig \in ins[i].sigs /\ sig.key = key /\ sig.leaf = leaf /\ sig.good
  BY DEF SigsFor, Ready
<1>6. check_sighash_type(ins[i], sig)
  BY <1>5, Zenon DEF Ready, sanity_check, Insane
<1>7. {y.key : y \in Sigs(x[1].stack)} = {key}
  BY <1>4, <1>5
<1>8. Signed(x[1])
  BY <1>2, <1>3, <1>4, <1>5, <1>7 DEF Signed
<1> QED  BY <1>1, <1>2, <1>4, <1>6, <1>8 DEF interpreter_inp_check, x

(* The interpreter accepts a path that is available to the satisfier, if    *)
(* its template, if any, is one of the transaction.                         *)
LEMMA PathAccepted ==
    ASSUME NEW ins, NEW i, NEW ss, NEW wit, NEW s, NEW p, NEW leaf, NEW mall, Ready(ins, i),
           p \in DOMAIN Paths[s], Provided(ins, i, Paths[s][p], leaf, mall),
           Paths[s][p].template # None =>
               Paths[s][p].template[1] = get_ctv_hash(Candidate(ins, i, ss), i),
           from_txdata(tx.spent[i], ss, wit) =
               Script(s, leaf, <<<<"sat", p, SigsFor(ins[i], Paths[s][p].sigs, leaf)>>>>)
    PROVE  interpreter_inp_check(ins, i, ss, wit)
<1> DEFINE x == from_txdata(tx.spent[i], ss, wit)
           S == SigsFor(ins[i], Paths[s][p].sigs, leaf)
           path == Paths[s][p]
<1>1. x # None /\ x[1] = [inner |-> "script", name |-> s, leaf |-> leaf, stack |-> <<<<"sat", p, S>>>>]
  BY DEF Script, Some, None
<1> HIDE DEF x, S
<1>2. /\ x[1].inner = "script" /\ x[1].name = s /\ x[1].leaf = leaf
      /\ x[1].stack = <<<<"sat", p, S>>>>
  BY <1>1
<1>3. Len(x[1].stack) = 1 /\ x[1].stack[1] = <<"sat", p, S>>
  BY <1>2
<1>4. Sigs(x[1].stack) = S /\ x[1].stack[1][1] = "sat" /\ x[1].stack[1][2] = p
  BY <1>3 DEF Sigs
<1>5. \A sig \in S : sig \in ins[i].sigs /\ sig.leaf = leaf /\ sig.good
  BY DEF S, SigsFor, Ready
<1>6. \A sig \in S : check_sighash_type(ins[i], sig)
  BY <1>5, Zenon DEF Ready, sanity_check, Insane
<1>7. PathOf(x[1]) = path
  BY <1>2, <1>4 DEF PathOf
<1>8. {y.key : y \in S} = path.sigs
  BY DEF Provided, S
<1>9. Signed(x[1])
  BY <1>2, <1>3, <1>4, <1>5, <1>7, <1>8 DEF Signed
<1>10. /\ path.after > 0 => path.after <= tx.lock_time /\ check_after(i, path.after)
       /\ path.older > 0 => path.older <= tx.sequence[i] /\ check_older(i, path.older)
  BY DEF Provided, check_after, check_older
<1> HIDE DEF path
<1>11. path.template # None => path.template[1] = get_ctv_hash(Candidate(ins, i, ss), i)
  BY DEF path
<1> QED  BY <1>1, <1>2, <1>4, <1>6, <1>7, <1>9, <1>10, <1>11 DEF interpreter_inp_check, x

(* What was put at the end of a stack.                                      *)
LEMMA FrontLast ==
    ASSUME NEW S, NEW s \in Seq(S), NEW b \in S
    PROVE  /\ s \o <<b>> # <<>> /\ Len(s \o <<b>>) = Len(s) + 1
           /\ Last(s \o <<b>>) = b /\ Front(s \o <<b>>) = s
<1> DEFINE t == s \o <<b>>
<1>1. /\ t \in Seq(S) /\ Len(s) \in Nat /\ Len(t) = Len(s) + 1 /\ t[Len(s) + 1] = b
      /\ \A j \in 1..Len(s) : t[j] = s[j]
  OBVIOUS
<1> HIDE DEF t
<1>2. t # <<>> /\ t[Len(t)] = b
  BY <1>1
<1> DEFINE f == SubSeq(t, 1, Len(t) - 1)
<1>3. f \in Seq(S) /\ Len(f) = Len(s) /\ \A j \in 1..Len(s) : f[j] = t[j]
  BY <1>1
<1> HIDE DEF f
<1>4. f = s
  BY <1>1, <1>3, SeqEqual
<1> QED  BY <1>1, <1>2, <1>4 DEF Front, Last, f, t

(* The ends of short stacks.                                                *)
LEMMA Ends ==
    /\ \A a, b : /\ <<a>> \o <<b>> # <<>>
                  /\ Last(<<a>> \o <<b>>) = b /\ Front(<<a>> \o <<b>>) = <<a>>
    /\ \A a, b, c : /\ <<a>> \o <<b, c>> # <<>> /\ Len(<<a>> \o <<b, c>>) = 3
                     /\ Last(<<a>> \o <<b, c>>) = c
                     /\ Last(Front(<<a>> \o <<b, c>>)) = b
                     /\ Front(Front(<<a>> \o <<b, c>>)) = <<a>>
<1>1. ASSUME NEW a, NEW b
      PROVE  /\ <<a>> \o <<b>> # <<>> /\ Len(<<a>> \o <<b>>) = 2
             /\ Last(<<a>> \o <<b>>) = b /\ Front(<<a>> \o <<b>>) = <<a>>
  <2> DEFINE s == <<a>>
             S == {a, b}
  <2>1. s \in Seq(S) /\ Len(s) = 1 /\ b \in S
    OBVIOUS
  <2> HIDE DEF s, S
  <2>2. /\ s \o <<b>> # <<>> /\ Len(s \o <<b>>) = Len(s) + 1
        /\ Last(s \o <<b>>) = b /\ Front(s \o <<b>>) = s
    BY <2>1, FrontLast
  <2> QED  BY <2>1, <2>2 DEF s
<1>2. ASSUME NEW a, NEW b, NEW c
      PROVE  /\ <<a>> \o <<b, c>> # <<>> /\ Len(<<a>> \o <<b, c>>) = 3
             /\ Last(<<a>> \o <<b, c>>) = c
             /\ Last(Front(<<a>> \o <<b, c>>)) = b
             /\ Front(Front(<<a>> \o <<b, c>>)) = <<a>>
  <2> DEFINE S == {a, b, c}
             x == <<a>> \o <<b, c>>
             y == <<a>> \o <<b>>
             z == y \o <<c>>
  <2>0. a \in S /\ b \in S /\ c \in S
    OBVIOUS
  <2> HIDE DEF S
  <2>1. x \in Seq(S) /\ Len(x) = 3 /\ x[1] = a /\ x[2] = b /\ x[3] = c
    BY <2>0
  <2>2. y \in Seq(S) /\ Len(y) = 2 /\ y[1] = a /\ y[2] = b
    BY <2>0
  <2> HIDE DEF y
  <2>3. z \in Seq(S) /\ Len(z) = 3 /\ z[1] = a /\ z[2] = b /\ z[3] = c
    <3> DEFINE w == <<c>>
    <3>1. w \in Seq(S) /\ Len(w) = 1 /\ w[1] = c
      BY <2>0
    <3> HIDE DEF w
    <3>2. /\ y \o w \in Seq(S) /\ Len(y \o w) = Len(y) + Len(w)
          /\ \A j \in 1..Len(y) + Len(w) :
                (y \o w)[j] = IF j <= Len(y) THEN y[j] ELSE w[j - Len(y)]
      BY <2>2, <3>1, ConcatProperties
    <3>3. (y \o w)[1] = a /\ (y \o w)[2] = b /\ (y \o w)[3] = c /\ Len(y \o w) = 3
      BY <2>2, <3>1, <3>2
    <3> QED  BY <3>2, <3>3 DEF w
  <2>4. z # <<>> /\ Last(z) = c /\ Front(z) = y
    BY <2>0, <2>2, FrontLast
  <2> HIDE DEF x, z
  <2>5. x = z
    BY <2>1, <2>3, SeqEqual
  <2>6. Last(y) = b /\ Front(y) = <<a>>
    BY <1>1 DEF y
  <2> QED  BY <2>3, <2>4, <2>5, <2>6 DEF x
<1> QED  BY <1>1, <1>2

(* The scriptSig and the witness that spend an output lead from_txdata back *)
(* to the key or the script and the stack.                                  *)
LEMMA UnlockKey ==
    ASSUME NEW o, NEW e, o.kind \in KeyKinds
    PROVE  LET sat == Unlock(o, <<e>>)[1]
           IN  from_txdata(o, sat.script_sig, sat.witness) = PublicKey(o.key, "ecdsa", <<e>>)
<1>1. CASE o.kind = "pk"
  BY <1>1 DEF Unlock, Satisfaction, Some, from_txdata
<1>2. CASE o.kind = "pkh"
  <2> DEFINE t == <<e>> \o <<<<"key", o.key>>>>
  <2>1. t # <<>> /\ Last(t) = <<"key", o.key>> /\ Front(t) = <<e>>
    BY Ends, Zenon
  <2> HIDE DEF t
  <2>2. Unlock(o, <<e>>)[1].script_sig = t /\ Unlock(o, <<e>>)[1].witness = <<>>
    BY <1>2 DEF Unlock, Satisfaction, Some, t
  <2> QED  BY <1>2, <2>1, <2>2 DEF from_txdata, TopKey
<1>3. CASE o.kind = "wpkh"
  <2> DEFINE t == <<e>> \o <<<<"key", o.key>>>>
  <2>1. t # <<>> /\ Last(t) = <<"key", o.key>> /\ Front(t) = <<e>>
    BY Ends, Zenon
  <2> HIDE DEF t
  <2>2. Unlock(o, <<e>>)[1].script_sig = <<>> /\ Unlock(o, <<e>>)[1].witness = t
    BY <1>3 DEF Unlock, Satisfaction, Some, t
  <2> QED  BY <1>3, <2>1, <2>2 DEF from_txdata, TopKey
<1>4. CASE o.kind = "shwpkh"
  <2> DEFINE t == <<e>> \o <<<<"key", o.key>>>>
  <2>1. t # <<>> /\ Last(t) = <<"key", o.key>> /\ Front(t) = <<e>>
    BY Ends, Zenon
  <2> HIDE DEF t
  <2>2. /\ Unlock(o, <<e>>)[1].script_sig = <<<<"redeem", Redeem(o)>>>>
        /\ Unlock(o, <<e>>)[1].witness = t
    BY <1>4 DEF Unlock, Satisfaction, Some, t
  <2> QED  BY <1>4, <2>1, <2>2 DEF from_txdata, TopKey
<1> QED  BY <1>1, <1>2, <1>3, <1>4 DEF KeyKinds

LEMMA UnlockScript ==
    ASSUME NEW o, NEW e, o.kind \in {"bare", "wsh", "sh", "shwsh"}
    PROVE  LET sat == Unlock(o, <<e>>)[1]
           IN  from_txdata(o, sat.script_sig, sat.witness) = Script(o.script, "ecdsa", <<e>>)
<1>1. CASE o.kind = "bare"
  BY <1>1 DEF Unlock, Satisfaction, Some, from_txdata
<1>2. CASE o.kind = "wsh"
  <2> DEFINE t == <<e>> \o <<<<"script", o.script>>>>
  <2>1. t # <<>> /\ Last(t) = <<"script", o.script>> /\ Front(t) = <<e>>
    BY Ends, Zenon
  <2> HIDE DEF t
  <2>2. Unlock(o, <<e>>)[1].script_sig = <<>> /\ Unlock(o, <<e>>)[1].witness = t
    BY <1>2 DEF Unlock, Satisfaction, Some, t
  <2> QED  BY <1>2, <2>1, <2>2 DEF from_txdata, TopScript
<1>3. CASE o.kind = "sh"
  <2> DEFINE t == <<e>> \o <<<<"redeem", Redeem(o)>>>>
  <2>1. t # <<>> /\ Last(t) = <<"redeem", Redeem(o)>> /\ Front(t) = <<e>>
    BY Ends, Zenon
  <2> HIDE DEF t
  <2>2. Unlock(o, <<e>>)[1].script_sig = t /\ Unlock(o, <<e>>)[1].witness = <<>>
    BY <1>3 DEF Unlock, Satisfaction, Some, t
  <2> QED  BY <1>3, <2>1, <2>2 DEF from_txdata
<1>4. CASE o.kind = "shwsh"
  <2> DEFINE t == <<e>> \o <<<<"script", o.script>>>>
  <2>1. t # <<>> /\ Last(t) = <<"script", o.script>> /\ Front(t) = <<e>>
    BY Ends, Zenon
  <2> HIDE DEF t
  <2>2. /\ Unlock(o, <<e>>)[1].script_sig = <<<<"redeem", Redeem(o)>>>>
        /\ Unlock(o, <<e>>)[1].witness = t
    BY <1>4 DEF Unlock, Satisfaction, Some, t
  <2> QED  BY <1>4, <2>1, <2>2 DEF from_txdata, TopScript
<1> QED  BY <1>1, <1>2, <1>3, <1>4

LEMMA UnlockTr ==
    ASSUME NEW o, NEW e, o.kind = "tr"
    PROVE  /\ from_txdata(o, <<>>, <<e>>) = PublicKey(o.key, "key", <<e>>)
           /\ \A j \in DOMAIN o.leaves :
                 LET l == o.leaves[j]
                     sat == UnlockLeaf(l, <<e>>)[1]
                 IN  /\ from_txdata(o, sat.script_sig, sat.witness) = Script(l, l, <<e>>)
                     /\ sat.script_sig = <<>>
<1>1. from_txdata(o, <<>>, <<e>>) = PublicKey(o.key, "key", <<e>>)
  BY DEF from_txdata
<1>2. ASSUME NEW j \in DOMAIN o.leaves
      PROVE  LET l == o.leaves[j]
                 sat == UnlockLeaf(l, <<e>>)[1]
             IN  /\ from_txdata(o, sat.script_sig, sat.witness) = Script(l, l, <<e>>)
                 /\ sat.script_sig = <<>>
  <2> DEFINE l == o.leaves[j]
             a == <<"script", l>>
             b == <<"control", l>>
             t == <<e>> \o <<a, b>>
             sat == UnlockLeaf(l, <<e>>)[1]
  <2> HIDE DEF a, b
  <2>1. /\ t # <<>> /\ Len(t) = 3 /\ Last(t) = b /\ Last(Front(t)) = a
        /\ Front(Front(t)) = <<e>>
    BY Ends
  <2>2. sat.script_sig = <<>> /\ sat.witness = t
    BY DEF UnlockLeaf, Satisfaction, Some, a, b
  <2>3. b[1] = "control" /\ b[2] = l
    BY DEF b
  <2> HIDE DEF t, sat
  <2>4. from_txdata(o, <<>>, t) = Script(l, l, <<e>>)
    BY <2>1, <2>3 DEF from_txdata, a
  <2> QED  BY <2>2, <2>4 DEF sat
<1> QED  BY <1>1, <1>2

(* The leaf that construct_tap_witness takes is one of those it can take.   *)
LEMMA BestLeaf ==
    ASSUME NEW n \in Nat, NEW J \in SUBSET (1..n), J # {},
           NEW size \in [J -> Nat]
    PROVE  LET best == CHOOSE j \in J :
                           \A l \in J : size[j] < size[l] \/ (size[j] = size[l] /\ l <= j)
           IN  best \in J
<1> DEFINE T == {size[j] : j \in J}
<1>1. PICK m \in T : \A y \in T : m <= y
  <2>1. T \in SUBSET Nat /\ T # {}
    OBVIOUS
  <2> QED  BY <2>1, NatMin
<1> DEFINE K == {j \in J : size[j] = m}
<1>2. PICK k \in K : \A l \in K : l <= k
  <2>0. \E j \in J : size[j] = m
    BY <1>1
  <2>2. J \in SUBSET (0..n)
    OBVIOUS
  <2>3. K # {}
    BY <2>0
  <2>1. K \in SUBSET (0..n) /\ K # {}
    BY <2>2, <2>3
  <2> QED  BY <2>1, NatMax
<1>3. \A l \in J : size[k] < size[l] \/ (size[k] = size[l] /\ l <= k)
  <2> SUFFICES ASSUME NEW l \in J
               PROVE  size[k] < size[l] \/ (size[k] = size[l] /\ l <= k)
    OBVIOUS
  <2>1. size[k] = m /\ m <= size[l] /\ m \in Nat /\ size[l] \in Nat
    BY <1>1, <1>2
  <2>2. size[l] = m => l <= k
    BY <1>2
  <2> QED  BY <2>1, <2>2
<1>4. k \in J
  BY <1>2
<1> QED  BY <1>3, <1>4

(* What Signature returns.                                                  *)
LEMMA SignatureIs ==
    ASSUME NEW ins, NEW i, NEW leaf
    PROVE  LET S == SigsFor(ins[i], {tx.spent[i].key}, leaf)
           IN  /\ S # {} => Signature(ins, i, leaf) # None
               /\ Signature(ins, i, leaf) # None =>
                     \E sig \in S : Signature(ins, i, leaf) = <<<<"sig", sig>>>>
<1> DEFINE S == SigsFor(ins[i], {tx.spent[i].key}, leaf)
           x == CHOOSE sig \in S : TRUE
<1>1. Signature(ins, i, leaf) = IF S = {} THEN None ELSE <<<<"sig", x>>>>
  BY DEF Signature, Some
<1>2. S # {} => x \in S
  OBVIOUS
<1>3. <<<<"sig", x>>>> # None
  BY DEF None
<1> HIDE DEF S, x
<1>4. S # {} => Signature(ins, i, leaf) # None
  BY <1>1, <1>3
<1>5. Signature(ins, i, leaf) # None => \E sig \in S : Signature(ins, i, leaf) = <<<<"sig", sig>>>>
  BY <1>1, <1>2
<1> QED  BY <1>4, <1>5 DEF S

(* The interpreter accepts what the satisfier of an input makes of valid    *)
(* signatures, for every kind of output but Taproot.                        *)
LEMMA PlainAccepted ==
    ASSUME NEW ins, NEW i, NEW mall, tx \in Txs, i \in DOMAIN tx.spent, Ready(ins, i),
           tx.spent[i].kind # "tr", get_satisfaction(ins, i, mall) # None
    PROVE  LET sat == get_satisfaction(ins, i, mall)[1]
           IN  interpreter_inp_check(ins, i, sat.script_sig, sat.witness)
<1> DEFINE o == tx.spent[i]
<1>0. o.kind \in KeyKinds \cup {"wsh", "sh", "shwsh", "bare"}
  BY TxsAssumption DEF KeyKinds
<1>1. CASE o.kind \in KeyKinds
  <2>1. Signature(ins, i, "ecdsa") # None /\ get_satisfaction(ins, i, mall) = Unlock(o, Signature(ins, i, "ecdsa"))
    BY <1>1 DEF get_satisfaction
  <2>2. PICK sig \in SigsFor(ins[i], {o.key}, "ecdsa") : Signature(ins, i, "ecdsa") = <<<<"sig", sig>>>>
    BY <2>1, SignatureIs
  <2> DEFINE e == <<"sig", sig>>
             sat == Unlock(o, <<e>>)[1]
  <2>3. from_txdata(o, sat.script_sig, sat.witness) = PublicKey(o.key, "ecdsa", <<e>>)
    BY <1>1, UnlockKey
  <2>4. interpreter_inp_check(ins, i, sat.script_sig, sat.witness)
    <3> HIDE DEF sat
    <3> QED  BY <2>2, <2>3, KeyAccepted
  <2> QED  BY <2>1, <2>2, <2>4
<1>2. CASE o.kind \in {"wsh", "sh", "shwsh", "bare"}
  <2> DEFINE s == o.script
             x == satisfy(ins, i, s, "ecdsa", mall)
  <2>1. x # None /\ get_satisfaction(ins, i, mall) = Unlock(o, x)
    BY <1>2 DEF get_satisfaction, KeyKinds
  <2>2. s \in DOMAIN Paths
    BY <1>2, TxsAssumption
  <2>3. PICK p \in DOMAIN Paths[s] :
            /\ Available(ins, i, Paths[s][p], "ecdsa", mall)
            /\ x = <<<<"sat", p, SigsFor(ins[i], Paths[s][p].sigs, "ecdsa")>>>>
    BY <2>1, <2>2, SatisfyIs
  <2> DEFINE e == <<"sat", p, SigsFor(ins[i], Paths[s][p].sigs, "ecdsa")>>
             sat == Unlock(o, <<e>>)[1]
             path == Paths[s][p]
  <2>4. from_txdata(o, sat.script_sig, sat.witness) = Script(o.script, "ecdsa", <<e>>)
    BY <1>2, UnlockScript
  <2>5. path.template # None => path.template[1] = get_ctv_hash(Candidate(ins, i, sat.script_sig), i)
    <3>1. CASE o.kind = "wsh"
      <4>1. sat.script_sig = <<>>
        BY <3>1 DEF Unlock, Satisfaction, Some
      <4>2. unwrap_or_default(ins[i].final_script_sig) = <<>>
        BY DEF Ready, Final, unwrap_or_default
      <4> HIDE DEF sat
      <4> QED  BY <2>3, <4>1, <4>2 DEF Available, check_tx_template
    <3>2. CASE o.kind \in {"sh", "shwsh", "bare"}
      BY <3>2, TxsAssumption DEF None
    <3> QED  BY <1>2, <3>1, <3>2
  <2>6. Provided(ins, i, path, "ecdsa", mall)
    BY <2>3 DEF Available
  <2>7. interpreter_inp_check(ins, i, sat.script_sig, sat.witness)
    <3> HIDE DEF sat
    <3> QED  BY <2>4, <2>5, <2>6, PathAccepted
  <2> QED  BY <2>1, <2>3, <2>7
<1> QED  BY <1>0, <1>1, <1>2

(* The same for Taproot.                                                    *)
LEMMA TapAccepted ==
    ASSUME NEW ins, NEW i, NEW mall, tx \in Txs, i \in DOMAIN tx.spent, Ready(ins, i),
           tx.spent[i].kind = "tr", construct_tap_witness(ins, i, mall) # None
    PROVE  LET sat == construct_tap_witness(ins, i, mall)[1]
           IN  interpreter_inp_check(ins, i, sat.script_sig, sat.witness)
<1> DEFINE o == tx.spent[i]
           key == Signature(ins, i, "key")
           J == {j \in Leaves(ins, i) : LeafSat(ins, i, j, mall) # None}
           size(j) == LeafSize(ins, i, j, mall)
           best == CHOOSE j \in J : \A l \in J : size(j) < size(l) \/ (size(j) = size(l) /\ l <= j)
           leaf == o.leaves[best]
           witness == construct_tap_witness(ins, i, mall)
<1>1. witness = IF key # None THEN Satisfaction(<<>>, key)
                ELSE IF J = {} THEN None ELSE UnlockLeaf(leaf, LeafSat(ins, i, best, mall))
  BY DEF construct_tap_witness, LeafWitness, MinWitness, Better
<1>2. CASE key # None
  <2>1. PICK sig \in SigsFor(ins[i], {o.key}, "key") : key = <<<<"sig", sig>>>>
    BY <1>2, SignatureIs
  <2>2. witness[1].script_sig = <<>> /\ witness[1].witness = key
    BY <1>1, <1>2 DEF Satisfaction, Some
  <2>3. from_txdata(o, <<>>, key) = PublicKey(o.key, "key", <<<<"sig", sig>>>>)
    BY <2>1, UnlockTr
  <2>4. interpreter_inp_check(ins, i, <<>>, key)
    <3> HIDE DEF key
    <3> QED  BY <2>1, <2>3, KeyAccepted
  <2> QED  BY <2>2, <2>4
<1>3. CASE key = None
  <2>1. J # {} /\ witness = UnlockLeaf(leaf, LeafSat(ins, i, best, mall))
    BY <1>1, <1>3
  <2>2. /\ Len(o.leaves) \in Nat /\ J \in SUBSET (1..Len(o.leaves))
        /\ \A j \in DOMAIN o.leaves : o.leaves[j] \in DOMAIN Paths
        /\ J \subseteq DOMAIN o.leaves
    BY TxsAssumption DEF Leaves
  <2>3. ASSUME NEW j \in J
        PROVE  \E p \in DOMAIN Paths[o.leaves[j]] :
                  /\ Available(ins, i, Paths[o.leaves[j]][p], o.leaves[j], mall)
                  /\ LeafSat(ins, i, j, mall) =
                        <<<<"sat", p, SigsFor(ins[i], Paths[o.leaves[j]][p].sigs, o.leaves[j])>>>>
    <3>1. \A l \in DOMAIN Paths :
              satisfy(ins, i, l, l, mall) # None =>
                  \E p \in DOMAIN Paths[l] :
                     /\ Available(ins, i, Paths[l][p], l, mall)
                     /\ satisfy(ins, i, l, l, mall) = <<<<"sat", p, SigsFor(ins[i], Paths[l][p].sigs, l)>>>>
      BY SatisfyIs
    <3>2. o.leaves[j] \in DOMAIN Paths /\ LeafSat(ins, i, j, mall) # None
      BY <2>2, <2>3
    <3> QED  BY <3>1, <3>2, Zenon DEF LeafSat
  <2>4. \A j \in J : size(j) \in Nat
    <3> SUFFICES ASSUME NEW j \in J  PROVE size(j) \in Nat
      OBVIOUS
    <3> DEFINE l == o.leaves[j]
    <3>1. PICK p \in DOMAIN Paths[l] :
              LeafSat(ins, i, j, mall) = <<<<"sat", p, SigsFor(ins[i], Paths[l][p].sigs, l)>>>>
      BY <2>3
    <3>2. LeafSat(ins, i, j, mall)[1][2] = p
      BY <3>1
    <3>3. l \in DOMAIN Paths
      BY <2>2
    <3> QED  BY <3>2, <3>3, PathsAssumption DEF LeafSize
  <2>5. best \in J
    <3> HIDE DEF J
    <3> DEFINE f == [j \in J |-> size(j)]
               b == CHOOSE j \in J : \A l \in J : f[j] < f[l] \/ (f[j] = f[l] /\ l <= j)
    <3> HIDE DEF size
    <3>1. f \in [J -> Nat] /\ \A j \in J : f[j] = size(j)
      BY <2>4
    <3>2. b \in J
      <4> HIDE DEF f
      <4> QED  BY <2>1, <2>2, <3>1, BestLeaf
    <3>3. b = best
      <4> HIDE DEF f
      <4> QED  BY <3>1
    <3> QED  BY <3>2, <3>3
  <2> HIDE DEF best
  <2>6. PICK p \in DOMAIN Paths[leaf] :
            /\ Available(ins, i, Paths[leaf][p], leaf, mall)
            /\ LeafSat(ins, i, best, mall) = <<<<"sat", p, SigsFor(ins[i], Paths[leaf][p].sigs, leaf)>>>>
    BY <2>3, <2>5
  <2> DEFINE e == <<"sat", p, SigsFor(ins[i], Paths[leaf][p].sigs, leaf)>>
             sat == UnlockLeaf(leaf, <<e>>)[1]
             path == Paths[leaf][p]
  <2>7. /\ from_txdata(o, sat.script_sig, sat.witness) = Script(leaf, leaf, <<e>>)
        /\ sat.script_sig = <<>>
    BY <2>2, <2>5, UnlockTr
  <2>8. path.template # None => path.template[1] = get_ctv_hash(Candidate(ins, i, <<>>), i)
    <3>1. unwrap_or_default(ins[i].final_script_sig) = <<>>
      BY DEF Ready, Final, unwrap_or_default
    <3> QED  BY <2>6, <3>1 DEF Available, check_tx_template
  <2>9. Provided(ins, i, path, leaf, mall)
    BY <2>6 DEF Available
  <2>10. interpreter_inp_check(ins, i, sat.script_sig, sat.witness)
    <3> HIDE DEF sat, leaf
    <3>1. Ready(ins, i) /\ p \in DOMAIN Paths[leaf] /\ Provided(ins, i, Paths[leaf][p], leaf, mall)
      BY <2>6, <2>9
    <3>2. from_txdata(tx.spent[i], sat.script_sig, sat.witness) =
              Script(leaf, leaf, <<<<"sat", p, SigsFor(ins[i], Paths[leaf][p].sigs, leaf)>>>>)
      BY <2>7
    <3>3. Paths[leaf][p].template # None =>
              Paths[leaf][p].template[1] = get_ctv_hash(Candidate(ins, i, sat.script_sig), i)
      BY <2>7, <2>8, Zenon
    <3> QED  BY <3>1, <3>2, <3>3, PathAccepted
  <2>11. witness[1] = sat
    BY <2>1, <2>6
  <2> HIDE DEF sat, witness
  <2>12. interpreter_inp_check(ins, i, witness[1].script_sig, witness[1].witness)
    BY <2>10, <2>11
  <2> QED  BY <2>12 DEF witness
<1> QED  BY <1>2, <1>3

-----------------------------------------------------------------------------
(* What the PSBT offers, and what the satisfier finds.                      *)

\* The stack of path p of the script s.
Stack(p, S) == <<<<"sat", p, S>>>>

\* The ways to spend an output: with the key of a plain output, along a path of
\* its script, with the key of a Taproot output, or along a path of a leaf.
KeyOption(ins, i) ==
    LET o == tx.spent[i]
    IN  o.kind \in KeyKinds /\ get_descriptor(ins, i) /\ SigsFor(ins[i], {o.key}, "ecdsa") # {}
ScriptOption(ins, i, mall, x) ==
    LET o == tx.spent[i]
    IN  /\ o.kind \in {"wsh", "sh", "shwsh", "bare"} /\ get_descriptor(ins, i)
        /\ \E p \in DOMAIN Paths[o.script] : \E S :
              /\ Provided(ins, i, Paths[o.script][p], "ecdsa", mall)
              /\ x = Unlock(o, Stack(p, S))[1]
TapKeyOption(ins, i) ==
    LET o == tx.spent[i]
    IN  o.kind = "tr" /\ SigsFor(ins[i], {o.key}, "key") # {}
LeafOption(ins, i, mall, x) ==
    LET o == tx.spent[i]
    IN  /\ o.kind = "tr"
        /\ \E j \in DOMAIN o.leaves : \E p \in DOMAIN Paths[o.leaves[j]] : \E S :
              /\ o.leaves[j] \in ins[i].tap_scripts
              /\ Provided(ins, i, Paths[o.leaves[j]][p], o.leaves[j], mall)
              /\ x = UnlockLeaf(o.leaves[j], Stack(p, S))[1]

LEMMA UnlockWsh ==
    ASSUME NEW o, o.kind = "wsh", NEW stack
    PROVE  Unlock(o, stack)[1].script_sig = <<>>
<1>1. Unlock(o, stack) = Satisfaction(<<>>, stack \o <<<<"script", o.script>>>>)
  BY DEF Unlock
<1> QED  BY <1>1 DEF Satisfaction, Some

(* There are no other options, and none gives a native input a scriptSig.   *)
LEMMA OptionIs ==
    ASSUME NEW ins, NEW i, NEW mall, NEW x \in Options(ins, i, mall),
           tx \in Txs, i \in DOMAIN tx.spent
    PROVE  /\ \/ KeyOption(ins, i)
              \/ ScriptOption(ins, i, mall, x)
              \/ TapKeyOption(ins, i)
              \/ LeafOption(ins, i, mall, x)
           /\ native_witness(i) => x.script_sig = <<>>
<1> DEFINE o == tx.spent[i]
<1> SUFFICES \/ /\ o.kind \in KeyKinds /\ get_descriptor(ins, i)
                /\ SigsFor(ins[i], {o.key}, "ecdsa") # {}
                /\ native_witness(i) => x.script_sig = <<>>
             \/ /\ o.kind \in {"wsh", "sh", "shwsh", "bare"} /\ get_descriptor(ins, i)
                /\ \E p \in DOMAIN Paths[o.script] : \E S :
                      /\ Provided(ins, i, Paths[o.script][p], "ecdsa", mall)
                      /\ x = Unlock(o, Stack(p, S))[1]
                /\ native_witness(i) => x.script_sig = <<>>
             \/ /\ o.kind = "tr" /\ SigsFor(ins[i], {o.key}, "key") # {}
                /\ x.script_sig = <<>>
             \/ /\ o.kind = "tr"
                /\ \E j \in DOMAIN o.leaves : \E p \in DOMAIN Paths[o.leaves[j]] : \E S :
                      /\ o.leaves[j] \in ins[i].tap_scripts
                      /\ Provided(ins, i, Paths[o.leaves[j]][p], o.leaves[j], mall)
                      /\ x = UnlockLeaf(o.leaves[j], Stack(p, S))[1]
                /\ x.script_sig = <<>>
  BY Zenon DEF KeyOption, ScriptOption, TapKeyOption, LeafOption
<1>0. o.kind \in KeyKinds \cup {"wsh", "sh", "shwsh", "bare", "tr"}
  BY TxsAssumption DEF KeyKinds
<1>1. CASE o.kind \in KeyKinds
  <2>1. o.kind # "tr" /\ get_descriptor(ins, i)
    BY <1>1 DEF Options, KeyKinds
  <2>2. \E sig \in SigsFor(ins[i], {o.key}, "ecdsa") : x = Unlock(o, <<<<"sig", sig>>>>)[1]
    BY <1>1, <2>1, Zenon DEF Options, Spends, SigsFor
  <2>3. native_witness(i) => x.script_sig = <<>>
    BY <1>1, <2>2 DEF native_witness, KeyKinds, Unlock, Satisfaction, Some
  <2> QED  BY <1>1, <2>1, <2>2, <2>3
<1>2. CASE o.kind \in {"wsh", "sh", "shwsh", "bare"}
  <2>1. o.kind # "tr" /\ get_descriptor(ins, i) /\ o.kind \notin KeyKinds
    BY <1>2 DEF Options, KeyKinds
  <2>2. PICK p \in DOMAIN Paths[o.script] :
            /\ Provided(ins, i, Paths[o.script][p], "ecdsa", mall)
            /\ \E S : x = Unlock(o, Stack(p, S))[1]
    BY <2>1, Zenon DEF Options, Spends, Stack
  <2>3. native_witness(i) => x.script_sig = <<>>
    <3>1. native_witness(i) => o.kind = "wsh"
      BY <1>2 DEF native_witness
    <3>2. \A S : o.kind = "wsh" => Unlock(o, Stack(p, S))[1].script_sig = <<>>
      BY UnlockWsh
    <3> QED  BY <2>2, <3>1, <3>2
  <2> QED  BY <1>2, <2>1, <2>2, <2>3
<1>3. CASE o.kind = "tr"
  <2>1. \/ \E sig \in SigsFor(ins[i], {o.key}, "key") : x = Satisfaction(<<>>, <<<<"sig", sig>>>>)[1]
        \/ \E j \in DOMAIN o.leaves : \E p \in DOMAIN Paths[o.leaves[j]] : \E S :
              /\ o.leaves[j] \in ins[i].tap_scripts
              /\ Provided(ins, i, Paths[o.leaves[j]][p], o.leaves[j], mall)
              /\ x = UnlockLeaf(o.leaves[j], Stack(p, S))[1]
    <3> DEFINE K == SigsFor(ins[i], {o.key}, "key")
               P(l) == {q \in DOMAIN Paths[l] :
                          /\ Provided(ins, i, Paths[l][q], l, mall)
                          /\ IsTr(i) => l \in ins[i].tap_scripts}
               T(l) == {<<<<"sat", p, SigsFor(ins[i], Paths[l][p].sigs, l)>>>> : p \in P(l)}
               A == {Satisfaction(<<>>, y)[1] : y \in {<<<<"sig", z>>>> : z \in K}}
               B == UNION {{UnlockLeaf(o.leaves[j], y)[1] : y \in T(o.leaves[j])} :
                             j \in DOMAIN o.leaves}
    <3>1. Options(ins, i, mall) = A \cup B
      BY <1>3, Zenon DEF Options, Spends, SigsFor
    <3>2. x \in A => \E sig \in K : x = Satisfaction(<<>>, <<<<"sig", sig>>>>)[1]
      BY Zenon
    <3>3. x \in B => \E j \in DOMAIN o.leaves : \E y \in T(o.leaves[j]) : x = UnlockLeaf(o.leaves[j], y)[1]
      BY Zenon
    <3>4. ASSUME NEW l, NEW y \in T(l)
          PROVE  \E p \in DOMAIN Paths[l] : \E S : /\ l \in ins[i].tap_scripts
                                               /\ Provided(ins, i, Paths[l][p], l, mall)
                                               /\ y = Stack(p, S)
      BY <1>3, <3>4, Zenon DEF Stack, IsTr
    <3>5. x \in A \/ x \in B
      BY <3>1
    <3> HIDE DEF A, B, T, K
    <3>6. CASE x \in A
      BY <3>2, <3>6 DEF K
    <3>7. CASE x \in B
      <4>1. PICK j \in DOMAIN o.leaves : \E y \in T(o.leaves[j]) : x = UnlockLeaf(o.leaves[j], y)[1]
        BY <3>3, <3>7
      <4>2. PICK y \in T(o.leaves[j]) : x = UnlockLeaf(o.leaves[j], y)[1]
        BY <4>1
      <4>3. \E p \in DOMAIN Paths[o.leaves[j]] : \E S :
               /\ o.leaves[j] \in ins[i].tap_scripts
               /\ Provided(ins, i, Paths[o.leaves[j]][p], o.leaves[j], mall)
               /\ y = Stack(p, S)
        BY <3>4, <4>2
      <4> QED  BY <4>2, <4>3
    <3> QED  BY <3>5, <3>6, <3>7
  <2>2. x.script_sig = <<>>
    <3>1. \A w : Satisfaction(<<>>, w)[1].script_sig = <<>>
      BY DEF Satisfaction, Some
    <3> QED  BY <2>1, <3>1, Zenon DEF UnlockLeaf
  <2> QED  BY <1>3, <2>1, <2>2
<1> QED  BY <1>0, <1>1, <1>2, <1>3

(* A path that is provided stays provided while its input does not change,  *)
(* if the input has the keys.                                               *)
LEMMA ProvidedStays ==
    ASSUME NEW a, NEW b, NEW i, NEW path, NEW leaf, NEW mall,
           i \in DOMAIN a, i \in DOMAIN b, a[i] = b[i], path.hashed \subseteq a[i].keys,
           Provided(a, i, path, leaf, mall)
    PROVE  Provided(b, i, path, leaf, mall)
<1>1. b[i].keys \subseteq KnownKeys(b, i)
  BY DEF KnownKeys
<1> QED  BY <1>1 DEF Provided

(* The paths of the scripts of an output.                                   *)
LEMMA HashedKeys ==
    ASSUME NEW o, o.kind \notin KeyKinds
    PROVE  /\ o.kind # "tr" => \A p \in DOMAIN Paths[o.script] :
                                   Paths[o.script][p].hashed \subseteq ScriptKeys(o)
           /\ o.kind = "tr" => \A j \in DOMAIN o.leaves : \A p \in DOMAIN Paths[o.leaves[j]] :
                                   Paths[o.leaves[j]][p].hashed \subseteq ScriptKeys(o)
BY DEF ScriptKeys, KeysOf

\* The transaction in which the inputs are spent as c says.
ScriptSigs(ins, c) == [j \in DOMAIN ins |-> c[j].script_sig]
Assembled(ins, c) == [j \in DOMAIN ins |-> <<c[j].script_sig, c[j].witness>>]

(* What an input that is due has to offer is enough for the satisfier, if   *)
(* the scriptSigs of the other inputs are those that its template expects.  *)
LEMMA SatisfierFinds ==
    ASSUME NEW old, NEW ins, NEW i, NEW mall, NEW c, tx \in Txs, i \in DOMAIN tx.spent,
           i \in DOMAIN old, i \in DOMAIN ins, ins[i] = old[i], ~Final(old[i]),
           ScriptKeys(tx.spent[i]) \subseteq old[i].keys,
           c[i] \in Options(old, i, mall),
           Valid(Assembled(old, c), i),
           native_witness(i) => Candidate(ins, i, <<>>) = ScriptSigs(old, c)
    PROVE  Satisfy(ins, i, mall) # None
<1> DEFINE o == tx.spent[i]
           x == c[i]
           final == Assembled(old, c)
<1>1. unwrap_or_default(ins[i].final_script_sig) = <<>>
  BY DEF Final, unwrap_or_default
<1>2. get_descriptor(ins, i) = get_descriptor(old, i)
  BY DEF get_descriptor
<1>3. \A keys, leaf : SigsFor(ins[i], keys, leaf) = SigsFor(old[i], keys, leaf)
  OBVIOUS
<1>4. \A s : Satisfaction(s, s) # None
  BY DEF Satisfaction, Some, None
<1>5. ASSUME NEW s, NEW leaf, NEW p \in DOMAIN Paths[s], NEW S, native_witness(i),
             from_txdata(o, x.script_sig, x.witness) = Script(s, leaf, Stack(p, S)),
             Paths[s][p].template # None
      PROVE  check_tx_template(ins, i, Paths[s][p].template[1])
  <2> DEFINE y == from_txdata(o, x.script_sig, x.witness)
  <2>1. final[i][1] = x.script_sig /\ final[i][2] = x.witness /\ DOMAIN final = DOMAIN old
    BY DEF Assembled
  <2>2. [j \in DOMAIN final |-> final[j][1]] = ScriptSigs(old, c)
    BY DEF Assembled, ScriptSigs
  <2>3. y[1].inner = "script" /\ PathOf(y[1]) = Paths[s][p]
    BY <1>5 DEF Script, Some, PathOf, Stack
  <2> HIDE DEF y, final
  <2>4. Paths[s][p].template[1] = get_ctv_hash([j \in DOMAIN final |-> final[j][1]], i)
    BY <1>5, <2>1, <2>3 DEF Valid, y, final
  <2> QED  BY <1>1, <1>5, <2>2, <2>4 DEF check_tx_template
<1>6. CASE KeyOption(old, i)
  <2>0. o.kind \in KeyKinds /\ get_descriptor(old, i) /\ SigsFor(old[i], {o.key}, "ecdsa") # {}
    BY <1>6 DEF KeyOption
  <2>1. Signature(ins, i, "ecdsa") # None
    BY <2>0, <1>3, SignatureIs
  <2>2. get_satisfaction(ins, i, mall) # None
    BY <2>0, <2>1 DEF get_satisfaction, Unlock, KeyKinds, Satisfaction, Some, None
  <2> QED  BY <1>2, <2>0, <2>2 DEF Satisfy, IsTr, KeyKinds
<1>7. CASE ScriptOption(old, i, mall, x)
  <2>0. o.kind \in {"wsh", "sh", "shwsh", "bare"} /\ get_descriptor(old, i)
    BY <1>7 DEF ScriptOption
  <2>p. PICK p \in DOMAIN Paths[o.script] : \E S :
            /\ Provided(old, i, Paths[o.script][p], "ecdsa", mall)
            /\ x = Unlock(o, Stack(p, S))[1]
    BY <1>7 DEF ScriptOption
  <2>1. PICK S : /\ Provided(old, i, Paths[o.script][p], "ecdsa", mall)
                 /\ x = Unlock(o, Stack(p, S))[1]
    BY <2>p
  <2> DEFINE path == Paths[o.script][p]
  <2>2. path.hashed \subseteq old[i].keys
    BY <2>0, HashedKeys DEF KeyKinds
  <2>3. Provided(ins, i, path, "ecdsa", mall)
    BY <2>1, <2>2, ProvidedStays
  <2>4. path.template # None => check_tx_template(ins, i, path.template[1])
    <3>1. CASE native_witness(i)
      <4>1. from_txdata(o, x.script_sig, x.witness) = Script(o.script, "ecdsa", Stack(p, S))
        BY <2>0, <2>1, UnlockScript DEF Stack
      <4> QED  BY <1>5, <3>1, <4>1
    <3>2. CASE ~native_witness(i)
      BY <2>0, <3>2, TxsAssumption DEF native_witness, None
    <3> QED  BY <3>1, <3>2
  <2>5. satisfy(ins, i, o.script, "ecdsa", mall) # None
    BY <2>3, <2>4, SatisfyFinds DEF Available
  <2>6. get_satisfaction(ins, i, mall) # None
    BY <2>0, <2>5 DEF get_satisfaction, Unlock, KeyKinds, Satisfaction, Some, None
  <2> QED  BY <1>2, <2>0, <2>6 DEF Satisfy, IsTr
<1>8. CASE TapKeyOption(old, i)
  <2>0. o.kind = "tr" /\ SigsFor(old[i], {o.key}, "key") # {}
    BY <1>8 DEF TapKeyOption
  <2>1. Signature(ins, i, "key") # None
    BY <2>0, <1>3, SignatureIs
  <2>2. Satisfaction(<<>>, Signature(ins, i, "key")) # None
    BY DEF Satisfaction, Some, None
  <2> QED  BY <2>0, <2>1, <2>2 DEF Satisfy, IsTr, construct_tap_witness
<1>9. CASE LeafOption(old, i, mall, x)
  <2>0. o.kind = "tr"
    BY <1>9 DEF LeafOption
  <2>1. PICK j \in DOMAIN o.leaves : \E p \in DOMAIN Paths[o.leaves[j]] : \E S :
                 /\ o.leaves[j] \in old[i].tap_scripts
                 /\ Provided(old, i, Paths[o.leaves[j]][p], o.leaves[j], mall)
                 /\ x = UnlockLeaf(o.leaves[j], Stack(p, S))[1]
    BY <1>9 DEF LeafOption
  <2> DEFINE l == o.leaves[j]
  <2>p. PICK p \in DOMAIN Paths[l] : \E S :
                 /\ l \in old[i].tap_scripts
                 /\ Provided(old, i, Paths[l][p], l, mall)
                 /\ x = UnlockLeaf(l, Stack(p, S))[1]
    BY <2>1
  <2>2. PICK S : /\ l \in old[i].tap_scripts
                 /\ Provided(old, i, Paths[l][p], l, mall)
                 /\ x = UnlockLeaf(l, Stack(p, S))[1]
    BY <2>p
  <2> DEFINE path == Paths[l][p]
  <2>3. path.hashed \subseteq old[i].keys
    BY <2>0, HashedKeys DEF KeyKinds
  <2>4. Provided(ins, i, path, l, mall)
    <3> HIDE DEF l, path
    <3> QED  BY <2>2, <2>3, ProvidedStays DEF path
  <2>5. path.template # None => check_tx_template(ins, i, path.template[1])
    <3>1. native_witness(i)
      BY <2>0 DEF native_witness
    <3>2. from_txdata(o, x.script_sig, x.witness) = Script(l, l, Stack(p, S))
      <4> DEFINE e == <<"sat", p, S>>
                 y == UnlockLeaf(l, <<e>>)[1]
      <4>1. x = y /\ Stack(p, S) = <<e>>
        BY <2>2 DEF Stack
      <4>2. from_txdata(o, y.script_sig, y.witness) = Script(l, l, <<e>>)
        <5> HIDE DEF e
        <5> QED  BY <2>0, UnlockTr
      <4> HIDE DEF e, y, x, l
      <4> QED  BY <4>1, <4>2
    <3> QED  BY <1>5, <3>1, <3>2
  <2>6. satisfy(ins, i, l, l, mall) # None
    <3> HIDE DEF l
    <3> QED  BY <2>4, <2>5, SatisfyFinds DEF Available
  <2>7. j \in {k \in Leaves(ins, i) : LeafSat(ins, i, k, mall) # None}
    BY <2>2, <2>6 DEF Leaves, LeafSat
  <2>8. \A leaf, stack : UnlockLeaf(leaf, stack) # None /\ Satisfaction(leaf, stack) # None
    BY DEF UnlockLeaf, Satisfaction, Some, None
  <2>9. construct_tap_witness(ins, i, mall) # None
    <3> DEFINE J == {k \in Leaves(ins, i) : LeafSat(ins, i, k, mall) # None}
    <3>1. J # {}
      BY <2>7
    <3> QED  BY <2>8, <3>1, Zenon DEF construct_tap_witness, LeafWitness
  <2> QED  BY <2>0, <2>9 DEF Satisfy, IsTr
<1>10. x \in Options(old, i, mall)
  OBVIOUS
<1> HIDE DEF x, o
<1> QED  BY <1>6, <1>7, <1>8, <1>9, <1>10, OptionIs

(* The satisfier of an input that is not native finds the same at any time  *)
(* before the input's turn.                                                 *)
LEMMA SatisfySame ==
    ASSUME NEW a, NEW b, NEW i, NEW mall, tx \in Txs, i \in DOMAIN tx.spent,
           i \in DOMAIN a, i \in DOMAIN b, a[i] = b[i], ~native_witness(i),
           ScriptKeys(tx.spent[i]) \subseteq a[i].keys
    PROVE  Satisfy(a, i, mall) = Satisfy(b, i, mall)
<1> DEFINE o == tx.spent[i]
<1>1. get_descriptor(a, i) = get_descriptor(b, i) /\ ~IsTr(i)
  BY DEF get_descriptor, IsTr, native_witness
<1>2. Signature(a, i, "ecdsa") = Signature(b, i, "ecdsa")
  BY DEF Signature
<1>3. CASE o.kind \in KeyKinds
  BY <1>1, <1>2, <1>3 DEF Satisfy, get_satisfaction
<1>4. CASE o.kind \notin KeyKinds
  <2> DEFINE A(ins) == {p \in DOMAIN Paths[o.script] :
                           Available(ins, i, Paths[o.script][p], "ecdsa", mall)}
  <2>1. o.kind \in {"sh", "shwsh", "bare"}
    BY <1>4, TxsAssumption DEF KeyKinds, native_witness
  <2>2. \A p \in DOMAIN Paths[o.script] :
            /\ Paths[o.script][p].template = None
            /\ Paths[o.script][p].hashed \subseteq a[i].keys
    BY <1>4, <2>1, TxsAssumption, HashedKeys DEF None
  <2>3. ASSUME NEW p \in DOMAIN Paths[o.script]
        PROVE  Available(a, i, Paths[o.script][p], "ecdsa", mall)
                 <=> Available(b, i, Paths[o.script][p], "ecdsa", mall)
    <3>1. Provided(a, i, Paths[o.script][p], "ecdsa", mall)
            <=> Provided(b, i, Paths[o.script][p], "ecdsa", mall)
      BY <2>2, ProvidedStays
    <3> QED  BY <2>2, <3>1 DEF Available
  <2>4. A(a) = A(b)
    BY <2>3
  <2>5. satisfy(a, i, o.script, "ecdsa", mall) = satisfy(b, i, o.script, "ecdsa", mall)
    <3> HIDE DEF A
    <3> QED  BY <2>4, Zenon DEF satisfy, A
  <2> QED  BY <1>1, <1>4, <2>5 DEF Satisfy, get_satisfaction
<1> QED  BY <1>3, <1>4


-----------------------------------------------------------------------------
(* finalize_mut makes a transaction if it can.                              *)

\* A way to spend every input with what the PSBT provides.
Choice(ins, mall, c) ==
    \A i \in DOMAIN ins :
        /\ c[i] \in Options(ins, i, mall)
        /\ native_witness(i) \/ c[i].script_sig = Satisfy(ins, i, mall)[1].script_sig
        /\ Valid(Assembled(ins, c), i)

Suffices(ins, mall) == Honest(ins) /\ \E c : Choice(ins, mall, c)

\* The scriptSig that the turn of an input fixes.
Fixed(ins, i, mall) ==
    IF native_witness(i) THEN <<>> ELSE Satisfy(ins, i, mall)[1].script_sig

\* The loop, for the PSBT with which the call began.
CompleteLoop(ins, mall) ==
    /\ DOMAIN ins = DOMAIN inputs
    /\ \A i \in DOMAIN inputs :
          /\ inputs[i].utxo = ins[i].utxo
          /\ ~HadTurn(i) => inputs[i] = ins[i]
    /\ Suffices(ins, mall) =>
          /\ call.errors = <<>>
          /\ \A i \in DOMAIN inputs :
                HadTurn(i) => unwrap_or_default(inputs[i].final_script_sig) = Fixed(ins, i, mall)

CompleteInv ==
    /\ \A ins, mall : call.op = "finalize" /\ ins = call.before /\ mall = call.mall =>
                          CompleteLoop(ins, mall)
    /\ \A ins, mall : /\ result.op = "finalize" /\ result.errors # <<>>
                      /\ ins = result.before /\ mall = result.mall
                      => ~Suffices(ins, mall)

(* The scriptSigs that the template of a native input finds are the ones of *)
(* the choice: those of the other inputs are fixed.                         *)
LEMMA CandidateIs ==
    ASSUME NEW ins, NEW mall, NEW c, LoopInv, call.op = "finalize", call.pass = 2,
           CompleteLoop(ins, mall), Suffices(ins, mall), Choice(ins, mall, c),
           NEW i \in DOMAIN inputs, native_witness(i)
    PROVE  Candidate(inputs, i, <<>>) = ScriptSigs(ins, c)
<1>1. DOMAIN ins = DOMAIN inputs /\ DOMAIN inputs = DOMAIN tx.spent /\ tx \in Txs
  BY DEF LoopInv, CompleteLoop
<1>2. ASSUME NEW j \in DOMAIN inputs, native_witness(j)  PROVE c[j].script_sig = <<>>
  <2>1. c[j] \in Options(ins, j, mall)
    BY <1>1 DEF Choice
  <2> QED  BY <1>1, <1>2, <2>1, OptionIs
<1>3. ASSUME NEW j \in DOMAIN inputs
      PROVE  j # i => unwrap_or_default(inputs[j].final_script_sig) = c[j].script_sig
  <2>1. CASE HadTurn(j)
    <3>1. unwrap_or_default(inputs[j].final_script_sig) = Fixed(ins, j, mall)
      BY <2>1 DEF CompleteLoop
    <3>2. ~native_witness(j) => c[j].script_sig = Satisfy(ins, j, mall)[1].script_sig
      BY <1>1 DEF Choice
    <3> QED  BY <1>2, <3>1, <3>2 DEF Fixed
  <2>2. CASE ~HadTurn(j)
    <3>1. native_witness(j) /\ inputs[j] = ins[j]
      BY <2>2 DEF HadTurn, Visited, CompleteLoop
    <3>2. ~Final(ins[j])
      BY <1>1 DEF Suffices, Honest
    <3> QED  BY <1>2, <3>1, <3>2 DEF Final, unwrap_or_default
  <2> QED  BY <2>1, <2>2
<1> QED  BY <1>1, <1>2, <1>3 DEF Candidate, ScriptSigs

(* The turn of an input succeeds if the PSBT sufficed.                      *)
LEMMA TurnSucceeds ==
    ASSUME NEW ins, NEW mall, NEW i, LoopInv, Turn, i = call.index, Due(i, call.pass),
           CompleteLoop(ins, mall), Suffices(ins, mall)
    PROVE  LET r == finalize_input(inputs, i, mall)
           IN  /\ r.errors = <<>>
               /\ unwrap_or_default(r.input.final_script_sig) = Fixed(ins, i, mall)
<1> DEFINE r == finalize_input(inputs, i, mall)
           sat == Satisfy(inputs, i, mall)
<1>1. /\ i \in DOMAIN inputs /\ i \in DOMAIN ins /\ i \in DOMAIN tx.spent /\ tx \in Txs
      /\ DOMAIN ins = DOMAIN inputs /\ call.op = "finalize"
  BY TxsAssumption DEF LoopInv, Turn, CompleteLoop
<1>2. inputs[i] = ins[i]
  BY <1>1, TurnTaken DEF CompleteLoop
<1>3. /\ ~Final(ins[i]) /\ ScriptKeys(tx.spent[i]) \subseteq ins[i].keys
      /\ \A sig \in ins[i].sigs : sig.good
  BY <1>1 DEF Suffices, Honest
<1>4. Ready(inputs, i)
  BY <1>1, <1>2, <1>3 DEF Ready, LoopInv
<1>5. PICK c : Choice(ins, mall, c)
  BY DEF Suffices
<1>6. /\ c[i] \in Options(ins, i, mall)
      /\ Valid(Assembled(ins, c), i)
  BY <1>1, <1>5 DEF Choice
<1>7. native_witness(i) => Candidate(inputs, i, <<>>) = ScriptSigs(ins, c)
  <2>1. native_witness(i) => call.pass = 2
    BY DEF Due
  <2> QED  BY <1>1, <1>5, <2>1, CandidateIs
<1>8. sat # None
  BY <1>1, <1>2, <1>3, <1>6, <1>7, SatisfierFinds
<1>9. interpreter_inp_check(inputs, i, sat[1].script_sig, sat[1].witness)
  <2>1. CASE tx.spent[i].kind = "tr"
    BY <1>1, <1>4, <1>8, <2>1, TapAccepted DEF Satisfy, IsTr
  <2>2. CASE tx.spent[i].kind # "tr"
    BY <1>1, <1>4, <1>8, <2>2, PlainAccepted DEF Satisfy, IsTr
  <2> QED  BY <2>1, <2>2
<1>10. Unknown(inputs) = {}
  BY <1>1 DEF Unknown, CompleteLoop, Suffices, Honest
<1> HIDE DEF sat
<1>11. r = Outcome(Cleared(inputs[i], sat[1]), <<>>)
  <2>1. ~Final(inputs[i]) /\ inputs[i].utxo # None
    BY <1>2, <1>3 DEF Due
  <2> QED  BY <1>8, <1>9, <1>10, <2>1, Zenon DEF finalize_input, sat
<1>12. r.errors = <<>> /\ unwrap_or_default(r.input.final_script_sig) = sat[1].script_sig
  BY <1>11, ClearedFields DEF Outcome
<1>13. sat[1].script_sig = Fixed(ins, i, mall)
  <2>1. CASE native_witness(i)
    <3>1. from_txdata(tx.spent[i], sat[1].script_sig, sat[1].witness) # None
      BY <1>9 DEF interpreter_inp_check
    <3> QED  BY <2>1, <3>1, Native DEF native_witness, Fixed
  <2>2. CASE ~native_witness(i)
    BY <1>1, <1>2, <1>3, <2>2, SatisfySame DEF Fixed, sat
  <2> QED  BY <2>1, <2>2
<1> QED  BY <1>12, <1>13


(* No step changes the transaction, so what suffices stays the same.        *)
LEMMA SatisfyPrime ==
    ASSUME NEW ins, NEW i, NEW mall, tx' = tx
    PROVE  /\ native_witness(i)' = native_witness(i)
           /\ get_descriptor(ins, i)' = get_descriptor(ins, i)
           /\ ~native_witness(i) => Satisfy(ins, i, mall)' = Satisfy(ins, i, mall)
<1>1. Signature(ins, i, "ecdsa")' = Signature(ins, i, "ecdsa")
  BY DEF Signature
<1>2. ASSUME NEW s  PROVE satisfy(ins, i, s, "ecdsa", mall)' = satisfy(ins, i, s, "ecdsa", mall)
  <2>1. \A path : Available(ins, i, path, "ecdsa", mall)' <=> Available(ins, i, path, "ecdsa", mall)
    BY DEF Available, Provided, check_after, check_older, KnownKeys, IsTr, check_tx_template
  <2> QED  BY <2>1 DEF satisfy
<1>3. get_descriptor(ins, i)' = get_descriptor(ins, i)
  BY Zenon DEF get_descriptor, SigsFor, Redeem
<1>4. get_satisfaction(ins, i, mall)' = get_satisfaction(ins, i, mall)
  BY <1>1, <1>2 DEF get_satisfaction
<1>5. native_witness(i)' = native_witness(i)
  BY Zenon DEF native_witness
<1> QED  BY <1>3, <1>4, <1>5 DEF Satisfy, IsTr, native_witness

LEMMA OptionsPrime ==
    ASSUME NEW ins, NEW i, NEW mall, NEW x, tx' = tx
    PROVE  (x \in Options(ins, i, mall))' <=> x \in Options(ins, i, mall)
<1>1. get_descriptor(ins, i)' = get_descriptor(ins, i)
  BY SatisfyPrime
<1>2. ASSUME NEW path, NEW leaf
      PROVE  Provided(ins, i, path, leaf, mall)' <=> Provided(ins, i, path, leaf, mall)
  BY DEF Provided, check_after, check_older, KnownKeys, IsTr
<1> DEFINE G(s, leaf) == {p \in DOMAIN Paths[s] :
                           /\ Provided(ins, i, Paths[s][p], leaf, mall)
                           /\ IsTr(i) => leaf \in ins[i].tap_scripts}
           o == tx.spent[i]
           with(keys, leaf) == {sig \in ins[i].sigs : sig.key \in keys /\ sig.leaf = leaf}
           sats(s, leaf) == {<<<<"sat", p, with(Paths[s][p].sigs, leaf)>>>> : p \in G(s, leaf)}
           sig(leaf) == {<<<<"sig", y>>>> : y \in with({o.key}, leaf)}
           U(j) == {UnlockLeaf(o.leaves[j], y)[1] : y \in sats(o.leaves[j], o.leaves[j])}
           K == {Satisfaction(<<>>, y)[1] : y \in sig("key")}
           W == IF o.kind \in KeyKinds THEN sig("ecdsa") ELSE sats(o.script, "ecdsa")
           R == {Unlock(o, y)[1] : y \in W}
           S == IF o.kind = "tr" THEN K \cup UNION {U(j) : j \in DOMAIN o.leaves} ELSE R
           T == IF o.kind # "tr" /\ ~get_descriptor(ins, i) THEN {} ELSE S
<1>3. Options(ins, i, mall) = T
  BY Zenon DEF Options, Spends
<1>4. Options(ins, i, mall)' = T'
  BY Zenon DEF Options, Spends
<1>5. ASSUME NEW s, NEW leaf  PROVE G(s, leaf)' = G(s, leaf)
  BY <1>2 DEF IsTr
<1> HIDE DEF G
<1>6. ASSUME NEW s, NEW leaf  PROVE sats(s, leaf)' = sats(s, leaf)
  BY <1>5
<1>7. ASSUME NEW leaf  PROVE sig(leaf)' = sig(leaf)
  OBVIOUS
<1> HIDE DEF sats, sig
<1>8. S' = S
  <2>1. ASSUME NEW j  PROVE U(j)' = U(j)
    BY <1>6, Zenon
  <2>2. K' = K
    BY <1>7
  <2>3. W' = W
    BY <1>6, <1>7
  <2> HIDE DEF W
  <2>4. R' = R
    BY <2>3
  <2> HIDE DEF U, K, R
  <2> QED  BY <2>1, <2>2, <2>4
<1> HIDE DEF S
<1>9. T' = T
  BY <1>1, <1>8
<1> QED  BY <1>3, <1>4, <1>9

LEMMA SufficesPrime ==
    ASSUME NEW ins, NEW mall, tx' = tx
    PROVE  /\ Suffices(ins, mall)' <=> Suffices(ins, mall)
           /\ \A i : Fixed(ins, i, mall)' = Fixed(ins, i, mall)
<1>1. Honest(ins)' <=> Honest(ins)
  BY DEF Honest
<1>2. ASSUME NEW c  PROVE Choice(ins, mall, c)' <=> Choice(ins, mall, c)
  <2>1. ASSUME NEW i
        PROVE  /\ (c[i] \in Options(ins, i, mall))' <=> c[i] \in Options(ins, i, mall)
               /\ Valid(Assembled(ins, c), i)' <=> Valid(Assembled(ins, c), i)
               /\ (native_witness(i) \/ c[i].script_sig = Satisfy(ins, i, mall)[1].script_sig)'
                     <=> native_witness(i) \/ c[i].script_sig = Satisfy(ins, i, mall)[1].script_sig
    <3>1. (c[i] \in Options(ins, i, mall))' <=> c[i] \in Options(ins, i, mall)
      BY OptionsPrime
    <3>2. Valid(Assembled(ins, c), i)' <=> Valid(Assembled(ins, c), i)
      BY DEF Valid
    <3>3. /\ native_witness(i)' = native_witness(i)
          /\ ~native_witness(i) => Satisfy(ins, i, mall)' = Satisfy(ins, i, mall)
      BY SatisfyPrime
    <3> QED  BY <3>1, <3>2, <3>3
  <2> QED  BY <2>1 DEF Choice
<1>3. ASSUME NEW i  PROVE Fixed(ins, i, mall)' = Fixed(ins, i, mall)
  BY SatisfyPrime DEF Fixed
<1> QED  BY <1>1, <1>2, <1>3 DEF Suffices


(* A turn of the loop keeps what is known of the call.                      *)
LEMMA TurnKeepsComplete ==
    ASSUME NEW ins, NEW mall, LoopInv, Turn, mall = call.mall, CompleteLoop(ins, mall)
    PROVE  CompleteLoop(ins, mall)'
<1> DEFINE i == call.index
           r == finalize_input(inputs, i, mall)
           due == Due(i, call.pass)
<1>1. /\ i \in DOMAIN inputs /\ tx' = tx /\ DOMAIN ins = DOMAIN inputs
      /\ inputs' = IF due THEN [inputs EXCEPT ![i] = r.input] ELSE inputs
  BY TxsAssumption DEF LoopInv, Turn, CompleteLoop
<1>2. r.input.utxo = inputs[i].utxo
  BY TurnKeepsUtxo
<1>3. \A j \in DOMAIN inputs :
          /\ HadTurn(j) \/ (j = i /\ due) => HadTurn(j)'
          /\ HadTurn(j)' /\ inputs[i].utxo # None => HadTurn(j) \/ (j = i /\ due)
  BY TurnTaken
<1> HIDE DEF r, due
<1>4. /\ DOMAIN inputs' = DOMAIN inputs
      /\ \A j \in DOMAIN inputs : inputs'[j].utxo = inputs[j].utxo
      /\ \A j \in DOMAIN inputs : ~(j = i /\ due) => inputs'[j] = inputs[j]
  BY <1>1, <1>2
<1>5. ASSUME NEW j \in DOMAIN inputs
      PROVE  inputs'[j].utxo = ins[j].utxo /\ (~HadTurn(j)' => inputs'[j] = ins[j])
  BY <1>1, <1>3, <1>4 DEF CompleteLoop
<1>6. ASSUME Suffices(ins, mall)
      PROVE  /\ call'.errors = <<>>
             /\ \A j \in DOMAIN inputs' :
                   HadTurn(j)' =>
                       unwrap_or_default(inputs'[j].final_script_sig) = Fixed(ins, j, mall)
  <2>1. /\ call.errors = <<>> /\ inputs[i].utxo # None
        /\ \A j \in DOMAIN inputs :
              HadTurn(j) => unwrap_or_default(inputs[j].final_script_sig) = Fixed(ins, j, mall)
    BY <1>1, <1>6 DEF CompleteLoop, Suffices, Honest
  <2>2. due => /\ r.errors = <<>>
               /\ unwrap_or_default(r.input.final_script_sig) = Fixed(ins, i, mall)
    BY <1>6, TurnSucceeds DEF due, r
  <2>3. call'.errors = <<>>
    <3> DEFINE errors == IF due THEN r.errors ELSE <<>>
    <3>1. DOMAIN call = {"op", "mall", "pass", "index", "errors", "before"}
      BY DEF LoopInv, Turn, NoCall
    <3>2. \E pass, index :
              call' = [call EXCEPT !.errors = @ \o errors, !.pass = pass, !.index = index]
      BY <2>1, Zenon DEF Turn, due, r
    <3>3. errors = <<>>
      BY <2>2
    <3> HIDE DEF errors
    <3>4. call'.errors = call.errors \o errors
      BY <3>1, <3>2
    <3> QED  BY <2>1, <3>3, <3>4
  <2>4. ASSUME NEW j \in DOMAIN inputs', HadTurn(j)'
        PROVE  unwrap_or_default(inputs'[j].final_script_sig) = Fixed(ins, j, mall)
    <3>1. CASE j = i /\ due
      <4>1. inputs'[j] = r.input
        BY <1>1, <3>1
      <4> QED  BY <2>2, <3>1, <4>1
    <3>2. CASE ~(j = i /\ due)
      BY <1>3, <1>4, <2>1, <2>4, <3>2
    <3> QED  BY <3>1, <3>2
  <2> QED  BY <2>3, <2>4
<1> QED  BY <1>1, <1>4, <1>5, <1>6, SufficesPrime DEF CompleteLoop, unwrap_or_default

(* finalize_mut returns without errors if the PSBT sufficed.                *)
LEMMA ReturnCompletes ==
    ASSUME NEW ins, NEW mall, LoopInv, Return, CompleteLoop(ins, mall), Suffices(ins, mall)
    PROVE  result'.errors = <<>>
<1>1. /\ call.op = "finalize" /\ call.index > Len(tx.spent) /\ call.errors = <<>>
      /\ result'.errors = IF call.errors = <<>> THEN interpreter_check(inputs) ELSE call.errors
  BY DEF Return, Returned, CompleteLoop
<1>2. interpreter_check(inputs) = <<>>
  BY <1>1, LoopPasses DEF PassesSuffice
<1> QED  BY <1>1, <1>2

(* The invariant of finalize_mut: if what the PSBT had when the call began  *)
(* suffices for a transaction, no turn fails, and the scriptSigs that are   *)
(* fixed are the ones to which the templates commit.                        *)
THEOREM CompleteInvariant == Spec => []CompleteInv
<1> DEFINE R(ins, mall) == /\ result.op = "finalize" /\ result.errors # <<>>
                           /\ ins = result.before /\ mall = result.mall
           C(ins, mall) == call.op = "finalize" /\ ins = call.before /\ mall = call.mall
<1>1. Init => CompleteInv
  BY DEF Init, CompleteInv, Returned, NoCall
<1>2. ASSUME LoopInv, CompleteInv, [Next]_vars  PROVE CompleteInv'
  <2>0. ASSUME NEW ins, NEW mall
        PROVE  /\ C(ins, mall) => CompleteLoop(ins, mall)
               /\ R(ins, mall) => ~Suffices(ins, mall)
    BY <1>2 DEF CompleteInv
  <2>1. ASSUME tx' = tx, result' = result \/ result'.op # "finalize"
        PROVE  \A ins, mall : R(ins, mall)' => ~Suffices(ins, mall)'
    BY <2>0, <2>1, SufficesPrime
  <2>2. ASSUME call'.op # "finalize", tx' = tx, result' = result \/ result'.op # "finalize"
        PROVE  CompleteInv'
    BY <2>1, <2>2 DEF CompleteInv
  <2>3. CASE Edits
    <3>1. result' = Returned("edit", <<>>, FALSE, <<>>) /\ call.op = "idle" /\ call' = call /\ tx' = tx
      BY <2>3, Zenon DEF Edits, AddUtxo, Sign, DeclareSighash, Combine, AddScripts,
                         update_input_with_descriptor, Edit, Idle
    <3> QED  BY <2>2, <3>1 DEF Returned
  <2>4. CASE \E i \in DOMAIN inputs, mall \in BOOLEAN : finalize_inp_mut(i, mall)
    BY <2>2, <2>4 DEF finalize_inp_mut, Returned, Idle
  <2>5. CASE \E mall \in BOOLEAN : finalize_mut(mall)
    <3>1. PICK m \in BOOLEAN : finalize_mut(m)
      BY <2>5
    <3>2. CASE ~sanity_check(inputs)
      BY <2>2, <3>1, <3>2 DEF finalize_mut, Returned, Idle
    <3>3. CASE sanity_check(inputs)
      <4>1. /\ call' = [NoCall EXCEPT !.op = "finalize", !.mall = m, !.before = inputs]
            /\ result'.op = "none" /\ inputs' = inputs /\ tx' = tx
        BY <3>1, <3>3 DEF finalize_mut, Returned
      <4>2. call'.errors = <<>> /\ call'.pass = 1 /\ call'.index = 1 /\ call'.before = inputs
        BY <4>1 DEF NoCall
      <4>3. DOMAIN inputs = 1..Len(tx.spent) /\ Len(tx.spent) \in Nat
        BY <1>2, TxsAssumption DEF LoopInv
      <4>4. \A i \in DOMAIN inputs' : ~HadTurn(i)'
        BY <4>1, <4>2, <4>3 DEF HadTurn, Visited
      <4>5. ASSUME NEW ins, NEW mall, C(ins, mall)'  PROVE CompleteLoop(ins, mall)'
        <5>1. ins = inputs
          BY <4>2, <4>5
        <5> QED  BY <4>1, <4>2, <4>4, <5>1 DEF CompleteLoop
      <4> QED  BY <2>1, <4>1, <4>5 DEF CompleteInv
    <3> QED  BY <3>2, <3>3
  <2>6. CASE Turn
    <3>1. result' = result /\ call.op = "finalize" /\ tx' = tx
      BY <2>6 DEF Turn
    <3>2. call'.before = call.before /\ call'.mall = call.mall
      <4>1. DOMAIN call = {"op", "mall", "pass", "index", "errors", "before"}
        BY <1>2, <2>6 DEF LoopInv, Turn, NoCall
      <4>2. \E errors, pass, index :
                call' = [call EXCEPT !.errors = errors, !.pass = pass, !.index = index]
        BY <2>6, Zenon DEF Turn
      <4> QED  BY <4>1, <4>2
    <3>3. ASSUME NEW ins, NEW mall, C(ins, mall)'  PROVE CompleteLoop(ins, mall)'
      <4>1. mall = call.mall /\ CompleteLoop(ins, mall)
        BY <2>0, <3>1, <3>2, <3>3
      <4> QED  BY <1>2, <2>6, <4>1, TurnKeepsComplete
    <3> QED  BY <2>1, <3>1, <3>3 DEF CompleteInv
  <2>7. CASE Return
    <3>1. /\ call.op = "finalize" /\ tx' = tx /\ call'.op = "idle"
          /\ result'.before = call.before /\ result'.mall = call.mall
      BY <2>7 DEF Return, Returned, NoCall
    <3>2. ASSUME NEW ins, NEW mall, R(ins, mall)'  PROVE ~Suffices(ins, mall)'
      <4>1. CompleteLoop(ins, mall) /\ result'.errors # <<>>
        BY <2>0, <3>1, <3>2
      <4>2. ~Suffices(ins, mall)
        BY <1>2, <2>7, <4>1, ReturnCompletes
      <4> QED  BY <3>1, <4>2, SufficesPrime
    <3> QED  BY <3>1, <3>2 DEF CompleteInv
  <2>8. CASE Panic
    BY <2>2, <2>8 DEF Panic, NoCall
  <2>9. CASE extract
    BY <2>2, <2>9 DEF extract, Returned, Idle
  <2>10. CASE UNCHANGED vars
    <3>1. tx' = tx /\ inputs' = inputs /\ call' = call /\ result' = result
      BY <2>10 DEF vars
    <3>2. ASSUME NEW ins, NEW mall, C(ins, mall)'  PROVE CompleteLoop(ins, mall)'
      <4>1. CompleteLoop(ins, mall)
        BY <2>0, <3>1, <3>2
      <4>2. \A i : HadTurn(i)' <=> HadTurn(i)
        BY <3>1 DEF HadTurn, Visited, native_witness
      <4> QED  BY <3>1, <4>1, <4>2, SufficesPrime DEF CompleteLoop
    <3> QED  BY <2>1, <3>1, <3>2 DEF CompleteInv
  <2> QED  BY <1>2, <2>3, <2>4, <2>5, <2>6, <2>7, <2>8, <2>9, <2>10, Zenon DEF Next, Edits
<1> QED  BY <1>1, <1>2, LoopInvariant, PTL DEF Spec

(* finalize_mut finalizes all inputs that it can finalize, and returns one  *)
(* error for each input that is left: for any transaction, any scripts and  *)
(* any order of the calls.                                                  *)
THEOREM FinalizeIsComplete == Spec => []FinalizeComplete
<1>1. ASSUME ErrorsInv, CompleteInv  PROVE FinalizeComplete
  <2> DEFINE ins == result.before
             mall == result.mall
             all == [i \in DOMAIN ins |-> Options(ins, i, mall)]
  <2> SUFFICES ASSUME result.op = "finalize", result.errors # <<>>, Honest(ins),
                      NEW c \in [DOMAIN ins -> UNION {all[i] : i \in DOMAIN ins}],
                      \A i \in DOMAIN ins :
                          /\ c[i] \in all[i]
                          /\ \/ native_witness(i)
                             \/ c[i].script_sig = Satisfy(ins, i, mall)[1].script_sig
               PROVE  \E i \in DOMAIN ins :
                          ~Valid([j \in DOMAIN ins |-> <<c[j].script_sig, c[j].witness>>], i)
    BY <1>1, Zenon DEF FinalizeComplete, ErrorsInv
  <2>1. ~Suffices(ins, mall)
    BY <1>1 DEF CompleteInv
  <2>2. ~Choice(ins, mall, c)
    BY <2>1 DEF Suffices
  <2>3. \A i \in DOMAIN ins : c[i] \in Options(ins, i, mall)
    OBVIOUS
  <2> HIDE DEF all, ins, mall
  <2>4. \E i \in DOMAIN ins : ~Valid(Assembled(ins, c), i)
    BY <2>2, <2>3 DEF Choice
  <2> QED  BY <2>4 DEF Assembled
<1> QED  BY <1>1, ErrorsInvariant, CompleteInvariant, PTL

=============================================================================
