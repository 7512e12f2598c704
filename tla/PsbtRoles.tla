----------------------------- MODULE PsbtRoles -----------------------------
(***************************************************************************)
(* What the PSBT roles of BIP 174 that psbt/mod.rs implements promise of   *)
(* the inputs: each input gets its final scriptSig and witness at most     *)
(* once, whoever provides them, and what is extracted is the final data of *)
(* all inputs.                                                             *)
(***************************************************************************)
EXTENDS Sequences

VARIABLES
    final,      \* per input: <<>>, or <<d>> for its final data d
    extracted   \* <<f>> if the last call extracted a transaction with final data f

rvars == <<final, extracted>>

RolesInit ==
    /\ \A i \in DOMAIN final : final[i] = <<>>
    /\ extracted = <<>>

Finalize ==
    /\ DOMAIN final' = DOMAIN final
    /\ \A i \in DOMAIN final : final[i] # <<>> => final'[i] = final[i]
    /\ extracted' \in {extracted, <<>>}

Extract ==
    /\ \A i \in DOMAIN final : final[i] # <<>>
    /\ extracted' = <<[i \in DOMAIN final |-> final[i][1]]>>
    /\ UNCHANGED final

RolesSpec == RolesInit /\ [][Finalize \/ Extract]_rvars
=============================================================================
