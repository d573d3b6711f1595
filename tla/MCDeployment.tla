---------------------------- MODULE MCDeployment ----------------------------
(***************************************************************************)
(* Small instances of Deployment: one token, the costs of the deployment   *)
(* of 2026-08-16 (reports/deployment), rounded, and fees with one above    *)
(* the cap of the gateway.                                                 *)
(***************************************************************************)
EXTENDS Deployment, TLC

CONSTANTS s1, s2, deployer, other, stranger, weth

MCTokens == <<weth>>

MCFees == {[priority |-> 0, base |-> 1], [priority |-> 1, base |-> 1], [priority |-> 0, base |-> 2]}

MCPolicy ==
  [chain_id |-> 1, signer_address |-> deployer, max_gas |-> 3000,
   max_deployment_gas |-> 6000, max_fee_per_gas_wei |-> 3,
   allow_execution_signing |-> FALSE, allow_deployment_signing |-> TRUE]

\* The gas, the destination or the nonce of a transaction is edited in Clef.
MCAltered == "to" :> NoAddress @@ "nonce" :> 2 @@ "gas" :> 7000

=============================================================================
