---------------------------- MODULE MCSubmission ----------------------------
(***************************************************************************)
(* A small instance of Submission: two requests that may carry the same    *)
(* plan, fees that allow a replacement and one above the cap, and          *)
(* environments with one switch off each.                                  *)
(***************************************************************************)
EXTENDS Submission, TLC

CONSTANTS r1, r2, owner, executor, stranger

Packed(n) == [method |-> "startPacked", id |-> n]
Plan(n, target, gas) == [data |-> Packed(n), target_block |-> target, gas_limit |-> gas]

\* The second plan carries neither a target block nor a gas limit.
MCPlans == {Plan(1, 2, 1), Plan(2, None, None)}
MCTargetBlock == Packed(1) :> 2 @@ Packed(2) :> 1

\* The last one exceeds what the gateway allows.
MCFees == {[priority |-> 1, base |-> 0], [priority |-> 1, base |-> 1],
           [priority |-> 1, base |-> 2]}

MCPolicy ==
  [chain_id |-> 1, signer_address |-> owner, executor_address |-> executor,
   max_gas |-> 1, max_deployment_gas |-> 2, max_fee_per_gas_wei |-> 2,
   allow_execution_signing |-> TRUE, allow_deployment_signing |-> FALSE]

AllOn ==
  [CHAIN_ID |-> 1, EXECUTOR_ADDRESS |-> executor, EXECUTOR_OWNER_ADDRESS |-> owner,
   EXTERNAL_SIGNER_ADDRESS |-> owner, DRY_RUN |-> FALSE, LIVE_TRADING |-> TRUE,
   LIVE_TRADING_ACK |-> TRUE, TOKEN_MATCHES |-> TRUE,
   PACKED_MULTIROUTE_ENABLED |-> TRUE, policy |-> MCPolicy]

MCEnvironments ==
  {AllOn,
   [AllOn EXCEPT !.DRY_RUN = TRUE],
   [AllOn EXCEPT !.LIVE_TRADING_ACK = FALSE],
   [AllOn EXCEPT !.EXTERNAL_SIGNER_ADDRESS = stranger],
   [AllOn EXCEPT !.policy.allow_execution_signing = FALSE]}

MCAltered == "to" :> stranger @@ "nonce" :> 1

=============================================================================
