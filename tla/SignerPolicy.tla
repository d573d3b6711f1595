---------------------------- MODULE SignerPolicy ----------------------------
(***************************************************************************)
(* signer-gateway/policy.py: what the gateway agrees to have signed, and   *)
(* what it accepts from Clef.  The functions there are pure: each operator *)
(* below is TRUE of exactly the requests for which the function of the     *)
(* same name returns instead of raising PolicyError.                       *)
(*                                                                         *)
(* Data: an address is a model value; calldata is a record whose "method"  *)
(* stands for its selector; that a quantity or an address is well formed   *)
(* is left out, as the clients modelled here always send them well formed. *)
(***************************************************************************)
EXTENDS Naturals

CONSTANTS
  NoAddress,  \* "to" of a contract creation
  NoPlan      \* no deployment plan is configured

ExecutionMethods == {"start", "startPacked"}
DeploymentMethods == {"setAdapter", "setToken"}

-----------------------------------------------------------------------------
(* Seeded faults, as in BaseArbExecutor.                                   *)

\* The response of Clef is only checked for its sender.
SenderVerified(raw, expected) == raw.signer = expected.from

-----------------------------------------------------------------------------

validate_common(tx, policy, gas_cap) ==
  /\ tx.chain_id = policy.chain_id
  /\ tx.from = policy.signer_address
  /\ tx.gas \in 1 .. gas_cap
  /\ tx.max_fee_per_gas \in 1 .. policy.max_fee_per_gas_wei
  /\ tx.max_priority_fee_per_gas <= tx.max_fee_per_gas
  /\ tx.value = 0

validate_execution(tx, policy) ==
  /\ policy.allow_execution_signing
  /\ validate_common(tx, policy, policy.max_gas)
  /\ tx.to = policy.executor_address
  /\ tx.data.method \in ExecutionMethods

\* The transaction is, word for word, the one reviewed for its nonce.
validate_deployment(tx, policy, plan) ==
  /\ policy.allow_deployment_signing
  /\ plan # NoPlan
  /\ validate_common(tx, policy, policy.max_deployment_gas)
  /\ plan.chain_id = policy.chain_id
  /\ plan.deployer = policy.signer_address
  /\ tx.plan_hash = plan.sha256
  /\ tx.nonce \in DOMAIN plan.transactions
  /\ tx.to = plan.transactions[tx.nonce].to
  /\ tx.data = plan.transactions[tx.nonce].data

\* Clef is given an ABI hint for a call, and only two methods have one.
deployment_method_signature(tx) ==
  tx.to = NoAddress \/ tx.data.method \in DeploymentMethods

SignedFields ==
  {"chain_id", "nonce", "max_priority_fee_per_gas", "max_fee_per_gas", "gas",
   "to", "value", "data"}

\* The account that signed is the sender and no field was changed.
verify_signed_transaction(raw, expected) ==
  /\ raw.signer = expected.from
  /\ \A f \in SignedFields : raw[f] = expected[f]

\* What Clef returns for a request it was asked to sign: by whichever account
\* it holds, with any field changed in its console to one of the values of
\* "Other" (a function from some fields to values), or as requested.
Signatures(tx, signers, Other) ==
  LET Signed(t, s) == [f \in SignedFields \cup {"signer"} |-> IF f = "signer" THEN s ELSE t[f]]
  IN {Signed(tx, s) : s \in signers}
     \cup {Signed([tx EXCEPT ![f] = Other[f]], tx.from) : f \in DOMAIN Other}

=============================================================================
