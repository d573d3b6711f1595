----------------------------- MODULE Deployment -----------------------------
(***************************************************************************)
(* The paused deployment: scripts_prepare_deployment.py writes a plan of   *)
(* transactions, an operator reviews it, and scripts_deploy_via_signer.py  *)
(* has them signed by the gateway one after the other and broadcasts them. *)
(*                                                                         *)
(* A run of the script may stop anywhere (an error of the node, a refusal, *)
(* a crash, the operator) and be started again, with --resume-from-nonce   *)
(* or without, also while another run is still going on.  The deployer's   *)
(* account may be used for something else in between.                      *)
(*                                                                         *)
(* Data: an address is the nonce of the creation that yields it; gas is in *)
(* thousands.  What a creation or a call costs is given by constants; an   *)
(* estimate is what the call costs in the state it is estimated in.        *)
(***************************************************************************)
EXTENDS SignerPolicy, Sequences, FiniteSets

CONSTANTS
  Scripts,       \* runs of the script, at most one at a time each
  Deployer, IntendedOwner,
  starting_nonce,
  AllowedTokens, \* DEPLOY_ALLOWED_TOKENS, a sequence
  Fees,          \* [priority, base]: fees the node may report
  policy,        \* of the gateway
  Keys, Altered, \* what Clef may do, as in Submission
  ChainId, PlanHash,
  CreationGas, CallGas, IntrinsicGas, \* costs, in thousands of gas
  NoCode,        \* an address without a contract
  MaxRuns,       \* bound: how often the scripts are started
  MaxElsewhere   \* bound: transactions outside the plan

ASSUME DeploymentAssumption ==
  /\ starting_nonce \in Nat /\ MaxRuns \in Nat /\ MaxElsewhere \in Nat
  /\ IntrinsicGas \in Nat /\ CallGas \in Nat /\ CreationGas \in Nat
  /\ Len(AllowedTokens) \in Nat /\ DOMAIN AllowedTokens = 1 .. Len(AllowedTokens)
  /\ policy.max_deployment_gas \in Nat
  /\ NoAddress # starting_nonce
  /\ NoCode \notin {"BaseArbExecutor", "AerodromeAdapter", "UniswapV3Adapter"}

VARIABLES
  mined,   \* transactions of the deployer on chain; the i-th has nonce i - 1
  pool,    \* transactions the node has accepted, by nonce
  code,    \* what the deployer's creations have put at their addresses
  executor,\* storage of BaseArbExecutor
  script,  \* per run: where it is and its locals
  desk,    \* per run: its request at the gateway
  runs     \* how often a script was started

vars == <<mined, pool, code, executor, script, desk, runs>>

-----------------------------------------------------------------------------
(* scripts_prepare_deployment.py.                                          *)

create_address(nonce) == nonce

Executor == create_address(starting_nonce)
AerodromeAdapter == create_address(starting_nonce + 1)
UniswapAdapter == create_address(starting_nonce + 2)

Creation(contract) ==
  [to |-> NoAddress, data |-> [method |-> "create", arg |-> contract]]
CallExecutor(method, arg) ==
  [to |-> Executor, data |-> [method |-> method, arg |-> arg]]

\* The three creations, the allow-lists, and the transfer of ownership if
\* another owner is intended.
Steps ==
  <<Creation("BaseArbExecutor"), Creation("AerodromeAdapter"), Creation("UniswapV3Adapter"),
    CallExecutor("setAdapter", AerodromeAdapter), CallExecutor("setAdapter", UniswapAdapter)>>
  \o [i \in DOMAIN AllowedTokens |-> CallExecutor("setToken", AllowedTokens[i])]
  \o IF IntendedOwner = Deployer THEN <<>>
     ELSE <<CallExecutor("transferOwnership", IntendedOwner)>>

Planned == starting_nonce .. starting_nonce + Len(Steps) - 1

plan == [chain_id |-> ChainId, deployer |-> Deployer, sha256 |-> PlanHash,
         transactions |-> [n \in Planned |-> Steps[n - starting_nonce + 1]]]

-----------------------------------------------------------------------------
(* The chain.                                                              *)

Off == [at |-> "off"]
Free == [at |-> "free"]

Elsewhere == [signer |-> Deployer, to |-> NoCode]

\* The deployer's account has been used before.
Init ==
  /\ mined = [i \in 1 .. starting_nonce |-> [raw |-> Elsewhere, status |-> "ok"]]
  /\ pool = <<>>
  /\ code = <<>>
  /\ executor = [owner |-> NoAddress, pendingOwner |-> NoAddress, paused |-> FALSE,
                 adapterAllowed |-> {}, tokenAllowed |-> {}]
  /\ script = [s \in Scripts |-> Off]
  /\ desk = [s \in Scripts |-> Free]
  /\ runs = 0

CodeAt(address) == IF address \in DOMAIN code THEN code[address] ELSE NoCode

\* A call of an address without code does nothing and succeeds.
Cost(tx, contracts) ==
  IF tx.to = NoAddress THEN CreationGas
  ELSE IF tx.to \in contracts THEN CallGas ELSE IntrinsicGas

PendingNonce ==
  CHOOSE n \in Len(mined) .. Len(mined) + Cardinality(DOMAIN pool) :
    /\ n \notin DOMAIN pool
    /\ \A k \in Len(mined) .. n - 1 : k \in DOMAIN pool

Acceptable(raw) ==
  /\ raw.nonce >= Len(mined)
  /\ raw.nonce \in DOMAIN pool =>
       /\ pool[raw.nonce] # Elsewhere
       /\ raw.max_fee_per_gas > pool[raw.nonce].max_fee_per_gas

\* What the executor's owner changes; the constructor leaves it paused.
Called(data) ==
  CASE data.method = "setAdapter" -> [executor EXCEPT !.adapterAllowed = @ \cup {data.arg}]
    [] data.method = "setToken" -> [executor EXCEPT !.tokenAllowed = @ \cup {data.arg}]
    [] data.method = "transferOwnership" -> [executor EXCEPT !.pendingOwner = data.arg]

Constructed ==
  [executor EXCEPT !.owner = Deployer, !.paused = TRUE]

\* The next transaction is included.  It fails if its gas does not suffice,
\* or for a reason of its own.
Mine ==
  LET n == Len(mined)
      raw == pool[n]
      include(status) ==
        /\ mined' = Append(mined, [raw |-> raw, status |-> status])
        /\ pool' = [k \in DOMAIN pool \ {n} |-> pool[k]]
        /\ UNCHANGED <<script, desk, runs>>
  IN /\ n \in DOMAIN pool
     /\ \/ raw = Elsewhere /\ include("ok") /\ UNCHANGED <<code, executor>>
        \/ /\ raw # Elsewhere /\ raw.gas < Cost(raw, DOMAIN code)
           /\ include("out_of_gas") /\ UNCHANGED <<code, executor>>
        \/ raw # Elsewhere /\ include("reverted") /\ UNCHANGED <<code, executor>>
        \/ /\ raw # Elsewhere /\ raw.gas >= Cost(raw, DOMAIN code)
           /\ include("ok")
           /\ IF raw.to = NoAddress
              THEN /\ code' = [a \in DOMAIN code \cup {n} |->
                                 IF a = n THEN raw.data.arg ELSE code[a]]
                   /\ executor' = IF n = Executor THEN Constructed ELSE executor
              ELSE /\ UNCHANGED code
                   /\ executor' = IF CodeAt(raw.to) = NoCode THEN executor ELSE Called(raw.data)

\* The account sends something that is not part of the plan.
UsedElsewhere ==
  /\ Cardinality({i \in DOMAIN mined : mined[i].raw = Elsewhere})
       + Cardinality({n \in DOMAIN pool : pool[n] = Elsewhere}) < starting_nonce + MaxElsewhere
  /\ pool' = [n \in DOMAIN pool \cup {PendingNonce} |->
                IF n = PendingNonce THEN Elsewhere ELSE pool[n]]
  /\ UNCHANGED <<mined, code, executor, script, desk, runs>>

-----------------------------------------------------------------------------
(* Seeded faults, as in BaseArbExecutor.                                   *)

\* A receipt of any status will do.
AnyReceipt(n) == n < Len(mined)

\* A resumed deployment is not verified.
PrefixUnverified == TRUE

\* The receipt is waited for without a deadline.
ReceiptUnbounded(s) ==
  script[s].at \in {"verify", "estimate", "nonce", "signing", "send"}

-----------------------------------------------------------------------------
(* scripts_deploy_via_signer.py.                                           *)

\* Only the state right after the three creations can be resumed from.
Resumable(n) == n = starting_nonce + 3

verify_deployed_prefix ==
  /\ CodeAt(Executor) = "BaseArbExecutor"
  /\ CodeAt(AerodromeAdapter) = "AerodromeAdapter"
  /\ CodeAt(UniswapAdapter) = "UniswapV3Adapter"
  /\ executor.owner = Deployer
  /\ executor.paused
  /\ executor.adapterAllowed \cap {AerodromeAdapter, UniswapAdapter} = {}

\* A fresh plan starts at the account's nonce, a resumed one at the nonce the
\* operator names, which has to be the account's too.
Begin(s) ==
  /\ script[s].at \in {"off", "failed", "done", "refused"}
  /\ desk[s] = Free
  /\ runs < MaxRuns
  /\ runs' = runs + 1
  /\ \E at \in {"verify", "estimate"} :
       /\ at = "estimate" => PendingNonce = starting_nonce
       /\ script' = [script EXCEPT ![s] = [at |-> at, from |-> PendingNonce]]
  /\ UNCHANGED <<mined, pool, code, executor, desk>>

\* What a resumed plan has to find on chain.
Verify(s) ==
  /\ script[s].at = "verify"
  /\ Resumable(script[s].from) /\ verify_deployed_prefix
  /\ script' = [script EXCEPT ![s].at = "estimate"]
  /\ UNCHANGED <<mined, pool, code, executor, desk, runs>>

\* All estimates are made before the first transaction is sent, on the state
\* the transactions the node has accepted would lead to.
PendingCode == DOMAIN code \cup {n \in DOMAIN pool : pool[n] # Elsewhere /\ pool[n].to = NoAddress}

EstimateGas(tx) == (Cost(tx, PendingCode) * 120 + 99) \div 100

Estimate(s) ==
  /\ script[s].at = "estimate"
  /\ \E fee \in Fees :
       script' = [script EXCEPT ![s] =
         [at |-> "nonce", next |-> @.from, fee |-> fee,
          gas |-> [n \in {m \in Planned : m >= @.from} |-> EstimateGas(plan.transactions[n])]]]
  /\ UNCHANGED <<mined, pool, code, executor, desk, runs>>

Remaining(s) == script[s].next \in Planned

NonceUnchanged(s) == PendingNonce = script[s].next

Prepared(s) ==
  LET n == script[s].next
  IN [plan_hash |-> PlanHash, chain_id |-> ChainId, from |-> Deployer,
      to |-> plan.transactions[n].to, nonce |-> n, gas |-> script[s].gas[n],
      max_fee_per_gas |-> script[s].fee.base * 2 + script[s].fee.priority,
      max_priority_fee_per_gas |-> script[s].fee.priority,
      value |-> 0, data |-> plan.transactions[n].data]

AskSigner(s) ==
  /\ script[s].at = "nonce" /\ Remaining(s)
  /\ NonceUnchanged(s)
  /\ desk' = [desk EXCEPT ![s] = [at |-> "received", tx |-> Prepared(s)]]
  /\ script' = [script EXCEPT ![s].at = "signing"]
  /\ UNCHANGED <<mined, pool, code, executor, runs>>

\* The answer of the gateway.
TakeSignature(s) ==
  /\ script[s].at = "signing"
  /\ \/ /\ desk[s].at = "signed"
        /\ script' = [script EXCEPT ![s] =
             [at |-> "send", next |-> @.next, fee |-> @.fee, gas |-> @.gas, raw |-> desk[s].raw]]
     \/ /\ desk[s].at = "refused"
        /\ script' = [script EXCEPT ![s] = [at |-> "refused", tx |-> desk[s].tx]]
  /\ desk' = [desk EXCEPT ![s] = Free]
  /\ UNCHANGED <<mined, pool, code, executor, runs>>

Send(s) ==
  LET raw == script[s].raw
  IN /\ script[s].at = "send"
     /\ Acceptable(raw)
     /\ pool' = [n \in DOMAIN pool \cup {raw.nonce} |-> IF n = raw.nonce THEN raw ELSE pool[n]]
     /\ script' = [script EXCEPT ![s].at = "receipt"]
     /\ UNCHANGED <<mined, code, executor, desk, runs>>

\* wait_receipt: the transaction itself is on chain and has succeeded.
Receipt(n) == n < Len(mined) /\ mined[n + 1].status = "ok"

WaitReceipt(s) ==
  LET n == script[s].next
  IN /\ script[s].at = "receipt"
     /\ Receipt(n) /\ mined[n + 1].raw = script[s].raw
     /\ script' = [script EXCEPT ![s] =
          [at |-> "nonce", next |-> n + 1, fee |-> @.fee, gas |-> @.gas]]
     /\ UNCHANGED <<mined, pool, code, executor, desk, runs>>

\* The checks after the last transaction.
Finish(s) ==
  /\ script[s].at = "nonce" /\ ~Remaining(s)
  /\ {CodeAt(Executor), CodeAt(AerodromeAdapter), CodeAt(UniswapAdapter)} \cap {NoCode} = {}
  /\ executor.paused
  /\ script' = [script EXCEPT ![s] = [at |-> "done"]]
  /\ UNCHANGED <<mined, pool, code, executor, desk, runs>>

\* Every call has a timeout and the receipt a deadline of its own.
Bounded(s) == script[s].at \in {"verify", "estimate", "nonce", "signing", "send", "receipt"}

\* A check or a call fails, or somebody stops the script.
Fails(s) ==
  /\ Bounded(s)
  /\ script' = [script EXCEPT ![s] = [at |-> "failed"]]
  /\ UNCHANGED <<mined, pool, code, executor, desk, runs>>

-----------------------------------------------------------------------------
(* The gateway: POST /sign-deployment.                                     *)

Admissible(s) ==
  validate_deployment(desk[s].tx, policy, plan) /\ deployment_method_signature(desk[s].tx)

\* Asks Clef, which signs something that passes verification.
ClefSigns(s) ==
  /\ desk[s].at = "received"
  /\ Admissible(s)
  /\ \E raw \in Signatures(desk[s].tx, Keys, Altered) :
       /\ verify_signed_transaction(raw, desk[s].tx)
       /\ desk' = [desk EXCEPT ![s] = [at |-> "signed", raw |-> raw]]
  /\ UNCHANGED <<mined, pool, code, executor, script, runs>>

\* The policy says no.
Refuse(s) ==
  /\ desk[s].at = "received"
  /\ ~Admissible(s)
  /\ desk' = [desk EXCEPT ![s].at = "refused"]
  /\ UNCHANGED <<mined, pool, code, executor, script, runs>>

\* Clef says no or does not answer in time, or there is nobody left to answer.
Unclaimed(s) ==
  /\ desk[s] # Free /\ script[s].at # "signing"
  /\ desk' = [desk EXCEPT ![s] = Free]
  /\ UNCHANGED <<mined, pool, code, executor, script, runs>>

-----------------------------------------------------------------------------

Run(s) ==
  Verify(s) \/ Estimate(s) \/ AskSigner(s) \/ TakeSignature(s) \/ Send(s) \/ WaitReceipt(s)
  \/ Finish(s) \/ Fails(s)

Next ==
  \/ Mine
  \/ UsedElsewhere
  \/ \E s \in Scripts :
       Begin(s) \/ Run(s) \/ ClefSigns(s) \/ Refuse(s) \/ Unclaimed(s)

Spec == Init /\ [][Next]_vars

\* The script is executed, and its timeouts fire.
FairSpec == Spec /\ \A s \in Scripts : WF_vars(Run(s))

-----------------------------------------------------------------------------
(* Correctness.                                                            *)

\* Everything that was signed and reached the chain or the node is, at its
\* nonce, what was reviewed, whatever Clef or a second run of the script did.
OnlyReviewedSent ==
  \A raw \in {mined[i].raw : i \in DOMAIN mined} \cup {pool[n] : n \in DOMAIN pool} :
    raw = Elsewhere \/
      /\ raw.signer = Deployer
      /\ raw.nonce \in Planned
      /\ raw.to = plan.transactions[raw.nonce].to
      /\ raw.data = plan.transactions[raw.nonce].data
      /\ raw.gas <= policy.max_deployment_gas

\* An adapter is on the allow-list only if the adapter that was reviewed has
\* been deployed at its address, however creations failed and runs resumed.
AllowedAreDeployed ==
  \A a \in executor.adapterAllowed :
    \/ a = AerodromeAdapter /\ CodeAt(a) = "AerodromeAdapter"
    \/ a = UniswapAdapter /\ CodeAt(a) = "UniswapV3Adapter"

\* A deployment that reports success is complete, though its last checks look
\* at the code and the pause switch only (scripts_deploy_via_signer.py:282-291).
DoneMeansDeployed ==
  (\E s \in Scripts : script[s].at = "done") =>
    /\ CodeAt(Executor) = "BaseArbExecutor"
    /\ executor.owner = Deployer /\ executor.paused
    /\ executor.adapterAllowed = {AerodromeAdapter, UniswapAdapter}
    /\ executor.tokenAllowed = {AllowedTokens[i] : i \in DOMAIN AllowedTokens}
    /\ AllowedAreDeployed

\* A run that was started ends, though the node may stop including.
RunsEnd ==
  \A s \in Scripts :
    script[s].at \in {"verify", "estimate"} ~> script[s].at \in {"done", "failed", "refused"}

\* signer-gateway/README.md:145-152: the command submits the reviewed
\* transactions; none of them is sent with too little gas to execute.
ReviewedTransactionsExecute ==
  \A i \in DOMAIN mined : mined[i].status # "out_of_gas"

=============================================================================
