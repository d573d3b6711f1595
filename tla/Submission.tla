----------------------------- MODULE Submission -----------------------------
(***************************************************************************)
(* From a finished plan to a transaction: route_trigger (api.py) posts the *)
(* plan to submit_plan (main.rs), which checks and simulates it, has it    *)
(* signed by the gateway (app.py, policy.py) with the key Clef holds, and  *)
(* broadcasts it.                                                          *)
(*                                                                         *)
(* Every request is three tasks in three processes: "client" in Python,    *)
(* "handler" in Rust and "desk" in the gateway; requests run concurrently  *)
(* and meet at the node.  Each await is a step of its own.  A call to the  *)
(* node may fail or never return: submit_plan gives its calls no timeout.  *)
(* Python stops waiting after 15 seconds; the connection then closes, and  *)
(* the handler is dropped at whichever await it has reached.  The gateway  *)
(* goes on without it.                                                     *)
(*                                                                         *)
(* Data: "id" in calldata stands for the order and its commitment; the     *)
(* profit of an order is left to chance, so a simulation may always fail   *)
(* and an execution may always revert.  The owner sends no transaction     *)
(* besides these, the node forgets no accepted transaction, and a block    *)
(* includes at most one.                                                   *)
(***************************************************************************)
EXTENDS SignerPolicy, Sequences, FiniteSets

CONSTANTS
  Requests,      \* posts to /submit-plan
  Plans,         \* [data, target_block, gas_limit]: what Python may post
  TargetBlock,   \* the target block inside the calldata
  Environments,  \* configurations of the three processes
  Fees,          \* [priority, base]: fees the node may report
  ChainId,       \* of the node
  Owner,         \* owner of the executor on chain
  Executor,      \* its address
  Keys,          \* accounts whose keys Clef holds
  Altered,       \* fields that may be changed in Clef, with a value for each
  None,          \* an optional field of a plan that is absent
  MaxBlock       \* bound: last block explored

Calldata == {p.data : p \in Plans}

ASSUME SubmissionAssumption ==
  /\ Plans \subseteq
       [data : [method : {"start", "startPacked"}, id : Nat],
        target_block : Nat \cup {None}, gas_limit : Nat \cup {None}]
  /\ TargetBlock \in [Calldata -> Nat]
  /\ \A e \in Environments :
       e.policy.max_gas \in Nat /\ e.policy.max_fee_per_gas_wei \in Nat
  /\ None \notin Nat
  /\ MaxBlock \in Nat

VARIABLES
  env,      \* the environment variables of the processes; never changes
  latest,   \* number of the latest block
  pool,     \* transactions the node has accepted, by nonce
  mined,    \* transactions of the owner on chain; the i-th has nonce i - 1
  client,   \* Python's view of a request
  handler,  \* submit_plan: where it is, its plan and its locals
  desk,     \* the gateway: where it is and what it was asked
  sent,     \* history: the raw transaction a request had broadcast
  saw,      \* history: the requests already broadcast when a nonce was read
  asked     \* history: what was posted, and the chain at that moment

vars == <<env, latest, pool, mined, client, handler, desk, sent, saw, asked>>

Free == [at |-> "free"]

Init ==
  /\ env \in Environments
  /\ latest = 0
  /\ pool = <<>>
  /\ mined = <<>>
  /\ client = [r \in Requests |-> "idle"]
  /\ handler = [r \in Requests |-> [at |-> "idle"]]
  /\ desk = [r \in Requests |-> Free]
  /\ sent = <<>>
  /\ saw = [r \in Requests |-> {}]
  /\ asked = <<>>

-----------------------------------------------------------------------------
(* Seeded faults, as in BaseArbExecutor.                                   *)

\* The tag "latest" instead of "pending".
LatestNonce == Len(mined)

\* Nonces are set aside for the requests that hold one but have not sent it.
ReservedNonce ==
  Len(mined) + Cardinality(DOMAIN pool)
    + Cardinality({r \in Requests : handler[r].at \in {"fees", "signing", "send"}})

\* readline() without wait_for.
ClefUnbounded(r) == FALSE

\* A simulation that fails is only reported.
SimulationReported(r) == TRUE

-----------------------------------------------------------------------------
(* The node and the executor contract.                                     *)

Executed == {mined[i].raw.data : i \in {j \in DOMAIN mined : mined[j].ok}}

\* start and startPacked refuse a caller other than the owner, a block after
\* the target and a commitment that was executed.
Executable(from, to, data) ==
  /\ from = Owner /\ to = Executor
  /\ latest + 1 <= TargetBlock[data]
  /\ data \notin Executed

\* eth_getTransactionCount with the tag "pending".
PendingNonce ==
  LET next(n) == \A k \in Len(mined) .. n - 1 : k \in DOMAIN pool
  IN CHOOSE n \in Len(mined) .. Len(mined) + Cardinality(DOMAIN pool) :
       next(n) /\ n \notin DOMAIN pool

\* A nonce that is still to come, and a better fee than the transaction that
\* holds it.
Acceptable(raw) ==
  /\ raw.nonce >= Len(mined)
  /\ raw.nonce \in DOMAIN pool =>
       raw.max_fee_per_gas > pool[raw.nonce].max_fee_per_gas

NewBlock ==
  /\ latest < MaxBlock
  /\ latest' = latest + 1
  /\ UNCHANGED <<env, pool, mined, client, handler, desk, sent, saw, asked>>

Mine ==
  LET n == Len(mined)
      raw == pool[n]
  IN /\ n \in DOMAIN pool
     /\ latest < MaxBlock
     /\ latest' = latest + 1
     /\ \E ok \in BOOLEAN :
          /\ ok => Executable(raw.signer, raw.to, raw.data)
          /\ mined' = Append(mined, [raw |-> raw, ok |-> ok])
     /\ pool' = [k \in DOMAIN pool \ {n} |-> pool[k]]
     /\ UNCHANGED <<env, client, handler, desk, sent, saw, asked>>

-----------------------------------------------------------------------------
(* route_trigger: one packed batch, posted once.                           *)

Submit(r, p) ==
  /\ client[r] = "idle"
  /\ client' = [client EXCEPT ![r] = "waiting"]
  /\ handler' = [handler EXCEPT ![r] = [at |-> "chain", plan |-> p]]
  /\ asked' = [s \in DOMAIN asked \cup {r} |-> IF s # r THEN asked[s] ELSE
                 [data |-> p.data, block |-> latest, executed |-> Executed]]
  /\ UNCHANGED <<env, latest, pool, mined, desk, sent, saw>>

\* httpx gives up, whatever the handler is doing.
GiveUp(r) ==
  /\ client[r] = "waiting"
  /\ client' = [client EXCEPT ![r] = "failed"]
  /\ UNCHANGED <<env, latest, pool, mined, handler, desk, sent, saw, asked>>

\* The SubmissionRecord is written by the packed path only, and an error of
\* the database is swallowed.
Record(r) ==
  /\ client[r] \in {"dry", "live"}
  /\ \/ env.PACKED_MULTIROUTE_ENABLED /\ client' = [client EXCEPT ![r] = "recorded"]
     \/ client' = [client EXCEPT ![r] = "unrecorded"]
  /\ UNCHANGED <<env, latest, pool, mined, handler, desk, sent, saw, asked>>

-----------------------------------------------------------------------------
(* submit_plan.                                                            *)

Running(r) == handler[r].at \notin {"idle", "done"}

\* The handler returns; Python learns of it if it still waits.
Return(r, answer) ==
  /\ handler' = [handler EXCEPT ![r] = [at |-> "done"]]
  /\ client' = [client EXCEPT ![r] = IF @ = "waiting" THEN answer ELSE @]

\* Any call fails, or a check does: an error status without a JSON body,
\* which Python cannot read.
Fails(r) ==
  /\ Running(r) /\ handler[r].at # "signing"
  /\ Return(r, "failed")
  /\ UNCHANGED <<env, latest, pool, mined, desk, sent, saw, asked>>

\* The connection has closed.
Dropped(r) ==
  /\ Running(r) /\ client[r] = "failed"
  /\ handler' = [handler EXCEPT ![r] = [at |-> "done"]]
  /\ UNCHANGED <<env, latest, pool, mined, client, desk, sent, saw, asked>>

CheckChain(r) ==
  /\ handler[r].at = "chain"
  /\ env.CHAIN_ID = ChainId
  /\ NoAddress \notin {env.EXECUTOR_ADDRESS, env.EXECUTOR_OWNER_ADDRESS}
  /\ handler' = [handler EXCEPT ![r].at = "fresh"]
  /\ UNCHANGED <<env, latest, pool, mined, client, desk, sent, saw, asked>>

\* A plan whose target has passed is refused ...
NotPassed(p) == p.target_block # None => latest <= p.target_block

CheckFresh(r) ==
  /\ handler[r].at = "fresh"
  /\ NotPassed(handler[r].plan)
  /\ handler' = [handler EXCEPT ![r].at = "simulate"]
  /\ UNCHANGED <<env, latest, pool, mined, client, desk, sent, saw, asked>>

\* ... unless the node does not say which block is the latest.
LatestUnknown(r) ==
  /\ handler[r].at = "fresh"
  /\ handler' = [handler EXCEPT ![r].at = "simulate"]
  /\ UNCHANGED <<env, latest, pool, mined, client, desk, sent, saw, asked>>

\* The eth_call of the exact calldata can only succeed if the executor would
\* accept the order in the pending block.
Simulated(r) ==
  Executable(env.EXECUTOR_OWNER_ADDRESS, env.EXECUTOR_ADDRESS, handler[r].plan.data)

\* Everything that has to be set for a live submission.
Armed(p) ==
  /\ env.LIVE_TRADING /\ env.LIVE_TRADING_ACK
  /\ env.EXTERNAL_SIGNER_ADDRESS = env.EXECUTOR_OWNER_ADDRESS
  /\ p.gas_limit # None

Simulate(r) ==
  /\ handler[r].at = "simulate"
  /\ Simulated(r)
  /\ \/ /\ env.DRY_RUN
        /\ Return(r, "dry")
     \/ /\ ~env.DRY_RUN
        /\ Armed(handler[r].plan)
        /\ handler' = [handler EXCEPT ![r].at = "nonce"]
        /\ UNCHANGED client
  /\ UNCHANGED <<env, latest, pool, mined, desk, sent, saw, asked>>

ReadNonce(r) ==
  /\ handler[r].at = "nonce"
  /\ handler' = [handler EXCEPT ![r] = [at |-> "fees", plan |-> @.plan, nonce |-> PendingNonce]]
  /\ saw' = [saw EXCEPT ![r] = DOMAIN sent]
  /\ UNCHANGED <<env, latest, pool, mined, client, desk, sent, asked>>

\* The payload for the signer.
SignRequest(r, fee) ==
  [chain_id |-> env.CHAIN_ID, from |-> env.EXTERNAL_SIGNER_ADDRESS,
   to |-> env.EXECUTOR_ADDRESS, nonce |-> handler[r].nonce,
   gas |-> handler[r].plan.gas_limit,
   max_fee_per_gas |-> fee.base + fee.priority,
   max_priority_fee_per_gas |-> fee.priority,
   value |-> 0, data |-> handler[r].plan.data]

\* Read the fees, then the token file, and post the payload.
AskSigner(r) ==
  /\ handler[r].at = "fees"
  /\ \E fee \in Fees :
       desk' = [desk EXCEPT ![r] = [at |-> "received", tx |-> SignRequest(r, fee)]]
  /\ handler' = [handler EXCEPT ![r].at = "signing"]
  /\ UNCHANGED <<env, latest, pool, mined, client, sent, saw, asked>>

TakeSignature(r) ==
  /\ handler[r].at = "signing"
  /\ \/ /\ desk[r].at = "signed"
        /\ handler' = [handler EXCEPT ![r] = [at |-> "send", raw |-> desk[r].raw]]
        /\ UNCHANGED client
     \/ /\ desk[r].at = "refused"
        /\ Return(r, "failed")
  /\ desk' = [desk EXCEPT ![r] = Free]
  /\ UNCHANGED <<env, latest, pool, mined, sent, saw, asked>>

\* eth_sendRawTransaction reaches the node ...
Send(r) ==
  LET raw == handler[r].raw
  IN /\ handler[r].at = "send"
     /\ Acceptable(raw)
     /\ pool' = [n \in DOMAIN pool \cup {raw.nonce} |-> IF n = raw.nonce THEN raw ELSE pool[n]]
     /\ sent' = [s \in DOMAIN sent \cup {r} |-> IF s = r THEN raw ELSE sent[s]]
     /\ handler' = [handler EXCEPT ![r].at = "sent"]
     /\ UNCHANGED <<env, latest, mined, client, desk, saw, asked>>

\* ... and its answer the handler.
Accepted(r) ==
  /\ handler[r].at = "sent"
  /\ Return(r, "live")
  /\ UNCHANGED <<env, latest, pool, mined, desk, sent, saw, asked>>

-----------------------------------------------------------------------------
(* The gateway: POST /sign.                                                *)

\* The token is right and the policy allows the transaction.
Admissible(r) == env.TOKEN_MATCHES /\ validate_execution(desk[r].tx, env.policy)

Admit(r) ==
  /\ desk[r].at = "received"
  /\ Admissible(r)
  /\ desk' = [desk EXCEPT ![r].at = "clef"]
  /\ UNCHANGED <<env, latest, pool, mined, client, handler, sent, saw, asked>>

\* Clef answers with a transaction that passes verification.
ClefSigns(r) ==
  /\ desk[r].at = "clef"
  /\ \E raw \in Signatures(desk[r].tx, Keys, Altered) :
       /\ verify_signed_transaction(raw, desk[r].tx)
       /\ desk' = [desk EXCEPT ![r] = [at |-> "signed", raw |-> raw]]
  /\ UNCHANGED <<env, latest, pool, mined, client, handler, sent, saw, asked>>

\* Waiting for Clef is bounded: connecting, writing and reading each are.
ClefBounded(r) == desk[r].at = "clef"

\* A check, the verification or Clef itself says no, or time is up.
Refuse(r) ==
  /\ \/ desk[r].at = "received" /\ ~Admissible(r)
     \/ ClefBounded(r)
  /\ desk' = [desk EXCEPT ![r] = [at |-> "refused"]]
  /\ UNCHANGED <<env, latest, pool, mined, client, handler, sent, saw, asked>>

\* There is nobody left to answer.
Unclaimed(r) ==
  /\ desk[r].at \in {"signed", "refused"}
  /\ handler[r].at = "done"
  /\ desk' = [desk EXCEPT ![r] = Free]
  /\ UNCHANGED <<env, latest, pool, mined, client, handler, sent, saw, asked>>

-----------------------------------------------------------------------------

Handler(r) ==
  \/ CheckChain(r) \/ CheckFresh(r) \/ LatestUnknown(r) \/ Simulate(r) \/ ReadNonce(r)
  \/ AskSigner(r) \/ TakeSignature(r) \/ Send(r) \/ Accepted(r) \/ Fails(r)

Gateway(r) == Admit(r) \/ ClefSigns(r) \/ Refuse(r) \/ Unclaimed(r)

Next ==
  \/ NewBlock
  \/ Mine
  \/ \E r \in Requests :
       \/ \E p \in Plans : Submit(r, p)
       \/ GiveUp(r) \/ Record(r) \/ Dropped(r)
       \/ Handler(r)
       \/ Gateway(r)

Spec == Init /\ [][Next]_vars

\* Timers fire, closed connections are noticed and the gateway's own steps are
\* taken; nothing is assumed of the node and of Clef, nor of the handler,
\* which waits for them.
FairSpec ==
  /\ Spec
  /\ \A r \in Requests :
       /\ WF_vars(GiveUp(r)) /\ WF_vars(Dropped(r))
       /\ WF_vars(Admit(r)) /\ WF_vars(Refuse(r)) /\ WF_vars(Unclaimed(r))

-----------------------------------------------------------------------------
(* Correctness.                                                            *)

Live ==
  /\ ~env.DRY_RUN /\ env.LIVE_TRADING /\ env.LIVE_TRADING_ACK
  /\ env.policy.allow_execution_signing

\* Whatever Clef signs and whichever process is misconfigured, what reaches
\* the node is a call of the executor by its owner for a plan's own calldata,
\* within the caps of the gateway, and only when every switch is on.
OnlyReviewedBroadcast ==
  \A r \in DOMAIN sent :
    /\ Live
    /\ sent[r].signer = Owner /\ sent[r].to = Executor /\ sent[r].value = 0
    /\ sent[r].gas <= env.policy.max_gas
    /\ sent[r].max_fee_per_gas <= env.policy.max_fee_per_gas_wei
    /\ sent[r].data \in Calldata

\* A plan that was already executed, or whose target had passed, when it was
\* posted is neither accepted as a dry run nor broadcast: the simulation of
\* the exact calldata stops it (main.rs:339-348, README.md:235), even when
\* the node does not answer the question for its latest block.
StalePlansStop ==
  \A r \in Requests :
    r \in DOMAIN sent \/ client[r] = "dry" =>
      /\ asked[r].block < TargetBlock[asked[r].data]
      /\ asked[r].data \notin asked[r].executed

\* No accepted transaction waits for ever behind a nonce that nobody uses.  A
\* request keeps the nonce it has read (main.rs:375-377) through the reading of
\* the fees and for as long as Clef takes; meanwhile others are dropped, fail or
\* are refused, blocks are mined, and Clef's operator may write another nonce.
NoNonceGap ==
  \A n \in DOMAIN pool : \A k \in Len(mined) .. n : k \in DOMAIN pool

Kept(raw) ==
  \/ \E n \in DOMAIN pool : pool[n] = raw
  \/ \E i \in DOMAIN mined : mined[i].raw = raw

\* A broadcast transaction is lost only to one with the same nonce whose
\* request had read its nonce before: requests that follow one another never
\* take each other's nonce.
LostOnlyToOverlap ==
  \A r \in DOMAIN sent :
    Kept(sent[r]) \/ \E s \in DOMAIN sent :
      s # r /\ sent[s].nonce = sent[r].nonce /\ r \notin saw[s]

\* Python, the handler and the gateway all come to an end, though the node
\* may never answer and nobody may look at Clef's console.
RequestsEnd ==
  \A r \in Requests :
    client[r] = "waiting" ~>
      client[r] # "waiting" /\ handler[r].at = "done" /\ desk[r].at = "free"

\* README.md:164: the reports, drawn from the recorded submissions, contain
\* any non-dry submission; so once a request is over, what it broadcast has
\* been recorded.
BroadcastsAreRecorded ==
  \A r \in DOMAIN sent :
    handler[r].at = "done" /\ client[r] \notin {"waiting", "dry", "live"} =>
      client[r] = "recorded"

=============================================================================
