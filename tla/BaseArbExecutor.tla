-------------------------- MODULE BaseArbExecutor --------------------------
(***************************************************************************)
(* contracts/src/BaseArbExecutor.sol: the contract that borrows from Aave, *)
(* runs the legs of a route (or the first candidate of a packed menu that  *)
(* succeeds), repays the pool and keeps the profit.                        *)
(*                                                                         *)
(* A transaction is modelled call by call.  While code outside the         *)
(* contract runs (the pool, an adapter and what it calls), any account,    *)
(* the owner included, may call any entry point again: a re-entrant call   *)
(* that the contract refuses has no effect, one that it accepts is a step. *)
(* "frames" is the EVM's stack of revert boundaries: the outermost         *)
(* transaction and, inside it, the external self-call that isolates one    *)
(* candidate.  A require that fails, a call that fails and an out-of-gas   *)
(* all have the same effect, to restore the innermost boundary, so the     *)
(* guards below are those of the paths that do not revert and the two      *)
(* revert actions are always possible.                                     *)
(*                                                                         *)
(* Data: a route is a menu of one candidate; keccak256 is an injective     *)
(* function given as a constant; leg data is part of the adapter; amounts  *)
(* are naturals (a checked-arithmetic overflow is a revert).               *)
(***************************************************************************)
EXTENDS Naturals, Sequences

CONSTANTS
  Accounts,    \* the addresses that may send a transaction or re-enter
  Deployer,    \* the one that creates the contract
  NoAccount,   \* address(0)
  POOL,        \* the Aave pool, as a spender
  Tokens,      \* ERC-20 tokens
  Adapters,    \* IExchangeAdapter contracts
  Orders,      \* submitted routes and packed batches
  NoOrder,     \* no call in progress
  Hash,        \* keccak256 of an order
  NoHash,      \* bytes32(0)
  Premiums,    \* what the pool may charge for a loan
  Outputs,     \* what an adapter may deliver for a swap
  Gifts,       \* what a third party may transfer to the contract
  BlockTime,   \* seconds per block
  MaxBlock,    \* bound: last block explored
  MaxBalance   \* bound: no third-party transfer beyond this balance

MAX_PACKED_CANDIDATES == 8
MAX_PACKED_LEGS == 4

Spenders == Adapters \cup {POOL}
Hashes == {Hash[o] : o \in Orders}

Leg == [adapter : Adapters, tokenIn : Tokens, tokenOut : Tokens, minOut : Nat]
Candidate == [id : Nat, minProfit : Nat, legs : Seq(Leg)]
Order == [kind : {"route", "packed"}, asset : Tokens, amount : Nat,
          targetBlock : Nat, deadline : Nat, menu : Seq(Candidate)]

ASSUME AccountAssumption == Deployer \in Accounts /\ NoAccount \notin Accounts
ASSUME SpenderAssumption == POOL \notin Adapters
ASSUME OrderAssumption ==
  /\ Orders \subseteq Order /\ NoOrder \notin Orders
  /\ \A o \in Orders : o.kind = "route" => Len(o.menu) = 1
ASSUME HashAssumption ==
  /\ DOMAIN Hash = Orders /\ NoHash \notin Hashes
  /\ \A o, p \in Orders : Hash[o] = Hash[p] => o = p
ASSUME AmountAssumption ==
  /\ Premiums \subseteq Nat /\ Outputs \subseteq Nat /\ Gifts \subseteq Nat
  /\ BlockTime \in Nat /\ MaxBlock \in Nat /\ MaxBalance \in Nat

VARIABLES
  store,   \* the contract's storage
  ledger,  \* its token balances and the allowances it has granted
  frames,  \* revert boundaries, outermost first
  pc,      \* where the running transaction is; "idle" between transactions
  call,    \* arguments and locals of the calls in progress
  events,  \* emitted RouteExecuted / PackedRouteExecuted events
  block    \* block.number

vars == <<store, ledger, frames, pc, call, events, block>>

Idle == [order |-> NoOrder, premium |-> 0, cand |-> 0, leg |-> 0,
         amountIn |-> 0, before |-> 0, beforeOut |-> 0]

NoAllowance == [s \in Spenders |-> [t \in Tokens |-> 0]]

\* constructor: the deployer owns a paused contract that allows nothing.
Init ==
  /\ store = [owner |-> Deployer, pendingOwner |-> NoAccount,
              adapterAllowed |-> {}, tokenAllowed |-> {}, paused |-> TRUE,
              commitmentUsed |-> {},
              activeRouteHash |-> NoHash, activeBatchHash |-> NoHash,
              activePreLoanBalance |-> 0, activePremium |-> 0,
              activeSelectedCandidateId |-> 0,
              activeSelectedCandidateIndex |-> 0,
              activeSelectedMinProfit |-> 0,
              callbackEntered |-> FALSE, operationEntered |-> FALSE]
  /\ ledger = [bal |-> [t \in Tokens |-> 0], allow |-> NoAllowance]
  /\ frames = <<>>
  /\ pc = "idle"
  /\ call = Idle
  /\ events = <<>>
  /\ block = 0

-----------------------------------------------------------------------------
(* Seeded faults.  No action uses these operators: each one is what a      *)
(* definition below would say if the contract had a plausible bug, and is  *)
(* put in its place to see the property about it fail.                     *)

\* Idleness judged by the callback alone.
IdleBetweenCallbacks == ~store.callbackEntered

\* The deadline is forgotten.
FreshByBlock(o) == block <= o.targetBlock

\* Only the order in progress is refused, not those executed before.
NotInProgress(o) == Hash[o] # store.activeRouteHash

\* The ends of the legs are not compared with the asset.
ChainedInside(asset, legs) ==
  \A k \in 1 .. Len(legs) - 1 : legs[k].tokenOut = legs[k + 1].tokenIn

\* The adapter is trusted to use up its approval.
ApprovalKept(approved, pulled) == approved - pulled

\* The loan is repaid, the promised profit is not looked at.
LoanRecovered(minProfit) ==
  ledger.bal[call.order.asset]
    >= store.activePreLoanBalance + call.order.amount + call.premium

\* A candidate is judged without the premium of the loan.
CandidateProfitsBeforePremium ==
  ledger.bal[call.order.asset]
    >= call.before + call.order.menu[call.cand].minProfit

\* The candidate runs inside the caller: nothing is undone when it fails.
CandidateFailsInPlace ==
  /\ Len(frames) >= 2
  /\ pc' = "menu"
  /\ call' = [call EXCEPT !.cand = @ + 1, !.leg = 1, !.amountIn = 0,
                          !.before = 0, !.beforeOut = 0]
  /\ UNCHANGED <<store, ledger, frames, events, block>>

\* The menu is not advanced after a failure.
CandidateRetries ==
  /\ Len(frames) = 2
  /\ store' = frames[2].store
  /\ ledger' = frames[2].ledger
  /\ frames' = <<frames[1]>>
  /\ pc' = "menu"
  /\ call' = [call EXCEPT !.leg = 1, !.amountIn = 0,
                          !.before = 0, !.beforeOut = 0]
  /\ UNCHANGED <<events, block>>

-----------------------------------------------------------------------------
(* Guards shared by the entry points.                                      *)

\* Code outside the contract is running and may call any entry point.
Outside == pc \in {"idle", "pool", "swap", "settle"}

\* The tokens have no transfer hooks: third parties move them only between
\* transactions and while an adapter swaps.
ThirdParty == pc \in {"idle", "swap"}

OnlyOwner(caller) == caller = store.owner

OnlyIdle ==
  /\ ~store.operationEntered
  /\ ~store.callbackEntered
  /\ store.activeRouteHash = NoHash
  /\ store.activeBatchHash = NoHash

OperationLock == ~store.operationEntered

Fresh(o) == block <= o.targetBlock /\ block * BlockTime <= o.deadline

ValidLeg(l) ==
  /\ l.adapter \in store.adapterAllowed
  /\ l.tokenIn \in store.tokenAllowed
  /\ l.tokenOut \in store.tokenAllowed
  /\ l.tokenIn # l.tokenOut

\* The legs form a cycle from the asset to itself.
Chained(asset, legs) ==
  /\ legs[1].tokenIn = asset
  /\ legs[Len(legs)].tokenOut = asset
  /\ \A k \in 1 .. Len(legs) - 1 : legs[k].tokenOut = legs[k + 1].tokenIn

ValidRoute(o) ==
  LET legs == o.menu[1].legs
  IN /\ o.amount # 0
     /\ Len(legs) >= 2
     /\ o.asset \in store.tokenAllowed
     /\ Chained(o.asset, legs)
     /\ \A k \in DOMAIN legs : ValidLeg(legs[k])

ValidPacked(o) ==
  /\ o.amount # 0
  /\ Len(o.menu) \in 1 .. MAX_PACKED_CANDIDATES
  /\ o.asset \in store.tokenAllowed
  /\ \A i \in DOMAIN o.menu :
       LET legs == o.menu[i].legs
       IN /\ o.menu[i].id # 0
          /\ Len(legs) \in 2 .. MAX_PACKED_LEGS
          /\ Chained(o.asset, legs)
          /\ \A k \in DOMAIN legs : ValidLeg(legs[k])

\* A commitment executes at most once.
Uncommitted(o) == Hash[o] \notin store.commitmentUsed

\* No candidate starts with a balance of a token it passes through; the
\* asset itself is exempt.
CleanIntermediates(o) ==
  \A i \in DOMAIN o.menu :
    \A k \in 1 .. Len(o.menu[i].legs) - 1 :
      LET token == o.menu[i].legs[k].tokenOut
      IN token = o.asset \/ ledger.bal[token] = 0

-----------------------------------------------------------------------------
(* Administration.                                                         *)

SetAdapter(caller, adapter, allowed) ==
  /\ Outside /\ OnlyOwner(caller) /\ OnlyIdle
  /\ store' = [store EXCEPT !.adapterAllowed =
                 IF allowed THEN @ \cup {adapter} ELSE @ \ {adapter}]
  /\ UNCHANGED <<ledger, frames, pc, call, events, block>>

SetToken(caller, token, allowed) ==
  /\ Outside /\ OnlyOwner(caller) /\ OnlyIdle
  /\ store' = [store EXCEPT !.tokenAllowed =
                 IF allowed THEN @ \cup {token} ELSE @ \ {token}]
  /\ UNCHANGED <<ledger, frames, pc, call, events, block>>

SetPaused(caller, value) ==
  /\ Outside /\ OnlyOwner(caller) /\ OnlyIdle
  /\ store' = [store EXCEPT !.paused = value]
  /\ UNCHANGED <<ledger, frames, pc, call, events, block>>

TransferOwnership(caller, next) ==
  /\ Outside /\ OnlyOwner(caller) /\ OnlyIdle
  /\ next # NoAccount
  /\ store' = [store EXCEPT !.pendingOwner = next]
  /\ UNCHANGED <<ledger, frames, pc, call, events, block>>

AcceptOwnership(caller) ==
  /\ Outside /\ OnlyIdle
  /\ caller = store.pendingOwner
  /\ store' = [store EXCEPT !.owner = caller, !.pendingOwner = NoAccount]
  /\ UNCHANGED <<ledger, frames, pc, call, events, block>>

Sweep(caller, token, amount) ==
  /\ Outside /\ OnlyOwner(caller) /\ OnlyIdle
  /\ amount <= ledger.bal[token]
  /\ ledger' = [ledger EXCEPT !.bal[token] = @ - amount]
  /\ UNCHANGED <<store, frames, pc, call, events, block>>

-----------------------------------------------------------------------------
(* One operation, call by call.                                            *)

Snapshot == [store |-> store, ledger |-> ledger]

\* The tail start and startPacked share: mark the commitment, remember the
\* balance, and ask the pool for the loan, which it transfers at once.
Borrow(o, activated) ==
  /\ store' = [activated EXCEPT
                 !.operationEntered = TRUE,
                 !.commitmentUsed = @ \cup {Hash[o]},
                 !.activePreLoanBalance = ledger.bal[o.asset]]
  /\ ledger' = [ledger EXCEPT !.bal[o.asset] = @ + o.amount]
  /\ frames' = <<Snapshot>>
  /\ pc' = "pool"
  /\ \E premium \in Premiums :
       call' = [Idle EXCEPT !.order = o, !.premium = premium]
  /\ UNCHANGED <<events, block>>

Startable(caller, o) ==
  /\ Outside /\ OnlyOwner(caller) /\ OperationLock
  /\ ~store.paused
  /\ store.activeRouteHash = NoHash /\ store.activeBatchHash = NoHash
  /\ Fresh(o)
  /\ Uncommitted(o)
  /\ CleanIntermediates(o)

\* start(route): the caller also declares the hash of the route.
Start(caller, o, declared) ==
  /\ o.kind = "route"
  /\ Startable(caller, o)
  /\ declared = Hash[o]
  /\ ValidRoute(o)
  /\ Borrow(o, [store EXCEPT !.activeRouteHash = declared])

\* startPacked(packed): the hash is that of the bytes themselves.
StartPacked(caller, o) ==
  /\ o.kind = "packed"
  /\ Startable(caller, o)
  /\ ValidPacked(o)
  /\ Borrow(o, [store EXCEPT !.activeBatchHash = Hash[o],
                             !.activeSelectedCandidateId = 0,
                             !.activeSelectedCandidateIndex = 0,
                             !.activeSelectedMinProfit = 0])

\* executeOperation, up to the first leg or the first candidate.  The pool
\* hands back the arguments it was given; a callback with another initiator
\* is refused and has no effect.
ExecuteOperation ==
  LET o == call.order
  IN /\ pc = "pool"
     /\ ~store.callbackEntered
     /\ Fresh(o)
     /\ \/ /\ store.activeBatchHash # NoHash
           /\ Hash[o] = store.activeBatchHash
           /\ ValidPacked(o)
           /\ pc' = "menu"
        \/ /\ store.activeBatchHash = NoHash
           /\ store.activeRouteHash # NoHash
           /\ Hash[o] = store.activeRouteHash
           /\ ValidRoute(o)
           /\ pc' = "leg"
     /\ store' = [store EXCEPT !.callbackEntered = TRUE]
     /\ call' = [call EXCEPT !.cand = 1, !.leg = 1]
     /\ UNCHANGED <<ledger, frames, events, block>>

\* The self-call of _executePackedCallback opens a revert boundary.
AttemptPackedCandidate ==
  LET o == call.order
      legs == o.menu[call.cand].legs
  IN /\ pc = "menu"
     /\ call.cand <= Len(o.menu)
     /\ store.activeBatchHash # NoHash
     /\ Len(legs) \in 2 .. MAX_PACKED_LEGS
     /\ legs[1].tokenIn = o.asset
     /\ legs[Len(legs)].tokenOut = o.asset
     /\ frames' = Append(frames, Snapshot)
     /\ call' = [call EXCEPT !.leg = 1, !.before = ledger.bal[o.asset]]
     /\ pc' = "leg"
     /\ UNCHANGED <<store, ledger, events, block>>

CurrentCandidate == call.order.menu[call.cand]
CurrentLeg == CurrentCandidate.legs[call.leg]
LegsDone == call.leg > Len(CurrentCandidate.legs)

\* What a leg is given: the loan, then whatever the contract holds of the
\* leg's input token.
LegInput ==
  IF call.leg = 1 THEN call.order.amount ELSE ledger.bal[CurrentLeg.tokenIn]

\* First half of a leg: approve the adapter and call it.
CallAdapter ==
  /\ pc = "leg" /\ ~LegsDone
  /\ LegInput # 0
  /\ ledger' = [ledger EXCEPT !.allow[CurrentLeg.adapter][CurrentLeg.tokenIn] = LegInput]
  /\ call' = [call EXCEPT !.amountIn = LegInput,
                          !.beforeOut = ledger.bal[CurrentLeg.tokenOut]]
  /\ pc' = "swap"
  /\ UNCHANGED <<store, frames, events, block>>

\* The adapter's approval is withdrawn when it returns.
ApprovalLeft(approved, pulled) == 0

\* Second half: the adapter took "pulled" within its allowance, delivered
\* "out", and returned; the approval is withdrawn and the balance change
\* measured.  An adapter that reports another amount makes the leg revert.
AdapterReturns(pulled, out) ==
  LET l == CurrentLeg
      delivered == ledger.bal[l.tokenOut] + out
  IN /\ pc = "swap"
     /\ pulled <= ledger.allow[l.adapter][l.tokenIn]
     /\ pulled <= ledger.bal[l.tokenIn]
     /\ delivered >= call.beforeOut + l.minOut
     /\ ledger' = [ledger EXCEPT !.bal[l.tokenIn] = @ - pulled,
                                 !.bal[l.tokenOut] = delivered,
                                 !.allow[l.adapter][l.tokenIn] = ApprovalLeft(@, pulled)]
     /\ call' = [call EXCEPT !.leg = @ + 1, !.amountIn = 0, !.beforeOut = 0]
     /\ pc' = "leg"
     /\ UNCHANGED <<store, frames, events, block>>

Owed == call.order.amount + call.premium

\* The contract holds its earlier balance, the debt and the promised profit.
Profitable(minProfit) ==
  ledger.bal[call.order.asset] >= store.activePreLoanBalance + Owed + minProfit

\* Approve the pool for what it is owed and return from the callback.
ReturnToPool(minProfit) ==
  /\ Profitable(minProfit)
  /\ store' = [store EXCEPT !.activePremium = call.premium,
                            !.callbackEntered = FALSE]
  /\ ledger' = [ledger EXCEPT !.allow[POOL][call.order.asset] = Owed]
  /\ pc' = "settle"
  /\ UNCHANGED <<frames, call, events, block>>

FinishRoute ==
  /\ pc = "leg" /\ LegsDone
  /\ call.order.kind = "route"
  /\ ledger.bal[call.order.asset] >= Owed
  /\ ReturnToPool(CurrentCandidate.minProfit)

CandidateProfitable ==
  ledger.bal[call.order.asset]
    >= call.before + call.premium + CurrentCandidate.minProfit

\* attemptPackedCandidate returns; the caller records the selection.
CandidateSucceeds ==
  /\ pc = "leg" /\ LegsDone
  /\ call.order.kind = "packed"
  /\ CandidateProfitable
  /\ store' = [store EXCEPT !.activeSelectedCandidateId = CurrentCandidate.id,
                            !.activeSelectedCandidateIndex = call.cand - 1,
                            !.activeSelectedMinProfit = CurrentCandidate.minProfit]
  /\ frames' = <<frames[1]>>
  /\ pc' = "selected"
  /\ UNCHANGED <<ledger, call, events, block>>

FinishPacked ==
  /\ pc = "selected"
  /\ ReturnToPool(store.activeSelectedMinProfit)

Cleared(s) ==
  [s EXCEPT !.activeRouteHash = NoHash, !.activeBatchHash = NoHash,
            !.activePreLoanBalance = 0, !.activePremium = 0,
            !.activeSelectedCandidateId = 0,
            !.activeSelectedCandidateIndex = 0,
            !.activeSelectedMinProfit = 0,
            !.operationEntered = FALSE]

\* The pool collects what it is owed; start or startPacked clears the active
\* slots, checks the final balance and emits its event.
Settle ==
  LET o == call.order
      final == ledger.bal[o.asset] - Owed
      minProfit == IF o.kind = "route" THEN o.menu[1].minProfit
                   ELSE store.activeSelectedMinProfit
  IN /\ pc = "settle"
     /\ ledger.allow[POOL][o.asset] >= Owed
     /\ ledger.bal[o.asset] >= Owed
     /\ o.kind = "packed" => store.activeSelectedCandidateId # 0
     /\ final >= store.activePreLoanBalance + minProfit
     /\ ledger' = [ledger EXCEPT !.bal[o.asset] = final,
                                 !.allow[POOL][o.asset] = @ - Owed]
     /\ store' = Cleared(store)
     /\ events' = Append(events,
          [hash |-> Hash[o],
           candidate |-> IF o.kind = "route" THEN 1
                         ELSE store.activeSelectedCandidateIndex + 1,
           premium |-> store.activePremium,
           netProfit |-> final - store.activePreLoanBalance])
     /\ frames' = <<>>
     /\ pc' = "idle"
     /\ call' = Idle
     /\ UNCHANGED block

\* A candidate reverts: its boundary is restored and the next one is tried.
CandidateReverts ==
  /\ Len(frames) = 2
  /\ store' = frames[2].store
  /\ ledger' = frames[2].ledger
  /\ frames' = <<frames[1]>>
  /\ pc' = "menu"
  /\ call' = [call EXCEPT !.cand = @ + 1, !.leg = 1, !.amountIn = 0,
                          !.before = 0, !.beforeOut = 0]
  /\ UNCHANGED <<events, block>>

\* The whole transaction reverts.
TransactionReverts ==
  /\ pc # "idle"
  /\ store' = frames[1].store
  /\ ledger' = frames[1].ledger
  /\ frames' = <<>>
  /\ pc' = "idle"
  /\ call' = Idle
  /\ UNCHANGED <<events, block>>

-----------------------------------------------------------------------------
(* The environment.                                                        *)

\* Anybody transfers tokens to the contract.
Receive(token, amount) ==
  /\ ThirdParty
  /\ ledger.bal[token] + amount <= MaxBalance
  /\ ledger' = [ledger EXCEPT !.bal[token] = @ + amount]
  /\ UNCHANGED <<store, frames, pc, call, events, block>>

NewBlock ==
  /\ pc = "idle"
  /\ block < MaxBlock
  /\ block' = block + 1
  /\ UNCHANGED <<store, ledger, frames, pc, call, events>>

-----------------------------------------------------------------------------

Administration ==
  \E caller \in Accounts :
    \/ \E adapter \in Adapters, allowed \in BOOLEAN : SetAdapter(caller, adapter, allowed)
    \/ \E token \in Tokens, allowed \in BOOLEAN : SetToken(caller, token, allowed)
    \/ \E value \in BOOLEAN : SetPaused(caller, value)
    \/ \E next \in Accounts : TransferOwnership(caller, next)
    \/ AcceptOwnership(caller)
    \/ \E token \in Tokens, amount \in 0 .. MaxBalance : Sweep(caller, token, amount)

Opening ==
  \E caller \in Accounts, o \in Orders :
    \/ \E declared \in Hashes : Start(caller, o, declared)
    \/ StartPacked(caller, o)

Running ==
  \/ ExecuteOperation
  \/ AttemptPackedCandidate
  \/ CallAdapter
  \/ \E pulled \in 0 .. call.amountIn, out \in Outputs : AdapterReturns(pulled, out)
  \/ FinishRoute
  \/ CandidateSucceeds
  \/ FinishPacked
  \/ Settle
  \/ CandidateReverts
  \/ TransactionReverts

Environment ==
  \/ \E token \in Tokens, amount \in Gifts : Receive(token, amount)
  \/ NewBlock

Next == Administration \/ Opening \/ Running \/ Environment

Spec == Init /\ [][Next]_vars

\* A transaction that has begun is executed to its end by the EVM.
FairSpec == Spec /\ WF_vars(Running)

-----------------------------------------------------------------------------
(* Correctness.                                                            *)

Config(s) == [owner |-> s.owner, pendingOwner |-> s.pendingOwner,
              adapterAllowed |-> s.adapterAllowed,
              tokenAllowed |-> s.tokenAllowed, paused |-> s.paused]

\* What the chain shows while a transaction runs is the state before it.
Outermost == IF frames = <<>> THEN Snapshot ELSE frames[1]

Atomic ==
  INSTANCE AtomicArbitrage WITH
    config <- Config(Outermost.store),
    bal <- Outermost.ledger.bal,
    used <- Outermost.store.commitmentUsed,
    log <- events

\* Every transaction is all or nothing: seen from outside, start, startPacked
\* and everything they call are one step of AtomicArbitrage or no step, though
\* adapters re-enter and candidates fail along the way.
AllOrNothing == Atomic!Spec

Balances == [Tokens -> Nat]
Allowances == [Spenders -> [Tokens -> Nat]]
Ledgers == [bal : Balances, allow : Allowances]
Stores ==
  [owner : Accounts, pendingOwner : Accounts \cup {NoAccount},
   adapterAllowed : SUBSET Adapters, tokenAllowed : SUBSET Tokens,
   paused : BOOLEAN, commitmentUsed : SUBSET Hashes,
   activeRouteHash : Hashes \cup {NoHash}, activeBatchHash : Hashes \cup {NoHash},
   activePreLoanBalance : Nat, activePremium : Nat,
   activeSelectedCandidateId : Nat, activeSelectedCandidateIndex : Nat,
   activeSelectedMinProfit : Nat,
   callbackEntered : BOOLEAN, operationEntered : BOOLEAN]
Snapshots == [store : Stores, ledger : Ledgers]
Calls ==
  [order : Orders \cup {NoOrder}, premium : Nat, cand : Nat, leg : Nat,
   amountIn : Nat, before : Nat, beforeOut : Nat]
Events == [hash : Hashes, candidate : Nat, premium : Nat, netProfit : Nat]

\* Types: balances and recorded profits never go below zero, a transaction
\* has one revert boundary and at most one more for a candidate.
TypeOK ==
  /\ store \in Stores
  /\ ledger \in Ledgers
  /\ frames \in Seq(Snapshots) /\ Len(frames) <= 2
  /\ pc \in {"idle", "pool", "menu", "leg", "swap", "selected", "settle"}
  /\ call \in Calls
  /\ events \in Seq(Events)
  /\ block \in Nat

\* Between transactions nothing is left over: no lock, no active slot and no
\* allowance to an adapter or the pool, however the last transaction ended
\* and whatever its adapters took (BaseArbExecutor.sol:172-174, 212-217, 331).
NothingLeftOver ==
  pc = "idle" =>
    /\ ~store.operationEntered /\ ~store.callbackEntered
    /\ store.activeRouteHash = NoHash /\ store.activeBatchHash = NoHash
    /\ store.activePreLoanBalance = 0 /\ store.activePremium = 0
    /\ store.activeSelectedCandidateId = 0
    /\ store.activeSelectedCandidateIndex = 0
    /\ store.activeSelectedMinProfit = 0
    /\ ledger.allow = NoAllowance

\* No commitment executes twice, in whichever of the two entry points and
\* however often it was tried and reverted in between.
ExecutedOnce ==
  \A i, j \in DOMAIN events : events[i].hash = events[j].hash => i = j

\* Whoever is called during an operation, re-entering as the owner included,
\* cannot change the configuration under it.
ConfigurationFrozen ==
  [][store.operationEntered => Config(store') = Config(store)]_vars

\* The first leg of every attempt finds the balances the transaction began
\* with plus the loan, and no allowance: a failed candidate leaves no trace.
AttemptsStartAlike ==
  pc = "leg" /\ call.leg = 1 =>
    /\ ledger.bal = [frames[1].ledger.bal EXCEPT ![call.order.asset] = @ + call.order.amount]
    /\ ledger.allow = NoAllowance

\* A leg that spends a token other than the asset spends only what this
\* transaction brought in, never a balance that was there before it.
NoPriorBalanceSpent ==
  pc = "swap" /\ CurrentLeg.tokenIn # call.order.asset =>
    call.amountIn + frames[1].ledger.bal[CurrentLeg.tokenIn]
      <= ledger.bal[CurrentLeg.tokenIn]

\* docs/SECURITY_REVIEW.md: zero intermediate balances are to prevent
\* unrelated balances from being consumed by a route, whatever its tokens.
UnrelatedBalanceNeverSpent ==
  pc = "swap" /\ call.leg > 1 =>
    call.amountIn + frames[1].ledger.bal[CurrentLeg.tokenIn]
      <= ledger.bal[CurrentLeg.tokenIn]

\* A candidate that was selected passes the outer check of the callback: the
\* menu is never abandoned with ProfitTooLow once a candidate has returned.
SelectionIsFinal ==
  pc = "selected" =>
    /\ ledger.bal[call.order.asset]
         >= store.activePreLoanBalance + Owed + store.activeSelectedMinProfit
    /\ store.activeSelectedCandidateId # 0

\* When the callback has returned the pool can collect exactly what it is
\* owed, and the checks at the end of start or startPacked then pass.
RepaymentCovered ==
  pc = "settle" =>
    /\ ledger.allow = [NoAllowance EXCEPT ![POOL][call.order.asset] = Owed]
    /\ ledger.bal[call.order.asset] >=
         Owed + frames[1].ledger.bal[call.order.asset]
         + call.order.menu[call.cand].minProfit

\* An operation that has begun ends: the lock is not held for ever, and the
\* menu of a batch is worked through.
OperationsEnd == store.operationEntered ~> ~store.operationEntered

-----------------------------------------------------------------------------
(* The inductive invariant of module BaseArbExecutorProofs.                *)

InOperation == pc # "idle"

\* Which control points exist inside which revert boundary, and that the
\* locals of the calls in progress point at a leg of the order.
Control ==
  /\ pc = "idle" <=> frames = <<>>
  /\ pc \in {"pool", "menu", "selected", "settle"} => Len(frames) = 1
  /\ InOperation => call.order \in Orders
  /\ pc \in {"menu", "selected"} => call.order.kind = "packed"
  /\ pc = "menu" => call.cand >= 1
  /\ pc \in {"leg", "swap", "selected", "settle"} => call.cand \in DOMAIN call.order.menu
  /\ pc \in {"leg", "swap"} =>
       /\ Len(frames) = (IF call.order.kind = "packed" THEN 2 ELSE 1)
       /\ call.leg \in 1 .. Len(CurrentCandidate.legs) + 1
  /\ pc = "swap" => ~LegsDone

\* A store in which no operation is in progress.
AtRest(s) ==
  /\ ~s.operationEntered /\ ~s.callbackEntered
  /\ s.activeRouteHash = NoHash /\ s.activeBatchHash = NoHash
  /\ s.activePreLoanBalance = 0 /\ s.activePremium = 0
  /\ s.activeSelectedCandidateId = 0
  /\ s.activeSelectedCandidateIndex = 0
  /\ s.activeSelectedMinProfit = 0

\* The lock is held exactly inside a transaction, and the callback flag
\* between the pool's call and the return to it.
Locks ==
  /\ ~InOperation => AtRest(store)
  /\ InOperation =>
       /\ AtRest(frames[1].store)
       /\ store.operationEntered
       /\ store.callbackEntered <=> pc \notin {"pool", "settle"}

\* The running order is the active one, committed here and not in the state
\* before, from which the configuration has not moved.
Commitment ==
  InOperation =>
    /\ Config(store) = Config(frames[1].store)
    /\ Hash[call.order] \notin frames[1].store.commitmentUsed
    /\ store.commitmentUsed = frames[1].store.commitmentUsed \cup {Hash[call.order]}
    /\ store.activeRouteHash = (IF call.order.kind = "route" THEN Hash[call.order] ELSE NoHash)
    /\ store.activeBatchHash = (IF call.order.kind = "packed" THEN Hash[call.order] ELSE NoHash)

\* What the contract holds once the pool has transferred the loan.
Loaned == [frames[1].ledger.bal EXCEPT ![call.order.asset] = @ + call.order.amount]

\* A candidate's boundary saves the state every attempt starts from.
Boundaries ==
  /\ InOperation =>
       /\ frames[1].ledger.allow = NoAllowance
       /\ store.activePreLoanBalance = frames[1].ledger.bal[call.order.asset]
  /\ pc \in {"pool", "menu"} => ledger.bal = Loaned
  /\ pc \in {"leg", "swap"} /\ call.order.kind = "packed" =>
       /\ frames[2].store = store
       /\ frames[2].ledger = [bal |-> Loaned, allow |-> NoAllowance]
       /\ call.before = Loaned[call.order.asset]

\* An allowance exists only for the adapter or the pool being called.
OneAllowance ==
  /\ pc \notin {"swap", "settle"} => ledger.allow = NoAllowance
  /\ pc = "swap" =>
       ledger.allow = [NoAllowance EXCEPT ![CurrentLeg.adapter][CurrentLeg.tokenIn] = call.amountIn]

\* An event is emitted for a commitment of the state in which it happened.
EventsCommitted ==
  \A i \in DOMAIN events : events[i].hash \in Outermost.store.commitmentUsed

\* The selection recorded in the store is the candidate that returned.
Selection ==
  /\ InOperation /\ call.order.kind = "packed" =>
       \A i \in DOMAIN call.order.menu : call.order.menu[i].id # 0
  /\ pc = "selected" => store.activeSelectedCandidateId = CurrentCandidate.id
  /\ pc \in {"selected", "settle"} /\ call.order.kind = "packed" =>
       store.activeSelectedMinProfit = CurrentCandidate.minProfit

Inv ==
  /\ TypeOK
  /\ Control
  /\ Locks
  /\ Commitment
  /\ Boundaries
  /\ OneAllowance
  /\ EventsCommitted
  /\ Selection
  /\ NothingLeftOver
  /\ ExecutedOnce
  /\ AttemptsStartAlike
  /\ SelectionIsFinal
  /\ RepaymentCovered

(* The part of the argument that only the refinement of AtomicArbitrage    *)
(* and the balances of other tokens need (BaseArbExecutorProofs).          *)

\* The order passed its validation in the state "before".
ValidatedIn(o, before) ==
  /\ ~before.store.paused
  /\ \A i \in DOMAIN o.menu :
       LET legs == o.menu[i].legs
       IN /\ Len(legs) >= 2
          /\ Chained(o.asset, legs)
          /\ \A k \in DOMAIN legs :
               /\ legs[k].adapter \in before.store.adapterAllowed
               /\ {legs[k].tokenIn, legs[k].tokenOut} \subseteq before.store.tokenAllowed
          /\ \A k \in 1 .. Len(legs) - 1 :
               legs[k].tokenOut = o.asset \/ before.ledger.bal[legs[k].tokenOut] = 0

\* The running order was validated against the state before it, and no block
\* has passed since.
Submitted ==
  InOperation => ValidatedIn(call.order, frames[1]) /\ Fresh(call.order)

\* No other token than the asset goes below what was held before.
OthersKept ==
  InOperation =>
    \A t \in Tokens : t # call.order.asset => ledger.bal[t] >= frames[1].ledger.bal[t]

\* What an adapter was given of a token is still there when it is called.
InputHeld ==
  pc = "swap" =>
    /\ call.leg > 1 => call.amountIn <= ledger.bal[CurrentLeg.tokenIn]
    /\ call.leg = 1 => CurrentLeg.tokenIn = call.order.asset

\* The event will name the candidate that was executed.
EventNamesCandidate ==
  pc \in {"selected", "settle"} /\ call.order.kind = "packed" =>
    store.activeSelectedCandidateIndex + 1 = call.cand

Promise == Submitted /\ OthersKept /\ InputHeld /\ EventNamesCandidate

=============================================================================
