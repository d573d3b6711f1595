-------------------------- MODULE AtomicArbitrage --------------------------
(***************************************************************************)
(* What BaseArbExecutor promises to whoever looks at it between two        *)
(* transactions.  An operation either happens in one step, with the whole  *)
(* of its profit, or leaves nothing behind; no step of it can be observed, *)
(* interrupted or mixed with a change of the configuration.  There is no   *)
(* loan, no leg and no lock here: the detailed module BaseArbExecutor has  *)
(* them and is shown to implement this one.                                *)
(***************************************************************************)
EXTENDS Naturals, Sequences

CONSTANTS
  Deployer,   \* the account whose transaction creates the contract
  NoAccount,  \* the zero address
  Tokens,     \* the ERC-20 tokens in play
  Orders,     \* the routes and packed batches that can be submitted
  Hash,       \* the commitment of an order
  BlockTime   \* seconds between two blocks

VARIABLES
  config,     \* owner, pendingOwner, adapterAllowed, tokenAllowed, paused
  bal,        \* the contract's balance of every token
  used,       \* the commitments already executed
  log,        \* the RouteExecuted / PackedRouteExecuted events
  block       \* block.number

vars == <<config, bal, used, log, block>>

Init ==
  /\ config = [owner |-> Deployer, pendingOwner |-> NoAccount,
               adapterAllowed |-> {}, tokenAllowed |-> {}, paused |-> TRUE]
  /\ bal = [t \in Tokens |-> 0]
  /\ used = {}
  /\ log = <<>>
  /\ block = 0

\* The allow-lists and the pause switch change without touching ownership.
Configure ==
  /\ config'.owner = config.owner
  /\ config'.pendingOwner = config.pendingOwner
  /\ UNCHANGED <<bal, used, log, block>>

\* Ownership moves in two steps: an offer, then an acceptance by its addressee.
OfferOwnership(next) ==
  /\ next # NoAccount
  /\ config' = [config EXCEPT !.pendingOwner = next]
  /\ UNCHANGED <<bal, used, log, block>>

AcceptOwnership ==
  /\ config.pendingOwner # NoAccount
  /\ config' = [config EXCEPT !.owner = config.pendingOwner,
                              !.pendingOwner = NoAccount]
  /\ UNCHANGED <<bal, used, log, block>>

\* Anybody may send tokens to the contract; only a sweep takes them out.
Receive(t, n) ==
  /\ bal' = [bal EXCEPT ![t] = @ + n]
  /\ UNCHANGED <<config, used, log, block>>

Sweep(t, n) ==
  /\ n <= bal[t]
  /\ bal' = [bal EXCEPT ![t] = @ - n]
  /\ UNCHANGED <<config, used, log, block>>

NewBlock ==
  /\ block' = block + 1
  /\ UNCHANGED <<config, bal, used, log>>

\* Candidate i of an order, executed whole: fresh, allowed, never before, and
\* leaving the contract poorer in no token and richer by the agreed profit.
Execute(order, i) ==
  LET candidate == order.menu[i]
      legs == candidate.legs
  IN
    /\ ~config.paused
    /\ Hash[order] \notin used
    /\ block <= order.targetBlock
    /\ block * BlockTime <= order.deadline
    /\ \A k \in DOMAIN legs :
         /\ legs[k].adapter \in config.adapterAllowed
         /\ {legs[k].tokenIn, legs[k].tokenOut} \subseteq config.tokenAllowed
    /\ bal' \in [Tokens -> Nat]
    /\ \A t \in Tokens : bal'[t] >= bal[t]
    /\ bal'[order.asset] >= bal[order.asset] + candidate.minProfit
    /\ used' = used \cup {Hash[order]}
    /\ LET event == log'[Len(log')]
       IN /\ log' = Append(log, event)
          /\ event.hash = Hash[order]
          /\ event.candidate = i
          /\ event.netProfit = bal'[order.asset] - bal[order.asset]
    /\ UNCHANGED <<config, block>>

Next ==
  \/ Configure
  \/ OfferOwnership(config'.pendingOwner)
  \/ AcceptOwnership
  \/ \E t \in Tokens : Receive(t, bal'[t] - bal[t])
  \/ \E t \in Tokens : Sweep(t, bal[t] - bal'[t])
  \/ NewBlock
  \/ \E order \in Orders : \E i \in DOMAIN order.menu : Execute(order, i)

Spec == Init /\ [][Next]_vars

=============================================================================
