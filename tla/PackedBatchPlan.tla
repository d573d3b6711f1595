-------------------------- MODULE PackedBatchPlan --------------------------
(***************************************************************************)
(* How one trigger becomes at most one packed transaction.                 *)
(* RouteOptimizer.evaluate_affected sizes and finalizes every cycle in a   *)
(* task of its own; between any two of its calls to the node blocks may    *)
(* pass, so two cycles of one trigger can be planned against different     *)
(* blocks.  PackedBatchFinalizer then groups the eligible results, ranks   *)
(* them, simulates and prices the packed transaction, and drops its last   *)
(* candidate until what is left pays for itself.                           *)
(*                                                                         *)
(* Units are abstract: a gas unit, a fee level, a unit of the asset.  What *)
(* the node measures is external: gas grows with the candidates that fail  *)
(* before one succeeds, the L1 fee with the size of the menu.              *)
(***************************************************************************)
EXTENDS Integers, Sequences, FiniteSets

CONSTANTS
  Routes,      \* the cycles of a trigger, in the order of their route_id
  Assets,      \* the tokens the cycles of a trigger may start from
  Amounts,     \* flash-loan sizes the optimizer may settle on
  Profits,     \* profits after the premium and before gas
  Fees,        \* fee levels
  SuccessGas,  \* gas of a transaction whose first candidate succeeds
  FailedGas,   \* gas of a candidate that fails before another succeeds
  L1Fee,       \* L1 fee of one candidate
  MaxMenu,     \* packed_max_candidates
  Observations,  \* block numbers a triggering log may carry, or None
  MaxBlock,    \* bound on the blocks
  None         \* None

ASSUME PackedBatchPlanAssumption ==
  /\ Routes \subseteq Nat /\ IsFiniteSet(Routes)
  /\ Amounts \subseteq Nat \ {0}
  /\ Profits \subseteq Int
  /\ Fees \subseteq Nat
  /\ {SuccessGas, FailedGas, L1Fee, MaxBlock} \subseteq Nat
  /\ MaxMenu \in 1 .. 8
  /\ Observations \subseteq Nat \cup {None}
  /\ None \notin Int

VARIABLES
  latest,    \* eth_blockNumber
  observed,  \* block number of the log that triggered the evaluation
  asset,     \* the token each of its cycles starts from
  task,      \* one task per cycle: where it is, and its locals
  plan       \* PackedBatchFinalizer.finalize: where it is, and its locals

vars == <<latest, observed, asset, task, plan>>

Fresh == [at |-> "size"]
Ineligible == [at |-> "done", eligible |-> FALSE]
Gathering == [at |-> "gather", menu |-> <<>>]

Init ==
  /\ latest = 0
  /\ observed \in Observations
  /\ asset \in Assets
  /\ task = [r \in Routes |-> Fresh]
  /\ plan = Gathering

Eligible == {r \in Routes : task[r].at = "done" /\ task[r].eligible}

\* Gas of a transaction whose i-th candidate is the first to succeed.
GasOf(i) == SuccessGas + (i - 1) * FailedGas

\* Execution cost in the asset, of gas at a fee level and of n candidates.
Cost(gas, fee, n) == gas * fee + L1Fee * n

-----------------------------------------------------------------------------
(* Seeded faults, as in BaseArbExecutor.                                   *)

\* Groups that do not look at the target block.
AnyTarget(r, s) ==
  /\ asset[r] = asset[s]
  /\ task[r].amount = task[s].amount

\* Ranked by route_id alone.
Earlier(r, s) == r < s

\* The profit of the first candidate taken for the least.
FirstCovers(menu, cost) == task[menu[1]].profit - cost > 0

\* The loop tries the same menu again.
Untrimmed(menu) == menu

-----------------------------------------------------------------------------
(* ExecutionFinalizer.finalize, one task per cycle.                        *)

\* A task ends without an eligible result: quotes that fail, a gate that is
\* closed, a simulation that reverts, a call that fails or times out, or the
\* time limit of the cycle.
Blocked(r) ==
  /\ task[r].at # "done"
  /\ task' = [task EXCEPT ![r] = Ineligible]
  /\ UNCHANGED <<latest, observed, asset, plan>>

\* _optimize_size has settled on an amount and quoted it again; what is left
\* after the premium of the flash loan must be positive.
Size(r) ==
  /\ task[r].at = "size"
  /\ \E amount \in Amounts, profit \in Profits :
       task' = [task EXCEPT ![r] =
         IF profit > 0 THEN [at |-> "target", amount |-> amount, profit |-> profit]
         ELSE Ineligible]
  /\ UNCHANGED <<latest, observed, asset, plan>>

\* The block after the latest one, or the block of the log if that is ahead.
target_block(seen) ==
  IF observed = None \/ observed = 0 \/ observed <= seen THEN seen + 1
  ELSE observed

ReadTarget(r) ==
  /\ task[r].at = "target"
  /\ task' = [task EXCEPT ![r] =
       [at |-> "simulate", amount |-> @.amount, profit |-> @.profit,
        seen |-> latest, target |-> target_block(latest)]]
  /\ UNCHANGED <<latest, observed, asset, plan>>

\* Simulated on top of the latest block, the contract refuses a target that
\* has passed.
NotStale(target) == latest + 1 <= target

Simulate(r) ==
  /\ task[r].at = "simulate"
  /\ NotStale(task[r].target)
  /\ task' = [task EXCEPT ![r].at = "price"]
  /\ UNCHANGED <<latest, observed, asset, plan>>

\* Gas price, L1 fee and conversion; the result is eligible if it pays.
Price(r) ==
  /\ task[r].at = "price"
  /\ \E fee \in Fees :
       LET net == task[r].profit - Cost(SuccessGas, fee, 1)
       IN task' = [task EXCEPT ![r] =
            IF net > 0
            THEN [at |-> "done", eligible |-> TRUE, amount |-> @.amount,
                  profit |-> @.profit, seen |-> @.seen, target |-> @.target,
                  net |-> net]
            ELSE Ineligible]
  /\ UNCHANGED <<latest, observed, asset, plan>>

-----------------------------------------------------------------------------
(* PackedBatchFinalizer.finalize, once every task has ended.               *)

\* Asset, amount and target block agree; the deadline always does.
Compatible(r, s) ==
  /\ asset[r] = asset[s]
  /\ task[r].amount = task[s].amount
  /\ task[r].target = task[s].target

\* Higher net profit first, route_id between equals.
Better(r, s) ==
  \/ task[r].net > task[s].net
  \/ task[r].net = task[s].net /\ r < s

\* The first of the groups: what is compatible with the best result, in order.
IsFirstGroup(m) ==
  \E best \in Eligible :
    LET group == {r \in Eligible : Compatible(r, best)}
    IN /\ \A r \in Eligible \ {best} : Better(best, r)
       /\ {m[i] : i \in 1 .. Len(m)} = group
       /\ \A i, j \in 1 .. Len(m) : i < j => Better(m[i], m[j])

Orders(set) == UNION {[1 .. n -> set] : n \in 1 .. Cardinality(set)}

Capped(menu) == IF Len(menu) > MaxMenu THEN SubSeq(menu, 1, MaxMenu) ELSE menu

Gather ==
  /\ plan.at = "gather"
  /\ \A r \in Routes : task[r].at = "done"
  /\ \/ /\ Eligible = {}
        /\ plan' = [at |-> "none", menu |-> <<>>]
     \/ \E m \in Orders(Eligible) :
          /\ IsFirstGroup(m)
          /\ plan' = [at |-> "simulate", menu |-> Capped(m)]
  /\ UNCHANGED <<latest, observed, asset, task>>

\* The packed transaction is simulated: the first candidate that still works
\* is the one it executes.
SimulatePacked ==
  /\ plan.at = "simulate"
  /\ NotStale(task[plan.menu[1]].target)
  /\ \E i \in 1 .. Len(plan.menu), known \in BOOLEAN :
       plan' = [at |-> "measure", menu |-> plan.menu,
                simulated |-> IF known THEN GasOf(i) ELSE None]
  /\ UNCHANGED <<latest, observed, asset, task>>

\* No candidate works, the target has passed, or the call fails.
RefusePacked ==
  /\ plan.at = "simulate"
  /\ plan' = [at |-> "refused", menu |-> plan.menu]
  /\ UNCHANGED <<latest, observed, asset, task>>

\* The least profit of the menu less the cost is positive.
Covers(menu, cost) ==
  \A i \in 1 .. Len(menu) : task[menu[i]].profit - cost > 0

Trimmed(menu) == SubSeq(menu, 1, Len(menu) - 1)

Retried(menu) ==
  [at |-> IF menu = <<>> THEN "none" ELSE "simulate", menu |-> menu]

\* eth_estimateGas, when it answers, and the gas the simulation reported.
GasValues(estimate) == {plan.simulated, estimate} \ {None}

\* What is kept must pay for the packed transaction with its least profit;
\* otherwise its last candidate goes and the rest is simulated again.
Measure ==
  /\ plan.at = "measure"
  /\ \E fee \in Fees,
        estimate \in {None} \cup {GasOf(i) : i \in 1 .. Len(plan.menu)} :
       \/ /\ GasValues(estimate) = {}
          /\ plan' = [at |-> "refused", menu |-> plan.menu]
       \/ \E gas \in GasValues(estimate) :
            LET cost == Cost(gas, fee, Len(plan.menu))
            IN /\ \A other \in GasValues(estimate) : gas >= other
               /\ \/ /\ Covers(plan.menu, cost)
                     /\ plan' = [at |-> "ready", menu |-> plan.menu,
                                 fee |-> fee, cost |-> cost]
                  \/ /\ ~Covers(plan.menu, cost)
                     /\ plan' = Retried(Trimmed(plan.menu))
  /\ UNCHANGED <<latest, observed, asset, task>>

\* A fee, nonce or conversion query fails: the request ends with an error.
MeasureFails ==
  /\ plan.at = "measure"
  /\ plan' = [at |-> "error", menu |-> <<>>]
  /\ UNCHANGED <<latest, observed, asset, task>>

Ended == plan.at \in {"none", "refused", "ready", "error"}

\* The trigger is answered (a plan that is ready was posted to the executor
\* first: module Submission) and another one arrives.
Answer ==
  /\ Ended
  /\ observed' \in Observations
  /\ asset' \in Assets
  /\ task' = [r \in Routes |-> Fresh]
  /\ plan' = Gathering
  /\ UNCHANGED latest

NewBlock ==
  /\ latest < MaxBlock
  /\ latest' = latest + 1
  /\ UNCHANGED <<observed, asset, task, plan>>

Planning ==
  \/ \E r \in Routes :
       Blocked(r) \/ Size(r) \/ ReadTarget(r) \/ Simulate(r) \/ Price(r)
  \/ Gather \/ SimulatePacked \/ RefusePacked \/ Measure \/ MeasureFails

Next == Planning \/ Answer \/ NewBlock

Spec == Init /\ [][Next]_vars

\* asyncio runs every ready task, and every call to the node is answered or
\* times out.
FairSpec == Spec /\ WF_vars(Planning)

-----------------------------------------------------------------------------
(* Correctness.                                                            *)

Steps == {"size", "target", "simulate", "price", "done"}

\* A menu is never longer than what the codec and the contract accept.
TypeOK ==
  /\ latest \in 0 .. MaxBlock
  /\ observed \in Observations
  /\ asset \in Assets
  /\ \A r \in Routes : task[r].at \in Steps
  /\ plan.at \in {"gather", "simulate", "measure", "none", "refused", "ready", "error"}
  /\ Len(plan.menu) <= MaxMenu
  /\ \A i \in 1 .. Len(plan.menu) : plan.menu[i] \in Eligible

InMenu == {plan.menu[i] : i \in 1 .. Len(plan.menu)}

\* The candidates of one menu share one flash loan: asset, amount and target
\* block (compatible_groups; the contract borrows once for all of them).
OneLoan ==
  \A r, s \in InMenu :
    /\ asset[r] = asset[s]
    /\ task[r].amount = task[s].amount
    /\ task[r].target = task[s].target

\* Though blocks pass between the tasks, the candidates of a menu were planned
\* on one latest block, unless the triggering log itself came from a block
\* ahead of what the node said (target_block, compatible_groups).
MenuSharesBlock ==
  \A r, s \in InMenu :
    \/ task[r].seen = task[s].seen
    \/ /\ observed # None
       /\ observed > task[r].seen
       /\ observed > task[s].seen

\* A plan that is submitted begins with the most profitable result of the
\* whole trigger and goes on in order, whatever was trimmed (compatible_groups,
\* PackedBatchFinalizer.finalize).
BestFirst ==
  plan.at = "ready" =>
    /\ \A r \in Eligible : task[r].net <= task[plan.menu[1]].net
    /\ \A i, j \in 1 .. Len(plan.menu) :
         i < j => task[plan.menu[i]].net >= task[plan.menu[j]].net

\* Every candidate that is kept covers the cost measured for exactly this
\* menu, not for the longer ones tried before (PackedBatchFinalizer.finalize).
EveryCandidatePays ==
  plan.at = "ready" =>
    /\ \E i \in 1 .. Len(plan.menu) :
         plan.cost = Cost(GasOf(i), plan.fee, Len(plan.menu))
    /\ \A r \in InMenu : task[r].profit > plan.cost

\* Every trigger is answered: trimming ends (PackedBatchFinalizer.finalize).
TriggersEnd == (plan.at = "gather") ~> Ended

\* What the comment above the loop says of every candidate of the menu: at
\* the fees that were read it pays for the transaction that executes it, the
\* attempts before it included (batch_execution.py:85).  The measured gas is
\* that of the candidate that succeeded in the simulation.
EveryFallbackPays ==
  plan.at = "ready" =>
    \A i \in 1 .. Len(plan.menu) :
      task[plan.menu[i]].profit > Cost(GasOf(i), plan.fee, Len(plan.menu))

=============================================================================
