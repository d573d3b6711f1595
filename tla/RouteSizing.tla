---------------------------- MODULE RouteSizing ----------------------------
(***************************************************************************)
(* How large a loan a cycle asks for (RouteOptimizer.evaluate_affected and *)
(* _optimize_size).  The cycles of a trigger are evaluated concurrently.   *)
(* Each takes a grid of sizes up to the balance of its first pool, quotes  *)
(* them hop by hop, quotes a second, finer grid around the best, and       *)
(* quotes the best once more.  Every answer comes from the pending state   *)
(* of its moment, and that state moves between any two of them.            *)
(*                                                                         *)
(* Pools whose adapters can encode calls are quoted with one Multicall3    *)
(* request per hop for all sizes; the others with a coroutine per size     *)
(* that holds a permit of the shared semaphore.  The result of a size is   *)
(* its path: the size, then what each hop returns for what came before.    *)
(*                                                                         *)
(* The cycles here have an adapter, and the fee or flag it needs, for each *)
(* pool; evaluate_cycle refuses others before it asks anything.            *)
(***************************************************************************)
EXTENDS Integers, Sequences, FiniteSetsExt

CONSTANTS
  Triggers,                \* requests of /route-trigger in flight
  Cycles,                  \* the cycles of a trigger, in their order
  Markets,                 \* pending states: balances and what hops return
  Reverts,                 \* the answer of a hop that fails
  Unknown,                 \* None
  max_quote_evaluations,   \* MAX_QUOTE_EVALUATIONS
  size_refinement_points,  \* SIZE_REFINEMENT_POINTS
  quote_concurrency,       \* QUOTE_CONCURRENCY
  MaxStates                \* bound on the pending states

ASSUME RouteSizingAssumption ==
  /\ IsFiniteSet(Cycles) /\ Cycles \subseteq Nat /\ Cycles # {}
  /\ {max_quote_evaluations, size_refinement_points} \subseteq Nat
  /\ quote_concurrency \in Nat \ {0}
  /\ Unknown \notin Nat /\ Reverts \notin Nat

\* A market knows the balance of each cycle's first pool, and for each of its
\* hops what the amounts that do not fail return.
ASSUME MarketsAssumption ==
  \A market \in Markets, c \in Cycles :
    LET hops == market.curve[c]
    IN /\ market.balance[c] \in Nat
       /\ Len(hops) \in Nat \ {0} /\ DOMAIN hops = 1 .. Len(hops)
       /\ \A i \in DOMAIN hops : \A a \in DOMAIN hops[i] : hops[i][a] \in Nat
       /\ \A other \in Markets : Len(other.curve[c]) = Len(hops)

VARIABLES
  chain,    \* the pending states so far, the present one last
  batched,  \* _cycle_supports_batching, of every cycle
  trigger,  \* evaluate_affected: where it is, and the state it began in
  task,     \* evaluate_cycle, one task per trigger and cycle
  free      \* permits of _quote_semaphore

vars == <<chain, batched, trigger, task, free>>

Evaluations == Triggers \X Cycles
Now == chain[Len(chain)]

\* One quote per size, none answered yet.
Asked(sizes) == [a \in sizes |-> <<a>>]

\* The fields are locals of _optimize_size; lost: a call failed on the way.
Ended(path, lost) ==
  [at |-> "done", upper |-> Unknown, quoted |-> Asked({}), flight |-> Asked({}),
   waiting |-> {}, lost |-> lost, sized |-> path]
Refused(lost) == Ended(<<>>, lost)

Init ==
  /\ chain \in {<<market>> : market \in Markets}
  /\ batched \in [Cycles -> BOOLEAN]
  /\ trigger = [t \in Triggers |-> [at |-> "idle", since |-> 1]]
  /\ task = [e \in Evaluations |-> Refused(FALSE)]
  /\ free = quote_concurrency

\* dict.update
Updated(quoted, extra) ==
  [a \in DOMAIN quoted \cup DOMAIN extra |->
     IF a \in DOMAIN extra THEN extra[a] ELSE quoted[a]]

Gain(path) == path[Len(path)] - path[1]

\* The permits a task holds.
Held(e) ==
  IF task[e].at = "grid" /\ ~batched[e[2]] THEN DOMAIN task[e].flight ELSE {}

-----------------------------------------------------------------------------
(* Seeded faults, as in BaseArbExecutor.                                   *)

\* Sizes above the best one, beyond the limit if it is the limit.
RefinedBeyond(grid, best) ==
  {best + (best * k) \div (size_refinement_points + 1) :
     k \in 1 .. size_refinement_points}

\* The largest size wins a tie.
LastBest(quoted) ==
  CHOOSE a \in DOMAIN quoted :
    \A b \in DOMAIN quoted :
      \/ Gain(quoted[a]) > Gain(quoted[b])
      \/ Gain(quoted[a]) = Gain(quoted[b]) /\ a >= b

\* Every hop is asked about the size.
HopOfSize(c, path) ==
  LET hop == Now.curve[c][Len(path)]
  IN IF path[1] \in DOMAIN hop THEN hop[path[1]] ELSE Reverts

\* The quote that made the size the best is the result.
ChosenAsQuoted(t, best) ==
  [Ended(t.quoted[best], t.lost) EXCEPT !.at = "finalize"]

\* A permit is returned only when its coroutine runs to its end.
ReturnedAtEnd(e) == 0

\* Only quotes have a deadline.
TimedQuotes(e) == task[e].at \in {"grid", "refine", "final"}

-----------------------------------------------------------------------------
(* Sizes.                                                                  *)

\* The upper limit, one unit, and halves of the limit until there are enough.
_candidate_amounts(upper) ==
  {a \in 1 .. upper : \/ a \in {1, upper}
                      \/ \E k \in 1 .. max_quote_evaluations - 2 : a = upper \div 2^k}

\* Sizes spread evenly between the neighbours of the best one.
_refine_amounts(grid, best) ==
  LET below == {a \in grid : a < best}
      above == {a \in grid : a > best}
      lo == IF below # {} THEN Max(below) ELSE IF best = 1 THEN 1 ELSE best \div 2
      hi == IF above # {} THEN Min(above) ELSE best
  IN {a \in lo .. hi :
        /\ lo < hi /\ a # best
        /\ \E k \in 1 .. size_refinement_points :
             a = lo + ((hi - lo) * k) \div (size_refinement_points + 1)}

\* The largest gain; of equal ones the smallest size.
_pick_best(quoted) ==
  CHOOSE a \in DOMAIN quoted :
    \A b \in DOMAIN quoted :
      \/ Gain(quoted[a]) > Gain(quoted[b])
      \/ Gain(quoted[a]) = Gain(quoted[b]) /\ a <= b

-----------------------------------------------------------------------------
(* Asking the chain.                                                       *)

\* What the next hop of cycle c returns, in the present pending state.
HopOutput(c, path) ==
  LET hop == Now.curve[c][Len(path)]
      amount == path[Len(path)]
  IN IF amount \in DOMAIN hop THEN hop[amount] ELSE Reverts

Complete(c, path) == Len(path) = Len(Now.curve[c]) + 1

\* The best size is to be quoted once more.
Chosen(t, best) == [t EXCEPT !.at = "final", !.flight = Asked({best})]

\* What follows when a round of quotes has ended: a refinement, the last quote
\* of the best size, or no result.
Settled(c, t) ==
  LET grid == _candidate_amounts(t.upper)
      best == _pick_best(t.quoted)
      refined == IF t.at = "grid" /\ batched[c]
                 THEN _refine_amounts(grid, best) ELSE {}
  IN IF DOMAIN t.quoted = {} THEN Refused(t.lost)
     ELSE IF refined # {}
          THEN [t EXCEPT !.at = "refine", !.flight = Asked(refined)]
          ELSE Chosen(t, best)

\* The balance of the first pool is known: the grid is asked for.
Opened(c, upper) ==
  LET t == [Refused(FALSE) EXCEPT !.at = "grid", !.upper = upper]
  IN IF upper = 0 THEN Refused(FALSE)
     ELSE IF batched[c] THEN [t EXCEPT !.flight = Asked(_candidate_amounts(upper))]
          ELSE [t EXCEPT !.waiting = _candidate_amounts(upper)]

-----------------------------------------------------------------------------
(* A trigger.                                                              *)

NewState(market) ==
  /\ Len(chain) < MaxStates
  /\ chain' = Append(chain, market)
  /\ UNCHANGED <<batched, trigger, task, free>>

Arrive(r) ==
  /\ trigger[r].at = "idle"
  /\ trigger' = [trigger EXCEPT ![r] = [at |-> "prefetch", since |-> Len(chain)]]
  /\ UNCHANGED <<chain, batched, task, free>>

\* One request reads the balances, if the first cycle can be batched; any of
\* its calls may fail, and the whole may.  Then all cycles begin.
Prefetch(r, known) ==
  /\ trigger[r].at = "prefetch"
  /\ ~batched[Min(Cycles)] => known = {}
  /\ trigger' = [trigger EXCEPT ![r].at = "evaluate"]
  /\ task' = [e \in Evaluations |->
                IF e[1] # r THEN task[e]
                ELSE IF e[2] \in known THEN Opened(e[2], Now.balance[e[2]])
                     ELSE [Refused(FALSE) EXCEPT !.at = "balance"]]
  /\ UNCHANGED <<chain, batched, free>>

\* The balance was not prefetched: the task asks for it.
ReadBalance(e) ==
  /\ task[e].at = "balance"
  /\ \/ task' = [task EXCEPT ![e] = Opened(e[2], Now.balance[e[2]])]
     \/ task' = [task EXCEPT ![e] = Refused(TRUE)]
  /\ UNCHANGED <<chain, batched, trigger, free>>

\* One Multicall3 request: the next hop of every size that is left.
HopAnswers(e) ==
  LET t == task[e]
      c == e[2]
      left == {a \in DOMAIN t.flight : HopOutput(c, t.flight[a]) # Reverts}
      flight == [a \in left |-> Append(t.flight[a], HopOutput(c, t.flight[a]))]
  IN /\ t.at \in {"grid", "refine"} /\ batched[c]
     /\ task' = [task EXCEPT ![e] =
          IF \A a \in left : Complete(c, flight[a])
          THEN Settled(c, [t EXCEPT !.quoted = Updated(@, flight),
                                    !.flight = Asked({})])
          ELSE [t EXCEPT !.flight = flight]]
     /\ UNCHANGED <<chain, batched, trigger, free>>

\* The request fails: the round returns nothing.
MulticallFails(e) ==
  /\ task[e].at \in {"grid", "refine"} /\ batched[e[2]]
  /\ task' = [task EXCEPT ![e] =
       Settled(e[2], [@ EXCEPT !.flight = Asked({}), !.lost = TRUE])]
  /\ UNCHANGED <<chain, batched, trigger, free>>

-----------------------------------------------------------------------------
(* Sizes quoted by coroutines of their own.                                *)

Started(t, a) ==
  [t EXCEPT !.waiting = @ \ {a}, !.flight = Updated(@, Asked({a}))]

Acquire(e, a) ==
  /\ a \in task[e].waiting /\ free > 0
  /\ free' = free - 1
  /\ task' = [task EXCEPT ![e] = Started(@, a)]
  /\ UNCHANGED <<chain, batched, trigger>>

\* Coroutine a is over: its permit is free, and gather ends with the last one.
Over(e, a, quoted, lost) ==
  LET t == [task[e] EXCEPT
              !.quoted = Updated(@, quoted), !.lost = @ \/ lost,
              !.flight = [b \in DOMAIN @ \ {a} |-> @[b]]]
  IN /\ free' = free + 1
     /\ task' = [task EXCEPT ![e] =
                   IF t.waiting = {} /\ DOMAIN t.flight = {}
                   THEN Settled(e[2], t) ELSE t]
     /\ UNCHANGED <<chain, batched, trigger>>

SizeAnswers(e, a) ==
  LET path == task[e].flight[a]
      next == Append(path, HopOutput(e[2], path))
  IN /\ task[e].at = "grid" /\ ~batched[e[2]]
     /\ a \in DOMAIN task[e].flight
     /\ IF HopOutput(e[2], path) = Reverts THEN Over(e, a, Asked({}), FALSE)
        ELSE IF Complete(e[2], next) THEN Over(e, a, [b \in {a} |-> next], FALSE)
             ELSE /\ task' = [task EXCEPT ![e].flight[a] = next]
                  /\ UNCHANGED <<chain, batched, trigger, free>>

SizeFails(e, a) ==
  /\ task[e].at = "grid" /\ ~batched[e[2]]
  /\ a \in DOMAIN task[e].flight
  /\ Over(e, a, Asked({}), TRUE)

-----------------------------------------------------------------------------
(* The result.                                                             *)

\* The best size is quoted once more, hop by hop; a gain goes to the finalizer.
FinalAnswers(e) ==
  LET t == task[e]
      best == CHOOSE a \in DOMAIN t.flight : TRUE
      path == t.flight[best]
      next == Append(path, HopOutput(e[2], path))
  IN /\ t.at = "final"
     /\ task' = [task EXCEPT ![e] =
          IF HopOutput(e[2], path) = Reverts THEN Refused(t.lost)
          ELSE IF ~Complete(e[2], next) THEN [t EXCEPT !.flight[best] = next]
          ELSE [Ended(next, t.lost) EXCEPT
                  !.at = IF Gain(next) > 0 THEN "finalize" ELSE "done"]]
     /\ UNCHANGED <<chain, batched, trigger, free>>

FinalFails(e) ==
  /\ task[e].at = "final"
  /\ task' = [task EXCEPT ![e] = Refused(TRUE)]
  /\ UNCHANGED <<chain, batched, trigger, free>>

Finalized(e) ==
  /\ task[e].at = "finalize"
  /\ task' = [task EXCEPT ![e].at = "done"]
  /\ UNCHANGED <<chain, batched, trigger, free>>

Timed(e) == task[e].at # "done"

\* Cancelled coroutines leave their "async with".
Returned(e) == Cardinality(Held(e))

\* wait_for cancels the task, and with it the coroutines it waits for.
TimesOut(e) ==
  /\ Timed(e)
  /\ task' = [task EXCEPT ![e] = Refused(TRUE)]
  /\ free' = free + Returned(e)
  /\ UNCHANGED <<chain, batched, trigger>>

Answer(r) ==
  /\ trigger[r].at = "evaluate"
  /\ \A c \in Cycles : task[<<r, c>>].at = "done"
  /\ trigger' = [trigger EXCEPT ![r].at = "idle"]
  /\ task' = [e \in Evaluations |-> IF e[1] = r THEN Refused(FALSE) ELSE task[e]]
  /\ UNCHANGED <<chain, batched, free>>

Evaluate(e) ==
  \/ ReadBalance(e) \/ HopAnswers(e) \/ MulticallFails(e)
  \/ \E a \in task[e].waiting : Acquire(e, a)
  \/ \E a \in DOMAIN task[e].flight : SizeAnswers(e, a) \/ SizeFails(e, a)
  \/ FinalAnswers(e) \/ FinalFails(e) \/ Finalized(e) \/ TimesOut(e)

Next ==
  \/ \E market \in Markets : NewState(market)
  \/ \E r \in Triggers :
       Arrive(r) \/ (\E known \in SUBSET Cycles : Prefetch(r, known)) \/ Answer(r)
  \/ \E e \in Evaluations : Evaluate(e)

Spec == Init /\ [][Next]_vars

\* The timer of wait_for fires, the provider limits the request that reads the
\* balances, and the event loop resumes what is ready.  No call need succeed.
Fairness ==
  /\ \A r \in Triggers :
       WF_vars(\E known \in SUBSET Cycles : Prefetch(r, known)) /\ WF_vars(Answer(r))
  /\ \A e \in Evaluations : WF_vars(TimesOut(e))

FairSpec == Spec /\ Fairness

-----------------------------------------------------------------------------
(* Correctness.                                                            *)

IsPaths(f, sizes) ==
  DOMAIN f \subseteq sizes /\ \A a \in DOMAIN f : f[a] \in Seq(Nat)

\* The state has the shape of the code's: a size is asked for once at a time,
\* and only a fallback task has coroutines that wait for a permit.
TypeOK ==
  /\ free \in 0 .. quote_concurrency
  /\ trigger \in [Triggers -> [at : {"idle", "prefetch", "evaluate"},
                               since : 1 .. Len(chain)]]
  /\ \A e \in Evaluations : LET t == task[e] IN
       /\ t.at \in {"balance", "grid", "refine", "final", "finalize", "done"}
       /\ t.waiting \subseteq Nat /\ t.sized \in Seq(Nat)
       /\ IsPaths(t.quoted, Nat \ t.waiting) /\ IsPaths(t.flight, Nat \ t.waiting)
       /\ t.waiting # {} => t.at = "grid" /\ ~batched[e[2]]

Since(e) == trigger[e[1]].since .. Len(chain)

\* One order of pending states explains every answer in these paths.
AnsweredBy(e, paths) ==
  LET curves(i) == chain[i].curve[e[2]]
  IN \E s \in [1 .. Len(Now.curve[e[2]]) -> Since(e)] :
       /\ \A i, j \in DOMAIN s : i < j => s[i] <= s[j]
       /\ \A path \in paths : \A i \in 1 .. Len(path) - 1 :
            /\ path[i] \in DOMAIN curves(s[i])[i]
            /\ path[i + 1] = curves(s[i])[i][path[i]]

\* Each amount of a quote is what its hop returned for the amount before it, in
\* a pending state reached since the trigger and not before the last hop's; the
\* sizes of one batched round saw the same states (_batched_quotes).
QuotesAreReal ==
  \A e \in Evaluations : LET t == task[e] IN
    /\ \A a \in DOMAIN t.quoted : AnsweredBy(e, {t.quoted[a]})
    /\ \A a \in DOMAIN t.flight : AnsweredBy(e, {t.flight[a]})
    /\ batched[e[2]] => AnsweredBy(e, {t.flight[a] : a \in DOMAIN t.flight})
    /\ AnsweredBy(e, {t.sized})

Sizes(t) ==
  t.waiting \cup DOMAIN t.quoted \cup DOMAIN t.flight
    \cup (IF t.sized = <<>> THEN {} ELSE {t.sized[1]})

\* No size exceeds what the first pool of the cycle held in some pending state
\* since the trigger, the refined ones between grid sizes included.
SizesAffordable ==
  \A e \in Evaluations : \A a \in Sizes(task[e]) :
    \E i \in Since(e) : a \in 1 .. chain[i].balance[e[2]]

\* The path of a size if nothing moves, shorter when a hop fails.
TruePath(c, a) ==
  LET upTo[n \in 0 .. Len(Now.curve[c])] ==
        IF n = 0 THEN <<a>>
        ELSE LET path == upTo[n - 1]
             IN IF Len(path) < n \/ HopOutput(c, path) = Reverts THEN path
                ELSE Append(path, HopOutput(c, path))
  IN upTo[Len(Now.curve[c])]

\* If the state stood still and no call was lost, the evaluation finds the size
\* of the grid with the largest gain, or a better refined one; of equal gains
\* the smaller size; and it finds none only if every size of the grid fails.
BestOfQuiet ==
  \A e \in Evaluations :
    LET c == e[2]
        t == task[e]
        works(a) == Complete(c, TruePath(c, a))
        grid == {a \in _candidate_amounts(Now.balance[c]) : works(a)}
    IN trigger[e[1]].at = "evaluate" /\ Since(e) = {Len(chain)} /\ t.at = "done" /\ ~t.lost =>
         IF grid = {} THEN t.sized = <<>>
         ELSE /\ t.sized # <<>> /\ t.sized = TruePath(c, t.sized[1])
              /\ \A a \in grid :
                   \/ Gain(TruePath(c, a)) < Gain(t.sized)
                   \/ Gain(TruePath(c, a)) = Gain(t.sized) /\ t.sized[1] <= a

\* The output an evaluation reports is one its last hop returned just now, and
\* not the quote that made its size the best (the re-quote of _optimize_size).
FreshAnswer ==
  [][\A e \in Evaluations :
       LET path == task'[e].sized
           hops == Len(path) - 1
       IN path # <<>> /\ task[e].sized = <<>> =>
            path[hops + 1] = Now.curve[e[2]][hops][path[hops]]]_vars

\* A permit is held by a running coroutine or free: no failure, timeout or end
\* of an evaluation loses one or returns one twice (async with).
Coroutines == UNION {{e} \X Held(e) : e \in Evaluations}
PermitsConserved == free + Cardinality(Coroutines) = quote_concurrency

\* Every trigger is answered, even if no call ever is (wait_for).
EvaluationsEnd ==
  \A r \in Triggers : trigger[r].at # "idle" ~> trigger[r].at = "idle"

\* The documented bound: no more quotes are in flight at once than the semaphore
\* has permits.  A batched round is one request.
InFlight ==
  {e \in Evaluations : batched[e[2]] /\ task[e].at \in {"grid", "refine"}}
InFlightBounded ==
  Cardinality(InFlight) + (quote_concurrency - free) <= quote_concurrency
=============================================================================
