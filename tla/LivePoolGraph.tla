--------------------------- MODULE LivePoolGraph ---------------------------
(***************************************************************************)
(* The pool registry of the Python planner (event_graph.LivePoolGraph) and *)
(* the two places where a trigger reads it.  route_trigger asks at once    *)
(* for the pools a changed pool affects; after its database write it       *)
(* enumerates the rings through those pools, from the registry as it is    *)
(* then.  /pools/register runs in a thread of its own and /pools/discover  *)
(* between the awaits of others, so a pool may be registered, or           *)
(* registered again with other tokens, at any moment between the two.      *)
(* Every method holds the registry's lock for as long as it reads or       *)
(* writes it and is one action here.                                       *)
(***************************************************************************)
EXTENDS Naturals, Sequences, FiniteSets

CONSTANTS
  Pools,      \* pool addresses, in their order
  Tokens,     \* token addresses
  Triggers,   \* requests of /route-trigger in flight
  NoToken,    \* None
  MaxHops     \* MAX_ROUTE_HOPS

ASSUME PoolsAssumption == Pools \subseteq Nat
ASSUME TokensAssumption == NoToken \notin Tokens /\ IsFiniteSet(Tokens)
ASSUME MaxHopsAssumption == MaxHops \in 2 .. 3

VARIABLES
  pools,           \* _pools: the tokens of a registered pool, {} for another
  token_to_pools,  \* _token_to_pools
  configured,      \* ExecutionFinalizer.configured, fixed by the settings
  trigger          \* local variables of route_trigger

vars == <<pools, token_to_pools, configured, trigger>>

\* What pools trade: two different tokens, as the factories see to.
Pairs == {pair \in SUBSET Tokens : Cardinality(pair) = 2}
Known == {p \in Pools : pools[p] # {}}

Waiting == [stage |-> "idle", changed |-> {}, affected |-> {}, cycles |-> {}]

Init ==
  /\ pools = [p \in Pools |-> {}]
  /\ token_to_pools = [t \in Tokens |-> {}]
  /\ configured \in BOOLEAN
  /\ trigger = [r \in Triggers |-> Waiting]

-----------------------------------------------------------------------------
(* Seeded faults, as in BaseArbExecutor.                                   *)

\* register without the discard: old tokens keep the pool.
NothingDiscarded(p, t) == {}

\* Cycles are compared as they are listed: rotations stay apart.
SameList(c, d) == c = d

-----------------------------------------------------------------------------

\* A pool that is registered again first leaves the tokens it had.
Discarded(p, t) == IF t \in pools[p] THEN {p} ELSE {}

Register(p, pair) ==
  /\ pools' = [pools EXCEPT ![p] = pair]
  /\ token_to_pools' =
       [t \in Tokens |-> (token_to_pools[t] \ Discarded(p, t))
                           \cup (IF t \in pair THEN {p} ELSE {})]
  /\ UNCHANGED <<configured, trigger>>

\* The changed pool and every pool that shares a token with it.
affected_subgraph(p) == {p} \cup UNION {token_to_pools[t] : t \in pools[p]}

\* route_trigger up to its database write.  A pool that is not registered is
\* answered with no evaluation.
Arrive(r, p) ==
  /\ trigger[r].stage = "idle"
  /\ p \in Known
  /\ trigger' = [trigger EXCEPT ![r] =
       [stage |-> "affected", changed |-> {p},
        affected |-> affected_subgraph(p), cycles |-> {}]]
  /\ UNCHANGED <<pools, token_to_pools, configured>>

_other_token(p, t) ==
  IF t \in pools[p] THEN CHOOSE other \in pools[p] : other # t ELSE NoToken

Hop(p, t) == [pool |-> p, tokenIn |-> t, tokenOut |-> _other_token(p, t)]

\* The swaps the index offers from a token.
HopsFrom(t) ==
  IF t = NoToken THEN {} ELSE {Hop(p, t) : p \in token_to_pools[t]}

\* Two pools on one pair of tokens, the first of them affected.
TwoHops(affected) ==
  UNION {UNION {{<<first, second>> :
           second \in {h \in HopsFrom(first.tokenOut) :
                         h.pool # first.pool /\ h.tokenOut = first.tokenIn}} :
           first \in {Hop(p, t) : t \in pools[p]}} : p \in affected \cap Known}

\* Three pools in a triangle, the first of them affected.
ThreeHops(affected) ==
  {s \in UNION {UNION {UNION {{<<first, second, third>> :
           third \in HopsFrom(second.tokenOut)} :
           second \in HopsFrom(first.tokenOut)} :
           first \in {Hop(p, t) : t \in pools[p]}} : p \in affected \cap Known} :
     /\ s[2].pool # s[1].pool
     /\ s[2].tokenOut # s[1].tokenIn
     /\ s[3].pool \notin {s[1].pool, s[2].pool}
     /\ s[3].tokenOut = s[1].tokenIn}

cycles_for_affected(affected) ==
  TwoHops(affected) \cup (IF MaxHops < 3 THEN {} ELSE ThreeHops(affected))

\* Two cycles with one canonical form: the same swaps, entered elsewhere.
SameRing(c, d) ==
  /\ Len(c) = Len(d)
  /\ \E k \in 0 .. Len(c) - 1 :
       \A i \in 1 .. Len(c) : d[i] = c[((i - 1 + k) % Len(c)) + 1]

\* The first of the rotations listed stays; the list goes by first pool.
_dedup_cycles(cycles) ==
  {c \in cycles : \A d \in cycles : SameRing(c, d) => c[1].pool <= d[1].pool}

\* The request goes on with these cycles.
WithCycles(r, cycles) ==
  [stage |-> "evaluated", changed |-> trigger[r].changed,
   affected |-> trigger[r].affected, cycles |-> cycles]

\* evaluate_affected, as far as it reads the registry.
EvaluateAffected(r) ==
  /\ trigger[r].stage = "affected"
  /\ configured
  /\ trigger' = [trigger EXCEPT ![r] =
       WithCycles(r, _dedup_cycles(cycles_for_affected(trigger[r].affected)))]
  /\ UNCHANGED <<pools, token_to_pools, configured>>

\* Without an executor configured the cycles are only listed, as they come.
RejectAffected(r) ==
  /\ trigger[r].stage = "affected"
  /\ ~configured
  /\ trigger' = [trigger EXCEPT ![r] =
       WithCycles(r, cycles_for_affected(trigger[r].affected))]
  /\ UNCHANGED <<pools, token_to_pools, configured>>

Answer(r) ==
  /\ trigger[r].stage = "evaluated"
  /\ trigger' = [trigger EXCEPT ![r] = Waiting]
  /\ UNCHANGED <<pools, token_to_pools, configured>>

Next ==
  \/ \E p \in Pools, pair \in Pairs : Register(p, pair)
  \/ \E r \in Triggers :
       \/ \E p \in Pools : Arrive(r, p)
       \/ EvaluateAffected(r)
       \/ RejectAffected(r)
       \/ Answer(r)

Spec == Init /\ [][Next]_vars

-----------------------------------------------------------------------------
(* Correctness.                                                            *)

\* The index and the registry say the same: a pool is listed under a token
\* exactly when it trades it now, however often it was registered again
\* (register; pools[...] in cycles_for_affected fails on a stale entry).
IndexExact ==
  \A t \in Tokens : token_to_pools[t] = {p \in Pools : t \in pools[p]}

\* What a ring is, without the index: up to MaxHops swaps through different
\* pools that hand on one token to the next and return to the first.
Swaps ==
  {s \in [pool : Known, tokenIn : Tokens, tokenOut : Tokens] :
     pools[s.pool] = {s.tokenIn, s.tokenOut}}
Rings ==
  {s \in UNION {[1 .. n -> Swaps] : n \in 2 .. MaxHops} :
     /\ \A i \in 1 .. Len(s) : s[i].tokenOut = s[(i % Len(s)) + 1].tokenIn
     /\ \A i, j \in 1 .. Len(s) :
          i # j => s[i].pool # s[j].pool /\ s[i].tokenIn # s[j].tokenIn}
Touching(affected) ==
  {s \in Rings : \E i \in 1 .. Len(s) : s[i].pool \in affected}

\* A directed ring is known by its swaps, wherever one enters it.
SwapsOf(c) == {c[i] : i \in 1 .. Len(c)}

\* A trigger evaluates every ring through an affected pool that exists at
\* that moment, in both directions, each from one entry point only; nothing
\* else is evaluated.  The list made without an executor may name a ring once
\* per entry point (evaluate_affected, reject_affected).
EachRingOnce ==
  [][\A r \in Triggers :
       trigger[r].stage = "affected" /\ trigger'[r].stage = "evaluated" =>
         LET cycles == trigger'[r].cycles
             rings == Touching(trigger[r].affected)
         IN /\ cycles \subseteq rings
            /\ \A s \in rings : \E c \in cycles : SwapsOf(c) = SwapsOf(s)
            /\ configured =>
                 \A c, d \in cycles : SwapsOf(c) = SwapsOf(d) => c = d]_vars

\* The affected pools are those that trade a token of the changed pool, the
\* changed pool among them (affected_subgraph).
AffectedIsNeighbourhood ==
  [][\A r \in Triggers :
       trigger[r].stage = "idle" /\ trigger'[r].stage = "affected" =>
         \A changed \in trigger'[r].changed :
           trigger'[r].affected = {p \in Pools : pools[p] \cap pools[changed] # {}}]_vars

=============================================================================
