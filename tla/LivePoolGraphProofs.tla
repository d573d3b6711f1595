------------------------ MODULE LivePoolGraphProofs ------------------------
(***************************************************************************)
(* The registry's index is exact for any set of pools and tokens, whatever *)
(* is registered, in whatever order and however often; and because it is,  *)
(* a trigger's affected pools are the neighbourhood of the changed pool.   *)
(*                                                                         *)
(* Its cycles are then exactly the rings through that pool, and what is    *)
(* left after deduplication holds each of them once.                       *)
(***************************************************************************)
EXTENDS LivePoolGraph, TLAPS, FiniteSetTheorems

\* The inductive invariant: the registry has its shape and the index says
\* what the registry says.
IInv ==
  /\ pools \in [Pools -> Pairs \cup {{}}]
  /\ token_to_pools \in [Tokens -> SUBSET Pools]
  /\ IndexExact
  /\ DOMAIN trigger = Triggers

\* A registered pool is taken out of the index under its old tokens and
\* entered under its new ones, so the index stays exact (register).
LEMMA RegisterKeepsIndex ==
  ASSUME NEW p \in Pools, NEW pair \in Pairs, IInv, Register(p, pair)
  PROVE  IInv'
<1>1. pools' = [pools EXCEPT ![p] = pair]
  BY DEF Register
<1>2. pools' \in [Pools -> Pairs \cup {{}}]
  BY <1>1 DEF IInv
<1>3. ASSUME NEW t \in Tokens
      PROVE  token_to_pools'[t] = {q \in Pools : t \in pools'[q]}
  <2>1. token_to_pools[t] = {q \in Pools : t \in pools[q]}
    BY DEF IInv, IndexExact
  <2>2. token_to_pools'[t] = (token_to_pools[t] \ Discarded(p, t))
                                \cup (IF t \in pair THEN {p} ELSE {})
    BY DEF Register
  <2>3. \A q \in Pools : pools'[q] = IF q = p THEN pair ELSE pools[q]
    BY <1>1 DEF IInv
  <2>4. ASSUME NEW q
        PROVE  q \in token_to_pools'[t] <=> q \in Pools /\ t \in pools'[q]
    <3>1. CASE q = p
      BY <2>1, <2>2, <2>3, <3>1 DEF Discarded
    <3>2. CASE q # p
      BY <2>1, <2>2, <2>3, <3>2 DEF Discarded
    <3> QED
      BY <3>1, <3>2
  <2> QED
    BY <2>4
<1>4. token_to_pools' \in [Tokens -> SUBSET Pools]
  <2>1. DOMAIN token_to_pools' = Tokens
    BY DEF Register
  <2>2. token_to_pools' = [t \in Tokens |-> token_to_pools'[t]]
    BY DEF Register
  <2> QED
    BY <1>3, <2>2
<1>5. DOMAIN trigger' = Triggers
  BY DEF IInv, Register
<1> QED
  BY <1>2, <1>3, <1>4, <1>5 DEF IInv, IndexExact

LEMMA IInvHolds == Spec => []IInv
<1>1. Init => IInv
  BY DEF Init, IInv, IndexExact
<1>2. IInv /\ [Next]_vars => IInv'
  <2> SUFFICES ASSUME IInv, [Next]_vars
               PROVE  IInv'
    OBVIOUS
  <2>1. ASSUME NEW p \in Pools, NEW pair \in Pairs, Register(p, pair)
        PROVE  IInv'
    BY <2>1, RegisterKeepsIndex
  <2>2. ASSUME UNCHANGED <<pools, token_to_pools>>, DOMAIN trigger' = Triggers
        PROVE  IInv'
    BY <2>2 DEF IInv, IndexExact
  <2>3. ASSUME NEW r \in Triggers,
               \/ \E p \in Pools : Arrive(r, p)
               \/ EvaluateAffected(r)
               \/ RejectAffected(r)
               \/ Answer(r)
        PROVE  IInv'
    BY <2>2, <2>3 DEF IInv, Arrive, EvaluateAffected, RejectAffected, Answer
  <2>4. CASE UNCHANGED vars
    BY <2>2, <2>4 DEF IInv, vars
  <2> QED
    BY <2>1, <2>3, <2>4 DEF Next
<1> QED
  BY <1>1, <1>2, PTL DEF Spec

\* A pool is listed under a token exactly when it trades it, after any number
\* of registrations (LivePoolGraph.register).
THEOREM IndexIsExact == Spec => []IndexExact
<1>1. IInv => IndexExact
  BY DEF IInv
<1> QED
  BY <1>1, IInvHolds, PTL

\* The affected pools of a trigger are the pools that share a token with the
\* changed one, itself among them (LivePoolGraph.affected_subgraph).
THEOREM AffectedArePools == Spec => AffectedIsNeighbourhood
<1> DEFINE Neighbours ==
      \A r \in Triggers :
        trigger[r].stage = "idle" /\ trigger'[r].stage = "affected" =>
          \A changed \in trigger'[r].changed :
            trigger'[r].affected = {p \in Pools : pools[p] \cap pools[changed] # {}}
<1>1. ASSUME IInv, [Next]_vars
      PROVE  Neighbours
  <2> SUFFICES ASSUME NEW r \in Triggers,
                      trigger[r].stage = "idle", trigger'[r].stage = "affected",
                      NEW changed \in trigger'[r].changed
               PROVE  trigger'[r].affected
                        = {p \in Pools : pools[p] \cap pools[changed] # {}}
    OBVIOUS
  <2>1. trigger'[r] # trigger[r]
    OBVIOUS
  <2>2. PICK s \in Triggers :
          \/ \E p \in Pools : Arrive(s, p)
          \/ EvaluateAffected(s)
          \/ RejectAffected(s)
          \/ Answer(s)
    BY <1>1, <2>1 DEF Next, vars, Register
  <2>3. PICK p \in Pools : Arrive(s, p)
    <3>1. ASSUME EvaluateAffected(s) \/ RejectAffected(s)
          PROVE  FALSE
      <4>1. PICK cycles : trigger' = [trigger EXCEPT ![s] = WithCycles(s, cycles)]
        BY <3>1 DEF EvaluateAffected, RejectAffected
      <4>2. s = r
        BY <1>1, <2>1, <4>1 DEF IInv
      <4>3. trigger'[r].stage = "evaluated"
        BY <1>1, <4>1, <4>2 DEF IInv, WithCycles
      <4> QED
        BY <4>3
    <3>2. ASSUME Answer(s)
          PROVE  FALSE
      <4>1. s = r
        BY <1>1, <2>1, <3>2 DEF IInv, Answer
      <4>2. trigger'[r] = Waiting
        BY <1>1, <3>2, <4>1 DEF IInv, Answer
      <4> QED
        BY <4>2 DEF Waiting
    <3> QED
      BY <2>2, <3>1, <3>2
  <2>4. s = r
    BY <1>1, <2>1, <2>3 DEF IInv, Arrive
  <2>5. trigger'[r].changed = {p} /\ trigger'[r].affected = affected_subgraph(p)
    BY <1>1, <2>3, <2>4 DEF IInv, Arrive
  <2>6. p \in Known /\ changed = p
    BY <2>3, <2>5 DEF Arrive
  <2>7. pools[p] \subseteq Tokens /\ pools[p] # {}
    BY <1>1, <2>6 DEF IInv, Pairs, Known
  <2>8. \A t \in pools[p] : token_to_pools[t] = {q \in Pools : t \in pools[q]}
    BY <1>1, <2>7 DEF IInv, IndexExact
  <2>9. affected_subgraph(p) = {q \in Pools : pools[q] \cap pools[p] # {}}
    <3>1. ASSUME NEW q
          PROVE  q \in affected_subgraph(p)
                   <=> q \in Pools /\ pools[q] \cap pools[p] # {}
      BY <2>7, <2>8 DEF affected_subgraph
    <3> QED
      BY <3>1
  <2> QED
    BY <2>5, <2>6, <2>9
<1>2. IInv /\ [Next]_vars => [Neighbours]_vars
  BY <1>1
<1> QED
  BY <1>2, IInvHolds, PTL DEF Spec, AffectedIsNeighbourhood

-----------------------------------------------------------------------------
(* Rings.  MaxHops being 2 or 3, a ring is two swaps between two tokens or *)
(* a triangle.                                                             *)

Twofold(f, g) ==
  /\ f \in Swaps /\ g \in Swaps /\ f.pool # g.pool
  /\ f.tokenOut = g.tokenIn /\ g.tokenOut = f.tokenIn

Triangle(f, g, h) ==
  /\ f \in Swaps /\ g \in Swaps /\ h \in Swaps
  /\ f.pool # g.pool /\ f.pool # h.pool /\ g.pool # h.pool
  /\ f.tokenOut = g.tokenIn /\ g.tokenOut = h.tokenIn /\ h.tokenOut = f.tokenIn
  /\ h.tokenIn # f.tokenIn

\* A swap is between two different tokens; pool and first token determine it.
LEMMA SwapTokens ==
  ASSUME IInv
  PROVE  /\ \A s \in Swaps : /\ s.pool \in Known /\ s.pool \in Nat
                             /\ s.tokenIn \in Tokens /\ s.tokenOut \in Tokens
                             /\ s.tokenIn # s.tokenOut
                             /\ pools[s.pool] = {s.tokenIn, s.tokenOut}
                             /\ s = Hop(s.pool, s.tokenIn)
         /\ \A p \in Known : \A t \in pools[p] :
              Hop(p, t) \in Swaps /\ Hop(p, t).pool = p /\ Hop(p, t).tokenIn = t
<1>1. ASSUME NEW p \in Known
      PROVE  \E x, y \in Tokens : x # y /\ pools[p] = {x, y}
  <2>1. pools[p] \subseteq Tokens /\ Cardinality(pools[p]) = 2 /\ p \in Pools
    BY DEF IInv, Known, Pairs
  <2>2. IsFiniteSet(pools[p])
    BY <2>1, TokensAssumption, FS_Subset
  <2>3. PICK x \in pools[p] : TRUE
    BY <2>1, <2>2, FS_EmptySet
  <2>4. IsFiniteSet(pools[p] \ {x}) /\ Cardinality(pools[p] \ {x}) = 1
    BY <2>1, <2>2, <2>3, FS_RemoveElement
  <2>5. PICK y : pools[p] \ {x} = {y}
    BY <2>4, FS_Singleton
  <2> QED
    BY <2>1, <2>3, <2>5
<1>2. ASSUME NEW s \in Swaps
      PROVE  /\ s.pool \in Known /\ s.pool \in Nat
             /\ s.tokenIn \in Tokens /\ s.tokenOut \in Tokens
             /\ s.tokenIn # s.tokenOut
             /\ pools[s.pool] = {s.tokenIn, s.tokenOut}
             /\ s = Hop(s.pool, s.tokenIn)
  <2>1. /\ s = [pool |-> s.pool, tokenIn |-> s.tokenIn, tokenOut |-> s.tokenOut]
        /\ s.pool \in Known /\ s.tokenIn \in Tokens /\ s.tokenOut \in Tokens
        /\ pools[s.pool] = {s.tokenIn, s.tokenOut}
    BY DEF Swaps
  <2>2. s.tokenIn # s.tokenOut
    BY <1>1, <2>1
  <2>3. _other_token(s.pool, s.tokenIn) = s.tokenOut
    BY <2>1, <2>2 DEF _other_token
  <2>4. s.pool \in Nat
    BY <2>1, PoolsAssumption DEF Known
  <2> QED
    BY <2>1, <2>2, <2>3, <2>4 DEF Hop
<1>3. ASSUME NEW p \in Known, NEW t \in pools[p]
      PROVE  Hop(p, t) \in Swaps /\ Hop(p, t).pool = p /\ Hop(p, t).tokenIn = t
  <2>1. PICK x, y \in Tokens : x # y /\ pools[p] = {x, y}
    BY <1>1
  <2>2. PICK u \in Tokens : u # t /\ pools[p] = {t, u} /\ t \in Tokens
    BY <2>1
  <2>3. _other_token(p, t) = u
    BY <2>2 DEF _other_token
  <2> QED
    BY <2>2, <2>3 DEF Hop, Swaps
<1> QED
  BY <1>2, <1>3

\* The index offers exactly the swaps that begin with a token.
LEMMA HopsAreSwaps ==
  ASSUME IInv, NEW t \in Tokens
  PROVE  HopsFrom(t) = {s \in Swaps : s.tokenIn = t}
<1>1. token_to_pools[t] = {p \in Known : t \in pools[p]}
  BY DEF IInv, IndexExact, Known
<1>2. HopsFrom(t) = {Hop(p, t) : p \in token_to_pools[t]}
  BY TokensAssumption DEF HopsFrom
<1>3. ASSUME NEW s \in HopsFrom(t)
      PROVE  s \in Swaps /\ s.tokenIn = t
  BY <1>1, <1>2, SwapTokens
<1>4. ASSUME NEW s \in Swaps, s.tokenIn = t
      PROVE  s \in HopsFrom(t)
  BY <1>1, <1>2, <1>4, SwapTokens
<1> QED
  BY <1>3, <1>4

LEMMA RingShapes ==
  ASSUME IInv
  PROVE  \A c : c \in Rings <=>
           \/ \E f, g : c = <<f, g>> /\ Twofold(f, g)
           \/ MaxHops = 3 /\ \E f, g, h : c = <<f, g, h>> /\ Triangle(f, g, h)
<1>1. ASSUME NEW c \in Rings
      PROVE  \/ \E f, g : c = <<f, g>> /\ Twofold(f, g)
             \/ MaxHops = 3 /\ \E f, g, h : c = <<f, g, h>> /\ Triangle(f, g, h)
  <2>1. PICK n \in 2 .. MaxHops : c \in [1 .. n -> Swaps]
    BY DEF Rings
  <2>2. /\ \A i \in 1 .. Len(c) : c[i].tokenOut = c[(i % Len(c)) + 1].tokenIn
        /\ \A i, j \in 1 .. Len(c) :
             i # j => c[i].pool # c[j].pool /\ c[i].tokenIn # c[j].tokenIn
    BY DEF Rings
  <2>3. Len(c) = n
    BY <2>1, MaxHopsAssumption
  <2>4. CASE n = 2
    <3>1. c = <<c[1], c[2]>>
      BY <2>1, <2>4
    <3>2. Twofold(c[1], c[2])
      BY <2>1, <2>2, <2>3, <2>4 DEF Twofold
    <3> QED
      BY <3>1, <3>2
  <2>5. CASE n = 3
    <3>1. c = <<c[1], c[2], c[3]>>
      BY <2>1, <2>5
    <3>2. Triangle(c[1], c[2], c[3])
      BY <2>1, <2>2, <2>3, <2>5 DEF Triangle
    <3>3. MaxHops = 3
      BY <2>5, MaxHopsAssumption
    <3> QED
      BY <3>1, <3>2, <3>3
  <2> QED
    BY <2>4, <2>5, MaxHopsAssumption
<1>2. ASSUME NEW f, NEW g, Twofold(f, g)
      PROVE  <<f, g>> \in Rings
  <2> DEFINE c == <<f, g>>
  <2>1. c \in [1 .. 2 -> Swaps] /\ Len(c) = 2 /\ c[1] = f /\ c[2] = g /\ 2 \in 2 .. MaxHops
    BY <1>2, MaxHopsAssumption DEF Twofold
  <2> HIDE DEF c
  <2>2. \A i \in 1 .. 2 : c[i].tokenOut = c[(i % 2) + 1].tokenIn
    BY <1>2, <2>1 DEF Twofold
  <2>3. f.tokenIn # g.tokenIn
    BY <1>2, SwapTokens DEF Twofold
  <2>4. \A i, j \in 1 .. 2 : i # j => c[i].pool # c[j].pool /\ c[i].tokenIn # c[j].tokenIn
    BY <1>2, <2>1, <2>3 DEF Twofold
  <2> QED
    BY <2>1, <2>2, <2>4 DEF Rings, c
<1>3. ASSUME NEW f, NEW g, NEW h, MaxHops = 3, Triangle(f, g, h)
      PROVE  <<f, g, h>> \in Rings
  <2> DEFINE c == <<f, g, h>>
  <2>1. /\ c \in [1 .. 3 -> Swaps] /\ Len(c) = 3 /\ c[1] = f /\ c[2] = g /\ c[3] = h
        /\ 3 \in 2 .. MaxHops
    BY <1>3 DEF Triangle
  <2> HIDE DEF c
  <2>2. \A i \in 1 .. 3 : c[i].tokenOut = c[(i % 3) + 1].tokenIn
    BY <1>3, <2>1 DEF Triangle
  <2>3. f.tokenIn # g.tokenIn /\ g.tokenIn # h.tokenIn /\ f.tokenIn # h.tokenIn
    BY <1>3, SwapTokens DEF Triangle
  <2>4. \A i, j \in 1 .. 3 : i # j => c[i].pool # c[j].pool /\ c[i].tokenIn # c[j].tokenIn
    BY <1>3, <2>1, <2>3 DEF Triangle
  <2> QED
    BY <2>1, <2>2, <2>4 DEF Rings, c
<1> QED
  BY <1>1, <1>2, <1>3

\* The enumeration finds each ring from each of its affected pools, and
\* nothing else (cycles_for_affected).
LEMMA CyclesAreRings ==
  ASSUME IInv, NEW affected
  PROVE  cycles_for_affected(affected) = {c \in Rings : c[1].pool \in affected}
<1> DEFINE Firsts == {f \in Swaps : f.pool \in affected}
<1>1. \A f : f \in Firsts <=>
        \E p \in affected \cap Known : f \in {Hop(p, t) : t \in pools[p]}
  <2>1. ASSUME NEW f \in Firsts
        PROVE  \E p \in affected \cap Known : f \in {Hop(p, t) : t \in pools[p]}
    <3>1. /\ f.pool \in affected \cap Known /\ f.tokenIn \in pools[f.pool]
          /\ f = Hop(f.pool, f.tokenIn)
      BY SwapTokens
    <3> QED
      BY <3>1
  <2>2. ASSUME NEW f, NEW p \in affected \cap Known, f \in {Hop(p, t) : t \in pools[p]}
        PROVE  f \in Firsts
    BY <2>2, SwapTokens
  <2> QED
    BY <2>1, <2>2
<1>2. \A f \in Swaps : HopsFrom(f.tokenOut) = {s \in Swaps : s.tokenIn = f.tokenOut}
  BY HopsAreSwaps, SwapTokens
<1> HIDE DEF Firsts
<1>3. \A c : c \in TwoHops(affected) <=>
        \E f \in Firsts, g \in Swaps : c = <<f, g>> /\ Twofold(f, g)
  <2>1. ASSUME NEW c \in TwoHops(affected)
        PROVE  \E f \in Firsts, g \in Swaps : c = <<f, g>> /\ Twofold(f, g)
    <3>1. PICK p \in affected \cap Known :
            c \in UNION {{<<f, g>> : g \in {h \in HopsFrom(f.tokenOut) :
                            h.pool # f.pool /\ h.tokenOut = f.tokenIn}} :
                         f \in {Hop(p, t) : t \in pools[p]}}
      BY DEF TwoHops
    <3>2. PICK f \in {Hop(p, t) : t \in pools[p]} :
            c \in {<<f, g>> : g \in {h \in HopsFrom(f.tokenOut) :
                                       h.pool # f.pool /\ h.tokenOut = f.tokenIn}}
      BY <3>1
    <3>3. f \in Firsts /\ f \in Swaps
      BY <1>1, <3>2 DEF Firsts
    <3>4. PICK g \in HopsFrom(f.tokenOut) :
            c = <<f, g>> /\ g.pool # f.pool /\ g.tokenOut = f.tokenIn
      BY <3>2
    <3>5. g \in Swaps /\ g.tokenIn = f.tokenOut
      BY <1>2, <3>3
    <3> QED
      BY <3>3, <3>4, <3>5 DEF Twofold
  <2>2. ASSUME NEW f \in Firsts, NEW g \in Swaps, Twofold(f, g)
        PROVE  <<f, g>> \in TwoHops(affected)
    <3>1. PICK p \in affected \cap Known : f \in {Hop(p, t) : t \in pools[p]}
      BY <1>1
    <3>2. g \in {h \in HopsFrom(f.tokenOut) : h.pool # f.pool /\ h.tokenOut = f.tokenIn}
      BY <1>2, <2>2 DEF Twofold
    <3>3. <<f, g>> \in {<<f, h>> : h \in {k \in HopsFrom(f.tokenOut) :
                                       k.pool # f.pool /\ k.tokenOut = f.tokenIn}}
      BY <3>2
    <3> QED
      BY <3>1, <3>3 DEF TwoHops
  <2> QED
    BY <2>1, <2>2
<1>4. \A c : c \in ThreeHops(affected) <=>
        \E f \in Firsts, g, h \in Swaps : c = <<f, g, h>> /\ Triangle(f, g, h)
  <2> DEFINE Chains == UNION {UNION {UNION {{<<first, second, third>> :
                         third \in HopsFrom(second.tokenOut)} :
                         second \in HopsFrom(first.tokenOut)} :
                         first \in {Hop(p, t) : t \in pools[p]}} : p \in affected \cap Known}
  <2>1. \A c : c \in Chains <=>
          \E f \in Firsts, g, h \in Swaps :
            c = <<f, g, h>> /\ g.tokenIn = f.tokenOut /\ h.tokenIn = g.tokenOut
    <3>1. ASSUME NEW c \in Chains
          PROVE  \E f \in Firsts, g, h \in Swaps :
                   c = <<f, g, h>> /\ g.tokenIn = f.tokenOut /\ h.tokenIn = g.tokenOut
      <4>1. PICK p \in affected \cap Known :
              c \in UNION {UNION {{<<first, second, third>> :
                         third \in HopsFrom(second.tokenOut)} :
                         second \in HopsFrom(first.tokenOut)} :
                         first \in {Hop(p, t) : t \in pools[p]}}
        OBVIOUS
      <4>2. PICK f \in {Hop(p, t) : t \in pools[p]} :
              c \in UNION {{<<f, second, third>> : third \in HopsFrom(second.tokenOut)} :
                              second \in HopsFrom(f.tokenOut)}
        BY <4>1
      <4>3. PICK g \in HopsFrom(f.tokenOut) :
              c \in {<<f, g, h>> : h \in HopsFrom(g.tokenOut)}
        BY <4>2
      <4>4. f \in Firsts /\ f \in Swaps
        BY <1>1 DEF Firsts
      <4>5. g \in Swaps /\ g.tokenIn = f.tokenOut
        BY <1>2, <4>4
      <4>6. PICK h \in HopsFrom(g.tokenOut) : c = <<f, g, h>>
        BY <4>3
      <4>7. h \in Swaps /\ h.tokenIn = g.tokenOut
        BY <1>2, <4>5
      <4> QED
        BY <4>4, <4>5, <4>6, <4>7
    <3>2. ASSUME NEW f \in Firsts, NEW g \in Swaps, NEW h \in Swaps,
                 g.tokenIn = f.tokenOut, h.tokenIn = g.tokenOut
          PROVE  <<f, g, h>> \in Chains
      <4>1. PICK p \in affected \cap Known : f \in {Hop(p, t) : t \in pools[p]}
        BY <1>1
      <4>2. g \in HopsFrom(f.tokenOut) /\ h \in HopsFrom(g.tokenOut)
        BY <1>2, <3>2 DEF Firsts
      <4>3. <<f, g, h>> \in {<<f, g, third>> : third \in HopsFrom(g.tokenOut)}
        BY <4>2
      <4>4. <<f, g, h>> \in UNION {{<<f, second, third>> : third \in HopsFrom(second.tokenOut)} :
                                     second \in HopsFrom(f.tokenOut)}
        BY <4>2, <4>3
      <4> QED
        BY <4>1, <4>4
    <3> QED
      BY <3>1, <3>2
  <2>2. ThreeHops(affected) =
          {s \in Chains : /\ s[2].pool # s[1].pool
                          /\ s[2].tokenOut # s[1].tokenIn
                          /\ s[3].pool \notin {s[1].pool, s[2].pool}
                          /\ s[3].tokenOut = s[1].tokenIn}
    BY DEF ThreeHops
  <2> HIDE DEF Chains
  <2>3. ASSUME NEW f \in Firsts, NEW g \in Swaps, NEW h \in Swaps,
               g.tokenIn = f.tokenOut, h.tokenIn = g.tokenOut
        PROVE  Triangle(f, g, h) <=>
                 /\ g.pool # f.pool /\ g.tokenOut # f.tokenIn
                 /\ h.pool # f.pool /\ h.pool # g.pool /\ h.tokenOut = f.tokenIn
    BY <2>3 DEF Triangle, Firsts
  <2>4. ASSUME NEW f, NEW g, NEW h
        PROVE  /\ <<f, g, h>>[1] = f /\ <<f, g, h>>[2] = g /\ <<f, g, h>>[3] = h
    OBVIOUS
  <2>5. ASSUME NEW c \in ThreeHops(affected)
        PROVE  \E f \in Firsts, g, h \in Swaps : c = <<f, g, h>> /\ Triangle(f, g, h)
    <3>1. PICK f \in Firsts, g \in Swaps, h \in Swaps :
            c = <<f, g, h>> /\ g.tokenIn = f.tokenOut /\ h.tokenIn = g.tokenOut
      BY <2>1, <2>2
    <3>2. /\ g.pool # f.pool /\ g.tokenOut # f.tokenIn
          /\ h.pool # f.pool /\ h.pool # g.pool /\ h.tokenOut = f.tokenIn
      BY <2>2, <3>1
    <3> QED
      BY <2>3, <3>1, <3>2
  <2>6. ASSUME NEW f \in Firsts, NEW g \in Swaps, NEW h \in Swaps, Triangle(f, g, h)
        PROVE  <<f, g, h>> \in ThreeHops(affected)
    <3>1. g.tokenIn = f.tokenOut /\ h.tokenIn = g.tokenOut
      BY <2>6 DEF Triangle
    <3>2. <<f, g, h>> \in Chains
      BY <2>1, <3>1
    <3>3. /\ g.pool # f.pool /\ g.tokenOut # f.tokenIn
          /\ h.pool # f.pool /\ h.pool # g.pool /\ h.tokenOut = f.tokenIn
      BY <2>3, <2>6, <3>1
    <3> QED
      BY <2>2, <3>2, <3>3
  <2> QED
    BY <2>5, <2>6
<1>5. \A f, g : Twofold(f, g) => f \in Swaps /\ g \in Swaps
  BY DEF Twofold
<1>6. \A f, g, h : Triangle(f, g, h) => f \in Swaps /\ g \in Swaps /\ h \in Swaps
  BY DEF Triangle
<1>7. ASSUME NEW c
      PROVE  c \in cycles_for_affected(affected) <=> c \in Rings /\ c[1].pool \in affected
  <2>1. c \in cycles_for_affected(affected) <=>
          c \in TwoHops(affected) \/ (MaxHops = 3 /\ c \in ThreeHops(affected))
    BY MaxHopsAssumption DEF cycles_for_affected
  <2>2. c \in TwoHops(affected) <=>
          c[1].pool \in affected /\ \E f, g : c = <<f, g>> /\ Twofold(f, g)
    BY <1>3, <1>5 DEF Firsts
  <2>3. c \in ThreeHops(affected) <=>
          c[1].pool \in affected /\ \E f, g, h : c = <<f, g, h>> /\ Triangle(f, g, h)
    BY <1>4, <1>6 DEF Firsts
  <2> QED
    BY <2>1, <2>2, <2>3, RingShapes
<1> QED
  BY <1>7

-----------------------------------------------------------------------------
(* Entry points.                                                           *)

\* A ring entered at its i-th swap.
Entered(c, i) == [j \in 1 .. Len(c) |-> c[((i + j - 2) % Len(c)) + 1]]

LEMMA EnteredElsewhere ==
  ASSUME IInv, NEW c \in Rings, NEW i \in 1 .. Len(c)
  PROVE  /\ Entered(c, i) \in Rings /\ Entered(c, i)[1] = c[i]
         /\ SwapsOf(Entered(c, i)) = SwapsOf(c)
<1>1. CASE \E f, g : c = <<f, g>> /\ Twofold(f, g)
  <2>1. PICK f, g : c = <<f, g>> /\ Twofold(f, g)
    BY <1>1
  <2>2. Len(c) = 2 /\ c[1] = f /\ c[2] = g /\ i \in {1, 2}
    BY <2>1
  <2>3. Entered(c, i) = <<c[i], IF i = 1 THEN g ELSE f>>
    BY <2>2 DEF Entered
  <2>4. Twofold(g, f)
    BY <2>1 DEF Twofold
  <2>5. Entered(c, i) \in Rings /\ Entered(c, i)[1] = c[i] /\ Len(Entered(c, i)) = 2
    BY <2>1, <2>2, <2>3, <2>4, RingShapes
  <2>6. SwapsOf(c) = {f, g} /\ SwapsOf(Entered(c, i)) = {f, g}
    BY <2>2, <2>3, <2>5 DEF SwapsOf
  <2> QED
    BY <2>5, <2>6
<1>2. CASE MaxHops = 3 /\ \E f, g, h : c = <<f, g, h>> /\ Triangle(f, g, h)
  <2>1. PICK f, g, h : c = <<f, g, h>> /\ Triangle(f, g, h)
    BY <1>2
  <2>2. Len(c) = 3 /\ c[1] = f /\ c[2] = g /\ c[3] = h /\ i \in {1, 2, 3}
    BY <2>1
  <2>3. Entered(c, i) = <<c[i], IF i = 1 THEN g ELSE IF i = 2 THEN h ELSE f,
                          IF i = 1 THEN h ELSE IF i = 2 THEN f ELSE g>>
    BY <2>2 DEF Entered
  <2>4. Triangle(g, h, f) /\ Triangle(h, f, g)
    BY <2>1, SwapTokens DEF Triangle
  <2>5. Entered(c, i) \in Rings /\ Entered(c, i)[1] = c[i] /\ Len(Entered(c, i)) = 3
    BY <1>2, <2>1, <2>2, <2>3, <2>4, RingShapes
  <2>6. SwapsOf(c) = {f, g, h} /\ SwapsOf(Entered(c, i)) = {f, g, h}
    BY <2>2, <2>3, <2>5 DEF SwapsOf
  <2> QED
    BY <2>5, <2>6
<1> QED
  BY <1>1, <1>2, RingShapes

\* A canonical form is a set of swaps: rings with the same swaps are rotations
\* of each other.
LEMMA SameSwapsSameRing ==
  ASSUME IInv, NEW c \in Rings, NEW d \in Rings, SwapsOf(c) = SwapsOf(d)
  PROVE  SameRing(c, d) /\ (c[1].pool = d[1].pool => c = d)
<1>1. ASSUME NEW f, NEW g, c = <<f, g>>, Twofold(f, g)
      PROVE  SameRing(c, d) /\ (c[1].pool = d[1].pool => c = d)
  <2>1. SwapsOf(d) = {f, g} /\ Len(c) = 2 /\ c[1] = f /\ c[2] = g
    BY <1>1 DEF SwapsOf
  <2>2. d = <<f, g>> \/ d = <<g, f>>
    <3>1. CASE \E x, y : d = <<x, y>> /\ Twofold(x, y)
      <4>1. PICK x, y : d = <<x, y>> /\ Twofold(x, y)
        BY <3>1
      <4>2. x \in {f, g} /\ y \in {f, g} /\ x # y
        BY <2>1, <4>1 DEF SwapsOf, Twofold
      <4> QED
        BY <4>1, <4>2
    <3>2. CASE \E x, y, z : d = <<x, y, z>> /\ Triangle(x, y, z)
      <4>1. PICK x, y, z : d = <<x, y, z>> /\ Triangle(x, y, z)
        BY <3>2
      <4>2. SwapsOf(d) = {x, y, z} /\ x # y /\ x # z /\ y # z
        BY <4>1 DEF SwapsOf, Triangle
      <4> QED
        BY <2>1, <4>2
    <3> QED
      BY <3>1, <3>2, RingShapes
  <2>3. f.pool # g.pool
    BY <1>1 DEF Twofold
  <2>4. CASE d = <<f, g>>
    <3>1. \A i \in 1 .. 2 : d[i] = c[((i - 1 + 0) % 2) + 1]
      BY <2>1, <2>4
    <3> QED
      BY <1>1, <2>1, <2>4, <3>1 DEF SameRing
  <2>5. CASE d = <<g, f>>
    <3>1. \A i \in 1 .. 2 : d[i] = c[((i - 1 + 1) % 2) + 1]
      BY <2>1, <2>5
    <3>2. Len(d) = 2 /\ 1 \in 0 .. Len(c) - 1
      BY <2>1, <2>5
    <3>3. SameRing(c, d)
      BY <2>1, <3>1, <3>2 DEF SameRing
    <3> QED
      BY <2>1, <2>3, <2>5, <3>3
  <2> QED
    BY <2>2, <2>4, <2>5
<1>2. ASSUME NEW f, NEW g, NEW h, c = <<f, g, h>>, Triangle(f, g, h)
      PROVE  SameRing(c, d) /\ (c[1].pool = d[1].pool => c = d)
  <2>1. /\ SwapsOf(d) = {f, g, h} /\ Len(c) = 3 /\ c[1] = f /\ c[2] = g /\ c[3] = h
        /\ f # g /\ f # h /\ g # h
    <3>1. Len(c) = 3 /\ c[1] = f /\ c[2] = g /\ c[3] = h
      BY <1>2
    <3>2. SwapsOf(c) = {f, g, h}
      BY <3>1 DEF SwapsOf
    <3>3. f # g /\ f # h /\ g # h
      BY <1>2 DEF Triangle
    <3> QED
      BY <3>1, <3>2, <3>3
  <2>2. d = <<f, g, h>> \/ d = <<g, h, f>> \/ d = <<h, f, g>>
    <3>1. CASE \E x, y : d = <<x, y>> /\ Twofold(x, y)
      <4>1. PICK x, y : d = <<x, y>>
        BY <3>1
      <4>2. SwapsOf(d) = {x, y}
        BY <4>1 DEF SwapsOf
      <4> QED
        BY <2>1, <4>2
    <3>2. CASE \E x, y, z : d = <<x, y, z>> /\ Triangle(x, y, z)
      <4>1. PICK x, y, z : d = <<x, y, z>> /\ Triangle(x, y, z)
        BY <3>2
      <4>2. SwapsOf(d) = {x, y, z}
        BY <4>1 DEF SwapsOf
      <4>3. x \in {f, g, h} /\ y \in {f, g, h} /\ z \in {f, g, h}
        BY <2>1, <4>2
      <4>4. x.tokenOut = y.tokenIn /\ y.tokenOut = z.tokenIn
        BY <4>1 DEF Triangle
      <4>5. /\ f.tokenOut = g.tokenIn /\ g.tokenOut = h.tokenIn /\ h.tokenOut = f.tokenIn
            /\ f.tokenIn # g.tokenIn /\ g.tokenIn # h.tokenIn /\ f.tokenIn # h.tokenIn
        BY <1>2, SwapTokens DEF Triangle
      <4>6. \/ x = f /\ y = g /\ z = h
            \/ x = g /\ y = h /\ z = f
            \/ x = h /\ y = f /\ z = g
        BY <4>3, <4>4, <4>5
      <4> QED
        BY <4>1, <4>6
    <3> QED
      BY <3>1, <3>2, RingShapes
  <2>3. f.pool # g.pool /\ f.pool # h.pool /\ g.pool # h.pool
    BY <1>2 DEF Triangle
  <2>4. Len(d) = 3 /\ 0 \in 0 .. Len(c) - 1 /\ 1 \in 0 .. Len(c) - 1 /\ 2 \in 0 .. Len(c) - 1
    BY <2>1, <2>2
  <2>5. CASE d = <<f, g, h>>
    <3>1. \A i \in 1 .. 3 : d[i] = c[((i - 1 + 0) % 3) + 1]
      BY <2>1, <2>5
    <3> QED
      BY <1>2, <2>1, <2>4, <2>5, <3>1 DEF SameRing
  <2>6. CASE d = <<g, h, f>>
    <3>1. \A i \in 1 .. 3 : d[i] = c[((i - 1 + 1) % 3) + 1]
      BY <2>1, <2>6
    <3>2. SameRing(c, d)
      BY <2>1, <2>4, <3>1 DEF SameRing
    <3> QED
      BY <2>1, <2>3, <2>6, <3>2
  <2>7. CASE d = <<h, f, g>>
    <3>1. \A i \in 1 .. 3 : d[i] = c[((i - 1 + 2) % 3) + 1]
      BY <2>1, <2>7
    <3>2. SameRing(c, d)
      BY <2>1, <2>4, <3>1 DEF SameRing
    <3> QED
      BY <2>1, <2>3, <2>7, <3>2
  <2> QED
    BY <2>2, <2>5, <2>6, <2>7
<1> QED
  BY <1>1, <1>2, RingShapes

\* A ring has two or three swaps, each in a pool of the address order.
LEMMA RingLengths ==
  ASSUME IInv, NEW c \in Rings
  PROVE  /\ c[1].pool \in Nat /\ c[2].pool \in Nat
         /\ Len(c) = 2 \/ (Len(c) = 3 /\ c[3].pool \in Nat)
<1>1. CASE \E f, g : c = <<f, g>> /\ Twofold(f, g)
  <2>1. PICK f, g : c = <<f, g>> /\ f \in Swaps /\ g \in Swaps
    BY <1>1 DEF Twofold
  <2> QED
    BY <2>1, SwapTokens
<1>2. CASE \E f, g, h : c = <<f, g, h>> /\ Triangle(f, g, h)
  <2>1. PICK f, g, h : c = <<f, g, h>> /\ f \in Swaps /\ g \in Swaps /\ h \in Swaps
    BY <1>2 DEF Triangle
  <2> QED
    BY <2>1, SwapTokens
<1> QED
  BY <1>1, <1>2, RingShapes

\* Of finitely many entry points one has the least pool.
LEMMA LeastEntry ==
  ASSUME IInv, NEW c \in Rings, NEW I \in SUBSET (1 .. Len(c)), I # {}
  PROVE  \E i \in I : \A j \in I : c[i].pool <= c[j].pool
<1> DEFINE P(i) == c[i].pool
<1> SUFFICES \E i \in I : \A j \in I : P(i) <= P(j)
  OBVIOUS
<1>1. /\ P(1) \in Nat /\ P(2) \in Nat
      /\ Len(c) = 2 \/ (Len(c) = 3 /\ P(3) \in Nat)
  BY RingLengths DEF P
<1> HIDE DEF P
<1>2. PICK any : any \in I
  OBVIOUS
<1>3. CASE Len(c) = 2
  <2>1. \A j \in I : j = 1 \/ j = 2
    BY <1>3
  <2>2. CASE 1 \in I /\ (2 \in I => P(1) <= P(2))
    <3>1. P(1) <= P(1)
      BY <1>1
    <3>2. \A j \in I : P(1) <= P(j)
      BY <2>1, <2>2, <3>1
    <3> QED
      BY <2>2, <3>2
  <2>3. CASE 2 \in I /\ (1 \in I => P(2) <= P(1))
    BY <1>1, <2>1, <2>3
  <2> QED
    BY <1>1, <1>2, <2>1, <2>2, <2>3
<1>4. CASE Len(c) = 3
  <2>1. \A j \in I : j = 1 \/ j = 2 \/ j = 3
    BY <1>4
  <2>0. P(1) \in Nat /\ P(2) \in Nat /\ P(3) \in Nat
    BY <1>1, <1>4
  <2>2. CASE 1 \in I /\ (2 \in I => P(1) <= P(2)) /\ (3 \in I => P(1) <= P(3))
    BY <2>0, <2>1, <2>2
  <2>3. CASE 2 \in I /\ (1 \in I => P(2) <= P(1)) /\ (3 \in I => P(2) <= P(3))
    BY <2>0, <2>1, <2>3
  <2>4. CASE 3 \in I /\ (1 \in I => P(3) <= P(1)) /\ (2 \in I => P(3) <= P(2))
    BY <2>0, <2>1, <2>4
  <2>5. 1 \in I \/ 2 \in I \/ 3 \in I
    BY <1>2, <2>1
  <2>6. \/ 1 \in I /\ (2 \in I => P(1) <= P(2)) /\ (3 \in I => P(1) <= P(3))
        \/ 2 \in I /\ (1 \in I => P(2) <= P(1)) /\ (3 \in I => P(2) <= P(3))
        \/ 3 \in I /\ (1 \in I => P(3) <= P(1)) /\ (2 \in I => P(3) <= P(2))
    BY <2>0, <2>5
  <2> QED
    BY <2>2, <2>3, <2>4, <2>6
<1> QED
  BY <1>1, <1>3, <1>4

\* What deduplication keeps: each affected ring, from one entry point.
LEMMA DedupKeepsEachOnce ==
  ASSUME IInv, NEW affected
  PROVE  LET cycles == _dedup_cycles(cycles_for_affected(affected))
         IN /\ \A s \in Touching(affected) : \E c \in cycles : SwapsOf(c) = SwapsOf(s)
            /\ \A c, d \in cycles : SwapsOf(c) = SwapsOf(d) => c = d
<1> DEFINE all == cycles_for_affected(affected)
           kept == _dedup_cycles(all)
<1>1. all = {c \in Rings : c[1].pool \in affected}
  BY CyclesAreRings
<1>2. kept = {c \in all : \A d \in all : SameRing(c, d) => c[1].pool <= d[1].pool}
  BY DEF _dedup_cycles
<1> HIDE DEF all, kept
<1>3. ASSUME NEW s \in Touching(affected)
      PROVE  \E c \in kept : SwapsOf(c) = SwapsOf(s)
  <2> DEFINE I == {i \in 1 .. Len(s) : s[i].pool \in affected}
  <2>1. s \in Rings /\ I # {} /\ I \in SUBSET (1 .. Len(s))
    BY DEF Touching
  <2>2. PICK i \in I : \A j \in I : s[i].pool <= s[j].pool
    BY <2>1, LeastEntry
  <2> DEFINE c == Entered(s, i)
  <2>3. c \in all /\ c[1] = s[i] /\ SwapsOf(c) = SwapsOf(s)
    BY <1>1, <2>1, EnteredElsewhere
  <2>4. ASSUME NEW d \in all, SameRing(c, d)
        PROVE  c[1].pool <= d[1].pool
    <3>1. Len(c) = Len(s) /\ (Len(c) = 2 \/ Len(c) = 3) /\ 1 \in 1 .. Len(s)
      <4>1. Len(s) = 2 \/ Len(s) = 3
        BY <2>1, RingLengths
      <4> QED
        BY <4>1 DEF Entered
    <3>2. PICK k \in 0 .. Len(c) - 1 : d[1] = c[((1 - 1 + k) % Len(c)) + 1]
      <4> HIDE DEF c
      <4> QED
        BY <2>4, <3>1 DEF SameRing
    <3>3. (1 - 1 + k) % Len(c) = k /\ k + 1 \in 1 .. Len(c)
      <4> DEFINE n == Len(c)
      <4>1. (n = 2 \/ n = 3) /\ k \in 0 .. n - 1
        BY <3>1
      <4> HIDE DEF c, n
      <4>2. CASE n = 2
        <5>1. k = 0 \/ k = 1
          BY <4>1, <4>2
        <5> QED
          BY <4>2, <5>1
      <4>3. CASE n = 3
        <5>1. k = 0 \/ k = 1 \/ k = 2
          BY <4>1, <4>3
        <5> QED
          BY <4>3, <5>1
      <4> QED
        BY <4>1, <4>2, <4>3 DEF n
    <3>4. d[1] \in SwapsOf(c)
      BY <3>2, <3>3 DEF SwapsOf
    <3>5. PICK j \in 1 .. Len(s) : d[1] = s[j]
      BY <2>3, <3>4 DEF SwapsOf
    <3>6. j \in I
      BY <1>1, <3>5
    <3> QED
      BY <2>2, <2>3, <3>5, <3>6
  <2> QED
    BY <1>2, <2>3, <2>4
<1>4. ASSUME NEW c \in kept, NEW d \in kept, SwapsOf(c) = SwapsOf(d)
      PROVE  c = d
  <2>1. c \in Rings /\ d \in Rings /\ c \in all /\ d \in all
    BY <1>1, <1>2
  <2>2. SameRing(c, d) /\ SameRing(d, c)
    BY <1>4, <2>1, SameSwapsSameRing
  <2>3. c[1].pool <= d[1].pool /\ d[1].pool <= c[1].pool
    BY <1>2, <2>1, <2>2
  <2>4. c[1].pool \in Nat /\ d[1].pool \in Nat
    <3>1. \A e \in Rings : e[1] \in Swaps
      BY RingShapes DEF Twofold, Triangle
    <3> QED
      BY <2>1, <3>1, SwapTokens
  <2>5. c[1].pool = d[1].pool
    BY <2>3, <2>4
  <2> QED
    BY <1>4, <2>1, <2>5, SameSwapsSameRing
<1> QED
  BY <1>3, <1>4 DEF kept, all

\* A trigger evaluates every ring through an affected pool, as the registry is
\* at that moment, once, and nothing else (cycles_for_affected, _dedup_cycles).
THEOREM RingsAreEvaluatedOnce == Spec => EachRingOnce
<1> DEFINE Once ==
      \A r \in Triggers :
        trigger[r].stage = "affected" /\ trigger'[r].stage = "evaluated" =>
          LET cycles == trigger'[r].cycles
              rings == Touching(trigger[r].affected)
          IN /\ cycles \subseteq rings
             /\ \A s \in rings : \E c \in cycles : SwapsOf(c) = SwapsOf(s)
             /\ configured =>
                  \A c, d \in cycles : SwapsOf(c) = SwapsOf(d) => c = d
<1>1. ASSUME IInv, [Next]_vars
      PROVE  Once
  <2> SUFFICES ASSUME NEW r \in Triggers,
                      trigger[r].stage = "affected", trigger'[r].stage = "evaluated"
               PROVE  LET cycles == trigger'[r].cycles
                          rings == Touching(trigger[r].affected)
                      IN /\ cycles \subseteq rings
                         /\ \A s \in rings : \E c \in cycles : SwapsOf(c) = SwapsOf(s)
                         /\ configured =>
                              \A c, d \in cycles : SwapsOf(c) = SwapsOf(d) => c = d
    OBVIOUS
  <2> DEFINE affected == trigger[r].affected
             all == cycles_for_affected(affected)
  <2>1. EvaluateAffected(r) \/ RejectAffected(r)
    <3>1. PICK s \in Triggers :
            \/ \E p \in Pools : Arrive(s, p)
            \/ EvaluateAffected(s)
            \/ RejectAffected(s)
            \/ Answer(s)
      BY <1>1 DEF Next, vars, Register
    <3>2. s = r
      BY <1>1, <3>1 DEF IInv, Arrive, EvaluateAffected, RejectAffected, Answer
    <3>3. ~Answer(s) /\ \A p \in Pools : ~Arrive(s, p)
      BY <3>2 DEF Answer, Arrive
    <3> QED
      BY <3>1, <3>2, <3>3
  <2>2. \/ configured /\ trigger'[r].cycles = _dedup_cycles(all)
        \/ ~configured /\ trigger'[r].cycles = all
    BY <1>1, <2>1 DEF IInv, EvaluateAffected, RejectAffected, WithCycles
  <2>3. all = {c \in Rings : c[1].pool \in affected}
    BY <1>1, CyclesAreRings
  <2>4. _dedup_cycles(all) \subseteq all
    BY DEF _dedup_cycles
  <2>5. all \subseteq Touching(affected)
    <3>1. \A c \in Rings : 1 \in 1 .. Len(c)
      <4>1. \A c \in Rings : Len(c) = 2 \/ Len(c) = 3
        BY <1>1, RingLengths
      <4> QED
        BY <4>1
    <3> QED
      BY <2>3, <3>1 DEF Touching
  <2>6. /\ \A s \in Touching(affected) : \E c \in _dedup_cycles(all) : SwapsOf(c) = SwapsOf(s)
        /\ \A c, d \in _dedup_cycles(all) : SwapsOf(c) = SwapsOf(d) => c = d
    BY <1>1, DedupKeepsEachOnce
  <2> HIDE DEF all, affected
  <2>7. /\ trigger'[r].cycles \subseteq Touching(affected)
        /\ \A s \in Touching(affected) : \E c \in trigger'[r].cycles : SwapsOf(c) = SwapsOf(s)
    BY <2>2, <2>4, <2>5, <2>6
  <2>8. configured => \A c, d \in trigger'[r].cycles : SwapsOf(c) = SwapsOf(d) => c = d
    BY <2>2, <2>6
  <2> QED
    BY <2>7, <2>8 DEF affected
<1>2. IInv /\ [Next]_vars => [Once]_vars
  BY <1>1
<1> QED
  BY <1>2, IInvHolds, PTL DEF Spec, EachRingOnce

=============================================================================
