-------------------------- MODULE SubmissionProofs --------------------------
(***************************************************************************)
(* The submission of plans, for any number of concurrent requests, plans,  *)
(* environments and fees and whatever Clef is made to sign: what is        *)
(* broadcast was reviewed and is fresh, no transaction is accepted ahead   *)
(* of a nonce nobody uses, and none is lost but to a request that          *)
(* overlapped.                                                             *)
(***************************************************************************)
EXTENDS Submission, TLAPS, FiniteSetTheorems, WellFoundedInduction

-----------------------------------------------------------------------------
(* The invariant.  Its parts are about one request: e is the environment,  *)
(* t what was sent, a what was asked; h and d are its handler and desk.    *)

Early == {"chain", "fresh", "simulate"}
Late == {"nonce", "fees", "signing", "send", "sent"}

\* What passing the simulation and the switches after it means.
Switched(e) ==
  /\ ~e.DRY_RUN /\ e.LIVE_TRADING /\ e.LIVE_TRADING_ACK
  /\ e.EXTERNAL_SIGNER_ADDRESS = Owner /\ e.EXECUTOR_ADDRESS = Executor

\* A call of the executor for a plan's calldata.
Calls(tx) == tx.to = Executor /\ tx.value = 0 /\ tx.data \in Calldata

\* The limits of the gateway.
Within(e, tx) ==
  /\ e.policy.allow_execution_signing
  /\ tx.gas <= e.policy.max_gas
  /\ tx.max_fee_per_gas <= e.policy.max_fee_per_gas_wei

Signed(e, raw) == raw.signer = Owner /\ Calls(raw) /\ Within(e, raw)

HandlerWell(e, h) ==
  /\ "at" \in DOMAIN h
  /\ h.at \in Early \cup {"nonce", "fees"} => "plan" \in DOMAIN h /\ h.plan \in Plans
  /\ h.at \in Late => Switched(e)
  /\ h.at \in {"send", "sent"} => "raw" \in DOMAIN h /\ Signed(e, h.raw)

DeskWell(e, d) ==
  /\ "at" \in DOMAIN d
  /\ d.at \in {"received", "clef"} => "tx" \in DOMAIN d /\ d.tx.from = Owner /\ Calls(d.tx)
  /\ d.at = "clef" => Within(e, d.tx)
  /\ d.at = "signed" => Signed(e, d.raw)

\* A request goes through its stages once.
Stages(t, a, r, c, h, d) ==
  /\ c = "idle" => h.at = "idle" /\ r \notin DOMAIN a
  /\ h.at \in Early \cup {"idle", "nonce", "fees"} => d = Free
  /\ r \in DOMAIN t => h.at \in {"sent", "done"}

\* The order was neither executed nor late when it was posted.
Fresh(q) == q.block < TargetBlock[q.data] /\ q.data \notin q.executed

Freshness(t, a, r, c, h) ==
  /\ h.at \in Early \cup Late => r \in DOMAIN a
  /\ h.at \in Early => a[r].data = h.plan.data
  /\ h.at \in Late \/ c = "dry" \/ r \in DOMAIN t => r \in DOMAIN a /\ Fresh(a[r])

\* No request in S was sent with this nonce.
Untaken(t, S, n) == n \in Nat /\ \A q \in S : q \in DOMAIN t /\ t[q].nonce # n

\* The nonce a request holds was not taken by one that was sent before.
Nonces(t, S, r, h, d) ==
  /\ S \subseteq DOMAIN t
  /\ h.at = "fees" => "nonce" \in DOMAIN h /\ Untaken(t, S, h.nonce)
  /\ h.at = "send" => Untaken(t, S, h.raw.nonce)
  /\ d.at \in {"received", "clef"} => Untaken(t, S, d.tx.nonce)
  /\ d.at = "signed" => Untaken(t, S, d.raw.nonce)
  /\ r \in DOMAIN t => Untaken(t, S, t[r].nonce)

RequestWell(e, t, a, S, r, c, h, d) ==
  /\ HandlerWell(e, h)
  /\ DeskWell(e, d)
  /\ Stages(t, a, r, c, h, d)
  /\ Freshness(t, a, r, c, h)
  /\ Nonces(t, S, r, h, d)
  /\ r \in DOMAIN t => Switched(e) /\ Signed(e, t[r])

Well(r) == RequestWell(env, sent, asked, saw[r], r, client[r], handler[r], desk[r])

RequestsInv ==
  /\ env \in Environments
  /\ DOMAIN client = Requests /\ DOMAIN handler = Requests
  /\ DOMAIN desk = Requests /\ DOMAIN saw = Requests
  /\ DOMAIN sent \subseteq Requests
  /\ \A r \in Requests : Well(r)

\* What was executed stays executed, and blocks only follow.
AskedInv ==
  /\ latest \in Nat
  /\ \A r \in DOMAIN asked :
       /\ asked[r].block \in Nat /\ asked[r].block <= latest
       /\ asked[r].executed \subseteq Executed

\* Every nonce the node was sent is mined or in its pool.
NodeInv ==
  /\ \E S : mined \in Seq(S)
  /\ IsFiniteSet(DOMAIN pool)
  /\ \A n \in DOMAIN pool : n \in Nat /\ \E s \in DOMAIN sent : pool[n] = sent[s] /\ sent[s].nonce = n
  /\ \A i \in 1 .. Len(mined) :
       \E s \in DOMAIN sent : mined[i].raw = sent[s] /\ sent[s].nonce = i - 1
  /\ \A s \in DOMAIN sent :
       sent[s].nonce \in Nat /\ (sent[s].nonce < Len(mined) \/ sent[s].nonce \in DOMAIN pool)

\* The nonces before this one are mined or pooled.
Reached(m, p, n) == n \in Nat /\ \A k \in Len(m) .. n - 1 : k \in DOMAIN p

\* The nonce a request holds was reached.
Held(m, p, h, d) ==
  /\ h.at = "fees" => Reached(m, p, h.nonce)
  /\ h.at = "send" => Reached(m, p, h.raw.nonce)
  /\ d.at \in {"received", "clef"} => Reached(m, p, d.tx.nonce)
  /\ d.at = "signed" => Reached(m, p, d.raw.nonce)

ReachedInv ==
  /\ \A r \in Requests : Held(mined, pool, handler[r], desk[r])
  /\ \A n \in DOMAIN pool : Reached(mined, pool, n)

IInv == RequestsInv /\ AskedInv /\ NodeInv /\ ReachedInv

-----------------------------------------------------------------------------
(* Requests.                                                               *)

Extends(f, g) == \A x \in DOMAIN f : x \in DOMAIN g /\ g[x] = f[x]

LEMMA UntakenStays ==
  ASSUME NEW t, NEW u, Extends(t, u), NEW S, NEW n, Untaken(t, S, n)
  PROVE  Untaken(u, S, n)
BY DEF Untaken, Extends

\* What other requests do leaves a request well.
LEMMA OthersStayWell ==
  ASSUME NEW e, NEW t, NEW u, NEW a, NEW b, NEW S, NEW r, NEW c, NEW h, NEW d,
         RequestWell(e, t, a, S, r, c, h, d),
         Extends(t, u), Extends(a, b),
         r \in DOMAIN u => r \in DOMAIN t, r \in DOMAIN b => r \in DOMAIN a
  PROVE  RequestWell(e, u, b, S, r, c, h, d)
<1>1. Stages(u, b, r, c, h, d)
  BY DEF RequestWell, Stages
<1>2. Freshness(u, b, r, c, h)
  BY DEF RequestWell, Freshness, Extends
<1>3. Nonces(u, S, r, h, d)
  <2>1. Nonces(t, S, r, h, d)
    BY DEF RequestWell
  <2>2. S \subseteq DOMAIN u /\ (r \in DOMAIN u => u[r] = t[r])
    BY <2>1 DEF Nonces, Extends
  <2> QED
    BY <2>1, <2>2, UntakenStays DEF Nonces
<1>4. r \in DOMAIN u => Switched(e) /\ Signed(e, u[r])
  BY DEF RequestWell, Extends
<1> QED
  BY <1>1, <1>2, <1>3, <1>4 DEF RequestWell

\* At most the entry of r changes.
Only(f, g, r) == DOMAIN g = DOMAIN f /\ \A s \in DOMAIN f : s # r => g[s] = f[s]

\* One request takes a step.
LEMMA OneRequest ==
  ASSUME RequestsInv, NEW r \in Requests, env' = env,
         Extends(sent, sent'), DOMAIN sent' \subseteq DOMAIN sent \cup {r},
         Extends(asked, asked'), DOMAIN asked' \subseteq DOMAIN asked \cup {r},
         Only(client, client', r), Only(handler, handler', r),
         Only(desk, desk', r), Only(saw, saw', r),
         Well(r)'
  PROVE  RequestsInv'
<1>1. /\ DOMAIN client' = Requests /\ DOMAIN handler' = Requests
      /\ DOMAIN desk' = Requests /\ DOMAIN saw' = Requests
      /\ DOMAIN sent' \subseteq Requests
  BY DEF RequestsInv, Only
<1>2. ASSUME NEW s \in Requests, s # r
      PROVE  Well(s)'
  <2>1. /\ client'[s] = client[s] /\ handler'[s] = handler[s]
        /\ desk'[s] = desk[s] /\ saw'[s] = saw[s]
    BY <1>2 DEF RequestsInv, Only
  <2>2. RequestWell(env, sent, asked, saw[s], s, client[s], handler[s], desk[s])
    BY DEF RequestsInv, Well
  <2>3. RequestWell(env, sent', asked', saw[s], s, client[s], handler[s], desk[s])
    BY <1>2, <2>2, OthersStayWell
  <2> QED
    BY <2>1, <2>3 DEF Well
<1> QED
  BY <1>1, <1>2 DEF RequestsInv

-----------------------------------------------------------------------------
(* The pending nonce.                                                      *)

LEMMA LeastNatural ==
  ASSUME NEW T \in SUBSET Nat, T # {}
  PROVE  \E x \in T : \A y \in T : x <= y
<1>1. PICK x \in T : \A y \in T : ~ (<<y, x>> \in {p \in Nat \X Nat : p[1] < p[2]})
  BY NatLessThanWellFounded, WFMin, Zenon DEF OpToRel
<1>2. ASSUME NEW y \in T
      PROVE  x <= y
  <2>1. <<y, x>> \in Nat \X Nat /\ <<y, x>>[1] = y /\ <<y, x>>[2] = x
    OBVIOUS
  <2>2. ~(y < x)
    BY <1>1, <2>1
  <2> QED
    BY <2>2
<1> QED
  BY <1>2

\* The node answers with the first nonce that is neither mined nor pooled.
LEMMA PendingNonceIsFree ==
  ASSUME NodeInv
  PROVE  /\ PendingNonce \in Nat /\ PendingNonce >= Len(mined) /\ PendingNonce \notin DOMAIN pool
         /\ Reached(mined, pool, PendingNonce)
<1> DEFINE l == Len(mined)
           c == Cardinality(DOMAIN pool)
           T == (l .. l + c) \ DOMAIN pool
<1>1. l \in Nat /\ c \in Nat
  BY FS_CardinalityType DEF NodeInv
<1>2. T # {}
  <2>1. SUFFICES ASSUME l .. l + c \subseteq DOMAIN pool
                 PROVE  FALSE
    OBVIOUS
  <2>2. Cardinality(l .. l + c) <= c
    BY <2>1, FS_Subset DEF NodeInv
  <2> HIDE DEF l, c
  <2>3. Cardinality(l .. l + c) = (l + c) - l + 1
    BY <1>1, FS_Interval
  <2> QED
    BY <1>1, <2>2, <2>3
<1>3. PICK n \in T : \A y \in T : n <= y
  <2> HIDE DEF l, c
  <2>1. T \in SUBSET Nat
    BY <1>1
  <2> HIDE DEF T
  <2> QED
    BY <1>2, <2>1, LeastNatural
<1>4. /\ n \in l .. l + c /\ n \notin DOMAIN pool
      /\ \A k \in l .. n - 1 : k \in DOMAIN pool
  <2> HIDE DEF l, c
  <2>1. ASSUME NEW k \in l .. n - 1, k \notin DOMAIN pool
        PROVE  FALSE
    <3>1. k \in T /\ k < n
      BY <1>1, <2>1
    <3> QED
      BY <1>1, <1>3, <3>1
  <2> QED
    BY <2>1
<1>5. /\ PendingNonce \in l .. l + c /\ PendingNonce \notin DOMAIN pool
      /\ \A k \in l .. PendingNonce - 1 : k \in DOMAIN pool
  BY <1>4 DEF PendingNonce
<1> QED
  BY <1>1, <1>5 DEF Reached

-----------------------------------------------------------------------------
(* The steps of a request.                                                 *)

LEMMA InitIInv == Init => IInv
<1> SUFFICES ASSUME Init
             PROVE  IInv
  OBVIOUS
<1>1. RequestsInv
  BY DEF Init, RequestsInv, Well, RequestWell, HandlerWell, DeskWell, Stages, Freshness,
         Nonces, Early, Late, Free
<1>2. AskedInv
  BY DEF Init, AskedInv
<1>3. NodeInv
  <2>1. IsFiniteSet(DOMAIN pool) /\ DOMAIN pool = {}
    BY FS_EmptySet DEF Init
  <2>2. mined \in Seq({}) /\ Len(mined) = 0 /\ DOMAIN sent = {}
    BY DEF Init
  <2> QED
    BY <2>1, <2>2 DEF NodeInv
<1>4. ReachedInv
  BY DEF Init, ReachedInv, Held, Free
<1> QED
  BY <1>1, <1>2, <1>3, <1>4 DEF IInv

\* What is known of a request whose handler runs.
LEMMA WellParts ==
  ASSUME RequestsInv, NEW r \in Requests
  PROVE  /\ HandlerWell(env, handler[r]) /\ DeskWell(env, desk[r])
         /\ Stages(sent, asked, r, client[r], handler[r], desk[r])
         /\ Freshness(sent, asked, r, client[r], handler[r])
         /\ Nonces(sent, saw[r], r, handler[r], desk[r])
         /\ r \in DOMAIN sent => Switched(env) /\ Signed(env, sent[r])
         /\ env \in Environments
         /\ DOMAIN client = Requests /\ DOMAIN handler = Requests
         /\ DOMAIN desk = Requests /\ DOMAIN saw = Requests
BY DEF RequestsInv, Well, RequestWell

\* A step that leaves the histories alone, given the parts it changes.
LEMMA QuietStep ==
  ASSUME RequestsInv, NEW r \in Requests, UNCHANGED <<env, sent, asked, saw>>,
         Only(client, client', r), Only(handler, handler', r), Only(desk, desk', r),
         HandlerWell(env, handler'[r]), DeskWell(env, desk'[r]),
         Stages(sent, asked, r, client'[r], handler'[r], desk'[r]),
         Freshness(sent, asked, r, client'[r], handler'[r]),
         Nonces(sent, saw[r], r, handler'[r], desk'[r])
  PROVE  RequestsInv'
<1>1. Well(r)'
  <2>1. r \in DOMAIN sent => Switched(env) /\ Signed(env, sent[r])
    BY WellParts
  <2> QED
    BY <2>1 DEF Well, RequestWell
<1>2. Extends(sent, sent') /\ Extends(asked, asked') /\ Only(saw, saw', r)
  BY DEF Extends, Only
<1> QED
  BY <1>1, <1>2, OneRequest

\* The client is told, or has given up.
LEMMA ReturnKeeps ==
  ASSUME RequestsInv, NEW r \in Requests, Running(r), NEW answer,
         Return(r, answer), answer # "idle",
         answer = "dry" => r \in DOMAIN asked /\ Fresh(asked[r]),
         UNCHANGED <<env, sent, asked, saw>>,
         desk' = desk \/ desk' = [desk EXCEPT ![r] = Free]
  PROVE  RequestsInv'
<1>1. /\ Only(client, client', r) /\ Only(handler, handler', r) /\ Only(desk, desk', r)
      /\ handler'[r] = [at |-> "done"] /\ client'[r] \in {client[r], answer}
      /\ desk'[r] = desk[r] \/ desk'[r] = Free
  BY WellParts DEF Only, Return
<1>2. client[r] # "idle"
  BY WellParts DEF Stages, Running
<1>3. HandlerWell(env, handler'[r]) /\ DeskWell(env, desk'[r])
  BY <1>1, WellParts DEF HandlerWell, DeskWell, Early, Late, Free
<1>4. Stages(sent, asked, r, client'[r], handler'[r], desk'[r])
  BY <1>1, <1>2, WellParts DEF Stages, Early
<1>5. Freshness(sent, asked, r, client'[r], handler'[r])
  BY <1>1, WellParts DEF Freshness, Early, Late
<1>6. Nonces(sent, saw[r], r, handler'[r], desk'[r])
  BY <1>1, WellParts DEF Nonces, Free
<1> QED
  BY <1>1, <1>3, <1>4, <1>5, <1>6, QuietStep

\* The handler goes on to its next await.
LEMMA Advances ==
  ASSUME RequestsInv, NEW r \in Requests, NEW x,
         handler' = [handler EXCEPT ![r].at = x]
  PROVE  /\ Only(handler, handler', r)
         /\ handler'[r].at = x /\ DOMAIN handler'[r] = DOMAIN handler[r]
         /\ "plan" \in DOMAIN handler[r] => handler'[r].plan = handler[r].plan
         /\ "nonce" \in DOMAIN handler[r] => handler'[r].nonce = handler[r].nonce
         /\ "raw" \in DOMAIN handler[r] => handler'[r].raw = handler[r].raw
<1>1. r \in DOMAIN handler /\ "at" \in DOMAIN handler[r]
  BY WellParts DEF HandlerWell
<1> QED
  BY <1>1 DEF Only

\* Before the simulation nothing has to be shown.
LEMMA EarlyKeeps ==
  ASSUME RequestsInv, NEW r \in Requests,
         CheckChain(r) \/ CheckFresh(r) \/ LatestUnknown(r)
  PROVE  RequestsInv'
<1>1. PICK x \in Early : handler' = [handler EXCEPT ![r].at = x]
  BY DEF CheckChain, CheckFresh, LatestUnknown, Early
<1>2. UNCHANGED <<env, client, desk, sent, saw, asked>> /\ handler[r].at \in Early
  BY DEF CheckChain, CheckFresh, LatestUnknown, Early
<1>3. /\ Only(client, client', r) /\ Only(handler, handler', r) /\ Only(desk, desk', r)
      /\ "plan" \in DOMAIN handler'[r] /\ handler'[r].plan = handler[r].plan
      /\ handler'[r].at \in Early /\ "at" \in DOMAIN handler'[r]
      /\ client'[r] = client[r] /\ desk'[r] = desk[r]
  BY <1>1, <1>2, Advances, WellParts DEF Only, HandlerWell
<1>4. HandlerWell(env, handler'[r])
  BY <1>2, <1>3, WellParts DEF HandlerWell, Early, Late
<1>5. Stages(sent, asked, r, client'[r], handler'[r], desk'[r])
  BY <1>2, <1>3, WellParts DEF Stages, Early
<1>6. Freshness(sent, asked, r, client'[r], handler'[r])
  BY <1>2, <1>3, WellParts DEF Freshness, Early, Late
<1>7. Nonces(sent, saw[r], r, handler'[r], desk'[r])
  BY <1>2, <1>3, WellParts DEF Nonces, Early
<1>8. DeskWell(env, desk'[r])
  BY <1>3, WellParts
<1> QED
  BY <1>2, <1>3, <1>4, <1>5, <1>6, <1>7, <1>8, QuietStep

\* A simulation that passes in a later block shows the plan fresh when it was
\* posted: it has not been executed since, and its target is ahead.
LEMMA SimulationShows ==
  ASSUME RequestsInv, AskedInv, NEW r \in Requests,
         handler[r].at = "simulate", Simulated(r)
  PROVE  /\ r \in DOMAIN asked /\ Fresh(asked[r])
         /\ env.EXECUTOR_OWNER_ADDRESS = Owner /\ env.EXECUTOR_ADDRESS = Executor
<1>1. /\ r \in DOMAIN asked /\ handler[r].plan \in Plans
      /\ asked[r].data = handler[r].plan.data
  BY WellParts DEF Freshness, HandlerWell, Early
<1>2. /\ TargetBlock[handler[r].plan.data] \in Nat
      /\ latest + 1 <= TargetBlock[handler[r].plan.data]
      /\ handler[r].plan.data \notin Executed
  BY <1>1, SubmissionAssumption DEF Simulated, Executable, Calldata
<1>3. /\ asked[r].block \in Nat /\ asked[r].block <= latest /\ latest \in Nat
      /\ asked[r].executed \subseteq Executed
  BY <1>1 DEF AskedInv
<1>4. Fresh(asked[r])
  BY <1>1, <1>2, <1>3 DEF Fresh
<1> QED
  BY <1>1, <1>4 DEF Simulated, Executable

LEMMA SimulateKeeps ==
  ASSUME RequestsInv, AskedInv, NEW r \in Requests, Simulate(r)
  PROVE  RequestsInv'
<1>1. /\ handler[r].at = "simulate" /\ Simulated(r)
      /\ UNCHANGED <<env, desk, sent, saw, asked>>
  BY DEF Simulate
<1>2. /\ r \in DOMAIN asked /\ Fresh(asked[r])
      /\ env.EXECUTOR_OWNER_ADDRESS = Owner /\ env.EXECUTOR_ADDRESS = Executor
  BY <1>1, SimulationShows
<1>3. CASE Return(r, "dry")
  BY <1>1, <1>2, <1>3, ReturnKeeps DEF Running
<1>4. CASE /\ ~env.DRY_RUN /\ Armed(handler[r].plan)
           /\ handler' = [handler EXCEPT ![r].at = "nonce"]
           /\ UNCHANGED client
  <2>1. Switched(env)
    BY <1>2, <1>4 DEF Switched, Armed
  <2>2. /\ Only(client, client', r) /\ Only(handler, handler', r) /\ Only(desk, desk', r)
        /\ "plan" \in DOMAIN handler'[r] /\ handler'[r].plan = handler[r].plan
        /\ handler'[r].at = "nonce" /\ "at" \in DOMAIN handler'[r]
        /\ client'[r] = client[r] /\ desk'[r] = desk[r]
    BY <1>1, <1>4, Advances, WellParts DEF Only, HandlerWell, Early
  <2>3. HandlerWell(env, handler'[r])
    BY <1>1, <2>1, <2>2, WellParts DEF HandlerWell, Early, Late
  <2>4. Stages(sent, asked, r, client'[r], handler'[r], desk'[r])
    BY <1>1, <2>2, WellParts DEF Stages, Early
  <2>5. Freshness(sent, asked, r, client'[r], handler'[r])
    BY <1>1, <1>2, <2>2, WellParts DEF Freshness, Early, Late
  <2>6. Nonces(sent, saw[r], r, handler'[r], desk'[r])
    BY <1>1, <2>2, WellParts DEF Nonces
  <2>7. DeskWell(env, desk'[r])
    BY <2>2, WellParts
  <2> QED
    BY <1>1, <2>2, <2>3, <2>4, <2>5, <2>6, <2>7, QuietStep
<1> QED
  BY <1>3, <1>4 DEF Simulate

\* A request is posted once, so nothing of an earlier one is left.
LEMMA SubmitKeeps ==
  ASSUME RequestsInv, NEW r \in Requests, NEW p \in Plans, Submit(r, p)
  PROVE  RequestsInv'
<1>1. /\ client[r] = "idle" /\ handler[r].at = "idle" /\ r \notin DOMAIN asked
      /\ desk[r] = Free /\ r \notin DOMAIN sent
  BY WellParts DEF Submit, Stages
<1>2. /\ client'[r] = "waiting" /\ handler'[r] = [at |-> "chain", plan |-> p]
      /\ UNCHANGED <<env, desk, sent, saw>>
      /\ DOMAIN asked' = DOMAIN asked \cup {r} /\ asked'[r].data = p.data
      /\ \A s \in DOMAIN asked : s # r => asked'[s] = asked[s]
      /\ Only(client, client', r) /\ Only(handler, handler', r)
  BY WellParts DEF Submit, Only
<1>3. Only(desk, desk', r) /\ Only(saw, saw', r) /\ Extends(sent, sent')
      /\ Extends(asked, asked')
  BY <1>1, <1>2 DEF Only, Extends
<1>4. HandlerWell(env, handler'[r]) /\ DeskWell(env, desk'[r])
  BY <1>2, WellParts DEF HandlerWell, Early, Late
<1>5. Stages(sent', asked', r, client'[r], handler'[r], desk'[r])
  BY <1>1, <1>2 DEF Stages, Early
<1>6. Freshness(sent', asked', r, client'[r], handler'[r])
  BY <1>1, <1>2 DEF Freshness, Early, Late
<1>7. Nonces(sent', saw'[r], r, handler'[r], desk'[r])
  BY <1>1, <1>2, WellParts DEF Nonces, Free
<1>8. Well(r)'
  BY <1>1, <1>2, <1>4, <1>5, <1>6, <1>7 DEF Well, RequestWell
<1> QED
  BY <1>2, <1>3, <1>8, OneRequest

LEMMA ClientKeeps ==
  ASSUME RequestsInv, NEW r \in Requests, GiveUp(r) \/ Record(r)
  PROVE  RequestsInv'
<1>1. /\ client[r] # "idle" /\ client'[r] \notin {"idle", "dry"}
      /\ Only(client, client', r)
      /\ UNCHANGED <<env, handler, desk, sent, saw, asked>>
  BY WellParts DEF GiveUp, Record, Only
<1>2. Only(handler, handler', r) /\ Only(desk, desk', r)
  BY <1>1 DEF Only
<1>3. Stages(sent, asked, r, client'[r], handler'[r], desk'[r])
  BY <1>1, WellParts DEF Stages
<1>4. Freshness(sent, asked, r, client'[r], handler'[r])
  BY <1>1, WellParts DEF Freshness
<1>5. /\ HandlerWell(env, handler'[r]) /\ DeskWell(env, desk'[r])
      /\ Nonces(sent, saw[r], r, handler'[r], desk'[r])
  BY <1>1, WellParts
<1> QED
  BY <1>1, <1>2, <1>3, <1>4, <1>5, QuietStep

LEMMA FailsKeeps ==
  ASSUME RequestsInv, NEW r \in Requests, Fails(r)
  PROVE  RequestsInv'
BY ReturnKeeps DEF Fails

LEMMA AcceptedKeeps ==
  ASSUME RequestsInv, NEW r \in Requests, Accepted(r)
  PROVE  RequestsInv'
BY ReturnKeeps DEF Accepted, Running

LEMMA DroppedKeeps ==
  ASSUME RequestsInv, NEW r \in Requests, Dropped(r)
  PROVE  RequestsInv'
<1>1. /\ client[r] = "failed" /\ handler'[r] = [at |-> "done"]
      /\ Only(handler, handler', r)
      /\ UNCHANGED <<env, client, desk, sent, saw, asked>>
  BY WellParts DEF Dropped, Only
<1>2. Only(client, client', r) /\ Only(desk, desk', r)
  BY <1>1 DEF Only
<1>3. HandlerWell(env, handler'[r]) /\ DeskWell(env, desk'[r])
  BY <1>1, WellParts DEF HandlerWell, Early, Late
<1>4. Stages(sent, asked, r, client'[r], handler'[r], desk'[r])
  BY <1>1, WellParts DEF Stages, Early
<1>5. Freshness(sent, asked, r, client'[r], handler'[r])
  BY <1>1, WellParts DEF Freshness, Early, Late
<1>6. Nonces(sent, saw[r], r, handler'[r], desk'[r])
  BY <1>1, WellParts DEF Nonces
<1> QED
  BY <1>1, <1>2, <1>3, <1>4, <1>5, <1>6, QuietStep

\* The nonce that is read was taken by none of the requests sent so far.
LEMMA ReadNonceKeeps ==
  ASSUME RequestsInv, NodeInv, NEW r \in Requests, ReadNonce(r)
  PROVE  RequestsInv'
<1> DEFINE n == PendingNonce
<1>1. Untaken(sent, DOMAIN sent, n)
  <2>1. n \in Nat /\ n >= Len(mined) /\ n \notin DOMAIN pool /\ Len(mined) \in Nat
    BY PendingNonceIsFree DEF NodeInv
  <2> HIDE DEF n
  <2>2. ASSUME NEW s \in DOMAIN sent
        PROVE  sent[s].nonce # n
    BY <2>1 DEF NodeInv
  <2> QED
    BY <2>1, <2>2 DEF Untaken
<1>2. /\ handler[r].at = "nonce" /\ saw'[r] = DOMAIN sent
      /\ handler'[r] = [at |-> "fees", plan |-> handler[r].plan, nonce |-> n]
      /\ Only(handler, handler', r) /\ Only(saw, saw', r)
      /\ UNCHANGED <<env, client, desk, sent, asked>>
  BY WellParts DEF ReadNonce, Only
<1> HIDE DEF n
<1>3. /\ Only(client, client', r) /\ Only(desk, desk', r)
      /\ Extends(sent, sent') /\ Extends(asked, asked')
  BY <1>2 DEF Only, Extends
<1>4. HandlerWell(env, handler'[r]) /\ DeskWell(env, desk'[r])
  BY <1>2, WellParts DEF HandlerWell, Early, Late
<1>5. Stages(sent, asked, r, client'[r], handler'[r], desk'[r])
  BY <1>2, WellParts DEF Stages, Early
<1>6. Freshness(sent, asked, r, client'[r], handler'[r])
  BY <1>2, WellParts DEF Freshness, Early, Late
<1>7. Nonces(sent, saw'[r], r, handler'[r], desk'[r])
  <2>1. desk[r] = Free /\ r \notin DOMAIN sent
    BY <1>2, WellParts DEF Stages
  <2> QED
    BY <1>1, <1>2, <2>1 DEF Nonces, Free
<1>8. Well(r)'
  BY <1>2, <1>4, <1>5, <1>6, <1>7, WellParts DEF Well, RequestWell
<1> QED
  BY <1>2, <1>3, <1>8, OneRequest

LEMMA AskSignerKeeps ==
  ASSUME RequestsInv, NEW r \in Requests, AskSigner(r)
  PROVE  RequestsInv'
<1>1. PICK fee \in Fees :
        desk' = [desk EXCEPT ![r] = [at |-> "received", tx |-> SignRequest(r, fee)]]
  BY DEF AskSigner
<1> DEFINE tx == SignRequest(r, fee)
<1>2. /\ handler[r].at = "fees" /\ Switched(env) /\ handler[r].plan \in Plans
      /\ Untaken(sent, saw[r], handler[r].nonce)
      /\ r \in DOMAIN asked /\ Fresh(asked[r]) /\ r \notin DOMAIN sent
      /\ client[r] # "idle"
  BY WellParts DEF AskSigner, HandlerWell, Nonces, Freshness, Stages, Late
<1>3. tx.from = Owner /\ Calls(tx) /\ tx.nonce = handler[r].nonce
  BY <1>2 DEF SignRequest, Calls, Switched, Calldata
<1> HIDE DEF tx
<1>4. /\ desk'[r] = [at |-> "received", tx |-> tx]
      /\ Only(handler, handler', r) /\ Only(desk, desk', r)
      /\ handler'[r].at = "signing" /\ "at" \in DOMAIN handler'[r]
      /\ UNCHANGED <<env, client, sent, saw, asked>>
  BY <1>1, Advances, WellParts DEF AskSigner, Only, HandlerWell, tx
<1>5. Only(client, client', r)
  BY <1>4 DEF Only
<1>6. HandlerWell(env, handler'[r])
  BY <1>2, <1>4 DEF HandlerWell, Early
<1>7. DeskWell(env, desk'[r])
  BY <1>3, <1>4 DEF DeskWell
<1>8. Stages(sent, asked, r, client'[r], handler'[r], desk'[r])
  BY <1>2, <1>4 DEF Stages, Early
<1>9. Freshness(sent, asked, r, client'[r], handler'[r])
  BY <1>2, <1>4 DEF Freshness, Early
<1>10. Nonces(sent, saw[r], r, handler'[r], desk'[r])
  BY <1>2, <1>3, <1>4, WellParts DEF Nonces
<1> QED
  BY <1>4, <1>5, <1>6, <1>7, <1>8, <1>9, <1>10, QuietStep

\* The signature taken is the one the gateway verified.
LEMMA TakeSignatureKeeps ==
  ASSUME RequestsInv, NEW r \in Requests, TakeSignature(r)
  PROVE  RequestsInv'
<1>1. /\ handler[r].at = "signing" /\ desk' = [desk EXCEPT ![r] = Free]
      /\ UNCHANGED <<env, sent, saw, asked>>
  BY DEF TakeSignature
<1>2. CASE Return(r, "failed")
  BY <1>1, <1>2, ReturnKeeps DEF Running
<1>3. CASE /\ desk[r].at = "signed"
           /\ handler' = [handler EXCEPT ![r] = [at |-> "send", raw |-> desk[r].raw]]
           /\ UNCHANGED client
  <2>1. /\ Switched(env) /\ Signed(env, desk[r].raw)
        /\ Untaken(sent, saw[r], desk[r].raw.nonce)
        /\ r \in DOMAIN asked /\ Fresh(asked[r]) /\ r \notin DOMAIN sent
        /\ client[r] # "idle" /\ saw[r] \subseteq DOMAIN sent
    BY <1>1, <1>3, WellParts DEF HandlerWell, DeskWell, Nonces, Freshness, Stages, Late
  <2>2. /\ handler'[r] = [at |-> "send", raw |-> desk[r].raw] /\ desk'[r] = Free
        /\ client'[r] = client[r]
        /\ Only(client, client', r) /\ Only(handler, handler', r) /\ Only(desk, desk', r)
    BY <1>1, <1>3, WellParts DEF Only
  <2>3. HandlerWell(env, handler'[r]) /\ DeskWell(env, desk'[r])
    BY <2>1, <2>2 DEF HandlerWell, DeskWell, Early, Free
  <2>4. Stages(sent, asked, r, client'[r], handler'[r], desk'[r])
    BY <2>1, <2>2 DEF Stages
  <2>5. Freshness(sent, asked, r, client'[r], handler'[r])
    BY <2>1, <2>2 DEF Freshness, Early
  <2>6. Nonces(sent, saw[r], r, handler'[r], desk'[r])
    BY <2>1, <2>2 DEF Nonces, Free
  <2> QED
    BY <1>1, <2>2, <2>3, <2>4, <2>5, <2>6, QuietStep
<1> QED
  BY <1>2, <1>3 DEF TakeSignature

LEMMA SendKeeps ==
  ASSUME RequestsInv, NEW r \in Requests, Send(r)
  PROVE  RequestsInv'
<1> DEFINE raw == handler[r].raw
<1>1. /\ handler[r].at = "send" /\ Switched(env) /\ Signed(env, raw)
      /\ "raw" \in DOMAIN handler[r]
      /\ Untaken(sent, saw[r], raw.nonce)
      /\ r \in DOMAIN asked /\ Fresh(asked[r]) /\ r \notin DOMAIN sent
      /\ client[r] # "idle" /\ saw[r] \subseteq DOMAIN sent
  BY WellParts DEF Send, HandlerWell, Nonces, Freshness, Stages, Late
<1>2. /\ DOMAIN sent' = DOMAIN sent \cup {r} /\ sent'[r] = raw
      /\ \A s \in DOMAIN sent : s # r => sent'[s] = sent[s]
  BY DEF Send
<1> HIDE DEF raw
<1>3. /\ Only(handler, handler', r)
      /\ handler'[r].at = "sent" /\ "at" \in DOMAIN handler'[r]
      /\ "raw" \in DOMAIN handler'[r] /\ handler'[r].raw = raw
      /\ UNCHANGED <<env, client, desk, saw, asked>>
  BY <1>1, Advances, WellParts DEF Send, HandlerWell, raw
<1>4. /\ Only(client, client', r) /\ Only(desk, desk', r) /\ Only(saw, saw', r)
      /\ Extends(sent, sent') /\ Extends(asked, asked')
  BY <1>1, <1>2, <1>3 DEF Only, Extends
<1>5. HandlerWell(env, handler'[r]) /\ DeskWell(env, desk'[r])
  BY <1>1, <1>3, WellParts DEF HandlerWell, Early
<1>6. Stages(sent', asked, r, client'[r], handler'[r], desk'[r])
  BY <1>1, <1>3 DEF Stages, Early
<1>7. Freshness(sent', asked, r, client'[r], handler'[r])
  BY <1>1, <1>3 DEF Freshness, Early
<1>8. Nonces(sent', saw[r], r, handler'[r], desk'[r])
  <2>1. Nonces(sent, saw[r], r, handler[r], desk[r])
    BY WellParts
  <2>2. Untaken(sent', saw[r], sent'[r].nonce)
    BY <1>1, <1>2, <1>4, UntakenStays
  <2> QED
    BY <1>1, <1>2, <1>3, <1>4, <2>1, <2>2, UntakenStays DEF Nonces
<1>9. Well(r)'
  BY <1>1, <1>2, <1>3, <1>5, <1>6, <1>7, <1>8 DEF Well, RequestWell
<1> QED
  BY <1>2, <1>3, <1>4, <1>9, OneRequest

\* The gateway asks Clef only for what its policy allows, and passes on only
\* what it asked for.
LEMMA GatewayKeeps ==
  ASSUME RequestsInv, NEW r \in Requests, Gateway(r)
  PROVE  RequestsInv'
<1> DEFINE tx == desk[r].tx
<1>1. /\ UNCHANGED <<env, client, handler, sent, saw, asked>>
      /\ Only(client, client', r) /\ Only(handler, handler', r)
      /\ Only(desk, desk', r)
  BY WellParts DEF Gateway, Admit, ClefSigns, Refuse, Unclaimed, Only
<1>2. desk[r] # Free
  BY DEF Gateway, Admit, ClefSigns, Refuse, ClefBounded, Unclaimed, Free
<1>3. Stages(sent, asked, r, client'[r], handler'[r], desk'[r])
  BY <1>1, <1>2, WellParts DEF Stages
<1>4. /\ HandlerWell(env, handler'[r])
      /\ Freshness(sent, asked, r, client'[r], handler'[r])
  BY <1>1, WellParts
<1>5. DeskWell(env, desk'[r]) /\ Nonces(sent, saw[r], r, handler'[r], desk'[r])
  <2>1. CASE Admit(r)
    <3>1. /\ desk[r].at = "received" /\ "tx" \in DOMAIN desk[r] /\ "at" \in DOMAIN desk[r]
          /\ tx.from = Owner /\ Calls(tx) /\ Untaken(sent, saw[r], tx.nonce)
      BY <2>1, WellParts DEF Admit, DeskWell, Nonces
    <3>2. /\ desk'[r].at = "clef" /\ desk'[r].tx = tx
          /\ "tx" \in DOMAIN desk'[r] /\ "at" \in DOMAIN desk'[r]
      BY <2>1, <3>1, WellParts DEF Admit
    <3>3. Within(env, tx)
      <4>1. validate_execution(tx, env.policy)
        BY <2>1 DEF Admit, Admissible
      <4>2. env.policy.max_gas \in Nat /\ env.policy.max_fee_per_gas_wei \in Nat
        BY WellParts, SubmissionAssumption
      <4> HIDE DEF tx
      <4> QED
        BY <4>1, <4>2 DEF validate_execution, validate_common, Within
    <3> HIDE DEF tx
    <3>4. DeskWell(env, desk'[r])
      BY <3>1, <3>2, <3>3 DEF DeskWell
    <3> QED
      BY <1>1, <3>1, <3>2, <3>4, WellParts DEF Nonces
  <2>2. CASE ClefSigns(r)
    <3>1. PICK raw : /\ verify_signed_transaction(raw, tx)
                     /\ desk' = [desk EXCEPT ![r] = [at |-> "signed", raw |-> raw]]
      BY <2>2 DEF ClefSigns
    <3>2. /\ tx.from = Owner /\ Calls(tx) /\ Within(env, tx)
          /\ Untaken(sent, saw[r], tx.nonce)
      BY <2>2, WellParts DEF ClefSigns, DeskWell, Nonces
    <3>3. desk'[r] = [at |-> "signed", raw |-> raw]
      BY <3>1, WellParts
    <3> HIDE DEF tx
    <3>4. /\ raw.signer = tx.from /\ raw.to = tx.to /\ raw.value = tx.value
          /\ raw.data = tx.data /\ raw.nonce = tx.nonce /\ raw.gas = tx.gas
          /\ raw.max_fee_per_gas = tx.max_fee_per_gas
      BY <3>1 DEF verify_signed_transaction, SignedFields
    <3>5. Signed(env, raw) /\ Untaken(sent, saw[r], raw.nonce)
      BY <3>2, <3>4 DEF Signed, Calls, Within
    <3>6. DeskWell(env, desk'[r])
      BY <3>3, <3>5 DEF DeskWell
    <3> QED
      BY <1>1, <3>3, <3>5, <3>6, WellParts DEF Nonces
  <2>3. CASE Refuse(r) \/ Unclaimed(r)
    <3>1. desk'[r] \in {Free, [at |-> "refused"]}
      BY <2>3, WellParts DEF Refuse, Unclaimed
    <3> QED
      BY <1>1, <3>1, WellParts DEF DeskWell, Nonces, Free
  <2> QED
    BY <2>1, <2>2, <2>3 DEF Gateway
<1> QED
  BY <1>1, <1>3, <1>4, <1>5, QuietStep

-----------------------------------------------------------------------------
(* The chain.                                                              *)

LEMMA NodeKeepsRequests ==
  ASSUME RequestsInv, UNCHANGED <<env, client, handler, desk, sent, saw, asked>>
  PROVE  RequestsInv'
BY DEF RequestsInv, Well

\* Only Mine, NewBlock and Submit touch what AskedInv is about.
LEMMA AskedInvKept ==
  ASSUME AskedInv, NodeInv, [Next]_vars
  PROVE  AskedInv'
<1>1. CASE NewBlock
  BY <1>1 DEF NewBlock, AskedInv, Executed
<1>2. CASE Mine
  <2>1. latest' = latest + 1 /\ asked' = asked
    BY <1>2 DEF Mine
  <2>2. Executed \subseteq Executed'
    <3>1. PICK m : mined' = Append(mined, m)
      BY <1>2 DEF Mine
    <3>2. PICK S : mined \in Seq(S)
      BY DEF NodeInv
    <3>3. DOMAIN mined \subseteq DOMAIN mined' /\ \A i \in DOMAIN mined : mined'[i] = mined[i]
      BY <3>1, <3>2
    <3> QED
      BY <3>3 DEF Executed
  <2> QED
    BY <2>1, <2>2 DEF AskedInv
<1>3. ASSUME NEW r \in Requests, NEW p \in Plans, Submit(r, p)
      PROVE  AskedInv'
  BY <1>3 DEF Submit, AskedInv, Executed
<1>4. CASE UNCHANGED <<latest, asked, mined>>
  BY <1>4 DEF AskedInv, Executed
<1> QED
  BY <1>1, <1>2, <1>3, <1>4 DEF Next, Handler, Gateway, GiveUp, Record, Dropped, CheckChain,
     CheckFresh, LatestUnknown, Simulate, ReadNonce, AskSigner, TakeSignature, Send, Accepted,
     Fails, Admit, ClefSigns, Refuse, Unclaimed, vars

\* What is broadcast enters the pool, perhaps in place of an equal nonce.
LEMMA SendKeepsNode ==
  ASSUME RequestsInv, NodeInv, NEW r \in Requests, Send(r)
  PROVE  NodeInv'
<1> DEFINE raw == handler[r].raw
<1>1. r \notin DOMAIN sent /\ raw.nonce \in Nat
  BY WellParts DEF Send, Stages, Nonces, Untaken
<1>2. /\ DOMAIN sent' = DOMAIN sent \cup {r} /\ sent'[r] = raw
      /\ \A s \in DOMAIN sent : sent'[s] = sent[s]
      /\ DOMAIN pool' = DOMAIN pool \cup {raw.nonce} /\ pool'[raw.nonce] = raw
      /\ \A n \in DOMAIN pool : n # raw.nonce => pool'[n] = pool[n]
      /\ mined' = mined
  BY <1>1 DEF Send
<1> HIDE DEF raw
<1>3. IsFiniteSet(DOMAIN pool')
  <2>1. IsFiniteSet(DOMAIN pool) /\ DOMAIN pool' = DOMAIN pool \cup {raw.nonce}
    BY <1>2 DEF NodeInv
  <2> QED
    BY <2>1, FS_AddElement
<1>4. ASSUME NEW n \in DOMAIN pool'
      PROVE  n \in Nat /\ \E s \in DOMAIN sent' : pool'[n] = sent'[s] /\ sent'[s].nonce = n
  BY <1>1, <1>2 DEF NodeInv
<1>5. ASSUME NEW i \in 1 .. Len(mined')
      PROVE  \E s \in DOMAIN sent' : mined'[i].raw = sent'[s] /\ sent'[s].nonce = i - 1
  BY <1>2 DEF NodeInv
<1>6. ASSUME NEW s \in DOMAIN sent'
      PROVE  /\ sent'[s].nonce \in Nat
             /\ sent'[s].nonce < Len(mined') \/ sent'[s].nonce \in DOMAIN pool'
  BY <1>1, <1>2 DEF NodeInv
<1> QED
  BY <1>2, <1>3, <1>4, <1>5, <1>6 DEF NodeInv

\* A pooled transaction with the account's next nonce is mined.
LEMMA MineKeepsNode ==
  ASSUME NodeInv, Mine
  PROVE  NodeInv'
<1> DEFINE n == Len(mined)
<1>1. PICK S : mined \in Seq(S)
  BY DEF NodeInv
<1>2. PICK m : mined' = Append(mined, m) /\ m.raw = pool[n]
  BY DEF Mine
<1>3. /\ n \in DOMAIN pool /\ n \in Nat
      /\ DOMAIN pool' = DOMAIN pool \ {n}
      /\ \A k \in DOMAIN pool' : pool'[k] = pool[k]
      /\ sent' = sent
  BY <1>1 DEF Mine
<1>4. /\ mined' \in Seq(S \cup {m}) /\ Len(mined') = n + 1 /\ mined'[n + 1] = m
      /\ \A i \in 1 .. n : mined'[i] = mined[i]
  <2>1. mined \in Seq(S \cup {m})
    BY <1>1
  <2> QED
    BY <1>2, <2>1
<1>5. IsFiniteSet(DOMAIN pool')
  BY <1>3, FS_RemoveElement DEF NodeInv
<1> HIDE DEF n
<1>6. ASSUME NEW i \in 1 .. Len(mined')
      PROVE  \E s \in DOMAIN sent : mined'[i].raw = sent[s] /\ sent[s].nonce = i - 1
  <2>1. CASE i = n + 1
    <3>1. i - 1 = n /\ mined'[i].raw = pool[n]
      BY <1>2, <1>3, <1>4, <2>1
    <3> QED
      BY <1>3, <3>1 DEF NodeInv
  <2>2. CASE i # n + 1
    <3>1. i \in 1 .. Len(mined) /\ mined'[i] = mined[i]
      BY <1>3, <1>4, <2>2 DEF n
    <3> QED
      BY <3>1 DEF NodeInv
  <2> QED
    BY <2>1, <2>2
<1>7. ASSUME NEW s \in DOMAIN sent
      PROVE  sent[s].nonce \in Nat /\ (sent[s].nonce < Len(mined') \/ sent[s].nonce \in DOMAIN pool')
  <2>1. sent[s].nonce \in Nat /\ (sent[s].nonce < n \/ sent[s].nonce \in DOMAIN pool)
    BY DEF NodeInv, n
  <2> QED
    BY <1>3, <1>4, <2>1
<1>8. ASSUME NEW k \in DOMAIN pool'
      PROVE  k \in Nat /\ \E s \in DOMAIN sent : pool'[k] = sent[s] /\ sent[s].nonce = k
  BY <1>3 DEF NodeInv
<1> QED
  BY <1>3, <1>4, <1>5, <1>6, <1>7, <1>8 DEF NodeInv

-----------------------------------------------------------------------------
(* No gap.                                                                 *)

\* A transaction leaves the pool only to be mined.
Grows(m, p, mm, pp) ==
  /\ Len(m) \in Nat /\ Len(mm) \in Nat /\ Len(m) <= Len(mm)
  /\ \A k \in DOMAIN p : k < Len(mm) \/ k \in DOMAIN pp

LEMMA ReachedStays ==
  ASSUME NEW m, NEW p, NEW mm, NEW pp, NEW n, Grows(m, p, mm, pp), Reached(m, p, n)
  PROVE  Reached(mm, pp, n)
<1>1. ASSUME NEW k \in Len(mm) .. n - 1
      PROVE  k \in DOMAIN pp
  <2>1. k \in Len(m) .. n - 1 /\ ~(k < Len(mm))
    BY DEF Grows, Reached
  <2> QED
    BY <2>1 DEF Grows, Reached
<1> QED
  BY <1>1 DEF Reached

LEMMA HeldStays ==
  ASSUME NEW m, NEW p, NEW mm, NEW pp, NEW h, NEW d, Grows(m, p, mm, pp), Held(m, p, h, d)
  PROVE  Held(mm, pp, h, d)
BY ReachedStays DEF Held

\* One request takes a step, and what it adds to the pool was reached.
LEMMA OneHolder ==
  ASSUME RequestsInv, ReachedInv, NEW r \in Requests, Grows(mined, pool, mined', pool'),
         Only(handler, handler', r), Only(desk, desk', r),
         Held(mined', pool', handler'[r], desk'[r]),
         \A n \in DOMAIN pool' \ DOMAIN pool : Reached(mined', pool', n)
  PROVE  ReachedInv'
<1>1. ASSUME NEW s \in Requests, s # r
      PROVE  Held(mined', pool', handler'[s], desk'[s])
  <2>1. handler'[s] = handler[s] /\ desk'[s] = desk[s]
    BY <1>1 DEF Only, RequestsInv
  <2>2. Held(mined, pool, handler[s], desk[s])
    BY DEF ReachedInv
  <2> QED
    BY <2>1, <2>2, HeldStays
<1>2. ASSUME NEW n \in DOMAIN pool'
      PROVE  Reached(mined', pool', n)
  <2>1. CASE n \in DOMAIN pool
    BY <2>1, ReachedStays DEF ReachedInv
  <2> QED
    BY <2>1
<1> QED
  BY <1>1, <1>2 DEF ReachedInv

LEMMA MineGrows ==
  ASSUME NodeInv, Mine
  PROVE  Grows(mined, pool, mined', pool')
<1>1. PICK S : mined \in Seq(S)
  BY DEF NodeInv
<1>2. PICK m : mined' = Append(mined, m)
  BY DEF Mine
<1>3. Len(mined) \in Nat /\ Len(mined') = Len(mined) + 1
  BY <1>1, <1>2
<1>4. DOMAIN pool' = DOMAIN pool \ {Len(mined)}
  BY DEF Mine
<1> QED
  BY <1>3, <1>4 DEF Grows

\* A nonce is passed on unchanged from where it is read to where it is sent.
LEMMA HolderKeeps ==
  ASSUME RequestsInv, NodeInv, ReachedInv, NEW r \in Requests,
         ReadNonce(r) \/ AskSigner(r) \/ TakeSignature(r) \/ Send(r) \/ Gateway(r)
  PROVE  ReachedInv'
<1>1. Held(mined, pool, handler[r], desk[r])
  BY DEF ReachedInv
<1>2. Len(mined) \in Nat
  BY DEF NodeInv
<1>3. CASE ReadNonce(r)
  <2>1. /\ handler'[r] = [at |-> "fees", plan |-> handler[r].plan, nonce |-> PendingNonce]
        /\ desk'[r] = Free /\ Only(handler, handler', r) /\ Only(desk, desk', r)
        /\ UNCHANGED <<pool, mined>>
    BY <1>3, WellParts DEF ReadNonce, Only, Stages
  <2>2. Reached(mined, pool, PendingNonce)
    BY PendingNonceIsFree
  <2>3. Held(mined, pool, handler'[r], desk'[r])
    BY <2>1, <2>2 DEF Held, Free
  <2>4. Grows(mined, pool, mined', pool')
    BY <1>2, <2>1 DEF Grows
  <2> QED
    BY <2>1, <2>3, <2>4, OneHolder
<1>4. CASE AskSigner(r)
  <2>1. PICK fee \in Fees :
          desk' = [desk EXCEPT ![r] = [at |-> "received", tx |-> SignRequest(r, fee)]]
    BY <1>4 DEF AskSigner
  <2>2. SignRequest(r, fee).nonce = handler[r].nonce /\ handler[r].at = "fees"
    BY <1>4 DEF SignRequest, AskSigner
  <2>3. /\ desk'[r].at = "received" /\ desk'[r].tx.nonce = handler[r].nonce
        /\ handler'[r].at = "signing"
        /\ Only(handler, handler', r) /\ Only(desk, desk', r)
        /\ UNCHANGED <<pool, mined>>
    BY <1>4, <2>1, <2>2, Advances, WellParts DEF AskSigner, Only
  <2>4. Held(mined, pool, handler'[r], desk'[r])
    BY <1>1, <2>2, <2>3 DEF Held
  <2>5. Grows(mined, pool, mined', pool')
    BY <1>2, <2>3 DEF Grows
  <2> QED
    BY <2>3, <2>4, <2>5, OneHolder
<1>5. CASE TakeSignature(r)
  <2>1. /\ desk'[r] = Free /\ Only(handler, handler', r) /\ Only(desk, desk', r)
        /\ UNCHANGED <<pool, mined>>
        /\ \/ handler'[r] = [at |-> "done"]
           \/ desk[r].at = "signed" /\ handler'[r] = [at |-> "send", raw |-> desk[r].raw]
    BY <1>5, WellParts DEF TakeSignature, Return, Only
  <2>2. Held(mined, pool, handler'[r], desk'[r])
    BY <1>1, <2>1 DEF Held, Free
  <2>3. Grows(mined, pool, mined', pool')
    BY <1>2, <2>1 DEF Grows
  <2> QED
    BY <2>1, <2>2, <2>3, OneHolder
<1>6. CASE Send(r)
  <2> DEFINE n == handler[r].raw.nonce
  <2>1. /\ handler'[r].at = "sent" /\ desk' = desk /\ mined' = mined
        /\ DOMAIN pool' = DOMAIN pool \cup {n}
        /\ Only(handler, handler', r) /\ Only(desk, desk', r)
    BY <1>6, Advances, WellParts DEF Send, Only
  <2>2. Grows(mined, pool, mined', pool')
    BY <1>2, <2>1 DEF Grows
  <2>3. Reached(mined, pool, n)
    BY <1>1, <1>6 DEF Held, Send
  <2> HIDE DEF n
  <2>4. Reached(mined', pool', n)
    BY <2>2, <2>3, ReachedStays
  <2>5. Held(mined', pool', handler[r], desk[r])
    BY <1>1, <2>2, HeldStays
  <2>6. Held(mined', pool', handler'[r], desk'[r])
    BY <2>1, <2>5 DEF Held
  <2> QED
    BY <2>1, <2>2, <2>4, <2>6, OneHolder
<1>7. CASE Gateway(r)
  <2>1. /\ Only(handler, handler', r) /\ Only(desk, desk', r)
        /\ UNCHANGED <<pool, mined, handler>>
    BY <1>7, WellParts DEF Gateway, Admit, ClefSigns, Refuse, Unclaimed, Only
  <2>2. Held(mined, pool, handler'[r], desk'[r])
    <3>1. CASE Admit(r)
      <4>1. desk[r].at = "received" /\ desk'[r].at = "clef" /\ desk'[r].tx = desk[r].tx
        BY <3>1, WellParts DEF Admit, DeskWell
      <4> QED
        BY <1>1, <2>1, <4>1 DEF Held
    <3>2. CASE ClefSigns(r)
      <4>1. PICK raw : /\ verify_signed_transaction(raw, desk[r].tx)
                       /\ desk' = [desk EXCEPT ![r] = [at |-> "signed", raw |-> raw]]
        BY <3>2 DEF ClefSigns
      <4>2. raw.nonce = desk[r].tx.nonce /\ desk[r].at = "clef"
        BY <3>2, <4>1 DEF verify_signed_transaction, SignedFields, ClefSigns
      <4>3. desk'[r] = [at |-> "signed", raw |-> raw]
        BY <4>1, WellParts
      <4> QED
        BY <1>1, <2>1, <4>2, <4>3 DEF Held
    <3>3. CASE Refuse(r) \/ Unclaimed(r)
      <4>1. desk'[r] \in {Free, [at |-> "refused"]}
        BY <3>3, WellParts DEF Refuse, Unclaimed
      <4> QED
        BY <1>1, <2>1, <4>1 DEF Held, Free
    <3> QED
      BY <1>7, <3>1, <3>2, <3>3 DEF Gateway
  <2>3. Grows(mined, pool, mined', pool')
    BY <1>2, <2>1 DEF Grows
  <2> QED
    BY <2>1, <2>2, <2>3, OneHolder
<1> QED
  BY <1>3, <1>4, <1>5, <1>6, <1>7

LEMMA NextKeepsReached ==
  ASSUME RequestsInv, NodeInv, ReachedInv, [Next]_vars
  PROVE  ReachedInv'
<1>1. CASE Mine
  <2>1. UNCHANGED <<handler, desk>> /\ DOMAIN pool' \subseteq DOMAIN pool
    BY <1>1 DEF Mine
  <2> QED
    BY <1>1, <2>1, MineGrows, ReachedStays, HeldStays DEF ReachedInv
<1>2. CASE NewBlock \/ UNCHANGED vars
  BY <1>2 DEF NewBlock, vars, ReachedInv
<1>3. ASSUME NEW r \in Requests,
             ReadNonce(r) \/ AskSigner(r) \/ TakeSignature(r) \/ Send(r) \/ Gateway(r)
      PROVE  ReachedInv'
  BY <1>3, HolderKeeps
<1>4. ASSUME NEW r \in Requests, UNCHANGED <<pool, mined, desk>>,
             handler'[r].at \notin {"fees", "send"} \/ handler' = handler,
             Only(handler, handler', r)
      PROVE  ReachedInv'
  <2>1. Only(desk, desk', r) /\ Grows(mined, pool, mined', pool')
    BY <1>4 DEF Only, Grows, NodeInv
  <2>2. Held(mined, pool, handler[r], desk[r])
    BY DEF ReachedInv
  <2>3. Held(mined, pool, handler'[r], desk'[r])
    BY <1>4, <2>2 DEF Held
  <2> QED
    BY <1>4, <2>1, <2>3, OneHolder
<1>5. ASSUME NEW r \in Requests, NEW p \in Plans, Submit(r, p)
      PROVE  ReachedInv'
  <2>1. UNCHANGED <<pool, mined, desk>> /\ handler'[r].at = "chain" /\ Only(handler, handler', r)
    BY <1>5, WellParts DEF Submit, Only
  <2> QED
    BY <1>4, <2>1
<1>6. ASSUME NEW r \in Requests,
             \/ GiveUp(r) \/ Record(r) \/ Dropped(r)
             \/ CheckChain(r) \/ CheckFresh(r) \/ LatestUnknown(r) \/ Simulate(r)
             \/ Accepted(r) \/ Fails(r)
      PROVE  ReachedInv'
  <2>1. UNCHANGED <<pool, mined, desk>>
    BY <1>6 DEF GiveUp, Record, Dropped, CheckChain, CheckFresh, LatestUnknown,
       Simulate, Accepted, Fails
  <2>2. CASE CheckChain(r) \/ CheckFresh(r) \/ LatestUnknown(r)
    <3>1. PICK x \in Early : handler' = [handler EXCEPT ![r].at = x]
      BY <2>2 DEF CheckChain, CheckFresh, LatestUnknown, Early
    <3>2. handler'[r].at \notin {"fees", "send"} /\ Only(handler, handler', r)
      BY <3>1, Advances DEF Early
    <3> QED
      BY <1>4, <2>1, <3>2
  <2>3. CASE Dropped(r) \/ Accepted(r) \/ Fails(r)
    <3>1. handler'[r].at = "done" /\ Only(handler, handler', r)
      BY <2>3, WellParts DEF Dropped, Accepted, Fails, Return, Only
    <3> QED
      BY <1>4, <2>1, <3>1
  <2>4. CASE GiveUp(r) \/ Record(r)
    <3>1. handler' = handler /\ Only(handler, handler', r)
      BY <2>4 DEF GiveUp, Record, Only
    <3> QED
      BY <1>4, <2>1, <3>1
  <2>5. CASE Simulate(r)
    <3>1. CASE Return(r, "dry")
      <4>1. handler'[r].at = "done" /\ Only(handler, handler', r)
        BY <3>1, WellParts DEF Return, Only
      <4> QED
        BY <1>4, <2>1, <4>1
    <3>2. CASE handler' = [handler EXCEPT ![r].at = "nonce"]
      <4>1. handler'[r].at = "nonce" /\ Only(handler, handler', r)
        BY <3>2, Advances
      <4> QED
        BY <1>4, <2>1, <4>1
    <3> QED
      BY <2>5, <3>1, <3>2 DEF Simulate
  <2> QED
    BY <1>6, <2>2, <2>3, <2>4, <2>5
<1> QED
  BY <1>1, <1>2, <1>3, <1>5, <1>6 DEF Next, Handler

-----------------------------------------------------------------------------
(* The theorems.                                                           *)

LEMMA NextKeepsRequests ==
  ASSUME RequestsInv, AskedInv, NodeInv, [Next]_vars
  PROVE  RequestsInv'
<1>1. CASE NewBlock \/ Mine \/ UNCHANGED vars
  <2>1. UNCHANGED <<env, client, handler, desk, sent, saw, asked>>
    BY <1>1 DEF NewBlock, Mine, vars
  <2> QED
    BY <2>1, NodeKeepsRequests
<1>2. ASSUME NEW r \in Requests, NEW p \in Plans, Submit(r, p)
      PROVE  RequestsInv'
  BY <1>2, SubmitKeeps
<1>3. ASSUME NEW r \in Requests, GiveUp(r) \/ Record(r) \/ Dropped(r) \/ Gateway(r)
      PROVE  RequestsInv'
  BY <1>3, ClientKeeps, DroppedKeeps, GatewayKeeps
<1>4. ASSUME NEW r \in Requests, Handler(r)
      PROVE  RequestsInv'
  BY <1>4, EarlyKeeps, SimulateKeeps, ReadNonceKeeps, AskSignerKeeps, TakeSignatureKeeps,
     SendKeeps, AcceptedKeeps, FailsKeeps DEF Handler
<1> QED
  BY <1>1, <1>2, <1>3, <1>4 DEF Next

LEMMA NextKeepsNode ==
  ASSUME RequestsInv, NodeInv, [Next]_vars
  PROVE  NodeInv'
<1>1. CASE Mine
  BY <1>1, MineKeepsNode
<1>2. ASSUME NEW r \in Requests, Send(r)
      PROVE  NodeInv'
  BY <1>2, SendKeepsNode
<1>3. CASE UNCHANGED <<pool, mined, sent>>
  BY <1>3 DEF NodeInv
<1> QED
  BY <1>1, <1>2, <1>3 DEF Next, NewBlock, Submit, Handler, Gateway, GiveUp, Record, Dropped,
     CheckChain, CheckFresh, LatestUnknown, Simulate, ReadNonce, AskSigner, TakeSignature,
     Accepted, Fails, Admit, ClefSigns, Refuse, Unclaimed, vars

LEMMA Invariance == Spec => []IInv
<1>1. IInv /\ [Next]_vars => IInv'
  BY NextKeepsRequests, AskedInvKept, NextKeepsNode, NextKeepsReached DEF IInv
<1> QED
  BY <1>1, InitIInv, PTL DEF Spec

\* Whatever Clef signs and whichever process is misconfigured, only calls of
\* the executor by its owner, within the gateway's caps and with every switch
\* on, reach the node.
THEOREM ReviewedBroadcast == Spec => []OnlyReviewedBroadcast
<1>1. IInv => OnlyReviewedBroadcast
  BY DEF IInv, RequestsInv, Well, RequestWell, Switched, Signed, Calls, Within,
         OnlyReviewedBroadcast, Live
<1> QED
  BY <1>1, Invariance, PTL

\* What was executed or late when it was posted is stopped by the simulation.
THEOREM StalePlansAreStopped == Spec => []StalePlansStop
<1>1. IInv => StalePlansStop
  BY DEF IInv, RequestsInv, Well, RequestWell, Freshness, Fresh, StalePlansStop
<1> QED
  BY <1>1, Invariance, PTL

\* No accepted transaction waits behind a nonce that nobody uses: the nonce a
\* request holds was reached when it was read, and stays so until it is sent.
THEOREM NoncesWithoutGap == Spec => []NoNonceGap
<1>1. ASSUME IInv, NEW n \in DOMAIN pool, NEW k \in Len(mined) .. n
      PROVE  k \in DOMAIN pool
  <2>1. Reached(mined, pool, n)
    BY <1>1 DEF IInv, ReachedInv
  <2>2. Len(mined) \in Nat
    BY <1>1 DEF IInv, NodeInv
  <2>3. CASE k = n
    BY <2>3
  <2>4. CASE k # n
    <3>1. k \in Len(mined) .. n - 1
      BY <2>1, <2>2, <2>4 DEF Reached
    <3> QED
      BY <2>1, <3>1 DEF Reached
  <2> QED
    BY <2>3, <2>4
<1>2. IInv => NoNonceGap
  BY <1>1 DEF NoNonceGap
<1> QED
  BY <1>2, Invariance, PTL

\* A broadcast transaction is mined or pooled, unless a request that had read
\* its nonce before the broadcast took the same one.
THEOREM LostToOverlapOnly == Spec => []LostOnlyToOverlap
<1>1. ASSUME IInv, NEW r \in DOMAIN sent, ~Kept(sent[r])
      PROVE  \E s \in DOMAIN sent :
               s # r /\ sent[s].nonce = sent[r].nonce /\ r \notin saw[s]
  <2> DEFINE n == sent[r].nonce
  <2>1. n \in Nat /\ (n < Len(mined) \/ n \in DOMAIN pool) /\ Len(mined) \in Nat
    BY <1>1 DEF IInv, NodeInv
  <2>2. PICK s \in DOMAIN sent : Kept(sent[s]) /\ sent[s].nonce = n
    <3> HIDE DEF n
    <3>1. CASE n \in DOMAIN pool
      BY <1>1, <3>1 DEF IInv, NodeInv, Kept
    <3>2. CASE n < Len(mined)
      <4>1. n + 1 \in 1 .. Len(mined) /\ (n + 1) - 1 = n
        BY <2>1, <3>2
      <4>2. DOMAIN mined = 1 .. Len(mined)
        BY <1>1 DEF IInv, NodeInv
      <4> QED
        BY <1>1, <4>1, <4>2 DEF IInv, NodeInv, Kept
    <3> QED
      BY <2>1, <3>1, <3>2
  <2>3. s # r
    BY <1>1, <2>2
  <2>4. Untaken(sent, saw[s], sent[s].nonce)
    BY <1>1 DEF IInv, RequestsInv, Well, RequestWell, Nonces
  <2> QED
    BY <2>2, <2>3, <2>4 DEF Untaken
<1>2. IInv => LostOnlyToOverlap
  BY <1>1 DEF LostOnlyToOverlap
<1> QED
  BY <1>2, Invariance, PTL

=============================================================================
