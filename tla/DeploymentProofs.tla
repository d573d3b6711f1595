-------------------------- MODULE DeploymentProofs --------------------------
(***************************************************************************)
(* The deployment, for any allowed tokens, intended owner, gas, fees and   *)
(* policy, any number of runs and whatever Clef is made to sign: only      *)
(* reviewed transactions are sent, the executor trusts only what was       *)
(* deployed, and a run that reports success has deployed everything.       *)
(***************************************************************************)
EXTENDS Deployment, TLAPS, SequenceTheorems

Tokens == {AllowedTokens[i] : i \in DOMAIN AllowedTokens}
Adapters == {AerodromeAdapter, UniswapAdapter}
PlannedTx(n) == plan.transactions[n]

-----------------------------------------------------------------------------
(* The plan.                                                               *)

\* What is planned for a nonce.
PlannedAs(n) ==
  \/ n = starting_nonce /\ PlannedTx(n) = Creation("BaseArbExecutor")
  \/ n = starting_nonce + 1 /\ PlannedTx(n) = Creation("AerodromeAdapter")
  \/ n = starting_nonce + 2 /\ PlannedTx(n) = Creation("UniswapV3Adapter")
  \/ n = starting_nonce + 3 /\ PlannedTx(n) = CallExecutor("setAdapter", AerodromeAdapter)
  \/ n = starting_nonce + 4 /\ PlannedTx(n) = CallExecutor("setAdapter", UniswapAdapter)
  \/ \E i \in DOMAIN AllowedTokens :
       /\ n = starting_nonce + 4 + i
       /\ PlannedTx(n) = CallExecutor("setToken", AllowedTokens[i])
  \/ /\ n > starting_nonce + 4
     /\ PlannedTx(n) = CallExecutor("transferOwnership", IntendedOwner)

\* The plan creates, then allows the two adapters and each token.
LEMMA PlanShape ==
  /\ Len(Steps) \in Nat /\ Len(Steps) >= 5 + Len(AllowedTokens)
  /\ \A n \in Planned : PlannedAs(n)
  /\ \A i \in DOMAIN AllowedTokens :
       PlannedTx(starting_nonce + 4 + i) = CallExecutor("setToken", AllowedTokens[i])
<1> DEFINE S == {Creation("BaseArbExecutor"), Creation("AerodromeAdapter"),
                 Creation("UniswapV3Adapter"),
                 CallExecutor("setAdapter", AerodromeAdapter),
                 CallExecutor("setAdapter", UniswapAdapter),
                 CallExecutor("transferOwnership", IntendedOwner)}
                  \cup {CallExecutor("setToken", AllowedTokens[i]) : i \in DOMAIN AllowedTokens}
           s1 == <<Creation("BaseArbExecutor"), Creation("AerodromeAdapter"),
                   Creation("UniswapV3Adapter"),
                   CallExecutor("setAdapter", AerodromeAdapter),
                   CallExecutor("setAdapter", UniswapAdapter)>>
           s2 == [i \in DOMAIN AllowedTokens |-> CallExecutor("setToken", AllowedTokens[i])]
           s3 == IF IntendedOwner = Deployer THEN <<>>
                 ELSE <<CallExecutor("transferOwnership", IntendedOwner)>>
           k == Len(AllowedTokens)
<1>1. k \in Nat /\ DOMAIN AllowedTokens = 1 .. k /\ starting_nonce \in Nat
  BY DeploymentAssumption
<1>2. /\ Creation("BaseArbExecutor") \in S /\ Creation("AerodromeAdapter") \in S
      /\ Creation("UniswapV3Adapter") \in S
      /\ CallExecutor("setAdapter", AerodromeAdapter) \in S
      /\ CallExecutor("setAdapter", UniswapAdapter) \in S
      /\ CallExecutor("transferOwnership", IntendedOwner) \in S
      /\ \A i \in 1 .. k : CallExecutor("setToken", AllowedTokens[i]) \in S
  BY <1>1
<1> HIDE DEF S
<1>3. /\ s1 \in Seq(S) /\ Len(s1) = 5
      /\ s1[1] = Creation("BaseArbExecutor") /\ s1[2] = Creation("AerodromeAdapter")
      /\ s1[3] = Creation("UniswapV3Adapter")
      /\ s1[4] = CallExecutor("setAdapter", AerodromeAdapter)
      /\ s1[5] = CallExecutor("setAdapter", UniswapAdapter)
  BY <1>2
<1>4. /\ s2 \in Seq(S) /\ Len(s2) = k
      /\ \A i \in 1 .. k : s2[i] = CallExecutor("setToken", AllowedTokens[i])
  BY <1>1, <1>2
<1>5. s3 \in Seq(S) /\ Len(s3) \in {0, 1}
  BY <1>2
<1>6. ASSUME Len(s3) = 1
      PROVE  s3[1] = CallExecutor("transferOwnership", IntendedOwner)
  BY <1>6
<1>7. Steps = s1 \o s2 \o s3
  BY DEF Steps
<1> HIDE DEF s1, s2, s3
<1>8. /\ s1 \o s2 \in Seq(S) /\ Len(s1 \o s2) = 5 + k
      /\ \A i \in 1 .. 5 + k : (s1 \o s2)[i] = IF i <= 5 THEN s1[i] ELSE s2[i - 5]
  <2>1. /\ s1 \o s2 \in Seq(S)
        /\ Len(s1 \o s2) = Len(s1) + Len(s2)
        /\ \A i \in 1 .. Len(s1) + Len(s2) :
             (s1 \o s2)[i] = IF i <= Len(s1) THEN s1[i] ELSE s2[i - Len(s1)]
    <3>1. s1 \in Seq(S) /\ s2 \in Seq(S)
      BY <1>3, <1>4
    <3> QED
      BY <3>1, ConcatProperties, Zenon
  <2> HIDE DEF k
  <2> QED
    BY <1>1, <1>3, <1>4, <2>1
<1>9. /\ Len(Steps) = 5 + k + Len(s3)
      /\ \A i \in 1 .. 5 + k + Len(s3) :
           Steps[i] = IF i <= 5 + k THEN (s1 \o s2)[i] ELSE s3[i - (5 + k)]
  <2> DEFINE s12 == s1 \o s2
  <2>1. /\ Len(s12 \o s3) = Len(s12) + Len(s3)
        /\ \A i \in 1 .. Len(s12) + Len(s3) :
             (s12 \o s3)[i] = IF i <= Len(s12) THEN s12[i] ELSE s3[i - Len(s12)]
    <3>1. s12 \in Seq(S) /\ s3 \in Seq(S)
      BY <1>5, <1>8
    <3> HIDE DEF s12
    <3> QED
      BY <3>1, ConcatProperties, Zenon
  <2>2. Len(s12) = 5 + k /\ Steps = s12 \o s3
    BY <1>7, <1>8
  <2> HIDE DEF s12, k
  <2>3. /\ Len(Steps) = 5 + k + Len(s3)
        /\ \A i \in 1 .. 5 + k + Len(s3) :
             Steps[i] = IF i <= 5 + k THEN s12[i] ELSE s3[i - (5 + k)]
    BY <1>1, <1>5, <2>1, <2>2
  <2> QED
    BY <2>3 DEF s12
<1> HIDE DEF k
<1>10. \A n \in Planned : PlannedTx(n) = Steps[n - starting_nonce + 1]
  BY DEF PlannedTx, plan
<1>11. ASSUME NEW n \in Planned
       PROVE  PlannedAs(n)
  <2> DEFINE i == n - starting_nonce + 1
  <2>1. i \in 1 .. 5 + k + Len(s3) /\ n = starting_nonce + (i - 1)
    BY <1>1, <1>5, <1>9 DEF Planned
  <2>2. PlannedTx(n) = Steps[i]
    BY <1>10
  <2> HIDE DEF i
  <2>3. CASE i \in 1 .. 5
    <3>0. i <= 5 + k /\ i \in 1 .. 5 + k /\ i <= 5
      BY <1>1, <2>3
    <3>1. PlannedTx(n) = s1[i]
      BY <1>8, <1>9, <2>1, <2>2, <3>0
    <3>2. i = 1 \/ i = 2 \/ i = 3 \/ i = 4 \/ i = 5
      BY <2>3
    <3> QED
      BY <1>1, <1>3, <2>1, <3>1, <3>2 DEF PlannedAs
  <2>4. CASE i \in 6 .. 5 + k
    <3>1. i - 5 \in 1 .. k /\ n = starting_nonce + 4 + (i - 5)
      BY <1>1, <2>1, <2>4
    <3>0. i <= 5 + k /\ i \in 1 .. 5 + k /\ ~(i <= 5)
      BY <1>1, <2>4
    <3>2. PlannedTx(n) = s2[i - 5]
      BY <1>8, <1>9, <2>1, <2>2, <3>0
    <3>3. PlannedTx(n) = CallExecutor("setToken", AllowedTokens[i - 5])
      BY <1>4, <3>1, <3>2
    <3> QED
      BY <1>1, <3>1, <3>3 DEF PlannedAs
  <2>5. CASE i > 5 + k
    <3>1. i = 5 + k + 1 /\ Len(s3) = 1 /\ n > starting_nonce + 4
      <4>1. PICK j \in Nat : j = Len(s3) /\ (j = 0 \/ j = 1)
        BY <1>5
      <4>2. i \in 1 .. 5 + k + j
        BY <2>1, <4>1
      <4>3. j = 1 /\ i = 5 + k + 1
        <5>1. k \in Nat /\ i \in Int /\ i > 5 + k /\ i <= 5 + k + j /\ (j = 0 \/ j = 1)
          BY <1>1, <2>5, <4>1, <4>2
        <5> HIDE DEF k
        <5> QED
          BY <5>1
      <4>4. n > starting_nonce + 4
        BY <1>1, <2>1, <4>3
      <4> QED
        BY <4>1, <4>3, <4>4
    <3>2. PlannedTx(n) = s3[1]
      <4>1. ~(i <= 5 + k) /\ i - (5 + k) = 1
        BY <1>1, <3>1
      <4> QED
        BY <1>9, <2>1, <2>2, <4>1
    <3> QED
      BY <1>6, <3>1, <3>2 DEF PlannedAs
  <2> QED
    BY <1>1, <1>5, <2>1, <2>3, <2>4, <2>5
<1>12. ASSUME NEW i \in DOMAIN AllowedTokens
       PROVE  PlannedTx(starting_nonce + 4 + i) = CallExecutor("setToken", AllowedTokens[i])
  <2>1. i \in 1 .. k
    BY <1>1
  <2>2. /\ starting_nonce + 4 + i \in Planned
        /\ (starting_nonce + 4 + i) - starting_nonce + 1 = i + 5
        /\ i + 5 \in 1 .. 5 + k + Len(s3) /\ i + 5 \in 1 .. 5 + k
        /\ ~(i + 5 <= 5) /\ (i + 5) - 5 = i
    BY <1>1, <1>5, <1>9, <2>1 DEF Planned
  <2>3. PlannedTx(starting_nonce + 4 + i) = Steps[i + 5]
    BY <1>10, <2>2
  <2>4. Steps[i + 5] = (s1 \o s2)[i + 5]
    <3>1. i + 5 <= 5 + k
      BY <1>1, <2>1
    <3> QED
      BY <1>9, <2>2, <3>1
  <2>5. (s1 \o s2)[i + 5] = s2[i]
    BY <1>8, <2>2
  <2> QED
    BY <1>4, <2>1, <2>3, <2>4, <2>5
<1> QED
  BY <1>1, <1>5, <1>9, <1>11, <1>12 DEF k

-----------------------------------------------------------------------------
(* The invariant.                                                          *)

\* What transactions of the plan can change.
World == [code |-> code, adapters |-> executor.adapterAllowed,
          tokens |-> executor.tokenAllowed]

\* The transaction planned for a nonce has had its effect.
Applied(w, n) ==
  LET tx == PlannedTx(n)
  IN IF tx.to = NoAddress THEN n \in DOMAIN w.code /\ w.code[n] = tx.data.arg
     ELSE /\ tx.data.method = "setAdapter" => tx.data.arg \in w.adapters
          /\ tx.data.method = "setToken" => tx.data.arg \in w.tokens

Creations == starting_nonce .. starting_nonce + 2

\* The contracts that are created earlier exist.
Ready(w, n) == \A k \in Creations : k < n => Applied(w, k)

\* Everything planned earlier has been applied.
Before(w, n) ==
  /\ n \in starting_nonce .. starting_nonce + Len(Steps)
  /\ \A k \in Planned : k < n => Applied(w, k)

\* A signature of what was reviewed for its nonce.
Reviewed(raw) ==
  /\ raw # Elsewhere
  /\ raw.signer = Deployer
  /\ raw.nonce \in Planned
  /\ raw.to = PlannedTx(raw.nonce).to
  /\ raw.data = PlannedTx(raw.nonce).data
  /\ raw.gas <= policy.max_deployment_gas

\* A request of the gateway comes after the creations it depends on.
DeskWell(w, d) ==
  /\ "at" \in DOMAIN d
  /\ d.at = "received" => Ready(w, d.tx.nonce)
  /\ d.at = "signed" => Reviewed(d.raw) /\ Ready(w, d.raw.nonce)

\* A run has had everything before its next nonce applied.
ScriptWell(w, t) ==
  /\ "at" \in DOMAIN t
  /\ t.at \in {"verify", "estimate"} => "from" \in DOMAIN t
  /\ t.at = "estimate" => Before(w, t.from)
  /\ t.at \in {"nonce", "signing", "send", "receipt"} => "next" \in DOMAIN t /\ Before(w, t.next)
  /\ t.at \in {"send", "receipt"} =>
       "raw" \in DOMAIN t /\ Reviewed(t.raw) /\ Ready(w, t.raw.nonce)
  /\ t.at = "done" => \A k \in Planned : Applied(w, k)

PoolWell(w, raw, n) ==
  \/ raw = Elsewhere
  \/ Reviewed(raw) /\ raw.nonce = n /\ Ready(w, n)

MinedWell(w, m, n) ==
  \/ m.raw = Elsewhere
  \/ Reviewed(m.raw) /\ m.raw.nonce = n /\ (m.status = "ok" => Applied(w, n))

ExecutorType ==
  executor \in [owner : {NoAddress, Deployer}, pendingOwner : {NoAddress, IntendedOwner},
                paused : BOOLEAN, adapterAllowed : SUBSET Adapters,
                tokenAllowed : SUBSET Tokens]

ChainInv ==
  /\ \E S : mined \in Seq(S)
  /\ ExecutorType
  /\ \A a \in DOMAIN code : a \in Nat /\ a < Len(mined)
  /\ Executor \in DOMAIN code => executor.owner = Deployer /\ executor.paused
  /\ executor.adapterAllowed # {} => Ready(World, starting_nonce + 3)
  /\ \A n \in DOMAIN pool : PoolWell(World, pool[n], n)
  /\ \A i \in 1 .. Len(mined) : MinedWell(World, mined[i], i - 1)

RunsInv ==
  /\ DOMAIN script = Scripts /\ DOMAIN desk = Scripts
  /\ \A s \in Scripts : ScriptWell(World, script[s])
  /\ \A s \in Scripts : DeskWell(World, desk[s])

IInv == ChainInv /\ RunsInv

-----------------------------------------------------------------------------
(* What is applied stays applied.                                          *)

Grows(w, v) == \A k \in Planned : Applied(w, k) => Applied(v, k)

LEMMA CreationsPlanned ==
  /\ Creations \subseteq Planned
  /\ Executor = starting_nonce /\ AerodromeAdapter = starting_nonce + 1
  /\ UniswapAdapter = starting_nonce + 2
  /\ \A n \in Planned : n \in Nat
<1>1. starting_nonce \in Nat /\ Len(Steps) \in Nat /\ Len(Steps) >= 5
  BY PlanShape, DeploymentAssumption
<1> QED
  BY <1>1 DEF Creations, Planned, Executor, AerodromeAdapter, UniswapAdapter, create_address

LEMMA Monotone ==
  ASSUME NEW w, NEW v, Grows(w, v)
  PROVE  /\ \A n : Ready(w, n) => Ready(v, n)
         /\ \A n : Before(w, n) => Before(v, n)
         /\ \A d : DeskWell(w, d) => DeskWell(v, d)
         /\ \A t : ScriptWell(w, t) => ScriptWell(v, t)
         /\ \A raw, n : PoolWell(w, raw, n) => PoolWell(v, raw, n)
         /\ \A m, n : n \in Nat => (MinedWell(w, m, n) => MinedWell(v, m, n))
<1>1. ASSUME NEW n, Ready(w, n)
      PROVE  Ready(v, n)
  BY <1>1, CreationsPlanned DEF Ready, Grows
<1>2. ASSUME NEW n, Before(w, n)
      PROVE  Before(v, n)
  BY <1>2 DEF Before, Grows
<1>3. ASSUME NEW d, DeskWell(w, d)
      PROVE  DeskWell(v, d)
  BY <1>1, <1>3 DEF DeskWell
<1>4. ASSUME NEW t, ScriptWell(w, t)
      PROVE  ScriptWell(v, t)
  BY <1>1, <1>2, <1>4 DEF ScriptWell, Grows
<1>5. ASSUME NEW raw, NEW n, PoolWell(w, raw, n)
      PROVE  PoolWell(v, raw, n)
  BY <1>1, <1>5 DEF PoolWell
<1>6. ASSUME NEW m, NEW n, MinedWell(w, m, n)
      PROVE  MinedWell(v, m, n)
  BY <1>6 DEF MinedWell, Grows, Reviewed
<1> QED
  BY <1>1, <1>2, <1>3, <1>4, <1>5, <1>6

\* The first three nonces create, the others call the executor.
LEMMA PlanKinds ==
  /\ \A n \in Creations : PlannedTx(n).to = NoAddress
  /\ \A n \in Planned : PlannedTx(n).to # NoAddress =>
       /\ n >= starting_nonce + 3 /\ PlannedTx(n).to = Executor
       /\ \/ /\ PlannedTx(n).data.method = "setAdapter"
             /\ PlannedTx(n).data.arg \in Adapters
          \/ /\ PlannedTx(n).data.method = "setToken"
             /\ PlannedTx(n).data.arg \in Tokens
          \/ /\ PlannedTx(n).data.method = "transferOwnership"
             /\ PlannedTx(n).data.arg = IntendedOwner
  /\ PlannedTx(starting_nonce) = Creation("BaseArbExecutor")
  /\ PlannedTx(starting_nonce + 1) = Creation("AerodromeAdapter")
  /\ PlannedTx(starting_nonce + 2) = Creation("UniswapV3Adapter")
  /\ PlannedTx(starting_nonce + 3) = CallExecutor("setAdapter", AerodromeAdapter)
  /\ PlannedTx(starting_nonce + 4) = CallExecutor("setAdapter", UniswapAdapter)
<1>1. /\ starting_nonce \in Nat /\ Len(Steps) \in Nat /\ Len(Steps) >= 5
      /\ \A i \in DOMAIN AllowedTokens : i \in Nat \ {0}
  BY PlanShape, DeploymentAssumption
<1>2. \A n \in Planned : n \in Nat /\ PlannedAs(n)
  BY PlanShape, CreationsPlanned
<1>3. \A k \in 0 .. 4 : starting_nonce + k \in Planned
  BY <1>1 DEF Planned
<1>4. /\ PlannedTx(starting_nonce) = Creation("BaseArbExecutor")
      /\ PlannedTx(starting_nonce + 1) = Creation("AerodromeAdapter")
      /\ PlannedTx(starting_nonce + 2) = Creation("UniswapV3Adapter")
      /\ PlannedTx(starting_nonce + 3) = CallExecutor("setAdapter", AerodromeAdapter)
      /\ PlannedTx(starting_nonce + 4) = CallExecutor("setAdapter", UniswapAdapter)
  <2>1. ASSUME NEW k \in 0 .. 4, NEW n \in Nat, n = starting_nonce + k
        PROVE  \/ k = 0 /\ PlannedTx(n) = Creation("BaseArbExecutor")
               \/ k = 1 /\ PlannedTx(n) = Creation("AerodromeAdapter")
               \/ k = 2 /\ PlannedTx(n) = Creation("UniswapV3Adapter")
               \/ k = 3 /\ PlannedTx(n) = CallExecutor("setAdapter", AerodromeAdapter)
               \/ k = 4 /\ PlannedTx(n) = CallExecutor("setAdapter", UniswapAdapter)
    <3>1. PlannedAs(n)
      BY <1>2, <1>3, <2>1
    <3> QED
      BY <1>1, <2>1, <3>1 DEF PlannedAs
  <2>2. \A k \in 0 .. 4 : starting_nonce + k \in Nat
    BY <1>1
  <2>3. starting_nonce = starting_nonce + 0
    BY <1>1
  <2> QED
    BY <2>1, <2>2, <2>3
<1>5. \A n \in Creations : PlannedTx(n).to = NoAddress
  <2>1. \A n \in Creations :
          n = starting_nonce \/ n = starting_nonce + 1 \/ n = starting_nonce + 2
    BY <1>1 DEF Creations
  <2> QED
    BY <1>4, <2>1 DEF Creation
<1>6. ASSUME NEW n \in Planned, PlannedTx(n).to # NoAddress
      PROVE  /\ n >= starting_nonce + 3 /\ PlannedTx(n).to = Executor
             /\ \/ /\ PlannedTx(n).data.method = "setAdapter"
                   /\ PlannedTx(n).data.arg \in Adapters
                \/ /\ PlannedTx(n).data.method = "setToken"
                   /\ PlannedTx(n).data.arg \in Tokens
                \/ /\ PlannedTx(n).data.method = "transferOwnership"
                   /\ PlannedTx(n).data.arg = IntendedOwner
  <2>1. \/ \E a \in Adapters : /\ n \in {starting_nonce + 3, starting_nonce + 4}
                               /\ PlannedTx(n) = CallExecutor("setAdapter", a)
        \/ \E t \in Tokens : /\ n >= starting_nonce + 3
                             /\ PlannedTx(n) = CallExecutor("setToken", t)
        \/ n >= starting_nonce + 3 /\ PlannedTx(n) = CallExecutor("transferOwnership", IntendedOwner)
    BY <1>1, <1>2, <1>6 DEF PlannedAs, Creation, Adapters, Tokens
  <2> QED
    BY <1>1, <2>1 DEF CallExecutor
<1> QED
  BY <1>4, <1>5, <1>6

-----------------------------------------------------------------------------
(* A transaction is included.                                              *)

\* The contracts after a creation.
WithContract(n, contract) ==
  [a \in DOMAIN code \cup {n} |-> IF a = n THEN contract ELSE code[a]]

\* The transaction "raw" is included with this status and its effect.
Included(n, raw, status) ==
  /\ mined' = Append(mined, [raw |-> raw, status |-> status])
  /\ \/ raw = Elsewhere /\ UNCHANGED <<code, executor>>
     \/ status # "ok" /\ UNCHANGED <<code, executor>>
     \/ /\ raw # Elsewhere /\ raw.to = NoAddress
        /\ code' = WithContract(n, raw.data.arg)
        /\ executor' = IF n = Executor THEN Constructed ELSE executor
     \/ /\ raw # Elsewhere /\ raw.to # NoAddress
        /\ UNCHANGED code
        /\ executor' = IF CodeAt(raw.to) = NoCode THEN executor ELSE Called(raw.data)

\* What Mine does with the transaction of the next nonce: nothing happens but
\* that it is included, or a contract is created, or the executor is called.
LEMMA MineCases ==
  ASSUME ChainInv, Mine, NEW n, n = Len(mined), NEW raw, raw = pool[n]
  PROVE  /\ n \in DOMAIN pool /\ n \in Nat
         /\ pool' = [k \in DOMAIN pool \ {n} |-> pool[k]]
         /\ UNCHANGED <<script, desk, runs>>
         /\ \E status : Included(n, raw, status)
<1>1. n \in Nat
  BY DEF ChainInv
<1>2. n \in DOMAIN pool /\ pool' = [k \in DOMAIN pool \ {n} |-> pool[k]]
      /\ UNCHANGED <<script, desk, runs>>
  BY DEF Mine
<1>3. CASE raw = Elsewhere /\ UNCHANGED <<code, executor>>
           /\ mined' = Append(mined, [raw |-> raw, status |-> "ok"])
  BY <1>1, <1>2, <1>3 DEF Included
<1>4. CASE UNCHANGED <<code, executor>>
           /\ mined' = Append(mined, [raw |-> raw, status |-> "out_of_gas"])
  <2>1. "out_of_gas" # "ok"
    OBVIOUS
  <2> QED
    BY <1>1, <1>2, <1>4, <2>1 DEF Included
<1>5. CASE UNCHANGED <<code, executor>>
           /\ mined' = Append(mined, [raw |-> raw, status |-> "reverted"])
  <2>1. "reverted" # "ok"
    OBVIOUS
  <2> QED
    BY <1>1, <1>2, <1>5, <2>1 DEF Included
<1>6. CASE /\ raw # Elsewhere
           /\ mined' = Append(mined, [raw |-> raw, status |-> "ok"])
           /\ IF raw.to = NoAddress
              THEN /\ code' = WithContract(n, raw.data.arg)
                   /\ executor' = IF n = Executor THEN Constructed ELSE executor
              ELSE /\ UNCHANGED code
                   /\ executor' = IF CodeAt(raw.to) = NoCode THEN executor ELSE Called(raw.data)
  <2>1. CASE raw.to = NoAddress
    BY <1>1, <1>2, <1>6, <2>1 DEF Included
  <2>2. CASE raw.to # NoAddress
    BY <1>1, <1>2, <1>6, <2>2 DEF Included
  <2> QED
    BY <2>1, <2>2
<1> QED
  BY <1>3, <1>4, <1>5, <1>6 DEF Mine, WithContract

\* What a planned call does to a deployed executor.
LEMMA CallApplies ==
  ASSUME ExecutorType, NEW n \in Planned, PlannedTx(n).to # NoAddress,
         executor' = Called(PlannedTx(n).data), UNCHANGED code
  PROVE  /\ ExecutorType'
         /\ executor'.owner = executor.owner /\ executor'.paused = executor.paused
         /\ Grows(World, World') /\ Applied(World', n)
<1> DEFINE data == PlannedTx(n).data
<1>1. \/ data.method = "setAdapter" /\ data.arg \in Adapters
      \/ data.method = "setToken" /\ data.arg \in Tokens
      \/ data.method = "transferOwnership" /\ data.arg = IntendedOwner
  BY PlanKinds
<1> HIDE DEF data
<1>2. \/ /\ data.method = "setAdapter"
         /\ executor' = [executor EXCEPT !.adapterAllowed = @ \cup {data.arg}]
      \/ /\ data.method = "setToken"
         /\ executor' = [executor EXCEPT !.tokenAllowed = @ \cup {data.arg}]
      \/ /\ data.method = "transferOwnership"
         /\ executor' = [executor EXCEPT !.pendingOwner = data.arg]
  BY <1>1 DEF Called, data
<1>3. /\ ExecutorType'
      /\ executor'.owner = executor.owner /\ executor'.paused = executor.paused
      /\ executor.adapterAllowed \subseteq executor'.adapterAllowed
      /\ executor.tokenAllowed \subseteq executor'.tokenAllowed
      /\ data.method = "setAdapter" => data.arg \in executor'.adapterAllowed
      /\ data.method = "setToken" => data.arg \in executor'.tokenAllowed
  BY <1>1, <1>2 DEF ExecutorType
<1>4. Grows(World, World')
  BY <1>3 DEF Grows, Applied, World
<1>5. Applied(World', n)
  BY <1>3 DEF Applied, World, data
<1> QED
  BY <1>3, <1>4, <1>5

\* A creation at a new nonce leaves what exists as it is.
LEMMA CreationApplies ==
  ASSUME ChainInv, NEW n, n = Len(mined), NEW contract,
         code' = WithContract(n, contract),
         executor' = IF n = Executor THEN Constructed ELSE executor
  PROVE  /\ ExecutorType' /\ Grows(World, World')
         /\ executor'.adapterAllowed = executor.adapterAllowed
         /\ n \in DOMAIN code' /\ code'[n] = contract
         /\ \A a \in DOMAIN code' : a \in Nat /\ a < n + 1
         /\ Executor \in DOMAIN code' => executor'.owner = Deployer /\ executor'.paused
<1>1. n \in Nat /\ \A a \in DOMAIN code : a \in Nat /\ a < n
  BY DEF ChainInv
<1>2. /\ DOMAIN code' = DOMAIN code \cup {n} /\ code'[n] = contract
      /\ \A a \in DOMAIN code : code'[a] = code[a]
  BY <1>1 DEF WithContract
<1>3. /\ ExecutorType'
      /\ executor'.adapterAllowed = executor.adapterAllowed
      /\ executor'.tokenAllowed = executor.tokenAllowed
      /\ n = Executor => executor'.owner = Deployer /\ executor'.paused
      /\ n # Executor => executor' = executor
  BY DEF ChainInv, ExecutorType, Constructed
<1>4. Grows(World, World')
  BY <1>2, <1>3 DEF Grows, Applied, World
<1>5. \A a \in DOMAIN code' : a \in Nat /\ a < n + 1
  BY <1>1, <1>2
<1> QED
  BY <1>2, <1>3, <1>4, <1>5 DEF ChainInv

LEMMA MineStep ==
  ASSUME IInv, Mine
  PROVE  ChainInv' /\ Grows(World, World')
<1>1. PICK n : n = Len(mined)
  OBVIOUS
<1>2. PICK raw : raw = pool[n]
  OBVIOUS
<1>3. ChainInv
  BY DEF IInv
<1>4. /\ n \in DOMAIN pool /\ n \in Nat
      /\ pool' = [k \in DOMAIN pool \ {n} |-> pool[k]]
  BY <1>1, <1>2, <1>3, MineCases
<1>5. PICK status : Included(n, raw, status)
  BY <1>1, <1>2, <1>3, MineCases
<1>6. PoolWell(World, raw, n)
  BY <1>2, <1>3, <1>4 DEF ChainInv
\* It is enough to look at the state of the contracts.
<1>7. ASSUME Grows(World, World'), ExecutorType',
             \A a \in DOMAIN code' : a \in Nat /\ a < n + 1,
             Executor \in DOMAIN code' => executor'.owner = Deployer /\ executor'.paused,
             executor'.adapterAllowed # {} => Ready(World', starting_nonce + 3),
             raw = Elsewhere \/ status # "ok" \/ Applied(World', n)
      PROVE  ChainInv'
  <2>1. PICK S : mined \in Seq(S)
    BY <1>3 DEF ChainInv
  <2> DEFINE m == [raw |-> raw, status |-> status]
  <2>2. m.raw = raw /\ m.status = status
    OBVIOUS
  <2> HIDE DEF m
  <2>3. mined' = Append(mined, m) /\ mined \in Seq(S \cup {m}) /\ m \in S \cup {m}
    BY <1>5, <2>1 DEF m, Included
  <2>4. /\ mined' \in Seq(S \cup {m}) /\ Len(mined') = n + 1 /\ mined'[n + 1] = m
        /\ \A i \in 1 .. n : mined'[i] = mined[i]
    BY <1>1, <2>3
  <2>5. MinedWell(World', m, n)
    BY <1>6, <1>7, <2>2 DEF MinedWell, PoolWell
  <2>6. \A i \in 1 .. n : MinedWell(World', mined[i], i - 1)
    <3>1. \A i \in 1 .. n : MinedWell(World, mined[i], i - 1) /\ i - 1 \in Nat
      BY <1>1, <1>3, <1>4 DEF ChainInv
    <3> QED
      BY <1>7, <3>1, Monotone
  <2>7. \A i \in 1 .. n + 1 : MinedWell(World', mined'[i], i - 1)
    <3>1. ASSUME NEW i \in 1 .. n + 1
          PROVE  MinedWell(World', mined'[i], i - 1)
      <4>1. CASE i = n + 1
        <5>1. i - 1 = n
          BY <1>4, <4>1
        <5> QED
          BY <2>4, <2>5, <4>1, <5>1
      <4>2. CASE i # n + 1
        <5>1. i \in 1 .. n
          BY <1>4, <4>2
        <5> QED
          BY <2>4, <2>6, <5>1
      <4> QED
        BY <4>1, <4>2
    <3> QED
      BY <3>1
  <2>8. \A k \in DOMAIN pool' : PoolWell(World', pool'[k], k)
    <3>1. \A k \in DOMAIN pool' : k \in DOMAIN pool /\ pool'[k] = pool[k]
      BY <1>4
    <3>2. \A k \in DOMAIN pool : PoolWell(World, pool[k], k)
      BY <1>3 DEF ChainInv
    <3> QED
      BY <1>7, <3>1, <3>2, Monotone
  <2> QED
    BY <1>7, <2>4, <2>7, <2>8 DEF ChainInv
<1>8. CASE (raw = Elsewhere \/ status # "ok") /\ UNCHANGED <<code, executor>>
  <2>1. World' = World
    BY <1>8 DEF World
  <2>2. Grows(World, World')
    BY <2>1 DEF Grows
  <2>3. ExecutorType'
    BY <1>3, <1>8 DEF ChainInv, ExecutorType
  <2>4. /\ \A a \in DOMAIN code' : a \in Nat /\ a < n + 1
        /\ Executor \in DOMAIN code' => executor'.owner = Deployer /\ executor'.paused
        /\ executor'.adapterAllowed # {} => Ready(World', starting_nonce + 3)
    BY <1>1, <1>3, <1>4, <1>8, <2>1 DEF ChainInv
  <2> QED
    BY <1>7, <1>8, <2>2, <2>3, <2>4
<1>9. CASE /\ raw # Elsewhere /\ raw.to = NoAddress
           /\ code' = WithContract(n, raw.data.arg)
           /\ executor' = IF n = Executor THEN Constructed ELSE executor
  <2>1. PICK contract : contract = raw.data.arg
    OBVIOUS
  <2>2. /\ ExecutorType' /\ Grows(World, World')
        /\ executor'.adapterAllowed = executor.adapterAllowed
        /\ n \in DOMAIN code' /\ code'[n] = contract
        /\ \A a \in DOMAIN code' : a \in Nat /\ a < n + 1
        /\ Executor \in DOMAIN code' => executor'.owner = Deployer /\ executor'.paused
    <3>1. code' = WithContract(n, contract)
      BY <1>9, <2>1
    <3> QED
      BY <1>1, <1>3, <1>9, <3>1, CreationApplies
  <2>3. raw.nonce = n /\ raw.to = PlannedTx(n).to /\ raw.data = PlannedTx(n).data
    BY <1>6, <1>9 DEF PoolWell, Reviewed
  <2>4. Applied(World', n)
    BY <1>9, <2>1, <2>2, <2>3 DEF Applied, World
  <2>5. executor'.adapterAllowed # {} => Ready(World', starting_nonce + 3)
    BY <1>3, <2>2, Monotone DEF ChainInv
  <2> QED
    BY <1>7, <2>2, <2>4, <2>5
<1>10. CASE /\ raw # Elsewhere /\ raw.to # NoAddress
            /\ UNCHANGED code
            /\ executor' = IF CodeAt(raw.to) = NoCode THEN executor ELSE Called(raw.data)
  <2>1. /\ n \in Planned /\ raw.to = PlannedTx(n).to /\ raw.data = PlannedTx(n).data
        /\ Ready(World, n)
    BY <1>6, <1>10 DEF PoolWell, Reviewed
  <2>2. /\ n >= starting_nonce + 3 /\ raw.to = Executor /\ Executor = starting_nonce
        /\ PlannedTx(n).to # NoAddress
    BY <1>10, <2>1, PlanKinds, CreationsPlanned
  <2>3. \A k \in Creations : k < n /\ k < starting_nonce + 3
    BY <1>4, <2>2, DeploymentAssumption DEF Creations
  <2>4. Ready(World, starting_nonce + 3)
    BY <2>1, <2>3 DEF Ready
  <2>5. CodeAt(raw.to) # NoCode
    <3>1. starting_nonce \in Creations
      BY DeploymentAssumption DEF Creations
    <3>2. Applied(World, starting_nonce)
      BY <2>1, <2>3, <3>1 DEF Ready
    <3>3. starting_nonce \in DOMAIN code /\ code[starting_nonce] = "BaseArbExecutor"
      BY <3>2, PlanKinds DEF Applied, World, Creation
    <3> QED
      BY <2>2, <3>3, DeploymentAssumption DEF CodeAt
  <2>6. executor' = Called(PlannedTx(n).data)
    BY <1>10, <2>1, <2>5
  <2>7. /\ ExecutorType' /\ Grows(World, World') /\ Applied(World', n)
        /\ executor'.owner = executor.owner /\ executor'.paused = executor.paused
    BY <1>3, <1>10, <2>1, <2>2, <2>6, CallApplies DEF ChainInv
  <2>8. Ready(World', starting_nonce + 3)
    BY <2>4, <2>7, Monotone
  <2>9. /\ \A a \in DOMAIN code' : a \in Nat /\ a < n + 1
        /\ Executor \in DOMAIN code' => executor'.owner = Deployer /\ executor'.paused
    BY <1>1, <1>3, <1>4, <1>10, <2>7 DEF ChainInv
  <2> QED
    BY <1>7, <2>7, <2>8, <2>9
<1> QED
  BY <1>5, <1>8, <1>9, <1>10 DEF Included

-----------------------------------------------------------------------------
(* A run or the gateway moves.                                             *)

\* What has to be shown of a step of one run.
LEMMA OneMoves ==
  ASSUME IInv, UNCHANGED <<mined, code, executor>>, NEW s \in Scripts,
         DOMAIN script' = Scripts, DOMAIN desk' = Scripts,
         \A t \in Scripts : t # s => script'[t] = script[t] /\ desk'[t] = desk[t],
         \A n \in DOMAIN pool' : PoolWell(World, pool'[n], n),
         ScriptWell(World, script'[s]), DeskWell(World, desk'[s])
  PROVE  IInv'
<1>1. World' = World
  BY DEF World
<1>2. ChainInv'
  BY <1>1 DEF IInv, ChainInv, ExecutorType
<1>3. ASSUME NEW t \in Scripts
      PROVE  ScriptWell(World', script'[t]) /\ DeskWell(World', desk'[t])
  <2>1. CASE t = s
    BY <1>1, <2>1
  <2>2. CASE t # s
    BY <1>1, <2>2 DEF IInv, RunsInv
  <2> QED
    BY <2>1, <2>2
<1> QED
  BY <1>2, <1>3 DEF IInv, RunsInv

\* A changed field leaves the other fields of a record.
LEMMA FieldKept ==
  ASSUME NEW t, NEW f, NEW g, NEW v, "at" \in DOMAIN t, g \in DOMAIN t, g # "at",
         f = [t EXCEPT !.at = v]
  PROVE  f.at = v /\ DOMAIN f = DOMAIN t /\ f[g] = t[g]
OBVIOUS

\* The start of a run, and its end after a failure.
LEMMA BeginStep ==
  ASSUME IInv, NEW s \in Scripts, Begin(s)
  PROVE  IInv'
<1>0. PICK from : from = PendingNonce
  OBVIOUS
<1>1. PICK at \in {"verify", "estimate"} :
        /\ at = "estimate" => from = starting_nonce
        /\ script' = [script EXCEPT ![s] = [at |-> at, from |-> from]]
  BY <1>0 DEF Begin
<1>2. DOMAIN script = Scripts /\ DOMAIN desk = Scripts
  BY DEF IInv, RunsInv
<1>3. script'[s] = [at |-> at, from |-> from]
  BY <1>1, <1>2
<1>4. Before(World, starting_nonce)
  <2>1. starting_nonce \in Nat /\ Len(Steps) \in Nat
    BY PlanShape, DeploymentAssumption
  <2> QED
    BY <2>1 DEF Before, Planned
<1>5. ScriptWell(World, script'[s])
  BY <1>1, <1>3, <1>4 DEF ScriptWell
<1> QED
  BY <1>1, <1>2, <1>5, OneMoves DEF Begin, IInv, ChainInv, RunsInv

LEMMA FailsStep ==
  ASSUME IInv, NEW s \in Scripts, Fails(s)
  PROVE  IInv'
<1>1. DOMAIN script = Scripts /\ DOMAIN desk = Scripts
  BY DEF IInv, RunsInv
<1>2. script'[s] = [at |-> "failed"]
  BY <1>1 DEF Fails
<1>3. ScriptWell(World, script'[s])
  BY <1>2 DEF ScriptWell
<1> QED
  BY <1>1, <1>3, OneMoves DEF Fails, IInv, ChainInv, RunsInv

\* verify_deployed_prefix looks at the code of the three contracts.
LEMMA VerifyStep ==
  ASSUME IInv, NEW s \in Scripts, Verify(s)
  PROVE  IInv'
<1>1. /\ DOMAIN script = Scripts /\ DOMAIN desk = Scripts
      /\ ScriptWell(World, script[s])
  BY DEF IInv, RunsInv
<1>2. PICK t : t = script[s]
  OBVIOUS
<1>3. /\ script'[s] = [t EXCEPT !.at = "estimate"]
      /\ "at" \in DOMAIN t /\ "from" \in DOMAIN t /\ t.from = starting_nonce + 3
  BY <1>1, <1>2 DEF Verify, ScriptWell, Resumable
<1>4. PICK x : x = script'[s]
  OBVIOUS
<1>5. x.at = "estimate" /\ "at" \in DOMAIN x /\ "from" \in DOMAIN x /\ x.from = starting_nonce + 3
  BY <1>3, <1>4
<1>6. /\ CodeAt(starting_nonce) = "BaseArbExecutor"
      /\ CodeAt(starting_nonce + 1) = "AerodromeAdapter"
      /\ CodeAt(starting_nonce + 2) = "UniswapV3Adapter"
  BY CreationsPlanned DEF Verify, verify_deployed_prefix
<1>7. /\ starting_nonce \in DOMAIN code /\ code[starting_nonce] = "BaseArbExecutor"
      /\ starting_nonce + 1 \in DOMAIN code /\ code[starting_nonce + 1] = "AerodromeAdapter"
      /\ starting_nonce + 2 \in DOMAIN code /\ code[starting_nonce + 2] = "UniswapV3Adapter"
  BY <1>6, DeploymentAssumption DEF CodeAt
<1>8. /\ Applied(World, starting_nonce) /\ Applied(World, starting_nonce + 1)
      /\ Applied(World, starting_nonce + 2)
  BY <1>7, PlanKinds DEF Applied, World, Creation
<1>9. Before(World, starting_nonce + 3)
  <2>1. starting_nonce \in Nat /\ Len(Steps) \in Nat /\ Len(Steps) >= 5
    BY PlanShape, DeploymentAssumption
  <2>2. \A k \in Planned : k < starting_nonce + 3 =>
          k = starting_nonce \/ k = starting_nonce + 1 \/ k = starting_nonce + 2
    BY <2>1 DEF Planned
  <2> QED
    BY <1>8, <2>1, <2>2 DEF Before
<1>10. ScriptWell(World, x)
  BY <1>5, <1>9 DEF ScriptWell
<1> QED
  BY <1>1, <1>4, <1>10, OneMoves DEF Verify, IInv, ChainInv, RunsInv

LEMMA EstimateStep ==
  ASSUME IInv, NEW s \in Scripts, Estimate(s)
  PROVE  IInv'
<1>1. /\ DOMAIN script = Scripts /\ DOMAIN desk = Scripts
      /\ ScriptWell(World, script[s])
  BY DEF IInv, RunsInv
<1>2. PICK from : from = script[s].from
  OBVIOUS
<1>3. PICK fee, gas : script' = [script EXCEPT ![s] =
        [at |-> "nonce", next |-> from, fee |-> fee, gas |-> gas]]
  BY <1>2 DEF Estimate
<1>4. Before(World, from)
  BY <1>1, <1>2 DEF Estimate, ScriptWell
<1>5. script'[s] = [at |-> "nonce", next |-> from, fee |-> fee, gas |-> gas]
  BY <1>1, <1>3
<1>6. ScriptWell(World, script'[s])
  BY <1>4, <1>5 DEF ScriptWell
<1> QED
  BY <1>1, <1>3, <1>6, OneMoves DEF Estimate, IInv, ChainInv, RunsInv

\* The nonce a run asks a signature for comes after all that was applied.
LEMMA AskSignerStep ==
  ASSUME IInv, NEW s \in Scripts, AskSigner(s)
  PROVE  IInv'
<1>1. /\ DOMAIN script = Scripts /\ DOMAIN desk = Scripts
      /\ ScriptWell(World, script[s])
  BY DEF IInv, RunsInv
<1>2. PICK t : t = script[s]
  OBVIOUS
<1>3. /\ script'[s] = [t EXCEPT !.at = "signing"]
      /\ "at" \in DOMAIN t /\ "next" \in DOMAIN t /\ Before(World, t.next)
  BY <1>1, <1>2 DEF AskSigner, ScriptWell
<1>4. PICK x : x = script'[s]
  OBVIOUS
<1>5. x.at = "signing" /\ "at" \in DOMAIN x /\ "next" \in DOMAIN x /\ x.next = t.next
  BY <1>3, <1>4
<1>6. ScriptWell(World, x)
  BY <1>3, <1>5 DEF ScriptWell
<1>7. PICK tx : tx = Prepared(s)
  OBVIOUS
<1>8. tx.nonce = t.next
  BY <1>2, <1>7 DEF Prepared
<1>9. Ready(World, t.next)
  BY <1>3, CreationsPlanned DEF Before, Ready
<1>10. PICK d : d = desk'[s]
  OBVIOUS
<1>11. d = [at |-> "received", tx |-> tx]
  BY <1>1, <1>7, <1>10 DEF AskSigner
<1>12. DeskWell(World, d)
  BY <1>8, <1>9, <1>11 DEF DeskWell
<1> QED
  BY <1>1, <1>4, <1>6, <1>10, <1>12, OneMoves DEF AskSigner, IInv, ChainInv, RunsInv

\* An empty desk is well.
LEMMA FreeDesk ==
  ASSUME NEW w
  PROVE  DeskWell(w, Free)
BY DEF DeskWell, Free

LEMMA TakeSignatureStep ==
  ASSUME IInv, NEW s \in Scripts, TakeSignature(s)
  PROVE  IInv'
<1>1. /\ DOMAIN script = Scripts /\ DOMAIN desk = Scripts
      /\ ScriptWell(World, script[s]) /\ DeskWell(World, desk[s])
  BY DEF IInv, RunsInv
<1>2. desk'[s] = Free
  BY <1>1 DEF TakeSignature
<1>3. DeskWell(World, desk'[s])
  BY <1>2, FreeDesk
<1>4. CASE desk[s].at = "signed" /\ script' = [script EXCEPT ![s] =
             [at |-> "send", next |-> @.next, fee |-> @.fee, gas |-> @.gas, raw |-> desk[s].raw]]
  <2>1. PICK next, fee, gas, raw :
          next = script[s].next /\ fee = script[s].fee /\ gas = script[s].gas
            /\ raw = desk[s].raw
    OBVIOUS
  <2>2. script'[s] = [at |-> "send", next |-> next, fee |-> fee, gas |-> gas, raw |-> raw]
    BY <1>1, <1>4, <2>1
  <2>3. Before(World, next) /\ Reviewed(raw) /\ Ready(World, raw.nonce)
    BY <1>1, <1>4, <2>1 DEF TakeSignature, ScriptWell, DeskWell
  <2>4. ScriptWell(World, script'[s])
    BY <2>2, <2>3 DEF ScriptWell
  <2> QED
    BY <1>1, <1>3, <1>4, <2>4, OneMoves DEF TakeSignature, IInv, ChainInv
<1>5. CASE script' = [script EXCEPT ![s] = [at |-> "refused", tx |-> desk[s].tx]]
  <2>1. PICK tx : tx = desk[s].tx
    OBVIOUS
  <2>2. script'[s] = [at |-> "refused", tx |-> tx]
    BY <1>1, <1>5, <2>1
  <2>3. ScriptWell(World, script'[s])
    BY <2>2 DEF ScriptWell
  <2> QED
    BY <1>1, <1>3, <1>5, <2>3, OneMoves DEF TakeSignature, IInv, ChainInv
<1> QED
  BY <1>4, <1>5 DEF TakeSignature

LEMMA SendStep ==
  ASSUME IInv, NEW s \in Scripts, Send(s)
  PROVE  IInv'
<1>1. /\ DOMAIN script = Scripts /\ DOMAIN desk = Scripts
      /\ ScriptWell(World, script[s])
  BY DEF IInv, RunsInv
<1>2. PICK t : t = script[s]
  OBVIOUS
<1>3. /\ script'[s] = [t EXCEPT !.at = "receipt"]
      /\ "at" \in DOMAIN t /\ "next" \in DOMAIN t /\ "raw" \in DOMAIN t
      /\ Before(World, t.next) /\ Reviewed(t.raw) /\ Ready(World, t.raw.nonce)
  BY <1>1, <1>2 DEF Send, ScriptWell
<1>4. PICK x : x = script'[s]
  OBVIOUS
<1>5. /\ x.at = "receipt" /\ "at" \in DOMAIN x /\ "next" \in DOMAIN x /\ "raw" \in DOMAIN x
      /\ x.next = t.next /\ x.raw = t.raw
  BY <1>3, <1>4
<1>6. ScriptWell(World, x)
  BY <1>3, <1>5 DEF ScriptWell
<1>7. PICK raw : raw = t.raw
  OBVIOUS
<1>8. pool' = [n \in DOMAIN pool \cup {raw.nonce} |-> IF n = raw.nonce THEN raw ELSE pool[n]]
  BY <1>2, <1>7 DEF Send
<1>9. ASSUME NEW n \in DOMAIN pool'
      PROVE  PoolWell(World, pool'[n], n)
  <2>1. CASE n = raw.nonce
    BY <1>3, <1>7, <1>8, <2>1 DEF PoolWell
  <2>2. CASE n # raw.nonce
    <3>1. n \in DOMAIN pool /\ pool'[n] = pool[n]
      BY <1>8, <2>2
    <3> QED
      BY <3>1 DEF IInv, ChainInv
  <2> QED
    BY <2>1, <2>2
<1> QED
  BY <1>1, <1>4, <1>6, <1>9, OneMoves DEF Send, IInv, RunsInv

\* The receipt is that of the run's own transaction, which was the planned one.
LEMMA WaitReceiptStep ==
  ASSUME IInv, NEW s \in Scripts, WaitReceipt(s)
  PROVE  IInv'
<1>1. /\ DOMAIN script = Scripts /\ DOMAIN desk = Scripts
      /\ ScriptWell(World, script[s])
  BY DEF IInv, RunsInv
<1>2. PICK n, fee, gas, raw :
        n = script[s].next /\ fee = script[s].fee /\ gas = script[s].gas /\ raw = script[s].raw
  OBVIOUS
<1>3. script'[s] = [at |-> "nonce", next |-> n + 1, fee |-> fee, gas |-> gas]
  BY <1>1, <1>2 DEF WaitReceipt
<1>4. Before(World, n) /\ Reviewed(raw)
  BY <1>1, <1>2 DEF WaitReceipt, ScriptWell
<1>5. n < Len(mined) /\ mined[n + 1].status = "ok" /\ mined[n + 1].raw = raw
  BY <1>2 DEF WaitReceipt, Receipt
<1>6. starting_nonce \in Nat /\ Len(Steps) \in Nat /\ Len(mined) \in Nat
  BY PlanShape, DeploymentAssumption DEF IInv, ChainInv
<1>7. n \in Nat /\ n + 1 \in 1 .. Len(mined) /\ (n + 1) - 1 = n
  BY <1>4, <1>5, <1>6 DEF Before
<1>8. MinedWell(World, mined[n + 1], n)
  BY <1>7 DEF IInv, ChainInv
<1>9. n \in Planned /\ Applied(World, n)
  BY <1>4, <1>5, <1>8 DEF MinedWell, Reviewed
<1>10. Before(World, n + 1)
  <2>1. n + 1 \in starting_nonce .. starting_nonce + Len(Steps)
    BY <1>6, <1>7, <1>9 DEF Planned
  <2>2. \A k \in Planned : k < n + 1 => k = n \/ k < n
    BY <1>6, <1>7 DEF Planned
  <2> QED
    BY <1>4, <1>9, <2>1, <2>2 DEF Before
<1>11. ScriptWell(World, script'[s])
  BY <1>3, <1>10 DEF ScriptWell
<1> QED
  BY <1>1, <1>11, OneMoves DEF WaitReceipt, IInv, ChainInv, RunsInv

LEMMA FinishStep ==
  ASSUME IInv, NEW s \in Scripts, Finish(s)
  PROVE  IInv'
<1>1. /\ DOMAIN script = Scripts /\ DOMAIN desk = Scripts
      /\ ScriptWell(World, script[s])
  BY DEF IInv, RunsInv
<1>2. PICK n : n = script[s].next
  OBVIOUS
<1>3. Before(World, n) /\ n \notin Planned
  BY <1>1, <1>2 DEF Finish, Remaining, ScriptWell
<1>4. \A k \in Planned : k < n
  <2>1. starting_nonce \in Nat /\ Len(Steps) \in Nat
    BY PlanShape, DeploymentAssumption
  <2> QED
    BY <1>3, <2>1 DEF Before, Planned
<1>5. \A k \in Planned : Applied(World, k)
  BY <1>3, <1>4 DEF Before
<1>6. script'[s] = [at |-> "done"]
  BY <1>1 DEF Finish
<1>7. ScriptWell(World, script'[s])
  BY <1>5, <1>6 DEF ScriptWell
<1> QED
  BY <1>1, <1>7, OneMoves DEF Finish, IInv, ChainInv, RunsInv

\* What the gateway hands out is what was reviewed for the nonce.
LEMMA ClefSignsStep ==
  ASSUME IInv, NEW s \in Scripts, ClefSigns(s)
  PROVE  IInv'
<1>1. /\ DOMAIN script = Scripts /\ DOMAIN desk = Scripts
      /\ DeskWell(World, desk[s])
  BY DEF IInv, RunsInv
<1>2. PICK tx : tx = desk[s].tx
  OBVIOUS
<1>3. PICK raw :
        /\ raw \in Signatures(tx, Keys, Altered)
        /\ verify_signed_transaction(raw, tx)
        /\ desk' = [desk EXCEPT ![s] = [at |-> "signed", raw |-> raw]]
  BY <1>2 DEF ClefSigns
<1>4. validate_deployment(tx, policy, plan) /\ Ready(World, tx.nonce)
  BY <1>1, <1>2 DEF ClefSigns, Admissible, DeskWell
<1>5. "nonce" \in DOMAIN raw
  BY <1>3 DEF Signatures, SignedFields
<1>6. raw # Elsewhere
  BY <1>5 DEF Elsewhere
<1>7. DOMAIN plan.transactions = Planned /\ plan.deployer = Deployer
  BY DEF plan
<1>8. /\ raw.signer = tx.from /\ raw.nonce = tx.nonce /\ raw.to = tx.to
      /\ raw.data = tx.data /\ raw.gas = tx.gas
  BY <1>3 DEF verify_signed_transaction, SignedFields
<1>9. /\ tx.from = policy.signer_address /\ plan.deployer = policy.signer_address
      /\ tx.gas \in 1 .. policy.max_deployment_gas
      /\ tx.nonce \in DOMAIN plan.transactions
      /\ tx.to = PlannedTx(tx.nonce).to /\ tx.data = PlannedTx(tx.nonce).data
  BY <1>4 DEF validate_deployment, validate_common, PlannedTx
<1>10. tx.gas <= policy.max_deployment_gas
  BY <1>9, DeploymentAssumption
<1>11. Reviewed(raw)
  BY <1>6, <1>7, <1>8, <1>9, <1>10 DEF Reviewed
<1>12. desk'[s] = [at |-> "signed", raw |-> raw]
  BY <1>1, <1>3
<1>13. DeskWell(World, desk'[s])
  BY <1>4, <1>8, <1>11, <1>12 DEF DeskWell
<1> QED
  BY <1>1, <1>3, <1>13, OneMoves DEF ClefSigns, IInv, ChainInv, RunsInv

LEMMA DeskStep ==
  ASSUME IInv, NEW s \in Scripts, Refuse(s) \/ Unclaimed(s)
  PROVE  IInv'
<1>1. /\ DOMAIN script = Scripts /\ DOMAIN desk = Scripts
      /\ DeskWell(World, desk[s])
  BY DEF IInv, RunsInv
<1>2. CASE Refuse(s)
  <2>1. PICK d : d = desk[s]
    OBVIOUS
  <2>2. PICK e : e = desk'[s]
    OBVIOUS
  <2>3. "at" \in DOMAIN d /\ e = [d EXCEPT !.at = "refused"]
    BY <1>1, <1>2, <2>1, <2>2 DEF Refuse, DeskWell
  <2>4. DeskWell(World, e)
    BY <2>3 DEF DeskWell
  <2> QED
    BY <1>1, <1>2, <2>2, <2>4, OneMoves DEF Refuse, IInv, ChainInv, RunsInv
<1>3. CASE Unclaimed(s)
  <2>1. desk'[s] = Free
    BY <1>1, <1>3 DEF Unclaimed
  <2>2. DeskWell(World, desk'[s])
    BY <2>1, FreeDesk
  <2> QED
    BY <1>1, <1>3, <2>2, OneMoves DEF Unclaimed, IInv, ChainInv, RunsInv
<1> QED
  BY <1>2, <1>3

-----------------------------------------------------------------------------
(* The invariant is inductive.                                             *)

LEMMA InitIInv == Init => IInv
<1> SUFFICES ASSUME Init
             PROVE  IInv
  OBVIOUS
<1>1. starting_nonce \in Nat
  BY DeploymentAssumption
<1>2. \E S : mined \in Seq(S)
  <2> DEFINE m == [raw |-> Elsewhere, status |-> "ok"]
  <2>1. mined = [i \in 1 .. starting_nonce |-> m]
    BY DEF Init
  <2> HIDE DEF m
  <2>2. mined \in Seq({m})
    BY <1>1, <2>1
  <2> QED
    BY <2>2
<1>3. \A i \in 1 .. Len(mined) : mined[i].raw = Elsewhere
  BY <1>1 DEF Init
<1>4. ExecutorType
  BY DEF Init, ExecutorType
<1>5. ChainInv
  <2>1. /\ DOMAIN code = {} /\ DOMAIN pool = {} /\ executor.adapterAllowed = {}
    BY DEF Init
  <2> QED
    BY <1>2, <1>3, <1>4, <2>1 DEF ChainInv, MinedWell
<1>6. RunsInv
  BY DEF Init, RunsInv, ScriptWell, DeskWell, Off, Free
<1> QED
  BY <1>5, <1>6 DEF IInv

\* A transaction that is included leaves the runs alone, and nothing that was
\* applied is undone.
LEMMA MineKeepsIInv ==
  ASSUME IInv, Mine
  PROVE  IInv'
<1>1. ChainInv' /\ Grows(World, World')
  BY MineStep
<1>2. UNCHANGED <<script, desk>>
  BY DEF Mine
<1>3. ASSUME NEW s \in Scripts
      PROVE  ScriptWell(World', script'[s]) /\ DeskWell(World', desk'[s])
  <2>1. ScriptWell(World, script[s]) /\ DeskWell(World, desk[s])
    BY DEF IInv, RunsInv
  <2> QED
    BY <1>1, <1>2, <2>1, Monotone
<1> QED
  BY <1>1, <1>2, <1>3 DEF IInv, RunsInv

LEMMA ElsewhereStep ==
  ASSUME IInv, UsedElsewhere
  PROVE  IInv'
<1>1. PICK nonce :
        pool' = [n \in DOMAIN pool \cup {nonce} |-> IF n = nonce THEN Elsewhere ELSE pool[n]]
  BY DEF UsedElsewhere
<1>2. ASSUME NEW n \in DOMAIN pool'
      PROVE  PoolWell(World, pool'[n], n)
  <2>1. CASE n = nonce
    BY <1>1, <2>1 DEF PoolWell
  <2>2. CASE n # nonce
    <3>1. n \in DOMAIN pool /\ pool'[n] = pool[n]
      BY <1>1, <2>2
    <3> QED
      BY <3>1 DEF IInv, ChainInv
  <2> QED
    BY <2>1, <2>2
<1>3. World' = World /\ UNCHANGED <<mined, code, executor, script, desk>>
  BY DEF UsedElsewhere, World
<1> QED
  BY <1>2, <1>3 DEF IInv, ChainInv, RunsInv, ExecutorType

LEMMA IInvHolds == Spec => []IInv
<1>1. Init => IInv
  BY InitIInv
<1>2. IInv /\ [Next]_vars => IInv'
  <2> SUFFICES ASSUME IInv, [Next]_vars
               PROVE  IInv'
    OBVIOUS
  <2>1. CASE Mine
    BY <2>1, MineKeepsIInv
  <2>2. CASE UsedElsewhere
    BY <2>2, ElsewhereStep
  <2>3. ASSUME NEW s \in Scripts, Begin(s) \/ ClefSigns(s) \/ Refuse(s) \/ Unclaimed(s)
        PROVE  IInv'
    BY <2>3, BeginStep, ClefSignsStep, DeskStep
  <2>4. ASSUME NEW s \in Scripts, Run(s)
        PROVE  IInv'
    BY <2>4, VerifyStep, EstimateStep, AskSignerStep, TakeSignatureStep, SendStep,
       WaitReceiptStep, FinishStep, FailsStep DEF Run
  <2>5. CASE UNCHANGED vars
    <3>1. World' = World
      BY <2>5 DEF World, vars
    <3> QED
      BY <2>5, <3>1 DEF vars, IInv, ChainInv, RunsInv, ExecutorType
  <2> QED
    BY <2>1, <2>2, <2>3, <2>4, <2>5 DEF Next
<1> QED
  BY <1>1, <1>2, PTL DEF Spec

-----------------------------------------------------------------------------
(* The theorems.                                                           *)

\* An allowed adapter has its code, as the creations come before the calls.
LEMMA InvImpliesAllowed == IInv => AllowedAreDeployed
<1> SUFFICES ASSUME IInv, NEW a \in executor.adapterAllowed
             PROVE  \/ a = AerodromeAdapter /\ CodeAt(a) = "AerodromeAdapter"
                    \/ a = UniswapAdapter /\ CodeAt(a) = "UniswapV3Adapter"
  BY DEF AllowedAreDeployed
<1>1. a = starting_nonce + 1 \/ a = starting_nonce + 2
  BY CreationsPlanned DEF IInv, ChainInv, ExecutorType, Adapters
<1>2. Ready(World, starting_nonce + 3)
  BY DEF IInv, ChainInv
<1>3. a \in Creations /\ a < starting_nonce + 3
  BY <1>1, DeploymentAssumption DEF Creations
<1>4. Applied(World, a) /\ PlannedTx(a).to = NoAddress
  BY <1>2, <1>3, PlanKinds DEF Ready
<1>5. a \in DOMAIN code /\ code[a] = PlannedTx(a).data.arg
  BY <1>4 DEF Applied, World
<1>6. CodeAt(a) = PlannedTx(a).data.arg
  BY <1>5 DEF CodeAt
<1>7. CASE a = starting_nonce + 1
  BY <1>6, <1>7, PlanKinds, CreationsPlanned DEF Creation
<1>8. CASE a = starting_nonce + 2
  BY <1>6, <1>8, PlanKinds, CreationsPlanned DEF Creation
<1> QED
  BY <1>1, <1>7, <1>8

\* Whatever reached the chain or the node was reviewed for its nonce
\* (validate_deployment and verify_signed_transaction), or is not the script's.
THEOREM OnlyReviewedIsSent == Spec => []OnlyReviewedSent
<1>1. IInv => OnlyReviewedSent
  <2> SUFFICES ASSUME IInv,
                      NEW raw \in {mined[i].raw : i \in DOMAIN mined}
                                    \cup {pool[n] : n \in DOMAIN pool}
               PROVE  raw = Elsewhere \/ Reviewed(raw)
    BY DEF OnlyReviewedSent, Reviewed, PlannedTx
  <2>1. DOMAIN mined = 1 .. Len(mined)
    BY DEF IInv, ChainInv
  <2> QED
    BY <2>1 DEF IInv, ChainInv, PoolWell, MinedWell
<1> QED
  BY <1>1, IInvHolds, PTL

\* The executor trusts only adapters that have been deployed as planned, for
\* any number of runs that fail and resume (verify_deployed_prefix).
THEOREM OnlyDeployedAreAllowed == Spec => []AllowedAreDeployed
BY InvImpliesAllowed, IInvHolds, PTL

\* A run that reports success has put the whole plan into effect.
THEOREM SuccessIsComplete == Spec => []DoneMeansDeployed
<1>1. IInv => DoneMeansDeployed
  <2> SUFFICES ASSUME IInv, NEW s \in Scripts, script[s].at = "done"
               PROVE  /\ CodeAt(Executor) = "BaseArbExecutor"
                      /\ executor.owner = Deployer /\ executor.paused
                      /\ executor.adapterAllowed = {AerodromeAdapter, UniswapAdapter}
                      /\ executor.tokenAllowed = Tokens
                      /\ AllowedAreDeployed
    BY DEF DoneMeansDeployed, Tokens
  <2>1. \A k \in Planned : Applied(World, k)
    BY DEF IInv, RunsInv, ScriptWell
  <2>2. /\ starting_nonce \in Nat /\ Len(Steps) \in Nat
        /\ Len(AllowedTokens) \in Nat /\ DOMAIN AllowedTokens = 1 .. Len(AllowedTokens)
        /\ Len(Steps) >= 5 + Len(AllowedTokens)
    BY PlanShape, DeploymentAssumption
  <2>3. Executor \in DOMAIN code /\ code[Executor] = "BaseArbExecutor"
    <3>1. starting_nonce \in Planned /\ Executor = starting_nonce
      BY <2>2, CreationsPlanned DEF Planned
    <3> QED
      BY <2>1, <3>1, PlanKinds DEF Applied, World, Creation
  <2>4. executor.owner = Deployer /\ executor.paused /\ CodeAt(Executor) = "BaseArbExecutor"
    BY <2>3 DEF IInv, ChainInv, CodeAt
  <2>5. Executor # NoAddress
    BY CreationsPlanned, DeploymentAssumption
  <2>6. AerodromeAdapter \in executor.adapterAllowed /\ UniswapAdapter \in executor.adapterAllowed
    <3>1. starting_nonce + 3 \in Planned /\ starting_nonce + 4 \in Planned
      BY <2>2 DEF Planned
    <3>2. Applied(World, starting_nonce + 3) /\ Applied(World, starting_nonce + 4)
      BY <2>1, <3>1
    <3> QED
      BY <2>5, <3>2, PlanKinds DEF Applied, World, CallExecutor
  <2>7. ASSUME NEW i \in DOMAIN AllowedTokens
        PROVE  AllowedTokens[i] \in executor.tokenAllowed
    <3>1. starting_nonce + 4 + i \in Planned
      BY <2>2 DEF Planned
    <3>2. Applied(World, starting_nonce + 4 + i)
      BY <2>1, <3>1
    <3>3. PlannedTx(starting_nonce + 4 + i) = CallExecutor("setToken", AllowedTokens[i])
      BY PlanShape
    <3> QED
      BY <2>5, <3>2, <3>3 DEF Applied, World, CallExecutor
  <2>8. executor.adapterAllowed \subseteq Adapters /\ executor.tokenAllowed \subseteq Tokens
    BY DEF IInv, ChainInv, ExecutorType
  <2> QED
    BY <2>4, <2>6, <2>7, <2>8, InvImpliesAllowed DEF Adapters, Tokens
<1> QED
  BY <1>1, IInvHolds, PTL

=============================================================================
