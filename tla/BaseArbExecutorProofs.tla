----------------------- MODULE BaseArbExecutorProofs -----------------------
(***************************************************************************)
(* Theorems about BaseArbExecutor for every set of accounts, tokens,       *)
(* adapters and orders and for every amount, proved from the inductive     *)
(* invariant Inv of that module, and that it implements AtomicArbitrage.   *)
(***************************************************************************)
EXTENDS BaseArbExecutor, SequenceTheorems, TLAPS

\* The paused, empty contract the constructor creates satisfies the invariant.
LEMMA InitInv == Init => Inv
  <1> USE AccountAssumption, HashAssumption, OrderAssumption, AmountAssumption
  <1> SUFFICES ASSUME Init PROVE Inv
    OBVIOUS
  <1>1. TypeOK
    BY DEF Init, TypeOK, Stores, Ledgers, Balances, Allowances, NoAllowance,
           Calls, Idle
  <1>2. QED
    BY <1>1 DEF Init, Inv, Control, Locks, Commitment, Boundaries, OneAllowance,
           EventsCommitted, Selection, NothingLeftOver, ExecutedOnce,
           AttemptsStartAlike, SelectionIsFinal, RepaymentCovered, InOperation, AtRest

\* Nobody is idle inside an operation: an entry point that demands idleness
\* can only be called between transactions.
LEMMA OnlyIdleMeansIdle ==
  ASSUME Inv, OnlyIdle
  PROVE  pc = "idle"
  BY DEF Inv, Locks, OnlyIdle, InOperation

\* Between transactions, a step that keeps the store at rest, the commitments
\* and the allowances keeps the invariant.
LEMMA IdleStep ==
  ASSUME Inv, pc = "idle",
         store' \in Stores, AtRest(store'),
         store'.commitmentUsed = store.commitmentUsed,
         ledger' \in Ledgers, ledger'.allow = NoAllowance,
         UNCHANGED <<frames, pc, call, events>>,
         block' \in Nat
  PROVE  Inv'
  <1>1. TypeOK'
    BY DEF Inv, TypeOK
  <1>2. frames = <<>> /\ frames' = <<>>
    BY DEF Inv, Control
  <1>3. EventsCommitted'
    BY <1>2 DEF Inv, EventsCommitted, Outermost, Snapshot
  <1>4. NothingLeftOver'
    BY DEF NothingLeftOver, AtRest
  <1>5. ExecutedOnce'
    BY DEF Inv, ExecutedOnce
  <1>6. QED
    BY <1>1, <1>2, <1>3, <1>4, <1>5
    DEF Inv, Control, Locks, Commitment, Boundaries, OneAllowance, Selection,
        AttemptsStartAlike, SelectionIsFinal, RepaymentCovered, InOperation

-----------------------------------------------------------------------------
(* The steps between transactions.                                         *)

\* setAdapter, setToken, setPaused, the two ownership calls and sweep are only
\* possible between transactions, where they keep the invariant.
LEMMA AdministrationStep ==
  ASSUME Inv, Administration
  PROVE  Inv'
  <1> USE AccountAssumption
  <1>0. store \in Stores /\ ledger \in Ledgers /\ block \in Nat
    BY DEF Inv, TypeOK
  <1>1. PICK caller \in Accounts :
          \/ \E adapter \in Adapters, allowed \in BOOLEAN : SetAdapter(caller, adapter, allowed)
          \/ \E token \in Tokens, allowed \in BOOLEAN : SetToken(caller, token, allowed)
          \/ \E value \in BOOLEAN : SetPaused(caller, value)
          \/ \E next \in Accounts : TransferOwnership(caller, next)
          \/ AcceptOwnership(caller)
          \/ \E token \in Tokens, amount \in 0 .. MaxBalance : Sweep(caller, token, amount)
    BY DEF Administration
  <1>2. OnlyIdle
    BY <1>1 DEF SetAdapter, SetToken, SetPaused, TransferOwnership, AcceptOwnership, Sweep
  <1>3. pc = "idle"
    BY <1>2, OnlyIdleMeansIdle
  <1>4. AtRest(store) /\ ledger.allow = NoAllowance
    BY <1>3 DEF Inv, Locks, InOperation, NothingLeftOver
  <1>5. CASE \E token \in Tokens, amount \in 0 .. MaxBalance : Sweep(caller, token, amount)
    <2>1. PICK token \in Tokens, amount \in 0 .. MaxBalance : Sweep(caller, token, amount)
      BY <1>5
    <2>2. ledger' \in Ledgers /\ ledger'.allow = NoAllowance
      BY <1>0, <1>4, <2>1, AmountAssumption DEF Sweep, Ledgers, Balances
    <2>3. QED
      BY <1>0, <1>3, <1>4, <2>1, <2>2, IdleStep DEF Sweep
  <1>6. CASE ~ \E token \in Tokens, amount \in 0 .. MaxBalance : Sweep(caller, token, amount)
    <2>1. /\ store' \in Stores /\ AtRest(store')
          /\ store'.commitmentUsed = store.commitmentUsed
          /\ UNCHANGED <<ledger, frames, pc, call, events, block>>
      <3>1. CASE \E adapter \in Adapters, allowed \in BOOLEAN : SetAdapter(caller, adapter, allowed)
        BY <1>0, <1>4, <3>1 DEF SetAdapter, Stores, AtRest
      <3>2. CASE \E token \in Tokens, allowed \in BOOLEAN : SetToken(caller, token, allowed)
        BY <1>0, <1>4, <3>2 DEF SetToken, Stores, AtRest
      <3>3. CASE \E value \in BOOLEAN : SetPaused(caller, value)
        BY <1>0, <1>4, <3>3 DEF SetPaused, Stores, AtRest
      <3>4. CASE \E next \in Accounts : TransferOwnership(caller, next)
        BY <1>0, <1>4, <3>4 DEF TransferOwnership, Stores, AtRest
      <3>5. CASE AcceptOwnership(caller)
        BY <1>0, <1>4, <3>5 DEF AcceptOwnership, Stores, AtRest
      <3>6. QED
        BY <1>1, <1>6, <3>1, <3>2, <3>3, <3>4, <3>5
    <2>2. QED
      BY <1>0, <1>3, <1>4, <2>1, IdleStep
  <1>7. QED
    BY <1>5, <1>6

\* A new block changes nothing the contract keeps.
LEMMA NewBlockStep ==
  ASSUME Inv, NewBlock
  PROVE  Inv'
  <1>1. store \in Stores /\ ledger \in Ledgers /\ block' \in Nat
    BY DEF Inv, TypeOK, NewBlock
  <1>2. AtRest(store) /\ ledger.allow = NoAllowance
    BY DEF Inv, Locks, InOperation, NothingLeftOver, NewBlock
  <1>3. QED
    BY <1>1, <1>2, IdleStep DEF NewBlock

-----------------------------------------------------------------------------
(* The steps of an operation.                                              *)

\* The tail of start and startPacked opens an operation: the state before it is
\* saved, the commitment is new, and the loan arrives.
LEMMA BorrowStep ==
  ASSUME Inv, NEW o \in Orders, pc = "idle",
         NEW activated \in Stores, Borrow(o, activated),
         Config(activated) = Config(store),
         activated.commitmentUsed = store.commitmentUsed,
         ~activated.callbackEntered,
         activated.activeRouteHash = (IF o.kind = "route" THEN Hash[o] ELSE NoHash),
         activated.activeBatchHash = (IF o.kind = "packed" THEN Hash[o] ELSE NoHash),
         Hash[o] \notin store.commitmentUsed,
         o.kind = "packed" => \A i \in DOMAIN o.menu : o.menu[i].id # 0
  PROVE  Inv'
  <1> USE OrderAssumption, HashAssumption, AmountAssumption
  <1> USE DEF InOperation
  <1>0. /\ TypeOK /\ frames = <<>> /\ AtRest(store) /\ ledger.allow = NoAllowance
        /\ o.asset \in Tokens /\ o.amount \in Nat /\ Hash[o] \in Hashes
    BY DEF Inv, Control, Locks, NothingLeftOver, Hashes, Order
  <1>1. PICK premium \in Premiums : call' = [Idle EXCEPT !.order = o, !.premium = premium]
    BY DEF Borrow
  <1>2. call' \in Calls /\ call'.order = o /\ call' = [Idle EXCEPT !.order = o, !.premium = premium]
    BY <1>1 DEF Calls, Idle
  <1>3. /\ pc' = "pool" /\ frames' = <<Snapshot>> /\ UNCHANGED <<events, block>>
        /\ store' = [activated EXCEPT
                       !.operationEntered = TRUE,
                       !.commitmentUsed = @ \cup {Hash[o]},
                       !.activePreLoanBalance = ledger.bal[o.asset]]
        /\ ledger' = [ledger EXCEPT !.bal[o.asset] = @ + o.amount]
    BY DEF Borrow
  <1>4. frames'[1] = Snapshot /\ Len(frames') = 1 /\ frames' \in Seq(Snapshots)
    BY <1>0, <1>3 DEF TypeOK, Snapshot, Snapshots
  <1>5. TypeOK'
    <2>1. store' \in Stores
      BY <1>0, <1>3 DEF TypeOK, Stores, Ledgers, Balances
    <2>2. ledger' \in Ledgers
      <3>1. ledger \in Ledgers /\ ledger.bal \in Balances
        BY <1>0 DEF TypeOK, Ledgers
      <3>2. [ledger.bal EXCEPT ![o.asset] = @ + o.amount] \in Balances
        BY <1>0, <3>1 DEF Balances
      <3>3. QED
        BY <1>3, <3>1, <3>2 DEF Ledgers
    <2>3. QED
      BY <1>0, <1>2, <1>3, <1>4, <2>1, <2>2 DEF TypeOK
  <1>6. Control'
    BY <1>2, <1>3, <1>4 DEF Control
  <1>7. Locks'
    BY <1>0, <1>3, <1>4 DEF Locks, Snapshot, Stores
  <1>8. Commitment'
    BY <1>0, <1>2, <1>3, <1>4 DEF Commitment, Snapshot, Stores, Config
  <1>9. Boundaries'
    BY <1>0, <1>2, <1>3, <1>4 DEF Boundaries, Snapshot, Stores, Loaned, TypeOK, Ledgers
  <1>10. OneAllowance'
    BY <1>0, <1>3 DEF OneAllowance, TypeOK, Ledgers
  <1>11. EventsCommitted'
    BY <1>0, <1>3, <1>4 DEF Inv, EventsCommitted, Outermost, Snapshot
  <1>12. ExecutedOnce'
    BY <1>3 DEF Inv, ExecutedOnce
  <1>13. Selection'
    BY <1>2, <1>3 DEF Selection
  <1>14. QED
    BY <1>3, <1>5, <1>6, <1>7, <1>8, <1>9, <1>10, <1>11, <1>12, <1>13
    DEF Inv, NothingLeftOver, AttemptsStartAlike, SelectionIsFinal, RepaymentCovered

\* start and startPacked, the entry points that take the lock.
LEMMA OpeningStep ==
  ASSUME Inv, Opening
  PROVE  Inv'
  <1>1. PICK caller \in Accounts, o \in Orders :
          \/ \E declared \in Hashes : Start(caller, o, declared)
          \/ StartPacked(caller, o)
    BY DEF Opening
  <1>2. /\ OperationLock /\ Hash[o] \notin store.commitmentUsed
        /\ store \in Stores
    BY <1>1 DEF Start, StartPacked, Startable, Uncommitted, Inv, TypeOK
  <1>3. pc = "idle" /\ ~store.callbackEntered
    BY <1>2 DEF Inv, Locks, InOperation, OperationLock, AtRest
  <1>4. CASE \E declared \in Hashes : Start(caller, o, declared)
    <2>1. PICK declared \in Hashes : Start(caller, o, declared)
      BY <1>4
    <2> DEFINE activated == [store EXCEPT !.activeRouteHash = declared]
    <2>2. /\ activated \in Stores /\ Config(activated) = Config(store)
          /\ activated.commitmentUsed = store.commitmentUsed
          /\ ~activated.callbackEntered
          /\ activated.activeRouteHash = (IF o.kind = "route" THEN Hash[o] ELSE NoHash)
          /\ activated.activeBatchHash = (IF o.kind = "packed" THEN Hash[o] ELSE NoHash)
      BY <1>2, <1>3, <2>1 DEF Stores, Config, Start, AtRest, Inv, Locks, InOperation
    <2>3. Borrow(o, activated) /\ o.kind = "route"
      BY <2>1 DEF Start
    <2> HIDE DEF activated
    <2>4. QED
      BY <1>2, <1>3, <2>2, <2>3, BorrowStep
  <1>5. CASE StartPacked(caller, o)
    <2> DEFINE activated == [store EXCEPT !.activeBatchHash = Hash[o],
                                          !.activeSelectedCandidateId = 0,
                                          !.activeSelectedCandidateIndex = 0,
                                          !.activeSelectedMinProfit = 0]
    <2>1. /\ activated \in Stores /\ Config(activated) = Config(store)
          /\ activated.commitmentUsed = store.commitmentUsed
          /\ ~activated.callbackEntered
          /\ activated.activeRouteHash = (IF o.kind = "route" THEN Hash[o] ELSE NoHash)
          /\ activated.activeBatchHash = (IF o.kind = "packed" THEN Hash[o] ELSE NoHash)
      BY <1>2, <1>3, <1>5 DEF Stores, Config, Hashes, StartPacked, AtRest, Inv, Locks, InOperation
    <2>2. Borrow(o, activated) /\ \A i \in DOMAIN o.menu : o.menu[i].id # 0
      BY <1>5 DEF StartPacked, ValidPacked
    <2> HIDE DEF activated
    <2>3. QED
      BY <1>2, <1>3, <2>1, <2>2, BorrowStep
  <1>6. QED
    BY <1>1, <1>4, <1>5

\* The types of what a running operation points at.
LEMMA OrderTypes ==
  ASSUME Inv, pc # "idle"
  PROVE  /\ call.order \in Order /\ call.order.asset \in Tokens
         /\ call.order.amount \in Nat /\ call.premium \in Nat /\ Owed \in Nat
         /\ call.order.menu \in Seq(Candidate)
         /\ call.order.kind \in {"route", "packed"}
         /\ call.order.kind = "route" => Len(call.order.menu) = 1
         /\ frames # <<>> /\ frames[1] \in Snapshots
         /\ frames[1].store \in Stores /\ frames[1].ledger \in Ledgers
  <1>1. call.order \in Orders /\ call \in Calls /\ frames \in Seq(Snapshots) /\ frames # <<>>
    BY DEF Inv, Control, TypeOK, InOperation
  <1>2. call.order \in Order /\ (call.order.kind = "route" => Len(call.order.menu) = 1)
    BY <1>1, OrderAssumption
  <1>3. call.order.asset \in Tokens /\ call.order.amount \in Nat /\ call.premium \in Nat
        /\ call.order.menu \in Seq(Candidate) /\ call.order.kind \in {"route", "packed"}
    BY <1>1, <1>2 DEF Order, Calls
  <1>4. frames[1] \in Snapshots
    <2>1. Len(frames) \in Nat /\ Len(frames) # 0
      BY <1>1
    <2>2. QED
      BY <1>1, <2>1
  <1>5. QED
    BY <1>1, <1>2, <1>3, <1>4 DEF Owed, Snapshots

\* The types of the candidate being tried or selected.
LEMMA CandidateTypes ==
  ASSUME Inv, pc \in {"leg", "swap", "selected", "settle"}
  PROVE  /\ CurrentCandidate \in Candidate
         /\ CurrentCandidate.minProfit \in Nat /\ CurrentCandidate.id \in Nat
         /\ CurrentCandidate.legs \in Seq(Leg)
         /\ call.cand \in 1 .. Len(call.order.menu)
  <1>1. call.cand \in DOMAIN call.order.menu /\ call.order.menu \in Seq(Candidate)
    BY OrderTypes DEF Inv, Control
  <1>2. CurrentCandidate \in Candidate
    BY <1>1 DEF CurrentCandidate
  <1>3. call.cand \in 1 .. Len(call.order.menu)
    BY <1>1
  <1>4. QED
    BY <1>2, <1>3 DEF Candidate

\* The types of the leg being executed.
LEMMA LegTypes ==
  ASSUME Inv, pc \in {"leg", "swap"}, ~LegsDone
  PROVE  /\ CurrentLeg \in Leg
         /\ CurrentLeg.adapter \in Adapters /\ CurrentLeg.adapter \in Spenders
         /\ CurrentLeg.tokenIn \in Tokens /\ CurrentLeg.tokenOut \in Tokens
         /\ CurrentLeg.minOut \in Nat
  <1>1. call.leg \in 1 .. Len(CurrentCandidate.legs) /\ CurrentCandidate.legs \in Seq(Leg)
    BY CandidateTypes DEF Inv, Control, LegsDone
  <1>2. CurrentLeg \in Leg
    BY <1>1 DEF CurrentLeg
  <1>3. QED
    BY <1>2 DEF Leg, Spenders

\* The pool's callback enters the order that was committed, and no other.
LEMMA ExecuteOperationStep ==
  ASSUME Inv, ExecuteOperation
  PROVE  Inv'
  <1> USE DEF InOperation
  <1>0. /\ pc = "pool" /\ pc' \in {"menu", "leg"} /\ ~store.callbackEntered
        /\ store' = [store EXCEPT !.callbackEntered = TRUE]
        /\ call' = [call EXCEPT !.cand = 1, !.leg = 1]
        /\ UNCHANGED <<ledger, frames, events, block>>
    BY DEF ExecuteOperation
  <1>1. TypeOK
    BY DEF Inv
  <1>2. call' \in Calls /\ call'.order = call.order /\ call'.premium = call.premium
        /\ call'.cand = 1 /\ call'.leg = 1
    BY <1>0, <1>1 DEF TypeOK, Calls
  <1>3. store' \in Stores /\ store'.callbackEntered
    BY <1>0, <1>1 DEF TypeOK, Stores
  <1>4. TypeOK'
    BY <1>0, <1>1, <1>2, <1>3 DEF TypeOK
  <1>5. \/ /\ call.order.kind = "packed" /\ pc' = "menu"
        \/ /\ call.order.kind = "route" /\ pc' = "leg" /\ Len(call.order.menu) = 1
    BY <1>0, OrderTypes, HashAssumption
    DEF ExecuteOperation, Inv, Commitment, Control, Hashes
  <1>6. Control'
    <2>1. frames' # <<>> /\ Len(frames') = 1 /\ call'.order \in Orders
      BY <1>0, <1>2 DEF Inv, Control
    <2>2. CASE pc' = "menu"
      BY <1>2, <1>5, <2>1, <2>2 DEF Control
    <2>3. CASE pc' = "leg"
      <3>1. 1 \in DOMAIN call.order.menu /\ call.order.menu[1] \in Candidate
        <4>1. call.order.menu \in Seq(Candidate) /\ Len(call.order.menu) = 1
          BY <1>0, <1>5, <2>3, OrderTypes
        <4>2. QED
          BY <4>1
      <3>2. CurrentCandidate' = call.order.menu[1]
        BY <1>2 DEF CurrentCandidate
      <3>3. 1 \in 1 .. Len(CurrentCandidate'.legs) + 1
        BY <3>1, <3>2 DEF Candidate
      <3>4. QED
        BY <1>2, <1>5, <2>1, <2>3, <3>1, <3>3 DEF Control
    <2>4. QED
      BY <1>0, <2>2, <2>3
  <1>7. Locks'
    BY <1>0, <1>1, <1>3 DEF Inv, Locks, TypeOK, Stores
  <1>8. Commitment'
    BY <1>0, <1>1, <1>2 DEF Inv, Commitment, TypeOK, Stores, Config
  <1>9. Loaned' = Loaned
    BY <1>0, <1>2 DEF Loaned
  <1>10. Boundaries'
    BY <1>0, <1>1, <1>2, <1>5, <1>9 DEF Inv, Boundaries, TypeOK, Stores
  <1>11. OneAllowance'
    BY <1>0 DEF Inv, OneAllowance
  <1>12. EventsCommitted'
    BY <1>0 DEF Inv, EventsCommitted, Outermost, Control
  <1>13. ExecutedOnce'
    BY <1>0 DEF Inv, ExecutedOnce
  <1>14. Selection'
    BY <1>0, <1>2 DEF Inv, Selection
  <1>15. AttemptsStartAlike'
    BY <1>0, <1>2 DEF Inv, AttemptsStartAlike, Boundaries, OneAllowance, Loaned
  <1>16. QED
    BY <1>0, <1>4, <1>6, <1>7, <1>8, <1>10, <1>11, <1>12, <1>13, <1>14, <1>15
    DEF Inv, NothingLeftOver, SelectionIsFinal, RepaymentCovered

\* Opening a candidate's boundary saves the state every attempt starts from.
LEMMA AttemptPackedCandidateStep ==
  ASSUME Inv, AttemptPackedCandidate
  PROVE  Inv'
  <1> USE DEF InOperation
  <1>0. /\ pc = "menu" /\ pc' = "leg" /\ call.cand <= Len(call.order.menu)
        /\ frames' = Append(frames, Snapshot)
        /\ call' = [call EXCEPT !.leg = 1, !.before = ledger.bal[call.order.asset]]
        /\ UNCHANGED <<store, ledger, events, block>>
    BY DEF AttemptPackedCandidate
  <1>1. /\ TypeOK /\ Len(frames) = 1 /\ frames \in Seq(Snapshots) /\ call.order.kind = "packed"
        /\ call.cand >= 1 /\ call.order \in Orders /\ ledger.bal = Loaned
        /\ ledger.allow = NoAllowance
    BY <1>0 DEF Inv, TypeOK, Control, Boundaries, OneAllowance
  <1>2. Snapshot \in Snapshots
    BY <1>1 DEF Snapshot, Snapshots, TypeOK
  <1>3. /\ frames' \in Seq(Snapshots) /\ Len(frames') = 2
        /\ frames'[1] = frames[1] /\ frames'[2] = Snapshot
    BY <1>0, <1>1, <1>2
  <1>4. ledger.bal[call.order.asset] \in Nat
    BY <1>0, <1>1, OrderTypes DEF TypeOK, Ledgers, Balances
  <1>5. /\ call' \in Calls /\ call'.order = call.order /\ call'.premium = call.premium
        /\ call'.cand = call.cand /\ call'.leg = 1
        /\ call'.before = ledger.bal[call.order.asset]
    BY <1>0, <1>1, <1>4 DEF TypeOK, Calls
  <1>6. TypeOK'
    BY <1>0, <1>1, <1>3, <1>5 DEF TypeOK
  <1>7. Control'
    <2>1. call.order.menu \in Seq(Candidate) /\ call.cand \in Nat
      BY <1>0, <1>1, OrderTypes DEF TypeOK, Calls
    <2>2. call.cand \in DOMAIN call.order.menu /\ call.order.menu[call.cand] \in Candidate
      BY <1>0, <1>1, <2>1
    <2>3. CurrentCandidate' = call.order.menu[call.cand]
      BY <1>5 DEF CurrentCandidate
    <2>4. 1 \in 1 .. Len(CurrentCandidate'.legs) + 1
      BY <2>2, <2>3 DEF Candidate
    <2>5. frames' # <<>>
      BY <1>3, EmptySeq
    <2>6. QED
      BY <1>0, <1>1, <1>3, <1>5, <2>2, <2>4, <2>5 DEF Control
  <1>8. Locks'
    BY <1>0, <1>3 DEF Inv, Locks
  <1>9. Commitment'
    BY <1>0, <1>3, <1>5 DEF Inv, Commitment
  <1>10. Loaned' = Loaned
    BY <1>3, <1>5 DEF Loaned
  <1>11. Boundaries'
    <2>1. Snapshot = [store |-> store', ledger |-> [bal |-> Loaned, allow |-> NoAllowance]]
      BY <1>0, <1>1 DEF Snapshot, TypeOK, Ledgers
    <2>2. QED
      BY <1>0, <1>1, <1>3, <1>5, <1>10, <2>1 DEF Inv, Boundaries
  <1>12. OneAllowance'
    BY <1>0, <1>1 DEF OneAllowance
  <1>13. EventsCommitted'
    <2>1. frames # <<>> /\ frames' # <<>>
      BY <1>0, <1>3, <1>7 DEF Inv, Control
    <2>2. QED
      BY <1>0, <1>3, <2>1 DEF Inv, EventsCommitted, Outermost
  <1>14. ExecutedOnce'
    BY <1>0 DEF Inv, ExecutedOnce
  <1>15. Selection'
    BY <1>0, <1>5 DEF Inv, Selection
  <1>16. AttemptsStartAlike'
    BY <1>0, <1>1, <1>3, <1>5 DEF AttemptsStartAlike, Loaned
  <1>17. QED
    BY <1>0, <1>6, <1>7, <1>8, <1>9, <1>11, <1>12, <1>13, <1>14, <1>15, <1>16
    DEF Inv, NothingLeftOver, SelectionIsFinal, RepaymentCovered

\* Within a leg the storage, the boundaries and the events stay as they are;
\* what depends on them only is stated once for both halves of a leg.
LEMMA LegKeeps ==
  ASSUME Inv, pc \in {"leg", "swap"}, pc' \in {"leg", "swap"},
         UNCHANGED <<store, frames, events, block>>,
         call' \in Calls, call'.order = call.order, call'.premium = call.premium,
         call'.cand = call.cand, call'.before = call.before,
         ledger' \in Ledgers
  PROVE  /\ TypeOK' /\ Locks' /\ Commitment' /\ Boundaries' /\ EventsCommitted'
         /\ Selection' /\ NothingLeftOver' /\ ExecutedOnce' /\ SelectionIsFinal'
         /\ RepaymentCovered' /\ CurrentCandidate' = CurrentCandidate
  <1> USE DEF InOperation
  <1>1. TypeOK'
    BY DEF Inv, TypeOK
  <1>2. CurrentCandidate' = CurrentCandidate /\ Loaned' = Loaned
    BY DEF CurrentCandidate, Loaned
  <1>3. Locks' /\ Commitment'
    BY DEF Inv, Locks, Commitment
  <1>4. Boundaries'
    BY <1>2 DEF Inv, Boundaries
  <1>5. EventsCommitted' /\ ExecutedOnce'
    BY DEF Inv, EventsCommitted, ExecutedOnce, Outermost, Control
  <1>6. Selection'
    BY DEF Inv, Selection
  <1>7. QED
    BY <1>1, <1>2, <1>3, <1>4, <1>5, <1>6
    DEF NothingLeftOver, SelectionIsFinal, RepaymentCovered

\* Calling an adapter grants it one allowance and opens no other.
LEMMA CallAdapterStep ==
  ASSUME Inv, CallAdapter
  PROVE  Inv'
  <1> USE DEF InOperation
  <1>0. /\ pc = "leg" /\ pc' = "swap" /\ ~LegsDone
        /\ ledger' = [ledger EXCEPT !.allow[CurrentLeg.adapter][CurrentLeg.tokenIn] = LegInput]
        /\ call' = [call EXCEPT !.amountIn = LegInput,
                                !.beforeOut = ledger.bal[CurrentLeg.tokenOut]]
        /\ UNCHANGED <<store, frames, events, block>>
    BY DEF CallAdapter
  <1>1. TypeOK /\ ledger \in Ledgers /\ ledger.bal \in Balances /\ ledger.allow = NoAllowance
        /\ call \in Calls
    BY <1>0 DEF Inv, TypeOK, OneAllowance, Ledgers
  <1>2. LegInput \in Nat /\ ledger.bal[CurrentLeg.tokenOut] \in Nat
    BY <1>0, <1>1, LegTypes, OrderTypes DEF LegInput, Balances
  <1>3. /\ call' \in Calls /\ call'.order = call.order /\ call'.premium = call.premium
        /\ call'.cand = call.cand /\ call'.leg = call.leg /\ call'.before = call.before
        /\ call'.amountIn = LegInput
    BY <1>0, <1>1, <1>2 DEF Calls
  <1>4. [ledger.allow EXCEPT ![CurrentLeg.adapter][CurrentLeg.tokenIn] = LegInput] \in Allowances
    BY <1>0, <1>1, <1>2, LegTypes DEF Ledgers, Allowances
  <1>5. ledger' \in Ledgers
        /\ ledger'.allow = [NoAllowance EXCEPT ![CurrentLeg.adapter][CurrentLeg.tokenIn] = LegInput]
    BY <1>0, <1>1, <1>4 DEF Ledgers
  <1>6. /\ TypeOK' /\ Locks' /\ Commitment' /\ Boundaries' /\ EventsCommitted'
        /\ Selection' /\ NothingLeftOver' /\ ExecutedOnce' /\ SelectionIsFinal'
        /\ RepaymentCovered' /\ CurrentCandidate' = CurrentCandidate
    BY <1>0, <1>3, <1>5, LegKeeps
  <1>7. CurrentLeg' = CurrentLeg /\ LegsDone' = LegsDone
    BY <1>3, <1>6 DEF CurrentLeg, LegsDone
  <1>8. Control'
    BY <1>0, <1>3, <1>6, <1>7 DEF Inv, Control
  <1>9. OneAllowance'
    BY <1>0, <1>3, <1>5, <1>7 DEF OneAllowance
  <1>10. QED
    BY <1>0, <1>6, <1>8, <1>9 DEF Inv, AttemptsStartAlike

\* When the adapter returns its allowance is withdrawn, whatever it took.
LEMMA AdapterReturnsStep ==
  ASSUME Inv, NEW pulled \in Nat, NEW out \in Outputs, AdapterReturns(pulled, out)
  PROVE  Inv'
  <1> USE DEF InOperation
  <1> DEFINE l == CurrentLeg
             delivered == ledger.bal[l.tokenOut] + out
  <1> HIDE DEF l, delivered
  <1>0. /\ pc = "swap" /\ pc' = "leg" /\ pulled <= ledger.bal[l.tokenIn]
        /\ ledger' = [ledger EXCEPT !.bal[l.tokenIn] = @ - pulled,
                                    !.bal[l.tokenOut] = delivered,
                                    !.allow[l.adapter][l.tokenIn] = 0]
        /\ call' = [call EXCEPT !.leg = @ + 1, !.amountIn = 0, !.beforeOut = 0]
        /\ UNCHANGED <<store, frames, events, block>>
    BY DEF AdapterReturns, ApprovalLeft, l, delivered
  <1>1. /\ TypeOK /\ ledger \in Ledgers /\ ledger.bal \in Balances /\ call \in Calls
        /\ ~LegsDone /\ call.leg \in 1 .. Len(CurrentCandidate.legs) + 1
        /\ ledger.allow = [NoAllowance EXCEPT ![l.adapter][l.tokenIn] = call.amountIn]
    BY <1>0 DEF Inv, TypeOK, OneAllowance, Ledgers, Control, l
  <1>2. l.tokenIn \in Tokens /\ l.tokenOut \in Tokens /\ l.adapter \in Spenders
    BY <1>0, <1>1, LegTypes DEF l
  <1>3. /\ ledger.bal[l.tokenIn] - pulled \in Nat
        /\ delivered \in Nat
    <2>1. ledger.bal[l.tokenIn] \in Nat /\ ledger.bal[l.tokenOut] \in Nat /\ out \in Nat
      BY <1>1, <1>2, AmountAssumption DEF Balances
    <2>2. QED
      BY <1>0, <2>1 DEF delivered
  <1>4. [ledger.bal EXCEPT ![l.tokenIn] = @ - pulled, ![l.tokenOut] = delivered] \in Balances
    BY <1>1, <1>2, <1>3 DEF Balances
  <1>5. [ledger.allow EXCEPT ![l.adapter][l.tokenIn] = 0] = NoAllowance
    BY <1>1, <1>2 DEF NoAllowance
  <1>6. ledger' \in Ledgers /\ ledger'.allow = NoAllowance
    <2>1. /\ ledger'.bal = [ledger.bal EXCEPT ![l.tokenIn] = @ - pulled, ![l.tokenOut] = delivered]
          /\ ledger'.allow = [ledger.allow EXCEPT ![l.adapter][l.tokenIn] = 0]
          /\ ledger' = [bal |-> ledger'.bal, allow |-> ledger'.allow]
      BY <1>0, <1>1 DEF Ledgers
    <2>2. NoAllowance \in Allowances
      BY DEF NoAllowance, Allowances
    <2>3. QED
      BY <1>4, <1>5, <2>1, <2>2 DEF Ledgers
  <1>7. /\ call' \in Calls /\ call'.order = call.order /\ call'.premium = call.premium
        /\ call'.cand = call.cand /\ call'.leg = call.leg + 1 /\ call'.before = call.before
    <2>1. call.leg + 1 \in Nat
      BY <1>1 DEF Calls
    <2>2. QED
      BY <1>0, <1>1, <2>1 DEF Calls
  <1>8. /\ TypeOK' /\ Locks' /\ Commitment' /\ Boundaries' /\ EventsCommitted'
        /\ Selection' /\ NothingLeftOver' /\ ExecutedOnce' /\ SelectionIsFinal'
        /\ RepaymentCovered' /\ CurrentCandidate' = CurrentCandidate
    BY <1>0, <1>6, <1>7, LegKeeps
  <1>9. Control'
    <2>1. CurrentCandidate.legs \in Seq(Leg) /\ call.leg \in Nat
      BY <1>0, <1>1, CandidateTypes DEF Calls
    <2>2. call.leg + 1 \in 1 .. Len(CurrentCandidate.legs) + 1
      BY <1>1, <2>1 DEF LegsDone
    <2>3. QED
      BY <1>0, <1>7, <1>8, <2>2 DEF Inv, Control
  <1>10. OneAllowance'
    BY <1>0, <1>6 DEF OneAllowance
  <1>11. AttemptsStartAlike'
    <2>1. call'.leg # 1
      BY <1>1, <1>7 DEF Calls
    <2>2. QED
      BY <2>1 DEF AttemptsStartAlike
  <1>12. QED
    BY <1>8, <1>9, <1>10, <1>11 DEF Inv

\* Both ends of the callback approve the pool and return to it.
LEMMA ReturnToPoolStep ==
  ASSUME Inv, pc \in {"leg", "selected"}, Len(frames) = 1,
         ReturnToPool(CurrentCandidate.minProfit),
         call.order.kind = "packed" =>
           store.activeSelectedMinProfit = CurrentCandidate.minProfit,
         ledger.allow = NoAllowance
  PROVE  Inv'
  <1> USE DEF InOperation
  <1>0. /\ pc' = "settle"
        /\ ledger.bal[call.order.asset] >=
             store.activePreLoanBalance + Owed + CurrentCandidate.minProfit
        /\ store' = [store EXCEPT !.activePremium = call.premium,
                                  !.callbackEntered = FALSE]
        /\ ledger' = [ledger EXCEPT !.allow[POOL][call.order.asset] = Owed]
        /\ UNCHANGED <<frames, call, events, block>>
    BY DEF ReturnToPool, Profitable
  <1>1. /\ TypeOK /\ store \in Stores /\ ledger \in Ledgers /\ ledger.bal \in Balances
        /\ store.activePreLoanBalance = frames[1].ledger.bal[call.order.asset]
    BY DEF Inv, TypeOK, Ledgers, Boundaries
  <1>2. call.order.asset \in Tokens /\ Owed \in Nat /\ call.premium \in Nat
    BY OrderTypes
  <1>3. store' \in Stores
    BY <1>0, <1>1, <1>2 DEF Stores
  <1>4. [NoAllowance EXCEPT ![POOL][call.order.asset] = Owed] \in Allowances
    BY <1>2 DEF NoAllowance, Allowances, Spenders
  <1>5. /\ ledger' \in Ledgers /\ ledger'.bal = ledger.bal
        /\ ledger'.allow = [NoAllowance EXCEPT ![POOL][call.order.asset] = Owed]
    BY <1>0, <1>1, <1>4 DEF Ledgers
  <1>6. TypeOK'
    BY <1>0, <1>1, <1>3, <1>5 DEF TypeOK
  <1>7. Control'
    BY <1>0 DEF Inv, Control
  <1>8. Locks'
    BY <1>0, <1>1 DEF Inv, Locks, Stores
  <1>9. Commitment'
    BY <1>0, <1>1 DEF Inv, Commitment, Stores, Config
  <1>10. Boundaries'
    BY <1>0, <1>1 DEF Inv, Boundaries, Stores
  <1>11. EventsCommitted'
    BY <1>0 DEF Inv, EventsCommitted, Outermost, Control
  <1>12. ExecutedOnce'
    BY <1>0 DEF Inv, ExecutedOnce
  <1>13. CurrentCandidate' = CurrentCandidate /\ Owed' = Owed
    BY <1>0 DEF CurrentCandidate, Owed
  <1>14. Selection'
    BY <1>0, <1>1, <1>13 DEF Inv, Selection, Stores
  <1>15. RepaymentCovered'
    <2>1. /\ CurrentCandidate.minProfit \in Nat
          /\ frames[1].ledger.bal[call.order.asset] \in Nat
      BY CandidateTypes, OrderTypes DEF Ledgers, Balances
    <2>2. ledger.bal[call.order.asset] >=
            Owed + frames[1].ledger.bal[call.order.asset] + CurrentCandidate.minProfit
      BY <1>0, <1>1, <1>2, <2>1
    <2>3. QED
      BY <1>0, <1>5, <1>13, <2>2 DEF RepaymentCovered, CurrentCandidate
  <1>16. QED
    BY <1>0, <1>6, <1>7, <1>8, <1>9, <1>10, <1>11, <1>12, <1>14, <1>15
    DEF Inv, NothingLeftOver, OneAllowance, AttemptsStartAlike, SelectionIsFinal

\* The callback of a route returns to the pool.
LEMMA FinishRouteStep ==
  ASSUME Inv, FinishRoute
  PROVE  Inv'
  <1>1. /\ pc = "leg" /\ call.order.kind = "route" /\ Len(frames) = 1
        /\ ReturnToPool(CurrentCandidate.minProfit) /\ ledger.allow = NoAllowance
    BY DEF FinishRoute, Inv, Control, OneAllowance
  <1>2. QED
    BY <1>1, ReturnToPoolStep

\* The callback of a batch returns to the pool with the selected candidate.
LEMMA FinishPackedStep ==
  ASSUME Inv, FinishPacked
  PROVE  Inv'
  <1>1. /\ pc = "selected" /\ call.order.kind = "packed" /\ Len(frames) = 1
        /\ ReturnToPool(store.activeSelectedMinProfit) /\ ledger.allow = NoAllowance
        /\ store.activeSelectedMinProfit = CurrentCandidate.minProfit
    BY DEF FinishPacked, Inv, Control, OneAllowance, Selection
  <1>2. QED
    BY <1>1, ReturnToPoolStep

\* A candidate that returns is selected, and what it promised is then held.
LEMMA CandidateSucceedsStep ==
  ASSUME Inv, CandidateSucceeds
  PROVE  Inv'
  <1> USE DEF InOperation
  <1>0. /\ pc = "leg" /\ pc' = "selected" /\ call.order.kind = "packed"
        /\ CandidateProfitable
        /\ store' = [store EXCEPT !.activeSelectedCandidateId = CurrentCandidate.id,
                                  !.activeSelectedCandidateIndex = call.cand - 1,
                                  !.activeSelectedMinProfit = CurrentCandidate.minProfit]
        /\ frames' = <<frames[1]>>
        /\ UNCHANGED <<ledger, call, events, block>>
    BY DEF CandidateSucceeds
  <1>1. /\ TypeOK /\ store \in Stores /\ ledger \in Ledgers /\ ledger.bal \in Balances
        /\ call.before = Loaned[call.order.asset]
        /\ store.activePreLoanBalance = frames[1].ledger.bal[call.order.asset]
        /\ ledger.allow = NoAllowance /\ call.order \in Orders
    BY <1>0 DEF Inv, TypeOK, Ledgers, Boundaries, OneAllowance, Control
  <1>2. /\ frames[1] \in Snapshots /\ frames # <<>> /\ call.order.asset \in Tokens
        /\ call.order.amount \in Nat /\ call.premium \in Nat
        /\ frames[1].ledger.bal \in Balances
    BY <1>0, OrderTypes DEF Ledgers
  <1>3. /\ CurrentCandidate.id \in Nat /\ CurrentCandidate.minProfit \in Nat
        /\ call.cand \in 1 .. Len(call.order.menu) /\ call.order.menu \in Seq(Candidate)
    BY <1>0, CandidateTypes, OrderTypes
  <1>4. store' \in Stores
    <2>1. Len(call.order.menu) \in Nat
      BY <1>3
    <2>2. call.cand - 1 \in Nat
      BY <1>3, <2>1
    <2>3. QED
      BY <1>0, <1>1, <1>3, <2>2 DEF Stores
  <1>5. /\ frames' \in Seq(Snapshots) /\ Len(frames') = 1 /\ frames'[1] = frames[1]
        /\ frames' # <<>>
    BY <1>0, <1>2
  <1>6. TypeOK'
    BY <1>0, <1>1, <1>4, <1>5 DEF TypeOK
  <1>7. CurrentCandidate' = CurrentCandidate
    BY <1>0 DEF CurrentCandidate
  <1>8. Control'
    BY <1>0, <1>1, <1>3, <1>5, <1>7 DEF Control
  <1>9. Locks'
    BY <1>0, <1>1, <1>5 DEF Inv, Locks, Stores
  <1>10. Commitment'
    BY <1>0, <1>1, <1>5 DEF Inv, Commitment, Stores, Config
  <1>11. Boundaries'
    BY <1>0, <1>1, <1>5 DEF Inv, Boundaries, Stores
  <1>12. EventsCommitted'
    BY <1>0, <1>2, <1>5 DEF Inv, EventsCommitted, Outermost
  <1>13. ExecutedOnce'
    BY <1>0 DEF Inv, ExecutedOnce
  <1>14. Selection'
    BY <1>0, <1>1, <1>7 DEF Inv, Selection, Stores
  <1>15. SelectionIsFinal'
    <2>1. /\ store'.activeSelectedCandidateId = CurrentCandidate.id
          /\ store'.activeSelectedMinProfit = CurrentCandidate.minProfit
          /\ store'.activePreLoanBalance = store.activePreLoanBalance
      BY <1>0, <1>1 DEF Stores
    <2>2. CurrentCandidate.id # 0
      BY <1>0, <1>3 DEF Inv, Selection, CurrentCandidate
    <2>3. call.before = store.activePreLoanBalance + call.order.amount
      BY <1>1, <1>2 DEF Loaned, Balances
    <2>4. store.activePreLoanBalance \in Nat /\ ledger.bal[call.order.asset] \in Nat
      BY <1>1, <1>2 DEF Balances
    <2>5. ledger.bal[call.order.asset] >=
            store.activePreLoanBalance + (call.order.amount + call.premium) + CurrentCandidate.minProfit
      BY <1>0, <1>2, <1>3, <2>3, <2>4 DEF CandidateProfitable
    <2>6. QED
      BY <1>0, <2>1, <2>2, <2>5 DEF SelectionIsFinal, Owed
  <1>16. QED
    BY <1>0, <1>1, <1>6, <1>8, <1>9, <1>10, <1>11, <1>12, <1>13, <1>14, <1>15
    DEF Inv, NothingLeftOver, OneAllowance, AttemptsStartAlike, RepaymentCovered

\* The pool is paid, the slots are cleared and the commitment is recorded in
\* an event: the contract is at rest again, with a new commitment used.
LEMMA SettleStep ==
  ASSUME Inv, Settle
  PROVE  Inv'
  <1> USE DEF InOperation
  <1>0. /\ pc = "settle" /\ pc' = "idle" /\ frames' = <<>> /\ call' = Idle
        /\ store' = Cleared(store) /\ block' = block
    BY DEF Settle
  <1> DEFINE asset == call.order.asset
             final == ledger.bal[asset] - Owed
             e == [hash |-> Hash[call.order],
                   candidate |-> IF call.order.kind = "route" THEN 1
                                 ELSE store.activeSelectedCandidateIndex + 1,
                   premium |-> store.activePremium,
                   netProfit |-> final - store.activePreLoanBalance]
  <1>1. /\ ledger' = [ledger EXCEPT !.bal[asset] = final, !.allow[POOL][asset] = @ - Owed]
        /\ events' = Append(events, e)
        /\ ledger.bal[asset] >= Owed
        /\ final >= store.activePreLoanBalance
                      + (IF call.order.kind = "route" THEN call.order.menu[1].minProfit
                         ELSE store.activeSelectedMinProfit)
    BY DEF Settle
  <1> HIDE DEF final, e, asset
  <1>2. /\ TypeOK /\ store \in Stores /\ ledger \in Ledgers /\ ledger.bal \in Balances
        /\ events \in Seq(Events) /\ call.order \in Orders /\ call \in Calls
    BY <1>0 DEF Inv, TypeOK, Ledgers, Control
  <1>3. /\ asset \in Tokens /\ Owed \in Nat /\ frames # <<>> /\ POOL \in Spenders
        /\ ledger.bal[asset] \in Nat /\ final \in Nat
    BY <1>0, <1>1, <1>2, OrderTypes DEF Balances, Spenders, asset, final
  <1>4. /\ store.activeSelectedMinProfit \in Nat /\ store.activePreLoanBalance \in Nat
        /\ store.activePremium \in Nat /\ store.activeSelectedCandidateIndex \in Nat
    BY <1>2 DEF Stores
  <1>5. (IF call.order.kind = "route" THEN call.order.menu[1].minProfit
         ELSE store.activeSelectedMinProfit) \in Nat
    <2>1. CASE call.order.kind = "route"
      <3>1. call.order.menu \in Seq(Candidate) /\ Len(call.order.menu) = 1
        BY <1>0, <2>1, OrderTypes
      <3>2. call.order.menu[1] \in Candidate
        BY <3>1
      <3>3. QED
        BY <2>1, <3>2 DEF Candidate
    <2>2. CASE call.order.kind # "route"
      BY <1>4, <2>2
    <2>3. QED
      BY <2>1, <2>2
  <1>6. e \in Events /\ e.hash = Hash[call.order]
    <2>1. final - store.activePreLoanBalance \in Nat
      BY <1>1, <1>3, <1>4, <1>5
    <2>2. Hash[call.order] \in Hashes
      BY <1>2 DEF Hashes
    <2>3. (IF call.order.kind = "route" THEN 1
           ELSE store.activeSelectedCandidateIndex + 1) \in Nat
      BY <1>4
    <2>4. QED
      BY <1>4, <2>1, <2>2, <2>3 DEF Events, e
  <1>7. /\ events' \in Seq(Events) /\ Len(events') = Len(events) + 1
        /\ \A i \in DOMAIN events : events'[i] = events[i]
        /\ events'[Len(events) + 1] = e
        /\ DOMAIN events' = DOMAIN events \cup {Len(events) + 1}
    BY <1>1, <1>2, <1>6
  <1>8. store' \in Stores /\ AtRest(store') /\ store'.commitmentUsed = store.commitmentUsed
    <2>1. ~store.callbackEntered
      BY <1>0 DEF Inv, Locks
    <2>2. QED
      BY <1>0, <1>2, <2>1 DEF Cleared, Stores, AtRest
  <1>9. ledger.allow = [NoAllowance EXCEPT ![POOL][asset] = Owed]
    BY <1>0 DEF Inv, RepaymentCovered, asset
  <1>10. ledger' \in Ledgers /\ ledger'.allow = NoAllowance
    <2>1. [ledger.bal EXCEPT ![asset] = final] \in Balances
      BY <1>2, <1>3 DEF Balances
    <2>2. [ledger.allow EXCEPT ![POOL][asset] = @ - Owed] = NoAllowance
      <3>1. ledger.allow[POOL][asset] = Owed /\ Owed - Owed = 0
        BY <1>3, <1>9 DEF NoAllowance
      <3>2. [[NoAllowance EXCEPT ![POOL][asset] = Owed] EXCEPT ![POOL][asset] = 0] = NoAllowance
        BY <1>3 DEF NoAllowance
      <3>3. QED
        BY <1>9, <3>1, <3>2
    <2>3. NoAllowance \in Allowances
      BY DEF NoAllowance, Allowances
    <2>4. QED
      BY <1>1, <1>2, <2>1, <2>2, <2>3 DEF Ledgers
  <1>11. TypeOK'
    <2>1. /\ frames' \in Seq(Snapshots) /\ Len(frames') <= 2
      BY <1>0
    <2>2. call' \in Calls
      BY <1>0 DEF Calls, Idle
    <2>3. QED
      BY <1>0, <1>2, <1>7, <1>8, <1>10, <2>1, <2>2 DEF TypeOK
  <1>12. EventsCommitted'
    <2>1. \A i \in DOMAIN events : events[i].hash \in frames[1].store.commitmentUsed
      BY <1>3 DEF Inv, EventsCommitted, Outermost
    <2>2. store.commitmentUsed = frames[1].store.commitmentUsed \cup {Hash[call.order]}
      BY <1>0 DEF Inv, Commitment
    <2>3. \A i \in DOMAIN events' : events'[i].hash \in store.commitmentUsed
      BY <1>6, <1>7, <2>1, <2>2
    <2>4. Outermost' = [store |-> store', ledger |-> ledger']
      BY <1>0 DEF Outermost, Snapshot
    <2>5. QED
      BY <1>8, <2>3, <2>4 DEF EventsCommitted
  <1>13. ExecutedOnce'
    <2>1. \A i \in DOMAIN events : events[i].hash # e.hash
      BY <1>0, <1>3, <1>6 DEF Inv, EventsCommitted, Outermost, Commitment
    <2>2. \A i, j \in DOMAIN events : events[i].hash = events[j].hash => i = j
      BY DEF Inv, ExecutedOnce
    <2>3. \A i, j \in DOMAIN events' : events'[i].hash = events'[j].hash => i = j
      BY <1>7, <2>1, <2>2
    <2>4. QED
      BY <2>3 DEF ExecutedOnce
  <1>14. QED
    BY <1>0, <1>8, <1>10, <1>11, <1>12, <1>13
    DEF Inv, Control, Locks, Commitment, Boundaries, OneAllowance, Selection,
        NothingLeftOver, AtRest, AttemptsStartAlike, SelectionIsFinal, RepaymentCovered

\* A candidate reverts inside its own boundary, which saved the store as it is.
LEMMA RevertedCandidateKeepsStore ==
  ASSUME Inv, CandidateReverts
  PROVE  /\ pc \in {"leg", "swap"} /\ call.order.kind = "packed"
         /\ store' = store
  <1>1. Len(frames) = 2 /\ store' = frames[2].store
    BY DEF CandidateReverts
  <1>2. frames # <<>>
    BY <1>1
  <1>3. pc \in {"leg", "swap"} /\ call.order.kind = "packed"
    BY <1>1, <1>2 DEF Inv, Control, TypeOK
  <1>4. QED
    BY <1>1, <1>3 DEF Inv, Boundaries

\* A failed candidate hands the next one exactly the state it was given.
LEMMA CandidateRevertsStep ==
  ASSUME Inv, CandidateReverts
  PROVE  Inv'
  <1> USE DEF InOperation
  <1>0. /\ Len(frames) = 2 /\ pc' = "menu"
        /\ store' = frames[2].store /\ ledger' = frames[2].ledger
        /\ frames' = <<frames[1]>> /\ UNCHANGED <<events, block>>
        /\ call' = [call EXCEPT !.cand = @ + 1, !.leg = 1, !.amountIn = 0,
                                !.before = 0, !.beforeOut = 0]
    BY DEF CandidateReverts
  <1>1. /\ pc \in {"leg", "swap"} /\ call.order.kind = "packed"
        /\ TypeOK /\ call.order \in Orders
    BY RevertedCandidateKeepsStore DEF Inv, Control
  <1>2. /\ store' = store /\ ledger' = [bal |-> Loaned, allow |-> NoAllowance]
    BY <1>0, <1>1 DEF Inv, Boundaries
  <1>3. /\ frames[1] \in Snapshots /\ frames[2] \in Snapshots /\ frames # <<>>
    <2>1. frames \in Seq(Snapshots) /\ Len(frames) = 2
      BY <1>0, <1>1 DEF TypeOK
    <2> HIDE <1>0, <1>1
    <2>2. 1 \in 1 .. Len(frames) /\ 2 \in 1 .. Len(frames)
      BY <2>1
    <2>3. frames[1] \in Snapshots /\ frames[2] \in Snapshots
      BY <2>1, <2>2, ElementOfSeq
    <2>4. frames # <<>>
      BY <2>1
    <2>5. QED
      BY <2>3, <2>4
  <1>4. /\ frames' \in Seq(Snapshots) /\ Len(frames') = 1 /\ frames'[1] = frames[1]
        /\ frames' # <<>>
    BY <1>0, <1>3
  <1>5. /\ call' \in Calls /\ call'.order = call.order /\ call'.cand \in Nat
        /\ call'.cand >= 1
    <2>1. call \in Calls /\ call.cand \in Nat
      BY <1>1 DEF TypeOK, Calls
    <2>2. call.cand + 1 \in Nat /\ call.cand + 1 >= 1
      BY <2>1
    <2>3. QED
      BY <1>0, <2>1, <2>2 DEF Calls
  <1>6. Loaned' = Loaned
    BY <1>4, <1>5 DEF Loaned
  <1>7. TypeOK'
    <2>1. store' \in Stores /\ ledger' \in Ledgers
      BY <1>0, <1>3 DEF Snapshots
    <2>2. QED
      BY <1>0, <1>1, <1>4, <1>5, <2>1 DEF TypeOK
  <1>8. Control'
    BY <1>0, <1>1, <1>4, <1>5 DEF Control
  <1>9. Locks'
    BY <1>0, <1>1, <1>2, <1>4 DEF Inv, Locks
  <1>10. Commitment'
    BY <1>0, <1>1, <1>2, <1>4, <1>5 DEF Inv, Commitment
  <1>11. Boundaries'
    BY <1>0, <1>1, <1>2, <1>4, <1>5, <1>6 DEF Inv, Boundaries
  <1>12. OneAllowance'
    BY <1>0, <1>2 DEF OneAllowance
  <1>13. EventsCommitted'
    BY <1>0, <1>3, <1>4 DEF Inv, EventsCommitted, Outermost
  <1>14. ExecutedOnce'
    BY <1>0 DEF Inv, ExecutedOnce
  <1>15. Selection'
    BY <1>0, <1>1, <1>5 DEF Inv, Selection
  <1>16. QED
    BY <1>0, <1>7, <1>8, <1>9, <1>10, <1>11, <1>12, <1>13, <1>14, <1>15
    DEF Inv, NothingLeftOver, AttemptsStartAlike, SelectionIsFinal, RepaymentCovered

\* A transaction that reverts leaves the state it began in, which was at rest.
LEMMA TransactionRevertsStep ==
  ASSUME Inv, TransactionReverts
  PROVE  Inv'
  <1> USE DEF InOperation
  <1>0. /\ pc # "idle" /\ pc' = "idle" /\ frames' = <<>> /\ call' = Idle
        /\ store' = frames[1].store /\ ledger' = frames[1].ledger
        /\ UNCHANGED <<events, block>>
    BY DEF TransactionReverts
  <1>1. /\ store' \in Stores /\ ledger' \in Ledgers /\ frames # <<>>
    BY <1>0, OrderTypes
  <1>2. AtRest(store') /\ ledger'.allow = NoAllowance
    BY <1>0 DEF Inv, Locks, Boundaries
  <1>3. TypeOK'
    <2>1. /\ frames' \in Seq(Snapshots) /\ Len(frames') <= 2
      BY <1>0
    <2>2. call' \in Calls
      BY <1>0 DEF Calls, Idle
    <2>3. QED
      BY <1>0, <1>1, <2>1, <2>2 DEF TypeOK, Inv
  <1>4. EventsCommitted'
    BY <1>0, <1>1 DEF Inv, EventsCommitted, Outermost, Snapshot
  <1>5. ExecutedOnce'
    BY <1>0 DEF Inv, ExecutedOnce
  <1>6. QED
    BY <1>0, <1>2, <1>3, <1>4, <1>5
    DEF Inv, Control, Locks, Commitment, Boundaries, OneAllowance, Selection,
        NothingLeftOver, AtRest, AttemptsStartAlike, SelectionIsFinal, RepaymentCovered

\* A transfer from a third party, between transactions or while an adapter
\* swaps, disturbs no lock, no saved state and no allowance.
LEMMA ReceiveStep ==
  ASSUME Inv, NEW token \in Tokens, NEW amount \in Gifts, Receive(token, amount)
  PROVE  Inv'
  <1>0. /\ pc \in {"idle", "swap"} /\ ledger' = [ledger EXCEPT !.bal[token] = @ + amount]
        /\ UNCHANGED <<store, frames, pc, call, events, block>>
    BY DEF Receive, ThirdParty
  <1>1. TypeOK /\ ledger.bal \in Balances /\ ledger \in Ledgers
    BY DEF Inv, TypeOK, Ledgers
  <1>2. ledger' \in Ledgers /\ ledger'.allow = ledger.allow
    <2>1. [ledger.bal EXCEPT ![token] = @ + amount] \in Balances
      BY <1>1, AmountAssumption DEF Balances
    <2>2. QED
      BY <1>0, <1>1, <2>1 DEF Ledgers
  <1>3. CASE pc = "idle"
    <2>1. AtRest(store) /\ ledger.allow = NoAllowance
      BY <1>3 DEF Inv, Locks, InOperation, NothingLeftOver
    <2>2. QED
      BY <1>0, <1>1, <1>2, <1>3, <2>1, IdleStep DEF TypeOK
  <1>4. CASE pc = "swap"
    <2>1. TypeOK'
      BY <1>0, <1>1, <1>2 DEF TypeOK
    <2>2. /\ CurrentCandidate' = CurrentCandidate /\ CurrentLeg' = CurrentLeg
          /\ Loaned' = Loaned /\ LegsDone' = LegsDone
      BY <1>0 DEF CurrentCandidate, CurrentLeg, Loaned, LegsDone
    <2>3. Control' /\ Locks' /\ Commitment' /\ Selection'
      BY <1>0, <2>2 DEF Inv, Control, Locks, Commitment, Selection, InOperation
    <2>4. Boundaries' /\ OneAllowance'
      BY <1>0, <1>2, <1>4, <2>2 DEF Inv, Boundaries, OneAllowance, InOperation
    <2>5. EventsCommitted' /\ ExecutedOnce'
      <3>1. frames # <<>>
        BY <1>4, OrderTypes
      <3>2. QED
        BY <1>0, <3>1 DEF Inv, EventsCommitted, ExecutedOnce, Outermost
    <2>6. QED
      BY <1>0, <1>4, <2>1, <2>3, <2>4, <2>5
      DEF Inv, NothingLeftOver, AttemptsStartAlike, SelectionIsFinal, RepaymentCovered
  <1>5. QED
    BY <1>0, <1>3, <1>4

-----------------------------------------------------------------------------
(* The theorems.                                                           *)

\* Every step of the contract and of its environment keeps the invariant.
LEMMA NextInv == Inv /\ [Next]_vars => Inv'
  <1> SUFFICES ASSUME Inv, [Next]_vars PROVE Inv'
    OBVIOUS
  <1>1. CASE Administration
    BY <1>1, AdministrationStep
  <1>2. CASE Opening
    BY <1>2, OpeningStep
  <1>3. CASE ExecuteOperation
    BY <1>3, ExecuteOperationStep
  <1>4. CASE AttemptPackedCandidate
    BY <1>4, AttemptPackedCandidateStep
  <1>5. CASE CallAdapter
    BY <1>5, CallAdapterStep
  <1>6. CASE \E pulled \in 0 .. call.amountIn, out \in Outputs : AdapterReturns(pulled, out)
    BY <1>6, AdapterReturnsStep
  <1>7. CASE FinishRoute
    BY <1>7, FinishRouteStep
  <1>8. CASE CandidateSucceeds
    BY <1>8, CandidateSucceedsStep
  <1>9. CASE FinishPacked
    BY <1>9, FinishPackedStep
  <1>10. CASE Settle
    BY <1>10, SettleStep
  <1>11. CASE CandidateReverts
    BY <1>11, CandidateRevertsStep
  <1>12. CASE TransactionReverts
    BY <1>12, TransactionRevertsStep
  <1>13. CASE \E token \in Tokens, amount \in Gifts : Receive(token, amount)
    BY <1>13, ReceiveStep
  <1>14. CASE NewBlock
    BY <1>14, NewBlockStep
  <1>15. CASE UNCHANGED vars
    <2>1. UNCHANGED <<store, ledger, frames, pc, call, events, block>>
      BY <1>15 DEF vars
    <2>2. /\ CurrentCandidate' = CurrentCandidate /\ CurrentLeg' = CurrentLeg
          /\ Loaned' = Loaned /\ LegsDone' = LegsDone /\ Owed' = Owed
          /\ Outermost' = Outermost
      BY <2>1 DEF CurrentCandidate, CurrentLeg, Loaned, LegsDone, Owed, Outermost, Snapshot
    <2>3. TypeOK' /\ Control' /\ Locks' /\ Commitment'
      BY <2>1, <2>2 DEF Inv, TypeOK, Control, Locks, Commitment, InOperation
    <2>4. Boundaries' /\ OneAllowance' /\ EventsCommitted' /\ Selection'
      BY <2>1, <2>2 DEF Inv, Boundaries, OneAllowance, EventsCommitted, Selection, InOperation
    <2>5. /\ NothingLeftOver' /\ ExecutedOnce' /\ AttemptsStartAlike'
          /\ SelectionIsFinal' /\ RepaymentCovered'
      BY <2>1, <2>2 DEF Inv, NothingLeftOver, ExecutedOnce, AttemptsStartAlike,
                        SelectionIsFinal, RepaymentCovered
    <2>6. QED
      BY <2>3, <2>4, <2>5 DEF Inv
  <1>16. QED
    BY <1>1, <1>2, <1>3, <1>4, <1>5, <1>6, <1>7, <1>8, <1>9, <1>10, <1>11,
       <1>12, <1>13, <1>14, <1>15 DEF Next, Running, Environment

\* The inductive invariant holds in every reachable state.
THEOREM Invariance == Spec => []Inv
  <1>1. Init => Inv
    BY InitInv
  <1>2. Inv /\ [Next]_vars => Inv'
    BY NextInv
  <1>3. QED
    BY <1>1, <1>2, PTL DEF Spec

\* Type correctness: no balance, allowance or recorded profit is ever below
\* zero, and there are never more than two revert boundaries.
THEOREM TypeCorrectness == Spec => []TypeOK
  <1>1. Inv => TypeOK
    BY DEF Inv
  <1>2. QED
    BY <1>1, Invariance, PTL

\* No transaction leaves a lock, an active slot or an allowance behind
\* (BaseArbExecutor.sol:172-174, 212-217, 331).
THEOREM CleanBetweenTransactions == Spec => []NothingLeftOver
  <1>1. Inv => NothingLeftOver
    BY DEF Inv
  <1>2. QED
    BY <1>1, Invariance, PTL

\* No commitment is executed twice (BaseArbExecutor.sol:159, 195).
THEOREM AtMostOnce == Spec => []ExecutedOnce
  <1>1. Inv => ExecutedOnce
    BY DEF Inv
  <1>2. QED
    BY <1>1, Invariance, PTL

\* Every candidate of a menu is tried on the balances the transaction began
\* with plus the loan (BaseArbExecutor.sol:262-279, 293-320).
THEOREM CandidatesAreIsolated == Spec => []AttemptsStartAlike
  <1>1. Inv => AttemptsStartAlike
    BY DEF Inv
  <1>2. QED
    BY <1>1, Invariance, PTL

\* A candidate that returned passes the profit check that follows the loop
\* (BaseArbExecutor.sol:278, 316).
THEOREM SelectedCandidateStands == Spec => []SelectionIsFinal
  <1>1. Inv => SelectionIsFinal
    BY DEF Inv
  <1>2. QED
    BY <1>1, Invariance, PTL

\* When the callback returns, the pool may collect exactly the debt, and the
\* earlier balance with the promised profit stays (BaseArbExecutor.sol:250-257, 314-319).
THEOREM LoanIsCovered == Spec => []RepaymentCovered
  <1>1. Inv => RepaymentCovered
    BY DEF Inv
  <1>2. QED
    BY <1>1, Invariance, PTL

\* While the lock is held no step changes the owner, the allow-lists or the
\* pause flag, whoever re-enters; a revert restores the same ones
\* (BaseArbExecutor.sol:104-116, 125-152).
THEOREM ConfigurationIsFrozen == Spec => ConfigurationFrozen
  <1>1. ASSUME Inv, [Next]_vars, store.operationEntered
        PROVE  Config(store') = Config(store)
    <2>1. pc # "idle"
      BY <1>1 DEF Inv, NothingLeftOver
    <2>2. CASE Administration
      <3>1. OnlyIdle
        BY <2>2 DEF Administration, SetAdapter, SetToken, SetPaused,
                    TransferOwnership, AcceptOwnership, Sweep
      <3>2. QED
        BY <1>1, <3>1 DEF OnlyIdle
    <2>3. CASE Opening
      BY <1>1, <2>3 DEF Opening, Start, StartPacked, Startable, OperationLock
    <2>4. CASE CandidateReverts
      BY <1>1, <2>4, RevertedCandidateKeepsStore
    <2>5. CASE TransactionReverts
      BY <1>1, <2>1, <2>5 DEF TransactionReverts, Inv, Commitment, InOperation
    <2>6. CASE /\ Running \/ Environment \/ UNCHANGED vars
               /\ ~CandidateReverts /\ ~TransactionReverts
      <3>1. store \in Stores
        BY <1>1 DEF Inv, TypeOK
      <3>2. \/ store' = store
            \/ store' = [store EXCEPT !.callbackEntered = TRUE]
            \/ store' = [store EXCEPT !.activeSelectedCandidateId = CurrentCandidate.id,
                                      !.activeSelectedCandidateIndex = call.cand - 1,
                                      !.activeSelectedMinProfit = CurrentCandidate.minProfit]
            \/ store' = [store EXCEPT !.activePremium = call.premium,
                                      !.callbackEntered = FALSE]
            \/ store' = Cleared(store)
        BY <2>6 DEF Running, Environment, ExecuteOperation, AttemptPackedCandidate,
             CallAdapter, AdapterReturns, FinishRoute, FinishPacked, ReturnToPool,
             CandidateSucceeds, Settle, Receive, NewBlock, vars
      <3>3. QED
        BY <3>1, <3>2 DEF Config, Stores, Cleared
    <2>7. QED
      BY <1>1, <2>2, <2>3, <2>4, <2>5, <2>6 DEF Next, Running
  <1>2. Inv /\ [Next]_vars
          => [store.operationEntered => Config(store') = Config(store)]_vars
    BY <1>1
  <1>3. QED
    BY <1>2, Invariance, PTL DEF Spec, ConfigurationFrozen

-----------------------------------------------------------------------------
(* BaseArbExecutor implements AtomicArbitrage: seen from outside, a        *)
(* transaction happens whole or not at all.  Inv says what a running       *)
(* operation looks like; Promise adds what it was validated against and    *)
(* that no balance but the asset's can fall, which the abstract step needs.*)

\* While an operation runs, its order, the state before it and the block stay.
LEMMA OperationKeeps ==
  ASSUME Inv, Running \/ Environment \/ UNCHANGED vars, pc # "idle", pc' # "idle"
  PROVE  call'.order = call.order /\ frames'[1] = frames[1] /\ block' = block
  <1>1. call \in Calls /\ frames # <<>> /\ frames \in Seq(Snapshots)
    BY OrderTypes DEF Inv, TypeOK
  <1>2. CASE ExecuteOperation
    BY <1>1, <1>2 DEF ExecuteOperation, Calls
  <1>3. CASE AttemptPackedCandidate
    BY <1>1, <1>3 DEF AttemptPackedCandidate, Calls
  <1>4. CASE CallAdapter
    BY <1>1, <1>4 DEF CallAdapter, Calls
  <1>5. CASE \E pulled \in 0 .. call.amountIn, out \in Outputs : AdapterReturns(pulled, out)
    BY <1>1, <1>5 DEF AdapterReturns, Calls
  <1>6. CASE FinishRoute \/ FinishPacked
    BY <1>6 DEF FinishRoute, FinishPacked, ReturnToPool
  <1>7. CASE CandidateSucceeds
    BY <1>7 DEF CandidateSucceeds
  <1>8. CASE CandidateReverts
    BY <1>1, <1>8 DEF CandidateReverts, Calls
  <1>9. CASE \/ \E token \in Tokens, amount \in Gifts : Receive(token, amount)
             \/ UNCHANGED vars
    BY <1>9 DEF Receive, vars
  <1>10. QED
    BY <1>2, <1>3, <1>4, <1>5, <1>6, <1>7, <1>8, <1>9
    DEF Running, Environment, Settle, TransactionReverts, NewBlock

\* A step inside an operation is not an administrative one and opens no other.
LEMMA InsideOnlyRunning ==
  ASSUME Inv, [Next]_vars, pc # "idle"
  PROVE  Running \/ Environment \/ UNCHANGED vars
  <1>1. ~Administration
    <2>1. Administration => OnlyIdle
      BY DEF Administration, SetAdapter, SetToken, SetPaused, TransferOwnership,
             AcceptOwnership, Sweep
    <2>2. QED
      BY <2>1, OnlyIdleMeansIdle
  <1>2. ~Opening
    BY DEF Inv, Locks, InOperation, Opening, Start, StartPacked, Startable, OperationLock
  <1>3. QED
    BY <1>1, <1>2 DEF Next

\* A leg that spends a token other than the asset spends one of which nothing
\* was held before: it is what the leg before it delivers.
LEMMA IntermediateWasEmpty ==
  ASSUME Inv, Promise, pc \in {"leg", "swap"}, ~LegsDone, call.leg > 1,
         CurrentLeg.tokenIn # call.order.asset
  PROVE  frames[1].ledger.bal[CurrentLeg.tokenIn] = 0
  <1> DEFINE legs == CurrentCandidate.legs
             k == call.leg - 1
  <1>1. call.leg \in 1 .. Len(legs) /\ legs \in Seq(Leg) /\ Len(legs) \in Nat
    BY CandidateTypes DEF Inv, Control, LegsDone
  <1>2. k \in 1 .. Len(legs) - 1 /\ k + 1 = call.leg
    BY <1>1
  <1>3. call.cand \in DOMAIN call.order.menu
    BY DEF Inv, Control
  <1>4. /\ Chained(call.order.asset, legs)
        /\ legs[k].tokenOut = call.order.asset \/ frames[1].ledger.bal[legs[k].tokenOut] = 0
    BY <1>2, <1>3 DEF Promise, Submitted, ValidatedIn, InOperation, CurrentCandidate
  <1>5. legs[k].tokenOut = legs[k + 1].tokenIn
    BY <1>2, <1>4 DEF Chained
  <1>6. CurrentLeg.tokenIn = legs[k].tokenOut
    BY <1>2, <1>5 DEF CurrentLeg
  <1>7. QED
    BY <1>4, <1>6

\* start and startPacked validate the order against the state they save.
LEMMA OpeningPromise ==
  ASSUME Inv, Opening, Inv'
  PROVE  Promise'
  <1>1. PICK caller \in Accounts, o \in Orders :
          \/ \E declared \in Hashes : Start(caller, o, declared)
          \/ StartPacked(caller, o)
    BY DEF Opening
  <1>2. PICK activated : Borrow(o, activated)
    BY <1>1 DEF Start, StartPacked
  <1>3. /\ ~store.paused /\ Fresh(o) /\ CleanIntermediates(o)
        /\ o.kind = "route" => ValidRoute(o)
        /\ o.kind = "packed" => ValidPacked(o)
        /\ o.kind \in {"route", "packed"}
    BY <1>1 DEF Start, StartPacked, Startable
  <1>4. /\ frames' = <<Snapshot>> /\ frames'[1] = Snapshot /\ pc' = "pool" /\ block' = block
        /\ ledger' = [ledger EXCEPT !.bal[o.asset] = @ + o.amount]
    BY <1>2 DEF Borrow
  <1>5. call'.order = o
    BY <1>2 DEF Borrow, Idle
  <1>6. o \in Order /\ (o.kind = "route" => Len(o.menu) = 1)
    BY <1>1, OrderAssumption
  <1>7. ASSUME NEW i \in DOMAIN o.menu
        PROVE  LET legs == o.menu[i].legs
               IN /\ Len(legs) >= 2
                  /\ Chained(o.asset, legs)
                  /\ \A k \in DOMAIN legs : ValidLeg(legs[k])
    <2>1. CASE o.kind = "route"
      <3>1. o.menu \in Seq(Candidate) /\ Len(o.menu) = 1
        BY <1>6, <2>1 DEF Order
      <3>2. i = 1
        BY <3>1
      <3>3. QED
        BY <1>3, <2>1, <3>2 DEF ValidRoute
    <2>2. CASE o.kind = "packed"
      <3>1. o.menu \in Seq(Candidate)
        BY <1>6 DEF Order
      <3>2. o.menu[i] \in Candidate
        BY <3>1
      <3>3. o.menu[i].legs \in Seq(Leg) /\ Len(o.menu[i].legs) \in Nat
        BY <3>2 DEF Candidate
      <3>4. Len(o.menu[i].legs) \in 2 .. 4
        BY <1>3, <2>2 DEF ValidPacked, MAX_PACKED_LEGS
      <3>5. /\ Chained(o.asset, o.menu[i].legs)
            /\ \A k \in DOMAIN o.menu[i].legs : ValidLeg(o.menu[i].legs[k])
        BY <1>3, <2>2 DEF ValidPacked
      <3>6. Len(o.menu[i].legs) >= 2
        <4>1. \A n : n \in 2 .. 4 => n >= 2
          OBVIOUS
        <4>2. QED
          BY <3>4, <4>1
      <3>7. QED
        BY <3>5, <3>6
    <2>3. QED
      BY <1>3, <2>1, <2>2
  <1>8. Submitted'
    <2>1. /\ frames'[1].store = store /\ frames'[1].ledger = ledger
      BY <1>4 DEF Snapshot
    <2>2. Fresh(o)'
      BY <1>3, <1>4 DEF Fresh
    <2>3. ASSUME NEW i \in DOMAIN o.menu
          PROVE  LET legs == o.menu[i].legs
                 IN /\ Len(legs) >= 2
                    /\ Chained(o.asset, legs)
                    /\ \A k \in DOMAIN legs :
                         /\ legs[k].adapter \in store.adapterAllowed
                         /\ {legs[k].tokenIn, legs[k].tokenOut} \subseteq store.tokenAllowed
                    /\ \A k \in 1 .. Len(legs) - 1 :
                         legs[k].tokenOut = o.asset \/ ledger.bal[legs[k].tokenOut] = 0
      BY <1>3, <1>7 DEF ValidLeg, CleanIntermediates
    <2>4. ValidatedIn(o, frames'[1])
      BY <1>3, <2>1, <2>3 DEF ValidatedIn
    <2>5. QED
      BY <1>5, <2>2, <2>4 DEF Submitted, Fresh
  <1>9. OthersKept'
    <2>1. ledger.bal \in Balances /\ ledger \in Ledgers
      BY DEF Inv, TypeOK, Ledgers
    <2>2. \A t \in Tokens : t # o.asset => ledger'.bal[t] = ledger.bal[t] /\ ledger.bal[t] \in Nat
      BY <1>4, <2>1 DEF Ledgers, Balances
    <2>3. QED
      BY <1>4, <1>5, <2>2 DEF OthersKept, Snapshot
  <1>10. QED
    BY <1>4, <1>8, <1>9 DEF Promise, InputHeld, EventNamesCandidate

\* No other token than the asset falls below what was held before: an adapter
\* can only take a token of which there was nothing.
LEMMA OthersKeptStep ==
  ASSUME Inv, Promise, Running \/ Environment \/ UNCHANGED vars, pc # "idle", pc' # "idle"
  PROVE  OthersKept'
  <1>1. call'.order = call.order /\ frames'[1] = frames[1]
    BY OperationKeeps
  <1> DEFINE asset == call.order.asset
             prior == frames[1].ledger.bal
  <1>2. /\ ledger \in Ledgers /\ ledger.bal \in Balances /\ prior \in Balances
        /\ \A t \in Tokens : ledger.bal[t] \in Nat /\ prior[t] \in Nat
    BY OrderTypes DEF Inv, TypeOK, Ledgers, Balances
  <1>3. \A t \in Tokens : t # asset => ledger.bal[t] >= prior[t]
    BY DEF Promise, OthersKept, InOperation
  <1>4. SUFFICES \A t \in Tokens : t # asset => ledger'.bal[t] >= prior[t]
    BY <1>1 DEF OthersKept
  <1>5. CASE ledger'.bal = ledger.bal
    BY <1>3, <1>5
  <1>6. CASE \E pulled \in 0 .. call.amountIn, out \in Outputs : AdapterReturns(pulled, out)
    <2>1. PICK pulled \in 0 .. call.amountIn, out \in Outputs : AdapterReturns(pulled, out)
      BY <1>6
    <2>2. pc = "swap" /\ ~LegsDone
      BY <2>1 DEF AdapterReturns, Inv, Control
    <2> DEFINE in == CurrentLeg.tokenIn
               tokenOut == CurrentLeg.tokenOut
    <2>3. in \in Tokens /\ tokenOut \in Tokens /\ out \in Nat
      BY <2>2, LegTypes, AmountAssumption
    <2>4. /\ pulled \in Nat /\ pulled <= ledger.bal[in]
          /\ ledger'.bal = [[ledger.bal EXCEPT ![in] = @ - pulled]
                              EXCEPT ![tokenOut] = ledger.bal[tokenOut] + out]
      BY <1>2, <2>1 DEF AdapterReturns, Ledgers, Inv, TypeOK, Calls
    <2>5. in # asset => prior[in] = 0
      <3>1. in # asset => call.leg > 1
        <4>1. call.leg \in Nat /\ call.leg >= 1
          BY <2>2, CandidateTypes DEF Inv, Control
        <4>2. QED
          BY <2>2, <4>1 DEF Promise, InputHeld
      <3>2. QED
        BY <2>2, <3>1, IntermediateWasEmpty
    <2> HIDE DEF in, tokenOut, asset, prior
    <2>6. ASSUME NEW t \in Tokens, t # asset
          PROVE  ledger'.bal[t] >= prior[t]
      <3>1. CASE t = tokenOut
        BY <1>2, <1>3, <2>3, <2>4, <2>6, <3>1 DEF Balances
      <3>2. CASE t # tokenOut /\ t = in
        BY <1>2, <2>3, <2>4, <2>5, <2>6, <3>2 DEF Balances
      <3>3. CASE t # tokenOut /\ t # in
        BY <1>2, <1>3, <2>3, <2>4, <2>6, <3>3 DEF Balances
      <3>4. QED
        BY <3>1, <3>2, <3>3
    <2>7. QED
      BY <2>6
  <1>7. CASE CandidateReverts
    <2>1. frames # <<>> /\ Len(frames) = 2 /\ ledger' = frames[2].ledger
      BY <1>7, OrderTypes DEF CandidateReverts
    <2>2. ledger'.bal = Loaned
      BY <1>7, <2>1, RevertedCandidateKeepsStore DEF Inv, Boundaries
    <2>3. QED
      BY <1>2, <2>2 DEF Loaned, Balances
  <1>8. CASE \E token \in Tokens, amount \in Gifts : Receive(token, amount)
    <2>1. PICK token \in Tokens, amount \in Gifts : Receive(token, amount)
      BY <1>8
    <2>2. ledger'.bal = [ledger.bal EXCEPT ![token] = @ + amount] /\ amount \in Nat
      BY <1>2, <2>1, AmountAssumption DEF Receive, Ledgers
    <2>3. \A t \in Tokens : ledger'.bal[t] >= ledger.bal[t]
      BY <1>2, <2>2 DEF Balances
    <2>4. \A t \in Tokens : ledger'.bal[t] \in Nat
      BY <1>2, <2>2 DEF Balances
    <2>5. QED
      BY <1>2, <1>3, <2>3, <2>4
  <1>9. QED
    <2>1. \/ ledger'.bal = ledger.bal
          \/ \E pulled \in 0 .. call.amountIn, out \in Outputs : AdapterReturns(pulled, out)
          \/ CandidateReverts
          \/ \E token \in Tokens, amount \in Gifts : Receive(token, amount)
      BY <1>2 DEF Running, Environment, ExecuteOperation, AttemptPackedCandidate,
           CallAdapter, FinishRoute, FinishPacked, ReturnToPool, CandidateSucceeds,
           Settle, TransactionReverts, NewBlock, vars, Ledgers
    <2>2. QED
      BY <1>5, <1>6, <1>7, <1>8, <2>1

\* An adapter is called with what the contract holds of the leg's input.
LEMMA InputHeldStep ==
  ASSUME Inv, Inv', Promise, Running \/ Environment \/ UNCHANGED vars,
         pc # "idle", pc' # "idle"
  PROVE  InputHeld'
  <1>1. SUFFICES ASSUME pc' = "swap" PROVE InputHeld'
    BY DEF InputHeld
  <1>2. ledger \in Ledgers /\ ledger.bal \in Balances /\ call \in Calls
    BY DEF Inv, TypeOK, Ledgers
  <1>3. CASE CallAdapter
    <2>1. /\ pc = "leg" /\ ~LegsDone
          /\ ledger' = [ledger EXCEPT !.allow[CurrentLeg.adapter][CurrentLeg.tokenIn] = LegInput]
          /\ call' = [call EXCEPT !.amountIn = LegInput,
                                  !.beforeOut = ledger.bal[CurrentLeg.tokenOut]]
      BY <1>3 DEF CallAdapter
    <2>2. /\ call'.leg = call.leg /\ call'.amountIn = LegInput
          /\ CurrentLeg' = CurrentLeg /\ call'.order = call.order
      BY <1>2, <2>1 DEF Calls, CurrentLeg, CurrentCandidate
    <2>3. ledger'.bal = ledger.bal
      BY <1>2, <2>1 DEF Ledgers
    <2>4. CurrentLeg.tokenIn \in Tokens /\ ledger.bal[CurrentLeg.tokenIn] \in Nat
      BY <1>2, <2>1, LegTypes DEF Balances
    <2>5. call.leg = 1 => CurrentLeg.tokenIn = call.order.asset
      <3>1. call.cand \in DOMAIN call.order.menu
        BY <2>1 DEF Inv, Control
      <3>2. Chained(call.order.asset, CurrentCandidate.legs)
        BY <2>1, <3>1 DEF Promise, Submitted, ValidatedIn, InOperation, CurrentCandidate
      <3>3. QED
        BY <3>2 DEF Chained, CurrentLeg
    <2>6. call.leg > 1 => LegInput <= ledger.bal[CurrentLeg.tokenIn]
      BY <2>4 DEF LegInput
    <2>7. QED
      BY <2>2, <2>3, <2>5, <2>6 DEF InputHeld
  <1>4. CASE \E token \in Tokens, amount \in Gifts : Receive(token, amount)
    <2>1. PICK token \in Tokens, amount \in Gifts : Receive(token, amount)
      BY <1>4
    <2>2. /\ ledger'.bal = [ledger.bal EXCEPT ![token] = @ + amount] /\ amount \in Nat
          /\ pc = "swap" /\ call' = call
      BY <1>1, <1>2, <2>1, AmountAssumption DEF Receive, Ledgers
    <2>3. CurrentLeg.tokenIn \in Tokens
      BY <2>2, LegTypes DEF Inv, Control
    <2>4. /\ ledger'.bal[CurrentLeg.tokenIn] >= ledger.bal[CurrentLeg.tokenIn]
          /\ ledger'.bal[CurrentLeg.tokenIn] \in Nat /\ ledger.bal[CurrentLeg.tokenIn] \in Nat
          /\ call.amountIn \in Nat
      BY <1>2, <2>2, <2>3 DEF Balances, Calls
    <2>5. CurrentLeg' = CurrentLeg
      BY <2>2 DEF CurrentLeg, CurrentCandidate
    <2>6. QED
      BY <2>2, <2>4, <2>5 DEF Promise, InputHeld
  <1>5. CASE UNCHANGED vars
    BY <1>5 DEF vars, Promise, InputHeld, CurrentLeg, CurrentCandidate
  <1>6. QED
    BY <1>1, <1>3, <1>4, <1>5
    DEF Running, Environment, ExecuteOperation, AttemptPackedCandidate, AdapterReturns,
        FinishRoute, FinishPacked, ReturnToPool, CandidateSucceeds, Settle,
        CandidateReverts, TransactionReverts, NewBlock

\* The selection that is recorded is the candidate at which the menu stands.
LEMMA EventNamesCandidateStep ==
  ASSUME Inv, Promise, Running \/ Environment \/ UNCHANGED vars,
         pc # "idle", pc' # "idle"
  PROVE  EventNamesCandidate'
  <1>1. SUFFICES ASSUME pc' \in {"selected", "settle"}, call'.order.kind = "packed"
                 PROVE  EventNamesCandidate'
    BY DEF EventNamesCandidate
  <1>2. store \in Stores /\ call \in Calls
    BY DEF Inv, TypeOK
  <1>3. CASE CandidateSucceeds
    <2>1. call.cand \in Nat /\ call.cand >= 1
      BY <1>3, CandidateTypes DEF CandidateSucceeds, Calls, Inv, TypeOK
    <2>2. store'.activeSelectedCandidateIndex = call.cand - 1 /\ call' = call
      BY <1>2, <1>3 DEF CandidateSucceeds, Stores
    <2>3. QED
      BY <2>1, <2>2 DEF EventNamesCandidate
  <1>4. CASE FinishPacked
    BY <1>1, <1>2, <1>4 DEF FinishPacked, ReturnToPool, Stores, Promise, EventNamesCandidate
  <1>5. CASE FinishRoute
    BY <1>1, <1>5 DEF FinishRoute, ReturnToPool
  <1>6. CASE UNCHANGED vars
    BY <1>6 DEF vars, Promise, EventNamesCandidate
  <1>7. QED
    BY <1>1, <1>3, <1>4, <1>5, <1>6
    DEF Running, Environment, ExecuteOperation, AttemptPackedCandidate, CallAdapter,
        AdapterReturns, Settle, CandidateReverts, TransactionReverts, NewBlock,
        Receive, ThirdParty

\* Every step keeps the promise.
LEMMA NextPromise == Inv /\ Inv' /\ Promise /\ [Next]_vars => Promise'
  <1> SUFFICES ASSUME Inv, Inv', Promise, [Next]_vars PROVE Promise'
    OBVIOUS
  <1>1. CASE pc' = "idle"
    BY <1>1 DEF Promise, Submitted, OthersKept, InputHeld, EventNamesCandidate, InOperation
  <1>2. CASE pc' # "idle" /\ pc = "idle"
    <2>1. CASE Opening
      BY <2>1, OpeningPromise
    <2>2. ~(Administration \/ Environment \/ UNCHANGED vars)
      BY <1>2 DEF Administration, SetAdapter, SetToken, SetPaused, TransferOwnership,
           AcceptOwnership, Sweep, Environment, Receive, NewBlock, vars
    <2>3. ~CandidateReverts
      BY <1>2 DEF CandidateReverts, Inv, Control
    <2>4. ~Running
      BY <1>2, <2>3 DEF Running, ExecuteOperation, AttemptPackedCandidate, CallAdapter,
           AdapterReturns, FinishRoute, FinishPacked, CandidateSucceeds, Settle,
           TransactionReverts
    <2>5. QED
      BY <2>1, <2>2, <2>4 DEF Next
  <1>3. CASE pc' # "idle" /\ pc # "idle"
    <2>1. Running \/ Environment \/ UNCHANGED vars
      BY <1>3, InsideOnlyRunning
    <2>2. call'.order = call.order /\ frames'[1] = frames[1] /\ block' = block
      BY <1>3, <2>1, OperationKeeps
    <2>3. Submitted'
      BY <1>3, <2>2 DEF Promise, Submitted, InOperation, Fresh
    <2>4. OthersKept' /\ InputHeld' /\ EventNamesCandidate'
      BY <1>3, <2>1, OthersKeptStep, InputHeldStep, EventNamesCandidateStep
    <2>5. QED
      BY <2>3, <2>4 DEF Promise
  <1>4. QED
    BY <1>1, <1>2, <1>3

\* The promise holds in every reachable state.
THEOREM PromiseKept == Spec => []Promise
  <1>1. Init => Promise
    BY DEF Init, Promise, Submitted, OthersKept, InputHeld, EventNamesCandidate, InOperation
  <1>2. Inv /\ Inv' /\ Promise /\ [Next]_vars => Promise'
    BY NextPromise
  <1>3. QED
    BY <1>1, <1>2, Invariance, PTL DEF Spec

\* No leg spends a balance of a token other than the asset that the contract
\* held before the transaction (BaseArbExecutor.sol:322-350, 411-429).
THEOREM PriorBalancesUnspent == Spec => []NoPriorBalanceSpent
  <1>1. Inv /\ Promise => NoPriorBalanceSpent
    <2> SUFFICES ASSUME Inv, Promise, pc = "swap", CurrentLeg.tokenIn # call.order.asset
                 PROVE  call.amountIn + frames[1].ledger.bal[CurrentLeg.tokenIn]
                          <= ledger.bal[CurrentLeg.tokenIn]
      BY DEF NoPriorBalanceSpent
    <2>1. ~LegsDone /\ call.leg \in Nat /\ call.leg >= 1
      BY CandidateTypes DEF Inv, Control
    <2>2. call.leg > 1 /\ call.amountIn <= ledger.bal[CurrentLeg.tokenIn]
      BY <2>1 DEF Promise, InputHeld
    <2>3. frames[1].ledger.bal[CurrentLeg.tokenIn] = 0
      BY <2>1, <2>2, IntermediateWasEmpty
    <2>4. call.amountIn \in Nat
      BY DEF Inv, TypeOK, Calls
    <2>5. QED
      BY <2>2, <2>3, <2>4
  <1>2. QED
    BY <1>1, Invariance, PromiseKept, PTL

-----------------------------------------------------------------------------
(* The refinement.                                                         *)

\* The contract's initial state is one of the abstract contract.
LEMMA InitMaps == Init => Atomic!Init
  <1> SUFFICES ASSUME Init PROVE Atomic!Init
    OBVIOUS
  <1>1. Outermost = [store |-> store, ledger |-> ledger]
    BY DEF Init, Outermost, Snapshot
  <1>2. Config(store) = [owner |-> Deployer, pendingOwner |-> NoAccount,
                         adapterAllowed |-> {}, tokenAllowed |-> {}, paused |-> TRUE]
    BY DEF Init, Config
  <1>3. /\ store.commitmentUsed = {} /\ ledger.bal = [t \in Tokens |-> 0]
        /\ events = <<>> /\ block = 0
    BY DEF Init
  <1>4. QED
    BY <1>1, <1>2, <1>3 DEF Atomic!Init

\* A step between transactions leaves the outermost state to be the state.
LEMMA IdleOutermost ==
  ASSUME Inv, pc = "idle"
  PROVE  Outermost = Snapshot
  BY DEF Inv, Control, Outermost

\* setAdapter, setToken, setPaused, the ownership calls and sweep are steps of
\* their own of the abstract contract.
LEMMA AdministrationMaps ==
  ASSUME Inv, Inv', Administration
  PROVE  Atomic!Next
  <1>1. PICK caller \in Accounts :
          \/ \E adapter \in Adapters, allowed \in BOOLEAN : SetAdapter(caller, adapter, allowed)
          \/ \E token \in Tokens, allowed \in BOOLEAN : SetToken(caller, token, allowed)
          \/ \E value \in BOOLEAN : SetPaused(caller, value)
          \/ \E next \in Accounts : TransferOwnership(caller, next)
          \/ AcceptOwnership(caller)
          \/ \E token \in Tokens, amount \in 0 .. MaxBalance : Sweep(caller, token, amount)
    BY DEF Administration
  <1>2. OnlyIdle /\ pc' = pc /\ UNCHANGED <<events, block>>
    BY <1>1 DEF SetAdapter, SetToken, SetPaused, TransferOwnership, AcceptOwnership, Sweep
  <1>3. /\ pc = "idle" /\ Outermost = [store |-> store, ledger |-> ledger]
        /\ Outermost' = [store |-> store', ledger |-> ledger']
    BY <1>2, OnlyIdleMeansIdle DEF Inv, Control, Outermost, Snapshot
  <1>4. store \in Stores /\ ledger \in Ledgers /\ ledger.bal \in Balances
    BY DEF Inv, TypeOK, Ledgers
  <1>5. CASE \/ \E adapter \in Adapters, allowed \in BOOLEAN : SetAdapter(caller, adapter, allowed)
             \/ \E token \in Tokens, allowed \in BOOLEAN : SetToken(caller, token, allowed)
             \/ \E value \in BOOLEAN : SetPaused(caller, value)
    <2>1. /\ store'.owner = store.owner /\ store'.pendingOwner = store.pendingOwner
          /\ store'.commitmentUsed = store.commitmentUsed /\ ledger' = ledger
      BY <1>4, <1>5 DEF SetAdapter, SetToken, SetPaused, Stores
    <2>2. Atomic!Configure
      BY <1>2, <1>3, <2>1 DEF Atomic!Configure, Config
    <2>3. QED
      BY <2>2 DEF Atomic!Next
  <1>6. CASE \E next \in Accounts : TransferOwnership(caller, next)
    <2>1. PICK next \in Accounts : TransferOwnership(caller, next)
      BY <1>6
    <2>2. /\ Config(store') = [Config(store) EXCEPT !.pendingOwner = next]
          /\ store'.commitmentUsed = store.commitmentUsed /\ ledger' = ledger
          /\ next # NoAccount /\ Config(store').pendingOwner = next
      BY <1>4, <2>1 DEF TransferOwnership, Stores, Config
    <2>3. Atomic!OfferOwnership(Config(Outermost'.store).pendingOwner)
      BY <1>2, <1>3, <2>2 DEF Atomic!OfferOwnership
    <2>4. QED
      BY <2>3 DEF Atomic!Next
  <1>7. CASE AcceptOwnership(caller)
    <2>1. /\ Config(store') = [Config(store) EXCEPT !.owner = Config(store).pendingOwner,
                                                     !.pendingOwner = NoAccount]
          /\ store'.commitmentUsed = store.commitmentUsed /\ ledger' = ledger
          /\ Config(store).pendingOwner # NoAccount
      <3>1. /\ store' = [store EXCEPT !.owner = store.pendingOwner, !.pendingOwner = NoAccount]
            /\ store.pendingOwner # NoAccount /\ ledger' = ledger
        BY <1>7, AccountAssumption DEF AcceptOwnership
      <3>2. Config(store).pendingOwner = store.pendingOwner
        BY DEF Config
      <3>3. /\ store'.owner = store.pendingOwner /\ store'.pendingOwner = NoAccount
            /\ store'.adapterAllowed = store.adapterAllowed
            /\ store'.tokenAllowed = store.tokenAllowed /\ store'.paused = store.paused
            /\ store'.commitmentUsed = store.commitmentUsed
        BY <1>4, <3>1 DEF Stores
      <3> DEFINE accepted == [owner |-> store.pendingOwner, pendingOwner |-> NoAccount,
                              adapterAllowed |-> store.adapterAllowed,
                              tokenAllowed |-> store.tokenAllowed, paused |-> store.paused]
      <3>4. Config(store') = accepted
        BY <3>3 DEF Config
      <3>5. [Config(store) EXCEPT !.owner = store.pendingOwner, !.pendingOwner = NoAccount] = accepted
        <4> DEFINE offered == [owner |-> store.pendingOwner, pendingOwner |-> store.pendingOwner,
                               adapterAllowed |-> store.adapterAllowed,
                               tokenAllowed |-> store.tokenAllowed, paused |-> store.paused]
        <4>1. [Config(store) EXCEPT !.owner = store.pendingOwner] = offered
          BY DEF Config
        <4>2. [offered EXCEPT !.pendingOwner = NoAccount] = accepted
          OBVIOUS
        <4>3. [Config(store) EXCEPT !.owner = store.pendingOwner, !.pendingOwner = NoAccount]
                = [[Config(store) EXCEPT !.owner = store.pendingOwner]
                     EXCEPT !.pendingOwner = NoAccount]
          BY DEF Config
        <4>4. QED
          BY <4>1, <4>2, <4>3
      <3>6. QED
        BY <3>1, <3>2, <3>3, <3>4, <3>5
    <2>2. Atomic!AcceptOwnership
      BY <1>2, <1>3, <2>1 DEF Atomic!AcceptOwnership
    <2>3. QED
      BY <2>2 DEF Atomic!Next
  <1>8. CASE \E token \in Tokens, amount \in 0 .. MaxBalance : Sweep(caller, token, amount)
    <2>1. PICK token \in Tokens, amount \in 0 .. MaxBalance : Sweep(caller, token, amount)
      BY <1>8
    <2>2. /\ ledger'.bal = [ledger.bal EXCEPT ![token] = @ - amount]
          /\ amount <= ledger.bal[token] /\ store' = store
      BY <1>4, <2>1 DEF Sweep, Ledgers
    <2> amount \in Nat /\ ledger.bal[token] \in Nat
      BY <1>4, AmountAssumption DEF Balances
    <2>3. ledger.bal[token] - ledger'.bal[token] = amount
      BY <1>4, <2>2 DEF Balances
    <2>4. Atomic!Sweep(token, Outermost.ledger.bal[token] - Outermost'.ledger.bal[token])
      BY <1>2, <1>3, <2>2, <2>3 DEF Atomic!Sweep, Config
    <2>5. QED
      BY <2>4 DEF Atomic!Next
  <1>9. QED
    BY <1>1, <1>5, <1>6, <1>7, <1>8

\* A transaction that succeeds is one Execute step of the abstract contract.
LEMMA SettleMaps ==
  ASSUME Inv, Inv', Promise, Settle
  PROVE  Atomic!Next
  <1> DEFINE o == call.order
             asset == call.order.asset
             before == frames[1]
             prior == frames[1].ledger.bal
             final == ledger.bal[asset] - Owed
             minProfit == IF o.kind = "route" THEN o.menu[1].minProfit
                          ELSE store.activeSelectedMinProfit
             chosen == IF o.kind = "route" THEN 1 ELSE store.activeSelectedCandidateIndex + 1
             e == [hash |-> Hash[o], candidate |-> chosen, premium |-> store.activePremium,
                   netProfit |-> final - store.activePreLoanBalance]
  <1>1. /\ pc = "settle" /\ InOperation
        /\ final >= store.activePreLoanBalance + minProfit
        /\ ledger' = [ledger EXCEPT !.bal[asset] = final, !.allow[POOL][asset] = @ - Owed]
        /\ store' = Cleared(store) /\ events' = Append(events, e)
        /\ frames' = <<>> /\ block' = block
    BY DEF Settle, InOperation
  <1>2. /\ o \in Orders /\ call.cand \in DOMAIN o.menu /\ frames # <<>>
        /\ o.kind \in {"route", "packed"} /\ asset \in Tokens
        /\ store \in Stores /\ ledger \in Ledgers /\ ledger.bal \in Balances
        /\ before.store \in Stores /\ prior \in Balances /\ events \in Seq(Events)
    BY <1>1, OrderTypes DEF Inv, TypeOK, Control, Ledgers
  <1>3. /\ Outermost = before /\ Outermost' = [store |-> store', ledger |-> ledger']
    BY <1>1, <1>2 DEF Outermost, Snapshot
  <1>4. chosen = call.cand /\ minProfit = o.menu[call.cand].minProfit
    <2>1. CASE o.kind = "route"
      <3>1. o.menu \in Seq(Candidate) /\ Len(o.menu) = 1
        BY <1>1, <2>1, OrderTypes
      <3>2. call.cand = 1
        BY <1>2, <3>1
      <3>3. QED
        BY <2>1, <3>2
    <2>2. CASE o.kind = "packed"
      BY <1>1, <2>2 DEF Promise, EventNamesCandidate, Inv, Selection, CurrentCandidate
    <2>3. QED
      BY <1>2, <2>1, <2>2
  <1>5. store.activePreLoanBalance = prior[asset]
    BY <1>1 DEF Inv, Boundaries
  <1>6. /\ ledger'.bal = [ledger.bal EXCEPT ![asset] = final] /\ ledger'.bal[asset] = final
        /\ ledger'.bal \in Balances
    BY <1>1, <1>2 DEF Ledgers, Balances, Inv, TypeOK
  <1>7. /\ minProfit \in Nat /\ final >= prior[asset] + minProfit
        /\ prior[asset] \in Nat /\ final \in Nat
    <2>1. minProfit \in Nat
      BY <1>1, <1>4, CandidateTypes DEF CurrentCandidate
    <2>2. QED
      BY <1>1, <1>2, <1>5, <1>6, <2>1 DEF Balances
  <1>8. \A t \in Tokens : ledger'.bal[t] >= prior[t]
    <2>1. ASSUME NEW t \in Tokens PROVE ledger'.bal[t] >= prior[t]
      <3>1. CASE t = asset
        BY <1>6, <1>7, <3>1
      <3>2. CASE t # asset
        BY <1>1, <1>2, <1>6, <3>2 DEF Promise, OthersKept, Balances
      <3>3. QED
        BY <3>1, <3>2
    <2>2. QED
      BY <2>1
  <1>9. /\ Config(store') = Config(before.store)
        /\ store'.commitmentUsed = before.store.commitmentUsed \cup {Hash[o]}
        /\ Hash[o] \notin before.store.commitmentUsed
    <2>1. Config(store') = Config(store) /\ store'.commitmentUsed = store.commitmentUsed
      BY <1>1, <1>2 DEF Cleared, Stores, Config
    <2>2. QED
      BY <1>1, <2>1 DEF Inv, Commitment
  <1>10. /\ ~Config(before.store).paused /\ Fresh(o)
         /\ \A k \in DOMAIN o.menu[call.cand].legs :
              LET l == o.menu[call.cand].legs[k]
              IN /\ l.adapter \in Config(before.store).adapterAllowed
                 /\ {l.tokenIn, l.tokenOut} \subseteq Config(before.store).tokenAllowed
    BY <1>1, <1>2 DEF Promise, Submitted, ValidatedIn, Config
  <1>11. /\ events' = Append(events, e) /\ events'[Len(events')] = e
    BY <1>1, <1>2
  <1>12. Atomic!Execute(o, call.cand)
    <2> HIDE DEF final, minProfit, chosen
    <2>1. e.hash = Hash[o] /\ e.candidate = call.cand /\ e.netProfit = ledger'.bal[asset] - prior[asset]
      BY <1>4, <1>5, <1>6
    <2>2. /\ ledger'.bal \in [Tokens -> Nat]
          /\ ledger'.bal[asset] >= prior[asset] + o.menu[call.cand].minProfit
      BY <1>4, <1>6, <1>7 DEF Balances
    <2> HIDE DEF e
    <2>3. QED
      BY <1>1, <1>3, <1>8, <1>9, <1>10, <1>11, <2>1, <2>2 DEF Atomic!Execute, Fresh
  <1>13. QED
    BY <1>2, <1>12 DEF Atomic!Next

\* Every step of the contract is a step of the abstract one or leaves it alone.
LEMMA StepMaps ==
  ASSUME Inv, Inv', Promise, [Next]_vars
  PROVE  [Atomic!Next]_(Atomic!vars)
  <1>1. CASE Administration
    BY <1>1, AdministrationMaps
  <1>2. CASE Settle
    BY <1>2, SettleMaps
  <1>3. CASE pc = "idle" /\ \E token \in Tokens, amount \in Gifts : Receive(token, amount)
    <2>1. PICK token \in Tokens, amount \in Gifts : Receive(token, amount)
      BY <1>3
    <2>2. /\ Outermost = [store |-> store, ledger |-> ledger]
          /\ Outermost' = [store |-> store, ledger |-> ledger']
          /\ UNCHANGED <<events, block>>
      BY <1>3, <2>1 DEF Inv, Control, Outermost, Snapshot, Receive
    <2>3. ledger \in Ledgers /\ ledger.bal \in Balances /\ ledger.bal[token] \in Nat
      BY DEF Inv, TypeOK, Ledgers, Balances
    <2>4. ledger'.bal = [ledger.bal EXCEPT ![token] = @ + amount] /\ amount \in Nat
      BY <2>1, <2>3, AmountAssumption DEF Receive, Ledgers
    <2>5. ledger'.bal[token] - ledger.bal[token] = amount
      BY <2>3, <2>4 DEF Balances
    <2>6. Atomic!Receive(token, Outermost'.ledger.bal[token] - Outermost.ledger.bal[token])
      BY <2>2, <2>4, <2>5 DEF Atomic!Receive
    <2>7. QED
      BY <2>6 DEF Atomic!Next
  <1>4. CASE NewBlock
    <2>1. Atomic!NewBlock
      BY <1>4 DEF NewBlock, Atomic!NewBlock, Outermost, Snapshot
    <2>2. QED
      BY <2>1 DEF Atomic!Next
  <1>5. CASE Opening
    <2>1. pc = "idle" /\ frames = <<>>
      BY <1>5 DEF Inv, Locks, Control, InOperation, Opening, Start, StartPacked,
                  Startable, OperationLock
    <2>2. frames' = <<Snapshot>> /\ UNCHANGED <<events, block>>
      BY <1>5 DEF Opening, Start, StartPacked, Borrow
    <2>3. Outermost' = Outermost
      BY <2>1, <2>2 DEF Outermost
    <2>4. QED
      BY <2>2, <2>3 DEF Atomic!vars
  <1>6. CASE TransactionReverts
    <2>1. Outermost = frames[1] /\ frames[1] \in Snapshots
      BY <1>6, OrderTypes DEF TransactionReverts, Outermost
    <2>2. Outermost' = frames[1] /\ UNCHANGED <<events, block>>
      BY <1>6, <2>1 DEF TransactionReverts, Outermost, Snapshot, Snapshots
    <2>3. QED
      BY <2>1, <2>2 DEF Atomic!vars
  <1>7. CASE UNCHANGED vars
    BY <1>7 DEF vars, Atomic!vars, Outermost, Snapshot
  <1>8. CASE /\ pc # "idle" /\ pc' # "idle"
             /\ Running \/ Environment
    <2>1. frames # <<>> /\ frames' # <<>> /\ frames'[1] = frames[1] /\ block' = block
      BY <1>8, OperationKeeps DEF Inv, Control
    <2>2. events' = events
      BY <1>8 DEF Running, Environment, ExecuteOperation, AttemptPackedCandidate,
           CallAdapter, AdapterReturns, FinishRoute, FinishPacked, ReturnToPool,
           CandidateSucceeds, Settle, CandidateReverts, TransactionReverts,
           Receive, NewBlock
    <2>3. QED
      BY <2>1, <2>2 DEF Atomic!vars, Outermost
  <1>9. QED
    <2>1. ASSUME Running \/ Environment, ~Settle, ~TransactionReverts, ~NewBlock,
                 ~(pc = "idle" /\ \E token \in Tokens, amount \in Gifts : Receive(token, amount))
          PROVE  pc # "idle" /\ pc' # "idle"
      <3>1. ~(pc = "idle" /\ CandidateReverts)
        BY DEF Inv, Control, CandidateReverts
      <3>2. QED
        BY <2>1, <3>1 DEF Running, Environment, ExecuteOperation, AttemptPackedCandidate,
             CallAdapter, AdapterReturns, FinishRoute, FinishPacked, ReturnToPool,
             CandidateSucceeds, CandidateReverts, Receive
    <2>2. QED
      BY <1>1, <1>2, <1>3, <1>4, <1>5, <1>6, <1>7, <1>8, <2>1 DEF Next

\* The contract implements the all-or-nothing specification: what can be seen
\* between two transactions is what AtomicArbitrage allows
\* (BaseArbExecutor.sol:154-279).
THEOREM Implementation == Spec => AllOrNothing
  <1>1. Init => Atomic!Init
    BY InitMaps
  <1>2. Inv /\ Inv' /\ Promise /\ [Next]_vars => [Atomic!Next]_(Atomic!vars)
    BY StepMaps
  <1>3. QED
    BY <1>1, <1>2, Invariance, PromiseKept, PTL DEF Spec, AllOrNothing, Atomic!Spec

=============================================================================
