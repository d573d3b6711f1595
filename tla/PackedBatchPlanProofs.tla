----------------------- MODULE PackedBatchPlanProofs -----------------------
(***************************************************************************)
(* What PackedBatchPlan promises of a menu, for any cycles, amounts,       *)
(* profits, fees and blocks.  Nothing moves a task once it has ended, and  *)
(* planning starts when all have; so it is enough that the menu gathered   *)
(* then is an ordered piece of the group of the best result, and that      *)
(* cutting such a piece from its end leaves one.                           *)
(***************************************************************************)
EXTENDS PackedBatchPlan, SequenceTheorems, TLAPS

Gains == {p \in Profits : p > 0}

Sized == [at : {"target"}, amount : Amounts, profit : Gains]
Targeted ==
  [at : {"simulate", "price"}, amount : Amounts, profit : Gains,
   seen : 0 .. MaxBlock, target : Nat]
Finalized ==
  [at : {"done"}, eligible : {TRUE}, amount : Amounts, profit : Gains,
   seen : 0 .. MaxBlock, target : Nat, net : Int]
Tasks == {Fresh, Ineligible} \cup Sized \cup Targeted \cup Finalized

Typed ==
  /\ latest \in 0 .. MaxBlock
  /\ observed \in Observations
  /\ asset \in Assets
  /\ task \in [Routes -> Tasks]
  /\ plan.at \in {"gather", "simulate", "measure", "none", "refused", "ready", "error"}
  /\ plan.menu \in Seq(Routes)

\* The tasks have ended when planning starts, and there is no menu before.
Settled ==
  /\ plan.at # "gather" => \A r \in Routes : task[r].at = "done"
  /\ plan.at = "gather" => plan.menu = <<>>
  /\ plan.at \in {"simulate", "measure", "ready"} => plan.menu # <<>>

\* A target follows from the block that was seen and from the triggering log.
Timed ==
  \A r \in Routes :
    task[r].at \in {"simulate", "price"} \/ r \in Eligible =>
      task[r].target = target_block(task[r].seen)

\* A sequence of compatible results that begins with the best of all and
\* goes on in order.
Ranked(m) ==
  /\ \A i \in 1 .. Len(m) : m[i] \in Eligible
  /\ \A i, j \in 1 .. Len(m) : Compatible(m[i], m[j])
  /\ \A i, j \in 1 .. Len(m) : i < j => Better(m[i], m[j])
  /\ m # <<>> => \A r \in Eligible \ {m[1]} : Better(m[1], r)

\* The simulation reported the gas of some candidate of this menu, or none.
Measured ==
  plan.at = "measure" =>
    plan.simulated \in {None} \cup {GasOf(i) : i \in 1 .. Len(plan.menu)}

IInv ==
  /\ Typed
  /\ Settled
  /\ Timed
  /\ Ranked(plan.menu)
  /\ Len(plan.menu) <= MaxMenu
  /\ Measured
  /\ EveryCandidatePays

-----------------------------------------------------------------------------
(* Menus.                                                                  *)

\* What can be read off a task that ended well.
LEMMA EligibleTask ==
  ASSUME Typed, NEW r \in Eligible
  PROVE  /\ r \in Routes
         /\ task[r].amount \in Amounts /\ task[r].profit \in Gains
         /\ task[r].profit \in Int
         /\ task[r].seen \in 0 .. MaxBlock /\ task[r].seen \in Nat /\ task[r].target \in Nat
         /\ task[r].net \in Int
  <1>1. r \in Routes /\ task[r] \in Tasks /\ task[r].at = "done" /\ task[r].eligible
    BY DEF Typed, Eligible
  <1>2. task[r] # Fresh /\ task[r] # Ineligible
    BY <1>1 DEF Fresh, Ineligible
  <1>3. task[r] \in Finalized
    BY <1>1, <1>2 DEF Tasks, Sized, Targeted
  <1>4. /\ task[r].amount \in Amounts /\ task[r].profit \in Gains
        /\ task[r].seen \in 0 .. MaxBlock /\ task[r].target \in Nat /\ task[r].net \in Int
    BY <1>3 DEF Finalized
  <1>5. Gains \subseteq Int
    BY PackedBatchPlanAssumption DEF Gains
  <1>6. 0 .. MaxBlock \subseteq Nat
    OBVIOUS
  <1>7. QED
    BY <1>1, <1>4, <1>5, <1>6

\* A sequence cut after its k-th element is ranked if the sequence was.
LEMMA CutIsRanked ==
  ASSUME NEW m \in Seq(Routes), Ranked(m), NEW k \in 0 .. Len(m)
  PROVE  /\ SubSeq(m, 1, k) \in Seq(Routes)
         /\ Len(SubSeq(m, 1, k)) = k
         /\ Ranked(SubSeq(m, 1, k))
  <1> DEFINE c == SubSeq(m, 1, k)
  <1>1. Len(m) \in Nat
    BY LenProperties
  <1>2. c \in Seq(Routes) /\ Len(c) = k /\ \A i \in 1 .. k : c[i] = m[i]
    BY <1>1, SubSeqProperties
  <1>3. c # <<>> => k >= 1
    BY <1>2, EmptySeq
  <1>4. Ranked(c)
    BY <1>1, <1>2, <1>3 DEF Ranked
  <1>5. QED
    BY <1>2, <1>4

\* The first group, put in order, is ranked.
LEMMA FirstGroupIsRanked ==
  ASSUME Typed, NEW m \in Orders(Eligible), IsFirstGroup(m)
  PROVE  /\ m \in Seq(Routes) /\ Len(m) >= 1
         /\ Ranked(m)
  <1>1. PICK n \in 1 .. Cardinality(Eligible) : m \in [1 .. n -> Eligible]
    BY DEF Orders
  <1>2. n \in Nat /\ n >= 1
    BY <1>1
  <1>3. m \in Seq(Eligible)
    BY <1>1, <1>2, SeqDef
  <1>4. Len(m) = n
    BY <1>1, <1>2, <1>3, LenProperties
  <1>5. m \in Seq(Routes)
    BY <1>1, <1>2, SeqDef DEF Eligible
  <1>6. PICK best \in Eligible :
          /\ \A r \in Eligible \ {best} : Better(best, r)
          /\ {m[i] : i \in 1 .. Len(m)} = {r \in Eligible : Compatible(r, best)}
          /\ \A i, j \in 1 .. Len(m) : i < j => Better(m[i], m[j])
    BY DEF IsFirstGroup
  <1>7. \A i \in 1 .. Len(m) : m[i] \in Eligible /\ Compatible(m[i], best)
    BY <1>6
  <1>8. \A i, j \in 1 .. Len(m) : Compatible(m[i], m[j])
    BY <1>7 DEF Compatible
  <1>9. m[1] = best
    <2>1. PICK k \in 1 .. Len(m) : m[k] = best
      BY <1>6 DEF Compatible
    <2>2. CASE k = 1
      BY <2>1, <2>2
    <2>3. CASE k # 1
      <3>1. 1 \in 1 .. Len(m) /\ 1 < k
        BY <1>2, <1>4, <2>1, <2>3
      <3>2. Better(m[1], best) /\ m[1] \in Eligible
        BY <1>6, <1>7, <2>1, <3>1
      <3>3. m[1] # best => Better(best, m[1])
        BY <1>6, <3>2
      <3>4. m[1] \in Nat /\ best \in Nat /\ task[m[1]].net \in Int /\ task[best].net \in Int
        BY <3>2, EligibleTask, PackedBatchPlanAssumption
      <3>5. ~(Better(m[1], best) /\ Better(best, m[1]))
        BY <3>4 DEF Better
      <3>6. QED
        BY <3>2, <3>3, <3>5
    <2>4. QED
      BY <2>2, <2>3
  <1>10. QED
    BY <1>2, <1>4, <1>5, <1>6, <1>7, <1>8, <1>9 DEF Ranked

-----------------------------------------------------------------------------
(* The steps of a task: planning has not started.                          *)

\* A step that changes one task, to a value that fits, keeps the invariant
\* as long as nothing has been planned.
LEMMA OneTaskMoves ==
  ASSUME IInv, NEW r \in Routes, task[r].at # "done",
         NEW new \in Tasks, task' = [task EXCEPT ![r] = new],
         UNCHANGED <<latest, observed, asset, plan>>,
         new.at \in {"simulate", "price"} \/ (new.at = "done" /\ new.eligible) =>
           new.target = target_block(new.seen)
  PROVE  IInv'
  <1>1. plan.at = "gather" /\ plan.menu = <<>> /\ Len(plan.menu) = 0
    BY EmptySeq DEF IInv, Settled
  <1>2. Typed'
    BY DEF IInv, Typed
  <1>3. Settled'
    BY <1>1 DEF Settled
  <1>4. Timed'
    <2>1. task'[r] = new /\ \A s \in Routes \ {r} : task'[s] = task[s]
      BY DEF IInv, Typed
    <2>2. QED
      BY <2>1 DEF IInv, Timed, Eligible, target_block
  <1>5. Ranked(plan.menu)'
    BY <1>1 DEF Ranked
  <1>6. Measured' /\ EveryCandidatePays'
    BY <1>1 DEF Measured, EveryCandidatePays
  <1>7. QED
    BY <1>2, <1>3, <1>4, <1>5, <1>6 DEF IInv

\* What a task carries at each stage.
LEMMA Stages ==
  ASSUME NEW t \in Tasks
  PROVE  /\ t.at \in Steps
         /\ t.at = "target" => t \in Sized
         /\ t.at \in {"simulate", "price"} => t \in Targeted
  <1>1. t = Fresh => t.at = "size"
    BY DEF Fresh
  <1>2. t = Ineligible => t.at = "done"
    BY DEF Ineligible
  <1>3. t \in Sized => t.at = "target"
    BY DEF Sized
  <1>4. t \in Targeted => t.at \in {"simulate", "price"}
    BY DEF Targeted
  <1>5. t \in Finalized => t.at = "done"
    BY DEF Finalized
  <1>6. QED
    BY <1>1, <1>2, <1>3, <1>4, <1>5 DEF Tasks, Steps

\* The bounds are numbers.
LEMMA BoundsAreNat ==
  /\ SuccessGas \in Nat /\ FailedGas \in Nat /\ L1Fee \in Nat /\ MaxBlock \in Nat
  /\ MaxMenu \in Nat /\ MaxMenu >= 1
  BY PackedBatchPlanAssumption

\* The values the steps of a task give it.
LEMMA TaskSteps ==
  ASSUME IInv, NEW r \in Routes,
         Blocked(r) \/ Size(r) \/ ReadTarget(r) \/ Simulate(r) \/ Price(r)
  PROVE  IInv'
  <1>0. task \in [Routes -> Tasks] /\ task[r] \in Tasks
        /\ latest \in 0 .. MaxBlock /\ latest \in Nat
        /\ Ineligible \in Tasks
    BY BoundsAreNat DEF IInv, Typed, Tasks
  <1>1. CASE Blocked(r)
    BY <1>0, <1>1, OneTaskMoves DEF Blocked, Ineligible
  <1>2. CASE Size(r)
    <2>1. PICK amount \in Amounts, profit \in Profits :
            task' = [task EXCEPT ![r] =
              IF profit > 0 THEN [at |-> "target", amount |-> amount, profit |-> profit]
              ELSE Ineligible]
      BY <1>2 DEF Size
    <2> DEFINE new == IF profit > 0
                      THEN [at |-> "target", amount |-> amount, profit |-> profit]
                      ELSE Ineligible
    <2>2. new \in Tasks /\ new.at # "simulate" /\ new.at # "price"
          /\ ~(new.at = "done" /\ new.eligible)
      BY <1>0 DEF Tasks, Sized, Ineligible, Gains
    <2>3. task[r].at # "done" /\ UNCHANGED <<latest, observed, asset, plan>>
      BY <1>2 DEF Size
    <2>4. QED
      BY <2>1, <2>2, <2>3, OneTaskMoves
  <1>3. CASE ReadTarget(r)
    <2> DEFINE new == [at |-> "simulate", amount |-> task[r].amount, profit |-> task[r].profit,
                       seen |-> latest, target |-> target_block(latest)]
    <2>1. task' = [task EXCEPT ![r] = new] /\ task[r].at # "done"
          /\ UNCHANGED <<latest, observed, asset, plan>>
      BY <1>0, <1>3 DEF ReadTarget
    <2>2. task[r].amount \in Amounts /\ task[r].profit \in Gains
      BY <1>0, <1>3, Stages DEF ReadTarget, Sized
    <2>3. target_block(latest) \in Nat
      BY <1>0, PackedBatchPlanAssumption DEF target_block, IInv, Typed
    <2>4. new \in Tasks
      BY <1>0, <2>2, <2>3 DEF Tasks, Targeted
    <2>5. QED
      BY <2>1, <2>4, OneTaskMoves
  <1>4. CASE Simulate(r)
    <2> DEFINE new == [task[r] EXCEPT !.at = "price"]
    <2>1. task' = [task EXCEPT ![r] = new] /\ task[r].at = "simulate"
          /\ UNCHANGED <<latest, observed, asset, plan>>
      BY <1>0, <1>4 DEF Simulate
    <2>2. task[r] \in Targeted
      BY <1>0, <2>1, Stages
    <2>3. new \in Tasks /\ new.seen = task[r].seen /\ new.target = task[r].target
          /\ new.at = "price"
      BY <2>2 DEF Tasks, Targeted
    <2>4. task[r].target = target_block(task[r].seen)
      BY <2>1 DEF IInv, Timed
    <2>5. QED
      BY <2>1, <2>3, <2>4, OneTaskMoves
  <1>5. CASE Price(r)
    <2>1. PICK fee \in Fees :
            task' = [task EXCEPT ![r] =
              LET net == task[r].profit - Cost(SuccessGas, fee, 1)
              IN IF net > 0
                 THEN [at |-> "done", eligible |-> TRUE, amount |-> task[r].amount,
                       profit |-> task[r].profit, seen |-> task[r].seen,
                       target |-> task[r].target, net |-> net]
                 ELSE Ineligible]
      BY <1>0, <1>5 DEF Price
    <2> DEFINE net == task[r].profit - Cost(SuccessGas, fee, 1)
               new == IF net > 0
                      THEN [at |-> "done", eligible |-> TRUE, amount |-> task[r].amount,
                            profit |-> task[r].profit, seen |-> task[r].seen,
                            target |-> task[r].target, net |-> net]
                      ELSE Ineligible
    <2>2. task[r].at = "price" /\ UNCHANGED <<latest, observed, asset, plan>>
      BY <1>5 DEF Price
    <2>3. task[r] \in Targeted
      BY <1>0, <2>2, Stages
    <2>4. net \in Int
      <3>1. fee \in Nat /\ task[r].profit \in Int
        BY <2>3, PackedBatchPlanAssumption DEF Targeted, Gains
      <3>2. QED
        BY <3>1, BoundsAreNat DEF Cost
    <2>5. new \in Tasks
      BY <1>0, <2>3, <2>4 DEF Tasks, Targeted, Finalized
    <2>6. task[r].target = target_block(task[r].seen)
      BY <2>2 DEF IInv, Timed
    <2>7. new.at = "done" /\ (new.eligible => new.target = target_block(new.seen))
      BY <2>3, <2>6 DEF Ineligible, Targeted
    <2>8. task' = [task EXCEPT ![r] = new]
      BY <2>1
    <2>9. QED
      BY <2>2, <2>5, <2>7, <2>8, OneTaskMoves
  <1>6. QED
    BY <1>1, <1>2, <1>3, <1>4, <1>5

-----------------------------------------------------------------------------
(* The steps of planning: no task moves.                                   *)

\* A step of planning that keeps the menu ranked keeps the invariant.
LEMMA MenuMoves ==
  ASSUME IInv, UNCHANGED <<latest, observed, asset, task>>,
         \A r \in Routes : task[r].at = "done",
         plan'.at \in {"simulate", "measure", "none", "refused", "ready", "error"},
         plan'.menu \in Seq(Routes), Len(plan'.menu) <= MaxMenu, Ranked(plan'.menu),
         plan'.at \in {"simulate", "measure", "ready"} => plan'.menu # <<>>,
         Measured', EveryCandidatePays'
  PROVE  IInv'
  <1>1. Typed' /\ Settled'
    BY DEF IInv, Typed, Settled
  <1>2. Timed'
    BY DEF IInv, Timed, Eligible, target_block
  <1>3. Ranked(plan.menu)'
    BY DEF Ranked, Eligible, Compatible, Better
  <1>4. QED
    BY <1>1, <1>2, <1>3 DEF IInv

\* The empty menu is ranked.
LEMMA EmptyIsRanked ==
  <<>> \in Seq(Routes) /\ Len(<<>>) = 0 /\ Ranked(<<>>)
  <1>1. Len(<<>>) = 0 /\ <<>> \in Seq(Routes)
    BY EmptySeq
  <1>2. QED
    BY <1>1 DEF Ranked

LEMMA GatherKeeps == IInv /\ Gather => IInv'
  <1> SUFFICES ASSUME IInv, Gather PROVE IInv'
    OBVIOUS
  <1>0. Typed /\ \A r \in Routes : task[r].at = "done"
    BY DEF IInv, Gather
  <1>1. CASE plan' = [at |-> "none", menu |-> <<>>]
    <2>1. Measured' /\ EveryCandidatePays'
      BY <1>1 DEF Measured, EveryCandidatePays
    <2>2. QED
      BY <1>0, <1>1, <2>1, EmptyIsRanked, BoundsAreNat, MenuMoves DEF Gather
  <1>2. ASSUME NEW m \in Orders(Eligible), IsFirstGroup(m),
               plan' = [at |-> "simulate", menu |-> Capped(m)]
        PROVE  IInv'
    <2>1. m \in Seq(Routes) /\ Len(m) \in Nat /\ Len(m) >= 1 /\ Ranked(m)
      BY <1>0, <1>2, FirstGroupIsRanked, LenProperties
    <2>2. /\ Capped(m) \in Seq(Routes) /\ Ranked(Capped(m))
          /\ Len(Capped(m)) \in 1 .. MaxMenu
      <3>1. CASE Len(m) > MaxMenu
        <4>1. MaxMenu \in 0 .. Len(m)
          BY <2>1, <3>1, BoundsAreNat
        <4>2. QED
          BY <2>1, <3>1, <4>1, BoundsAreNat, CutIsRanked DEF Capped
      <3>2. CASE ~(Len(m) > MaxMenu)
        BY <2>1, <3>2, BoundsAreNat DEF Capped
      <3>3. QED
        BY <3>1, <3>2
    <2>3. Capped(m) # <<>>
      BY <2>2, EmptyIsRanked
    <2>4. Measured' /\ EveryCandidatePays'
      BY <1>2 DEF Measured, EveryCandidatePays
    <2>5. QED
      BY <1>0, <1>2, <2>2, <2>3, <2>4, BoundsAreNat, MenuMoves DEF Gather
  <1>3. QED
    BY <1>1, <1>2 DEF Gather

LEMMA SimulatePackedKeeps == IInv /\ SimulatePacked => IInv'
  <1> SUFFICES ASSUME IInv, SimulatePacked PROVE IInv'
    OBVIOUS
  <1>1. PICK i \in 1 .. Len(plan.menu), known \in BOOLEAN :
          plan' = [at |-> "measure", menu |-> plan.menu,
                   simulated |-> IF known THEN GasOf(i) ELSE None]
    BY DEF SimulatePacked
  <1>2. Measured' /\ EveryCandidatePays'
    BY <1>1 DEF Measured, EveryCandidatePays, GasOf
  <1>3. plan.menu # <<>> /\ \A r \in Routes : task[r].at = "done"
    BY DEF SimulatePacked, IInv, Settled
  <1>4. QED
    BY <1>1, <1>2, <1>3, MenuMoves DEF IInv, Typed, SimulatePacked

LEMMA RefusePackedKeeps == IInv /\ RefusePacked => IInv'
  <1> SUFFICES ASSUME IInv, RefusePacked PROVE IInv'
    OBVIOUS
  <1>1. Measured' /\ EveryCandidatePays'
    BY DEF RefusePacked, Measured, EveryCandidatePays
  <1>2. \A r \in Routes : task[r].at = "done"
    BY DEF RefusePacked, IInv, Settled
  <1>3. QED
    BY <1>1, <1>2, MenuMoves DEF IInv, Typed, RefusePacked

LEMMA MeasureFailsKeeps == IInv /\ MeasureFails => IInv'
  <1> SUFFICES ASSUME IInv, MeasureFails PROVE IInv'
    OBVIOUS
  <1>1. Measured' /\ EveryCandidatePays'
    BY DEF MeasureFails, Measured, EveryCandidatePays
  <1>2. \A r \in Routes : task[r].at = "done"
    BY DEF MeasureFails, IInv, Settled
  <1>3. QED
    BY <1>1, <1>2, EmptyIsRanked, BoundsAreNat, MenuMoves DEF MeasureFails

LEMMA MeasureKeeps == IInv /\ Measure => IInv'
  <1> SUFFICES ASSUME IInv, Measure PROVE IInv'
    OBVIOUS
  <1>0. /\ plan.menu \in Seq(Routes) /\ Len(plan.menu) \in Nat /\ plan.menu # <<>>
        /\ Len(plan.menu) <= MaxMenu /\ Ranked(plan.menu)
        /\ \A r \in Routes : task[r].at = "done"
        /\ UNCHANGED <<latest, observed, asset, task>>
    BY LenProperties DEF Measure, IInv, Settled, Typed
  <1>1. PICK fee \in Fees,
             estimate \in {None} \cup {GasOf(i) : i \in 1 .. Len(plan.menu)} :
          \/ plan' = [at |-> "refused", menu |-> plan.menu]
          \/ \E gas \in GasValues(estimate) :
               LET cost == Cost(gas, fee, Len(plan.menu))
               IN \/ /\ Covers(plan.menu, cost)
                     /\ plan' = [at |-> "ready", menu |-> plan.menu,
                                 fee |-> fee, cost |-> cost]
                  \/ plan' = Retried(Trimmed(plan.menu))
    BY DEF Measure
  <1>2. CASE plan' = [at |-> "refused", menu |-> plan.menu]
    <2>1. Measured' /\ EveryCandidatePays'
      BY <1>2 DEF Measured, EveryCandidatePays
    <2>2. QED
      BY <1>0, <1>2, <2>1, MenuMoves
  <1>3. ASSUME NEW gas \in GasValues(estimate),
               Covers(plan.menu, Cost(gas, fee, Len(plan.menu))),
               plan' = [at |-> "ready", menu |-> plan.menu, fee |-> fee,
                        cost |-> Cost(gas, fee, Len(plan.menu))]
        PROVE  IInv'
    <2>1. PICK i \in 1 .. Len(plan.menu) : gas = GasOf(i)
      BY <1>3 DEF GasValues, Measure, IInv, Measured
    <2>2. Cost(gas, fee, Len(plan.menu)) \in Int
      <3>1. fee \in Nat /\ gas \in Int
        BY <1>0, <2>1, BoundsAreNat, PackedBatchPlanAssumption DEF GasOf
      <3>2. QED
        BY <1>0, <3>1, BoundsAreNat DEF Cost
    <2>3. \A j \in 1 .. Len(plan.menu) :
            task[plan.menu[j]].profit > Cost(gas, fee, Len(plan.menu))
      <3>1. \A j \in 1 .. Len(plan.menu) : task[plan.menu[j]].profit \in Int
        BY <1>0, EligibleTask DEF IInv, Ranked
      <3>2. QED
        BY <1>3, <2>2, <3>1 DEF Covers
    <2>4. EveryCandidatePays'
      BY <1>0, <1>3, <2>1, <2>3 DEF EveryCandidatePays, InMenu, Cost, GasOf
    <2>5. Measured'
      BY <1>3 DEF Measured
    <2>6. QED
      BY <1>0, <1>3, <2>4, <2>5, MenuMoves
  <1>4. CASE plan' = Retried(Trimmed(plan.menu))
    <2>1. Len(plan.menu) - 1 \in 0 .. Len(plan.menu)
      BY <1>0, EmptySeq
    <2>2. /\ Trimmed(plan.menu) \in Seq(Routes) /\ Ranked(Trimmed(plan.menu))
          /\ Len(Trimmed(plan.menu)) = Len(plan.menu) - 1
      BY <1>0, <2>1, CutIsRanked DEF Trimmed
    <2>3. plan'.menu = Trimmed(plan.menu)
          /\ plan'.at = (IF Trimmed(plan.menu) = <<>> THEN "none" ELSE "simulate")
      BY <1>4 DEF Retried
    <2>4. Measured' /\ EveryCandidatePays'
      BY <2>3 DEF Measured, EveryCandidatePays
    <2>5. Len(plan'.menu) <= MaxMenu
      BY <1>0, <2>2, <2>3, BoundsAreNat
    <2>6. QED
      BY <1>0, <2>2, <2>3, <2>4, <2>5, MenuMoves
  <1>5. QED
    BY <1>1, <1>2, <1>3, <1>4

-----------------------------------------------------------------------------
(* The theorems.                                                           *)

LEMMA InitHolds == Init => IInv
  <1> SUFFICES ASSUME Init PROVE IInv
    OBVIOUS
  <1>1. plan = [at |-> "gather", menu |-> <<>>]
    BY DEF Init, Gathering
  <1>2. task \in [Routes -> {Fresh}]
    BY DEF Init
  <1>3. Typed
    BY <1>1, <1>2, EmptyIsRanked, BoundsAreNat DEF Init, Typed, Tasks
  <1>4. Timed
    BY <1>2 DEF Timed, Eligible, Fresh
  <1>5. QED
    BY <1>1, <1>3, <1>4, EmptyIsRanked, BoundsAreNat
    DEF IInv, Settled, Measured, EveryCandidatePays

\* Between two triggers everything starts again.
LEMMA AnswerKeeps == IInv /\ Answer => IInv'
  <1> SUFFICES ASSUME IInv, Answer PROVE IInv'
    OBVIOUS
  <1>1. plan' = [at |-> "gather", menu |-> <<>>]
    BY DEF Answer, Gathering
  <1>2. task' \in [Routes -> {Fresh}]
    BY DEF Answer
  <1>3. Typed'
    BY <1>1, <1>2, EmptyIsRanked DEF Answer, IInv, Typed, Tasks
  <1>4. Timed'
    BY <1>2 DEF Timed, Eligible, Fresh
  <1>5. Ranked(plan.menu)'
    BY <1>1, EmptyIsRanked DEF Ranked
  <1>6. QED
    BY <1>1, <1>3, <1>4, <1>5, EmptyIsRanked, BoundsAreNat
    DEF IInv, Settled, Measured, EveryCandidatePays

\* Nothing that is kept looks at the latest block.
LEMMA OtherStepsKeep ==
  ASSUME IInv, latest' \in 0 .. MaxBlock, UNCHANGED <<observed, asset, task, plan>>
  PROVE  IInv'
  BY DEF IInv, Typed, Settled, Timed, Ranked, Measured, EveryCandidatePays, InMenu,
         Eligible, Compatible, Better, target_block

LEMMA NextKeeps == IInv /\ [Next]_vars => IInv'
  <1> SUFFICES ASSUME IInv, [Next]_vars PROVE IInv'
    OBVIOUS
  <1>1. ASSUME NEW r \in Routes,
               Blocked(r) \/ Size(r) \/ ReadTarget(r) \/ Simulate(r) \/ Price(r)
        PROVE  IInv'
    BY <1>1, TaskSteps
  <1>2. CASE NewBlock
    <2>1. latest' \in 0 .. MaxBlock
      BY <1>2, BoundsAreNat DEF NewBlock, IInv, Typed
    <2>2. QED
      BY <1>2, <2>1, OtherStepsKeep DEF NewBlock
  <1>3. CASE UNCHANGED vars
    BY <1>3, OtherStepsKeep DEF vars, IInv, Typed
  <1>4. QED
    BY <1>1, <1>2, <1>3, GatherKeeps, SimulatePackedKeeps, RefusePackedKeeps,
       MeasureKeeps, MeasureFailsKeeps, AnswerKeeps DEF Next, Planning

\* The inductive invariant holds in every reachable state.
THEOREM PlanInvariance == Spec => []IInv
  <1>1. Init => IInv
    BY InitHolds
  <1>2. IInv /\ [Next]_vars => IInv'
    BY NextKeeps
  <1>3. QED
    BY <1>1, <1>2, PTL DEF Spec

\* Types, and a menu within the limits of the codec and the contract
\* (batch_execution.py:79).
THEOREM MenuIsBounded == Spec => []TypeOK
  <1>1. IInv => TypeOK
    <2> SUFFICES ASSUME IInv PROVE TypeOK
      OBVIOUS
    <2>1. \A r \in Routes : task[r].at \in Steps
      BY Stages DEF IInv, Typed
    <2>2. QED
      BY <2>1 DEF IInv, Typed, Ranked, TypeOK
  <1>2. QED
    BY <1>1, PlanInvariance, PTL

\* The candidates of a menu share asset, amount and target block
\* (compatible_groups, batch_execution.py:54-61).
THEOREM SharedLoan == Spec => []OneLoan
  <1>1. IInv => OneLoan
    BY DEF IInv, Ranked, OneLoan, InMenu, Compatible
  <1>2. QED
    BY <1>1, PlanInvariance, PTL

\* The candidates of a menu were planned on one latest block, or the log was
\* ahead of each of them (execution.py:633-634).
THEOREM SharedBlock == Spec => []MenuSharesBlock
  <1>1. IInv => MenuSharesBlock
    <2> SUFFICES ASSUME IInv, NEW r \in InMenu, NEW s \in InMenu,
                        task[r].seen # task[s].seen
                 PROVE  /\ observed # None
                        /\ observed > task[r].seen
                        /\ observed > task[s].seen
      BY DEF MenuSharesBlock
    <2>1. r \in Eligible /\ s \in Eligible /\ task[r].target = task[s].target
      BY DEF IInv, Ranked, InMenu, Compatible
    <2>2. task[r].seen \in Nat /\ task[s].seen \in Nat /\ r \in Routes /\ s \in Routes
      BY <2>1, EligibleTask DEF IInv
    <2>3. target_block(task[r].seen) = target_block(task[s].seen)
      BY <2>1, <2>2 DEF IInv, Timed
    <2>4. observed \in Nat \cup {None}
      BY PackedBatchPlanAssumption DEF IInv, Typed
    <2>5. QED
      BY <2>2, <2>3, <2>4 DEF target_block
  <1>2. QED
    BY <1>1, PlanInvariance, PTL

\* What is submitted begins with the most profitable result and goes on in
\* order (batch_execution.py:62-67, 138).
THEOREM MostProfitableFirst == Spec => []BestFirst
  <1>1. IInv => BestFirst
    <2> SUFFICES ASSUME IInv, plan.at = "ready" PROVE BestFirst
      BY DEF BestFirst
    <2>1. \A r \in Eligible : task[r].net \in Int
      BY EligibleTask DEF IInv
    <2>2. Len(plan.menu) \in Nat /\ plan.menu # <<>>
      BY LenProperties DEF IInv, Typed, Settled
    <2>3. 1 \in 1 .. Len(plan.menu)
      BY <2>2, EmptySeq DEF IInv, Typed
    <2>4. plan.menu[1] \in Eligible
      BY <2>3 DEF IInv, Ranked
    <2>5. \A r \in Eligible : task[r].net <= task[plan.menu[1]].net
      BY <2>1, <2>2, <2>4 DEF IInv, Ranked, Better
    <2>6. \A i, j \in 1 .. Len(plan.menu) :
            i < j => task[plan.menu[i]].net >= task[plan.menu[j]].net
      BY <2>1 DEF IInv, Ranked, Better
    <2>7. QED
      BY <2>5, <2>6 DEF BestFirst
  <1>2. QED
    BY <1>1, PlanInvariance, PTL

\* Every candidate kept covers the cost measured for exactly this menu
\* (batch_execution.py:110-136).
THEOREM MenuPays == Spec => []EveryCandidatePays
  <1>1. IInv => EveryCandidatePays
    BY DEF IInv
  <1>2. QED
    BY <1>1, PlanInvariance, PTL

=============================================================================
