---------------------- MODULE FlashblocksIngestProofs ----------------------
(***************************************************************************)
(* The ingest service, for any logs, keys, window and number of permits:   *)
(* no log is handed on twice within a window, every counted log is         *)
(* accounted for, and the flags of /health follow the socket.              *)
(***************************************************************************)
EXTENDS FlashblocksIngest, TLAPS, FiniteSetTheorems

Phases == {"connecting", "heads", "logs", "reading", "accepted", "counted",
           "leaving", "sleeping"}

States ==
  [latest_block : Nat, ws_connected : BOOLEAN, pending_logs_enabled : BOOLEAN,
   pending_logs_received : Nat, duplicate_logs_dropped : Nat,
   route_triggers_sent : Nat, route_trigger_failures : Nat,
   route_triggers_dropped_backpressure : Nat]

\* The shape of the state.
Types ==
  /\ phase \in Phases
  /\ silent \in BOOLEAN
  /\ seen \in [set : SUBSET Keys, order : Seq(Keys)]
  /\ posts \in [Slots -> {"free", "sending", "settled"}]
  /\ state \in States
  /\ trigger \in Logs
  /\ accepted \in Seq(Keys)

\* The window holds the keys accepted last, as many as fit.
Window ==
  /\ Len(seen.order) <= capacity
  /\ Len(seen.order) <= Len(accepted)
  /\ Len(seen.order) < capacity => Len(seen.order) = Len(accepted)
  /\ \A i \in 1 .. Len(seen.order) :
       seen.order[i] = accepted[Len(accepted) - Len(seen.order) + i]
  /\ seen.set = {seen.order[i] : i \in 1 .. Len(seen.order)}

\* While ws_loop talks to a socket, the connection is reported.
SocketReported ==
  phase \in {"heads", "logs", "reading", "accepted", "counted"} => state.ws_connected

IInv ==
  /\ Types
  /\ Window /\ NoRepeatWithinWindow
  /\ Conservation
  /\ FlagsFollowSocket /\ SocketReported

-----------------------------------------------------------------------------
(* The initial state.                                                      *)

LEMMA InitIInv == Init => IInv
<1> SUFFICES ASSUME Init
             PROVE  IInv
  OBVIOUS
<1>1. Types
  <2>1. state \in States
    BY DEF Init, States
  <2>2. seen \in [set : SUBSET Keys, order : Seq(Keys)]
    <3>1. <<>> \in Seq(Keys) /\ {} \in SUBSET Keys
      OBVIOUS
    <3> QED
      BY <3>1 DEF Init
  <2> QED
    BY <2>1, <2>2 DEF Init, Types, Phases
<1>2. Window /\ NoRepeatWithinWindow
  BY IngestAssumption DEF Init, Window, NoRepeatWithinWindow
<1>3. Conservation
  <2>1. Sending = {}
    BY DEF Init, Sending
  <2>2. Cardinality(Sending) = 0
    BY <2>1, FS_EmptySet
  <2> QED
    BY <2>2 DEF Init, Conservation
<1>4. FlagsFollowSocket /\ SocketReported
  BY DEF Init, FlagsFollowSocket, SocketReported
<1> QED
  BY <1>1, <1>2, <1>3, <1>4 DEF IInv

-----------------------------------------------------------------------------
(* Types.                                                                  *)

\* SeenLogs keeps its shape.
LEMMA InsertedType ==
  ASSUME NEW s \in [set : SUBSET Keys, order : Seq(Keys)], NEW key \in Keys
  PROVE  Inserted(s, key) \in [set : SUBSET Keys, order : Seq(Keys)]
<1> DEFINE order == Append(s.order, key)
<1>1. order \in Seq(Keys) /\ order # <<>> /\ s.set \cup {key} \in SUBSET Keys
  BY DEF Inserted
<1>2. Tail(order) \in Seq(Keys)
  BY <1>1
<1>3. Forgotten(s.set \cup {key}, Head(order)) \in SUBSET Keys
  BY <1>1 DEF Forgotten
<1> QED
  BY <1>1, <1>2, <1>3 DEF Inserted

LEMMA TypesStep ==
  ASSUME Types, [Next]_vars
  PROVE  Types'
<1> USE DEF Types, Phases, States
<1>1. CASE SubscribeHeads \/ IdleTimeout \/ Wake \/ Dispatch
  BY <1>1 DEF SubscribeHeads, IdleTimeout, Wake, Dispatch
<1>2. CASE SubscribeLogs
  BY <1>2, IngestAssumption DEF SubscribeLogs
<1>3. CASE Leave \/ ConnectFails
  BY <1>3 DEF Leave, ConnectFails, Disconnected
<1>4. CASE Count
  <2>1. PICK latest \in Nat : latest = Advanced(state.latest_block, block_number[trigger])
    BY IngestAssumption DEF Advanced
  <2>2. PICK received \in Nat : received = state.pending_logs_received + 1
    OBVIOUS
  <2>3. state' = [state EXCEPT !.pending_logs_received = received, !.latest_block = latest]
    BY <1>4, <2>1, <2>2 DEF Count
  <2>4. state' \in States
    BY <2>3
  <2> QED
    BY <1>4, <2>4 DEF Count
<1>5. CASE Backpressure
  BY <1>5 DEF Backpressure
<1>6. CASE Connected
  BY <1>6 DEF Connected
<1>7. CASE StreamEnds \/ FallsSilent
  BY <1>7 DEF StreamEnds, FallsSilent
<1>8. ASSUME NEW n \in Heads, NewHead(n)
      PROVE  Types'
  BY <1>8, IngestAssumption DEF NewHead
<1>9. ASSUME NEW l \in Logs, Duplicate(l)
      PROVE  Types'
  BY <1>9 DEF Duplicate
<1>10. ASSUME NEW l \in Logs, Accept(l)
       PROVE  Types'
  <2>1. dedup_key[l] \in Keys
    BY DEF Keys
  <2>2. Append(accepted, dedup_key[l]) \in Seq(Keys)
    BY <2>1
  <2>3. Inserted(seen, dedup_key[l]) \in [set : SUBSET Keys, order : Seq(Keys)]
    BY <2>1, InsertedType
  <2> QED
    BY <1>10, <2>2, <2>3 DEF Accept
<1>11. ASSUME NEW s \in Slots, NEW end \in {"sent", "failed"}, Settle(s, end)
       PROVE  Types'
  <2>1. /\ state.route_triggers_sent + 1 \in Nat
        /\ state.route_trigger_failures + 1 \in Nat
    OBVIOUS
  <2>2. state' \in States
    BY <1>11, <2>1 DEF Settle
  <2>3. posts' \in [Slots -> {"free", "sending", "settled"}]
    BY <1>11 DEF Settle
  <2> QED
    BY <1>11, <2>2, <2>3 DEF Settle
<1>12. ASSUME NEW s \in Slots, Release(s)
       PROVE  Types'
  BY <1>12 DEF Release
<1>13. CASE UNCHANGED vars
  BY <1>13 DEF vars
<1> QED
  BY <1>1, <1>2, <1>3, <1>4, <1>5, <1>6, <1>7, <1>8, <1>9, <1>10, <1>11, <1>12, <1>13
     DEF Next, WsLoop, Node, Post, Answered, TimesOut

-----------------------------------------------------------------------------
(* The window.                                                             *)

\* A key that is not in the window was not among the last "capacity" accepted
\* ones, so accepting it keeps repetitions a window apart.
LEMMA AcceptKeepsDistance ==
  ASSUME IInv, NEW l \in Logs, Accept(l)
  PROVE  NoRepeatWithinWindow'
<1> DEFINE key == dedup_key[l]
           w == Len(seen.order)
           n == Len(accepted)
<1>1. /\ accepted \in Seq(Keys) /\ seen.order \in Seq(Keys)
      /\ n \in Nat /\ w \in Nat /\ capacity \in Nat \ {0}
  BY IngestAssumption DEF IInv, Types
<1>2. accepted' = Append(accepted, key) /\ key \notin seen.set
  BY DEF Accept
<1>3. DOMAIN accepted' = 1 .. n + 1 /\ DOMAIN accepted = 1 .. n
  BY <1>1, <1>2
<1>4. \A i \in 1 .. n : accepted'[i] = accepted[i]
  BY <1>1, <1>2
<1>5. accepted'[n + 1] = key
  BY <1>1, <1>2
<1>6. ASSUME NEW i \in 1 .. n, n + 1 - i <= capacity
      PROVE  accepted[i] # key
  <2>1. n - w < i
    BY <1>1, <1>6 DEF IInv, Window
  <2>2. PICK k \in 1 .. w : i = n - w + k
    <3> HIDE DEF n, w
    <3>1. i - (n - w) \in 1 .. w /\ i = n - w + (i - (n - w))
      BY <1>1, <2>1
    <3> QED
      BY <3>1
  <2>3. accepted[i] = seen.order[k]
    BY <2>2 DEF IInv, Window
  <2>4. seen.order[k] \in seen.set
    BY DEF IInv, Window
  <2> QED
    BY <1>2, <2>3, <2>4
<1>7. ASSUME NEW i \in 1 .. n + 1, NEW j \in 1 .. n + 1, i < j, accepted'[i] = accepted'[j]
      PROVE  j - i > capacity
  <2>1. i \in 1 .. n
    BY <1>1, <1>7
  <2>2. CASE j = n + 1
    <3>1. accepted[i] = key
      BY <1>4, <1>5, <1>7, <2>1, <2>2
    <3> QED
      BY <1>1, <1>6, <2>1, <2>2, <3>1
  <2>3. CASE j # n + 1
    <3>1. j \in 1 .. n
      BY <1>1, <2>3
    <3>2. accepted[i] = accepted[j]
      BY <1>4, <1>7, <2>1, <3>1
    <3> QED
      BY <1>3, <1>7, <2>1, <3>1, <3>2 DEF IInv, NoRepeatWithinWindow
  <2> QED
    BY <2>2, <2>3
<1> QED
  BY <1>3, <1>7 DEF NoRepeatWithinWindow

\* The window moves on with the key that was accepted; the key it evicts does
\* not occur again in it, so forgetting it forgets nothing that is still inside.
LEMMA AcceptKeepsWindow ==
  ASSUME IInv, NEW l \in Logs, Accept(l), NoRepeatWithinWindow'
  PROVE  Window'
<1> DEFINE key == dedup_key[l]
           w == Len(seen.order)
           n == Len(accepted)
           order == Append(seen.order, key)
<1>1. /\ accepted \in Seq(Keys) /\ seen.order \in Seq(Keys) /\ key \in Keys
      /\ n \in Nat /\ w \in Nat /\ capacity \in Nat \ {0}
  BY IngestAssumption DEF IInv, Types, Keys
<1>2. accepted' = Append(accepted, key) /\ seen' = Inserted(seen, key)
  BY DEF Accept
<1>3. /\ Len(accepted') = n + 1 /\ accepted'[n + 1] = key
      /\ \A i \in 1 .. n : accepted'[i] = accepted[i]
  BY <1>1, <1>2
<1>4. /\ order \in Seq(Keys) /\ Len(order) = w + 1 /\ order[w + 1] = key
      /\ \A i \in 1 .. w : order[i] = seen.order[i]
  BY <1>1
<1>5. /\ w <= capacity /\ w <= n
      /\ w < capacity => w = n
      /\ \A i \in 1 .. w : seen.order[i] = accepted[n - w + i]
      /\ seen.set = {seen.order[i] : i \in 1 .. w}
  BY DEF IInv, Window
\* The longer order is the end of the longer history.
<1>6. ASSUME NEW i \in 1 .. w + 1
      PROVE  order[i] = accepted'[n - w + i]
  <2>1. CASE i = w + 1
    <3>1. n - w + i = n + 1
      <4> HIDE DEF n, w
      <4> QED
        BY <1>1, <2>1
    <3> QED
      BY <1>3, <1>4, <2>1, <3>1
  <2>2. CASE i # w + 1
    <3>1. i \in 1 .. w /\ n - w + i \in 1 .. n
      BY <1>1, <1>5, <2>2
    <3> QED
      BY <1>3, <1>4, <1>5, <3>1
  <2> QED
    BY <2>1, <2>2
<1>7. seen.set \cup {key} = {order[i] : i \in 1 .. w + 1}
  <2>1. ASSUME NEW k \in seen.set
        PROVE  k \in {order[i] : i \in 1 .. w + 1}
    <3>1. PICK i \in 1 .. w : k = seen.order[i]
      BY <1>5
    <3>2. i \in 1 .. w + 1 /\ k = order[i]
      BY <1>1, <1>4, <3>1
    <3> QED
      BY <3>2
  <2>2. key \in {order[i] : i \in 1 .. w + 1}
    <3>1. w + 1 \in 1 .. w + 1
      BY <1>1
    <3> QED
      BY <1>4, <3>1
  <2>3. ASSUME NEW i \in 1 .. w + 1
        PROVE  order[i] \in seen.set \cup {key}
    <3>1. i = w + 1 \/ i \in 1 .. w
      BY <1>1
    <3> QED
      BY <1>4, <1>5, <3>1
  <2> HIDE DEF order, key, w
  <2> QED
    BY <2>1, <2>2, <2>3
<1>8. CASE ~Overfull(order)
  <2>1. seen'.order = order /\ seen'.set = seen.set \cup {key}
    BY <1>2, <1>8 DEF Inserted
  <2>2. w + 1 <= capacity /\ w + 1 = n + 1
    BY <1>1, <1>4, <1>5, <1>8 DEF Overfull
  <2>3. Len(seen'.order) = w + 1
    BY <1>4, <2>1
  <2>4. \A i \in 1 .. w + 1 : seen'.order[i] = accepted'[(n + 1) - (w + 1) + i]
    <3>1. (n + 1) - (w + 1) = n - w
      <4> HIDE DEF n, w
      <4> QED
        BY <1>1
    <3> QED
      BY <1>6, <2>1, <3>1
  <2>5. seen'.set = {seen'.order[i] : i \in 1 .. w + 1}
    BY <1>7, <2>1
  <2>6. w + 1 <= capacity /\ w + 1 <= n + 1 /\ (w + 1 < capacity => w + 1 = n + 1)
    BY <1>1, <2>2
  <2> HIDE DEF order, key, n, w
  <2> QED
    BY <1>3, <2>3, <2>4, <2>5, <2>6 DEF Window
<1>9. CASE Overfull(order)
  <2>1. w = capacity
    BY <1>1, <1>4, <1>5, <1>9 DEF Overfull
  <2>2. seen'.order = Tail(order) /\ seen'.set = (seen.set \cup {key}) \ {Head(order)}
    BY <1>2, <1>9 DEF Inserted, Forgotten
  <2>3. /\ Len(seen'.order) = w /\ Head(order) = order[1]
        /\ \A i \in 1 .. w : seen'.order[i] = order[i + 1]
    <3> HIDE DEF order
    <3> QED
      BY <1>1, <1>4, <2>2
  <2>4. ASSUME NEW i \in 1 .. w
        PROVE  seen'.order[i] = accepted'[(n + 1) - w + i]
    <3>1. i + 1 \in 1 .. w + 1 /\ n - w + (i + 1) = (n + 1) - w + i
      BY <1>1
    <3>2. order[i + 1] = accepted'[n - w + (i + 1)]
      BY <1>6, <3>1
    <3> QED
      BY <2>3, <3>1, <3>2
  <2>5. ASSUME NEW i \in 1 .. w
        PROVE  order[i + 1] # order[1]
    <3>1. /\ 1 \in 1 .. w + 1 /\ i + 1 \in 1 .. w + 1
          /\ n - w + 1 \in 1 .. n + 1 /\ n - w + (i + 1) \in 1 .. n + 1
          /\ n - w + 1 < n - w + (i + 1)
          /\ ~((n - w + (i + 1)) - (n - w + 1) > capacity)
      BY <1>1, <1>5, <2>1
    <3>2. DOMAIN accepted' = 1 .. n + 1
      BY <1>1, <1>2
    <3>3. accepted'[n - w + 1] # accepted'[n - w + (i + 1)]
      BY <3>1, <3>2 DEF NoRepeatWithinWindow
    <3> QED
      BY <1>6, <3>1, <3>3
  <2>6. seen'.set = {seen'.order[i] : i \in 1 .. w}
    <3>1. ASSUME NEW k \in seen'.set
          PROVE  k \in {seen'.order[i] : i \in 1 .. w}
      <4>1. PICK i \in 1 .. w + 1 : k = order[i]
        BY <1>7, <2>2
      <4>2. i # 1
        BY <2>2, <2>3, <4>1
      <4>3. i - 1 \in 1 .. w /\ i = (i - 1) + 1
        BY <1>1, <4>2
      <4>4. k = seen'.order[i - 1]
        BY <2>3, <4>1, <4>3
      <4> QED
        BY <4>3, <4>4
    <3>2. ASSUME NEW i \in 1 .. w
          PROVE  seen'.order[i] \in seen'.set
      <4>1. i + 1 \in 1 .. w + 1
        BY <1>1
      <4>2. order[i + 1] \in seen.set \cup {key}
        BY <1>7, <4>1
      <4> QED
        BY <2>2, <2>3, <2>5, <4>2
    <3> HIDE DEF w
    <3> QED
      BY <3>1, <3>2
  <2>7. w <= capacity /\ w <= n + 1 /\ (w < capacity => w = n + 1)
    BY <1>1, <1>5, <2>1
  <2>8. \A i \in 1 .. w : seen'.order[i] = accepted'[(n + 1) - w + i]
    <3> HIDE DEF n, w
    <3> QED
      BY <2>4
  <2>9. Len(seen'.order) = w /\ Len(accepted') = n + 1
    BY <1>3, <2>3
  <2> HIDE DEF order, key, n, w
  <2>10. \A i \in 1 .. Len(seen'.order) :
           seen'.order[i] = accepted'[Len(accepted') - Len(seen'.order) + i]
    <3>1. n \in Nat /\ w \in Nat
      BY <1>1
    <3> QED
      BY <2>8, <2>9, <3>1
  <2>11. seen'.set = {seen'.order[i] : i \in 1 .. Len(seen'.order)}
    BY <2>6, <2>9
  <2>12. /\ Len(seen'.order) <= capacity /\ Len(seen'.order) <= Len(accepted')
         /\ Len(seen'.order) < capacity => Len(seen'.order) = Len(accepted')
    BY <2>7, <2>9
  <2> QED
    BY <2>10, <2>11, <2>12 DEF Window
<1> QED
  BY <1>8, <1>9

\* Nothing but an acceptance touches the window and the history.
LEMMA WindowStep ==
  ASSUME IInv, [Next]_vars
  PROVE  Window' /\ NoRepeatWithinWindow'
<1>1. ASSUME NEW l \in Logs, Accept(l)
      PROVE  Window' /\ NoRepeatWithinWindow'
  BY <1>1, AcceptKeepsDistance, AcceptKeepsWindow
<1>2. ASSUME UNCHANGED <<seen, accepted>>
      PROVE  Window' /\ NoRepeatWithinWindow'
  BY <1>2 DEF IInv, Window, NoRepeatWithinWindow
<1>3. CASE WsLoop
  BY <1>2, <1>3 DEF WsLoop, SubscribeHeads, SubscribeLogs, IdleTimeout, Leave, Wake, Count,
                    Dispatch, Backpressure
<1>4. CASE Connected \/ ConnectFails \/ StreamEnds \/ FallsSilent
  BY <1>2, <1>4 DEF Connected, ConnectFails, StreamEnds, FallsSilent
<1>5. ASSUME NEW n \in Heads, NewHead(n)
      PROVE  UNCHANGED <<seen, accepted>>
  BY <1>5 DEF NewHead
<1>6. ASSUME NEW l \in Logs, Duplicate(l)
      PROVE  UNCHANGED <<seen, accepted>>
  BY <1>6 DEF Duplicate
<1>7. ASSUME NEW s \in Slots, Answered(s) \/ Post(s)
      PROVE  UNCHANGED <<seen, accepted>>
  BY <1>7 DEF Answered, Post, TimesOut, Settle, Release
<1>8. CASE UNCHANGED vars
  BY <1>2, <1>8 DEF vars
<1> QED
  BY <1>1, <1>2, <1>3, <1>4, <1>5, <1>6, <1>7, <1>8 DEF Next, Node

-----------------------------------------------------------------------------
(* The account of the counted logs.                                        *)

\* A permit that starts sending adds one to those that send, one that is
\* settled takes one away.
LEMMA SendingCounts ==
  ASSUME Types, NEW s \in Slots
  PROVE  /\ IsFiniteSet(Sending) /\ Cardinality(Sending) \in Nat
         /\ s \notin Sending /\ Sending' = Sending \cup {s} =>
              Cardinality(Sending') = Cardinality(Sending) + 1
         /\ s \in Sending /\ Sending' = Sending \ {s} =>
              Cardinality(Sending') = Cardinality(Sending) - 1
<1>1. IsFiniteSet(Sending)
  <2>1. Sending \in SUBSET Slots
    BY DEF Sending
  <2> QED
    BY <2>1, IngestAssumption, FS_Subset
<1>2. Cardinality(Sending) \in Nat
  BY <1>1, FS_CardinalityType
<1>3. Cardinality(Sending \cup {s}) = IF s \in Sending THEN Cardinality(Sending)
                                      ELSE Cardinality(Sending) + 1
  BY <1>1, FS_AddElement
<1>4. Cardinality(Sending \ {s}) = IF s \in Sending THEN Cardinality(Sending) - 1
                                   ELSE Cardinality(Sending)
  BY <1>1, FS_RemoveElement
<1> QED
  BY <1>1, <1>2, <1>3, <1>4

LEMMA ConservationStep ==
  ASSUME Types, Conservation, [Next]_vars
  PROVE  Conservation'
<1>1. Cardinality(Sending) \in Nat
  <2>1. PICK s \in Slots : TRUE
    BY IngestAssumption
  <2> QED
    BY <2>1, SendingCounts
<1>2. ASSUME UNCHANGED posts
      PROVE  Sending' = Sending
  BY <1>2 DEF Sending
<1>3. ASSUME UNCHANGED posts, Types',
             state'.pending_logs_received = state.pending_logs_received,
             state'.route_triggers_sent = state.route_triggers_sent,
             state'.route_trigger_failures = state.route_trigger_failures,
             state'.route_triggers_dropped_backpressure
               = state.route_triggers_dropped_backpressure,
             phase = "counted" <=> phase' = "counted"
      PROVE  Conservation'
  BY <1>2, <1>3 DEF Conservation
<1>4. Types'
  BY TypesStep
<1>0. /\ state.pending_logs_received \in Nat /\ state.route_triggers_sent \in Nat
      /\ state.route_trigger_failures \in Nat
      /\ state.route_triggers_dropped_backpressure \in Nat
  BY DEF Types, States
<1> USE <1>4 DEF Types, States
<1>5. CASE SubscribeHeads \/ SubscribeLogs \/ IdleTimeout \/ Wake
  BY <1>3, <1>5 DEF SubscribeHeads, SubscribeLogs, IdleTimeout, Wake
<1>6. CASE Leave \/ ConnectFails
  BY <1>3, <1>6 DEF Leave, ConnectFails, Disconnected
<1>7. CASE Count
  <2>1. Sending' = Sending
    BY <1>2, <1>7 DEF Count
  <2>2. /\ state'.pending_logs_received = state.pending_logs_received + 1
        /\ state'.route_triggers_sent = state.route_triggers_sent
        /\ state'.route_trigger_failures = state.route_trigger_failures
        /\ state'.route_triggers_dropped_backpressure
             = state.route_triggers_dropped_backpressure
    BY <1>7 DEF Count
  <2>3. phase = "accepted" /\ phase' = "counted"
    BY <1>7 DEF Count
  <2> QED
    BY <1>1, <2>1, <2>2, <2>3 DEF Conservation
<1>8. CASE Dispatch
  <2>1. PICK s \in Slots : posts[s] = "free" /\ posts' = [posts EXCEPT ![s] = "sending"]
    BY <1>8 DEF Dispatch
  <2>2. s \notin Sending /\ Sending' = Sending \cup {s}
    BY <2>1 DEF Sending
  <2>3. Cardinality(Sending') = Cardinality(Sending) + 1
    BY <2>2, SendingCounts
  <2>4. phase = "counted" /\ phase' = "reading" /\ state' = state
    BY <1>8 DEF Dispatch
  <2> QED
    BY <1>1, <2>3, <2>4 DEF Conservation
<1>9. CASE Backpressure
  <2>1. Sending' = Sending
    BY <1>2, <1>9 DEF Backpressure
  <2>2. /\ state'.pending_logs_received = state.pending_logs_received
        /\ state'.route_triggers_sent = state.route_triggers_sent
        /\ state'.route_trigger_failures = state.route_trigger_failures
        /\ state'.route_triggers_dropped_backpressure
             = state.route_triggers_dropped_backpressure + 1
    BY <1>9 DEF Backpressure
  <2>3. phase = "counted" /\ phase' = "reading"
    BY <1>9 DEF Backpressure
  <2> HIDE <1>4 DEF Types, States
  <2> QED
    BY <1>0, <1>1, <2>1, <2>2, <2>3 DEF Conservation
<1>10. CASE Connected \/ StreamEnds \/ FallsSilent
  BY <1>3, <1>10 DEF Connected, StreamEnds, FallsSilent
<1>11. ASSUME NEW n \in Heads, NewHead(n)
       PROVE  Conservation'
  BY <1>3, <1>11 DEF NewHead
<1>12. ASSUME NEW l \in Logs, Duplicate(l) \/ Accept(l)
       PROVE  Conservation'
  BY <1>3, <1>12 DEF Duplicate, Accept
<1>13. ASSUME NEW s \in Slots, NEW end \in {"sent", "failed"}, Settle(s, end)
       PROVE  Conservation'
  <2>1. s \in Sending /\ Sending' = Sending \ {s}
    BY <1>13 DEF Settle, Sending
  <2>2. Cardinality(Sending') = Cardinality(Sending) - 1
    BY <2>1, SendingCounts
  <2>3. /\ state'.pending_logs_received = state.pending_logs_received
        /\ state'.route_triggers_dropped_backpressure
             = state.route_triggers_dropped_backpressure
        /\ \/ /\ state'.route_triggers_sent = state.route_triggers_sent + 1
              /\ state'.route_trigger_failures = state.route_trigger_failures
           \/ /\ state'.route_triggers_sent = state.route_triggers_sent
              /\ state'.route_trigger_failures = state.route_trigger_failures + 1
    BY <1>13 DEF Settle, Counted
  <2>4. phase' = phase
    BY <1>13 DEF Settle
  <2> HIDE <1>4 DEF Types, States
  <2> QED
    BY <1>0, <1>1, <2>2, <2>3, <2>4 DEF Conservation
<1>14. ASSUME NEW s \in Slots, Release(s)
       PROVE  Conservation'
  <2>1. Sending' = Sending
    BY <1>14 DEF Release, Sending
  <2>2. state' = state /\ phase' = phase
    BY <1>14 DEF Release
  <2> QED
    BY <2>1, <2>2 DEF Conservation
<1>15. CASE UNCHANGED vars
  BY <1>3, <1>15 DEF vars
<1> QED
  BY <1>5, <1>6, <1>7, <1>8, <1>9, <1>10, <1>11, <1>12, <1>13, <1>14, <1>15
     DEF Next, WsLoop, Node, Post, Answered, TimesOut

-----------------------------------------------------------------------------
(* The flags.                                                              *)

LEMMA FlagsStep ==
  ASSUME Types, FlagsFollowSocket, SocketReported, [Next]_vars
  PROVE  FlagsFollowSocket' /\ SocketReported'
<1> USE DEF Types, States, FlagsFollowSocket, SocketReported, SocketOpen
<1>1. ASSUME UNCHANGED phase,
             state'.ws_connected = state.ws_connected,
             state'.pending_logs_enabled = state.pending_logs_enabled
      PROVE  FlagsFollowSocket' /\ SocketReported'
  BY <1>1
<1>2. CASE SubscribeHeads
  BY <1>2 DEF SubscribeHeads
<1>3. CASE SubscribeLogs
  BY <1>3 DEF SubscribeLogs
<1>4. CASE IdleTimeout \/ StreamEnds
  BY <1>4 DEF IdleTimeout, StreamEnds
<1>5. CASE Leave
  BY <1>5 DEF Leave, Disconnected
<1>6. CASE ConnectFails
  BY <1>6 DEF ConnectFails, Disconnected
<1>7. CASE Wake
  BY <1>7 DEF Wake
<1>8. CASE Count
  BY <1>8 DEF Count
<1>9. CASE Dispatch
  BY <1>9 DEF Dispatch
<1>10. CASE Backpressure
  BY <1>10 DEF Backpressure
<1>11. CASE Connected
  BY <1>11 DEF Connected
<1>12. CASE FallsSilent
  BY <1>1, <1>12 DEF FallsSilent
<1>13. ASSUME NEW n \in Heads, NewHead(n)
       PROVE  FlagsFollowSocket' /\ SocketReported'
  BY <1>1, <1>13 DEF NewHead
<1>14. ASSUME NEW l \in Logs, Duplicate(l)
       PROVE  FlagsFollowSocket' /\ SocketReported'
  BY <1>1, <1>14 DEF Duplicate
<1>15. ASSUME NEW l \in Logs, Accept(l)
       PROVE  FlagsFollowSocket' /\ SocketReported'
  BY <1>15 DEF Accept
<1>16. ASSUME NEW s \in Slots, NEW end \in {"sent", "failed"}, Settle(s, end)
       PROVE  FlagsFollowSocket' /\ SocketReported'
  BY <1>1, <1>16 DEF Settle
<1>17. ASSUME NEW s \in Slots, Release(s)
       PROVE  FlagsFollowSocket' /\ SocketReported'
  BY <1>1, <1>17 DEF Release
<1>18. CASE UNCHANGED vars
  BY <1>1, <1>18 DEF vars
<1> QED
  BY <1>2, <1>3, <1>4, <1>5, <1>6, <1>7, <1>8, <1>9, <1>10, <1>11, <1>12, <1>13, <1>14,
     <1>15, <1>16, <1>17, <1>18
     DEF Next, WsLoop, Node, Post, Answered, TimesOut

-----------------------------------------------------------------------------
(* The theorems.                                                           *)

LEMMA IInvHolds == Spec => []IInv
<1>1. Init => IInv
  BY InitIInv
<1>2. IInv /\ [Next]_vars => IInv'
  BY TypesStep, WindowStep, ConservationStep, FlagsStep DEF IInv
<1> QED
  BY <1>1, <1>2, PTL DEF Spec

\* The shape of the state (ChainState, SeenLogs, the permits).
THEOREM TypesHold == Spec => []Types
<1>1. IInv => Types
  BY DEF IInv
<1> QED
  BY <1>1, IInvHolds, PTL

\* A log is handed on again only after "capacity" other logs were
\* (SeenLogs::insert_if_new), whatever the node repeats or reorders.
THEOREM NoRepeats == Spec => []NoRepeatWithinWindow
<1>1. IInv => NoRepeatWithinWindow
  BY DEF IInv
<1> QED
  BY <1>1, IInvHolds, PTL

\* Every counted log is being dispatched, being posted or in one of the three
\* outcome counters, for any number of permits.
THEOREM LogsConserved == Spec => []Conservation
<1>1. IInv => Conservation
  BY DEF IInv
<1> QED
  BY <1>1, IInvHolds, PTL

\* /health never reports a connection or a subscription that is not there.
THEOREM FlagsAreTrue == Spec => []FlagsFollowSocket
<1>1. IInv => FlagsFollowSocket
  BY DEF IInv
<1> QED
  BY <1>1, IInvHolds, PTL

=============================================================================
