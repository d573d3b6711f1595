------------------------- MODULE FlashblocksIngest -------------------------
(***************************************************************************)
(* rust-executor/src/main.rs, ingestion: ws_loop keeps a WebSocket to a    *)
(* Base node, deduplicates the pending logs it delivers and hands each new *)
(* one to a task of its own that posts it to the Python API, as long as    *)
(* one of a fixed number of permits is free.                               *)
(*                                                                         *)
(* Concurrency: ws_loop is one task and every await in it lets the posting *)
(* tasks run.  They meet in the counters of ChainState, under its lock,    *)
(* and in the semaphore.  The node delivers logs in any order and as often *)
(* as it likes, closes the stream, falls silent, or never answers.         *)
(***************************************************************************)
EXTENDS Naturals, Sequences, FiniteSets

CONSTANTS
  Logs,         \* pending logs the node may deliver
  dedup_key,    \* key of a log: transaction, log index, block and pool
  block_number, \* the block a log belongs to
  Heads,        \* numbers of the heads the node may announce
  Slots,        \* permits of the semaphore (MAX_INFLIGHT_ROUTE_TRIGGERS)
  capacity,     \* of SeenLogs
  Subscribing,  \* is pendingLogs configured (WATCHED_POOL_ADDRESSES)
  MaxAccepted,  \* bound: logs accepted
  MaxDuplicates \* bound: duplicates counted

Keys == {dedup_key[l] : l \in Logs}

ASSUME IngestAssumption ==
  /\ DOMAIN dedup_key = Logs
  /\ block_number \in [Logs -> Nat] /\ Heads \subseteq Nat
  /\ IsFiniteSet(Slots) /\ Slots # {}
  /\ capacity \in Nat \ {0}
  /\ Subscribing \in BOOLEAN
  /\ MaxAccepted \in Nat /\ MaxDuplicates \in Nat

VARIABLES
  phase,     \* where ws_loop is
  silent,    \* the socket delivers nothing for the whole idle window
  seen,      \* SeenLogs: the set and the order of its keys
  posts,     \* per permit: free, sending, or settled (counted, still held)
  state,     \* ChainState without its timestamps and texts
  trigger,   \* the decoded log ws_loop is working on
  accepted   \* history: keys in the order in which they were found new

vars == <<phase, silent, seen, posts, state, trigger, accepted>>

Init ==
  /\ phase = "connecting"
  /\ silent = FALSE
  /\ seen = [set |-> {}, order |-> <<>>]
  /\ posts = [s \in Slots |-> "free"]
  /\ state = [latest_block |-> 0,
              ws_connected |-> FALSE, pending_logs_enabled |-> FALSE,
              pending_logs_received |-> 0, duplicate_logs_dropped |-> 0,
              route_triggers_sent |-> 0, route_trigger_failures |-> 0,
              route_triggers_dropped_backpressure |-> 0]
  /\ trigger \in Logs
  /\ accepted = <<>>

-----------------------------------------------------------------------------
(* Seeded faults, as in BaseArbExecutor.                                   *)

\* The oldest key is dropped as soon as the window is full.
OverfullEarly(order) == Len(order) >= capacity

\* A rejected trigger is only logged.
CountUnansweredOnly == {"sent"}

\* Only the connection flag is cleared.
PendingFlagKept(s) == [s EXCEPT !.ws_connected = FALSE]

\* socket.next() without a timeout.
NeverElapsed == FALSE

\* A posted trigger is waited for without a timeout.
WaitsForAnswer(s) == FALSE

-----------------------------------------------------------------------------
(* SeenLogs.                                                               *)

Overfull(order) == Len(order) > capacity

\* Evicting a key removes it from the set as well.
Forgotten(set, old) == set \ {old}

\* insert_if_new of a key that is not in the set: one insertion evicts at
\* most one key.
Inserted(s, key) ==
  LET set == s.set \cup {key}
      order == Append(s.order, key)
  IN IF Overfull(order)
     THEN [set |-> Forgotten(set, Head(order)), order |-> Tail(order)]
     ELSE [set |-> set, order |-> order]

-----------------------------------------------------------------------------
(* The connection.                                                         *)

Disconnected(s) == [s EXCEPT !.ws_connected = FALSE, !.pending_logs_enabled = FALSE]

\* connect_async returns a socket.
Connected ==
  /\ phase = "connecting"
  /\ phase' = "heads"
  /\ silent' = FALSE
  /\ state' = [state EXCEPT !.ws_connected = TRUE]
  /\ UNCHANGED <<seen, posts, trigger, accepted>>

\* connect_async returns an error; nothing bounds the wait for either.
ConnectFails ==
  /\ phase = "connecting"
  /\ phase' = "leaving"
  /\ state' = Disconnected(state)
  /\ UNCHANGED <<silent, seen, posts, trigger, accepted>>

\* Subscribe to newHeads, then to pendingLogs.  A send that fails goes
\* straight back to connect_async, past the code that clears the flags.
SubscribeHeads ==
  /\ phase = "heads"
  /\ phase' \in {"logs", "connecting"}
  /\ UNCHANGED <<silent, seen, posts, state, trigger, accepted>>

SubscribeLogs ==
  /\ phase = "logs"
  /\ \/ /\ phase' = "reading"
        /\ state' = [state EXCEPT !.pending_logs_enabled = Subscribing]
     \/ /\ Subscribing
        /\ phase' = "connecting"
        /\ UNCHANGED state
  /\ UNCHANGED <<silent, seen, posts, trigger, accepted>>

\* The idle window has passed without a frame of any kind.
Elapsed == silent

IdleTimeout ==
  /\ phase = "reading"
  /\ Elapsed
  /\ phase' = "leaving"
  /\ UNCHANGED <<silent, seen, posts, state, trigger, accepted>>

\* The stream ends or yields an error.
StreamEnds ==
  /\ phase = "reading" /\ ~silent
  /\ phase' = "leaving"
  /\ UNCHANGED <<silent, seen, posts, state, trigger, accepted>>

\* What follows every way out of the reading loop and a failed connection.
Leave ==
  /\ phase = "leaving"
  /\ phase' = "sleeping"
  /\ state' = Disconnected(state)
  /\ UNCHANGED <<silent, seen, posts, trigger, accepted>>

Wake ==
  /\ phase = "sleeping"
  /\ phase' = "connecting"
  /\ UNCHANGED <<silent, seen, posts, state, trigger, accepted>>

-----------------------------------------------------------------------------
(* The frames of the node.                                                 *)

\* A newHeads notification; a node that lags behind announces a lower one.
NewHead(n) ==
  /\ phase = "reading" /\ ~silent
  /\ state' = [state EXCEPT !.latest_block = n]
  /\ UNCHANGED <<phase, silent, seen, posts, trigger, accepted>>

\* A log whose key is in the window.
Duplicate(l) ==
  /\ phase = "reading" /\ ~silent
  /\ dedup_key[l] \in seen.set
  /\ state.duplicate_logs_dropped < MaxDuplicates
  /\ state' = [state EXCEPT !.duplicate_logs_dropped = @ + 1]
  /\ UNCHANGED <<phase, silent, seen, posts, trigger, accepted>>

\* A new log is marked as seen before it is counted and dispatched.
Accept(l) ==
  /\ phase = "reading" /\ ~silent
  /\ dedup_key[l] \notin seen.set
  /\ Len(accepted) < MaxAccepted
  /\ seen' = Inserted(seen, dedup_key[l])
  /\ accepted' = Append(accepted, dedup_key[l])
  /\ trigger' = l
  /\ phase' = "accepted"
  /\ UNCHANGED <<silent, posts, state>>

\* A log moves the reported block forward only.
Advanced(latest, n) == IF n > latest THEN n ELSE latest

Count ==
  /\ phase = "accepted"
  /\ state' = [state EXCEPT !.pending_logs_received = @ + 1,
                            !.latest_block = Advanced(@, block_number[trigger])]
  /\ phase' = "counted"
  /\ UNCHANGED <<silent, seen, posts, trigger, accepted>>

\* try_acquire_owned: take a free permit, or drop the trigger.
Dispatch ==
  /\ phase = "counted"
  /\ \E s \in Slots :
       /\ posts[s] = "free"
       /\ posts' = [posts EXCEPT ![s] = "sending"]
  /\ phase' = "reading"
  /\ UNCHANGED <<silent, seen, state, trigger, accepted>>

Backpressure ==
  /\ phase = "counted"
  /\ \A s \in Slots : posts[s] # "free"
  /\ state' = [state EXCEPT !.route_triggers_dropped_backpressure = @ + 1]
  /\ phase' = "reading"
  /\ UNCHANGED <<silent, seen, posts, trigger, accepted>>

-----------------------------------------------------------------------------
(* post_route_trigger, in a task that owns a permit.                       *)

\* Which ends of a POST are counted.
Counted == {"sent", "failed"}

\* The POST has ended; the counter is updated under the lock of the state.
Settle(s, end) ==
  /\ posts[s] = "sending"
  /\ posts' = [posts EXCEPT ![s] = "settled"]
  /\ state' = IF end \notin Counted THEN state
              ELSE IF end = "sent" THEN [state EXCEPT !.route_triggers_sent = @ + 1]
              ELSE [state EXCEPT !.route_trigger_failures = @ + 1]
  /\ UNCHANGED <<phase, silent, seen, trigger, accepted>>

\* The API answers, with a success or with another status.
Answered(s) == \E end \in {"sent", "failed"} : Settle(s, end)

\* The client's timeout of ROUTE_TRIGGER_TIMEOUT_SECONDS.
TimeoutConfigured(s) == posts[s] = "sending"

TimesOut(s) == TimeoutConfigured(s) /\ Settle(s, "failed")

\* drop(permit)
Release(s) ==
  /\ posts[s] = "settled"
  /\ posts' = [posts EXCEPT ![s] = "free"]
  /\ UNCHANGED <<phase, silent, seen, state, trigger, accepted>>

-----------------------------------------------------------------------------
(* The node.                                                               *)

\* The node goes quiet without closing the connection.
FallsSilent ==
  /\ phase = "reading"
  /\ silent' = TRUE
  /\ UNCHANGED <<phase, seen, posts, state, trigger, accepted>>

-----------------------------------------------------------------------------

WsLoop ==
  \/ SubscribeHeads \/ SubscribeLogs \/ IdleTimeout \/ Leave \/ Wake
  \/ Count \/ Dispatch \/ Backpressure

Node ==
  \/ Connected \/ ConnectFails \/ StreamEnds \/ FallsSilent
  \/ \E n \in Heads : NewHead(n)
  \/ \E l \in Logs : Duplicate(l) \/ Accept(l)

Post(s) == TimesOut(s) \/ Release(s)

Next ==
  \/ WsLoop
  \/ Node
  \/ \E s \in Slots : Answered(s) \/ Post(s)

Spec == Init /\ [][Next]_vars

\* The runtime keeps running every task that can run and its timers fire;
\* nothing is assumed of the node and of the API.
FairSpec == Spec /\ WF_vars(WsLoop) /\ \A s \in Slots : WF_vars(Post(s))

-----------------------------------------------------------------------------
(* Correctness.                                                            *)

\* A log is handed on again only after "capacity" other logs were: between
\* two acceptances of a key more than a window of others has passed, whatever
\* the node repeats, reorders or repeats after a reconnection.
NoRepeatWithinWindow ==
  \A i, j \in DOMAIN accepted :
    i < j /\ accepted[i] = accepted[j] => j - i > capacity

Sending == {s \in Slots : posts[s] = "sending"}

\* Every log that was counted is accounted for: being dispatched, being
\* posted, or in exactly one of the three outcome counters, at every moment
\* at which somebody can read them (main.rs:667-690, 532-545).
Conservation ==
  state.pending_logs_received =
    state.route_triggers_sent + state.route_trigger_failures
    + state.route_triggers_dropped_backpressure
    + Cardinality(Sending) + (IF phase = "counted" THEN 1 ELSE 0)

SocketOpen == phase \in {"heads", "logs", "reading", "accepted", "counted", "leaving"}

\* /health claims a connection only while there is a socket, or while the one
\* that a failed subscription gave up is being replaced; and it never claims a
\* pendingLogs subscription on a connection it reports as lost, nor one that
\* this connection has not asked for.
FlagsFollowSocket ==
  /\ state.ws_connected => SocketOpen \/ phase = "connecting"
  /\ state.pending_logs_enabled =>
       state.ws_connected /\ phase \notin {"connecting", "heads", "logs", "sleeping"}

\* main.rs:554-558: a feed that has gone silent is left and replaced.
StalledFeedIsReplaced == phase = "reading" /\ silent ~> phase = "connecting"

\* main.rs:730-735: no request keeps its permit for ever, so exhausted permits
\* come back.
PermitsReturn == \A s \in Slots : posts[s] # "free" ~> posts[s] = "free"

=============================================================================
