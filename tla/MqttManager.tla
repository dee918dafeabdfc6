---------------------------- MODULE MqttManager ----------------------------
(***************************************************************************)
(* The MQTT publisher of gateway/mqtt_manager.py: the start() task, which  *)
(* provisions, connects, publishes the head of the queue, listens for      *)
(* cloud commands, cleans up and backs off, interleaved at every await     *)
(* with the TCP handlers that enqueue messages and with the modem monitor  *)
(* that makes LTE data come and go.                                        *)
(*                                                                         *)
(* pc names the await at which the publisher task is suspended; a step     *)
(* runs from there to the next await, as asyncio does.  A modem exchange   *)
(* (a command, its answer, its timeout) is one step with all its outcomes. *)
(***************************************************************************)
EXTENDS MqttQueue

CONSTANTS
    Messages,        \* the parsed messages TCP handlers may enqueue
    InitialDelay,    \* seconds: the 5 of start()
    MaxDelay,        \* seconds: MQTT_RECONNECT_MAX_SECONDS
    MaxOffers,       \* bound: calls of enqueue
    MaxCommands,     \* bound: commands received from the cloud
    MaxFailures      \* bound: exceptions in the publisher

ASSUME ManagerAssumption ==
    /\ Messages \subseteq Message
    /\ InitialDelay \in Nat /\ MaxDelay \in Nat /\ InitialDelay <= MaxDelay
    /\ MaxOffers \in Nat /\ MaxCommands \in Nat /\ MaxFailures \in Nat

VARIABLES
    queue, connected, state,
    published, failed, dropped, coalesced, priority_evictions,
    commands_received, commands_rejected,
    pc,          \* where the start() task is suspended
    delay,       \* its local delay
    inflight,    \* <<>> or <<entry>>: its locals topic, payload, kind
    lteReady,    \* modem.responding and modem.data_active, set by the monitor
    offered,     \* history: calls of enqueue
    broker       \* the publishes AWS IoT Core has received, in order

counters == <<published, failed, dropped, coalesced, priority_evictions,
              commands_received, commands_rejected>>
vars == <<queue, connected, state, counters, pc, delay, inflight, lteReady, offered, broker>>

Connecting == {"provision", "configure", "connect", "subscribe"}
Publishing == {"topic", "payload", "publish"}
Labels == Connecting \cup Publishing \cup {"start", "wait", "listen", "cleanup", "backoff"}
States == {"STARTING", "WAITING FOR LTE", "PROVISIONING", "CONNECTING", "CONNECTED",
           "RECONNECTING"}

\* The identity of the next message to reach the queue, from TCP or the cloud.
NextArrival == offered + commands_received + 1

Init ==
    /\ queue = <<>> /\ connected = FALSE /\ state = "STARTING"
    /\ published = 0 /\ failed = 0 /\ dropped = 0 /\ coalesced = 0 /\ priority_evictions = 0
    /\ commands_received = 0 /\ commands_rejected = 0
    /\ pc = "start" /\ delay = InitialDelay /\ inflight = <<>>
    /\ lteReady = FALSE /\ offered = 0 /\ broker = <<>>

-----------------------------------------------------------------------------
(* The other tasks. *)

\* A call's outcome r on the queue and its counters.
Apply(r) ==
    /\ queue' = r.queue
    /\ dropped' = dropped + r.dropped
    /\ coalesced' = coalesced + r.coalesced
    /\ priority_evictions' = priority_evictions + r.evicted

\* A TCP handler enqueues m: synchronous, so possible at each of the publisher's awaits.
Enqueue(m) ==
    /\ offered < MaxOffers
    /\ offered' = offered + 1
    /\ Apply(EnqueueOutcome(queue, m, NextArrival))
    /\ UNCHANGED <<connected, state, published, failed, commands_received,
                   commands_rejected, pc, delay, inflight, lteReady, broker>>

\* The modem monitor finds LTE data up or down.
LteChanges ==
    /\ lteReady' = ~ lteReady
    /\ UNCHANGED <<queue, connected, state, counters, pc, delay, inflight, offered, broker>>

-----------------------------------------------------------------------------
(***************************************************************************)
(* Fragments of the publisher: from a point between two awaits to the next *)
(* await.  They give pc', inflight', state' and leave the rest to the step.*)
(***************************************************************************)

\* Publish the head of the queue, or listen when there is none.
Serve(q) ==
    IF q = <<>> THEN inflight' = <<>> /\ pc' = "listen"
    ELSE inflight' = <<Head(q)>> /\ pc' = "topic"

\* The top of the loop of start(), with q the queue found there.
LoopTop(q) ==
    \/ /\ ~ lteReady
       /\ state' = "WAITING FOR LTE" /\ pc' = "wait" /\ inflight' = <<>>
    \/ /\ lteReady /\ ~ connected
       /\ state' = "PROVISIONING" /\ pc' = "provision" /\ inflight' = <<>>
    \/ lteReady /\ connected /\ Serve(q) /\ UNCHANGED state

-----------------------------------------------------------------------------
(* The publisher task. *)

\* The task starts, or wakes from the sleep of "WAITING FOR LTE".
Wake ==
    /\ pc \in {"start", "wait"}
    /\ LoopTop(queue)
    /\ UNCHANGED <<queue, connected, counters, delay, lteReady, offered, broker>>

\* _connect, up to its last command: certificates; cleanup, TLS options and
\* service start; CMQTTCONNECT.
ConnectStep ==
    /\ \/ pc = "provision" /\ pc' = "configure" /\ UNCHANGED state
       \/ pc = "configure" /\ pc' = "connect" /\ state' = "CONNECTING"
       \/ pc = "connect" /\ pc' = "subscribe" /\ UNCHANGED state
    /\ UNCHANGED <<queue, connected, counters, delay, inflight, lteReady, offered, broker>>


\* The subscription is confirmed; the queue is looked at without another look at LTE.
ConnectDone ==
    /\ pc = "subscribe"
    /\ connected' = TRUE /\ state' = "CONNECTED" /\ delay' = InitialDelay
    /\ Serve(queue)
    /\ UNCHANGED <<queue, counters, lteReady, offered, broker>>

\* _publish, up to its last command: the topic, then the payload, are uploaded.
UploadStep ==
    /\ \/ pc = "topic" /\ pc' = "payload"
       \/ pc = "payload" /\ pc' = "publish"
    /\ UNCHANGED <<queue, connected, state, counters, delay, inflight, lteReady, offered, broker>>

\* +CMQTTPUB: 0,0: whatever is at the head now is removed.
PublishAcked ==
    /\ pc = "publish"
    /\ broker' = Append(broker, inflight[1])
    /\ published' = published + 1
    /\ queue' = Tail(queue)
    /\ LoopTop(queue')
    /\ UNCHANGED <<connected, failed, dropped, coalesced, priority_evictions,
                   commands_received, commands_rejected, delay, lteReady, offered>>

\* Nothing, or nothing that is a command, arrived while listening.
ListenIdle ==
    /\ pc = "listen"
    /\ LoopTop(queue)
    /\ UNCHANGED <<queue, connected, counters, delay, lteReady, offered, broker>>

\* _handle_event: a command, allowed or rejected, is answered through the queue.
HandleEvent ==
    /\ pc = "listen"
    /\ commands_received < MaxCommands
    /\ commands_received' = commands_received + 1
    /\ commands_rejected' \in {commands_rejected, commands_rejected + 1}
    /\ Apply(ResponseOutcome(queue, NextArrival))
    /\ LoopTop(queue')
    /\ UNCHANGED <<connected, published, failed, delay, lteReady, offered, broker>>

\* Mutated form: connected survives an exception.
PublisherFails_StaysConnected ==
    /\ pc \in Connecting \cup Publishing
    /\ failed < MaxFailures
    /\ failed' = failed + 1
    /\ state' = "RECONNECTING" /\ pc' = "cleanup" /\ inflight' = <<>>
    /\ broker' \in {broker} \cup (IF pc = "publish" THEN {Append(broker, inflight[1])} ELSE {})
    /\ UNCHANGED <<queue, connected, published, dropped, coalesced, priority_evictions,
                   commands_received, commands_rejected, delay, lteReady, offered>>

\* A modem exchange raises: ERROR, a timeout, a result that is not 0.  A publish
\* may have reached the broker all the same, its answer being lost or late.
PublisherFails ==
    /\ pc \in Connecting \cup Publishing
    /\ failed < MaxFailures
    /\ failed' = failed + 1
    /\ connected' = FALSE /\ state' = "RECONNECTING" /\ pc' = "cleanup" /\ inflight' = <<>>
    /\ broker' \in {broker} \cup (IF pc = "publish" THEN {Append(broker, inflight[1])} ELSE {})
    /\ UNCHANGED <<queue, published, dropped, coalesced, priority_evictions,
                   commands_received, commands_rejected, delay, lteReady, offered>>

\* _cleanup after a failure: its own errors are swallowed.
CleanupDone ==
    /\ pc = "cleanup" /\ pc' = "backoff"
    /\ UNCHANGED <<queue, connected, state, counters, delay, inflight, lteReady, offered, broker>>

Doubled(d) == IF 2 * d < MaxDelay THEN 2 * d ELSE MaxDelay

\* Mutated form: the retry does not go back to the top of the loop.
BackoffElapsed_StaysAsleep ==
    /\ pc = "backoff"
    /\ delay' = Doubled(delay)
    /\ UNCHANGED <<queue, connected, state, counters, pc, inflight, lteReady, offered, broker>>

\* The sleep of delay seconds ends, the delay doubles and the loop starts again.
BackoffElapsed ==
    /\ pc = "backoff"
    /\ delay' = Doubled(delay)
    /\ LoopTop(queue)
    /\ UNCHANGED <<queue, connected, counters, lteReady, offered, broker>>

Publisher ==
    \/ Wake \/ ConnectStep \/ ConnectDone \/ UploadStep \/ PublishAcked \/ ListenIdle
    \/ HandleEvent \/ PublisherFails \/ CleanupDone \/ BackoffElapsed

Next == Publisher \/ LteChanges \/ \E m \in Messages : Enqueue(m)

Spec == Init /\ [][Next]_vars

\* Every await of the publisher is bounded by a timeout or is a sleep, so its
\* task always takes its next step; nothing is assumed of clients or of LTE.
FairSpec == Spec /\ WF_vars(Publisher)

-----------------------------------------------------------------------------
(* Properties. *)

\* Every variable has its type; the queue never holds more than MQTT_QUEUE_CAPACITY
\* entries; a message is in flight exactly when the publisher is inside _publish.
TypeOK ==
    /\ queue \in Seq(Entry) /\ Len(queue) <= Capacity
    /\ connected \in BOOLEAN /\ state \in States
    /\ published \in Nat /\ failed \in Nat /\ dropped \in Nat /\ coalesced \in Nat
    /\ priority_evictions \in Nat /\ commands_received \in Nat /\ commands_rejected \in Nat
    /\ pc \in Labels /\ delay \in Nat
    /\ inflight \in Seq(Entry) /\ Len(inflight) = (IF pc \in Publishing THEN 1 ELSE 0)
    /\ lteReady \in BOOLEAN /\ offered \in Nat
    /\ broker \in Seq(Entry)

\* Whatever TCP handlers insert, replace and evict during a publish, the queue
\* is never empty when the publisher comes back to pop(0).
PopNeverUnderflows == pc \in Publishing => queue # <<>>

\* Events and command responses stay ahead of telemetry, in the order in which
\* they arrived, although telemetry is coalesced and evicted between them.
ImportantFirst == Ordered(queue)

\* At most one value per telemetry topic waits: a slow link never makes one
\* device fill the queue.
OneValuePerTopic ==
    \A i, j \in DOMAIN queue :
        queue[i].topic = queue[j].topic /\ ~ Important(queue[i]) => i = j

\* An important message in flight is still the head of the queue: a later event
\* cannot overtake it, nor an eviction remove it, while it is being published.
ImportantHeadStable ==
    \A k \in DOMAIN inflight : Important(inflight[k]) => queue # <<>> /\ Head(queue) = inflight[k]

\* On every topic the broker receives values in the order in which they came to the
\* queue: retries repeat a value, but never bring back an older one.
OrderPerTopic ==
    \A i, j \in DOMAIN broker :
        i < j /\ broker[i].topic = broker[j].topic => broker[i].payload <= broker[j].payload

\* published counts acknowledged publishes only, each of them received by the broker.
PublishedWereReceived == published <= Len(broker) /\ Len(broker) <= published + failed

\* What the dashboard shows: connected is true whenever the publisher publishes or listens,
\* CONNECTED is shown only then, and with connected nothing is shown but CONNECTED or
\* WAITING FOR LTE.  (The latter stays on the display when LTE has returned, until an
\* exception; and the flag may outlive the session at the broker: see MqttSession.)
StatusTruthful ==
    /\ pc \in Publishing \cup {"listen"} => connected
    /\ state = "CONNECTED" => connected
    /\ connected => state \in {"CONNECTED", "WAITING FOR LTE"}

\* An event or response leaves the queue only at the head and only when a publish
\* is acknowledged; and if the message in flight was itself an event or response,
\* the one that leaves is that one.  (Not so when telemetry was in flight: see
\* AcceptedEventsDelivered.)
ImportantLeavesByPop ==
    [][\A e \in ToSet(queue) :
          Important(e) /\ e \notin ToSet(queue') =>
              /\ published' = published + 1
              /\ e = Head(queue)
              /\ Important(inflight[1]) => e = Last(broker')]_vars

\* An event is refused only by a queue full of events and responses, whatever its
\* data_class says and however much telemetry is waiting.
EventsAdmitted ==
    [][\A m \in Messages :
          Enqueue(m) /\ "event" \in {m.message_type, m.data_class} =>
              \/ \E e \in ToSet(queue') : e.payload = NextArrival /\ Important(e)
              \/ Len(queue) = Capacity /\ \A e \in ToSet(queue) : Important(e)]_vars

\* What a step takes from the queue, or keeps out of it.
Left == (Payloads(queue) \cup (NextArrival..(offered' + commands_received'))) \ Payloads(queue')

\* No message is lost without a trace: one that leaves the queue, or is refused by it, has a
\* count of its own in dropped or coalesced, or is popped after a publish that is counted; and
\* then it is the message that the broker has received, unless telemetry was in flight, when
\* it may be one that took its place meanwhile (AcceptedEventsDelivered).  Nor is anything
\* counted as dropped or coalesced that stays in the queue.
LossesCounted ==
    [][/\ \A m \in Left :
            \/ dropped' + coalesced' = dropped + coalesced + 1 /\ Left = {m}
            \/ /\ published' = published + 1 /\ m = Head(queue).payload
               /\ m = Last(broker').payload \/ ~ Important(inflight[1])
       /\ dropped' + coalesced' # dropped + coalesced => Left # {}]_vars

\* Once LTE stays up and failures stop, the queue drains: no await, backoff or
\* state strands what was accepted.
Drains == <>[]lteReady => <>[](queue = <<>>)
=============================================================================
