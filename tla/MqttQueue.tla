----------------------------- MODULE MqttQueue -----------------------------
(***************************************************************************)
(* The bounded priority queue of gateway/mqtt_manager.py, as operators on  *)
(* the list `queue`: what one call of enqueue or _enqueue_priority returns *)
(* and leaves behind.  Each call runs without an await, so it is atomic    *)
(* under asyncio and its result is a function of its arguments.            *)
(*                                                                         *)
(* Payloads are identities (the arrival number of the message), topics are *)
(* pairs of a sanitised device path and a data class.                      *)
(***************************************************************************)
EXTENDS Integers, Sequences, SequencesExt

CONSTANTS
    Capacity,     \* MQTT_QUEUE_CAPACITY
    Devices,      \* the (area, device_type, device_id) triples clients send
    SafeName      \* Devices -> path: what _safe leaves of a triple (not
                  \* necessarily injective: "pump_1" and "pump 1" coincide)

ASSUME QueueAssumption == Capacity \in Nat \ {0}

(***************************************************************************)
(* A parsed message: the fields enqueue reads.  Any other message_type or  *)
(* data_class behaves as the default, "telemetry" or "".                   *)
(***************************************************************************)
Message == [device       : Devices,
            message_type : {"telemetry", "event", "diagnostic"},
            data_class   : {"", "event", "diagnostic", "fast", "slow"}]

TelemetryKinds == {"diagnostic", "fast", "slow", "telemetry"}
ImportantKinds == {"event", "response"}

\* Mutated form: data_class is looked at before message_type.
MessageKind_DataClassFirst(m) ==
    CASE m.data_class # ""                                   -> m.data_class
      [] m.data_class = "" /\ m.message_type = "event"       -> "event"
      [] m.data_class = "" /\ m.message_type = "diagnostic"  -> "diagnostic"
      [] OTHER                                               -> "telemetry"

\* event beats diagnostic, which beats the fast and slow telemetry classes.
MessageKind(m) ==
    IF "event" \in {m.message_type, m.data_class} THEN "event"
    ELSE IF "diagnostic" \in {m.message_type, m.data_class} THEN "diagnostic"
    ELSE IF m.data_class \in {"fast", "slow"} THEN m.data_class
    ELSE "telemetry"

\* The suffix of the UNS topic is decided by the same tests as the kind.
Topic(m) == [device |-> SafeName[m.device], class |-> MessageKind(m)]

\* MQTT_RESPONSE_TOPIC, which no device topic equals.
ResponseTopic == [device |-> "gateway", class |-> "response"]

Topics == [device : {SafeName[d] : d \in Devices}, class : TelemetryKinds \cup {"event"}]
          \cup {ResponseTopic}

\* A queued tuple (topic, payload, kind); the topic's suffix tells its kind.
Entry == {e \in [topic : Topics, payload : Nat, kind : TelemetryKinds \cup ImportantKinds] :
             e.topic.class = e.kind}

Important(e) == e.kind \in ImportantKinds

\* The messages a queue holds, by their payloads.
Payloads(q) == {q[i].payload : i \in DOMAIN q}

\* Events and responses come first, in the order of their arrival.
Ordered(q) ==
    \A i, j \in DOMAIN q :
        i < j /\ Important(q[j]) => Important(q[i]) /\ q[i].payload < q[j].payload

-----------------------------------------------------------------------------
(* The scans of the queue. *)

\* The entries an arriving telemetry message of topic t would replace.
CoalescePositions(q, t) ==
    {i \in DOMAIN q : q[i].topic = t /\ q[i].kind # "event"}

\* The order in which kinds are given up when an important message needs room.
EvictionOrder == <<"diagnostic", "fast", "slow", "telemetry">>

PositionsOfKind(q, k) == {i \in DOMAIN q : q[i].kind = k}

\* Mutated form: the fallback after the four kinds is the tail of the queue.
LowestPriorityIndex_FallsToTail(q) ==
    LET ranks == {r \in DOMAIN EvictionOrder : PositionsOfKind(q, EvictionOrder[r]) # {}}
    IN  IF ranks = {} THEN Len(q) ELSE Max(PositionsOfKind(q, EvictionOrder[Min(ranks)]))

\* The last entry of the first kind, in eviction order, that is queued at all;
\* 0 (the code's -1) when only events and responses are queued.
LowestPriorityIndex(q) ==
    LET ranks == {r \in DOMAIN EvictionOrder : PositionsOfKind(q, EvictionOrder[r]) # {}}
    IN  IF ranks = {} THEN 0 ELSE Max(PositionsOfKind(q, EvictionOrder[Min(ranks)]))

\* Mutated form: the scan is missing, the newest event goes first.
InsertionPoint_Front(q) == 1

\* Mutated form: important messages go to the tail like telemetry.
InsertionPoint_Tail(q) == Len(q) + 1

\* Before the first entry that is neither an event nor a response.
InsertionPoint(q) ==
    LET behind == {i \in DOMAIN q : ~ Important(q[i])}
    IN  IF behind = {} THEN Len(q) + 1 ELSE Min(behind)

-----------------------------------------------------------------------------
(***************************************************************************)
(* The outcomes of a call: the queue it leaves and what it added to the    *)
(* counters dropped, coalesced and priority_evictions.                     *)
(***************************************************************************)
Outcome == [queue : Seq(Entry), dropped : {0, 1}, coalesced : {0, 1}, evicted : {0, 1}]

Kept(q)      == [queue |-> q, dropped |-> 0, coalesced |-> 0, evicted |-> 0]
Dropped(q)   == [queue |-> q, dropped |-> 1, coalesced |-> 0, evicted |-> 0]
Coalesced(q) == [queue |-> q, dropped |-> 0, coalesced |-> 1, evicted |-> 0]
Evicted(q)   == [queue |-> q, dropped |-> 1, coalesced |-> 0, evicted |-> 1]

Inserted(q, e) == InsertAt(q, InsertionPoint(q), e)

\* Mutated form: the bound is tested with > instead of >=.
EnqueueImportant_OffByOne(q, e) ==
    IF Len(q) <= Capacity THEN Kept(Inserted(q, e))
    ELSE IF LowestPriorityIndex(q) = 0 THEN Dropped(q)
    ELSE Evicted(Inserted(RemoveAt(q, LowestPriorityIndex(q)), e))

\* Mutated form: the eviction is not counted as a drop.
EnqueueImportant_EvictionUncounted(q, e) ==
    IF Len(q) < Capacity THEN Kept(Inserted(q, e))
    ELSE IF LowestPriorityIndex(q) = 0 THEN Dropped(q)
    ELSE Kept(Inserted(RemoveAt(q, LowestPriorityIndex(q)), e))

\* _enqueue_important: events and command responses.
EnqueueImportant(q, e) ==
    IF Len(q) < Capacity THEN Kept(Inserted(q, e))
    ELSE IF LowestPriorityIndex(q) = 0 THEN Dropped(q)
    ELSE Evicted(Inserted(RemoveAt(q, LowestPriorityIndex(q)), e))

\* Mutated form: no coalescing.
EnqueueTelemetry_NeverCoalesces(q, e) ==
    IF Len(q) >= Capacity THEN Dropped(q) ELSE Kept(Append(q, e))

\* enqueue for every kind but "event": the latest value replaces the queued one
\* of its topic in place, a new topic is appended, a full queue refuses it.
EnqueueTelemetry(q, e) ==
    LET P == CoalescePositions(q, e.topic)
    IN  IF P # {} THEN Coalesced([q EXCEPT ![Max(P)] = e])
        ELSE IF Len(q) >= Capacity THEN Dropped(q)
        ELSE Kept(Append(q, e))

\* enqueue: what a TCP handler's call does with message m, payload p.
EnqueueOutcome(q, m, p) ==
    LET e == [topic |-> Topic(m), payload |-> p, kind |-> MessageKind(m)]
    IN  IF e.kind = "event" THEN EnqueueImportant(q, e) ELSE EnqueueTelemetry(q, e)

\* _enqueue_priority: a command response with payload p.
ResponseOutcome(q, p) ==
    EnqueueImportant(q, [topic |-> ResponseTopic, payload |-> p, kind |-> "response"])
=============================================================================
