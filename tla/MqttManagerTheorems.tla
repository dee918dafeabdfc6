------------------------ MODULE MqttManagerTheorems ------------------------
(***************************************************************************)
(* Safety of the MQTT publisher, for every queue capacity, every set of    *)
(* messages and any number of offers, commands and failures, and the       *)
(* refinement of PriorityBuffer by its queue.                              *)
(***************************************************************************)
EXTENDS MqttManagerRefinement, MqttQueueTheorems, FiniteSetTheorems

\* The inductive invariant.  Ordered alone is not inductive: a new event keeps
\* the order only because no queued payload is newer than the arrivals so far.
IInv ==
    /\ TypeOK
    /\ GoodQueue(queue, offered + commands_received)
    /\ PopNeverUnderflows
    /\ ImportantHeadStable

-----------------------------------------------------------------------------
(* The pieces of a step. *)

\* Whatever the loop finds at its top, it goes on with the head of q or without
\* a message.
LEMMA LoopTopProperties ==
  ASSUME NEW q \in Seq(Entry), state \in States, LoopTop(q) \/ (Serve(q) /\ state' = "CONNECTED")
  PROVE  /\ pc' \in Labels /\ state' \in States
         /\ inflight' \in Seq(Entry)
         /\ Len(inflight') = IF pc' \in Publishing THEN 1 ELSE 0
         /\ pc' \in Publishing => q # <<>>
         /\ \A k \in DOMAIN inflight' : q # <<>> /\ Head(q) = inflight'[k]
<1>1. "wait" \notin Publishing /\ "provision" \notin Publishing /\ "listen" \notin Publishing
      /\ "topic" \in Publishing
  BY DEF Publishing
<1>2. {"wait", "provision", "listen", "topic"} \subseteq Labels
  BY DEF Labels, Connecting, Publishing
<1>3. {"WAITING FOR LTE", "PROVISIONING", "CONNECTED"} \subseteq States
  BY DEF States
<1>4. <<>> \in Seq(Entry) /\ Len(<<>>) = 0 /\ DOMAIN <<>> = {}
  OBVIOUS
<1>5. CASE inflight' = <<>> /\ pc' \in {"wait", "provision", "listen"}
           /\ state' \in {state, "WAITING FOR LTE", "PROVISIONING", "CONNECTED"}
  <2>1. pc' \in Labels /\ state' \in States
    BY <1>2, <1>3, <1>5
  <2>2. pc' \notin Publishing
    BY <1>1, <1>5
  <2>3. inflight' \in Seq(Entry) /\ Len(inflight') = 0
    BY <1>5, EmptySeq
  <2>4. DOMAIN inflight' = {}
    BY <1>4, <1>5
  <2> QED BY <2>1, <2>2, <2>3, <2>4
<1>6. CASE q # <<>> /\ inflight' = <<Head(q)>> /\ pc' = "topic" /\ state' \in {state, "CONNECTED"}
  <2>1. Head(q) \in Entry
    BY <1>6, HeadTailProperties
  <2>2. <<Head(q)>> \in Seq(Entry) /\ Len(<<Head(q)>>) = 1 /\ DOMAIN <<Head(q)>> = {1}
        /\ <<Head(q)>>[1] = Head(q)
    BY <2>1
  <2> QED BY <1>1, <1>2, <1>3, <1>6, <2>2
<1>7. \/ inflight' = <<>> /\ pc' \in {"wait", "provision", "listen"}
         /\ state' \in {state, "WAITING FOR LTE", "PROVISIONING", "CONNECTED"}
      \/ q # <<>> /\ inflight' = <<Head(q)>> /\ pc' = "topic" /\ state' \in {state, "CONNECTED"}
  BY DEF LoopTop, Serve
<1> QED BY <1>5, <1>6, <1>7

\* The outcome of one call of enqueue, whatever the message.
LEMMA EnqueueOutcomeIsGood ==
  ASSUME NEW n \in Nat, GoodQueue(queue, n), Len(queue) <= Capacity, NEW m \in Message
  PROVE  LET r == EnqueueOutcome(queue, m, n + 1) IN
         /\ r.dropped \in {0, 1} /\ r.coalesced \in {0, 1} /\ r.evicted \in {0, 1}
         /\ GoodQueue(r.queue, n + 1)
         /\ Len(r.queue) <= Capacity
         /\ r.dropped + r.coalesced + Len(r.queue) = Len(queue) + 1
         /\ KeepsImportant(queue, r.queue)
         /\ queue # <<>> => r.queue # <<>>
<1> DEFINE e == [topic |-> Topic(m), payload |-> n + 1, kind |-> MessageKind(m)]
<1>1. e \in Entry
  BY EntryType
<1>2. e.payload = n + 1 /\ e.kind = MessageKind(m)
  OBVIOUS
<1> HIDE DEF e
<1>3. CASE e.kind = "event"
  <2> DEFINE r == EnqueueImportant(queue, e)
  <2>1. EnqueueOutcome(queue, m, n + 1) = r
    BY <1>3 DEF EnqueueOutcome, e
  <2>2. Important(e)
    BY <1>3 DEF Important, ImportantKinds
  <2>3. /\ r.dropped \in {0, 1} /\ r.coalesced \in {0, 1} /\ r.evicted \in {0, 1}
        /\ GoodQueue(r.queue, n + 1)
        /\ Len(r.queue) <= Capacity
        /\ r.dropped + r.coalesced + Len(r.queue) = Len(queue) + 1
        /\ KeepsImportant(queue, r.queue)
        /\ \/ \E j \in 1..Len(r.queue) : r.queue[j] = e
           \/ Len(queue) = Capacity /\ \A i \in 1..Len(queue) : Important(queue[i])
    BY <1>1, <1>2, <2>2, EnqueueImportantIsGood
  <2>4. queue # <<>> => r.queue # <<>>
    BY <2>3, EmptySeq, QueueAssumption DEF GoodQueue, KeepsImportant
  <2> QED BY <2>1, <2>3, <2>4
<1>4. CASE e.kind # "event"
  <2>1. EnqueueOutcome(queue, m, n + 1) = EnqueueTelemetry(queue, e)
    BY <1>4 DEF EnqueueOutcome, e
  <2>2. ~ Important(e)
    BY <1>2, <1>4, MessageKindType DEF Important, ImportantKinds, TelemetryKinds
  <2> QED BY <1>1, <1>2, <2>1, <2>2, EnqueueTelemetryIsGood
<1> QED BY <1>3, <1>4

\* The outcome of answering one command.
LEMMA ResponseOutcomeIsGood ==
  ASSUME NEW n \in Nat, GoodQueue(queue, n), Len(queue) <= Capacity
  PROVE  LET r == ResponseOutcome(queue, n + 1) IN
         /\ r.dropped \in {0, 1} /\ r.coalesced \in {0, 1} /\ r.evicted \in {0, 1}
         /\ GoodQueue(r.queue, n + 1)
         /\ Len(r.queue) <= Capacity
         /\ r.dropped + r.coalesced + Len(r.queue) = Len(queue) + 1
         /\ KeepsImportant(queue, r.queue)
<1> DEFINE e == [topic |-> ResponseTopic, payload |-> n + 1, kind |-> "response"]
<1>1. e \in Entry
  BY DEF Entry, Topics, ResponseTopic, ImportantKinds
<1>2. e.payload = n + 1 /\ Important(e)
  BY DEF Important, ImportantKinds
<1>3. ResponseOutcome(queue, n + 1) = EnqueueImportant(queue, e)
  BY DEF ResponseOutcome
<1> HIDE DEF e
<1> QED BY <1>1, <1>2, <1>3, EnqueueImportantIsGood

-----------------------------------------------------------------------------
(* The invariant. *)

\* IInv holds initially.
LEMMA InitIInv == Init => IInv
<1> SUFFICES ASSUME Init PROVE IInv
  OBVIOUS
<1>1. <<>> \in Seq(Entry) /\ Len(<<>>) = 0 /\ DOMAIN <<>> = {}
  OBVIOUS
<1>2. TypeOK
  <2>1. queue \in Seq(Entry) /\ inflight \in Seq(Entry) /\ broker \in Seq(Entry)
        /\ Len(queue) = 0 /\ Len(inflight) = 0
    BY EmptySeq DEF Init
  <2>2. pc \in Labels /\ pc \notin Publishing /\ state \in States
    BY DEF Init, Labels, States, Publishing
  <2>3. Len(queue) <= Capacity
    BY <2>1, QueueAssumption
  <2>4. connected \in BOOLEAN /\ lteReady \in BOOLEAN
    BY DEF Init
  <2>5. /\ published \in Nat /\ failed \in Nat /\ dropped \in Nat /\ coalesced \in Nat
        /\ priority_evictions \in Nat /\ commands_received \in Nat /\ commands_rejected \in Nat
        /\ delay \in Nat /\ offered \in Nat
    BY ManagerAssumption DEF Init
  <2> QED BY <2>1, <2>2, <2>3, <2>4, <2>5 DEF TypeOK
<1>3. GoodQueue(queue, offered + commands_received)
  BY <1>1 DEF Init, GoodQueue, Ordered
<1> QED BY <1>1, <1>2, <1>3 DEF Init, IInv, PopNeverUnderflows, ImportantHeadStable, Publishing

\* A TCP handler's call keeps IInv at every await of the publisher.
LEMMA EnqueueIInv ==
  ASSUME IInv, NEW m \in Messages, Enqueue(m)
  PROVE  IInv'
<1> DEFINE n == offered + commands_received
           r == EnqueueOutcome(queue, m, n + 1)
<1>1. n \in Nat /\ m \in Message /\ Len(queue) <= Capacity /\ GoodQueue(queue, n)
  BY ManagerAssumption DEF IInv, TypeOK
<1>2. /\ r.dropped \in {0, 1} /\ r.coalesced \in {0, 1} /\ r.evicted \in {0, 1}
      /\ GoodQueue(r.queue, n + 1)
      /\ Len(r.queue) <= Capacity
      /\ KeepsImportant(queue, r.queue)
      /\ queue # <<>> => r.queue # <<>>
  BY <1>1, EnqueueOutcomeIsGood
<1>3. /\ queue' = r.queue /\ dropped' = dropped + r.dropped
      /\ coalesced' = coalesced + r.coalesced
      /\ priority_evictions' = priority_evictions + r.evicted
      /\ offered' = offered + 1 /\ commands_received' = commands_received
      /\ connected' = connected /\ state' = state /\ published' = published
      /\ failed' = failed /\ commands_rejected' = commands_rejected /\ pc' = pc
      /\ delay' = delay /\ inflight' = inflight /\ lteReady' = lteReady /\ broker' = broker
  BY DEF Enqueue, Apply, NextArrival
<1> HIDE DEF r
<1>0. r.dropped \in Nat /\ r.coalesced \in Nat /\ r.evicted \in Nat
  BY <1>2
<1>4. TypeOK'
  <2>1. queue' \in Seq(Entry) /\ Len(queue') <= Capacity
    BY <1>2, <1>3 DEF GoodQueue
  <2>2. dropped \in Nat /\ coalesced \in Nat /\ priority_evictions \in Nat /\ offered \in Nat
    BY DEF IInv, TypeOK
  <2>3. dropped' \in Nat /\ coalesced' \in Nat /\ priority_evictions' \in Nat /\ offered' \in Nat
    BY <1>0, <1>3, <2>2
  <2> QED BY <1>3, <2>1, <2>3 DEF IInv, TypeOK
<1>5. GoodQueue(queue, offered + commands_received)'
  <2>1. n + 1 = offered' + commands_received'
    BY <1>1, <1>3 DEF IInv, TypeOK
  <2> QED BY <1>2, <1>3, <2>1 DEF GoodQueue, Ordered
<1>6. PopNeverUnderflows'
  BY <1>2, <1>3 DEF IInv, PopNeverUnderflows
<1>7. ImportantHeadStable'
  <2>1. SUFFICES ASSUME NEW k \in DOMAIN inflight, Important(inflight[k])
                 PROVE  queue' # <<>> /\ Head(queue') = inflight[k]
    BY <1>3 DEF ImportantHeadStable
  <2>2. queue # <<>> /\ Head(queue) = inflight[k]
    BY <2>1 DEF IInv, ImportantHeadStable
  <2>3. queue[1] = inflight[k]
    BY <2>2 DEF IInv, TypeOK
  <2>4. r.queue # <<>> /\ r.queue[1] = queue[1]
    BY <1>2, <2>1, <2>2, <2>3 DEF KeepsImportant
  <2>5. r.queue \in Seq(Entry)
    BY <1>2 DEF GoodQueue
  <2> QED BY <1>3, <2>3, <2>4, <2>5
<1> QED BY <1>4, <1>5, <1>6, <1>7 DEF IInv

\* A step of the publisher that ends at the top of the loop keeps IInv, provided
\* the queue it leaves is good.
LEMMA LoopTopIInv ==
  ASSUME IInv, LoopTop(queue') \/ (Serve(queue') /\ state' = "CONNECTED"),
         GoodQueue(queue', offered' + commands_received'), Len(queue') <= Capacity,
         connected' \in BOOLEAN, lteReady' \in BOOLEAN, delay' \in Nat, broker' \in Seq(Entry),
         published' \in Nat, failed' \in Nat, dropped' \in Nat, coalesced' \in Nat,
         priority_evictions' \in Nat, commands_received' \in Nat, commands_rejected' \in Nat,
         offered' \in Nat
  PROVE  IInv'
<1>1. queue' \in Seq(Entry)
  BY DEF GoodQueue
<1>2. state \in States
  BY DEF IInv, TypeOK
<1>3. /\ pc' \in Labels /\ state' \in States
      /\ inflight' \in Seq(Entry)
      /\ Len(inflight') = IF pc' \in Publishing THEN 1 ELSE 0
      /\ pc' \in Publishing => queue' # <<>>
      /\ \A k \in DOMAIN inflight' : queue' # <<>> /\ Head(queue') = inflight'[k]
  BY <1>1, <1>2, LoopTopProperties
<1>4. TypeOK'
  BY <1>1, <1>3 DEF TypeOK
<1>5. PopNeverUnderflows' /\ ImportantHeadStable'
  BY <1>3 DEF PopNeverUnderflows, ImportantHeadStable
<1>6. GoodQueue(queue, offered + commands_received)'
  BY DEF GoodQueue, Ordered
<1> QED BY <1>4, <1>5, <1>6 DEF IInv

\* A step that keeps the queue, the counters and the messages counted so far, and
\* keeps the message in flight or gives it up, keeps IInv.
LEMMA QuietIInv ==
  ASSUME IInv,
         queue' = queue, offered' = offered, commands_received' = commands_received,
         published' = published, dropped' = dropped, coalesced' = coalesced,
         priority_evictions' = priority_evictions, commands_rejected' = commands_rejected,
         delay' = delay, connected' \in BOOLEAN, lteReady' \in BOOLEAN, failed' \in Nat,
         broker' \in Seq(Entry), state' \in States, pc' \in Labels,
         \/ inflight' = inflight /\ (pc' \in Publishing <=> pc \in Publishing)
         \/ inflight' = <<>> /\ pc' \notin Publishing
  PROVE  IInv'
<1>1. inflight' \in Seq(Entry) /\ Len(inflight') = IF pc' \in Publishing THEN 1 ELSE 0
  <2>1. CASE inflight' = inflight /\ (pc' \in Publishing <=> pc \in Publishing)
    BY <2>1 DEF IInv, TypeOK
  <2>2. CASE inflight' = <<>> /\ pc' \notin Publishing
    BY <2>2, EmptySeq
  <2> QED BY <2>1, <2>2
<1>2. TypeOK'
  BY <1>1 DEF IInv, TypeOK
<1>3. GoodQueue(queue, offered + commands_received)'
  BY DEF IInv, GoodQueue, Ordered
<1>4. PopNeverUnderflows'
  BY DEF IInv, PopNeverUnderflows
<1>5. ImportantHeadStable'
  <2>1. DOMAIN <<>> = {}
    OBVIOUS
  <2> QED BY <2>1 DEF IInv, ImportantHeadStable
<1> QED BY <1>2, <1>3, <1>4, <1>5 DEF IInv

\* Removing the head keeps the rest good: PublishAcked keeps IInv.
LEMMA PublishAckedIInv ==
  ASSUME IInv, PublishAcked
  PROVE  IInv'
<1>1. queue \in Seq(Entry) /\ Len(queue) \in Nat /\ queue # <<>> /\ Len(queue) <= Capacity
  BY LenProperties DEF IInv, TypeOK, PopNeverUnderflows, PublishAcked, Publishing
<1>2. /\ Tail(queue) \in Seq(Entry) /\ Len(Tail(queue)) = Len(queue) - 1
      /\ \A i \in 1..Len(Tail(queue)) : Tail(queue)[i] = queue[i + 1]
  BY <1>1, HeadTailProperties
<1>3. /\ queue' = Tail(queue) /\ published' = published + 1 /\ broker' = Append(broker, inflight[1])
      /\ connected' = connected /\ failed' = failed /\ dropped' = dropped
      /\ coalesced' = coalesced /\ priority_evictions' = priority_evictions
      /\ commands_received' = commands_received /\ commands_rejected' = commands_rejected
      /\ delay' = delay /\ lteReady' = lteReady /\ offered' = offered
      /\ LoopTop(queue')
  BY DEF PublishAcked
<1>4. GoodQueue(Tail(queue), offered + commands_received)
  <2>1. DOMAIN queue = 1..Len(queue) /\ DOMAIN Tail(queue) = 1..(Len(queue) - 1)
    BY <1>1, <1>2, LenProperties
  <2>2. Ordered(queue) /\ \A i \in 1..Len(queue) : queue[i].payload <= offered + commands_received
    BY DEF IInv, GoodQueue
  <2>3. \A i \in 1..(Len(queue) - 1) : Tail(queue)[i] = queue[i + 1] /\ i + 1 \in 1..Len(queue)
    BY <1>1, <1>2
  <2> DEFINE t == Tail(queue)
  <2> HIDE DEF t
  <2>4. Ordered(t)
    <3>1. SUFFICES ASSUME NEW i \in 1..(Len(queue) - 1), NEW j \in 1..(Len(queue) - 1), i < j,
                          Important(t[j])
                   PROVE  Important(t[i]) /\ t[i].payload < t[j].payload
      BY <2>1 DEF Ordered, t
    <3>2. i + 1 < j + 1 /\ i + 1 \in 1..Len(queue) /\ j + 1 \in 1..Len(queue)
      BY <1>1, <3>1
    <3>3. t[i] = queue[i + 1] /\ t[j] = queue[j + 1]
      BY <2>3 DEF t
    <3> QED BY <2>1, <2>2, <3>1, <3>2, <3>3 DEF Ordered
  <2>5. \A i \in 1..Len(t) : t[i].payload <= offered + commands_received
    BY <1>1, <1>2, <2>2, <2>3 DEF t
  <2> QED BY <1>2, <2>4, <2>5 DEF GoodQueue, t
<1>6. broker' \in Seq(Entry)
  <2>1. broker \in Seq(Entry) /\ inflight \in Seq(Entry) /\ Len(inflight) = 1
    BY DEF IInv, TypeOK, PublishAcked, Publishing
  <2>2. inflight[1] \in Entry
    BY <2>1, ElementOfSeq
  <2> QED BY <1>3, <2>1, <2>2, AppendProperties
<1>7. /\ connected' \in BOOLEAN /\ lteReady' \in BOOLEAN /\ delay' \in Nat /\ published' \in Nat
      /\ failed' \in Nat /\ dropped' \in Nat /\ coalesced' \in Nat /\ priority_evictions' \in Nat
      /\ commands_received' \in Nat /\ commands_rejected' \in Nat /\ offered' \in Nat
  BY <1>3 DEF IInv, TypeOK
<1>8. GoodQueue(queue', offered' + commands_received') /\ Len(queue') <= Capacity
  <2>1. Len(queue) - 1 <= Capacity
    BY <1>1, QueueAssumption
  <2> QED BY <1>2, <1>3, <1>4, <2>1
<1> QED BY <1>3, <1>6, <1>7, <1>8, LoopTopIInv

\* Answering a command keeps IInv.
LEMMA HandleEventIInv ==
  ASSUME IInv, HandleEvent
  PROVE  IInv'
<1> DEFINE n == offered + commands_received
           r == ResponseOutcome(queue, n + 1)
<1>1. n \in Nat /\ Len(queue) <= Capacity /\ GoodQueue(queue, n)
  BY DEF IInv, TypeOK
<1>2. /\ r.dropped \in {0, 1} /\ r.coalesced \in {0, 1} /\ r.evicted \in {0, 1}
      /\ GoodQueue(r.queue, n + 1)
      /\ Len(r.queue) <= Capacity
  BY <1>1, ResponseOutcomeIsGood
<1>3. /\ queue' = r.queue /\ dropped' = dropped + r.dropped
      /\ coalesced' = coalesced + r.coalesced
      /\ priority_evictions' = priority_evictions + r.evicted
      /\ commands_received' = commands_received + 1 /\ offered' = offered
      /\ commands_rejected' \in {commands_rejected, commands_rejected + 1}
      /\ connected' = connected /\ published' = published /\ failed' = failed
      /\ delay' = delay /\ lteReady' = lteReady /\ broker' = broker
      /\ LoopTop(queue')
  BY DEF HandleEvent, Apply, NextArrival
<1> HIDE DEF r
<1>4. r.dropped \in Nat /\ r.coalesced \in Nat /\ r.evicted \in Nat
  BY <1>2
<1>5. /\ dropped \in Nat /\ coalesced \in Nat /\ priority_evictions \in Nat /\ published \in Nat
      /\ offered \in Nat /\ commands_received \in Nat /\ commands_rejected \in Nat
  BY DEF IInv, TypeOK
<1>6. /\ dropped' \in Nat /\ coalesced' \in Nat /\ priority_evictions' \in Nat
      /\ offered' \in Nat /\ commands_received' \in Nat /\ commands_rejected' \in Nat
  BY <1>3, <1>4, <1>5
<1>7. /\ connected' \in BOOLEAN /\ lteReady' \in BOOLEAN /\ delay' \in Nat
      /\ broker' \in Seq(Entry) /\ published' \in Nat /\ failed' \in Nat
  BY <1>3 DEF IInv, TypeOK
<1>8. GoodQueue(queue', offered' + commands_received') /\ Len(queue') <= Capacity
  <2>1. offered' + commands_received' = n + 1
    BY <1>3, <1>5
  <2> QED BY <1>2, <1>3, <2>1
<1> QED BY <1>3, <1>6, <1>7, <1>8, LoopTopIInv

\* Every step keeps IInv.
LEMMA NextIInv ==
  ASSUME IInv, [Next]_vars
  PROVE  IInv'
<1>1. /\ connected \in BOOLEAN /\ lteReady \in BOOLEAN /\ failed \in Nat /\ delay \in Nat
      /\ broker \in Seq(Entry) /\ state \in States /\ pc \in Labels
      /\ published \in Nat /\ dropped \in Nat /\ coalesced \in Nat /\ priority_evictions \in Nat
      /\ commands_received \in Nat /\ commands_rejected \in Nat /\ offered \in Nat
      /\ Len(queue) <= Capacity /\ GoodQueue(queue, offered + commands_received)
  BY DEF IInv, TypeOK
<1>2. CASE UNCHANGED vars
  BY <1>1, <1>2, QuietIInv DEF vars, counters
<1>3. ASSUME NEW m \in Messages, Enqueue(m)
      PROVE  IInv'
  BY <1>3, EnqueueIInv
<1>4. CASE LteChanges
  BY <1>1, <1>4, QuietIInv DEF LteChanges, counters
<1>5. CASE Wake \/ ListenIdle
  <2>1. /\ LoopTop(queue') /\ queue' = queue /\ delay' = delay /\ connected' = connected
        /\ lteReady' = lteReady /\ offered' = offered /\ broker' = broker
        /\ published' = published /\ failed' = failed /\ dropped' = dropped
        /\ coalesced' = coalesced /\ priority_evictions' = priority_evictions
        /\ commands_received' = commands_received /\ commands_rejected' = commands_rejected
    BY <1>5 DEF Wake, ListenIdle, counters
  <2> QED BY <1>1, <2>1, LoopTopIInv
<1>6. CASE ConnectStep \/ CleanupDone
  <2>1. pc \notin Publishing /\ pc' \notin Publishing /\ pc' \in Labels /\ state' \in States
    BY <1>1, <1>6 DEF ConnectStep, CleanupDone, Publishing, Labels, Connecting, States
  <2> QED BY <1>1, <1>6, <2>1, QuietIInv DEF ConnectStep, CleanupDone, counters
<1>7. CASE ConnectDone
  <2>1. /\ Serve(queue') /\ state' = "CONNECTED" /\ queue' = queue /\ delay' = InitialDelay
        /\ connected' = TRUE /\ lteReady' = lteReady /\ offered' = offered /\ broker' = broker
        /\ published' = published /\ failed' = failed /\ dropped' = dropped
        /\ coalesced' = coalesced /\ priority_evictions' = priority_evictions
        /\ commands_received' = commands_received /\ commands_rejected' = commands_rejected
    BY <1>7 DEF ConnectDone, counters
  <2>3. delay' \in Nat
    BY <2>1, ManagerAssumption
  <2> QED BY <1>1, <2>1, <2>3, LoopTopIInv
<1>8. CASE UploadStep
  <2>1. pc \in Publishing /\ pc' \in Publishing /\ pc' \in Labels
    BY <1>8 DEF UploadStep, Publishing, Labels
  <2> QED BY <1>1, <1>8, <2>1, QuietIInv DEF UploadStep, counters
<1>9. CASE PublishAcked
  BY <1>9, PublishAckedIInv
<1>10. CASE HandleEvent
  BY <1>10, HandleEventIInv
<1>11. CASE PublisherFails
  <2>1. pc' \notin Publishing /\ pc' \in Labels /\ state' \in States
    BY <1>11 DEF PublisherFails, Publishing, Labels, States
  <2>2. broker' \in Seq(Entry)
    <3>1. CASE broker' = broker
      BY <1>1, <3>1
    <3>2. CASE pc = "publish" /\ broker' = Append(broker, inflight[1])
      <4>1. inflight \in Seq(Entry) /\ Len(inflight) = 1
        BY <3>2 DEF IInv, TypeOK, Publishing
      <4>2. inflight[1] \in Entry
        BY <4>1, ElementOfSeq
      <4> QED BY <1>1, <3>2, <4>2, AppendProperties
    <3>3. broker' = broker \/ (pc = "publish" /\ broker' = Append(broker, inflight[1]))
      BY <1>11 DEF PublisherFails
    <3> QED BY <3>1, <3>2, <3>3
  <2>3. failed' \in Nat
    BY <1>1, <1>11 DEF PublisherFails
  <2>4. /\ queue' = queue /\ offered' = offered /\ commands_received' = commands_received
        /\ published' = published /\ dropped' = dropped /\ coalesced' = coalesced
        /\ priority_evictions' = priority_evictions /\ commands_rejected' = commands_rejected
        /\ delay' = delay /\ connected' = FALSE /\ lteReady' = lteReady /\ inflight' = <<>>
    BY <1>11 DEF PublisherFails
  <2> QED BY <1>1, <2>1, <2>2, <2>3, <2>4, QuietIInv
<1>12. CASE BackoffElapsed
  <2>1. /\ LoopTop(queue') /\ queue' = queue /\ delay' = Doubled(delay) /\ connected' = connected
        /\ lteReady' = lteReady /\ offered' = offered /\ broker' = broker
        /\ published' = published /\ failed' = failed /\ dropped' = dropped
        /\ coalesced' = coalesced /\ priority_evictions' = priority_evictions
        /\ commands_received' = commands_received /\ commands_rejected' = commands_rejected
    BY <1>12 DEF BackoffElapsed, counters
  <2>3. delay' \in Nat
    BY <1>1, <2>1, ManagerAssumption DEF Doubled
  <2> QED BY <1>1, <2>1, <2>3, LoopTopIInv
<1> QED BY <1>2, <1>3, <1>4, <1>5, <1>6, <1>7, <1>8, <1>9, <1>10, <1>11, <1>12
        DEF Next, Publisher

\* IInv is an invariant of the publisher and the TCP handlers running beside it.
THEOREM Invariance == Spec => []IInv
BY InitIInv, NextIInv, PTL DEF Spec

-----------------------------------------------------------------------------
(* What follows from it. *)

\* Every variable has its type, and the queue never exceeds MQTT_QUEUE_CAPACITY.
THEOREM TypeCorrect == Spec => []TypeOK
<1>1. IInv => TypeOK
  BY DEF IInv
<1> QED BY <1>1, Invariance, PTL

\* queue.pop(0) never raises IndexError after a publish.
THEOREM PopSafe == Spec => []PopNeverUnderflows
<1>1. IInv => PopNeverUnderflows
  BY DEF IInv
<1> QED BY <1>1, Invariance, PTL

\* Events and responses stay ahead of telemetry and in order of arrival.
THEOREM ImportantStaysFirst == Spec => []ImportantFirst
<1>1. IInv => ImportantFirst
  BY DEF IInv, GoodQueue, ImportantFirst
<1> QED BY <1>1, Invariance, PTL

\* An important message being published is not overtaken, evicted or replaced.
THEOREM ImportantNotOvertaken == Spec => []ImportantHeadStable
<1>1. IInv => ImportantHeadStable
  BY DEF IInv
<1> QED BY <1>1, Invariance, PTL

-----------------------------------------------------------------------------
(* What a step may not do to an important message. *)

\* A call of enqueue or _enqueue_priority keeps every important entry.
LEMMA KeptImportant ==
  ASSUME NEW q \in Seq(Entry), NEW r \in Seq(Entry), KeepsImportant(q, r),
         NEW e \in ToSet(q), Important(e)
  PROVE  e \in ToSet(r)
<1>1. DOMAIN q = 1..Len(q) /\ DOMAIN r = 1..Len(r)
  BY LenProperties
<1>2. PICK i \in 1..Len(q) : e = q[i]
  BY <1>1 DEF ToSet
<1>3. PICK j \in 1..Len(r) : r[j] = q[i]
  BY <1>2 DEF KeepsImportant
<1> QED BY <1>1, <1>2, <1>3 DEF ToSet

\* Of a queue only the head is missing from its tail.
LEMMA OnlyHeadLeaves ==
  ASSUME NEW q \in Seq(Entry), q # <<>>, NEW e \in ToSet(q), e \notin ToSet(Tail(q))
  PROVE  e = Head(q)
<1>1. DOMAIN q = 1..Len(q) /\ Len(q) \in Nat
  BY LenProperties
<1>2. /\ Tail(q) \in Seq(Entry) /\ Len(Tail(q)) = Len(q) - 1
      /\ \A i \in 1..Len(Tail(q)) : Tail(q)[i] = q[i + 1]
  BY HeadTailProperties
<1>3. DOMAIN Tail(q) = 1..(Len(q) - 1)
  BY <1>2, LenProperties
<1>4. PICK i \in 1..Len(q) : e = q[i]
  BY <1>1 DEF ToSet
<1>5. i = 1
  <2>1. SUFFICES ASSUME i # 1 PROVE FALSE
    OBVIOUS
  <2>2. i - 1 \in 1..(Len(q) - 1) /\ (i - 1) + 1 = i
    BY <1>1, <2>1
  <2>3. Tail(q)[i - 1] = e
    BY <1>2, <1>4, <2>2
  <2> QED BY <1>3, <2>2, <2>3 DEF ToSet
<1> QED BY <1>4, <1>5

\* An event or response leaves only at an acknowledged publish, from the head, and
\* is the message acknowledged unless telemetry was in flight.
THEOREM ImportantLeavesOnlyByPop == Spec => ImportantLeavesByPop
<1> DEFINE Leaves(e) == /\ published' = published + 1
                        /\ e = Head(queue)
                        /\ Important(inflight[1]) => e = Last(broker')
<1>1. ASSUME IInv, [Next]_vars, NEW e \in ToSet(queue), Important(e), e \notin ToSet(queue')
      PROVE  Leaves(e)
  <2> DEFINE n == offered + commands_received
  <2>1. queue \in Seq(Entry) /\ n \in Nat /\ Len(queue) <= Capacity /\ GoodQueue(queue, n)
    BY <1>1 DEF IInv, TypeOK
  <2>2. ~ UNCHANGED queue
    BY <1>1
  <2>3. ASSUME NEW m \in Messages, Enqueue(m)
        PROVE  FALSE
    <3> DEFINE r == EnqueueOutcome(queue, m, n + 1)
    <3>1. m \in Message
      BY ManagerAssumption
    <3>2. KeepsImportant(queue, r.queue) /\ GoodQueue(r.queue, n + 1)
      BY <2>1, <3>1, EnqueueOutcomeIsGood
    <3>3. queue' = r.queue
      BY <2>3 DEF Enqueue, Apply, NextArrival
    <3> HIDE DEF r
    <3>4. r.queue \in Seq(Entry)
      BY <3>2 DEF GoodQueue
    <3>5. e \in ToSet(r.queue)
      BY <1>1, <2>1, <3>2, <3>4, KeptImportant
    <3> QED BY <1>1, <3>3, <3>5
  <2>4. CASE HandleEvent
    <3> DEFINE r == ResponseOutcome(queue, n + 1)
    <3>1. KeepsImportant(queue, r.queue) /\ GoodQueue(r.queue, n + 1)
      BY <2>1, ResponseOutcomeIsGood
    <3>2. queue' = r.queue
      BY <2>4 DEF HandleEvent, Apply, NextArrival
    <3> HIDE DEF r
    <3>3. r.queue \in Seq(Entry)
      BY <3>1 DEF GoodQueue
    <3>4. e \in ToSet(r.queue)
      BY <1>1, <2>1, <3>1, <3>3, KeptImportant
    <3> QED BY <1>1, <3>2, <3>4
  <2>5. CASE PublishAcked
    <3>1. queue' = Tail(queue) /\ published' = published + 1 /\ broker' = Append(broker, inflight[1])
          /\ pc \in Publishing
      BY <2>5 DEF PublishAcked, Publishing
    <3>2. queue # <<>>
      BY <1>1, <3>1 DEF IInv, PopNeverUnderflows
    <3>3. e = Head(queue)
      BY <1>1, <2>1, <3>1, <3>2, OnlyHeadLeaves
    <3>4. inflight \in Seq(Entry) /\ Len(inflight) = 1 /\ broker \in Seq(Entry)
      BY <1>1, <3>1 DEF IInv, TypeOK
    <3>5. inflight[1] \in Entry /\ 1 \in DOMAIN inflight
      BY <3>4, ElementOfSeq
    <3>6. Last(broker') = inflight[1]
      <4>1. Len(Append(broker, inflight[1])) = Len(broker) + 1
            /\ Append(broker, inflight[1])[Len(broker) + 1] = inflight[1]
        BY <3>4, <3>5, AppendProperties
      <4> QED BY <3>1, <4>1 DEF Last
    <3>7. Important(inflight[1]) => Head(queue) = inflight[1]
      BY <1>1, <3>5 DEF IInv, ImportantHeadStable
    <3> QED BY <3>1, <3>3, <3>6, <3>7
  <2>6. CASE \/ LteChanges \/ Wake \/ ConnectStep \/ ConnectDone \/ UploadStep \/ ListenIdle
             \/ PublisherFails \/ CleanupDone \/ BackoffElapsed \/ UNCHANGED vars
    BY <2>2, <2>6 DEF LteChanges, Wake, ConnectStep, ConnectDone, UploadStep, ListenIdle,
       PublisherFails, CleanupDone, BackoffElapsed, vars
  <2> QED BY <1>1, <2>3, <2>4, <2>5, <2>6 DEF Next, Publisher
<1>2. ASSUME IInv, [Next]_vars
      PROVE  [\A e \in ToSet(queue) : Important(e) /\ e \notin ToSet(queue') => Leaves(e)]_vars
  BY <1>1, <1>2
<1> QED BY <1>2, Invariance, PTL DEF Spec, ImportantLeavesByPop

\* An event is refused only when everything queued is important already.
THEOREM EventsAlwaysAdmitted == Spec => EventsAdmitted
<1>1. ASSUME IInv, NEW m \in Messages, Enqueue(m), "event" \in {m.message_type, m.data_class}
      PROVE  \/ \E e \in ToSet(queue') : e.payload = NextArrival /\ Important(e)
             \/ Len(queue) = Capacity /\ \A e \in ToSet(queue) : Important(e)
  <2> DEFINE n == offered + commands_received
             e == [topic |-> Topic(m), payload |-> n + 1, kind |-> MessageKind(m)]
             r == EnqueueImportant(queue, e)
  <2>1. queue \in Seq(Entry) /\ n \in Nat /\ Len(queue) <= Capacity /\ GoodQueue(queue, n)
    BY <1>1 DEF IInv, TypeOK
  <2>2. MessageKind(m) = "event"
    BY <1>1 DEF MessageKind
  <2>3. e \in Entry /\ e.payload = n + 1 /\ Important(e)
    <3>1. m \in Message /\ n + 1 \in Nat
      BY <2>1, ManagerAssumption
    <3>2. e \in Entry
      BY <3>1, EntryType
    <3>3. e.kind = "event" /\ e.payload = n + 1
      BY <2>2
    <3> QED BY <3>2, <3>3 DEF Important, ImportantKinds
  <2>4. queue' = r.queue
    BY <1>1, <2>2 DEF Enqueue, Apply, NextArrival, EnqueueOutcome
  <2> HIDE DEF e
  <2>5. /\ GoodQueue(r.queue, n + 1)
        /\ \/ \E j \in 1..Len(r.queue) : r.queue[j] = e
           \/ Len(queue) = Capacity /\ \A i \in 1..Len(queue) : Important(queue[i])
    BY <2>1, <2>3, EnqueueImportantIsGood
  <2> HIDE DEF r
  <2>6. DOMAIN queue = 1..Len(queue) /\ DOMAIN r.queue = 1..Len(r.queue)
    BY <2>1, <2>5, LenProperties DEF GoodQueue
  <2>7. CASE \E j \in 1..Len(r.queue) : r.queue[j] = e
    <3>1. e \in ToSet(queue')
      BY <2>4, <2>6, <2>7 DEF ToSet
    <3>2. e.payload = NextArrival
      BY <2>3 DEF NextArrival
    <3> QED BY <2>3, <3>1, <3>2
  <2>8. CASE Len(queue) = Capacity /\ \A i \in 1..Len(queue) : Important(queue[i])
    BY <2>6, <2>8 DEF ToSet
  <2> QED BY <2>5, <2>7, <2>8
<1>2. ASSUME IInv
      PROVE  [\A m \in Messages :
                Enqueue(m) /\ "event" \in {m.message_type, m.data_class} =>
                  \/ \E e \in ToSet(queue') : e.payload = NextArrival /\ Important(e)
                  \/ Len(queue) = Capacity /\ \A e \in ToSet(queue) : Important(e)]_vars
  BY <1>1, <1>2
<1> QED BY <1>2, Invariance, PTL DEF Spec, EventsAdmitted

-----------------------------------------------------------------------------
(* What status() and the dashboard show. *)

\* The strengthening of StatusTruthful: connected is false while the publisher connects,
\* cleans up or backs off, so that a stale flag cannot be read there.
StatusInv ==
    /\ StatusTruthful
    /\ connected \in BOOLEAN /\ pc \in Labels /\ state \in States
    /\ pc \in Connecting \cup {"cleanup", "backoff"} => ~ connected

\* The loop resumed with connected as it is keeps StatusInv.
LEMMA LoopTopStatusInv ==
  ASSUME StatusInv, NEW q, LoopTop(q), connected' = connected
  PROVE  StatusInv'
BY DEF StatusInv, StatusTruthful, LoopTop, Serve, Labels, States, Connecting, Publishing

\* connected is true whenever the publisher publishes or listens, CONNECTED is shown only
\* with it, and with it only CONNECTED or WAITING FOR LTE.
THEOREM StatusIsTruthful == Spec => []StatusTruthful
<1>1. Init => StatusInv
  BY DEF Init, StatusInv, StatusTruthful, Labels, States, Connecting, Publishing
<1>2. ASSUME StatusInv, [Next]_vars
      PROVE  StatusInv'
  <2>1. CASE UNCHANGED vars
    BY <1>2, <2>1 DEF vars, counters, StatusInv, StatusTruthful
  <2>2. ASSUME NEW m \in Messages, Enqueue(m)
        PROVE  StatusInv'
    BY <1>2, <2>2 DEF Enqueue, StatusInv, StatusTruthful
  <2>3. CASE LteChanges
    BY <1>2, <2>3 DEF LteChanges, counters, StatusInv, StatusTruthful
  <2>4. CASE Wake
    BY <1>2, <2>4, LoopTopStatusInv DEF Wake
  <2>5. CASE ListenIdle
    BY <1>2, <2>5, LoopTopStatusInv DEF ListenIdle
  <2>6. CASE ConnectStep
    BY <1>2, <2>6
       DEF ConnectStep, StatusInv, StatusTruthful, Labels, States, Connecting, Publishing
  <2>7. CASE ConnectDone
    BY <1>2, <2>7
       DEF ConnectDone, Serve, StatusInv, StatusTruthful, Labels, States, Connecting, Publishing
  <2>8. CASE UploadStep
    BY <1>2, <2>8
       DEF UploadStep, StatusInv, StatusTruthful, Labels, States, Connecting, Publishing
  <2>9. CASE PublishAcked
    BY <1>2, <2>9, LoopTopStatusInv DEF PublishAcked
  <2>10. CASE HandleEvent
    BY <1>2, <2>10, LoopTopStatusInv DEF HandleEvent
  <2>11. CASE PublisherFails
    BY <1>2, <2>11
       DEF PublisherFails, StatusInv, StatusTruthful, Labels, States, Connecting, Publishing
  <2>12. CASE CleanupDone
    BY <1>2, <2>12
       DEF CleanupDone, StatusInv, StatusTruthful, Labels, States, Connecting, Publishing
  <2>13. CASE BackoffElapsed
    BY <1>2, <2>13, LoopTopStatusInv DEF BackoffElapsed
  <2> QED BY <1>2, <2>1, <2>2, <2>3, <2>4, <2>5, <2>6, <2>7, <2>8, <2>9, <2>10, <2>11,
             <2>12, <2>13 DEF Next, Publisher
<1>3. StatusInv => StatusTruthful
  BY DEF StatusInv
<1> QED BY <1>1, <1>2, <1>3, PTL DEF Spec

-----------------------------------------------------------------------------
(* One value per topic, and the order of the values the broker receives. *)

\* OrderPerTopic is inductive only with the order of what is on its way: nothing
\* the broker has is newer than the message in flight or the queue, and nothing in
\* flight is newer than the queue, topic by topic.
OrderInv ==
    /\ Single(queue)
    /\ OrderPerTopic
    /\ Newer(broker, queue) /\ Newer(broker, inflight) /\ Newer(inflight, queue)
    /\ UpTo(broker, offered + commands_received)
    /\ UpTo(inflight, offered + commands_received)

\* A call of enqueue keeps one value per topic and adds only the new message.
LEMMA EnqueueOutcomeIsSingle ==
  ASSUME NEW n \in Nat, queue \in Seq(Entry), Single(queue), NEW m \in Message
  PROVE  LET r == EnqueueOutcome(queue, m, n + 1) IN
         /\ Single(r.queue)
         /\ \E e \in Entry : e.payload = n + 1 /\ Only(queue, r.queue, e)
<1> DEFINE e == [topic |-> Topic(m), payload |-> n + 1, kind |-> MessageKind(m)]
<1>1. e \in Entry
  BY EntryType
<1>2. e.payload = n + 1 /\ e.kind = MessageKind(m)
  OBVIOUS
<1> HIDE DEF e
<1>3. CASE e.kind = "event"
  <2>1. EnqueueOutcome(queue, m, n + 1) = EnqueueImportant(queue, e)
    BY <1>3 DEF EnqueueOutcome, e
  <2>2. Important(e)
    BY <1>3 DEF Important, ImportantKinds
  <2> QED BY <1>1, <1>2, <2>1, <2>2, EnqueueImportantIsSingle
<1>4. CASE e.kind # "event"
  <2>1. EnqueueOutcome(queue, m, n + 1) = EnqueueTelemetry(queue, e)
    BY <1>4 DEF EnqueueOutcome, e
  <2>2. ~ Important(e)
    BY <1>2, <1>4, MessageKindType DEF Important, ImportantKinds, TelemetryKinds
  <2> QED BY <1>1, <1>2, <2>1, <2>2, EnqueueTelemetryIsSingle
<1> QED BY <1>3, <1>4

\* The same for the answer to a command.
LEMMA ResponseOutcomeIsSingle ==
  ASSUME NEW n \in Nat, queue \in Seq(Entry), Single(queue)
  PROVE  LET r == ResponseOutcome(queue, n + 1) IN
         /\ Single(r.queue)
         /\ \E e \in Entry : e.payload = n + 1 /\ Only(queue, r.queue, e)
<1> DEFINE e == [topic |-> ResponseTopic, payload |-> n + 1, kind |-> "response"]
<1>1. e \in Entry
  BY DEF Entry, Topics, ResponseTopic, ImportantKinds
<1>2. e.payload = n + 1 /\ Important(e)
  BY DEF Important, ImportantKinds
<1>3. ResponseOutcome(queue, n + 1) = EnqueueImportant(queue, e)
  BY DEF ResponseOutcome
<1> HIDE DEF e
<1> QED BY <1>1, <1>2, <1>3, EnqueueImportantIsSingle

\* Serving the head of q keeps the order between the broker b, the message in
\* flight and q.
LEMMA ServedInOrder ==
  ASSUME NEW n \in Nat, NEW q, GoodQueue(q, n), Single(q), NEW b, Newer(b, q),
         LoopTop(q) \/ Serve(q)
  PROVE  Newer(b, inflight') /\ Newer(inflight', q) /\ UpTo(inflight', n)
<1>1. CASE inflight' = <<>>
  <2>1. Len(inflight') = 0
    BY <1>1, EmptySeq
  <2> QED BY <2>1 DEF Newer, UpTo
<1>2. CASE q # <<>> /\ inflight' = <<Head(q)>>
  <2>1. q \in Seq(Entry) /\ Head(q) = q[1] /\ 1 \in 1..Len(q)
    BY <1>2, EmptySeq, LenProperties DEF GoodQueue
  <2>2. Len(inflight') = 1 /\ inflight'[1] = q[1]
    BY <1>2, <2>1
  <2>3. Newer(b, inflight')
    BY <1>2, <2>1, TailKeepsOrder
  <2>4. Newer(inflight', q)
    BY <1>2, <2>2, HeadIsOldest DEF Newer
  <2>5. UpTo(inflight', n)
    BY <2>1, <2>2 DEF UpTo, GoodQueue
  <2> QED BY <2>3, <2>4, <2>5
<1>3. inflight' = <<>> \/ (q # <<>> /\ inflight' = <<Head(q)>>)
  BY DEF LoopTop, Serve
<1> QED BY <1>1, <1>2, <1>3

\* The broker receives the message in flight: still in order, on every topic.
LEMMA ReceivedInOrder ==
  ASSUME IInv, OrderInv, pc = "publish", broker' = Append(broker, inflight[1])
  PROVE  OrderPerTopic' /\ Newer(broker', queue) /\ UpTo(broker', offered + commands_received)
<1>1. /\ broker \in Seq(Entry) /\ inflight \in Seq(Entry) /\ 1 \in 1..Len(inflight)
      /\ Len(broker) \in Nat
  BY LenProperties DEF IInv, TypeOK, Publishing
<1>2. inflight[1] \in Entry /\ inflight[1].payload \in Nat
  BY <1>1, ElementOfSeq DEF Entry
<1>3. /\ broker' \in Seq(Entry) /\ Len(broker') = Len(broker) + 1
      /\ \A i \in 1..Len(broker) : broker'[i] = broker[i]
      /\ broker'[Len(broker) + 1] = inflight[1]
  BY <1>1, <1>2, AppendProperties
<1>4. DOMAIN broker = 1..Len(broker) /\ DOMAIN broker' = 1..(Len(broker) + 1)
  BY <1>1, <1>3, LenProperties
<1>5. \A i \in 1..Len(broker') :
        \/ i \in 1..Len(broker) /\ broker'[i] = broker[i]
        \/ i = Len(broker) + 1 /\ broker'[i] = inflight[1]
  BY <1>1, <1>3
<1>6. OrderPerTopic'
  <2>1. SUFFICES ASSUME NEW i \in 1..Len(broker'), NEW j \in 1..Len(broker'), i < j,
                        broker'[i].topic = broker'[j].topic
                 PROVE  broker'[i].payload <= broker'[j].payload
    BY <1>3, <1>4 DEF OrderPerTopic
  <2>2. i \in 1..Len(broker) /\ broker'[i] = broker[i]
    BY <1>1, <1>3, <2>1
  <2>3. CASE j \in 1..Len(broker) /\ broker'[j] = broker[j]
    BY <1>4, <2>1, <2>2, <2>3 DEF OrderInv, OrderPerTopic
  <2>4. CASE broker'[j] = inflight[1]
    BY <1>1, <2>1, <2>2, <2>4 DEF OrderInv, Newer
  <2> QED BY <1>5, <2>3, <2>4
<1>7. Newer(broker', queue)
  <2>1. SUFFICES ASSUME NEW i \in 1..Len(broker'), NEW j \in 1..Len(queue),
                        broker'[i].topic = queue[j].topic
                 PROVE  broker'[i].payload <= queue[j].payload
    BY DEF Newer
  <2> QED BY <1>1, <1>5, <2>1 DEF OrderInv, Newer
<1>8. UpTo(broker', offered + commands_received)
  BY <1>1, <1>5 DEF OrderInv, UpTo
<1> QED BY <1>6, <1>7, <1>8

\* OrderInv is kept by every step.
LEMMA NextOrderInv ==
  ASSUME IInv, IInv', OrderInv, [Next]_vars
  PROVE  OrderInv'
<1> DEFINE n == offered + commands_received
<1>1. /\ queue \in Seq(Entry) /\ broker \in Seq(Entry) /\ inflight \in Seq(Entry)
      /\ n \in Nat /\ GoodQueue(queue, n) /\ offered \in Nat /\ commands_received \in Nat
      /\ GoodQueue(queue', offered' + commands_received')
      /\ offered' + commands_received' \in Nat
  <2>1. /\ queue \in Seq(Entry) /\ broker \in Seq(Entry) /\ inflight \in Seq(Entry)
        /\ n \in Nat /\ GoodQueue(queue, n) /\ offered \in Nat /\ commands_received \in Nat
    BY DEF IInv, TypeOK
  <2>2. GoodQueue(queue', offered' + commands_received')
    BY DEF IInv, GoodQueue, Ordered
  <2>3. TypeOK'
    BY DEF IInv
  <2>4. offered' \in Nat /\ commands_received' \in Nat
    BY <2>3 DEF TypeOK
  <2>5. offered' + commands_received' \in Nat
    <3>1. \A a, b \in Nat : a + b \in Nat
      OBVIOUS
    <3> QED BY <2>4, <3>1
  <2> QED BY <2>1, <2>2, <2>5
<1>2. ASSUME NEW r, NEW e \in Entry, e.payload = n + 1, Single(r.queue), Only(queue, r.queue, e),
             queue' = r.queue
      PROVE  /\ Single(queue')
             /\ Newer(broker, queue') /\ Newer(inflight, queue')
             /\ UpTo(broker, n + 1) /\ UpTo(inflight, n + 1)
  <2> HIDE DEF n
  <2>1. queue' \in Seq(Entry) /\ Only(queue, queue', e)
    BY <1>1, <1>2 DEF GoodQueue
  <2>2. /\ Single(queue) /\ Newer(broker, queue) /\ UpTo(broker, n)
        /\ Newer(inflight, queue) /\ UpTo(inflight, n)
    BY DEF OrderInv, n
  <2>3. Newer(broker, queue') /\ UpTo(broker, n + 1)
    BY <1>1, <1>2, <2>1, <2>2, ArrivalIsNewer
  <2>4. Newer(inflight, queue') /\ UpTo(inflight, n + 1)
    BY <1>1, <1>2, <2>1, <2>2, ArrivalIsNewer
  <2> QED BY <1>2, <2>3, <2>4
<1>3. ASSUME NEW m \in Messages, Enqueue(m)
      PROVE  OrderInv'
  <2> DEFINE r == EnqueueOutcome(queue, m, n + 1)
  <2>1. /\ queue' = r.queue /\ offered' = offered + 1
        /\ commands_received' = commands_received /\ inflight' = inflight /\ broker' = broker
    BY <1>3 DEF Enqueue, Apply, NextArrival
  <2>2. m \in Message
    BY ManagerAssumption
  <2>3. Single(r.queue) /\ \E e \in Entry : e.payload = n + 1 /\ Only(queue, r.queue, e)
    BY <1>1, <2>2, EnqueueOutcomeIsSingle DEF OrderInv
  <2> HIDE DEF r
  <2>4. /\ Single(queue') /\ Newer(broker, queue') /\ Newer(inflight, queue')
        /\ UpTo(broker, n + 1) /\ UpTo(inflight, n + 1)
    BY <1>2, <2>1, <2>3
  <2>5. offered' + commands_received' = n + 1
    BY <1>1, <2>1
  <2> QED BY <2>1, <2>4, <2>5 DEF OrderInv, OrderPerTopic
<1>4. CASE HandleEvent
  <2> DEFINE r == ResponseOutcome(queue, n + 1)
  <2>1. /\ queue' = r.queue /\ offered' = offered
        /\ commands_received' = commands_received + 1 /\ LoopTop(queue') /\ broker' = broker
    BY <1>4 DEF HandleEvent, Apply, NextArrival
  <2>2. Single(r.queue) /\ \E e \in Entry : e.payload = n + 1 /\ Only(queue, r.queue, e)
    BY <1>1, ResponseOutcomeIsSingle DEF OrderInv
  <2> HIDE DEF r
  <2>3. Single(queue') /\ Newer(broker, queue') /\ UpTo(broker, n + 1)
    BY <1>2, <2>1, <2>2
  <2>4. offered' + commands_received' = n + 1
    BY <1>1, <2>1
  <2>5. /\ Newer(broker, inflight') /\ Newer(inflight', queue')
        /\ UpTo(inflight', offered' + commands_received')
    BY <1>1, <2>1, <2>3, ServedInOrder
  <2> QED BY <2>1, <2>3, <2>4, <2>5 DEF OrderInv, OrderPerTopic
<1>5. CASE Wake \/ ListenIdle \/ ConnectDone \/ BackoffElapsed
  <2>1. /\ queue' = queue /\ offered' = offered /\ commands_received' = commands_received
        /\ LoopTop(queue) \/ Serve(queue)
        /\ broker' = broker
    BY <1>5 DEF Wake, ListenIdle, ConnectDone, BackoffElapsed, counters
  <2>2. Newer(broker, inflight') /\ Newer(inflight', queue) /\ UpTo(inflight', n)
    BY <1>1, <2>1, ServedInOrder DEF OrderInv
  <2> QED BY <2>1, <2>2 DEF OrderInv, OrderPerTopic
<1>6. CASE PublishAcked
  <2>1. /\ queue' = Tail(queue) /\ offered' = offered
        /\ commands_received' = commands_received /\ LoopTop(queue')
        /\ pc = "publish" /\ broker' = Append(broker, inflight[1])
    BY <1>6 DEF PublishAcked
  <2>2. OrderPerTopic' /\ Newer(broker', queue) /\ UpTo(broker', n)
    BY <2>1, ReceivedInOrder
  <2>3. queue # <<>>
    BY <2>1 DEF IInv, PopNeverUnderflows, Publishing
  <2>4. Single(queue') /\ Newer(broker', queue')
    BY <1>1, <2>1, <2>2, <2>3, TailKeepsOrder DEF OrderInv
  <2>5. Newer(broker', inflight') /\ Newer(inflight', queue') /\ UpTo(inflight', n)
    BY <1>1, <2>1, <2>4, ServedInOrder
  <2> QED BY <2>1, <2>2, <2>4, <2>5 DEF OrderInv
<1>7. CASE PublisherFails
  <2>1. /\ queue' = queue /\ offered' = offered
        /\ commands_received' = commands_received /\ inflight' = <<>>
        /\ broker' = broker \/ (pc = "publish" /\ broker' = Append(broker, inflight[1]))
    BY <1>7 DEF PublisherFails
  <2>2. OrderPerTopic' /\ Newer(broker', queue) /\ UpTo(broker', n)
    <3>1. CASE broker' = broker
      BY <3>1 DEF OrderInv, OrderPerTopic
    <3>2. CASE pc = "publish" /\ broker' = Append(broker, inflight[1])
      BY <3>2, ReceivedInOrder
    <3> QED BY <2>1, <3>1, <3>2
  <2>3. Len(inflight') = 0
    BY <2>1, EmptySeq
  <2> QED BY <2>1, <2>2, <2>3 DEF OrderInv, Newer, UpTo
<1>8. CASE LteChanges \/ ConnectStep \/ UploadStep \/ CleanupDone \/ UNCHANGED vars
  <2>1. /\ queue' = queue /\ offered' = offered /\ commands_received' = commands_received
        /\ inflight' = inflight /\ broker' = broker
    BY <1>8 DEF LteChanges, ConnectStep, UploadStep, CleanupDone, vars, counters
  <2> QED BY <2>1 DEF OrderInv, OrderPerTopic
<1> QED BY <1>3, <1>4, <1>5, <1>6, <1>7, <1>8 DEF Next, Publisher

\* OrderInv holds of every behaviour.
LEMMA OrderInvariance == Spec => []OrderInv
<1>1. Init => OrderInv
  <2> SUFFICES ASSUME Init PROVE OrderInv
    OBVIOUS
  <2>1. Len(queue) = 0 /\ Len(broker) = 0 /\ Len(inflight) = 0 /\ DOMAIN broker = {}
    BY EmptySeq DEF Init
  <2> QED BY <2>1 DEF OrderInv, Single, Newer, UpTo, OrderPerTopic
<1>2. IInv /\ IInv' /\ OrderInv /\ [Next]_vars => OrderInv'
  BY NextOrderInv
<1> QED BY <1>1, <1>2, Invariance, PTL DEF Spec

\* At most one value of a telemetry topic waits in the queue.
THEOREM SlowLinkCoalesces == Spec => []OneValuePerTopic
<1>1. IInv /\ OrderInv => OneValuePerTopic
  <2> SUFFICES ASSUME IInv, OrderInv PROVE OneValuePerTopic
    OBVIOUS
  <2>1. DOMAIN queue = 1..Len(queue)
    BY LenProperties DEF IInv, TypeOK
  <2> QED BY <2>1 DEF OrderInv, Single, OneValuePerTopic
<1> QED BY <1>1, Invariance, OrderInvariance, PTL

\* The broker never receives an older value of a topic after a newer one.
THEOREM ValuesArriveInOrder == Spec => []OrderPerTopic
<1>1. OrderInv => OrderPerTopic
  BY DEF OrderInv
<1> QED BY <1>1, OrderInvariance, PTL

\* The counters published and failed bound what the broker has received.
THEOREM PublishedAreReceived == Spec => []PublishedWereReceived
<1>1. Init => PublishedWereReceived
  BY EmptySeq DEF Init, PublishedWereReceived
<1>2. ASSUME IInv, PublishedWereReceived, [Next]_vars
      PROVE  PublishedWereReceived'
  <2>1. /\ broker \in Seq(Entry) /\ Len(broker) \in Nat /\ published \in Nat /\ failed \in Nat
        /\ published <= Len(broker) /\ Len(broker) <= published + failed
    BY <1>2, LenProperties DEF IInv, TypeOK, PublishedWereReceived
  <2>2. ASSUME pc = "publish"
        PROVE  Len(Append(broker, inflight[1])) = Len(broker) + 1
    <3>1. inflight \in Seq(Entry) /\ 1 \in 1..Len(inflight)
      BY <1>2, <2>2 DEF IInv, TypeOK, Publishing
    <3>2. inflight[1] \in Entry
      BY <3>1, ElementOfSeq
    <3> QED BY <2>1, <3>2, AppendProperties
  <2>3. CASE PublishAcked
    <3>1. Len(broker') = Len(broker) + 1 /\ published' = published + 1 /\ failed' = failed
      BY <2>2, <2>3 DEF PublishAcked
    <3> QED BY <2>1, <3>1 DEF PublishedWereReceived
  <2>4. CASE PublisherFails
    <3>1. Len(broker') \in {Len(broker), Len(broker) + 1}
      BY <2>2, <2>4 DEF PublisherFails
    <3>2. published' = published /\ failed' = failed + 1
      BY <2>4 DEF PublisherFails
    <3> QED BY <2>1, <3>1, <3>2 DEF PublishedWereReceived
  <2>5. CASE \/ LteChanges \/ Wake \/ ConnectStep \/ ConnectDone \/ UploadStep \/ ListenIdle
             \/ HandleEvent \/ CleanupDone \/ BackoffElapsed \/ UNCHANGED vars
             \/ \E m \in Messages : Enqueue(m)
    <3>1. published' = published /\ failed' = failed /\ broker' = broker
      BY <2>5 DEF LteChanges, Wake, ConnectStep, ConnectDone, UploadStep, ListenIdle,
         HandleEvent, CleanupDone, BackoffElapsed, Enqueue, vars, counters
    <3> QED BY <2>1, <3>1 DEF PublishedWereReceived
  <2> QED BY <1>2, <2>3, <2>4, <2>5 DEF Next, Publisher
<1> QED BY <1>1, <1>2, Invariance, PTL DEF Spec

-----------------------------------------------------------------------------
(* Every message that the queue gives up is counted. *)

\* A call of enqueue keeps the messages apart, and keeps all or gives up one it counts.
LEMMA EnqueueOutcomeGivesUp ==
  ASSUME NEW n \in Nat, GoodQueue(queue, n), Distinct(queue), NEW m \in Message
  PROVE  LET r == EnqueueOutcome(queue, m, n + 1) IN
         Distinct(r.queue) /\ GivesUp(queue, n + 1, r.queue, r.dropped + r.coalesced)
<1> DEFINE e == [topic |-> Topic(m), payload |-> n + 1, kind |-> MessageKind(m)]
<1>1. e \in Entry
  BY EntryType
<1>2. e.payload = n + 1 /\ e.kind = MessageKind(m)
  OBVIOUS
<1>3. queue \in Seq(Entry) /\ n + 1 \notin Payloads(queue)
  BY ArrivalIsNew DEF GoodQueue
<1> HIDE DEF e
<1>4. CASE e.kind = "event"
  <2>1. EnqueueOutcome(queue, m, n + 1) = EnqueueImportant(queue, e)
    BY <1>4 DEF EnqueueOutcome, e
  <2> QED BY <1>1, <1>2, <1>3, <2>1, EnqueueImportantGivesUp
<1>5. CASE e.kind # "event"
  <2>1. EnqueueOutcome(queue, m, n + 1) = EnqueueTelemetry(queue, e)
    BY <1>5 DEF EnqueueOutcome, e
  <2> QED BY <1>1, <1>2, <1>3, <2>1, EnqueueTelemetryGivesUp
<1> QED BY <1>4, <1>5

\* The same for the answer to a command.
LEMMA ResponseOutcomeGivesUp ==
  ASSUME NEW n \in Nat, GoodQueue(queue, n), Distinct(queue)
  PROVE  LET r == ResponseOutcome(queue, n + 1) IN
         Distinct(r.queue) /\ GivesUp(queue, n + 1, r.queue, r.dropped + r.coalesced)
<1> DEFINE e == [topic |-> ResponseTopic, payload |-> n + 1, kind |-> "response"]
<1>1. e \in Entry
  BY DEF Entry, Topics, ResponseTopic, ImportantKinds
<1>2. ResponseOutcome(queue, n + 1) = EnqueueImportant(queue, e) /\ e.payload = n + 1
  BY DEF ResponseOutcome
<1>3. queue \in Seq(Entry) /\ n + 1 \notin Payloads(queue)
  BY ArrivalIsNew DEF GoodQueue
<1> HIDE DEF e
<1> QED BY <1>1, <1>2, <1>3, EnqueueImportantGivesUp

\* What LossesCounted says of a step.
Counted ==
    /\ \A m \in Left :
         \/ dropped' + coalesced' = dropped + coalesced + 1 /\ Left = {m}
         \/ /\ published' = published + 1 /\ m = Head(queue).payload
            /\ m = Last(broker').payload \/ ~ Important(inflight[1])
    /\ dropped' + coalesced' # dropped + coalesced => Left # {}

\* A call with outcome r is counted as LossesCounted says.
LEMMA CallCounted ==
  ASSUME IInv, Distinct(queue), NEW r, r.dropped \in {0, 1}, r.coalesced \in {0, 1},
         GivesUp(queue, offered + commands_received + 1, r.queue, r.dropped + r.coalesced),
         Apply(r), offered' + commands_received' = offered + commands_received + 1
  PROVE  Counted
<1> DEFINE n == offered + commands_received
           c == r.dropped + r.coalesced
           old == Payloads(queue) \cup {n + 1}
<1>1. /\ n \in Nat /\ dropped \in Nat /\ coalesced \in Nat /\ NextArrival = n + 1
      /\ queue' = r.queue /\ dropped' = dropped + r.dropped /\ coalesced' = coalesced + r.coalesced
  BY DEF IInv, TypeOK, NextArrival, Apply
<1>2. NextArrival..(offered' + commands_received') = {n + 1}
  BY <1>1
<1>3. Left = old \ Payloads(r.queue)
  BY <1>1, <1>2 DEF Left
<1>4. dropped' + coalesced' = dropped + coalesced + c
  BY <1>1
<1>5. CASE c = 0 /\ Payloads(r.queue) = old
  <2>1. Left = {}
    BY <1>3, <1>5
  <2>2. dropped' + coalesced' = dropped + coalesced
    BY <1>1, <1>4, <1>5
  <2> QED BY <2>1, <2>2 DEF Counted
<1>6. CASE c = 1 /\ \E x \in old : Payloads(r.queue) = old \ {x}
  <2>1. PICK x \in old : Payloads(r.queue) = old \ {x}
    BY <1>6
  <2> HIDE DEF old
  <2>2. Left = {x}
    BY <1>3, <2>1
  <2>3. dropped' + coalesced' = dropped + coalesced + 1
    BY <1>4, <1>6
  <2> QED BY <2>2, <2>3 DEF Counted
<1> QED BY <1>5, <1>6 DEF GivesUp

\* The publisher's pop takes the head only, and counts it as published.
LEMMA PopCounted ==
  ASSUME IInv, Distinct(queue), PublishAcked
  PROVE  Distinct(queue)' /\ Counted
<1>1. /\ queue' = Tail(queue) /\ published' = published + 1 /\ broker' = Append(broker, inflight[1])
      /\ dropped' = dropped /\ coalesced' = coalesced /\ offered' = offered
      /\ commands_received' = commands_received /\ pc \in Publishing
  BY DEF PublishAcked, Publishing
<1>2. queue \in Seq(Entry) /\ queue # <<>> /\ offered \in Nat /\ commands_received \in Nat
  BY <1>1 DEF IInv, TypeOK, PopNeverUnderflows
<1>3. /\ Tail(queue) \in Seq(Entry) /\ Len(Tail(queue)) = Len(queue) - 1 /\ Len(queue) \in Nat
      /\ \A i \in 1..Len(Tail(queue)) : Tail(queue)[i] = queue[i + 1]
      /\ Head(queue) = queue[1]
  BY <1>2, HeadTailProperties, LenProperties
<1> DEFINE t == Tail(queue)
<1> HIDE DEF t
<1>4. \A i \in 1..Len(t) : i + 1 \in 1..Len(queue) /\ t[i] = queue[i + 1]
  BY <1>3 DEF t
<1>5. Distinct(t)
  <2>1. SUFFICES ASSUME NEW i \in 1..Len(t), NEW j \in 1..Len(t), t[i].payload = t[j].payload
                 PROVE  i = j
    BY DEF Distinct
  <2>2. i + 1 = j + 1
    BY <1>4, <2>1 DEF Distinct
  <2> QED BY <2>2
<1>6. ASSUME NEW m \in Left
      PROVE  m = Head(queue).payload
  <2>1. m \in Payloads(queue) /\ m \notin Payloads(t)
    <3>1. NextArrival..(offered' + commands_received') = {}
      BY <1>1, <1>2 DEF NextArrival
    <3> QED BY <1>1, <1>6, <3>1 DEF Left, t
  <2>2. PICK i \in 1..Len(queue) : queue[i].payload = m
    BY <1>2, <2>1, PayloadsOf
  <2>3. i = 1
    <3>1. SUFFICES ASSUME i # 1 PROVE FALSE
      OBVIOUS
    <3>2. i - 1 \in 1..Len(t) /\ (i - 1) + 1 = i
      BY <1>3, <3>1 DEF t
    <3>3. t[i - 1] = queue[i]
      BY <1>4, <3>2
    <3> QED BY <1>3, <2>1, <2>2, <3>2, <3>3, PayloadsOf DEF t
  <2> QED BY <1>3, <2>2, <2>3
<1>7. inflight \in Seq(Entry) /\ Len(inflight) = 1 /\ broker \in Seq(Entry)
  BY <1>1 DEF IInv, TypeOK
<1>8. inflight[1] \in Entry /\ 1 \in DOMAIN inflight
  BY <1>7, ElementOfSeq
<1>9. Last(broker') = inflight[1]
  <2>1. Len(Append(broker, inflight[1])) = Len(broker) + 1
        /\ Append(broker, inflight[1])[Len(broker) + 1] = inflight[1]
    BY <1>7, <1>8, AppendProperties
  <2> QED BY <1>1, <2>1 DEF Last
<1>10. Important(inflight[1]) => Head(queue) = inflight[1]
  BY <1>8 DEF IInv, ImportantHeadStable
<1>11. Counted
  BY <1>1, <1>6, <1>9, <1>10 DEF Counted
<1>12. Distinct(queue')
  BY <1>1, <1>5 DEF t
<1> QED BY <1>11, <1>12 DEF Distinct

\* Each step keeps the queued messages apart and counts what it gives up.
LEMMA NextCounted ==
  ASSUME IInv, Distinct(queue), [Next]_vars
  PROVE  Distinct(queue)' /\ Counted
<1> DEFINE n == offered + commands_received
<1>1. /\ n \in Nat /\ offered \in Nat /\ commands_received \in Nat /\ Len(queue) <= Capacity
      /\ GoodQueue(queue, n) /\ NextArrival = n + 1
  BY DEF IInv, TypeOK, NextArrival
<1>2. ASSUME NEW m \in Messages, Enqueue(m)
      PROVE  Distinct(queue)' /\ Counted
  <2> DEFINE r == EnqueueOutcome(queue, m, n + 1)
  <2>1. m \in Message
    BY ManagerAssumption
  <2>2. r.dropped \in {0, 1} /\ r.coalesced \in {0, 1}
    BY <1>1, <2>1, EnqueueOutcomeIsGood
  <2>3. Distinct(r.queue) /\ GivesUp(queue, n + 1, r.queue, r.dropped + r.coalesced)
    BY <1>1, <2>1, EnqueueOutcomeGivesUp
  <2>4. Apply(r) /\ offered' + commands_received' = n + 1
    BY <1>1, <1>2 DEF Enqueue
  <2> HIDE DEF r
  <2>5. Counted
    BY <2>2, <2>3, <2>4, CallCounted
  <2>6. queue' = r.queue
    BY <2>4 DEF Apply
  <2> QED BY <2>3, <2>5, <2>6 DEF Distinct
<1>3. CASE HandleEvent
  <2> DEFINE r == ResponseOutcome(queue, n + 1)
  <2>1. r.dropped \in {0, 1} /\ r.coalesced \in {0, 1}
    BY <1>1, ResponseOutcomeIsGood
  <2>2. Distinct(r.queue) /\ GivesUp(queue, n + 1, r.queue, r.dropped + r.coalesced)
    BY <1>1, ResponseOutcomeGivesUp
  <2>3. Apply(r) /\ offered' + commands_received' = n + 1
    BY <1>1, <1>3 DEF HandleEvent
  <2> HIDE DEF r
  <2>4. Counted
    BY <2>1, <2>2, <2>3, CallCounted
  <2>5. queue' = r.queue
    BY <2>3 DEF Apply
  <2> QED BY <2>2, <2>4, <2>5 DEF Distinct
<1>4. CASE PublishAcked
  BY <1>4, PopCounted
<1>5. CASE \/ LteChanges \/ Wake \/ ConnectStep \/ ConnectDone \/ UploadStep \/ ListenIdle
           \/ PublisherFails \/ CleanupDone \/ BackoffElapsed \/ UNCHANGED vars
  <2>1. /\ queue' = queue /\ dropped' = dropped /\ coalesced' = coalesced /\ offered' = offered
        /\ commands_received' = commands_received
    BY <1>5 DEF LteChanges, Wake, ConnectStep, ConnectDone, UploadStep, ListenIdle,
       PublisherFails, CleanupDone, BackoffElapsed, vars, counters
  <2>2. NextArrival..(offered' + commands_received') = {}
    BY <1>1, <2>1
  <2>3. Left = {}
    BY <2>1, <2>2 DEF Left
  <2> QED BY <2>1, <2>3 DEF Counted, Distinct
<1> QED BY <1>2, <1>3, <1>4, <1>5 DEF Next, Publisher

\* No message leaves the queue or is refused by it without a count of its own in dropped,
\* coalesced or published, and nothing is counted as lost that stays.
THEOREM LossesAreCounted == Spec => LossesCounted
<1>1. Init => Distinct(queue)
  BY EmptySeq DEF Init, Distinct
<1>2. IInv /\ Distinct(queue) /\ [Next]_vars => Distinct(queue)' /\ Counted
  BY NextCounted
<1>3. Spec => [][Counted]_vars
  <2>1. IInv /\ Distinct(queue) /\ [Next]_vars => [Counted]_vars
    BY <1>2
  <2>2. Spec => []Distinct(queue)
    BY <1>1, <1>2, Invariance, PTL DEF Spec
  <2> QED BY <2>1, <2>2, Invariance, PTL DEF Spec
<1> QED BY <1>3, PTL DEF LossesCounted, Counted

-----------------------------------------------------------------------------
(* What the abstract buffer sees of a queue. *)

\* The first n entries of q, and no other, are important.
Split(q, n) == n \in 0..Len(q) /\ \A i \in 1..Len(q) : Important(q[i]) <=> i <= n

\* p is the value of telemetry topic t that waits in q.
Holds(q, t, p) == \E i \in 1..Len(q) : ~ Important(q[i]) /\ q[i].topic = t /\ q[i].payload = p

\* What is known of the queue at every step.
Arranged(q) == q \in Seq(Entry) /\ Ordered(q) /\ Single(q)

\* The insertion point splits a queue in order.
LEMMA OrderedSplits ==
  ASSUME NEW q \in Seq(Entry), Ordered(q)
  PROVE  Split(q, InsertionPoint(q) - 1)
<1> DEFINE k == InsertionPoint(q)
<1>1. /\ k \in 1..(Len(q) + 1) /\ Len(q) \in Nat /\ DOMAIN q = 1..Len(q)
      /\ \A i \in 1..Len(q) : i < k => Important(q[i])
      /\ k <= Len(q) => ~ Important(q[k])
  BY InsertionPointProperties, LenProperties
<1> HIDE DEF k
<1>2. \A i \in 1..Len(q) : i >= k => ~ Important(q[i])
  BY <1>1 DEF Ordered
<1>3. k - 1 \in 0..Len(q)
  BY <1>1
<1>4. \A i \in 1..Len(q) : i < k <=> i <= k - 1
  BY <1>1
<1>5. \A i \in 1..Len(q) : i < k \/ i >= k
  BY <1>1
<1>6. Split(q, k - 1)
  BY <1>1, <1>2, <1>3, <1>4, <1>5 DEF Split
<1> QED BY <1>6 DEF k

\* The urgent messages are the payloads up to the split.
LEMMA UrgentsOf ==
  ASSUME NEW q \in Seq(Entry), NEW n, Split(q, n)
  PROVE  /\ ImportantLength(q) = n /\ n \in Nat /\ n <= Len(q)
         /\ Urgents(q) = [i \in 1..n |-> q[i].payload]
         /\ Urgents(q) \in Seq(Nat) /\ Len(Urgents(q)) = n
<1>1. Len(q) \in Nat /\ DOMAIN q = 1..Len(q) /\ n \in Nat /\ n <= Len(q)
  BY LenProperties DEF Split
<1>2. {i \in DOMAIN q : Important(q[i])} = 1..n
  BY <1>1 DEF Split
<1>3. Cardinality(1..n) = n
  BY <1>1, FS_Interval
<1>4. ImportantLength(q) = n
  BY <1>2, <1>3 DEF ImportantLength
<1>5. Urgents(q) = [i \in 1..n |-> q[i].payload]
  BY <1>4 DEF Urgents
<1>6. \A i \in 1..n : q[i].payload \in Nat
  <2> TAKE i \in 1..n
  <2>1. i \in 1..Len(q)
    BY <1>1
  <2>2. q[i] \in Entry
    BY <2>1, ElementOfSeq
  <2> QED BY <2>2 DEF Entry
<1>7. [i \in 1..n |-> q[i].payload] \in Seq(Nat) /\ Len([i \in 1..n |-> q[i].payload]) = n
  BY <1>1, <1>6
<1> QED BY <1>1, <1>4, <1>5, <1>7

\* Queues that agree on their important entries show the same urgent messages.
LEMMA SameUrgents ==
  ASSUME NEW q \in Seq(Entry), NEW r \in Seq(Entry), NEW n, Split(q, n), Split(r, n),
         \A i \in 1..n : r[i] = q[i]
  PROVE  Urgents(r) = Urgents(q)
<1>1. Urgents(q) = [i \in 1..n |-> q[i].payload] /\ Urgents(r) = [i \in 1..n |-> r[i].payload]
  BY UrgentsOf
<1>2. [i \in 1..n |-> r[i].payload] = [i \in 1..n |-> q[i].payload]
  OBVIOUS
<1> QED BY <1>1, <1>2

\* The latest values of a queue are those of the telemetry it holds.
LEMMA LatestOf ==
  ASSUME NEW q, Arranged(q)
  PROVE  /\ Latest(q) = [t \in DOMAIN Latest(q) |-> Latest(q)[t]]
         /\ \A t, p : Holds(q, t, p) <=> t \in DOMAIN Latest(q) /\ Latest(q)[t] = p
<1> DEFINE T == {q[i].topic : i \in Behind(q)}
           at(t) == CHOOSE i \in Behind(q) : q[i].topic = t
<1>1. PICK n : q \in Seq(Entry) /\ Single(q) /\ Split(q, n)
  BY OrderedSplits DEF Arranged
<1>2. Len(q) \in Nat /\ n \in Nat /\ n <= Len(q) /\ Behind(q) = (n + 1)..Len(q)
  BY <1>1, UrgentsOf, LenProperties DEF Behind
<1>3. \A i \in 1..Len(q) : ~ Important(q[i]) <=> i \in Behind(q)
  BY <1>1, <1>2 DEF Split
<1>4. Behind(q) \subseteq 1..Len(q)
  BY <1>2
<1>5. Latest(q) = [t \in T |-> q[at(t)].payload]
  BY DEF Latest
<1>6. \A t \in T : at(t) \in Behind(q) /\ q[at(t)].topic = t
  OBVIOUS
<1>7. \A t \in T : \A i \in Behind(q) : q[i].topic = t => i = at(t)
  BY <1>3, <1>4, <1>6 DEF Single
<1> HIDE DEF at
<1>8. DOMAIN Latest(q) = T /\ \A t \in T : Latest(q)[t] = q[at(t)].payload
  BY <1>5
<1>9. ASSUME NEW t, NEW p
      PROVE  Holds(q, t, p) <=> t \in DOMAIN Latest(q) /\ Latest(q)[t] = p
  <2>1. ASSUME Holds(q, t, p) PROVE t \in T /\ Latest(q)[t] = p
    <3>1. PICK i \in Behind(q) : q[i].topic = t /\ q[i].payload = p
      BY <1>3, <2>1 DEF Holds
    <3>2. t \in T
      BY <3>1
    <3>3. i = at(t)
      BY <1>7, <3>1, <3>2
    <3> QED BY <1>8, <3>1, <3>2, <3>3
  <2>2. ASSUME t \in T, Latest(q)[t] = p PROVE Holds(q, t, p)
    <3>1. at(t) \in Behind(q) /\ q[at(t)].topic = t /\ q[at(t)].payload = p
      BY <1>6, <1>8, <2>2
    <3> QED BY <1>3, <1>4, <3>1 DEF Holds
  <2> QED BY <1>8, <2>1, <2>2
<1>10. Latest(q) = [t \in DOMAIN Latest(q) |-> Latest(q)[t]]
  BY <1>5, <1>8
<1> QED BY <1>9, <1>10

\* The buffer has a message for each entry of the queue.
LEMMA SizeOf ==
  ASSUME NEW q, Arranged(q)
  PROVE  Len(Urgents(q)) + Cardinality(DOMAIN Latest(q)) = Len(q)
<1> DEFINE B == Behind(q)
           T == {q[i].topic : i \in B}
           f == [i \in B |-> q[i].topic]
<1>1. PICK n : q \in Seq(Entry) /\ Single(q) /\ Split(q, n)
  BY OrderedSplits DEF Arranged
<1>2. /\ Len(q) \in Nat /\ n \in Nat /\ n <= Len(q) /\ B = (n + 1)..Len(q)
      /\ Len(Urgents(q)) = n
  BY <1>1, UrgentsOf, LenProperties DEF Behind
<1>3. \A i \in B : i \in 1..Len(q) /\ ~ Important(q[i])
  BY <1>1, <1>2 DEF Split
<1>4. f \in Bijection(B, T)
  <2>1. f \in [B -> T]
    OBVIOUS
  <2>2. \A i, j \in B : f[i] = f[j] => i = j
    BY <1>1, <1>3 DEF Single
  <2>3. \A t \in T : \E i \in B : f[i] = t
    OBVIOUS
  <2> HIDE DEF f, T, B
  <2> QED BY <2>1, <2>2, <2>3 DEF Bijection, Injection, Surjection, IsInjective
<1>5. ExistsBijection(B, T)
  BY <1>4 DEF ExistsBijection
<1>6. IsFiniteSet(B) /\ Cardinality(B) = Len(q) - n
  <2>1. n + 1 \in Int /\ Len(q) \in Int
    BY <1>2
  <2>2. IsFiniteSet((n + 1)..Len(q))
        /\ Cardinality((n + 1)..Len(q)) = IF n + 1 > Len(q) THEN 0 ELSE Len(q) - (n + 1) + 1
    BY <2>1, FS_Interval
  <2> QED BY <1>2, <2>2
<1>7. Cardinality(T) = Cardinality(B)
  BY <1>5, <1>6, FS_Bijection
<1>8. DOMAIN Latest(q) = T
  BY DEF Latest
<1> HIDE DEF T, B
<1> QED BY <1>2, <1>6, <1>7, <1>8

\* The same telemetry, the same latest values.
LEMMA SameLatest ==
  ASSUME NEW q, Arranged(q), NEW r, Arranged(r),
         \A t, p : Holds(r, t, p) <=> Holds(q, t, p)
  PROVE  Latest(r) = Latest(q)
<1>1. /\ Latest(q) = [t \in DOMAIN Latest(q) |-> Latest(q)[t]]
      /\ Latest(r) = [t \in DOMAIN Latest(r) |-> Latest(r)[t]]
      /\ \A t, p : t \in DOMAIN Latest(r) /\ Latest(r)[t] = p
                     <=> t \in DOMAIN Latest(q) /\ Latest(q)[t] = p
  BY LatestOf
<1>2. DOMAIN Latest(q) = DOMAIN Latest(r)
  BY <1>1
<1>3. \A t \in DOMAIN Latest(q) : Latest(r)[t] = Latest(q)[t]
  BY <1>1
<1> QED BY <1>1, <1>2, <1>3

\* An important message goes behind the urgent ones.
LEMMA InsertedIsUrgent ==
  ASSUME NEW q, Arranged(q), NEW e \in Entry, Important(e), Arranged(Inserted(q, e))
  PROVE  /\ Urgents(Inserted(q, e)) = Append(Urgents(q), e.payload)
         /\ Latest(Inserted(q, e)) = Latest(q)
<1> DEFINE k == InsertionPoint(q)
           r == Inserted(q, e)
<1>1. q \in Seq(Entry) /\ Ordered(q) /\ Len(q) \in Nat
  BY LenProperties DEF Arranged
<1>2. k \in 1..(Len(q) + 1) /\ Split(q, k - 1)
  BY <1>1, InsertionPointProperties, OrderedSplits
<1>3. /\ r \in Seq(Entry) /\ Len(r) = Len(q) + 1
      /\ \A i \in 1..(Len(q) + 1) :
            r[i] = IF i < k THEN q[i] ELSE IF i = k THEN e ELSE q[i - 1]
  BY <1>1, InsertedProperties
<1>4. Arranged(r)
  OBVIOUS
<1> HIDE DEF k, r
<1>5. \A i \in 1..Len(q) : IF i < k THEN i \in 1..Len(r) /\ r[i] = q[i]
                                    ELSE i + 1 \in 1..Len(r) /\ r[i + 1] = q[i]
  BY <1>1, <1>2, <1>3
<1>6. \A i \in 1..Len(r) : \/ i < k /\ i \in 1..Len(q) /\ r[i] = q[i]
                           \/ i = k /\ r[i] = e
                           \/ i > k /\ i - 1 \in 1..Len(q) /\ r[i] = q[i - 1]
  BY <1>1, <1>2, <1>3
<1>7. Split(r, k)
  <2>1. SUFFICES ASSUME NEW i \in 1..Len(r) PROVE Important(r[i]) <=> i <= k
    BY <1>1, <1>2, <1>3 DEF Split
  <2>2. CASE i < k /\ i \in 1..Len(q) /\ r[i] = q[i]
    BY <1>2, <2>2 DEF Split
  <2>3. CASE i = k /\ r[i] = e
    BY <1>2, <2>3
  <2>4. CASE i > k /\ i - 1 \in 1..Len(q) /\ r[i] = q[i - 1]
    <3>1. ~ (i - 1 <= k - 1) /\ ~ (i <= k)
      BY <1>2, <2>4
    <3> QED BY <1>2, <2>4, <3>1 DEF Split
  <2> QED BY <1>6, <2>2, <2>3, <2>4
<1>8. Urgents(r) = Append(Urgents(q), e.payload)
  <2>1. /\ Urgents(q) = [i \in 1..(k - 1) |-> q[i].payload]
        /\ Urgents(q) \in Seq(Nat) /\ Len(Urgents(q)) = k - 1
    BY <1>1, <1>2, UrgentsOf
  <2>2. /\ Urgents(r) = [i \in 1..k |-> r[i].payload]
        /\ Urgents(r) \in Seq(Nat) /\ Len(Urgents(r)) = k
    BY <1>3, <1>7, UrgentsOf
  <2>3. e.payload \in Nat
    BY DEF Entry
  <2>4. \A i \in 1..(k - 1) : r[i] = q[i]
    BY <1>1, <1>2, <1>3
  <2>5. r[k] = e
    BY <1>2, <1>3
  <2> DEFINE u == Append(Urgents(q), e.payload)
  <2>6. /\ u \in Seq(Nat) /\ Len(u) = k
        /\ \A i \in 1..(k - 1) : u[i] = Urgents(q)[i]
        /\ u[k] = e.payload
    <3>1. Len(Urgents(q)) + 1 = k
      BY <1>2, <2>1
    <3>2. \A s \in Seq(Nat), x \in Nat :
             /\ Append(s, x) \in Seq(Nat) /\ Len(Append(s, x)) = Len(s) + 1
             /\ \A i \in 1..Len(s) : Append(s, x)[i] = s[i]
             /\ Append(s, x)[Len(s) + 1] = x
      BY AppendProperties
    <3>3. /\ u \in Seq(Nat) /\ Len(u) = Len(Urgents(q)) + 1
          /\ \A i \in 1..Len(Urgents(q)) : u[i] = Urgents(q)[i]
          /\ u[Len(Urgents(q)) + 1] = e.payload
      BY <2>1, <2>3, <3>2
    <3> HIDE DEF u
    <3> QED BY <2>1, <3>1, <3>3
  <2> HIDE DEF u
  <2>7. \A i \in 1..k : Urgents(r)[i] = u[i]
    <3> TAKE i \in 1..k
    <3>1. CASE i = k
      BY <2>2, <2>5, <2>6, <3>1
    <3>2. CASE i # k
      <4>1. i \in 1..(k - 1)
        BY <1>2, <3>2
      <4>2. Urgents(r)[i] = r[i].payload
        BY <2>2
      <4>3. Urgents(q)[i] = q[i].payload
        BY <2>1, <4>1
      <4> QED BY <2>4, <2>6, <4>1, <4>2, <4>3
    <3> QED BY <3>1, <3>2
  <2>8. Urgents(r) = u
    BY <2>2, <2>6, <2>7, SeqEqual
  <2> QED BY <2>8 DEF u
<1>9. \A t, p : Holds(r, t, p) <=> Holds(q, t, p)
  <2> TAKE t, p
  <2>1. Holds(q, t, p) => Holds(r, t, p)
    BY <1>5 DEF Holds
  <2>2. Holds(r, t, p) => Holds(q, t, p)
    BY <1>6 DEF Holds
  <2> QED BY <2>1, <2>2
<1>10. Latest(r) = Latest(q)
  BY <1>4, <1>9, SameLatest
<1> QED BY <1>8, <1>10 DEF r

\* Taking telemetry out gives up the value of its topic and nothing urgent.
LEMMA RemovedIsValue ==
  ASSUME NEW q, Arranged(q), NEW k \in 1..Len(q), ~ Important(q[k]), Arranged(RemoveAt(q, k))
  PROVE  /\ Urgents(RemoveAt(q, k)) = Urgents(q)
         /\ q[k].topic \in DOMAIN Latest(q)
         /\ Latest(RemoveAt(q, k)) = Restrict(Latest(q), DOMAIN Latest(q) \ {q[k].topic})
<1> DEFINE r == RemoveAt(q, k)
           top == q[k].topic
<1>1. q \in Seq(Entry) /\ Ordered(q) /\ Single(q) /\ Len(q) \in Nat
  BY LenProperties DEF Arranged
<1>2. PICK n : Split(q, n)
  BY <1>1, OrderedSplits
<1>3. /\ r \in Seq(Entry) /\ Len(r) = Len(q) - 1
      /\ \A i \in 1..(Len(q) - 1) : r[i] = IF i < k THEN q[i] ELSE q[i + 1]
  BY <1>1, RemoveAtProperties
<1>4. n \in Nat /\ n < k
  BY <1>1, <1>2 DEF Split
<1>5. Arranged(r)
  OBVIOUS
<1> HIDE DEF r
<1>6. \A i \in 1..Len(r) : \/ i < k /\ i \in 1..Len(q) /\ r[i] = q[i]
                           \/ i >= k /\ i + 1 \in 1..Len(q) /\ r[i] = q[i + 1] /\ i + 1 # k
  BY <1>1, <1>3
<1>7. \A i \in 1..Len(q) : i # k => \E j \in 1..Len(r) : r[j] = q[i]
  <2> SUFFICES ASSUME NEW i \in 1..Len(q), i # k PROVE \E j \in 1..Len(r) : r[j] = q[i]
    OBVIOUS
  <2>1. CASE i < k
    BY <1>1, <1>3, <2>1
  <2>2. CASE i > k
    <3>1. i - 1 \in 1..Len(r) /\ ~ (i - 1 < k) /\ i - 1 + 1 = i
      BY <1>1, <1>3, <2>2
    <3> QED BY <1>3, <3>1
  <2> QED BY <2>1, <2>2
<1>8. Split(r, n)
  <2>1. n \in 0..Len(r)
    BY <1>1, <1>3, <1>4
  <2>2. \A i \in 1..Len(r) : Important(r[i]) <=> i <= n
    <3> TAKE i \in 1..Len(r)
    <3>1. CASE i < k /\ i \in 1..Len(q) /\ r[i] = q[i]
      BY <1>2, <3>1 DEF Split
    <3>2. CASE i >= k /\ i + 1 \in 1..Len(q) /\ r[i] = q[i + 1]
      <4>1. ~ (i <= n) /\ ~ (i + 1 <= n)
        BY <1>4, <3>2
      <4> QED BY <1>2, <3>2, <4>1 DEF Split
    <3> QED BY <1>6, <3>1, <3>2
  <2> QED BY <2>1, <2>2 DEF Split
<1>9. Urgents(r) = Urgents(q)
  <2>1. \A i \in 1..n : r[i] = q[i]
    BY <1>1, <1>3, <1>4
  <2> QED BY <1>1, <1>2, <1>3, <1>8, <2>1, SameUrgents
<1>10. \A i \in 1..Len(q) : q[i].topic = top => i = k
  BY <1>1 DEF Single
<1>11. \A t, p : Holds(r, t, p) <=> Holds(q, t, p) /\ t # top
  <2> TAKE t, p
  <2>1. Holds(q, t, p) /\ t # top => Holds(r, t, p)
    BY <1>7 DEF Holds
  <2>2. Holds(r, t, p) => Holds(q, t, p) /\ t # top
    BY <1>6, <1>10 DEF Holds
  <2> QED BY <2>1, <2>2
<1>12. Holds(q, top, q[k].payload)
  BY DEF Holds
<1> HIDE DEF top
<1>13. /\ \A t, p : Holds(q, t, p) <=> t \in DOMAIN Latest(q) /\ Latest(q)[t] = p
       /\ \A t, p : Holds(r, t, p) <=> t \in DOMAIN Latest(r) /\ Latest(r)[t] = p
       /\ Latest(r) = [t \in DOMAIN Latest(r) |-> Latest(r)[t]]
  BY <1>5, LatestOf
<1>14. top \in DOMAIN Latest(q)
  BY <1>12, <1>13
<1>15. DOMAIN Latest(r) = DOMAIN Latest(q) \ {top}
  BY <1>11, <1>13
<1>16. \A t \in DOMAIN Latest(r) : Latest(r)[t] = Latest(q)[t]
  BY <1>11, <1>13
<1>17. Latest(r) = Restrict(Latest(q), DOMAIN Latest(q) \ {top})
  BY <1>13, <1>15, <1>16 DEF Restrict
<1> QED BY <1>9, <1>14, <1>17 DEF r, top

\* Writing over a queued value changes the latest value of its topic only.
LEMMA ReplacedIsValue ==
  ASSUME NEW q, Arranged(q), NEW e \in Entry, NEW k \in 1..Len(q), ~ Important(q[k]),
         q[k].topic = e.topic,
         NEW r, Arranged(r), Len(r) = Len(q), r[k] = e, \A i \in 1..Len(q) : i # k => r[i] = q[i]
  PROVE  /\ Urgents(r) = Urgents(q)
         /\ e.topic \in DOMAIN Latest(q) /\ Latest(q)[e.topic] = q[k].payload
         /\ Latest(r) = [Latest(q) EXCEPT ![e.topic] = e.payload]
<1> DEFINE top == e.topic
<1>1. q \in Seq(Entry) /\ Ordered(q) /\ Single(q) /\ Len(q) \in Nat
  BY LenProperties DEF Arranged
<1>2. PICK n : Split(q, n)
  BY <1>1, OrderedSplits
<1>3. /\ r \in Seq(Entry) /\ Len(r) = Len(q)
      /\ \A i \in 1..Len(q) : r[i] = IF i = k THEN e ELSE q[i]
  BY DEF Arranged
<1>4. n \in Nat /\ n < k
  BY <1>1, <1>2 DEF Split
<1>6. ~ Important(e)
  BY <1>1, ElementOfSeq, TopicTellsImportance
<1>7. Split(r, n)
  BY <1>2, <1>3, <1>6 DEF Split
<1>8. Urgents(r) = Urgents(q)
  <2>1. \A i \in 1..n : r[i] = q[i]
    BY <1>1, <1>3, <1>4
  <2> QED BY <1>1, <1>2, <1>3, <1>7, <2>1, SameUrgents
<1>9. \A i \in 1..Len(q) : q[i].topic = top => i = k
  BY <1>1 DEF Single
<1> HIDE DEF top
<1>10. \A t, p : t # top => (Holds(r, t, p) <=> Holds(q, t, p))
  BY <1>3 DEF Holds, top
<1>11. Holds(q, top, q[k].payload) /\ Holds(r, top, e.payload)
  BY <1>3, <1>6 DEF Holds, top
<1>12. /\ \A t, p : Holds(q, t, p) <=> t \in DOMAIN Latest(q) /\ Latest(q)[t] = p
       /\ \A t, p : Holds(r, t, p) <=> t \in DOMAIN Latest(r) /\ Latest(r)[t] = p
       /\ Latest(r) = [t \in DOMAIN Latest(r) |-> Latest(r)[t]]
       /\ Latest(q) = [t \in DOMAIN Latest(q) |-> Latest(q)[t]]
  BY LatestOf
<1>13. top \in DOMAIN Latest(q) /\ Latest(q)[top] = q[k].payload
  BY <1>11, <1>12
<1>14. DOMAIN Latest(r) = DOMAIN Latest(q)
  <2>1. top \in DOMAIN Latest(r)
    BY <1>11, <1>12
  <2>2. \A t : t # top => (t \in DOMAIN Latest(r) <=> t \in DOMAIN Latest(q))
    BY <1>10, <1>12
  <2> QED BY <1>13, <2>1, <2>2
<1>15. Latest(r)[top] = e.payload
  BY <1>11, <1>12
<1>16. \A t \in DOMAIN Latest(q) : t # top => Latest(r)[t] = Latest(q)[t]
  BY <1>10, <1>12
<1>17. Latest(r) = [Latest(q) EXCEPT ![top] = e.payload]
  BY <1>12, <1>13, <1>14, <1>15, <1>16
<1> QED BY <1>8, <1>13, <1>17 DEF top

\* A value of a new topic at the tail is a new latest value.
LEMMA AppendedIsValue ==
  ASSUME NEW q, Arranged(q), NEW e \in Entry, ~ Important(e), Arranged(Append(q, e)),
         \A i \in 1..Len(q) : q[i].topic # e.topic
  PROVE  /\ Urgents(Append(q, e)) = Urgents(q)
         /\ e.topic \notin DOMAIN Latest(q)
         /\ Latest(Append(q, e)) = [t \in DOMAIN Latest(q) \cup {e.topic} |->
                                       IF t = e.topic THEN e.payload ELSE Latest(q)[t]]
<1> DEFINE r == Append(q, e)
           top == e.topic
<1>1. q \in Seq(Entry) /\ Ordered(q) /\ Len(q) \in Nat
  BY LenProperties DEF Arranged
<1>2. PICK n : Split(q, n)
  BY <1>1, OrderedSplits
<1>3. /\ r \in Seq(Entry) /\ Len(r) = Len(q) + 1
      /\ \A i \in 1..Len(q) : r[i] = q[i]
      /\ r[Len(q) + 1] = e
  BY <1>1, AppendProperties
<1>4. n \in Nat /\ n <= Len(q)
  BY <1>1, <1>2 DEF Split
<1>5. Arranged(r)
  OBVIOUS
<1> HIDE DEF r, top
<1>6. \A i \in 1..Len(r) : i = Len(q) + 1 \/ i \in 1..Len(q)
  BY <1>1, <1>3
<1>7. Split(r, n)
  <2>1. n \in 0..Len(r) /\ ~ (Len(q) + 1 <= n)
    BY <1>1, <1>3, <1>4
  <2> QED BY <1>2, <1>3, <1>6, <2>1 DEF Split
<1>8. Urgents(r) = Urgents(q)
  <2>1. \A i \in 1..n : r[i] = q[i]
    BY <1>1, <1>3, <1>4
  <2> QED BY <1>1, <1>2, <1>3, <1>7, <2>1, SameUrgents
<1>9. Len(q) + 1 \in 1..Len(r) /\ 1..Len(q) \subseteq 1..Len(r)
  BY <1>1, <1>3
<1>10. \A t, p : t # top => (Holds(r, t, p) <=> Holds(q, t, p))
  BY <1>3, <1>6, <1>9 DEF Holds, top
<1>11. \A p : ~ Holds(q, top, p)
  BY DEF Holds, top
<1>12. Holds(r, top, e.payload)
  BY <1>3, <1>9 DEF Holds, top
<1>13. /\ \A t, p : Holds(q, t, p) <=> t \in DOMAIN Latest(q) /\ Latest(q)[t] = p
       /\ \A t, p : Holds(r, t, p) <=> t \in DOMAIN Latest(r) /\ Latest(r)[t] = p
       /\ Latest(r) = [t \in DOMAIN Latest(r) |-> Latest(r)[t]]
  BY <1>5, LatestOf
<1>14. top \notin DOMAIN Latest(q)
  BY <1>11, <1>13
<1>15. DOMAIN Latest(r) = DOMAIN Latest(q) \cup {top}
  <2>1. top \in DOMAIN Latest(r)
    BY <1>12, <1>13
  <2>2. \A t : t # top => (t \in DOMAIN Latest(r) <=> t \in DOMAIN Latest(q))
    BY <1>10, <1>13
  <2> QED BY <2>1, <2>2
<1>16. \A t \in DOMAIN Latest(r) :
          Latest(r)[t] = IF t = top THEN e.payload ELSE Latest(q)[t]
  BY <1>10, <1>12, <1>13
<1>17. Latest(r) = [t \in DOMAIN Latest(q) \cup {top} |->
                       IF t = top THEN e.payload ELSE Latest(q)[t]]
  BY <1>13, <1>15, <1>16
<1> QED BY <1>8, <1>14, <1>17 DEF r, top

\* What leaves at the head is the oldest urgent message, or a value when none is urgent.
LEMMA HeadLeaves ==
  ASSUME NEW q, Arranged(q), q # <<>>, Arranged(Tail(q))
  PROVE  \/ /\ Urgents(q) # <<>> /\ Urgents(Tail(q)) = Tail(Urgents(q))
            /\ Latest(Tail(q)) = Latest(q)
         \/ /\ Urgents(q) = <<>> /\ Urgents(Tail(q)) = Urgents(q)
            /\ \E t \in DOMAIN Latest(q) :
                  Latest(Tail(q)) = Restrict(Latest(q), DOMAIN Latest(q) \ {t})
<1> DEFINE r == Tail(q)
<1>1. q \in Seq(Entry) /\ Ordered(q) /\ Single(q) /\ Len(q) \in Nat /\ 1 \in 1..Len(q)
  BY LenProperties, EmptySeq DEF Arranged
<1>2. PICK n : Split(q, n)
  BY <1>1, OrderedSplits
<1>3. /\ r \in Seq(Entry) /\ Len(r) = Len(q) - 1
      /\ \A i \in 1..Len(r) : r[i] = q[i + 1]
  BY <1>1, HeadTailProperties
<1>4. /\ n \in Nat /\ n <= Len(q)
      /\ Urgents(q) = [i \in 1..n |-> q[i].payload]
      /\ Urgents(q) \in Seq(Nat) /\ Len(Urgents(q)) = n
  BY <1>1, <1>2, UrgentsOf
<1>5. CASE n = 0
  <2>1. ~ Important(q[1])
    BY <1>1, <1>2, <1>5 DEF Split
  <2>2. r = RemoveAt(q, 1)
    <3>1. /\ RemoveAt(q, 1) \in Seq(Entry) /\ Len(RemoveAt(q, 1)) = Len(q) - 1
          /\ \A i \in 1..(Len(q) - 1) : RemoveAt(q, 1)[i] = IF i < 1 THEN q[i] ELSE q[i + 1]
      BY <1>1, RemoveAtProperties
    <3> HIDE DEF r
    <3>2. \A i \in 1..Len(r) : r[i] = RemoveAt(q, 1)[i]
      BY <1>1, <1>3, <3>1
    <3> QED BY <1>3, <3>1, <3>2, SeqEqual
  <2>3. /\ Urgents(r) = Urgents(q) /\ q[1].topic \in DOMAIN Latest(q)
        /\ Latest(r) = Restrict(Latest(q), DOMAIN Latest(q) \ {q[1].topic})
    <3> HIDE DEF r
    <3>1. Arranged(RemoveAt(q, 1))
      BY <2>2 DEF r
    <3> QED BY <1>1, <2>1, <2>2, <3>1, RemovedIsValue
  <2>4. Urgents(q) = <<>>
    BY <1>4, <1>5, EmptySeq
  <2> QED BY <2>3, <2>4
<1>6. CASE n > 0
  <2>1. Arranged(r)
    OBVIOUS
  <2> HIDE DEF r
  <2>2. \A i \in 1..Len(r) : i + 1 \in 1..Len(q) /\ r[i] = q[i + 1]
    BY <1>1, <1>3
  <2>3. Split(r, n - 1)
    <3>1. n - 1 \in 0..Len(r) /\ \A i \in 1..Len(r) : i <= n - 1 <=> i + 1 <= n
      BY <1>1, <1>3, <1>4, <1>6
    <3> QED BY <1>2, <2>2, <3>1 DEF Split
  <2>4. /\ Urgents(r) = [i \in 1..(n - 1) |-> r[i].payload]
        /\ Urgents(r) \in Seq(Nat) /\ Len(Urgents(r)) = n - 1
    BY <1>3, <2>3, UrgentsOf
  <2>5. Urgents(q) # <<>>
    BY <1>4, <1>6, EmptySeq
  <2>6. Urgents(r) = Tail(Urgents(q))
    <3>1. \A s \in Seq(Nat) : s # <<>> =>
             /\ Tail(s) \in Seq(Nat) /\ Len(Tail(s)) = Len(s) - 1
             /\ \A i \in 1..Len(Tail(s)) : Tail(s)[i] = s[i + 1]
      BY HeadTailProperties
    <3>2. /\ Tail(Urgents(q)) \in Seq(Nat) /\ Len(Tail(Urgents(q))) = n - 1
          /\ \A i \in 1..(n - 1) : Tail(Urgents(q))[i] = Urgents(q)[i + 1]
      BY <1>4, <2>5, <3>1
    <3>3. ASSUME NEW i \in 1..(n - 1) PROVE Urgents(r)[i] = Tail(Urgents(q))[i]
      <4>1. Urgents(r)[i] = r[i].payload
        BY <2>4
      <4>2. i \in 1..Len(r) /\ i + 1 \in 1..n
        BY <1>1, <1>3, <1>4
      <4>3. Urgents(q)[i + 1] = q[i + 1].payload
        BY <1>4, <4>2
      <4> QED BY <2>2, <3>2, <4>1, <4>2, <4>3
    <3> QED BY <2>4, <3>2, <3>3, SeqEqual
  <2>7. Important(q[1])
    BY <1>1, <1>2, <1>4, <1>6 DEF Split
  <2>8. \A i \in 1..Len(q) : i = 1 \/ (i - 1 \in 1..Len(r) /\ r[i - 1] = q[i])
    BY <1>1, <1>3
  <2>9. \A t, p : Holds(r, t, p) <=> Holds(q, t, p)
    <3> TAKE t, p
    <3>1. Holds(q, t, p) => Holds(r, t, p)
      BY <2>7, <2>8 DEF Holds
    <3>2. Holds(r, t, p) => Holds(q, t, p)
      BY <2>2 DEF Holds
    <3> QED BY <3>1, <3>2
  <2>10. Latest(r) = Latest(q)
    BY <2>1, <2>9, SameLatest
  <2> QED BY <2>5, <2>6, <2>10 DEF r
<1>7. n = 0 \/ n > 0
  BY <1>4
<1> QED BY <1>5, <1>6, <1>7

\* An event or response is accepted, accepted at the cost of a value, or refused.
LEMMA ImportantArrives ==
  ASSUME NEW n \in Nat, NEW q, GoodQueue(q, n), Single(q), Len(q) <= Capacity,
         NEW e \in Entry, Important(e), e.payload = n + 1
  PROVE  LET r == EnqueueImportant(q, e).queue IN
         \/ r = q
         \/ /\ Len(q) < Capacity
            /\ Urgents(r) = Append(Urgents(q), n + 1) /\ Latest(r) = Latest(q)
         \/ /\ Len(q) = Capacity
            /\ Urgents(r) = Append(Urgents(q), n + 1)
            /\ \E t \in DOMAIN Latest(q) :
                  Latest(r) = Restrict(Latest(q), DOMAIN Latest(q) \ {t})
<1> DEFINE k == LowestPriorityIndex(q)
           s == RemoveAt(q, k)
<1>1. q \in Seq(Entry) /\ Len(q) \in Nat /\ Capacity \in Nat /\ Arranged(q)
  BY LenProperties, QueueAssumption DEF GoodQueue, Arranged
<1>2. CASE Len(q) < Capacity
  <2>1. EnqueueImportant(q, e).queue = Inserted(q, e)
    BY <1>2 DEF EnqueueImportant, Kept
  <2>2. GoodQueue(Inserted(q, e), n + 1) /\ Single(Inserted(q, e))
    BY <1>1, InsertedIsGood, InsertedIsSingle
  <2>3. Arranged(Inserted(q, e))
    BY <2>2 DEF Arranged, GoodQueue
  <2>4. Urgents(Inserted(q, e)) = Append(Urgents(q), n + 1) /\ Latest(Inserted(q, e)) = Latest(q)
    BY <1>1, <2>3, InsertedIsUrgent
  <2> QED BY <1>2, <2>1, <2>4
<1>3. CASE Len(q) = Capacity /\ k = 0
  BY <1>1, <1>3 DEF EnqueueImportant, Dropped
<1>4. CASE Len(q) = Capacity /\ k # 0
  <2>1. EnqueueImportant(q, e).queue = Inserted(s, e)
    BY <1>1, <1>4 DEF EnqueueImportant, Evicted
  <2>2. k \in 1..Len(q) /\ ~ Important(q[k])
    BY <1>1, <1>4, LowestPriorityProperties
  <2> HIDE DEF k
  <2>3. GoodQueue(s, n) /\ Single(s)
    BY <1>1, <2>2, RemovedIsGood, RemovedIsSingle
  <2>4. Arranged(s)
    BY <2>3 DEF Arranged, GoodQueue
  <2>5. /\ Urgents(s) = Urgents(q) /\ q[k].topic \in DOMAIN Latest(q)
        /\ Latest(s) = Restrict(Latest(q), DOMAIN Latest(q) \ {q[k].topic})
    BY <1>1, <2>2, <2>4, RemovedIsValue
  <2> HIDE DEF s
  <2>6. s \in Seq(Entry) /\ GoodQueue(Inserted(s, e), n + 1) /\ Single(Inserted(s, e))
    BY <2>3, InsertedIsGood, InsertedIsSingle DEF GoodQueue
  <2>7. Arranged(Inserted(s, e))
    BY <2>6 DEF Arranged, GoodQueue
  <2>8. Urgents(Inserted(s, e)) = Append(Urgents(s), n + 1) /\ Latest(Inserted(s, e)) = Latest(s)
    BY <2>4, <2>7, InsertedIsUrgent
  <2> QED BY <1>4, <2>1, <2>5, <2>8
<1>5. Len(q) < Capacity \/ Len(q) = Capacity
  BY <1>1
<1> QED BY <1>2, <1>3, <1>4, <1>5

\* Telemetry replaces the older value of its topic, is accepted, or is refused.
LEMMA TelemetryArrives ==
  ASSUME NEW n \in Nat, NEW q, GoodQueue(q, n), Single(q), Len(q) <= Capacity,
         NEW e \in Entry, ~ Important(e), e.payload = n + 1
  PROVE  LET r == EnqueueTelemetry(q, e).queue
             t == e.topic
         IN
         \/ r = q
         \/ /\ t \in DOMAIN Latest(q) /\ Latest(q)[t] < n + 1
            /\ Urgents(r) = Urgents(q) /\ Latest(r) = [Latest(q) EXCEPT ![t] = n + 1]
         \/ /\ Len(q) < Capacity /\ t \notin DOMAIN Latest(q)
            /\ Urgents(r) = Urgents(q)
            /\ Latest(r) = [u \in DOMAIN Latest(q) \cup {t} |->
                               IF u = t THEN n + 1 ELSE Latest(q)[u]]
<1> DEFINE P == CoalescePositions(q, e.topic)
           r == EnqueueTelemetry(q, e).queue
<1>1. /\ q \in Seq(Entry) /\ Len(q) \in Nat /\ DOMAIN q = 1..Len(q) /\ Capacity \in Nat
      /\ Arranged(q)
      /\ \A i \in 1..Len(q) : q[i] \in Entry /\ q[i].payload \in Nat /\ q[i].payload <= n
  BY LenProperties, ElementOfSeq, QueueAssumption DEF GoodQueue, Arranged, Entry
<1>2. Arranged(r)
  <2>1. GoodQueue(r, n + 1)
    BY EnqueueTelemetryIsGood
  <2>2. Single(r)
    BY <1>1, EnqueueTelemetryIsSingle
  <2> QED BY <2>1, <2>2 DEF Arranged, GoodQueue
<1>3. CASE P # {}
  <2> DEFINE k == Max(P)
  <2>1. P \in SUBSET (0..Len(q)) /\ P \in SUBSET (1..Len(q))
    BY <1>1 DEF CoalescePositions
  <2>2. k \in P
    BY <1>1, <1>3, <2>1, MaxExists
  <2>3. k \in 1..Len(q) /\ q[k].topic = e.topic
    BY <2>1, <2>2 DEF CoalescePositions
  <2>4. ~ Important(q[k])
    BY <1>1, <2>3, TopicTellsImportance
  <2>5. r = [q EXCEPT ![k] = e]
    BY <1>3 DEF EnqueueTelemetry, Coalesced
  <2> HIDE DEF k, P, r
  <2>6. Arranged(q) /\ Len(r) = Len(q) /\ r[k] = e /\ \A i \in 1..Len(q) : i # k => r[i] = q[i]
    BY <1>1, <2>3, <2>5, ExceptSeq
  <2>7. /\ Urgents(r) = Urgents(q)
        /\ e.topic \in DOMAIN Latest(q) /\ Latest(q)[e.topic] = q[k].payload
        /\ Latest(r) = [Latest(q) EXCEPT ![e.topic] = e.payload]
    BY <1>2, <2>3, <2>4, <2>6, ReplacedIsValue
  <2>8. q[k].payload < n + 1
    BY <1>1, <2>3
  <2> QED BY <2>7, <2>8 DEF r
<1>4. CASE P = {} /\ Len(q) >= Capacity
  BY <1>4 DEF EnqueueTelemetry, Dropped
<1>5. CASE P = {} /\ ~ (Len(q) >= Capacity)
  <2>1. r = Append(q, e)
    BY <1>5 DEF EnqueueTelemetry, Kept
  <2>2. \A i \in 1..Len(q) : q[i].topic # e.topic
    <3>1. SUFFICES ASSUME NEW i \in 1..Len(q), q[i].topic = e.topic PROVE FALSE
      OBVIOUS
    <3>2. ~ Important(q[i])
      BY <1>1, <3>1, TopicTellsImportance
    <3>3. i \in P
      BY <1>1, <3>1, <3>2 DEF CoalescePositions, Important, ImportantKinds
    <3> QED BY <1>5, <3>3
  <2> HIDE DEF r
  <2>3. Arranged(Append(q, e))
    BY <1>2, <2>1
  <2>4. /\ Urgents(r) = Urgents(q) /\ e.topic \notin DOMAIN Latest(q)
        /\ Latest(r) = [u \in DOMAIN Latest(q) \cup {e.topic} |->
                           IF u = e.topic THEN e.payload ELSE Latest(q)[u]]
    BY <1>1, <2>1, <2>2, <2>3, AppendedIsValue
  <2>5. Len(q) < Capacity
    BY <1>1, <1>5
  <2> QED BY <2>4, <2>5 DEF r
<1> QED BY <1>3, <1>4, <1>5

-----------------------------------------------------------------------------
(* The queue implements the abstract buffer. *)

\* No more messages arrive than the model offers.
Bounded == offered <= MaxOffers /\ commands_received <= MaxCommands

LEMMA BoundedInvariance == Spec => []Bounded
<1>1. Init => Bounded
  BY ManagerAssumption DEF Init, Bounded
<1>2. ASSUME IInv, Bounded, [Next]_vars
      PROVE  Bounded'
  <2>1. offered \in Nat /\ commands_received \in Nat /\ MaxOffers \in Nat /\ MaxCommands \in Nat
    BY <1>2, ManagerAssumption DEF IInv, TypeOK
  <2>2. ASSUME NEW m \in Messages, Enqueue(m)
        PROVE  Bounded'
    BY <1>2, <2>1, <2>2 DEF Enqueue, Bounded
  <2>3. CASE HandleEvent
    BY <1>2, <2>1, <2>3 DEF HandleEvent, Bounded
  <2>4. CASE \/ LteChanges \/ Wake \/ ConnectStep \/ ConnectDone \/ UploadStep \/ PublishAcked
             \/ ListenIdle \/ PublisherFails \/ CleanupDone \/ BackoffElapsed \/ UNCHANGED vars
    <3>1. offered' = offered /\ commands_received' = commands_received
      BY <2>4 DEF LteChanges, Wake, ConnectStep, ConnectDone, UploadStep, PublishAcked,
         ListenIdle, PublisherFails, CleanupDone, BackoffElapsed, vars, counters
    <3> QED BY <1>2, <3>1 DEF Bounded
  <2> QED BY <1>2, <2>2, <2>3, <2>4 DEF Next, Publisher
<1> QED BY <1>1, <1>2, Invariance, PTL DEF Spec

\* The buffer is as full as the queue.
LEMMA BufferSize ==
  ASSUME IInv, OrderInv
  PROVE  Arranged(queue) /\ Buffer!Size = Len(queue)
<1>1. Arranged(queue)
  BY DEF IInv, OrderInv, GoodQueue, Arranged
<1>2. Buffer!Cardinality(DOMAIN Latest(queue)) = Cardinality(DOMAIN Latest(queue))
  BY DEF Buffer!Cardinality, Cardinality
<1> QED BY <1>1, <1>2, SizeOf DEF Buffer!Size

\* Values are given up alike in both.
LEMMA BufferWithout ==
  ASSUME NEW t
  PROVE  Buffer!Without(t) = Restrict(Latest(queue), DOMAIN Latest(queue) \ {t})
BY DEF Buffer!Without, Buffer!Restrict, Restrict

\* The arrival of an event or a response.
LEMMA ImportantStep ==
  ASSUME IInv, OrderInv, NEW n \in Nat, GoodQueue(queue, n), n + 1 \in 1..(MaxOffers + MaxCommands),
         NEW e \in Entry, Important(e), e.payload = n + 1,
         queue' = EnqueueImportant(queue, e).queue
  PROVE  [Buffer!BufferNext]_Buffer!bufferVars
<1>1. Single(queue) /\ Len(queue) <= Capacity
  BY DEF IInv, OrderInv, TypeOK
<1>2. \/ queue' = queue
      \/ /\ Len(queue) < Capacity
         /\ Urgents(queue') = Append(Urgents(queue), n + 1) /\ Latest(queue') = Latest(queue)
      \/ /\ Len(queue) = Capacity
         /\ Urgents(queue') = Append(Urgents(queue), n + 1)
         /\ \E t \in DOMAIN Latest(queue) :
               Latest(queue') = Restrict(Latest(queue), DOMAIN Latest(queue) \ {t})
  BY <1>1, ImportantArrives
<1>3. CASE queue' = queue
  <2>1. Urgents(queue') = Urgents(queue) /\ Latest(queue') = Latest(queue)
    BY <1>3
  <2> QED BY <2>1 DEF Buffer!bufferVars
<1>4. CASE /\ Len(queue) < Capacity
           /\ Urgents(queue') = Append(Urgents(queue), n + 1) /\ Latest(queue') = Latest(queue)
  <2>1. Buffer!AcceptUrgent(n + 1)
    BY <1>4, BufferSize DEF Buffer!AcceptUrgent
  <2> QED BY <2>1 DEF Buffer!BufferNext
<1>5. ASSUME Len(queue) = Capacity, Urgents(queue') = Append(Urgents(queue), n + 1),
             NEW t \in DOMAIN Latest(queue),
             Latest(queue') = Restrict(Latest(queue), DOMAIN Latest(queue) \ {t})
      PROVE  [Buffer!BufferNext]_Buffer!bufferVars
  <2>1. Buffer!EvictForUrgent(n + 1, t)
    BY <1>5, BufferSize, BufferWithout DEF Buffer!EvictForUrgent
  <2> QED BY <2>1 DEF Buffer!BufferNext
<1> QED BY <1>2, <1>3, <1>4, <1>5

\* The arrival of telemetry.
LEMMA TelemetryStep ==
  ASSUME IInv, OrderInv, NEW n \in Nat, GoodQueue(queue, n), n + 1 \in 1..(MaxOffers + MaxCommands),
         NEW e \in Entry, ~ Important(e), e.payload = n + 1,
         queue' = EnqueueTelemetry(queue, e).queue
  PROVE  [Buffer!BufferNext]_Buffer!bufferVars
<1> DEFINE t == e.topic
<1>1. Single(queue) /\ Len(queue) <= Capacity /\ t \in Topics
  BY DEF IInv, OrderInv, TypeOK, Entry
<1>0. LET r == EnqueueTelemetry(queue, e).queue IN
      \/ r = queue
      \/ /\ e.topic \in DOMAIN Latest(queue) /\ Latest(queue)[e.topic] < n + 1
         /\ Urgents(r) = Urgents(queue)
         /\ Latest(r) = [Latest(queue) EXCEPT ![e.topic] = n + 1]
      \/ /\ Len(queue) < Capacity /\ e.topic \notin DOMAIN Latest(queue)
         /\ Urgents(r) = Urgents(queue)
         /\ Latest(r) = [u \in DOMAIN Latest(queue) \cup {e.topic} |->
                             IF u = e.topic THEN n + 1 ELSE Latest(queue)[u]]
  BY <1>1, TelemetryArrives
<1>2. \/ queue' = queue
      \/ /\ t \in DOMAIN Latest(queue) /\ Latest(queue)[t] < n + 1
         /\ Urgents(queue') = Urgents(queue)
         /\ Latest(queue') = [Latest(queue) EXCEPT ![t] = n + 1]
      \/ /\ Len(queue) < Capacity /\ t \notin DOMAIN Latest(queue)
         /\ Urgents(queue') = Urgents(queue)
         /\ Latest(queue') = [u \in DOMAIN Latest(queue) \cup {t} |->
                                 IF u = t THEN n + 1 ELSE Latest(queue)[u]]
  BY <1>0
<1> HIDE DEF t
<1>3. CASE queue' = queue
  <2>1. Urgents(queue') = Urgents(queue) /\ Latest(queue') = Latest(queue)
    BY <1>3
  <2> QED BY <2>1 DEF Buffer!bufferVars
<1>4. CASE /\ t \in DOMAIN Latest(queue) /\ Latest(queue)[t] < n + 1
           /\ Urgents(queue') = Urgents(queue)
           /\ Latest(queue') = [Latest(queue) EXCEPT ![t] = n + 1]
  <2>1. Buffer!Replace(n + 1, t)
    BY <1>4 DEF Buffer!Replace
  <2> QED BY <1>4, <2>1 DEF Buffer!BufferNext
<1>5. CASE /\ Len(queue) < Capacity /\ t \notin DOMAIN Latest(queue)
           /\ Urgents(queue') = Urgents(queue)
           /\ Latest(queue') = [u \in DOMAIN Latest(queue) \cup {t} |->
                                   IF u = t THEN n + 1 ELSE Latest(queue)[u]]
  <2>1. Buffer!AcceptValue(n + 1, t)
    BY <1>5, BufferSize DEF Buffer!AcceptValue
  <2> QED BY <1>1, <2>1 DEF Buffer!BufferNext
<1> QED BY <1>2, <1>3, <1>4, <1>5

\* Every step of the gateway is one of the buffer.
LEMMA NextBuffer ==
  ASSUME IInv, OrderInv, IInv', OrderInv', Bounded, [Next]_vars
  PROVE  [Buffer!BufferNext]_Buffer!bufferVars
<1> DEFINE n == offered + commands_received
<1>1. /\ n \in Nat /\ GoodQueue(queue, n) /\ Arranged(queue)
      /\ offered \in Nat /\ commands_received \in Nat
      /\ offered <= MaxOffers /\ commands_received <= MaxCommands
      /\ MaxOffers \in Nat /\ MaxCommands \in Nat
  BY BufferSize, ManagerAssumption DEF IInv, TypeOK, Bounded
<1>2. ASSUME NEW m \in Messages, Enqueue(m)
      PROVE  [Buffer!BufferNext]_Buffer!bufferVars
  <2> DEFINE e == [topic |-> Topic(m), payload |-> n + 1, kind |-> MessageKind(m)]
  <2>1. e \in Entry /\ m \in Message
    BY <1>1, EntryType, ManagerAssumption
  <2>2. e.payload = n + 1 /\ e.kind = MessageKind(m)
    OBVIOUS
  <2>3. queue' = EnqueueOutcome(queue, m, n + 1).queue /\ offered < MaxOffers
    BY <1>2 DEF Enqueue, Apply, NextArrival
  <2>4. n + 1 \in 1..(MaxOffers + MaxCommands)
    BY <1>1, <2>3
  <2>5. CASE e.kind = "event"
    <3>1. Important(e)
      BY <2>5 DEF Important, ImportantKinds
    <3>2. queue' = EnqueueImportant(queue, e).queue
      BY <2>3, <2>5 DEF EnqueueOutcome
    <3> HIDE DEF e, n
    <3> QED BY <1>1, <2>1, <2>2, <2>4, <3>1, <3>2, ImportantStep
  <2>6. CASE e.kind # "event"
    <3>1. ~ Important(e)
      BY <2>1, <2>2, <2>6, MessageKindType DEF Important, ImportantKinds, TelemetryKinds
    <3>2. queue' = EnqueueTelemetry(queue, e).queue
      BY <2>3, <2>6 DEF EnqueueOutcome
    <3> HIDE DEF e, n
    <3> QED BY <1>1, <2>1, <2>2, <2>4, <3>1, <3>2, TelemetryStep
  <2> QED BY <2>5, <2>6
<1>3. CASE HandleEvent
  <2> DEFINE e == [topic |-> ResponseTopic, payload |-> n + 1, kind |-> "response"]
  <2>1. e \in Entry
    BY <1>1 DEF Entry, Topics, ResponseTopic, ImportantKinds
  <2>2. e.payload = n + 1 /\ Important(e)
    BY DEF Important, ImportantKinds
  <2>3. queue' = EnqueueImportant(queue, e).queue /\ commands_received < MaxCommands
    BY <1>3 DEF HandleEvent, Apply, NextArrival, ResponseOutcome
  <2>4. n + 1 \in 1..(MaxOffers + MaxCommands)
    BY <1>1, <2>3
  <2> HIDE DEF e, n
  <2> QED BY <1>1, <2>1, <2>2, <2>3, <2>4, ImportantStep
<1>4. CASE PublishAcked
  <2>1. queue' = Tail(queue) /\ queue # <<>>
    BY <1>4 DEF PublishAcked, IInv, PopNeverUnderflows, Publishing
  <2>2. Arranged(Tail(queue))
    <3>1. Arranged(queue')
      BY DEF IInv, OrderInv, GoodQueue, Arranged, Ordered
    <3> QED BY <2>1, <3>1
  <2>3. \/ /\ Urgents(queue) # <<>> /\ Urgents(queue') = Tail(Urgents(queue))
           /\ Latest(queue') = Latest(queue)
        \/ /\ Urgents(queue) = <<>> /\ Urgents(queue') = Urgents(queue)
           /\ \E t \in DOMAIN Latest(queue) :
                 Latest(queue') = Restrict(Latest(queue), DOMAIN Latest(queue) \ {t})
    BY <1>1, <2>1, <2>2, HeadLeaves
  <2>4. CASE /\ Urgents(queue) # <<>> /\ Urgents(queue') = Tail(Urgents(queue))
             /\ Latest(queue') = Latest(queue)
    BY <2>4 DEF Buffer!TakeUrgent, Buffer!BufferNext
  <2>5. ASSUME Urgents(queue) = <<>>, Urgents(queue') = Urgents(queue),
               NEW t \in DOMAIN Latest(queue),
               Latest(queue') = Restrict(Latest(queue), DOMAIN Latest(queue) \ {t})
        PROVE  [Buffer!BufferNext]_Buffer!bufferVars
    <3>1. Buffer!TakeValue(t)
      BY <2>5, BufferWithout DEF Buffer!TakeValue
    <3> QED BY <3>1 DEF Buffer!BufferNext
  <2> QED BY <2>3, <2>4, <2>5
<1>5. CASE \/ LteChanges \/ Wake \/ ConnectStep \/ ConnectDone \/ UploadStep \/ ListenIdle
           \/ PublisherFails \/ CleanupDone \/ BackoffElapsed \/ UNCHANGED vars
  <2>1. queue' = queue
    BY <1>5 DEF LteChanges, Wake, ConnectStep, ConnectDone, UploadStep, ListenIdle,
       PublisherFails, CleanupDone, BackoffElapsed, vars, counters
  <2>2. Urgents(queue') = Urgents(queue) /\ Latest(queue') = Latest(queue)
    BY <2>1
  <2> QED BY <2>2 DEF Buffer!bufferVars
<1> QED BY <1>2, <1>3, <1>4, <1>5 DEF Next, Publisher

\* An empty queue is an empty buffer.
LEMMA InitBuffer == Init => Buffer!BufferInit
<1> SUFFICES ASSUME Init PROVE Buffer!BufferInit
  OBVIOUS
<1>1. queue = <<>> /\ queue \in Seq(Entry) /\ Len(queue) = 0 /\ DOMAIN queue = {}
  BY EmptySeq DEF Init
<1>2. Split(queue, 0)
  BY <1>1 DEF Split
<1>3. Urgents(queue) \in Seq(Nat) /\ Len(Urgents(queue)) = 0 /\ ImportantLength(queue) = 0
  BY <1>1, <1>2, UrgentsOf
<1>4. Urgents(queue) = <<>>
  BY <1>3, EmptySeq
<1>5. Behind(queue) = {}
  BY <1>1, <1>3 DEF Behind
<1>6. Latest(queue) = [t \in {} |-> 0]
  BY <1>5 DEF Latest
<1> QED BY <1>4, <1>6 DEF Buffer!BufferInit

\* For every capacity and every message set, the list with its scans is the abstract
\* buffer: urgent messages leave in the order in which they came and none is given up, one
\* value waits per topic, a newer one replaces it, and values alone make room.
THEOREM BufferRefined == Spec => ImplementsPriorityBuffer
<1>1. Init => Buffer!BufferInit
  BY InitBuffer
<1>2. IInv /\ IInv' /\ OrderInv /\ OrderInv' /\ Bounded /\ [Next]_vars
        => [Buffer!BufferNext]_Buffer!bufferVars
  BY NextBuffer
<1> QED
  BY <1>1, <1>2, Invariance, OrderInvariance, BoundedInvariance, PTL
     DEF Spec, ImplementsPriorityBuffer, Buffer!BufferSpec
=============================================================================
