----------------------- MODULE TcpIngestionTheorems -----------------------
(***************************************************************************)
(* Proofs about TcpIngestion for any senders, connections, frame sizes and *)
(* bounds: the connections that are counted, who has which of them, what   *)
(* lies on a wire, and with these the OK of a message, its copies and the  *)
(* packets in the registry.                                                *)
(***************************************************************************)
EXTENDS TcpIngestion, FiniteSetTheorems, TLAPS

\* What is proved about the registry, for the one that the handlers fill.
RT == INSTANCE DeviceRegistryTheorems
      WITH Keys <- Clients \X Identities, MaxPackets <- 0

\* The instances have names of their own for what they take from the library.
LEMMA SameSize ==
    ASSUME NEW S
    PROVE  /\ Registry!Cardinality(S) = Cardinality(S) /\ RT!Cardinality(S) = Cardinality(S)
           /\ RT!IsFiniteSet(S) <=> IsFiniteSet(S)
  BY DEF Registry!Cardinality, RT!Cardinality, Cardinality, RT!IsFiniteSet, IsFiniteSet

LEMMA RegistryConstants == RT!RegistryAssumption
PROOF
<1>1. IsFiniteSet(Clients) /\ Capacity \in Nat \ {0} /\ MaxTime \in Nat \ {0} /\ 0 \in Nat
  BY IngestionAssumption DEF IngestionAssumption
<1>2. IsFiniteSet(Identities)
  <2>1. IsFiniteSet({"declared"})
    BY FS_Singleton
  <2>2. Identities = {"declared"} \cup {"address"}
    BY DEF Identities
  <2> QED BY <2>1, <2>2, FS_AddElement
<1>3. IsFiniteSet(Clients \X Identities)
  BY <1>1, <1>2, FS_Product
<1> QED BY <1>1, <1>3, SameSize DEF RT!RegistryAssumption

Places == {"free", "reading", "draining", "closing"}
Loop == {"reading", "draining"}
Counted(h) == {s \in Conns : h[s] \in Loop}

\* Where the handlers are, and what connected_clients says of them.
CountInv ==
    /\ handler \in [Conns -> Places]
    /\ connected_clients = Cardinality(Counted(handler))

-----------------------------------------------------------------------------
\* What the step of a handler does to the number of those in their loop.
LEMMA CountChanges ==
    ASSUME IsFiniteSet(Conns), handler \in [Conns -> Places],
           NEW s \in Conns, NEW v \in Places, handler' = [handler EXCEPT ![s] = v]
    PROVE  /\ handler' \in [Conns -> Places]
           /\ Cardinality(Counted(handler)) \in Nat
           /\ v \in Loop /\ handler[s] \notin Loop =>
                 Cardinality(Counted(handler')) = Cardinality(Counted(handler)) + 1
           /\ v \notin Loop /\ handler[s] \in Loop =>
                 Cardinality(Counted(handler')) = Cardinality(Counted(handler)) - 1
           /\ (v \in Loop <=> handler[s] \in Loop) =>
                 Cardinality(Counted(handler')) = Cardinality(Counted(handler))
PROOF
<1>1. handler' \in [Conns -> Places]
  OBVIOUS
<1>2. IsFiniteSet(Counted(handler))
  BY FS_Subset DEF Counted
<1>3. Cardinality(Counted(handler)) \in Nat
  BY <1>2, FS_CardinalityType
<1>4. ASSUME v \in Loop, handler[s] \notin Loop
      PROVE  Cardinality(Counted(handler')) = Cardinality(Counted(handler)) + 1
  <2>1. Counted(handler') = Counted(handler) \cup {s} /\ s \notin Counted(handler)
    BY <1>4 DEF Counted
  <2> QED BY <2>1, <1>2, FS_AddElement
<1>5. ASSUME v \notin Loop, handler[s] \in Loop
      PROVE  Cardinality(Counted(handler')) = Cardinality(Counted(handler)) - 1
  <2>1. Counted(handler') = Counted(handler) \ {s} /\ s \in Counted(handler)
    BY <1>5 DEF Counted
  <2> QED BY <2>1, <1>2, FS_RemoveElement
<1>6. ASSUME v \in Loop <=> handler[s] \in Loop
      PROVE  Counted(handler') = Counted(handler)
  BY <1>6 DEF Counted
<1> QED BY <1>1, <1>3, <1>4, <1>5, <1>6

\* A handler that leaves its loop is no longer counted.
LEMMA LeaveUncounts ==
    ASSUME IngestionAssumption, CountInv, NEW s \in Conns, handler[s] \in Loop, Leave(s)
    PROVE  CountInv'
PROOF
<1>1. handler' = [handler EXCEPT ![s] = "closing"] /\ connected_clients' = connected_clients - 1
  BY DEF Leave
<1>2. "closing" \in Places /\ "closing" \notin Loop
  BY DEF Places, Loop
<1>3. handler' \in [Conns -> Places] /\ Cardinality(Counted(handler')) = Cardinality(Counted(handler)) - 1
  BY <1>1, <1>2, CountChanges DEF CountInv, IngestionAssumption
<1> QED BY <1>1, <1>3 DEF CountInv

\* A handler that moves inside its loop, or outside of it, leaves the count right.
LEMMA MoveCounts ==
    ASSUME IngestionAssumption, CountInv, NEW s \in Conns, NEW v \in Places,
           v \in Loop <=> handler[s] \in Loop,
           handler' = [handler EXCEPT ![s] = v], connected_clients' = connected_clients
    PROVE  CountInv'
PROOF
<1>1. handler' \in [Conns -> Places] /\ Cardinality(Counted(handler')) = Cardinality(Counted(handler))
  BY CountChanges DEF CountInv, IngestionAssumption
<1> QED BY <1>1 DEF CountInv

\* A frame is acknowledged in the loop, or ends it.
LEMMA FrameCounts ==
    ASSUME IngestionAssumption, CountInv, NEW s \in Conns, NEW end, handler[s] = "reading",
           FrameRead(s, end)
    PROVE  CountInv'
PROOF
<1>1. handler[s] \in Loop
  BY DEF Loop
<1>2. CASE Leave(s)
  BY <1>1, <1>2, LeaveUncounts
<1>3. CASE handler' = [handler EXCEPT ![s] = "draining"] /\ UNCHANGED connected_clients
  <2>1. "draining" \in Places /\ "draining" \in Loop
    BY DEF Places, Loop
  <2> QED BY <1>1, <1>3, <2>1, MoveCounts
<1> QED BY <1>2, <1>3 DEF FrameRead

-----------------------------------------------------------------------------
LEMMA CountInit ==
    ASSUME IngestionAssumption, Init
    PROVE  CountInv
PROOF
<1>1. handler = [s \in Conns |-> "free"] /\ connected_clients = 0
  BY DEF Init
<1>2. Counted(handler) = {}
  BY <1>1 DEF Counted, Loop
<1> QED BY <1>1, <1>2, FS_EmptySet DEF CountInv, Places

LEMMA CountStep ==
    ASSUME IngestionAssumption, CountInv, [Next]_vars
    PROVE  CountInv'
PROOF
<1>1. ASSUME UNCHANGED <<handler, connected_clients>>
      PROVE  CountInv'
  BY <1>1 DEF CountInv, Counted
<1>2. CASE UNCHANGED vars
  BY <1>1, <1>2 DEF vars, reading, counts
<1>3. CASE Tick
  BY <1>1, <1>3 DEF Tick, reading, counts
<1>4. CASE GatewayResets
  <2>1. handler' = [s \in Conns |-> "free"] /\ connected_clients' = 0
    BY <1>4 DEF GatewayResets
  <2>2. Counted(handler') = {}
    BY <2>1 DEF Counted, Loop
  <2> QED BY <2>1, <2>2, FS_EmptySet DEF CountInv, Places
<1>5. ASSUME NEW c \in Clients, Send(c) \/ GetsAck(c) \/ AttemptFails(c) \/ Finishes(c)
      PROVE  CountInv'
  BY <1>1, <1>5 DEF Send, GetsAck, AttemptFails, Finishes, reading, counts
<1>6. ASSUME NEW c \in Clients, NEW s \in Conns, Connects(c, s)
      PROVE  CountInv'
  <2>1. /\ handler[s] = "free" /\ handler' = [handler EXCEPT ![s] = "reading"]
        /\ connected_clients' = connected_clients + 1
    BY <1>6 DEF Connects
  <2>2. "reading" \in Places /\ "reading" \in Loop /\ handler[s] \notin Loop
    BY <2>1 DEF Places, Loop
  <2>3. handler' \in [Conns -> Places] /\ Cardinality(Counted(handler')) = Cardinality(Counted(handler)) + 1
    BY <2>1, <2>2, CountChanges DEF CountInv, IngestionAssumption
  <2> QED BY <2>1, <2>3 DEF CountInv
<1>7. ASSUME NEW s \in Conns, Chunk(s)
      PROVE  CountInv'
  <2>1. PICK n \in 1..ReadSize : \/ FrameRead(s, at[s] + n)
                                \/ UNCHANGED <<handler, connected_clients>>
    BY <1>7 DEF Chunk
  <2>2. handler[s] = "reading"
    BY <1>7 DEF Chunk
  <2> QED BY <2>1, <2>2, <1>1, FrameCounts
<1>8. ASSUME NEW s \in Conns, Quiet(s)
      PROVE  CountInv'
  BY <1>8, FrameCounts DEF Quiet
<1>9. ASSUME NEW s \in Conns, Broken(s)
      PROVE  CountInv'
  BY <1>9, LeaveUncounts DEF Broken, Loop
<1>10. ASSUME NEW s \in Conns, Drained(s)
       PROVE  CountInv'
  <2>1. /\ handler[s] = "draining" /\ handler' = [handler EXCEPT ![s] = "reading"]
        /\ connected_clients' = connected_clients
    BY <1>10 DEF Drained
  <2>2. "reading" \in Places /\ ("reading" \in Loop <=> handler[s] \in Loop)
    BY <2>1 DEF Places, Loop
  <2> QED BY <2>1, <2>2, MoveCounts
<1>11. ASSUME NEW s \in Conns, Closed(s)
       PROVE  CountInv'
  <2>1. /\ handler[s] = "closing" /\ handler' = [handler EXCEPT ![s] = "free"]
        /\ connected_clients' = connected_clients
    BY <1>11 DEF Closed, counts
  <2>2. "free" \in Places /\ ("free" \in Loop <=> handler[s] \in Loop)
    BY <2>1 DEF Places, Loop
  <2> QED BY <2>1, <2>2, MoveCounts
<1> QED
  BY <1>2, <1>3, <1>4, <1>5, <1>6, <1>7, <1>8, <1>9, <1>10, <1>11 DEF Next, Client, Handle

\* connected_clients is the number of handlers in their loop, for any number of connections:
\* of the ways out of handle(), none is counted twice and none is forgotten.
THEOREM ConnectionsCounted == Spec => []ClientsCounted
PROOF
<1>1. Init => CountInv
  BY CountInit, IngestionAssumption
<1>2. CountInv /\ [Next]_vars => CountInv'
  BY CountStep, IngestionAssumption
<1>3. CountInv => ClientsCounted
  BY DEF CountInv, ClientsCounted, Counted, Loop
<1> QED BY <1>1, <1>2, <1>3, PTL DEF Spec

-----------------------------------------------------------------------------
(* The senders and their connections. *)

Stages == {"idle", "connecting", "waiting"}

\* A sender has one connection at most, none while it connects, and keeps none between two
\* messages unless it is persistent; what it sends is its own, at most as often as it may.
ClientOK(c) ==
    /\ link[c] = {} \/ \E s \in Conns : link[c] = {s}
    /\ link[c] = {} => answers[c] = 0
    /\ sender[c].pc = "connecting" => link[c] = {} /\ sender[c].attempt >= 1
    /\ sender[c].pc = "idle" => link[c] = {} \/ c \in persistent
    /\ sender[c].pc # "idle" => sender[c].message \in Messages
    /\ sender[c].message \in Messages => sender[c].message.client = c
    /\ sender[c].attempt <= Attempts(c)

\* No connection has two senders.
LinkInv ==
    /\ persistent \subseteq Clients
    /\ sender \in [Clients -> [pc : Stages, attempt : Nat, message : Messages \cup {NoMessage}]]
    /\ link \in [Clients -> SUBSET Conns] /\ answers \in [Clients -> Nat]
    /\ \A c, d \in Clients : c # d => link[c] \cap link[d] = {}
    /\ \A c \in Clients : ClientOK(c)

\* What the step of one client leaves alone, and what it must establish.
LEMMA ClientStep ==
    ASSUME LinkInv, NEW c \in Clients, UNCHANGED persistent,
           NEW b \in [pc : Stages, attempt : Nat, message : Messages \cup {NoMessage}],
           NEW l \in SUBSET Conns, NEW n \in Nat,
           sender' = [sender EXCEPT ![c] = b], link' = [link EXCEPT ![c] = l],
           answers' = [answers EXCEPT ![c] = n],
           \A d \in Clients : d # c => l \cap link[d] = {},
           ClientOK(c)'
    PROVE  LinkInv'
PROOF
<1>1. /\ sender' \in [Clients -> [pc : Stages, attempt : Nat, message : Messages \cup {NoMessage}]]
      /\ link' \in [Clients -> SUBSET Conns] /\ answers' \in [Clients -> Nat]
  BY DEF LinkInv
<1>2. link'[c] = l /\ \A d \in Clients : d # c =>
         link'[d] = link[d] /\ sender'[d] = sender[d] /\ answers'[d] = answers[d]
  BY DEF LinkInv
<1>3. \A d, e \in Clients : d # e => link'[d] \cap link'[e] = {}
  BY <1>2 DEF LinkInv
<1>4. \A d \in Clients : d # c => ClientOK(d)'
  BY <1>2 DEF LinkInv, ClientOK, Attempts
<1> QED BY <1>1, <1>3, <1>4 DEF LinkInv

\* The state of a sender, unfolded.
LEMMA SenderTypes ==
    ASSUME LinkInv, NEW c \in Clients
    PROVE  /\ sender[c] \in [pc : Stages, attempt : Nat, message : Messages \cup {NoMessage}]
           /\ sender[c].pc \in Stages /\ sender[c].attempt \in Nat
           /\ sender[c].message \in Messages \cup {NoMessage} /\ sender[c].message.seq \in Nat
           /\ link[c] \in SUBSET Conns /\ answers[c] \in Nat
           /\ sender[c] = [pc |-> sender[c].pc, attempt |-> sender[c].attempt,
                           message |-> sender[c].message]
           /\ sender = [sender EXCEPT ![c] = sender[c]] /\ link = [link EXCEPT ![c] = link[c]]
           /\ answers = [answers EXCEPT ![c] = answers[c]]
           /\ \A d \in Clients : d # c => link[c] \cap link[d] = {}
           /\ ClientOK(c) /\ persistent \subseteq Clients
PROOF
<1>1. sender[c] \in [pc : Stages, attempt : Nat, message : Messages \cup {NoMessage}]
  BY DEF LinkInv
<1>2. MaxSeq \in Nat /\ \A m \in Messages : m.seq \in Nat
  BY IngestionAssumption DEF IngestionAssumption, Messages
<1>3. NoMessage.seq \in Nat
  BY DEF NoMessage
<1>4. sender[c].message \in Messages \cup {NoMessage} /\ sender[c].message.seq \in Nat
  BY <1>1, <1>2, <1>3
<1>5. sender = [sender EXCEPT ![c] = sender[c]] /\ link = [link EXCEPT ![c] = link[c]]
      /\ answers = [answers EXCEPT ![c] = answers[c]]
  BY DEF LinkInv
<1> QED BY <1>1, <1>4, <1>5 DEF LinkInv

\* A new message is the sender's own.
LEMMA SendLinks ==
    ASSUME LinkInv, NEW c \in Clients, Send(c)
    PROVE  LinkInv'
PROOF
<1>1. PICK size \in Sizes :
        sender' = [sender EXCEPT ![c] =
            [pc |-> IF link[c] = {} THEN "connecting" ELSE "waiting", attempt |-> 1,
             message |-> [client |-> c, seq |-> sender[c].message.seq + 1, size |-> size]]]
  BY DEF Send
<1>2. sender[c].message.seq < MaxSeq /\ UNCHANGED <<persistent, link, answers>>
  BY DEF Send
<1> DEFINE m == [client |-> c, seq |-> sender[c].message.seq + 1, size |-> size]
           b == [pc |-> IF link[c] = {} THEN "connecting" ELSE "waiting", attempt |-> 1, message |-> m]
<1>3. m \in Messages /\ m.client = c
  <2>1. sender[c].message.seq \in Nat /\ MaxSeq \in Nat
    BY SenderTypes, IngestionAssumption DEF IngestionAssumption
  <2>2. sender[c].message.seq + 1 \in 1..MaxSeq
    BY <1>2, <2>1
  <2> QED BY <2>2 DEF Messages
<1> HIDE DEF m
<1>4. b \in [pc : Stages, attempt : Nat, message : Messages \cup {NoMessage}]
  BY <1>3 DEF Stages
<1>5. sender'[c] = b
  BY <1>1, SenderTypes DEF LinkInv, m
<1>6. ClientOK(c)'
  <2>1. b.pc = (IF link[c] = {} THEN "connecting" ELSE "waiting") /\ b.attempt = 1 /\ b.message = m
    OBVIOUS
  <2>2. ClientOK(c)
    BY SenderTypes
  <2> HIDE DEF b
  <2> QED BY <1>2, <1>3, <1>5, <2>1, <2>2 DEF ClientOK, Attempts
<1>7. sender' = [sender EXCEPT ![c] = b] /\ link' = [link EXCEPT ![c] = link[c]]
      /\ answers' = [answers EXCEPT ![c] = answers[c]]
  BY <1>1, <1>2, SenderTypes DEF m
<1> HIDE DEF b
<1>8. link[c] \in SUBSET Conns /\ answers[c] \in Nat /\ \A d \in Clients : d # c => link[c] \cap link[d] = {}
  BY SenderTypes
<1> QED BY <1>2, <1>4, <1>6, <1>7, <1>8, ClientStep
\* A connection that a client opens belongs to nobody else.
LEMMA ConnectLinks ==
    ASSUME LinkInv, NEW c \in Clients, NEW s \in Conns, Connects(c, s)
    PROVE  LinkInv'
PROOF
<1> DEFINE b == [sender[c] EXCEPT !.pc = "waiting"]
<1>1. /\ sender' = [sender EXCEPT ![c] = b] /\ link' = [link EXCEPT ![c] = {s}]
      /\ UNCHANGED <<persistent, answers>> /\ sender[c].pc = "connecting"
      /\ \A d \in Clients : s \notin link[d]
  BY DEF Connects
<1>2. /\ sender[c] \in [pc : Stages, attempt : Nat, message : Messages \cup {NoMessage}]
      /\ ClientOK(c) /\ answers[c] \in Nat /\ answers' = [answers EXCEPT ![c] = answers[c]]
  BY <1>1, SenderTypes
<1>3. /\ b \in [pc : Stages, attempt : Nat, message : Messages \cup {NoMessage}]
      /\ b.pc = "waiting" /\ b.attempt = sender[c].attempt /\ b.message = sender[c].message
  BY <1>2 DEF Stages
<1> HIDE DEF b
<1>4. sender'[c] = b /\ link'[c] = {s} /\ answers'[c] = answers[c]
  BY <1>1, <1>3 DEF LinkInv
<1>5. ClientOK(c)'
  BY <1>1, <1>2, <1>3, <1>4 DEF ClientOK, Attempts
<1>6. {s} \in SUBSET Conns /\ \A d \in Clients : d # c => {s} \cap link[d] = {}
  BY <1>1
<1> QED BY <1>1, <1>2, <1>3, <1>5, <1>6, ClientStep

\* A connection that is closed has nothing left to read.
LEMMA HangUpLinks ==
    ASSUME LinkInv, NEW c \in Clients, HangUp(c), UNCHANGED persistent,
           NEW b \in [pc : Stages, attempt : Nat, message : Messages \cup {NoMessage}],
           sender' = [sender EXCEPT ![c] = b],
           b.pc = "connecting" => b.attempt >= 1,
           b.pc # "idle" => b.message \in Messages,
           b.message \in Messages => b.message.client = c,
           b.attempt <= Attempts(c)
    PROVE  LinkInv'
PROOF
<1>1. link' = [link EXCEPT ![c] = {}] /\ answers' = [answers EXCEPT ![c] = 0]
  BY DEF HangUp
<1>2. sender'[c] = b /\ link'[c] = {} /\ answers'[c] = 0
  BY <1>1 DEF LinkInv
<1>3. ClientOK(c)'
  BY <1>2 DEF ClientOK, Attempts
<1>4. {} \in SUBSET Conns /\ 0 \in Nat /\ \A d \in Clients : d # c => {} \cap link[d] = {}
  OBVIOUS
<1> QED BY <1>1, <1>3, <1>4, ClientStep

LEMMA AckLinks ==
    ASSUME LinkInv, NEW c \in Clients, GetsAck(c)
    PROVE  LinkInv'
PROOF
<1> DEFINE b == [sender[c] EXCEPT !.pc = "idle"]
<1>1. /\ sender' = [sender EXCEPT ![c] = b] /\ UNCHANGED persistent
      /\ sender[c].pc = "waiting" /\ answers[c] > 0
  BY DEF GetsAck
<1>2. /\ sender[c] \in [pc : Stages, attempt : Nat, message : Messages \cup {NoMessage}]
      /\ ClientOK(c) /\ answers[c] \in Nat /\ link[c] \in SUBSET Conns
      /\ \A d \in Clients : d # c => link[c] \cap link[d] = {}
      /\ link = [link EXCEPT ![c] = link[c]]
  BY SenderTypes
<1>3. /\ b \in [pc : Stages, attempt : Nat, message : Messages \cup {NoMessage}]
      /\ b.pc = "idle" /\ b.attempt = sender[c].attempt /\ b.message = sender[c].message
  BY <1>2 DEF Stages
<1> HIDE DEF b
<1>4. CASE c \in persistent
  <2>1. answers' = [answers EXCEPT ![c] = answers[c] - 1] /\ link' = [link EXCEPT ![c] = link[c]]
    BY <1>2, <1>4 DEF GetsAck
  <2>2. answers[c] - 1 \in Nat
    BY <1>1, <1>2
  <2>3. sender'[c] = b /\ link'[c] = link[c] /\ answers'[c] = answers[c] - 1
    BY <1>1, <2>1 DEF LinkInv
  <2>4. link[c] # {}
    BY <1>1, <1>2 DEF ClientOK
  <2>5. ClientOK(c)'
    BY <1>1, <1>2, <1>3, <1>4, <2>3, <2>4 DEF ClientOK, Attempts
  <2> QED BY <1>1, <1>2, <1>3, <2>1, <2>2, <2>5, ClientStep
<1>5. CASE c \notin persistent
  <2>1. HangUp(c)
    BY <1>5 DEF GetsAck
  <2>2. b.attempt <= Attempts(c) /\ (b.message \in Messages => b.message.client = c)
    BY <1>2, <1>3 DEF ClientOK
  <2> QED BY <1>1, <1>3, <2>1, <2>2, HangUpLinks
<1> QED BY <1>4, <1>5

LEMMA FailureLinks ==
    ASSUME LinkInv, NEW c \in Clients, AttemptFails(c)
    PROVE  LinkInv'
PROOF
<1> DEFINE b == IF sender[c].attempt < Attempts(c)
                THEN [sender[c] EXCEPT !.pc = "connecting", !.attempt = sender[c].attempt + 1]
                ELSE [sender[c] EXCEPT !.pc = "idle"]
<1>1. /\ sender' = [sender EXCEPT ![c] = b] /\ UNCHANGED persistent /\ HangUp(c)
      /\ sender[c].pc \in {"connecting", "waiting"}
  BY DEF AttemptFails
<1>2. /\ sender[c] \in [pc : Stages, attempt : Nat, message : Messages \cup {NoMessage}] /\ ClientOK(c)
  BY SenderTypes
<1>3. Attempts(c) \in Nat
  BY DEF Attempts
<1>4. CASE sender[c].attempt < Attempts(c)
  <2>1. b = [sender[c] EXCEPT !.pc = "connecting", !.attempt = sender[c].attempt + 1]
    BY <1>4
  <2> HIDE DEF b
  <2>4. b = [pc |-> "connecting", attempt |-> sender[c].attempt + 1, message |-> sender[c].message]
    BY <1>2, <2>1
  <2>5. sender[c].message \in Messages \cup {NoMessage}
    BY <1>2
  <2>6. sender[c].attempt \in Nat
    BY <1>2
  <2>2. /\ b \in [pc : Stages, attempt : Nat, message : Messages \cup {NoMessage}]
        /\ b.pc = "connecting" /\ b.attempt = sender[c].attempt + 1 /\ b.message = sender[c].message
    BY <2>4, <2>5, <2>6 DEF Stages
  <2>3. b.attempt >= 1 /\ b.attempt <= Attempts(c)
    BY <1>2, <1>3, <1>4, <2>2
  <2> QED BY <1>1, <1>2, <2>2, <2>3, HangUpLinks DEF ClientOK
<1>5. CASE ~ (sender[c].attempt < Attempts(c))
  <2>1. b = [sender[c] EXCEPT !.pc = "idle"]
    BY <1>5
  <2>2. /\ b \in [pc : Stages, attempt : Nat, message : Messages \cup {NoMessage}]
        /\ b.pc = "idle" /\ b.attempt = sender[c].attempt /\ b.message = sender[c].message
    BY <1>2, <2>1 DEF Stages
  <2> HIDE DEF b
  <2> QED BY <1>1, <1>2, <2>2, HangUpLinks DEF ClientOK
<1> QED BY <1>4, <1>5

LEMMA FinishLinks ==
    ASSUME LinkInv, NEW c \in Clients, Finishes(c)
    PROVE  LinkInv'
PROOF
<1>1. /\ sender' = sender /\ UNCHANGED persistent /\ HangUp(c) /\ sender[c].pc = "idle"
  BY DEF Finishes
<1>2. /\ sender[c] \in [pc : Stages, attempt : Nat, message : Messages \cup {NoMessage}]
      /\ ClientOK(c) /\ sender' = [sender EXCEPT ![c] = sender[c]]
  BY <1>1, SenderTypes
<1> QED BY <1>1, <1>2, HangUpLinks DEF ClientOK

\* An ACK goes to the client whose connection it is, if there is one.
LEMMA AcknowledgeLinks ==
    ASSUME LinkInv, NEW s \in Conns, Acknowledge(s), UNCHANGED <<persistent, sender, link>>
    PROVE  LinkInv'
PROOF
<1>1. answers' = [c \in Clients |-> IF s \in link[c] THEN answers[c] + 1 ELSE answers[c]]
  BY DEF Acknowledge
<1>2. answers' \in [Clients -> Nat]
  BY <1>1 DEF LinkInv
<1>3. ASSUME NEW c \in Clients PROVE ClientOK(c)'
  <2>1. link[c] = {} => answers'[c] = answers[c]
    BY <1>1
  <2> QED BY <2>1 DEF LinkInv, ClientOK, Attempts
<1> QED BY <1>2, <1>3 DEF LinkInv

LEMMA FrameLinks ==
    ASSUME LinkInv, NEW s \in Conns, NEW end, FrameRead(s, end), UNCHANGED <<persistent, sender, link>>
    PROVE  LinkInv'
PROOF
<1>1. CASE UNCHANGED answers
  BY <1>1 DEF LinkInv, ClientOK, Attempts
<1> QED BY <1>1, AcknowledgeLinks DEF FrameRead

LEMMA LinkStep ==
    ASSUME LinkInv, [Next]_vars
    PROVE  LinkInv'
PROOF
<1>1. ASSUME UNCHANGED <<persistent, sender, link, answers>> PROVE LinkInv'
  BY <1>1 DEF LinkInv, ClientOK, Attempts
<1>2. ASSUME NEW s \in Conns, Handle(s) PROVE LinkInv'
  <2>1. CASE Chunk(s)
    <3>1. UNCHANGED <<persistent, sender, link>>
      BY <2>1 DEF Chunk
    <3>2. (\E n : FrameRead(s, at[s] + n)) \/ UNCHANGED answers
      BY <2>1 DEF Chunk
    <3> QED BY <1>1, <3>1, <3>2, FrameLinks
  <2>2. CASE Quiet(s)
    BY <2>2, FrameLinks DEF Quiet
  <2>3. CASE Broken(s) \/ Drained(s) \/ Closed(s)
    BY <1>1, <2>3 DEF Broken, Drained, Closed
  <2> QED BY <1>2, <2>1, <2>2, <2>3 DEF Handle
<1>3. CASE Tick \/ GatewayResets \/ UNCHANGED vars
  BY <1>1, <1>3 DEF Tick, GatewayResets, vars
<1> QED
  BY <1>2, <1>3, SendLinks, ConnectLinks, AckLinks, FailureLinks, FinishLinks DEF Next, Client

LEMMA LinkInit == Init => LinkInv
<1> SUFFICES ASSUME Init PROVE LinkInv
  OBVIOUS
<1>1. /\ sender = [c \in Clients |-> [pc |-> "idle", attempt |-> 0, message |-> NoMessage]]
      /\ link = [c \in Clients |-> {}] /\ answers = [c \in Clients |-> 0] /\ persistent \subseteq Clients
  BY DEF Init
<1>2. [pc |-> "idle", attempt |-> 0, message |-> NoMessage]
         \in [pc : Stages, attempt : Nat, message : Messages \cup {NoMessage}]
  BY DEF Stages
<1>3. NoMessage \notin Messages
  BY IngestionAssumption DEF IngestionAssumption, Messages, NoMessage
<1>4. ASSUME NEW c \in Clients PROVE ClientOK(c)
  BY <1>1, <1>3 DEF ClientOK, Attempts
<1> QED BY <1>1, <1>2, <1>4 DEF LinkInv
-----------------------------------------------------------------------------
(* The wires. *)

\* A message on a wire and where its newline is; where entry i begins; the end of the last.
Frames == [message : Messages, end : Nat]
Begins(w, i) == w[i].end - w[i].message.size - 1
EndOf(w) == IF w = <<>> THEN 0 ELSE Last(w).end

\* Messages follow each other without a gap.
Chained(w) ==
    /\ \A i \in 1..Len(w) : Begins(w, i) = IF i = 1 THEN 0 ELSE w[i - 1].end
    /\ \A i, j \in 1..Len(w) : i < j => w[i].end <= Begins(w, j)

\* What a handler has read: of a frame that it acknowledges, something; without a handler
\* in its loop, nothing is on the wire.
LineOK(h, w, a, f) ==
    /\ Chained(w) /\ f <= a /\ a <= EndOf(w) /\ a - f <= MaxFrame
    /\ h = "draining" => f < a
    /\ h \notin Loop => w = <<>> /\ a = 0 /\ f = 0

WireInv ==
    /\ handler \in [Conns -> Places] /\ wire \in [Conns -> Seq(Frames)]
    /\ at \in [Conns -> Nat] /\ from \in [Conns -> Nat]
    /\ \A s \in Conns : LineOK(handler[s], wire[s], at[s], from[s])

\* The end of a wire, and of its last message.
LEMMA EndIs ==
    ASSUME NEW w \in Seq(Frames)
    PROVE  /\ EndOf(w) \in Nat /\ Len(w) \in Nat
           /\ \A i \in 1..Len(w) :
                 /\ w[i] \in Frames /\ w[i].end \in Nat
                 /\ w[i].message \in Messages /\ w[i].message.size \in Nat \ {0}
           /\ w # <<>> => Len(w) \in 1..Len(w) /\ Last(w) = w[Len(w)] /\ EndOf(w) = w[Len(w)].end
PROOF
<1>1. \A g \in Frames : g.end \in Nat /\ g.message \in Messages
  BY DEF Frames
<1>2. \A m \in Messages : m.size \in Nat \ {0}
  BY IngestionAssumption DEF IngestionAssumption, Messages
<1>3. Len(w) \in Nat /\ (w # <<>> => Len(w) \in 1..Len(w)) /\ \A i \in 1..Len(w) : w[i] \in Frames
  OBVIOUS
<1> QED BY <1>1, <1>2, <1>3 DEF EndOf, Last

\* The state of a connection, unfolded.
LEMMA LineTypes ==
    ASSUME WireInv, NEW s \in Conns
    PROVE  /\ handler[s] \in Places /\ wire[s] \in Seq(Frames) /\ at[s] \in Nat /\ from[s] \in Nat
           /\ Written(s) = EndOf(wire[s]) /\ Written(s) \in Nat
           /\ LineOK(handler[s], wire[s], at[s], from[s])
           /\ handler = [handler EXCEPT ![s] = handler[s]] /\ wire = [wire EXCEPT ![s] = wire[s]]
           /\ at = [at EXCEPT ![s] = at[s]] /\ from = [from EXCEPT ![s] = from[s]]
PROOF
<1>1. wire[s] \in Seq(Frames) /\ LineOK(handler[s], wire[s], at[s], from[s])
  BY DEF WireInv
<1>2. handler[s] \in Places /\ at[s] \in Nat /\ from[s] \in Nat
  BY DEF WireInv
<1>3. Written(s) = EndOf(wire[s]) /\ Written(s) \in Nat
  BY <1>1, EndIs DEF Written, EndOf
<1>4. /\ handler = [handler EXCEPT ![s] = handler[s]] /\ wire = [wire EXCEPT ![s] = wire[s]]
      /\ at = [at EXCEPT ![s] = at[s]] /\ from = [from EXCEPT ![s] = from[s]]
  BY DEF WireInv
<1> QED BY <1>1, <1>2, <1>3, <1>4

\* A message that is added begins where the last one ends.
LEMMA AddedToWire ==
    ASSUME NEW w \in Seq(Frames), Chained(w), NEW m \in Messages
    PROVE  LET f == [message |-> m, end |-> EndOf(w) + m.size + 1]
               x == Append(w, f)
           IN  /\ x \in Seq(Frames) /\ Chained(x) /\ EndOf(w) \in Nat
               /\ x # <<>> /\ Len(x) = Len(w) + 1 /\ x[Len(w) + 1] = f /\ Last(x) = f
               /\ \A i \in 1..Len(w) : x[i] = w[i]
               /\ EndOf(x) = EndOf(w) + m.size + 1 /\ Begins(x, Len(w) + 1) = EndOf(w)
PROOF
<1> DEFINE f == [message |-> m, end |-> EndOf(w) + m.size + 1]
           x == Append(w, f)
<1>1. m.size \in Nat \ {0} /\ \A k \in Messages : k.size \in Nat \ {0}
  BY IngestionAssumption DEF IngestionAssumption, Messages
<1> HIDE DEF f, x
<1>2. Len(w) \in Nat /\ \A i \in 1..Len(w) : w[i] \in Frames /\ w[i].end \in Nat /\ w[i].message \in Messages
  <2>1. \A g \in Frames : g.end \in Nat /\ g.message \in Messages
    BY DEF Frames
  <2> QED BY <2>1
<1>3. EndOf(w) \in Nat
  BY <1>2 DEF EndOf, Last
<1>4. f \in Frames /\ f.end = EndOf(w) + m.size + 1 /\ f.message = m
  BY <1>1, <1>3 DEF Frames, f
<1>5. /\ x \in Seq(Frames) /\ x # <<>> /\ Len(x) = Len(w) + 1 /\ x[Len(w) + 1] = f
      /\ \A i \in 1..Len(w) : x[i] = w[i]
  BY <1>4 DEF x
<1>6. Last(x) = f /\ EndOf(x) = f.end
  BY <1>5 DEF Last, EndOf
<1>7. Begins(x, Len(w) + 1) = EndOf(w)
  BY <1>1, <1>3, <1>4, <1>5 DEF Begins
<1>8. \A i \in 1..Len(w) : Begins(x, i) = Begins(w, i)
  BY <1>5 DEF Begins
<1>9. Chained(x)
  <2>1. ASSUME NEW i \in 1..Len(x) PROVE Begins(x, i) = IF i = 1 THEN 0 ELSE x[i - 1].end
    <3>1. CASE i \in 1..Len(w)
      <4>1. i # 1 => i - 1 \in 1..Len(w)
        BY <1>2, <3>1
      <4> QED BY <1>5, <1>8, <3>1, <4>1 DEF Chained
    <3>2. CASE i = Len(w) + 1
      <4>1. CASE w = <<>>
        BY <1>7, <3>2, <4>1 DEF EndOf
      <4>2. CASE w # <<>>
        <5>1. Len(w) \in 1..Len(w) /\ i # 1 /\ i - 1 = Len(w)
          BY <1>2, <3>2, <4>2
        <5> QED BY <1>5, <1>7, <3>2, <4>2, <5>1 DEF EndOf, Last
      <4> QED BY <4>1, <4>2
    <3> QED BY <1>2, <1>5, <3>1, <3>2
  <2>2. ASSUME NEW i \in 1..Len(x), NEW j \in 1..Len(x), i < j PROVE x[i].end <= Begins(x, j)
    <3>1. i \in 1..Len(w) /\ x[i] = w[i]
      BY <1>2, <1>5, <2>2
    <3>2. CASE j \in 1..Len(w)
      BY <1>5, <1>8, <2>2, <3>1, <3>2 DEF Chained
    <3>3. CASE j = Len(w) + 1
      <4>1. Len(w) \in 1..Len(w) /\ w # <<>> /\ EndOf(w) = w[Len(w)].end
        BY <1>2, <3>1 DEF EndOf, Last
      <4>2. i = Len(w) \/ w[i].end <= Begins(w, Len(w))
        BY <1>2, <3>1, <4>1 DEF Chained
      <4>3. Begins(w, Len(w)) <= w[Len(w)].end
        BY <1>1, <1>2, <4>1 DEF Begins
      <4>4. w[i].end \in Nat /\ Begins(w, Len(w)) \in Int /\ w[Len(w)].end \in Nat
        BY <1>1, <1>2, <3>1, <4>1 DEF Begins
      <4> QED BY <1>7, <3>1, <3>3, <4>1, <4>2, <4>3, <4>4
    <3> QED BY <1>2, <1>5, <3>2, <3>3
  <2> QED BY <2>1, <2>2 DEF Chained
<1> QED BY <1>3, <1>4, <1>5, <1>6, <1>7, <1>9 DEF x, f

\* A nonempty set of naturals has a least element, the one Min chooses.
LEMMA MinIsLeast ==
    ASSUME NEW S \in SUBSET Nat, S # {}
    PROVE  Min(S) \in S /\ \A y \in S : Min(S) <= y
PROOF
<1>1. \E x \in S : \A y \in S : x <= y
  BY RegistryConstants, RT!LeastExists
<1> QED BY <1>1 DEF Min

\* The lesser of two.
LEMMA MinOfTwo ==
    ASSUME NEW a \in Nat, NEW b \in Nat
    PROVE  Min({a, b}) = IF a <= b THEN a ELSE b
PROOF
<1>1. Min({a, b}) \in {a, b} /\ \A y \in {a, b} : Min({a, b}) <= y
  BY MinIsLeast
<1> QED BY <1>1

\* The frame that is being read begins in a message that is on the wire, the first that ends
\* after it.
LEMMA CurrentIs ==
    ASSUME WireInv, NEW s \in Conns, from[s] < Written(s)
    PROVE  /\ Current(s) \in Frames /\ Current(s).end > from[s] /\ Message(s) \in Messages
           /\ Current(s).end \in Nat /\ Message(s).size \in Nat \ {0}
           /\ \E i \in 1..Len(wire[s]) :
                 /\ Current(s) = wire[s][i]
                 /\ \A j \in 1..Len(wire[s]) : wire[s][j].end > from[s] => i <= j
PROOF
<1> DEFINE w == wire[s]
           S == {i \in DOMAIN w : w[i].end > from[s]}
<1>1. w \in Seq(Frames) /\ from[s] \in Nat /\ from[s] < EndOf(w)
  BY DEF WireInv, Written, EndOf
<1> HIDE DEF w
<1>2. Len(w) \in Nat /\ DOMAIN w = 1..Len(w) /\ \A i \in 1..Len(w) : w[i] \in Frames
  BY <1>1
<1>3. Len(w) \in S
  <2>1. w # <<>>
    BY <1>1 DEF EndOf
  <2>2. Len(w) \in 1..Len(w)
    BY <1>1, <2>1
  <2> QED BY <1>1, <1>2, <2>1, <2>2 DEF EndOf, Last
<1>4. Min(S) \in S /\ \A j \in S : Min(S) <= j
  <2>1. S \subseteq Nat /\ S # {}
    BY <1>2, <1>3
  <2> HIDE DEF S
  <2> QED BY <2>1, MinIsLeast
<1>5. Current(s) = w[Min(S)]
  BY DEF Current, w
<1>6. Current(s) \in Frames /\ Current(s).end > from[s] /\ Min(S) \in 1..Len(w)
      /\ \A j \in 1..Len(w) : w[j].end > from[s] => Min(S) <= j
  BY <1>2, <1>4, <1>5
<1> HIDE DEF S
<1>7. Current(s).end \in Nat /\ Message(s) \in Messages
  BY <1>6 DEF Frames, Message
<1>8. Message(s).size \in Nat \ {0}
  BY <1>7, IngestionAssumption DEF IngestionAssumption, Messages
<1> QED BY <1>5, <1>6, <1>7, <1>8 DEF w

\* What a nonempty frame is made of.
LEMMA FrameIs ==
    ASSUME WireInv, NEW s \in Conns, NEW end \in Nat, from[s] < end, end <= Written(s)
    PROVE  /\ EmptyFrame(s, end) <=> Current(s).end - 1 = from[s]
           /\ Whole(s, end) <=> /\ from[s] = Current(s).end - Message(s).size - 1
                                /\ end >= Current(s).end - 1
PROOF
<1>1. from[s] \in Nat /\ Written(s) \in Nat
  BY LineTypes
<1>2. Current(s).end \in Nat /\ Current(s).end > from[s]
  BY <1>1, CurrentIs
<1>3. FrameEnd(s, end) = IF end <= Current(s).end - 1 THEN end ELSE Current(s).end - 1
  <2>1. Current(s).end - 1 \in Nat
    BY <1>1, <1>2
  <2> QED BY <2>1, MinOfTwo DEF FrameEnd
<1> QED BY <1>1, <1>2, <1>3 DEF EmptyFrame, Whole
\* The step of one connection.
LEMMA LineStep ==
    ASSUME WireInv, NEW s \in Conns, NEW h \in Places, NEW w \in Seq(Frames), NEW a \in Nat, NEW f \in Nat,
           handler' = [handler EXCEPT ![s] = h], wire' = [wire EXCEPT ![s] = w],
           at' = [at EXCEPT ![s] = a], from' = [from EXCEPT ![s] = f],
           LineOK(h, w, a, f)
    PROVE  WireInv'
PROOF
<1>1. /\ handler' \in [Conns -> Places] /\ wire' \in [Conns -> Seq(Frames)]
      /\ at' \in [Conns -> Nat] /\ from' \in [Conns -> Nat]
  BY DEF WireInv
<1>2. handler'[s] = h /\ wire'[s] = w /\ at'[s] = a /\ from'[s] = f
  BY DEF WireInv
<1>3. \A r \in Conns : r # s =>
         handler'[r] = handler[r] /\ wire'[r] = wire[r] /\ at'[r] = at[r] /\ from'[r] = from[r]
  BY DEF WireInv
<1>4. \A r \in Conns : LineOK(handler'[r], wire'[r], at'[r], from'[r])
  BY <1>2, <1>3 DEF WireInv
<1> QED BY <1>1, <1>4 DEF WireInv

\* A connection with nothing on its wire.
LEMMA ClearLine == <<>> \in Seq(Frames) /\ Chained(<<>>) /\ EndOf(<<>>) = 0
                   /\ \A h : h # "draining" => LineOK(h, <<>>, 0, 0)
PROOF
<1>1. <<>> \in Seq(Frames) /\ EndOf(<<>>) = 0 /\ Chained(<<>>)
  BY DEF EndOf, Chained
<1> QED BY <1>1, IngestionAssumption DEF LineOK, IngestionAssumption

LEMMA LeaveWires ==
    ASSUME WireInv, NEW s \in Conns, Leave(s)
    PROVE  WireInv'
PROOF
<1>1. /\ handler' = [handler EXCEPT ![s] = "closing"] /\ wire' = [wire EXCEPT ![s] = <<>>]
      /\ at' = [at EXCEPT ![s] = 0] /\ from' = [from EXCEPT ![s] = 0]
  BY DEF Leave
<1>2. "closing" \in Places /\ LineOK("closing", <<>>, 0, 0) /\ <<>> \in Seq(Frames) /\ 0 \in Nat
  BY ClearLine DEF Places
<1> QED BY <1>1, <1>2, LineStep

\* A frame that is acknowledged is not empty.
LEMMA FrameWires ==
    ASSUME WireInv, NEW s \in Conns, handler[s] = "reading", NEW end \in Nat, from[s] <= end, end <= Written(s),
           end - from[s] <= MaxFrame, FrameRead(s, end)
    PROVE  WireInv'
PROOF
<1>1. CASE Leave(s)
  BY <1>1, LeaveWires
<1>2. CASE ~ EmptyFrame(s, end) /\ handler' = [handler EXCEPT ![s] = "draining"]
           /\ at' = [at EXCEPT ![s] = end] /\ UNCHANGED <<wire, from>>
  <2>1. from[s] < end
    <3>1. from[s] # end
      BY <1>2 DEF EmptyFrame
    <3> QED BY <3>1, LineTypes
  <2>2. LineOK("draining", wire[s], end, from[s])
    BY <2>1, LineTypes DEF LineOK, Loop
  <2>3. /\ wire' = [wire EXCEPT ![s] = wire[s]] /\ from' = [from EXCEPT ![s] = from[s]]
        /\ wire[s] \in Seq(Frames) /\ from[s] \in Nat /\ "draining" \in Places
    BY <1>2, LineTypes DEF Places
  <2> QED BY <1>2, <2>2, <2>3, LineStep
<1> QED BY <1>1, <1>2 DEF FrameRead

LEMMA ChunkWires ==
    ASSUME WireInv, NEW s \in Conns, Chunk(s)
    PROVE  WireInv'
PROOF
<1>1. PICK n \in 1..ReadSize :
        /\ at[s] + n <= Written(s) /\ at[s] + n - from[s] <= MaxFrame
        /\ \/ FrameRead(s, at[s] + n)
           \/ at' = [at EXCEPT ![s] = at[s] + n] /\ UNCHANGED <<handler, wire, from>>
  BY DEF Chunk
<1>2. handler[s] = "reading"
  BY DEF Chunk
<1>3. /\ at[s] \in Nat /\ from[s] \in Nat /\ wire[s] \in Seq(Frames) /\ LineOK(handler[s], wire[s], at[s], from[s])
      /\ Written(s) = EndOf(wire[s])
  BY LineTypes
<1>4. at[s] + n \in Nat /\ from[s] <= at[s] + n
  BY <1>3, IngestionAssumption DEF IngestionAssumption, LineOK
<1>5. CASE FrameRead(s, at[s] + n)
  <2> DEFINE e == at[s] + n
  <2>1. FrameRead(s, e)
    BY <1>5
  <2>2. e <= Written(s) /\ e - from[s] <= MaxFrame
    BY <1>1, <1>3
  <2>3. e \in Nat /\ from[s] <= e
    BY <1>4
  <2> HIDE DEF e
  <2> QED BY <1>2, <2>1, <2>2, <2>3, FrameWires
<1>6. CASE at' = [at EXCEPT ![s] = at[s] + n] /\ UNCHANGED <<handler, wire, from>>
  <2>1. LineOK("reading", wire[s], at[s] + n, from[s])
    BY <1>1, <1>3, <1>4 DEF LineOK, Loop
  <2>2. /\ handler' = [handler EXCEPT ![s] = "reading"] /\ wire' = [wire EXCEPT ![s] = wire[s]]
        /\ from' = [from EXCEPT ![s] = from[s]] /\ "reading" \in Places
    BY <1>2, <1>6, LineTypes DEF Places
  <2> QED BY <1>3, <1>4, <1>6, <2>1, <2>2, LineStep
<1> QED BY <1>1, <1>5, <1>6

LEMMA QuietWires ==
    ASSUME WireInv, NEW s \in Conns, Quiet(s)
    PROVE  WireInv'
PROOF
<1>1. handler[s] = "reading" /\ FrameRead(s, at[s])
  BY DEF Quiet
<1>2. at[s] \in Nat /\ from[s] <= at[s] /\ at[s] <= Written(s) /\ at[s] - from[s] <= MaxFrame
  BY LineTypes DEF LineOK
<1> QED BY <1>1, <1>2, FrameWires

LEMMA DrainedWires ==
    ASSUME WireInv, NEW s \in Conns, Drained(s)
    PROVE  WireInv'
PROOF
<1>1. /\ handler' = [handler EXCEPT ![s] = "reading"] /\ from' = [from EXCEPT ![s] = at[s]]
      /\ wire' = [wire EXCEPT ![s] = wire[s]] /\ at' = [at EXCEPT ![s] = at[s]] /\ handler[s] = "draining"
  BY LineTypes DEF Drained
<1>2. at[s] \in Nat /\ wire[s] \in Seq(Frames) /\ LineOK(handler[s], wire[s], at[s], from[s]) /\ "reading" \in Places
  BY LineTypes DEF Places
<1>3. LineOK("reading", wire[s], at[s], at[s])
  BY <1>2, IngestionAssumption DEF IngestionAssumption, LineOK, Loop
<1> QED BY <1>1, <1>2, <1>3, LineStep

LEMMA ClosedWires ==
    ASSUME WireInv, NEW s \in Conns, Closed(s)
    PROVE  WireInv'
PROOF
<1>1. /\ handler' = [handler EXCEPT ![s] = "free"] /\ from' = [from EXCEPT ![s] = from[s]]
      /\ wire' = [wire EXCEPT ![s] = wire[s]] /\ at' = [at EXCEPT ![s] = at[s]] /\ handler[s] = "closing"
  BY LineTypes DEF Closed, reading
<1>2. /\ at[s] \in Nat /\ from[s] \in Nat /\ wire[s] \in Seq(Frames)
      /\ LineOK(handler[s], wire[s], at[s], from[s]) /\ "free" \in Places
  BY LineTypes DEF Places
<1>3. LineOK("free", wire[s], at[s], from[s])
  BY <1>1, <1>2 DEF LineOK, Loop
<1> QED BY <1>1, <1>2, <1>3, LineStep

\* A message is written behind what is there.
LEMMA WriteWires ==
    ASSUME WireInv, NEW s \in Conns, NEW m \in Messages, Write(s, m), UNCHANGED <<at, from>>,
           NEW h \in {"reading", "draining"}, handler' = [handler EXCEPT ![s] = h],
           h = "reading" \/ h = handler[s]
    PROVE  WireInv'
PROOF
<1> DEFINE w == Append(wire[s], [message |-> m, end |-> Written(s) + m.size + 1])
<1>1. /\ at[s] \in Nat /\ from[s] \in Nat /\ wire[s] \in Seq(Frames) /\ Written(s) = EndOf(wire[s])
      /\ LineOK(handler[s], wire[s], at[s], from[s]) /\ Chained(wire[s])
      /\ at' = [at EXCEPT ![s] = at[s]] /\ from' = [from EXCEPT ![s] = from[s]]
  BY LineTypes DEF LineOK
<1>2. wire' = [wire EXCEPT ![s] = w]
  BY <1>1 DEF Write, WireInv
<1>3. /\ w \in Seq(Frames) /\ Chained(w) /\ EndOf(wire[s]) \in Nat
      /\ EndOf(w) = EndOf(wire[s]) + m.size + 1
  BY <1>1, AddedToWire
<1> HIDE DEF w
<1>4. LineOK(h, w, at[s], from[s])
  <2>1. m.size \in Nat
    BY IngestionAssumption DEF IngestionAssumption, Messages
  <2> QED BY <1>1, <1>3, <2>1 DEF LineOK, Loop
<1>5. h \in Places
  BY DEF Places
<1> QED BY <1>1, <1>2, <1>3, <1>4, <1>5, LineStep
LEMMA WireStep ==
    ASSUME WireInv, LinkInv, [Next]_vars
    PROVE  WireInv'
PROOF
<1>1. ASSUME UNCHANGED <<handler, wire, at, from>> PROVE WireInv'
  BY <1>1 DEF WireInv
<1>2. ASSUME NEW s \in Conns, Handle(s) PROVE WireInv'
  <2>1. CASE Broken(s)
    BY <2>1, LeaveWires DEF Broken
  <2> QED BY <1>2, <2>1, ChunkWires, QuietWires, DrainedWires, ClosedWires DEF Handle
<1>3. ASSUME NEW c \in Clients, Send(c) PROVE WireInv'
  <2>1. PICK size \in Sizes : LET m == [client |-> c, seq |-> sender[c].message.seq + 1, size |-> size] IN
           IF \E s \in link[c] : InLoop(s) THEN \E s \in link[c] : Write(s, m) ELSE UNCHANGED wire
    BY <1>3 DEF Send
  <2>2. UNCHANGED <<handler, at, from>> /\ sender[c].message.seq < MaxSeq
    BY <1>3 DEF Send
  <2> DEFINE m == [client |-> c, seq |-> sender[c].message.seq + 1, size |-> size]
  <2>3. m \in Messages
    <3>1. sender[c].message.seq \in Nat /\ MaxSeq \in Nat
      BY SenderTypes, IngestionAssumption DEF IngestionAssumption
    <3>2. sender[c].message.seq + 1 \in 1..MaxSeq
      BY <2>2, <3>1
    <3> QED BY <3>2 DEF Messages
  <2>4. CASE \E s \in link[c] : InLoop(s)
    <3>1. PICK s \in link[c] : Write(s, m)
      BY <2>1, <2>4
    <3>2. s \in Conns /\ InLoop(s)
      <4>1. \E r \in Conns : link[c] = {r}
        BY <2>4, SenderTypes DEF ClientOK
      <4> QED BY <2>4, <4>1
    <3>3. handler' = [handler EXCEPT ![s] = handler[s]] /\ handler[s] \in {"reading", "draining"}
      BY <2>2, <3>2, LineTypes DEF InLoop
    <3> HIDE DEF m
    <3> QED BY <2>2, <2>3, <3>1, <3>2, <3>3, WriteWires
  <2>5. CASE ~ \E s \in link[c] : InLoop(s)
    BY <1>1, <2>1, <2>2, <2>5
  <2> QED BY <2>4, <2>5
<1>4. ASSUME NEW c \in Clients, NEW s \in Conns, Connects(c, s) PROVE WireInv'
  <2>1. /\ Write(s, sender[c].message) /\ UNCHANGED <<at, from>>
        /\ handler' = [handler EXCEPT ![s] = "reading"] /\ sender[c].pc = "connecting"
    BY <1>4 DEF Connects
  <2>2. sender[c].message \in Messages
    BY <2>1, SenderTypes DEF ClientOK
  <2> QED BY <2>1, <2>2, WriteWires
<1>5. CASE GatewayResets
  <2>1. /\ handler' = [s \in Conns |-> "free"] /\ wire' = [s \in Conns |-> <<>>]
        /\ at' = [s \in Conns |-> 0] /\ from' = [s \in Conns |-> 0]
    BY <1>5 DEF GatewayResets
  <2> QED BY <2>1, ClearLine DEF WireInv, Places
<1>6. ASSUME NEW c \in Clients, GetsAck(c) \/ AttemptFails(c) \/ Finishes(c) PROVE WireInv'
  BY <1>1, <1>6 DEF GetsAck, AttemptFails, Finishes, reading
<1>7. CASE Tick \/ UNCHANGED vars
  BY <1>1, <1>7 DEF Tick, vars, reading
<1> QED BY <1>2, <1>3, <1>4, <1>5, <1>6, <1>7 DEF Next, Client

LEMMA WireInit == Init => WireInv
PROOF
<1> SUFFICES ASSUME Init PROVE WireInv
  OBVIOUS
<1>1. /\ handler = [s \in Conns |-> "free"] /\ wire = [s \in Conns |-> <<>>]
      /\ at = [s \in Conns |-> 0] /\ from = [s \in Conns |-> 0]
  BY DEF Init
<1> QED BY <1>1, ClearLine DEF WireInv, Places

-----------------------------------------------------------------------------
(* The acknowledgements. *)

\* The sender of m may see an OK that is not for it: a part of m was acknowledged, or a part
\* of an earlier message whose ACK may still be on the connection.
Excused(m) == m \in cut \/ \E k \in cut : k.client = m.client /\ k.client \in persistent /\ k.seq < m.seq

\* The handler of s has read up to p, or up to the newline before p.
ReadUpTo(s, p) ==
    \/ handler[s] = "reading" /\ from[s] \in {p - 1, p}
    \/ handler[s] = "draining" /\ at[s] \in {p - 1, p}

\* Where the last message on the wire of s begins.
LastBegins(s) == Begins(wire[s], Len(wire[s]))

\* Unless it is excused, a client has one ACK to read at most, and then the message it waits
\* for was received.  Its handler has read that one and waits for the next, or has read all
\* that comes before it and waits for that one.
Answered(c) ==
    /\ answers[c] \in {0, 1} /\ (sender[c].pc = "idle" => answers[c] = 0)
    /\ answers[c] = 1 => sender[c].message \in received
    /\ \A s \in link[c] : InLoop(s) =>
          ReadUpTo(s, IF sender[c].pc = "waiting" /\ answers[c] = 0 THEN LastBegins(s) ELSE Written(s))

AckInv ==
    /\ received \subseteq Messages /\ acked \subseteq Messages /\ cut \subseteq Messages
    /\ \A c \in Clients, s \in Conns :
          s \in link[c] /\ InLoop(s) => wire[s] # <<>> /\ Last(wire[s]).message = sender[c].message
    /\ \A c \in Clients : link[c] # {} /\ ~ Excused(sender[c].message) => Answered(c)
    /\ \A m \in acked : m \in received \/ Excused(m)

\* Where the last message of a wire lies.
LEMMA LastLies ==
    ASSUME WireInv, NEW s \in Conns, wire[s] # <<>>
    PROVE  /\ Len(wire[s]) \in Nat \ {0} /\ Last(wire[s]) = wire[s][Len(wire[s])]
           /\ LastBegins(s) \in Nat /\ Written(s) \in Nat /\ LastBegins(s) < Written(s) - 1
           /\ Written(s) = wire[s][Len(wire[s])].end
           /\ LastBegins(s) = Written(s) - Last(wire[s]).message.size - 1
           /\ \A i \in 1..Len(wire[s]) :
                 /\ wire[s][i].end \in Nat
                 /\ i < Len(wire[s]) => wire[s][i].end <= LastBegins(s)
           /\ LastBegins(s) > 0 =>
                 \E i \in 1..Len(wire[s]) : i < Len(wire[s]) /\ wire[s][i].end = LastBegins(s)
PROOF
<1> DEFINE w == wire[s]
           n == Len(w)
<1>1. w \in Seq(Frames) /\ Chained(w) /\ Written(s) = EndOf(w)
  BY LineTypes DEF LineOK
<1>2. LastBegins(s) = Begins(w, n)
  BY DEF LastBegins
<1>3. w # <<>>
  OBVIOUS
<1> HIDE DEF w
<1>4. /\ n \in Nat /\ n \in 1..n /\ Last(w) = w[n] /\ EndOf(w) = w[n].end /\ EndOf(w) \in Nat
      /\ \A i \in 1..n : /\ w[i] \in Frames /\ w[i].end \in Nat
                         /\ w[i].message \in Messages /\ w[i].message.size \in Nat \ {0}
  BY <1>1, <1>3, EndIs
<1>5. Begins(w, n) = IF n = 1 THEN 0 ELSE w[n - 1].end
  BY <1>1, <1>4 DEF Chained
<1>8. \A i \in 1..n : i < n => w[i].end <= Begins(w, n)
  BY <1>1, <1>4 DEF Chained
<1> HIDE DEF n
<1>6. n # 1 => n - 1 \in 1..n /\ n - 1 < n
  BY <1>4
<1>7. Begins(w, n) \in Nat /\ Begins(w, n) < EndOf(w) - 1 /\ Begins(w, n) = EndOf(w) - w[n].message.size - 1
  BY <1>4, <1>5, <1>6 DEF Begins
<1>9. Begins(w, n) > 0 => \E i \in 1..n : i < n /\ w[i].end = Begins(w, n)
  BY <1>5, <1>6
<1> QED BY <1>1, <1>2, <1>4, <1>7, <1>8, <1>9 DEF w, n

\* A handler that has read up to the last message, or past it, finds that one in its next
\* frame or nothing.
LEMMA NextFrame ==
    ASSUME WireInv, NEW s \in Conns, wire[s] # <<>>, handler[s] = "reading",
           NEW e \in Nat, from[s] < e, e <= Written(s), ~ EmptyFrame(s, e),
           NEW p \in {LastBegins(s), Written(s)}, ReadUpTo(s, p)
    PROVE  /\ p = LastBegins(s) /\ Message(s) = Last(wire[s]).message
           /\ Whole(s, e) => e \in {Written(s) - 1, Written(s)}
PROOF
<1> DEFINE w == wire[s]
           n == Len(w)
<1>1. from[s] \in Nat /\ from[s] \in {p - 1, p}
  BY LineTypes DEF ReadUpTo
<1>2. /\ n \in Nat \ {0} /\ Last(w) = w[n]
      /\ LastBegins(s) \in Nat /\ Written(s) \in Nat /\ LastBegins(s) < Written(s) - 1
      /\ Written(s) = w[n].end
  BY LastLies
<1>9. \A i \in 1..n : w[i].end \in Nat /\ (i < n => w[i].end <= LastBegins(s))
  BY LastLies
<1>8. LastBegins(s) > 0 => \E i \in 1..n : i < n /\ w[i].end = LastBegins(s)
  BY LastLies
<1>3. from[s] < Written(s)
  BY <1>1, <1>2
<1>4. PICK i \in 1..n : Current(s) = w[i] /\ \A j \in 1..n : w[j].end > from[s] => i <= j
  BY <1>3, CurrentIs
<1>5. Current(s).end > from[s] /\ Current(s).end - 1 # from[s]
      /\ (Whole(s, e) => e >= Current(s).end - 1)
  BY <1>3, CurrentIs, FrameIs
<1> HIDE DEF w, n
<1>6. CASE p = Written(s)
  <2>1. from[s] = Written(s) - 1
    BY <1>1, <1>2, <1>3, <1>6
  <2>2. i = n
    BY <1>2, <1>4, <1>5, <1>9, <2>1
  <2> QED BY <1>2, <1>4, <1>5, <2>1, <2>2
<1>7. CASE p = LastBegins(s)
  <2>1. from[s] # p - 1
    <3>1. SUFFICES ASSUME from[s] = p - 1 PROVE FALSE
      OBVIOUS
    <3>2. LastBegins(s) > 0
      BY <1>1, <1>2, <1>7, <3>1
    <3>3. PICK j \in 1..n : j < n /\ w[j].end = LastBegins(s)
      BY <1>8, <3>2
    <3>4. i < n
      BY <1>2, <1>4, <1>7, <3>1, <3>3
    <3>5. w[i].end <= LastBegins(s) /\ w[i].end > LastBegins(s) - 1 /\ w[i].end \in Nat
      BY <1>2, <1>4, <1>5, <1>7, <1>9, <3>1, <3>4
    <3> QED BY <1>2, <1>4, <1>5, <1>7, <3>1, <3>5
  <2>2. from[s] = LastBegins(s)
    BY <1>1, <1>7, <2>1
  <2>3. i = n
    BY <1>2, <1>4, <1>5, <1>9, <2>2
  <2>4. Current(s) = Last(w)
    BY <1>2, <1>4, <2>3
  <2>5. Whole(s, e) => e \in {Written(s) - 1, Written(s)}
    BY <1>2, <1>4, <1>5, <2>3
  <2> QED BY <1>7, <2>4, <2>5 DEF Message, w
<1> QED BY <1>6, <1>7

\* What was cut short stays cut short.
LEMMA StaysExcused ==
    ASSUME cut \subseteq cut', UNCHANGED persistent, NEW m, Excused(m)
    PROVE  Excused(m)'
  BY DEF Excused

\* Nothing changes for a client: its ACKs, its message and the lines it may use.
LEMMA UnmovedClient ==
    ASSUME NEW c \in Clients, LinkInv, AckInv, cut \subseteq cut', received \subseteq received', UNCHANGED persistent,
           sender'[c] = sender[c], link'[c] = link[c], answers'[c] = answers[c],
           \A s \in link[c] : InLoop(s)' => InLoop(s) /\ wire'[s] = wire[s]
                 /\ \A p : ReadUpTo(s, p) => ReadUpTo(s, p)'
    PROVE  /\ \A s \in Conns : s \in link'[c] /\ InLoop(s)' =>
                 wire'[s] # <<>> /\ Last(wire'[s]).message = sender'[c].message
           /\ link'[c] # {} /\ ~ Excused(sender[c].message)' => Answered(c)'
PROOF
<1>1. \A s \in Conns : s \in link'[c] /\ InLoop(s)' =>
         wire'[s] # <<>> /\ Last(wire'[s]).message = sender'[c].message
  BY DEF AckInv
<1>2. ASSUME link'[c] # {}, ~ Excused(sender[c].message)' PROVE Answered(c)'
  <2>1. Answered(c)
    BY <1>2, StaysExcused DEF AckInv
  <2>2. ASSUME NEW s \in link'[c], InLoop(s)'
        PROVE  ReadUpTo(s, IF sender[c].pc = "waiting" /\ answers[c] = 0 THEN LastBegins(s) ELSE Written(s))'
    <3>1. InLoop(s) /\ wire'[s] = wire[s] /\ Written(s)' = Written(s) /\ LastBegins(s)' = LastBegins(s)
      BY <2>2 DEF Written, LastBegins
    <3>2. ReadUpTo(s, IF sender[c].pc = "waiting" /\ answers[c] = 0 THEN LastBegins(s) ELSE Written(s))
      BY <2>1, <2>2, <3>1 DEF Answered
    <3> QED BY <2>2, <3>1, <3>2 DEF ReadUpTo
  <2> QED BY <2>1, <2>2 DEF Answered
<1> QED BY <1>1, <1>2
\* What has been acknowledged before is still honest.
LEMMA AckedStaysHonest ==
    ASSUME AckInv, cut \subseteq cut', received \subseteq received', UNCHANGED persistent, NEW m \in acked
    PROVE  m \in received' \/ Excused(m)'
  BY StaysExcused DEF AckInv

\* The step of a handler that acknowledges nothing.
LEMMA LineAcks ==
    ASSUME LinkInv, AckInv, UNCHANGED <<persistent, sender, link, answers, received, acked, cut>>,
           \A s \in Conns : InLoop(s)' => InLoop(s) /\ wire'[s] = wire[s]
                 /\ \A p : ReadUpTo(s, p) => ReadUpTo(s, p)'
    PROVE  AckInv'
PROOF
<1>1. ASSUME NEW c \in Clients
      PROVE  /\ \A s \in Conns : s \in link'[c] /\ InLoop(s)' =>
                   wire'[s] # <<>> /\ Last(wire'[s]).message = sender'[c].message
             /\ link'[c] # {} /\ ~ Excused(sender[c].message)' => Answered(c)'
  <2>1. link[c] \in SUBSET Conns
    BY SenderTypes
  <2> QED BY <2>1, UnmovedClient
<1>2. \A m \in acked' : m \in received' \/ Excused(m)'
  BY AckedStaysHonest
<1> QED BY <1>1, <1>2 DEF AckInv

\* A handler that leaves its loop.
LEMMA LeaveAcks ==
    ASSUME WireInv, LinkInv, AckInv, NEW s \in Conns, Leave(s),
           UNCHANGED <<persistent, sender, link, answers, received, acked, cut>>
    PROVE  AckInv'
PROOF
<1>1. /\ handler' = [handler EXCEPT ![s] = "closing"] /\ wire' = [wire EXCEPT ![s] = <<>>]
      /\ at' = [at EXCEPT ![s] = 0] /\ from' = [from EXCEPT ![s] = 0]
  BY DEF Leave
<1>2. ~ InLoop(s)'
  BY <1>1 DEF WireInv, InLoop
<1>3. \A r \in Conns \ {s} : /\ handler'[r] = handler[r] /\ wire'[r] = wire[r]
                             /\ at'[r] = at[r] /\ from'[r] = from[r]
  BY <1>1 DEF WireInv
<1>4. \A r \in Conns : InLoop(r)' => InLoop(r) /\ wire'[r] = wire[r]
         /\ \A p : ReadUpTo(r, p) => ReadUpTo(r, p)'
  BY <1>2, <1>3 DEF InLoop, ReadUpTo
<1> QED BY <1>4, LineAcks

\* The frame that is acknowledged to a client which is not excused holds its message.
LEMMA FrameAcks ==
    ASSUME WireInv, LinkInv, AckInv, NEW s \in Conns, handler[s] = "reading",
           NEW e \in Nat, from[s] <= e, e <= Written(s), FrameRead(s, e),
           UNCHANGED <<persistent, sender, link, acked>>
    PROVE  AckInv'
PROOF
<1>1. CASE Leave(s) /\ UNCHANGED <<answers, received, cut>>
  BY <1>1, LeaveAcks
<1>2. CASE /\ ~ EmptyFrame(s, e)
           /\ handler' = [handler EXCEPT ![s] = "draining"] /\ Acknowledge(s)
           /\ received' = received \cup (IF Whole(s, e) THEN {Message(s)} ELSE {})
           /\ cut' = cut \cup (IF Whole(s, e) THEN {} ELSE {Message(s)})
           /\ at' = [at EXCEPT ![s] = e] /\ UNCHANGED <<wire, from>>
  <2>1. from[s] < e
    <3>1. from[s] # e
      BY <1>2 DEF EmptyFrame
    <3> QED BY <3>1, LineTypes
  <2>2. Message(s) \in Messages
    <3>1. from[s] < Written(s)
      BY <2>1, LineTypes
    <3> QED BY <3>1, CurrentIs
  <2>3. received \subseteq received' /\ cut \subseteq cut' /\ received' \subseteq Messages
        /\ cut' \subseteq Messages
    BY <1>2, <2>2 DEF AckInv
  <2>4. \A r \in Conns \ {s} : handler'[r] = handler[r] /\ at'[r] = at[r]
    BY <1>2 DEF WireInv
  <2>5. handler'[s] = "draining" /\ at'[s] = e
    BY <1>2 DEF WireInv
  <2>6. answers' = [c \in Clients |-> IF s \in link[c] THEN answers[c] + 1 ELSE answers[c]]
    BY <1>2 DEF Acknowledge
  <2>7. ASSUME NEW c \in Clients, s \notin link[c]
        PROVE  link'[c] # {} /\ ~ Excused(sender[c].message)' => Answered(c)'
    <3>1. \A r \in link[c] : InLoop(r)' => InLoop(r) /\ wire'[r] = wire[r]
             /\ \A p : ReadUpTo(r, p) => ReadUpTo(r, p)'
      <4>1. \A r \in link[c] : r \in Conns \ {s}
        BY <2>7, SenderTypes
      <4> QED BY <1>2, <2>4, <4>1 DEF InLoop, ReadUpTo
    <3>2. answers'[c] = answers[c]
      BY <2>6, <2>7
    <3> QED BY <2>3, <3>1, <3>2, UnmovedClient
  <2>8. ASSUME NEW c \in Clients, s \in link[c], ~ Excused(sender[c].message)'
        PROVE  Answered(c)'
    <3>1. Answered(c) /\ InLoop(s) /\ wire[s] # <<>> /\ Last(wire[s]).message = sender[c].message
      BY <2>3, <2>8, StaysExcused DEF AckInv, InLoop
    <3> DEFINE p == IF sender[c].pc = "waiting" /\ answers[c] = 0 THEN LastBegins(s) ELSE Written(s)
    <3>2. ReadUpTo(s, p) /\ p \in {LastBegins(s), Written(s)}
      BY <2>8, <3>1 DEF Answered
    <3>3. p = LastBegins(s) /\ Message(s) = sender[c].message
          /\ (Whole(s, e) => e \in {Written(s) - 1, Written(s)})
      <4> HIDE DEF p
      <4> QED BY <1>2, <2>1, <3>1, <3>2, NextFrame
    <3>4. sender[c].pc = "waiting" /\ answers[c] = 0
      BY <3>1, <3>3, LastLies
    <3>5. Whole(s, e)
      <4>1. SUFFICES ASSUME ~ Whole(s, e) PROVE FALSE
        OBVIOUS
      <4>2. sender[c].message \in cut'
        BY <1>2, <3>3, <4>1
      <4> QED BY <2>8, <4>2 DEF Excused
    <3>6. sender[c].message \in received'
      BY <1>2, <3>3, <3>5
    <3>7. answers'[c] = 1
      BY <2>6, <2>8, <3>4
    <3>8. link'[c] = {s}
      <4>1. ClientOK(c)
        BY SenderTypes
      <4> QED BY <2>8, <4>1 DEF ClientOK
    <3>9. ReadUpTo(s, Written(s))'
      <4>1. Written(s)' = Written(s)
        BY <1>2 DEF Written
      <4> QED BY <2>5, <3>3, <3>5, <4>1 DEF ReadUpTo
    <3> QED BY <3>4, <3>6, <3>7, <3>8, <3>9 DEF Answered
  <2>9. \A c \in Clients : link'[c] # {} /\ ~ Excused(sender[c].message)' => Answered(c)'
    BY <2>7, <2>8
  <2>10. \A c \in Clients, r \in Conns :
            r \in link'[c] /\ InLoop(r)' => wire'[r] # <<>> /\ Last(wire'[r]).message = sender'[c].message
    <3>1. \A r \in Conns : InLoop(r)' => InLoop(r)
      BY <2>4 DEF InLoop
    <3> QED BY <1>2, <3>1 DEF AckInv
  <2>11. \A m \in acked' : m \in received' \/ Excused(m)'
    BY <2>3, AckedStaysHonest
  <2> QED BY <2>3, <2>9, <2>10, <2>11 DEF AckInv
<1> QED BY <1>1, <1>2 DEF FrameRead
\* The step of client c, seen from the other clients.
LEMMA OthersAcks ==
    ASSUME LinkInv, AckInv, NEW c \in Clients, UNCHANGED <<persistent, received, cut>>,
           \A d \in Clients : d # c =>
              /\ sender'[d] = sender[d] /\ link'[d] = link[d] /\ answers'[d] = answers[d]
              /\ \A s \in link[d] : InLoop(s)' => InLoop(s) /\ wire'[s] = wire[s]
                    /\ \A p : ReadUpTo(s, p) => ReadUpTo(s, p)',
           \A s \in Conns : s \in link'[c] /\ InLoop(s)' =>
              wire'[s] # <<>> /\ Last(wire'[s]).message = sender'[c].message,
           link'[c] # {} /\ ~ Excused(sender[c].message)' => Answered(c)',
           acked' \subseteq Messages,
           \A m \in acked' : m \in acked \/ m \in received \/ Excused(m)
    PROVE  AckInv'
PROOF
<1>1. ASSUME NEW d \in Clients, d # c
      PROVE  /\ \A s \in Conns : s \in link'[d] /\ InLoop(s)' =>
                   wire'[s] # <<>> /\ Last(wire'[s]).message = sender'[d].message
             /\ link'[d] # {} /\ ~ Excused(sender[d].message)' => Answered(d)'
  BY <1>1, UnmovedClient
<1>2. \A m \in acked' : m \in received' \/ Excused(m)'
  <2>1. ASSUME NEW m \in acked' PROVE m \in received \/ Excused(m)
    BY DEF AckInv
  <2> QED BY <2>1, StaysExcused
<1>3. received' \subseteq Messages /\ cut' \subseteq Messages
  BY DEF AckInv
<1> QED BY <1>1, <1>2, <1>3 DEF AckInv

\* The next message begins where its sender's last one ended, and all of that was read.
LEMMA SendAcks ==
    ASSUME WireInv, LinkInv, AckInv, NEW c \in Clients, Send(c)
    PROVE  AckInv'
PROOF
<1>1. PICK size \in Sizes : LET m == [client |-> c, seq |-> sender[c].message.seq + 1, size |-> size] IN
        /\ sender' = [sender EXCEPT ![c] =
              [pc |-> IF link[c] = {} THEN "connecting" ELSE "waiting", attempt |-> 1, message |-> m]]
        /\ IF \E s \in link[c] : InLoop(s) THEN \E s \in link[c] : Write(s, m) ELSE UNCHANGED wire
  BY DEF Send
<1>2. /\ sender[c].pc = "idle" /\ sender[c].message.seq < MaxSeq
      /\ UNCHANGED <<persistent, link, answers, handler, at, from, received, acked, cut>>
  BY DEF Send, history
<1> DEFINE m == [client |-> c, seq |-> sender[c].message.seq + 1, size |-> size]
<1>3. m \in Messages /\ m.client = c /\ m.seq = sender[c].message.seq + 1
  <2>1. sender[c].message.seq \in Nat /\ MaxSeq \in Nat
    BY SenderTypes, IngestionAssumption DEF IngestionAssumption
  <2>2. sender[c].message.seq + 1 \in 1..MaxSeq
    BY <1>2, <2>1
  <2> QED BY <2>2 DEF Messages
<1>4. sender'[c].message = m /\ sender'[c].pc = (IF link[c] = {} THEN "connecting" ELSE "waiting")
      /\ \A d \in Clients : d # c => sender'[d] = sender[d]
  BY <1>1 DEF LinkInv
<1>5. IF \E s \in link[c] : InLoop(s) THEN \E s \in link[c] : Write(s, m) ELSE UNCHANGED wire
  BY <1>1
<1> HIDE DEF m
<1>6. \A s \in Conns : s \notin link[c] => wire'[s] = wire[s]
  BY <1>5 DEF Write, WireInv
<1>7. \A d \in Clients : d # c =>
              /\ sender'[d] = sender[d] /\ link'[d] = link[d] /\ answers'[d] = answers[d]
              /\ \A s \in link[d] : InLoop(s)' => InLoop(s) /\ wire'[s] = wire[s]
                    /\ \A p : ReadUpTo(s, p) => ReadUpTo(s, p)'
  <2>1. \A d \in Clients : d # c => \A s \in link[d] : s \in Conns /\ s \notin link[c]
    BY DEF LinkInv
  <2> QED BY <1>2, <1>4, <1>6, <2>1 DEF InLoop, ReadUpTo
<1>8. ASSUME NEW s \in link[c], InLoop(s)
      PROVE  /\ s \in Conns /\ link[c] = {s} /\ wire'[s] # <<>> /\ Last(wire'[s]).message = m
             /\ LastBegins(s)' = Written(s)
  <2>1. ClientOK(c)
    BY SenderTypes
  <2>2. s \in Conns /\ link[c] = {s}
    BY <1>8, <2>1 DEF ClientOK
  <2>3. wire[s] \in Seq(Frames) /\ Chained(wire[s]) /\ Written(s) = EndOf(wire[s])
    BY <2>2, LineTypes DEF LineOK
  <2>4. wire'[s] = Append(wire[s], [message |-> m, end |-> EndOf(wire[s]) + m.size + 1])
    BY <1>5, <1>8, <2>2, <2>3 DEF Write, WireInv
  <2>5. /\ wire'[s] # <<>> /\ Len(wire'[s]) = Len(wire[s]) + 1
        /\ Last(wire'[s]) = [message |-> m, end |-> EndOf(wire[s]) + m.size + 1]
        /\ Begins(wire'[s], Len(wire[s]) + 1) = EndOf(wire[s])
    BY <1>3, <2>3, <2>4, AddedToWire
  <2> QED BY <2>2, <2>3, <2>5 DEF LastBegins
<1>9. \A s \in Conns : s \in link'[c] /\ InLoop(s)' =>
              wire'[s] # <<>> /\ Last(wire'[s]).message = sender'[c].message
  BY <1>2, <1>4, <1>8 DEF InLoop
<1>10. ASSUME link'[c] # {}, ~ Excused(sender[c].message)' PROVE Answered(c)'
  <2>1. c \in persistent /\ link[c] # {}
    <3>1. ClientOK(c)
      BY SenderTypes
    <3> QED BY <1>2, <1>10, <3>1 DEF ClientOK
  <2>2. ~ Excused(m)
    BY <1>2, <1>4, <1>10 DEF Excused
  <2>3. ~ Excused(sender[c].message)
    <3>1. SUFFICES ASSUME Excused(sender[c].message) PROVE Excused(m)
      BY <2>2
    <3>2. PICK k \in cut :
             \/ k = sender[c].message
             \/ k.client = sender[c].message.client /\ k.seq < sender[c].message.seq
      BY <3>1 DEF Excused
    <3>3. k \in Messages /\ k.seq \in Nat \ {0} /\ sender[c].message.seq \in Nat
      <4>1. k \in Messages
        BY DEF AckInv
      <4>2. k.seq \in 1..MaxSeq
        BY <4>1 DEF Messages
      <4>3. k.seq \in Nat \ {0}
        BY <4>2, IngestionAssumption DEF IngestionAssumption
      <4> QED BY <4>1, <4>3, SenderTypes
    <3>4. sender[c].message \in Messages
      <4>1. sender[c].message \in Messages \cup {NoMessage}
        BY SenderTypes
      <4>2. NoMessage.seq = 0
        BY DEF NoMessage
      <4> QED BY <3>2, <3>3, <4>1, <4>2
    <3>5. sender[c].message.client = c
      <4>1. ClientOK(c)
        BY SenderTypes
      <4> QED BY <3>4, <4>1 DEF ClientOK
    <3>6. k.client = c /\ k.seq < m.seq
      BY <1>3, <3>2, <3>3, <3>5
    <3> QED BY <1>3, <2>1, <3>6 DEF Excused
  <2>4. Answered(c)
    BY <2>1, <2>3 DEF AckInv
  <2>5. answers'[c] = 0 /\ sender'[c].pc = "waiting"
    BY <1>2, <1>4, <2>1, <2>4 DEF Answered
  <2>6. ASSUME NEW s \in link'[c], InLoop(s)' PROVE ReadUpTo(s, LastBegins(s))'
    <3>1. s \in link[c] /\ InLoop(s)
      BY <1>2, <2>6 DEF InLoop
    <3>2. ReadUpTo(s, Written(s))
      BY <1>2, <2>4, <3>1 DEF Answered
    <3>3. LastBegins(s)' = Written(s)
      BY <1>8, <3>1
    <3> QED BY <1>2, <3>2, <3>3 DEF ReadUpTo
  <2> QED BY <2>5, <2>6 DEF Answered
<1>11. acked' \subseteq Messages /\ \A k \in acked' : k \in acked
  BY <1>2 DEF AckInv
<1> QED BY <1>2, <1>7, <1>9, <1>10, <1>11, OthersAcks
\* A new connection carries the message and has no ACKs.
LEMMA ConnectAcks ==
    ASSUME WireInv, LinkInv, AckInv, NEW c \in Clients, NEW s \in Conns, Connects(c, s)
    PROVE  AckInv'
PROOF
<1> DEFINE m == sender[c].message
<1>1. /\ sender[c].pc = "connecting" /\ handler[s] = "free" /\ \A d \in Clients : s \notin link[d]
      /\ sender' = [sender EXCEPT ![c].pc = "waiting"] /\ link' = [link EXCEPT ![c] = {s}]
      /\ handler' = [handler EXCEPT ![s] = "reading"] /\ Write(s, m)
      /\ UNCHANGED <<persistent, answers, at, from, received, acked, cut>>
  BY DEF Connects, history
<1>2. m \in Messages /\ answers[c] = 0 /\ link[c] \in SUBSET Conns
  <2>1. ClientOK(c) /\ link[c] \in SUBSET Conns
    BY SenderTypes
  <2> QED BY <1>1, <2>1 DEF ClientOK
<1>3. /\ sender'[c].pc = "waiting" /\ sender'[c].message = m /\ link'[c] = {s}
      /\ \A d \in Clients : d # c => sender'[d] = sender[d] /\ link'[d] = link[d]
  BY <1>1 DEF LinkInv
<1>4. Chained(wire[s]) /\ wire[s] \in Seq(Frames) /\ Written(s) = EndOf(wire[s])
  BY LineTypes DEF LineOK
<1>13. wire[s] = <<>> /\ from[s] = 0
  BY <1>1, LineTypes DEF LineOK, Loop
<1> HIDE DEF m
<1>5. wire'[s] = Append(wire[s], [message |-> m, end |-> EndOf(wire[s]) + m.size + 1])
  BY <1>1, <1>4 DEF Write, WireInv
<1>6. /\ wire'[s] # <<>> /\ Len(wire'[s]) = Len(wire[s]) + 1
      /\ Last(wire'[s]) = [message |-> m, end |-> EndOf(wire[s]) + m.size + 1]
      /\ Begins(wire'[s], Len(wire[s]) + 1) = EndOf(wire[s])
  BY <1>2, <1>4, <1>5, AddedToWire
<1>7. LastBegins(s)' = 0 /\ handler'[s] = "reading" /\ from'[s] = 0
  BY <1>1, <1>6, <1>13 DEF LastBegins, EndOf, WireInv
<1>8. Answered(c)'
  <2>1. ReadUpTo(s, LastBegins(s))'
    BY <1>7 DEF ReadUpTo
  <2>2. answers'[c] = 0
    BY <1>1, <1>2
  <2> QED BY <1>3, <2>1, <2>2 DEF Answered
<1>9. \A r \in Conns : r \in link'[c] /\ InLoop(r)' =>
              wire'[r] # <<>> /\ Last(wire'[r]).message = sender'[c].message
  BY <1>3, <1>6
<1>10. \A r \in Conns \ {s} : wire'[r] = wire[r] /\ handler'[r] = handler[r]
  BY <1>1 DEF Write, WireInv
<1>11. \A d \in Clients : d # c =>
              /\ sender'[d] = sender[d] /\ link'[d] = link[d] /\ answers'[d] = answers[d]
              /\ \A r \in link[d] : InLoop(r)' => InLoop(r) /\ wire'[r] = wire[r]
                    /\ \A p : ReadUpTo(r, p) => ReadUpTo(r, p)'
  <2>1. \A d \in Clients : \A r \in link[d] : r \in Conns \ {s}
    BY <1>1 DEF LinkInv
  <2> QED BY <1>1, <1>3, <1>10, <2>1 DEF InLoop, ReadUpTo
<1>12. acked' \subseteq Messages /\ \A k \in acked' : k \in acked
  BY <1>1 DEF AckInv
<1> QED BY <1>1, <1>8, <1>9, <1>11, <1>12, OthersAcks

\* A client that hangs up has no connection.
LEMMA HangUpAcks ==
    ASSUME LinkInv, AckInv, NEW c \in Clients, HangUp(c),
           UNCHANGED <<persistent, received, cut, handler, wire, at, from>>,
           \A d \in Clients : d # c => sender'[d] = sender[d],
           acked' \subseteq Messages,
           \A m \in acked' : m \in acked \/ m \in received \/ Excused(m)
    PROVE  AckInv'
PROOF
<1>1. link'[c] = {} /\ \A d \in Clients : d # c => link'[d] = link[d] /\ answers'[d] = answers[d]
  BY DEF HangUp, LinkInv
<1>2. \A d \in Clients : d # c =>
              /\ sender'[d] = sender[d] /\ link'[d] = link[d] /\ answers'[d] = answers[d]
              /\ \A s \in link[d] : InLoop(s)' => InLoop(s) /\ wire'[s] = wire[s]
                    /\ \A p : ReadUpTo(s, p) => ReadUpTo(s, p)'
  BY <1>1 DEF InLoop, ReadUpTo
<1> QED BY <1>1, <1>2, OthersAcks

\* The message whose ACK is read was received, or its sender is excused.
LEMMA ReadingAcks ==
    ASSUME LinkInv, AckInv, NEW c \in Clients, GetsAck(c)
    PROVE  AckInv'
PROOF
<1> DEFINE m == sender[c].message
<1>1. /\ sender[c].pc = "waiting" /\ answers[c] > 0
      /\ sender' = [sender EXCEPT ![c].pc = "idle"] /\ acked' = acked \cup {m}
      /\ IF c \in persistent THEN answers' = [answers EXCEPT ![c] = answers[c] - 1] /\ UNCHANGED link
                             ELSE HangUp(c)
      /\ UNCHANGED <<persistent, handler, wire, at, from, received, cut>>
  BY DEF GetsAck, reading
<1>2. m \in Messages /\ link[c] # {} /\ answers[c] \in Nat
  <2>1. ClientOK(c) /\ answers[c] \in Nat
    BY SenderTypes
  <2> QED BY <1>1, <2>1 DEF ClientOK
<1>3. sender'[c].pc = "idle" /\ sender'[c].message = m /\ \A d \in Clients : d # c => sender'[d] = sender[d]
  BY <1>1 DEF LinkInv
<1>4. ~ Excused(m) => Answered(c) /\ answers[c] = 1 /\ m \in received
  <2>1. ~ Excused(m) => Answered(c)
    BY <1>2 DEF AckInv
  <2> QED BY <1>1, <2>1 DEF Answered
<1>5. acked' \subseteq Messages /\ \A k \in acked' : k \in acked \/ k \in received \/ Excused(k)
  <2>1. acked' \subseteq Messages
    BY <1>1, <1>2 DEF AckInv
  <2>2. m \in received \/ Excused(m)
    BY <1>4
  <2> HIDE DEF m
  <2> QED BY <1>1, <2>1, <2>2
<1>6. CASE c \in persistent
  <2>1. answers'[c] = answers[c] - 1 /\ UNCHANGED link /\ \A d \in Clients : d # c => answers'[d] = answers[d]
    BY <1>1, <1>6 DEF LinkInv
  <2>2. ASSUME ~ Excused(sender[c].message)' PROVE Answered(c)'
    <3>1. Answered(c) /\ answers[c] = 1
      BY <1>1, <1>3, <1>4, <2>2 DEF Excused
    <3>2. answers'[c] = 0
      BY <2>1, <3>1
    <3>3. ASSUME NEW s \in link'[c], InLoop(s)' PROVE ReadUpTo(s, Written(s))'
      <4>1. ReadUpTo(s, Written(s))
        BY <1>1, <2>1, <3>1, <3>3 DEF Answered, InLoop
      <4> QED BY <1>1, <4>1 DEF ReadUpTo, Written
    <3> QED BY <1>3, <3>2, <3>3 DEF Answered
  <2>3. \A s \in Conns : s \in link'[c] /\ InLoop(s)' =>
              wire'[s] # <<>> /\ Last(wire'[s]).message = sender'[c].message
    BY <1>1, <1>3, <2>1 DEF AckInv, InLoop
  <2>4. \A d \in Clients : d # c =>
              /\ sender'[d] = sender[d] /\ link'[d] = link[d] /\ answers'[d] = answers[d]
              /\ \A s \in link[d] : InLoop(s)' => InLoop(s) /\ wire'[s] = wire[s]
                    /\ \A p : ReadUpTo(s, p) => ReadUpTo(s, p)'
    BY <1>1, <1>3, <2>1 DEF InLoop, ReadUpTo
  <2> QED BY <1>1, <1>5, <2>2, <2>3, <2>4, OthersAcks
<1>7. CASE c \notin persistent
  BY <1>1, <1>3, <1>5, <1>7, HangUpAcks
<1> QED BY <1>6, <1>7

LEMMA AckStep ==
    ASSUME WireInv, LinkInv, AckInv, [Next]_vars
    PROVE  AckInv'
PROOF
<1>1. ASSUME UNCHANGED <<persistent, sender, link, answers, received, acked, cut>>,
             UNCHANGED <<handler, wire, at, from>>
      PROVE  AckInv'
  BY <1>1, LineAcks DEF InLoop, ReadUpTo
<1>2. ASSUME NEW s \in Conns, Chunk(s) PROVE AckInv'
  <2>1. PICK n \in 1..ReadSize :
          /\ at[s] + n <= Written(s)
          /\ \/ FrameRead(s, at[s] + n)
             \/ /\ at' = [at EXCEPT ![s] = at[s] + n]
                /\ UNCHANGED <<handler, wire, from, answers, received, cut>>
    BY <1>2 DEF Chunk
  <2>2. handler[s] = "reading" /\ UNCHANGED <<persistent, sender, link, acked>>
    BY <1>2 DEF Chunk
  <2>3. CASE /\ at' = [at EXCEPT ![s] = at[s] + n]
             /\ UNCHANGED <<handler, wire, from, answers, received, cut>>
    <3>1. \A r \in Conns : InLoop(r)' => InLoop(r) /\ wire'[r] = wire[r]
             /\ \A p : ReadUpTo(r, p) => ReadUpTo(r, p)'
      <4>1. \A r \in Conns : handler[r] = "draining" => at'[r] = at[r]
        BY <2>2, <2>3 DEF WireInv
      <4> QED BY <2>3, <4>1 DEF InLoop, ReadUpTo
    <3> QED BY <2>2, <2>3, <3>1, LineAcks
  <2>4. CASE FrameRead(s, at[s] + n)
    <3> DEFINE e == at[s] + n
    <3>1. FrameRead(s, e) /\ e <= Written(s)
      BY <2>1, <2>4
    <3>2. e \in Nat /\ from[s] <= e
      BY LineTypes, IngestionAssumption DEF LineOK, IngestionAssumption
    <3> HIDE DEF e
    <3> QED BY <2>2, <3>1, <3>2, FrameAcks
  <2> QED BY <2>1, <2>3, <2>4
<1>3. ASSUME NEW s \in Conns, Quiet(s) PROVE AckInv'
  <2>1. handler[s] = "reading" /\ FrameRead(s, at[s]) /\ UNCHANGED <<persistent, sender, link, acked>>
    BY <1>3 DEF Quiet
  <2>2. at[s] \in Nat /\ from[s] <= at[s] /\ at[s] <= Written(s)
    BY LineTypes DEF LineOK
  <2> QED BY <2>1, <2>2, FrameAcks
<1>4. ASSUME NEW s \in Conns, Broken(s) PROVE AckInv'
  BY <1>4, LeaveAcks DEF Broken, history
<1>5. ASSUME NEW s \in Conns, Drained(s) PROVE AckInv'
  <2>1. /\ handler[s] = "draining" /\ handler' = [handler EXCEPT ![s] = "reading"]
        /\ from' = [from EXCEPT ![s] = at[s]]
        /\ UNCHANGED <<persistent, sender, link, answers, wire, at, received, acked, cut>>
    BY <1>5 DEF Drained
  <2>2. handler'[s] = "reading" /\ from'[s] = at[s]
        /\ \A r \in Conns \ {s} : handler'[r] = handler[r] /\ from'[r] = from[r]
    BY <2>1 DEF WireInv
  <2>3. \A r \in Conns : InLoop(r)' => InLoop(r) /\ wire'[r] = wire[r]
           /\ \A p : ReadUpTo(r, p) => ReadUpTo(r, p)'
    BY <2>1, <2>2 DEF InLoop, ReadUpTo
  <2> QED BY <2>1, <2>3, LineAcks
<1>6. ASSUME NEW s \in Conns, Closed(s) PROVE AckInv'
  <2>1. /\ handler[s] = "closing" /\ handler' = [handler EXCEPT ![s] = "free"]
        /\ UNCHANGED <<persistent, sender, link, answers, wire, at, from, received, acked, cut>>
    BY <1>6 DEF Closed, history
  <2>2. handler'[s] = "free" /\ \A r \in Conns \ {s} : handler'[r] = handler[r]
    BY <2>1 DEF WireInv
  <2>3. \A r \in Conns : InLoop(r)' => InLoop(r) /\ wire'[r] = wire[r]
           /\ \A p : ReadUpTo(r, p) => ReadUpTo(r, p)'
    BY <2>1, <2>2 DEF InLoop, ReadUpTo
  <2> QED BY <2>1, <2>3, LineAcks
<1>7. CASE GatewayResets
  <2>1. /\ handler' = [s \in Conns |-> "free"]
        /\ UNCHANGED <<persistent, sender, link, answers, received, acked, cut>>
    BY <1>7 DEF GatewayResets
  <2>2. \A r \in Conns : ~ InLoop(r)'
    BY <2>1 DEF InLoop
  <2> QED BY <2>1, <2>2, LineAcks
<1>8. ASSUME NEW c \in Clients, AttemptFails(c) PROVE AckInv'
  <2>1. HangUp(c) /\ UNCHANGED <<persistent, received, cut, acked, handler, wire, at, from>>
        /\ \A d \in Clients : d # c => sender'[d] = sender[d]
    BY <1>8 DEF AttemptFails, reading, history, LinkInv
  <2> QED BY <2>1, HangUpAcks DEF AckInv
<1>9. ASSUME NEW c \in Clients, Finishes(c) PROVE AckInv'
  <2>1. HangUp(c) /\ UNCHANGED <<persistent, received, cut, acked, handler, wire, at, from>>
        /\ \A d \in Clients : d # c => sender'[d] = sender[d]
    BY <1>9 DEF Finishes, reading, history
  <2> QED BY <2>1, HangUpAcks DEF AckInv
<1>10. CASE Tick
  BY <1>1, <1>10 DEF Tick, reading, history
<1>11. CASE UNCHANGED vars
  BY <1>1, <1>11 DEF vars, reading, history
<1> QED
  BY <1>2, <1>3, <1>4, <1>5, <1>6, <1>7, <1>8, <1>9, <1>10, <1>11, SendAcks, ConnectAcks, ReadingAcks
     DEF Next, Client, Handle

LEMMA AckInit == Init => AckInv
  BY DEF Init, AckInv
-----------------------------------------------------------------------------
(* The copies. *)

\* The copies of m of which no frame has been taken yet.
Pending(m) ==
    {p \in Conns \X Nat :
        /\ p[2] \in 1..Len(wire[p[1]]) /\ wire[p[1]][p[2]].message = m
        /\ Begins(wire[p[1]], p[2]) >= from[p[1]]}

\* How often m can have been written to a wire.
Budget(m) ==
    LET sent == sender[m.client]
    IN  IF m.seq > sent.message.seq THEN 0
        ELSE IF m # sent.message THEN Attempts(m.client)
        ELSE IF sent.pc = "connecting" THEN sent.attempt - 1 ELSE sent.attempt

\* Every attempt makes one copy at most, and every copy is taken once at most.
CopyInv ==
    /\ taken \in [Messages -> Nat]
    /\ \A m \in Messages : IsFiniteSet(Pending(m)) /\ taken[m] + Cardinality(Pending(m)) <= Budget(m)

LEMMA BudgetType ==
    ASSUME LinkInv, NEW m \in Messages
    PROVE  Budget(m) \in Nat /\ Budget(m) <= Attempts(m.client) /\ m.client \in Clients
PROOF
<1>1. m.client \in Clients
  BY DEF Messages
<1>2. ClientOK(m.client) /\ sender[m.client].attempt \in Nat
  BY <1>1, SenderTypes
<1> QED BY <1>1, <1>2 DEF Budget, ClientOK, Attempts

\* The new budget of m covers its copies if it covers those it had.
LEMMA CopyShrinks ==
    ASSUME LinkInv, CopyInv, NEW m \in Messages, taken'[m] = taken[m], Pending(m)' \subseteq Pending(m),
           Budget(m)' \in Nat, Budget(m) <= Budget(m)'
    PROVE  IsFiniteSet(Pending(m)') /\ taken'[m] + Cardinality(Pending(m)') <= Budget(m)'
PROOF
<1>1. IsFiniteSet(Pending(m)) /\ taken[m] + Cardinality(Pending(m)) <= Budget(m) /\ taken[m] \in Nat
  BY DEF CopyInv
<1> DEFINE S == Pending(m)
           T == Pending(m)'
<1> HIDE DEF S, T
<1>2. IsFiniteSet(T) /\ Cardinality(T) \in Nat /\ Cardinality(S) \in Nat /\ Cardinality(T) <= Cardinality(S)
  <2>1. T \subseteq S /\ IsFiniteSet(S)
    BY <1>1 DEF S, T
  <2> QED BY <2>1, FS_Subset, FS_CardinalityType
<1>3. Budget(m) \in Nat
  BY BudgetType
<1> QED BY <1>1, <1>2, <1>3 DEF S, T

\* Nothing is written and nothing is taken.
LEMMA LinesShrink ==
    ASSUME WireInv, LinkInv, CopyInv, UNCHANGED taken,
           \A m \in Messages : Budget(m)' \in Nat /\ Budget(m) <= Budget(m)',
           \A s \in Conns : wire'[s] = <<>> \/ (wire'[s] = wire[s] /\ from'[s] = from[s])
    PROVE  CopyInv'
PROOF
<1>1. ASSUME NEW m \in Messages PROVE Pending(m)' \subseteq Pending(m)
  BY DEF Pending, Begins
<1> QED BY <1>1, CopyShrinks DEF CopyInv

\* A copy is written, and the budget of its message allows for one more.
LEMMA CopyAdded ==
    ASSUME WireInv, WireInv', LinkInv, CopyInv, UNCHANGED <<taken, from>>,
           NEW s \in Conns, NEW m \in Messages, Write(s, m),
           \A k \in Messages : Budget(k)' \in Nat /\ Budget(k) <= Budget(k)',
           Budget(m) + 1 <= Budget(m)'
    PROVE  CopyInv'
PROOF
<1> DEFINE n == Len(wire[s]) + 1
           f == [message |-> m, end |-> Written(s) + m.size + 1]
<1>1. wire[s] \in Seq(Frames) /\ wire' = [wire EXCEPT ![s] = Append(wire[s], f)] /\ Chained(wire[s])
      /\ Written(s) = EndOf(wire[s])
  BY LineTypes DEF Write, WireInv, LineOK
<1>2. /\ Len(wire'[s]) = n /\ wire'[s][n].message = m /\ Len(wire[s]) \in Nat
      /\ \A i \in 1..Len(wire[s]) : wire'[s][i] = wire[s][i]
  <2>1. wire'[s] = Append(wire[s], f)
    BY <1>1 DEF WireInv
  <2>2. f.message = m /\ f = [message |-> m, end |-> EndOf(wire[s]) + m.size + 1]
    BY <1>1
  <2> HIDE DEF f
  <2> QED BY <1>1, <2>1, <2>2, AddedToWire
<1>3. \A r \in Conns \ {s} : wire'[r] = wire[r]
  BY <1>1 DEF WireInv
<1> HIDE DEF f, n
<1>4. \A i \in 1..n : i \in 1..Len(wire[s]) \/ i = n
  BY <1>2 DEF n
<1>5. ASSUME NEW k \in Messages PROVE Pending(k)' \subseteq Pending(k) \cup {<<s, n>>}
  BY <1>2, <1>3, <1>4 DEF Pending, Begins
<1>6. ASSUME NEW k \in Messages, k # m PROVE Pending(k)' \subseteq Pending(k)
  BY <1>2, <1>3, <1>4, <1>6 DEF Pending, Begins
<1>7. ASSUME NEW k \in Messages, k # m
      PROVE  IsFiniteSet(Pending(k)') /\ taken'[k] + Cardinality(Pending(k)') <= Budget(k)'
  BY <1>6, <1>7, CopyShrinks
<1>8. IsFiniteSet(Pending(m)') /\ taken'[m] + Cardinality(Pending(m)') <= Budget(m)'
  <2> DEFINE S == Pending(m)
             T == Pending(m)'
             U == S \cup {<<s, n>>}
  <2>1. IsFiniteSet(S) /\ taken[m] + Cardinality(S) <= Budget(m) /\ taken[m] \in Nat /\ taken'[m] = taken[m]
    BY DEF CopyInv
  <2>2. Budget(m) \in Nat
    BY BudgetType
  <2>3. T \subseteq U
    BY <1>5
  <2> HIDE DEF S, T
  <2>4. IsFiniteSet(U) /\ Cardinality(U) <= Cardinality(S) + 1 /\ Cardinality(S) \in Nat /\ Cardinality(U) \in Nat
    <3>1. IsFiniteSet(U) /\ Cardinality(U) = IF <<s, n>> \in S THEN Cardinality(S) ELSE Cardinality(S) + 1
      BY <2>1, FS_AddElement
    <3> QED BY <2>1, <3>1, FS_CardinalityType
  <2> HIDE DEF U
  <2>5. IsFiniteSet(T) /\ Cardinality(T) <= Cardinality(U) /\ Cardinality(T) \in Nat
    BY <2>3, <2>4, FS_Subset, FS_CardinalityType
  <2>6. taken'[m] + Cardinality(T) <= Budget(m)'
    BY <2>1, <2>2, <2>4, <2>5
  <2> QED BY <2>5, <2>6 DEF T
<1>9. taken' \in [Messages -> Nat]
  BY DEF CopyInv
<1> QED BY <1>7, <1>8, <1>9 DEF CopyInv

\* A packet is taken: the copy it came from is pending no more.
LEMMA CopyTaken ==
    ASSUME WireInv, LinkInv, CopyInv, NEW s \in Conns, Drained(s)
    PROVE  CopyInv'
PROOF
<1>1. /\ handler[s] = "draining" /\ from' = [from EXCEPT ![s] = at[s]]
      /\ taken' = [taken EXCEPT ![Message(s)] = taken[Message(s)] + (IF Whole(s, at[s]) THEN 1 ELSE 0)]
      /\ UNCHANGED <<sender, persistent, wire>>
  BY DEF Drained
<1>2. /\ at[s] \in Nat /\ from[s] \in Nat /\ from[s] < at[s] /\ at[s] <= Written(s) /\ Written(s) \in Nat
      /\ wire[s] \in Seq(Frames)
  BY <1>1, LineTypes DEF LineOK
<1>3. from[s] < Written(s)
  BY <1>2
<1>4. Message(s) \in Messages /\ \E i \in 1..Len(wire[s]) : Current(s) = wire[s][i]
  BY <1>3, CurrentIs
<1>5. from'[s] = at[s] /\ \A r \in Conns \ {s} : from'[r] = from[r]
  BY <1>1 DEF WireInv
<1>6. \A r \in Conns : \A i \in 1..Len(wire[r]) : Begins(wire[r], i) \in Int
  <2> TAKE r \in Conns
  <2> TAKE i \in 1..Len(wire[r])
  <2>1. wire[r] \in Seq(Frames)
    BY LineTypes
  <2>2. wire[r][i].end \in Nat /\ wire[r][i].message.size \in Nat \ {0}
    BY <2>1, EndIs
  <2> QED BY <2>2 DEF Begins
<1>7. ASSUME NEW m \in Messages PROVE Pending(m)' \subseteq Pending(m)
  <2>1. \A r \in Conns : from[r] \in Nat /\ from'[r] \in Nat /\ from[r] <= from'[r]
    <3>1. \A r \in Conns : from[r] \in Nat
      BY LineTypes
    <3> TAKE r \in Conns
    <3>2. CASE r = s
      BY <3>2, <1>2, <1>5
    <3>3. CASE r # s
      BY <3>1, <3>3, <1>5
    <3> QED BY <3>2, <3>3
  <2> QED BY <1>1, <1>6, <2>1 DEF Pending
<1>8. \A m \in Messages : Budget(m)' = Budget(m) /\ Budget(m) \in Nat
  BY <1>1, BudgetType DEF Budget, Attempts
<1>9. taken' \in [Messages -> Nat] /\ taken \in [Messages -> Nat]
  BY <1>1, <1>4 DEF CopyInv
<1>10. ASSUME NEW m \in Messages, taken'[m] = taken[m]
       PROVE  IsFiniteSet(Pending(m)') /\ taken'[m] + Cardinality(Pending(m)') <= Budget(m)'
  BY <1>7, <1>8, <1>10, CopyShrinks
<1>11. ASSUME NEW m \in Messages, m = Message(s), Whole(s, at[s])
       PROVE  IsFiniteSet(Pending(m)') /\ taken'[m] + Cardinality(Pending(m)') <= Budget(m)'
  <2> DEFINE S == Pending(m)
             T == Pending(m)'
  <2>1. PICK i \in 1..Len(wire[s]) : Current(s) = wire[s][i]
    BY <1>4
  <2>2. Begins(wire[s], i) = from[s] /\ wire[s][i].message = m
    BY <1>2, <1>11, <2>1, FrameIs DEF Message, Begins
  <2>3. i \in Nat
    BY <1>2, <2>1
  <2>4. <<s, i>> \in S /\ <<s, i>> \notin T
    BY <1>1, <1>2, <1>5, <2>1, <2>2, <2>3 DEF Pending
  <2>5. T \subseteq S \ {<<s, i>>}
    BY <2>4, <1>7
  <2>6. IsFiniteSet(S) /\ taken[m] + Cardinality(S) <= Budget(m) /\ taken[m] \in Nat
    BY DEF CopyInv
  <2>7. taken'[m] = taken[m] + 1
    BY <1>1, <1>9, <1>11
  <2> HIDE DEF S, T
  <2>8. /\ IsFiniteSet(S \ {<<s, i>>}) /\ Cardinality(S \ {<<s, i>>}) = Cardinality(S) - 1
        /\ Cardinality(S) \in Nat /\ Cardinality(S \ {<<s, i>>}) \in Nat
    <3>1. IsFiniteSet(S \ {<<s, i>>}) /\ Cardinality(S \ {<<s, i>>}) = Cardinality(S) - 1
      BY <2>4, <2>6, FS_RemoveElement
    <3> QED BY <2>6, <3>1, FS_CardinalityType
  <2>9. IsFiniteSet(T) /\ Cardinality(T) \in Nat /\ Cardinality(T) <= Cardinality(S \ {<<s, i>>})
    BY <2>5, <2>8, FS_Subset, FS_CardinalityType
  <2>10. taken'[m] + Cardinality(T) <= Budget(m)'
    BY <1>8, <2>6, <2>7, <2>8, <2>9
  <2> QED BY <2>9, <2>10 DEF T
<1>12. \A m \in Messages : taken'[m] = taken[m] \/ (m = Message(s) /\ Whole(s, at[s]))
  BY <1>1, <1>9
<1> QED BY <1>9, <1>10, <1>11, <1>12 DEF CopyInv

\* A sender that goes on with its message keeps the budget of every message.
LEMMA SameBudget ==
    ASSUME LinkInv, NEW c \in Clients, UNCHANGED persistent,
           \A d \in Clients : d # c => sender'[d] = sender[d],
           sender'[c].message = sender[c].message, sender'[c].attempt \in Nat,
           sender'[c].pc = "connecting" => sender'[c].attempt >= 1,
           \/ sender'[c].pc # "connecting" /\ sender'[c].attempt = sender[c].attempt
           \/ sender'[c].pc = "connecting" /\ sender'[c].attempt = sender[c].attempt + 1
    PROVE  \A m \in Messages : Budget(m)' \in Nat /\ Budget(m) <= Budget(m)'
PROOF
<1> TAKE m \in Messages
<1>1. Budget(m) \in Nat /\ m.client \in Clients
  BY BudgetType
<1>2. CASE m.client # c
  BY <1>1, <1>2 DEF Budget, Attempts
<1>3. CASE m.client = c
  <2>1. sender[c].attempt \in Nat
    BY SenderTypes
  <2> QED BY <1>3, <2>1 DEF Budget, Attempts
<1> QED BY <1>2, <1>3

\* A new message gets the budget that its sender's stage gives it; the last one, what it may get.
LEMMA SendBudget ==
    ASSUME LinkInv, NEW c \in Clients, Send(c)
    PROVE  \E m \in Messages :
              /\ Budget(m) = 0 /\ (link[c] # {} => Budget(m)' = 1)
              /\ \A k \in Messages : Budget(k)' \in Nat /\ Budget(k) <= Budget(k)'
              /\ IF \E s \in link[c] : InLoop(s) THEN \E s \in link[c] : Write(s, m) ELSE UNCHANGED wire
PROOF
<1>1. PICK size \in Sizes :
        LET m == [client |-> c, seq |-> sender[c].message.seq + 1, size |-> size] IN
        /\ sender' = [sender EXCEPT ![c] =
               [pc |-> IF link[c] = {} THEN "connecting" ELSE "waiting", attempt |-> 1, message |-> m]]
        /\ IF \E s \in link[c] : InLoop(s) THEN \E s \in link[c] : Write(s, m) ELSE UNCHANGED wire
  BY DEF Send
<1>2. sender[c].message.seq < MaxSeq /\ UNCHANGED persistent
  BY DEF Send
<1> DEFINE old == sender[c].message
<1>3. old.seq \in Nat /\ MaxSeq \in Nat
  BY SenderTypes, IngestionAssumption DEF IngestionAssumption
<1>4. PICK m \in Messages : m = [client |-> c, seq |-> old.seq + 1, size |-> size]
  <2>1. old.seq + 1 \in 1..MaxSeq
    BY <1>2, <1>3
  <2> QED BY <2>1 DEF Messages
<1>5. m.client = c /\ m.seq = old.seq + 1
  BY <1>4
<1> DEFINE b == [pc |-> IF link[c] = {} THEN "connecting" ELSE "waiting", attempt |-> 1, message |-> m]
<1>6. \A d \in Clients : sender'[d] = IF d = c THEN b ELSE sender[d]
  BY <1>1, <1>4 DEF LinkInv
<1>7. b.pc = (IF link[c] = {} THEN "connecting" ELSE "waiting") /\ b.attempt = 1 /\ b.message = m
  OBVIOUS
<1> HIDE DEF b
<1>8. Budget(m) = 0 /\ (link[c] # {} => Budget(m)' = 1)
  <2>1. sender[m.client] = sender[c] /\ m.seq > sender[m.client].message.seq
    BY <1>3, <1>5
  <2>2. sender'[m.client] = b /\ ~ (m.seq > m.seq)
    BY <1>3, <1>5, <1>6
  <2> QED BY <1>7, <2>1, <2>2 DEF Budget
<1>9. ASSUME NEW k \in Messages PROVE Budget(k)' \in Nat /\ Budget(k) <= Budget(k)'
  <2>1. Budget(k) \in Nat /\ Budget(k) <= Attempts(k.client) /\ k.client \in Clients /\ k.seq \in Nat
    <3>1. k.seq \in Nat
      BY <1>3 DEF Messages
    <3> QED BY <3>1, BudgetType
  <2>2. CASE k.client # c
    BY <1>2, <1>6, <2>1, <2>2 DEF Budget, Attempts
  <2>3. CASE k.client = c
    <3>1. Attempts(c)' = Attempts(c) /\ Attempts(c) \in Nat
      BY <1>2 DEF Attempts
    <3>2. sender'[k.client] = b
      BY <1>6, <2>3
    <3>3. CASE k.seq > old.seq
      <4>1. Budget(k) = 0
        BY <2>3, <3>3 DEF Budget
      <4>2. Budget(k)' \in Nat
        BY <1>7, <2>3, <3>1, <3>2 DEF Budget
      <4> QED BY <4>1, <4>2
    <3>4. CASE ~ (k.seq > old.seq)
      <4>1. ~ (k.seq > m.seq) /\ k # m
        BY <1>3, <1>5, <2>1, <3>4
      <4>2. Budget(k)' = Attempts(c)'
        BY <1>7, <2>3, <3>2, <4>1 DEF Budget
      <4> QED BY <2>1, <2>3, <3>1, <4>2
    <3> QED BY <3>3, <3>4
  <2> QED BY <2>2, <2>3
<1> QED BY <1>1, <1>4, <1>8, <1>9

LEMMA SendCopies ==
    ASSUME WireInv, WireInv', LinkInv, CopyInv, NEW c \in Clients, Send(c)
    PROVE  CopyInv'
PROOF
<1>1. PICK m \in Messages :
        /\ Budget(m) = 0 /\ (link[c] # {} => Budget(m)' = 1)
        /\ \A k \in Messages : Budget(k)' \in Nat /\ Budget(k) <= Budget(k)'
        /\ IF \E s \in link[c] : InLoop(s) THEN \E s \in link[c] : Write(s, m) ELSE UNCHANGED wire
  BY SendBudget
<1>2. UNCHANGED <<taken, from>>
  BY DEF Send, history
<1>3. CASE \E s \in link[c] : InLoop(s)
  <2>1. PICK s \in link[c] : Write(s, m)
    BY <1>1, <1>3
  <2>2. s \in Conns /\ Budget(m) + 1 <= Budget(m)'
    <3>1. link[c] \in SUBSET Conns
      BY SenderTypes
    <3>2. Budget(m) = 0 /\ Budget(m)' = 1
      BY <1>1, <1>3
    <3> QED BY <3>1, <3>2
  <2> QED BY <1>1, <1>2, <2>1, <2>2, CopyAdded
<1>4. CASE ~ \E s \in link[c] : InLoop(s)
  <2>1. UNCHANGED wire
    BY <1>1, <1>4
  <2> QED BY <1>1, <1>2, <2>1, LinesShrink
<1> QED BY <1>3, <1>4

\* What is written to a new connection is what its attempt allows for.
LEMMA ConnectCopies ==
    ASSUME WireInv, WireInv', LinkInv, CopyInv, NEW c \in Clients, NEW s \in Conns, Connects(c, s)
    PROVE  CopyInv'
PROOF
<1>1. /\ sender[c].pc = "connecting" /\ sender' = [sender EXCEPT ![c].pc = "waiting"]
      /\ Write(s, sender[c].message) /\ UNCHANGED <<persistent, taken, from>>
  BY DEF Connects, history
<1>2. /\ sender[c] \in [pc : Stages, attempt : Nat, message : Messages \cup {NoMessage}]
      /\ ClientOK(c) /\ sender[c].attempt \in Nat /\ sender[c].message.seq \in Nat
  BY SenderTypes
<1>3. PICK m \in Messages : m = sender[c].message /\ m.client = c /\ m.seq \in Nat
  BY <1>1, <1>2 DEF ClientOK
<1>4. /\ sender'[c].pc = "waiting" /\ sender'[c].message = m /\ sender'[c].attempt = sender[c].attempt
      /\ \A d \in Clients : d # c => sender'[d] = sender[d]
  BY <1>1, <1>2, <1>3 DEF LinkInv
<1>5. \A k \in Messages : Budget(k)' \in Nat /\ Budget(k) <= Budget(k)'
  BY <1>1, <1>2, <1>3, <1>4, SameBudget
<1>6. Budget(m) = sender[c].attempt - 1 /\ Budget(m)' = sender[c].attempt
  <2>1. ~ (m.seq > m.seq)
    BY <1>3
  <2> QED BY <1>1, <1>3, <1>4, <2>1 DEF Budget
<1>7. Budget(m) + 1 <= Budget(m)'
  BY <1>2, <1>6
<1> QED BY <1>1, <1>3, <1>5, <1>7, CopyAdded

\* A call that ends or goes on writes nothing by itself.
LEMMA CallCopies ==
    ASSUME WireInv, LinkInv, CopyInv, NEW c \in Clients, GetsAck(c) \/ AttemptFails(c) \/ Finishes(c)
    PROVE  CopyInv'
PROOF
<1>1. UNCHANGED <<persistent, wire, from, taken>>
  BY DEF GetsAck, AttemptFails, Finishes, reading, history
<1>2. /\ sender[c] \in [pc : Stages, attempt : Nat, message : Messages \cup {NoMessage}]
      /\ ClientOK(c) /\ sender[c].attempt \in Nat
  BY SenderTypes
<1>3. CASE Finishes(c)
  <2>1. UNCHANGED sender
    BY <1>3 DEF Finishes
  <2>2. \A m \in Messages : Budget(m)' \in Nat /\ Budget(m) <= Budget(m)'
    BY <1>1, <2>1, BudgetType DEF Budget, Attempts
  <2> QED BY <1>1, <2>2, LinesShrink
<1>4. CASE GetsAck(c) \/ AttemptFails(c)
  <2>1. /\ \/ sender' = [sender EXCEPT ![c].pc = "idle"]
           \/ sender' = [sender EXCEPT ![c] =
                            [sender[c] EXCEPT !.pc = "connecting", !.attempt = sender[c].attempt + 1]]
    BY <1>4 DEF GetsAck, AttemptFails
  <2>2. /\ \A d \in Clients : d # c => sender'[d] = sender[d]
        /\ sender'[c].message = sender[c].message
        /\ \/ sender'[c].pc = "idle" /\ sender'[c].attempt = sender[c].attempt
           \/ sender'[c].pc = "connecting" /\ sender'[c].attempt = sender[c].attempt + 1
    BY <1>2, <2>1 DEF LinkInv
  <2>3. \A m \in Messages : Budget(m)' \in Nat /\ Budget(m) <= Budget(m)'
    BY <1>1, <1>2, <2>2, SameBudget
  <2> QED BY <1>1, <2>3, LinesShrink
<1> QED BY <1>3, <1>4

LEMMA CopyStep ==
    ASSUME WireInv, WireInv', LinkInv, CopyInv, [Next]_vars
    PROVE  CopyInv'
PROOF
<1>1. ASSUME UNCHANGED <<persistent, sender, taken>>,
             \A s \in Conns : wire'[s] = <<>> \/ (wire'[s] = wire[s] /\ from'[s] = from[s])
      PROVE  CopyInv'
  <2>1. \A m \in Messages : Budget(m)' \in Nat /\ Budget(m) <= Budget(m)'
    BY <1>1, BudgetType DEF Budget, Attempts
  <2> QED BY <1>1, <2>1, LinesShrink
<1>2. ASSUME NEW s \in Conns, Leave(s) \/ UNCHANGED <<wire, from>>
      PROVE  \A r \in Conns : wire'[r] = <<>> \/ (wire'[r] = wire[r] /\ from'[r] = from[r])
  BY <1>2 DEF Leave, WireInv
<1>3. ASSUME NEW s \in Conns, Handle(s) PROVE CopyInv'
  <2>1. CASE Chunk(s)
    <3>1. UNCHANGED <<persistent, sender, taken>> /\ (Leave(s) \/ UNCHANGED <<wire, from>>)
      BY <2>1 DEF Chunk, FrameRead
    <3> QED BY <1>1, <1>2, <3>1
  <2>2. CASE Quiet(s)
    <3>1. UNCHANGED <<persistent, sender, taken>> /\ (Leave(s) \/ UNCHANGED <<wire, from>>)
      BY <2>2 DEF Quiet, FrameRead
    <3> QED BY <1>1, <1>2, <3>1
  <2>3. CASE Broken(s)
    BY <1>1, <1>2, <2>3 DEF Broken, history
  <2>4. CASE Closed(s)
    BY <1>1, <2>4 DEF Closed, history
  <2> QED BY <1>3, <2>1, <2>2, <2>3, <2>4, CopyTaken DEF Handle
<1>4. CASE GatewayResets
  <2>1. UNCHANGED <<persistent, sender, taken>> /\ wire' = [s \in Conns |-> <<>>]
    BY <1>4 DEF GatewayResets
  <2> QED BY <1>1, <2>1
<1>5. CASE Tick
  BY <1>1, <1>5 DEF Tick, reading, history
<1>6. CASE UNCHANGED vars
  BY <1>1, <1>6 DEF vars, reading, history
<1> QED
  BY <1>3, <1>4, <1>5, <1>6, SendCopies, ConnectCopies, CallCopies DEF Next, Client

LEMMA CopyInit == Init => CopyInv
PROOF
<1> SUFFICES ASSUME Init PROVE CopyInv
  OBVIOUS
<1>1. wire = [s \in Conns |-> <<>>] /\ taken = [m \in Messages |-> 0]
  BY DEF Init
<1>2. ASSUME NEW m \in Messages PROVE Pending(m) = {}
  BY <1>1 DEF Pending
<1>3. \A m \in Messages : IsFiniteSet(Pending(m)) /\ Cardinality(Pending(m)) = 0
  BY <1>2, FS_EmptySet
<1>4. \A m \in Messages : Budget(m) \in Nat
  BY LinkInit, BudgetType
<1> QED BY <1>1, <1>3, <1>4 DEF CopyInv
-----------------------------------------------------------------------------
(* The registry and the types. *)

\* The two names of an update stand for the same.
LEMMA SameUpdate ==
    ASSUME NEW k, Registry!Update(k)
    PROVE  RT!Update(k)
PROOF
<1>1. RT!Known = Registry!Known
  BY DEF RT!Known, Registry!Known
<1>2. RT!Oldest = Registry!Oldest
  BY <1>1 DEF RT!Oldest, Registry!Oldest
<1>3. RT!Kept(k) = Registry!Kept(k)
  BY <1>1, <1>2, SameSize DEF RT!Kept, Registry!Kept
<1>4. \A j : RT!Count(j) = Registry!Count(j)
  BY <1>1 DEF RT!Count, Registry!Count
<1> QED BY <1>1, <1>3, <1>4 DEF RT!Update, Registry!Update

\* An update of the registry keeps its type, whichever registry it is.
LEMMA UpdateKeepsType ==
    ASSUME Registry!RegistryTypeOK, NEW k \in Clients \X Identities, Registry!Update(k),
           now' = now, packet_count' \in Nat
    PROVE  Registry!RegistryTypeOK'
PROOF
<1>1. RT!RegistryTypeOK
  BY SameSize DEF RT!RegistryTypeOK, RT!Known, Registry!RegistryTypeOK, Registry!Known
<1>2. RT!Update(k)
  BY SameUpdate
<1>3. /\ RT!Known' \subseteq Clients \X Identities /\ Cardinality(RT!Known') <= Capacity
      /\ devices' \in [RT!Known' -> [last_seen : 1..MaxTime, packet_count : Nat \ {0}]]
      /\ latest' \in [Clients \X Identities -> 0..MaxTime] /\ forgotten' \in [Clients \X Identities -> Nat]
  BY <1>1, <1>2, RegistryConstants, SameSize, RT!UpdateType
<1> QED BY <1>3, SameSize DEF RT!Known, Registry!RegistryTypeOK, Registry!Known

RegistryInv == Registry!RegistryTypeOK /\ resets \in 0..MaxResets

\* A packet is registered under the message its frame begins in.
LEMMA DrainedIdentity ==
    ASSUME WireInv, NEW s \in Conns, Drained(s)
    PROVE  Identity(s) \in Clients \X Identities
PROOF
<1>1. from[s] < Written(s)
  <2>1. /\ at[s] \in Nat /\ from[s] \in Nat /\ Written(s) \in Nat
        /\ from[s] < at[s] /\ at[s] <= Written(s)
    BY LineTypes DEF Drained, LineOK
  <2> QED BY <2>1
<1>2. Message(s) \in Messages
  BY <1>1, CurrentIs
<1>3. Message(s).client \in Clients
  BY <1>2 DEF Messages
<1> QED BY <1>3 DEF Identity, Identities

LEMMA DrainedRegistry ==
    ASSUME WireInv, RegistryInv, NEW s \in Conns, Drained(s)
    PROVE  RegistryInv'
PROOF
<1>1. /\ handler[s] = "draining" /\ Registry!Update(Identity(s)) /\ UNCHANGED <<now, resets>>
      /\ packet_count' = packet_count + 1
  BY DEF Drained
<1>3. Identity(s) \in Clients \X Identities
  BY DrainedIdentity
<1> DEFINE k == Identity(s)
<1>4. k \in Clients \X Identities /\ Registry!Update(k)
  BY <1>1, <1>3
<1> HIDE DEF k
<1>5. packet_count' \in Nat /\ now' = now
  BY <1>1 DEF RegistryInv, Registry!RegistryTypeOK
<1>6. Registry!RegistryTypeOK'
  BY <1>4, <1>5, UpdateKeepsType DEF RegistryInv
<1> QED BY <1>1, <1>6 DEF RegistryInv

\* The empty registry has its type.
LEMMA EmptyRegistry ==
    ASSUME now \in 1..MaxTime, packet_count = 0, devices = Registry!NoDevices,
           latest = [k \in Clients \X Identities |-> 0], forgotten = [k \in Clients \X Identities |-> 0]
    PROVE  Registry!RegistryTypeOK
PROOF
<1>1. Registry!Known = {} /\ devices \in [{} -> [last_seen : 1..MaxTime, packet_count : Nat \ {0}]]
  BY DEF Registry!Known, Registry!NoDevices
<1>2. Cardinality({}) <= Capacity
  BY FS_EmptySet, IngestionAssumption DEF IngestionAssumption
<1>3. 0 \in 0..MaxTime /\ packet_count \in Nat
  BY IngestionAssumption DEF IngestionAssumption
<1> QED BY <1>1, <1>2, <1>3, SameSize DEF Registry!RegistryTypeOK

LEMMA RegistryStep ==
    ASSUME WireInv, RegistryInv, [Next]_vars
    PROVE  RegistryInv'
PROOF
<1>1. ASSUME UNCHANGED <<devices, latest, forgotten, now, packet_count, resets>> PROVE RegistryInv'
  BY <1>1 DEF RegistryInv, Registry!RegistryTypeOK, Registry!Known
<1>2. ASSUME NEW s \in Conns, Handle(s) PROVE RegistryInv'
  <2>1. CASE Chunk(s) \/ Quiet(s)
    BY <1>1, <2>1 DEF Chunk, Quiet, registry
  <2>2. CASE Broken(s) \/ Closed(s)
    BY <1>1, <2>2 DEF Broken, Closed, registry, counts, history
  <2> QED BY <1>2, <2>1, <2>2, DrainedRegistry DEF Handle
<1>3. ASSUME NEW c \in Clients, Send(c) \/ Client(c) \/ Finishes(c) PROVE RegistryInv'
  BY <1>1, <1>3 DEF Send, Client, Connects, GetsAck, AttemptFails, Finishes, registry, counts, history
<1>4. CASE Tick
  <2>1. now < MaxTime /\ now' = now + 1 /\ UNCHANGED <<devices, latest, forgotten, packet_count, resets>>
    BY <1>4 DEF Tick, registry, counts, history
  <2>2. now \in 1..MaxTime /\ MaxTime \in Nat
    BY IngestionAssumption DEF RegistryInv, Registry!RegistryTypeOK, IngestionAssumption
  <2>3. now' \in 1..MaxTime
    BY <2>1, <2>2
  <2> QED BY <2>1, <2>3 DEF RegistryInv, Registry!RegistryTypeOK, Registry!Known
<1>5. CASE GatewayResets
  <2>1. /\ resets < MaxResets /\ resets' = resets + 1 /\ now' = now /\ packet_count' = 0
        /\ devices' = Registry!NoDevices /\ latest' = [k \in Clients \X Identities |-> 0]
        /\ forgotten' = [k \in Clients \X Identities |-> 0]
    BY <1>5 DEF GatewayResets, Registry!Reset
  <2>2. resets' \in 0..MaxResets
    BY <2>1, IngestionAssumption DEF RegistryInv, IngestionAssumption
  <2>3. now' \in 1..MaxTime
    BY <2>1 DEF RegistryInv, Registry!RegistryTypeOK
  <2>4. Registry!Known' = {} /\ devices' \in [{} -> [last_seen : 1..MaxTime, packet_count : Nat \ {0}]]
    BY <2>1 DEF Registry!Known, Registry!NoDevices
  <2>5. Cardinality({}) <= Capacity /\ 0 \in 0..MaxTime
    BY FS_EmptySet, IngestionAssumption DEF IngestionAssumption
  <2> QED BY <2>1, <2>2, <2>3, <2>4, <2>5, SameSize DEF RegistryInv, Registry!RegistryTypeOK
<1>6. CASE UNCHANGED vars
  BY <1>1, <1>6 DEF vars, registry, counts, history
<1> QED BY <1>2, <1>3, <1>4, <1>5, <1>6 DEF Next

LEMMA RegistryInitial == Init => RegistryInv
PROOF
<1> SUFFICES ASSUME Init PROVE RegistryInv
  OBVIOUS
<1>1. 1 \in 1..MaxTime /\ 0 \in 0..MaxResets
  BY IngestionAssumption DEF IngestionAssumption
<1> QED BY <1>1, EmptyRegistry DEF Init, RegistryInv, Registry!RegistryInit

\* Everything together: the count, the senders, the wires, the registry, and what is known of
\* the acknowledged and of the queued messages.
IngestionInv == CountInv /\ LinkInv /\ WireInv /\ RegistryInv /\ AckInv /\ CopyInv

LEMMA IngestionInvariant == Spec => []IngestionInv
PROOF
<1>1. Init => IngestionInv
  BY CountInit, LinkInit, WireInit, RegistryInitial, AckInit, CopyInit, IngestionAssumption DEF IngestionInv
<1>2. IngestionInv /\ [Next]_vars => IngestionInv'
  <2> SUFFICES ASSUME IngestionInv, [Next]_vars PROVE IngestionInv'
    OBVIOUS
  <2>1. CountInv /\ LinkInv /\ WireInv /\ RegistryInv /\ AckInv /\ CopyInv
    BY DEF IngestionInv
  <2>2. WireInv'
    BY <2>1, WireStep
  <2> QED BY <2>1, <2>2, CountStep, LinkStep, RegistryStep, AckStep, CopyStep, IngestionAssumption
         DEF IngestionInv
<1> QED BY <1>1, <1>2, PTL DEF Spec

\* Every variable keeps its type, for any number of senders and connections, any frame limit,
\* message lengths and read size.
THEOREM TypeCorrect == Spec => []TypeOK
PROOF
<1>1. ASSUME IngestionInv PROVE TypeOK
  <2>1. CountInv /\ LinkInv /\ WireInv /\ RegistryInv /\ AckInv /\ CopyInv
    BY <1>1 DEF IngestionInv
  <2>2. ASSUME NEW c \in Clients
        PROVE  /\ sender[c].pc \in {"idle", "connecting", "waiting"} /\ sender[c].attempt \in 0..2
               /\ sender[c].message \in Messages \cup {NoMessage}
               /\ link[c] \subseteq Conns /\ Cardinality(link[c]) <= 1
               /\ answers[c] \in Nat /\ (link[c] = {} => answers[c] = 0)
               /\ sender[c].pc # "waiting" => link[c] = {} \/ c \in persistent
    <3>1. ClientOK(c) /\ sender[c].pc \in Stages /\ sender[c].attempt \in Nat
      BY <2>1, SenderTypes
    <3>2. sender[c].attempt \in 0..2
      BY <3>1 DEF ClientOK, Attempts
    <3>3. Cardinality(link[c]) <= 1
      <4>1. CASE link[c] = {}
        BY <4>1, FS_EmptySet
      <4>2. CASE \E s \in Conns : link[c] = {s}
        <5>1. PICK s \in Conns : link[c] = {s}
          BY <4>2
        <5>2. Cardinality({s}) = 1
          BY FS_Singleton
        <5> QED BY <5>1, <5>2
      <4> QED BY <3>1, <4>1, <4>2 DEF ClientOK
    <3>4. sender[c].message \in Messages \cup {NoMessage} /\ link[c] \in SUBSET Conns /\ answers[c] \in Nat
      BY <2>1, SenderTypes
    <3> QED BY <3>1, <3>2, <3>3, <3>4 DEF ClientOK, Stages
  <2>3. ASSUME NEW s \in Conns
        PROVE  /\ handler[s] \in {"free", "reading", "draining", "closing"}
               /\ wire[s] \in Seq([message : Messages, end : Nat])
               /\ 0 <= from[s] /\ from[s] <= at[s] /\ at[s] <= Written(s) /\ at[s] - from[s] <= MaxFrame
    <3>1. /\ handler[s] \in Places /\ wire[s] \in Seq(Frames) /\ from[s] \in Nat
          /\ Written(s) = EndOf(wire[s]) /\ LineOK(handler[s], wire[s], at[s], from[s])
      BY <2>1, LineTypes
    <3>2. handler[s] \in {"free", "reading", "draining", "closing"}
      BY <3>1 DEF Places
    <3>3. wire[s] \in Seq([message : Messages, end : Nat])
      BY <3>1 DEF Frames
    <3>4. 0 <= from[s] /\ from[s] <= at[s] /\ at[s] <= Written(s) /\ at[s] - from[s] <= MaxFrame
      BY <3>1 DEF LineOK
    <3> QED BY <3>2, <3>3, <3>4
  <2>4. connected_clients \in 0..Cardinality(Conns)
    <3>1. IsFiniteSet(Conns) /\ Counted(handler) \subseteq Conns
      BY IngestionAssumption DEF IngestionAssumption, Counted
    <3>2. /\ Cardinality(Counted(handler)) \in Nat /\ Cardinality(Conns) \in Nat
          /\ Cardinality(Counted(handler)) <= Cardinality(Conns)
      BY <3>1, FS_Subset, FS_CardinalityType
    <3> QED BY <2>1, <3>2 DEF CountInv
  <2>5. persistent \subseteq Clients /\ Registry!RegistryTypeOK /\ resets \in 0..MaxResets
    BY <2>1 DEF LinkInv, RegistryInv
  <2>6. acked \subseteq Messages /\ received \subseteq Messages /\ cut \subseteq Messages
        /\ taken \in [Messages -> Nat]
    BY <2>1 DEF AckInv, CopyInv
  <2> QED BY <2>2, <2>3, <2>4, <2>5, <2>6 DEF TypeOK
<1> QED BY <1>1, IngestionInvariant, PTL

\* OK means that the message was read whole, or that a part of it, or of an earlier one on the
\* same connection, was taken for a frame: whatever chunks, retries, lost answers and resets do.
THEOREM OkIsEarned == Spec => []AckIsHonest
PROOF
<1>1. ASSUME IngestionInv PROVE AckIsHonest
  BY <1>1 DEF IngestionInv, AckInv, Excused, AckIsHonest
<1> QED BY <1>1, IngestionInvariant, PTL

\* The gateway queues a message for the cloud once per attempt of its sender at most.
THEOREM OneCopyPerAttempt == Spec => []CopiesAreRetries
PROOF
<1>1. ASSUME IngestionInv, NEW m \in Messages
      PROVE  taken[m] <= IF m = sender[m.client].message THEN sender[m.client].attempt ELSE Attempts(m.client)
  <2>1. LinkInv /\ CopyInv
    BY <1>1 DEF IngestionInv
  <2> DEFINE n == Cardinality(Pending(m))
  <2>2. IsFiniteSet(Pending(m)) /\ taken[m] + n <= Budget(m) /\ taken[m] \in Nat
    BY <2>1 DEF CopyInv
  <2>3. n \in Nat
    BY <2>2, FS_CardinalityType
  <2>4. Budget(m) \in Nat /\ Budget(m) <= Attempts(m.client) /\ m.client \in Clients
    BY <2>1, BudgetType
  <2> HIDE DEF n
  <2>5. taken[m] <= Budget(m)
    BY <2>2, <2>3, <2>4
  <2>6. sender[m.client].attempt \in Nat /\ Attempts(m.client) \in Nat
    BY <2>1, <2>4, SenderTypes DEF Attempts
  <2>7. m = sender[m.client].message => Budget(m) <= sender[m.client].attempt
    BY <2>6 DEF Budget
  <2> QED BY <2>2, <2>4, <2>5, <2>6, <2>7
<1>2. IngestionInv => CopiesAreRetries
  BY <1>1 DEF CopiesAreRetries
<1> QED BY <1>2, IngestionInvariant, PTL

\* The two names of the registry's sum stand for the same.
LEMMA SameSum == Registry!PacketsAddUp <=> RT!PacketsAddUp
  BY DEF Registry!PacketsAddUp, Registry!Count, Registry!Known, Registry!MapThenSumSet,
         Registry!MapThenFoldSet,
         RT!PacketsAddUp, RT!Count, RT!Known, RT!MapThenSumSet, RT!MapThenFoldSet

LEMMA EmptySum ==
    /\ RT!RegistryAssumption /\ devices = RT!NoDevices
    /\ forgotten = [k \in Clients \X Identities |-> 0] /\ packet_count = 0
    => RT!PacketsAddUp
  BY RT!NothingCame

LEMMA SumStep ==
    ASSUME WireInv, RegistryInv, PacketsAddUp, [Next]_vars
    PROVE  PacketsAddUp'
PROOF
<1>1. RT!RegistryAssumption /\ RT!PacketsAddUp
  BY RegistryConstants, SameSum DEF PacketsAddUp
<1>2. RT!PacketsAddUp' => PacketsAddUp'
  <2>1. (Registry!PacketsAddUp <=> RT!PacketsAddUp)'
    BY SameSum, PTL
  <2> QED BY <2>1 DEF PacketsAddUp
<1>3. ASSUME UNCHANGED <<devices, forgotten, packet_count>> PROVE PacketsAddUp'
  BY <1>1, <1>2, <1>3, RegistryConstants, RT!NothingAdds
<1>4. ASSUME NEW s \in Conns, Drained(s) PROVE PacketsAddUp'
  <2>1. packet_count' = packet_count + 1 /\ Registry!Update(Identity(s))
    BY <1>4 DEF Drained
  <2>2. RT!RegistryTypeOK
    BY SameSize DEF RegistryInv, RT!RegistryTypeOK, RT!Known, Registry!RegistryTypeOK, Registry!Known
  <2> DEFINE k == Identity(s)
  <2>3. k \in Clients \X Identities /\ Registry!Update(k)
    BY <1>4, <2>1, DrainedIdentity
  <2> HIDE DEF k
  <2>4. RT!Update(k)
    BY <2>3, SameUpdate
  <2> QED BY <1>1, <1>2, <2>1, <2>2, <2>3, <2>4, RT!UpdateAdds
<1>5. ASSUME NEW s \in Conns, Handle(s) PROVE PacketsAddUp'
  <2>1. CASE Chunk(s) \/ Quiet(s)
    BY <1>3, <2>1 DEF Chunk, Quiet, registry
  <2>2. CASE Broken(s) \/ Closed(s)
    BY <1>3, <2>2 DEF Broken, Closed, registry, counts
  <2> QED BY <1>4, <1>5, <2>1, <2>2 DEF Handle
<1>6. ASSUME NEW c \in Clients, Send(c) \/ Client(c) \/ Finishes(c) PROVE PacketsAddUp'
  BY <1>3, <1>6 DEF Send, Client, Connects, GetsAck, AttemptFails, Finishes, registry, counts
<1>7. CASE Tick \/ UNCHANGED vars
  BY <1>3, <1>7 DEF Tick, vars, registry, counts
<1>8. CASE GatewayResets
  <2>1. devices' = RT!NoDevices /\ forgotten' = [k \in Clients \X Identities |-> 0] /\ packet_count' = 0
    BY <1>8 DEF GatewayResets, Registry!Reset, Registry!NoDevices, RT!NoDevices
  <2>2. (/\ RT!RegistryAssumption /\ devices = RT!NoDevices
          /\ forgotten = [k \in Clients \X Identities |-> 0] /\ packet_count = 0
          => RT!PacketsAddUp)'
    BY EmptySum, PTL
  <2> QED BY <1>1, <1>2, <2>1, <2>2 DEF RT!RegistryAssumption, RT!NoDevices
<1> QED BY <1>5, <1>6, <1>7, <1>8 DEF Next

\* Through the evictions of the registry, the resets and every way out of handle(), the packets
\* counted by the server are those in the records and in evicted ones.
THEOREM EveryPacketRegistered == Spec => []PacketsAddUp
PROOF
<1>1. Init => PacketsAddUp
  BY EmptySum, SameSum, RegistryConstants
     DEF Init, Registry!RegistryInit, Registry!NoDevices, RT!NoDevices, PacketsAddUp
<1>2. IngestionInv /\ PacketsAddUp /\ [Next]_vars => PacketsAddUp'
  BY SumStep DEF IngestionInv
<1> QED BY <1>1, <1>2, IngestionInvariant, PTL DEF Spec
=============================================================================
