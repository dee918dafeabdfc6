---------------------------- MODULE TcpIngestion ----------------------------
(***************************************************************************)
(* The telemetry path on the local network: the senders, the connections   *)
(* between them, the handlers of gateway/tcp_server.py and the device      *)
(* registry they fill, interleaved at the handlers' awaits.  A sender is a *)
(* sensor node (clients/tcp_client.py), which opens a connection for each  *)
(* message, or the generator of tests/simulate_multirate_workload.ps1,     *)
(* which keeps its connection.  What a handler gives mqtt.enqueue is the   *)
(* input of MqttManager.                                                   *)
(*                                                                         *)
(* A message is `size` units on the wire and a newline.  A handler sees    *)
(* what was written in chunks: `at` units have been read, the frame being  *)
(* read begins after unit `from`.  A JSON object cut short is not JSON.    *)
(* Rates, the last payload and the idle Wi-Fi checks of the client are     *)
(* left out.                                                               *)
(***************************************************************************)
EXTENDS Integers, FiniteSets, FiniteSetsExt, Sequences, SequencesExt

CONSTANTS
    Clients,           \* the senders, one device each
    Conns,             \* connections of the TCP port
    Sizes,             \* the lengths messages may have
    ReadSize,          \* TCP_READ_SIZE
    MaxFrame,          \* TCP_MAX_MESSAGE_SIZE
    Capacity,          \* DEVICE_CAPACITY
    MaxSeq,            \* bound: messages per sender
    MaxResets,         \* bound: resets of the gateway
    MaxTime            \* bound: the seconds a behaviour lasts

ASSUME IngestionAssumption ==
    /\ IsFiniteSet(Clients) /\ IsFiniteSet(Conns)
    /\ Capacity \in Nat \ {0} /\ MaxTime \in Nat \ {0}
    /\ Sizes \subseteq Nat \ {0} /\ ReadSize \in Nat \ {0} /\ MaxFrame \in Nat \ {0}
    /\ MaxSeq \in Nat /\ MaxResets \in Nat

NoMessage == [client |-> "nobody", seq |-> 0, size |-> 1]
Messages == [client : Clients, seq : 1..MaxSeq, size : Sizes]

VARIABLES
    persistent,        \* the clients that keep their connection
    sender,            \* per client: where its call is, the attempt, the message
    link,              \* per client, {s} for the connection it has open, or {}
    handler,           \* per connection, where its handle() task is
    wire,              \* per connection, the messages written to it and where their newlines are
    at, from,
    answers,           \* per client, the ACKs written to its open connection and not read yet
    connected_clients,
    packet_count, devices, now, latest, forgotten,
    received,          \* history: messages a handler has read whole
    taken,             \* history: per message, how often it was given to mqtt.enqueue
    acked,             \* history: messages whose sender has seen status OK
    cut,               \* history: messages of which a handler has acknowledged a part
    resets             \* history: resets of the gateway so far

registry == <<devices, latest, forgotten>>
reading == <<handler, wire, at, from>>
counts == <<connected_clients, packet_count>>
history == <<received, taken, acked, cut, resets>>
vars == <<persistent, sender, link, answers, reading, counts, registry, now, history>>

\* The registry knows a packet by the identity it declares or by the address it came from.
Identities == {"declared", "address"}
Registry == INSTANCE DeviceRegistry
            WITH Keys <- Clients \X Identities, MaxPackets <- 0

Init ==
    /\ persistent \in SUBSET Clients
    /\ sender = [c \in Clients |-> [pc |-> "idle", attempt |-> 0, message |-> NoMessage]]
    /\ link = [c \in Clients |-> {}]
    /\ handler = [s \in Conns |-> "free"] /\ wire = [s \in Conns |-> <<>>]
    /\ at = [s \in Conns |-> 0] /\ from = [s \in Conns |-> 0]
    /\ answers = [c \in Clients |-> 0]
    /\ connected_clients = 0
    /\ Registry!RegistryInit
    /\ received = {} /\ acked = {} /\ cut = {} /\ resets = 0
    /\ taken = [m \in Messages |-> 0]

-----------------------------------------------------------------------------
(* The senders. *)

\* How much was written to connection s; message m is written to it.
Written(s) == IF wire[s] = <<>> THEN 0 ELSE Last(wire[s]).end
Write(s, m) == wire' = [wire EXCEPT ![s] = Append(@, [message |-> m, end |-> Written(s) + m.size + 1])]

InLoop(s) == handler[s] \in {"reading", "draining"}

\* The next message is sent: over the connection that is open, whatever has become of its other
\* end, or over a new one.
Send(c) ==
    /\ sender[c].pc = "idle" /\ sender[c].message.seq < MaxSeq
    /\ \E size \in Sizes :
          LET m == [client |-> c, seq |-> sender[c].message.seq + 1, size |-> size] IN
          /\ sender' = [sender EXCEPT ![c] =
                 [pc |-> IF link[c] = {} THEN "connecting" ELSE "waiting", attempt |-> 1, message |-> m]]
          /\ IF \E s \in link[c] : InLoop(s) THEN \E s \in link[c] : Write(s, m) ELSE UNCHANGED wire
    /\ UNCHANGED <<persistent, link, answers, handler, at, from, counts, registry, now, history>>

\* The client connects and writes the message; the server starts a handler.
Connects(c, s) ==
    /\ sender[c].pc = "connecting" /\ handler[s] = "free" /\ \A d \in Clients : s \notin link[d]
    /\ sender' = [sender EXCEPT ![c].pc = "waiting"] /\ link' = [link EXCEPT ![c] = {s}]
    /\ handler' = [handler EXCEPT ![s] = "reading"] /\ connected_clients' = connected_clients + 1
    /\ Write(s, sender[c].message)
    /\ UNCHANGED <<persistent, answers, at, from, packet_count, registry, now, history>>

\* The client's end of its connection is closed.
HangUp(c) == link' = [link EXCEPT ![c] = {}] /\ answers' = [answers EXCEPT ![c] = 0]

\* An ACK is read in time: the message counts as delivered.
GetsAck(c) ==
    /\ sender[c].pc = "waiting" /\ answers[c] > 0
    /\ sender' = [sender EXCEPT ![c].pc = "idle"]
    /\ IF c \in persistent THEN answers' = [answers EXCEPT ![c] = @ - 1] /\ UNCHANGED link ELSE HangUp(c)
    /\ acked' = acked \cup {sender[c].message}
    /\ UNCHANGED <<persistent, reading, counts, registry, now, received, taken, cut, resets>>

\* The attempts to send a message.
Attempts(c) == IF c \in persistent THEN 1 ELSE 2

\* Mutated form: the attempts are not counted.
AttemptFails_ForEver(c) ==
    /\ sender[c].pc \in {"connecting", "waiting"}
    /\ sender' = [sender EXCEPT ![c].pc = "connecting"]
    /\ HangUp(c)
    /\ UNCHANGED <<persistent, reading, counts, registry, now, history>>

\* No Wi-Fi, no connection, an error, the end of the stream, two ACKs read as one or five
\* seconds without an answer: the connection is closed, and the message given up unless a
\* sensor node has sent it only once.
AttemptFails(c) ==
    /\ sender[c].pc \in {"connecting", "waiting"}
    /\ sender' = [sender EXCEPT ![c] =
                     IF @.attempt < Attempts(c)
                     THEN [@ EXCEPT !.pc = "connecting", !.attempt = sender[c].attempt + 1]
                     ELSE [@ EXCEPT !.pc = "idle"]]
    /\ HangUp(c)
    /\ UNCHANGED <<persistent, reading, counts, registry, now, history>>

\* A client that has sent its last message hangs up.
Finishes(c) ==
    /\ sender[c].pc = "idle" /\ sender[c].message.seq = MaxSeq /\ link[c] # {}
    /\ HangUp(c)
    /\ UNCHANGED <<persistent, sender, reading, counts, registry, now, history>>

-----------------------------------------------------------------------------
(* The handlers. *)

\* The message in which the frame being read begins, if anything was written after `from`.
Current(s) == wire[s][Min({i \in DOMAIN wire[s] : wire[s][i].end > from[s]})]
Message(s) == Current(s).message

\* What a frame that is complete after unit `end` is: the code cuts it at the first newline.
FrameEnd(s, end) == Min({end, Current(s).end - 1})
EmptyFrame(s, end) == end = from[s] \/ FrameEnd(s, end) = from[s]
Whole(s, end) == from[s] = Current(s).end - Message(s).size - 1 /\ FrameEnd(s, end) = Current(s).end - 1

\* What the packet is registered as: a part of a message declares no device.
Identity(s) == <<Message(s).client, IF Whole(s, at[s]) THEN "declared" ELSE "address">>

\* The handler leaves its loop: connected_clients goes down, then close_writer is awaited.
Leave(s) ==
    /\ handler' = [handler EXCEPT ![s] = "closing"] /\ connected_clients' = connected_clients - 1
    /\ wire' = [wire EXCEPT ![s] = <<>>]
    /\ at' = [at EXCEPT ![s] = 0] /\ from' = [from EXCEPT ![s] = 0]

\* An ACK is written: the client gets it if it has not hung up.
Acknowledge(s) == answers' = [c \in Clients |-> IF s \in link[c] THEN answers[c] + 1 ELSE answers[c]]

\* Mutated form: an empty frame is acknowledged like any other.
FrameRead_EmptyToo(s, end) ==
    /\ handler' = [handler EXCEPT ![s] = "draining"] /\ Acknowledge(s)
    /\ received' = received \cup (IF Whole(s, end) THEN {Message(s)} ELSE {})
    /\ cut' = cut \cup (IF Whole(s, end) \/ EmptyFrame(s, end) THEN {} ELSE {Message(s)})
    /\ at' = [at EXCEPT ![s] = end] /\ UNCHANGED <<wire, from, connected_clients>>

\* handle() has a frame: an empty one ends the connection, as does a part of a message
\* that is not UTF-8; any other is parsed and acknowledged, JSON or not.
FrameRead(s, end) ==
    IF EmptyFrame(s, end)
    THEN Leave(s) /\ UNCHANGED <<answers, received, cut>>
    ELSE \/ /\ handler' = [handler EXCEPT ![s] = "draining"] /\ Acknowledge(s)
            /\ received' = received \cup (IF Whole(s, end) THEN {Message(s)} ELSE {})
            /\ cut' = cut \cup (IF Whole(s, end) THEN {} ELSE {Message(s)})
            /\ at' = [at EXCEPT ![s] = end] /\ UNCHANGED <<wire, from, connected_clients>>
         \/ ~ Whole(s, end) /\ Leave(s) /\ UNCHANGED <<answers, received, cut>>

\* Mutated form: a chunk may overrun the frame limit.
Chunk_Overruns(s) ==
    /\ handler[s] = "reading"
    /\ \E n \in 1..ReadSize :
          /\ at[s] + n <= Written(s)
          /\ IF at[s] + n >= Current(s).end \/ at[s] + n - from[s] >= MaxFrame
             THEN FrameRead(s, at[s] + n)
             ELSE /\ at' = [at EXCEPT ![s] = at[s] + n]
                  /\ UNCHANGED <<handler, wire, from, answers, received, cut, connected_clients>>
    /\ UNCHANGED <<persistent, sender, link, packet_count, registry, now, taken, acked, resets>>

\* _read_message gets a chunk: the frame is complete with the newline, or at the limit.
Chunk(s) ==
    /\ handler[s] = "reading"
    /\ \E n \in 1..ReadSize :
          /\ at[s] + n <= Written(s) /\ at[s] + n - from[s] <= MaxFrame
          /\ IF at[s] + n >= Current(s).end \/ at[s] + n - from[s] = MaxFrame
             THEN FrameRead(s, at[s] + n)
             ELSE /\ at' = [at EXCEPT ![s] = at[s] + n]
                  /\ UNCHANGED <<handler, wire, from, answers, received, cut, connected_clients>>
    /\ UNCHANGED <<persistent, sender, link, packet_count, registry, now, taken, acked, resets>>

\* Mutated form: a connection may stay silent for ever.
Quiet_NoIdleTimeout(s) ==
    /\ handler[s] = "reading" /\ at[s] # from[s]
    /\ FrameRead(s, at[s])
    /\ UNCHANGED <<persistent, sender, link, packet_count, registry, now, taken, acked, resets>>

\* No chunk within TCP_FRAME_TIMEOUT_MS, or the stream has ended: what has come is the frame.
\* With nothing come, within TCP_CLIENT_IDLE_TIMEOUT_MS, it is empty.
Quiet(s) ==
    /\ handler[s] = "reading"
    /\ FrameRead(s, at[s])
    /\ UNCHANGED <<persistent, sender, link, packet_count, registry, now, taken, acked, resets>>

\* Mutated form: an error skips the end of handle().
Broken_StaysCounted(s) ==
    /\ handler[s] \in {"reading", "draining"}
    /\ handler' = [handler EXCEPT ![s] = "closing"]
    /\ UNCHANGED <<persistent, sender, link, answers, wire, at, from, counts, registry, now, history>>

\* Reading or writing fails.
Broken(s) ==
    /\ handler[s] \in {"reading", "draining"}
    /\ Leave(s)
    /\ UNCHANGED <<persistent, sender, link, answers, packet_count, registry, now, history>>

\* Mutated form: the next frame starts where the last one did.
Drained_KeepsFrame(s) ==
    /\ handler[s] = "draining" /\ handler' = [handler EXCEPT ![s] = "reading"]
    /\ packet_count' = packet_count + 1 /\ Registry!Update(Identity(s))
    /\ taken' = [taken EXCEPT ![Message(s)] = @ + (IF Whole(s, at[s]) THEN 1 ELSE 0)]
    /\ UNCHANGED <<persistent, sender, link, answers, wire, at, from, connected_clients, now, received, acked,
                   cut, resets>>

\* Mutated form: only what is JSON is registered.
Drained_OnlyJson(s) ==
    /\ handler[s] = "draining" /\ handler' = [handler EXCEPT ![s] = "reading"]
    /\ packet_count' = packet_count + 1
    /\ IF Whole(s, at[s]) THEN Registry!Update(Identity(s)) ELSE UNCHANGED registry
    /\ taken' = [taken EXCEPT ![Message(s)] = @ + (IF Whole(s, at[s]) THEN 1 ELSE 0)]
    /\ from' = [from EXCEPT ![s] = at[s]]
    /\ UNCHANGED <<persistent, sender, link, answers, wire, at, connected_clients, now, received, acked,
                   cut, resets>>

\* drain is over: the packet is counted, registered and, if it is JSON, queued for the
\* cloud, and the next frame is awaited; none of it awaits.
Drained(s) ==
    /\ handler[s] = "draining" /\ handler' = [handler EXCEPT ![s] = "reading"]
    /\ packet_count' = packet_count + 1 /\ Registry!Update(Identity(s))
    /\ taken' = [taken EXCEPT ![Message(s)] = @ + (IF Whole(s, at[s]) THEN 1 ELSE 0)]
    /\ from' = [from EXCEPT ![s] = at[s]]
    /\ UNCHANGED <<persistent, sender, link, answers, wire, at, connected_clients, now, received, acked,
                   cut, resets>>

\* close_writer is done, after 250 ms at most.
Closed(s) ==
    /\ handler[s] = "closing" /\ handler' = [handler EXCEPT ![s] = "free"]
    /\ UNCHANGED <<persistent, sender, link, answers, wire, at, from, counts, registry, now, history>>

-----------------------------------------------------------------------------
Tick ==
    /\ now < MaxTime /\ now' = now + 1
    /\ UNCHANGED <<persistent, sender, link, answers, reading, counts, registry, history>>

\* An exception that reaches asyncio.run, or a command: the gateway resets and starts over.
GatewayResets ==
    /\ resets < MaxResets /\ resets' = resets + 1
    /\ handler' = [s \in Conns |-> "free"] /\ connected_clients' = 0
    /\ wire' = [s \in Conns |-> <<>>]
    /\ at' = [s \in Conns |-> 0] /\ from' = [s \in Conns |-> 0]
    /\ Registry!Reset
    /\ UNCHANGED <<persistent, sender, link, answers, received, taken, acked, cut>>

Client(c) == (\E s \in Conns : Connects(c, s)) \/ GetsAck(c) \/ AttemptFails(c)
Handle(s) == Chunk(s) \/ Quiet(s) \/ Broken(s) \/ Drained(s) \/ Closed(s)

Next ==
    \/ Tick \/ GatewayResets
    \/ \E c \in Clients : Send(c) \/ Client(c) \/ Finishes(c)
    \/ \E s \in Conns : Handle(s)

Spec == Init /\ [][Next]_vars

\* What ends the awaits of a handler whose client is silent.
TimesOut(s) == Quiet(s) \/ Drained(s) \/ Closed(s)

\* Every call of the sender has a time limit, and so has every await of a handler; the ACK
\* fits the send buffer, so that drain does not wait for the other end.
FairSpec ==
    /\ Spec /\ \A c \in Clients : WF_vars(Client(c))
    /\ \A s \in Conns : WF_vars(TimesOut(s))

-----------------------------------------------------------------------------
(* Properties. *)

\* Every variable has its type.
TypeOK ==
    /\ persistent \subseteq Clients
    /\ \A c \in Clients :
          /\ sender[c].pc \in {"idle", "connecting", "waiting"} /\ sender[c].attempt \in 0..2
          /\ sender[c].message \in Messages \cup {NoMessage}
          /\ link[c] \subseteq Conns /\ Cardinality(link[c]) <= 1
          /\ answers[c] \in Nat /\ (link[c] = {} => answers[c] = 0)
          /\ sender[c].pc # "waiting" => link[c] = {} \/ c \in persistent
    /\ \A s \in Conns :
          /\ handler[s] \in {"free", "reading", "draining", "closing"}
          /\ wire[s] \in Seq([message : Messages, end : Nat])
          /\ 0 <= from[s] /\ from[s] <= at[s] /\ at[s] <= Written(s) /\ at[s] - from[s] <= MaxFrame
    /\ connected_clients \in 0..Cardinality(Conns)
    /\ Registry!RegistryTypeOK
    /\ received \subseteq Messages /\ acked \subseteq Messages /\ cut \subseteq Messages
    /\ taken \in [Messages -> Nat] /\ resets \in 0..MaxResets

\* connected_clients is the number of connections whose handler is in its loop: no frame,
\* timeout, error or reset leaves one counted that is gone.
ClientsCounted ==
    connected_clients = Cardinality({s \in Conns : handler[s] \in {"reading", "draining"}})

\* A message reaches the cloud queue at most once per attempt of its sender, so twice at
\* most: neither a frame split by the timeout, nor one of exactly the frame limit, nor a
\* connection that outlives its attempt, makes a copy the sender did not send.
CopiesAreRetries ==
    \A m \in Messages :
        taken[m] <= IF m = sender[m.client].message THEN sender[m.client].attempt ELSE Attempts(m.client)

\* A sender that has seen OK was heard: a gateway handler has read its message whole, unless
\* a part of it, or of an earlier one of a sender that keeps its connection, was taken for a frame;
\* retries, lost answers, resets and what a chunk holds after a newline do not matter.
AckIsHonest ==
    \A m \in acked : \/ m \in received \cup cut
                    \/ \E k \in cut : k.client = m.client /\ k.client \in persistent /\ k.seq < m.seq

\* Every packet counted by the server is in the registry's records, or in evicted ones.
PacketsAddUp == Registry!PacketsAddUp

\* Each call of send_with_retry returns.
SenderDecides == \A c \in Clients : sender[c].pc # "idle" ~> sender[c].pc = "idle"

\* No handler keeps its connection for ever, though its client may vanish without a word.
HandlersEnd == \A s \in Conns : handler[s] # "free" ~> handler[s] = "free"

\* docs/IIoT_Gateway_Client_to_AWS_Data_Flow_TH.md:27: the TCP ACK means that the gateway
\* has received the payload.
AckMeansReceived == acked \subseteq received
=============================================================================
