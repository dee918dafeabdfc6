----------------------------- MODULE AtCommands -----------------------------
(***************************************************************************)
(* The AT command channel of gateway/modem_manager.py: one UART, shared by *)
(* the LTE monitor, the MQTT publisher and the internet test through an    *)
(* asyncio lock.  An exchange holds the lock, drains the UART, writes its  *)
(* line and polls for a marker until its time limit.                       *)
(*                                                                         *)
(* A call is numbered when it is made; the number marks what the modem     *)
(* sends in answer to it, so that an answer can be told from another that  *)
(* reads the same.  The modem itself (what it owes to whom, and the input  *)
(* mode of its prompt) is external: it may answer late, out of order, with *)
(* an error or not at all.                                                 *)
(***************************************************************************)
EXTENDS Integers, Sequences, SequencesExt

CONSTANTS
    Tasks,         \* the coroutines that use the modem, of those Uses names
    MaxCalls,      \* bound: exchanges
    MaxEvents,     \* bound: commands from the cloud
    MaxUnread      \* bound: tokens that wait in the UART

\* command(), command_until() and test_internet(), prompt_upload(), read_mqtt_event().
Kinds == {"command", "until", "upload", "listen"}

\* What each coroutine calls: the LTE monitor, the publisher, the test the dashboard starts.
Uses == [monitor |-> {"command", "until"}, publisher |-> Kinds, test |-> {"until"}]

ASSUME AtAssumption ==
    /\ Tasks \subseteq DOMAIN Uses
    /\ MaxCalls \in Nat /\ MaxEvents \in Nat /\ MaxUnread \in Nat

VARIABLES
    lock,          \* the task that owns the UART, then those that wait for it
    phase,         \* per task, where its call is
    call,          \* per task, the kind and the number of its call
    seen,          \* what read_mqtt_event has read so far
    rx,            \* what waits in the UART's receive buffer
    owed,          \* external: the answers the modem has yet to give
    input,         \* external: the upload whose data the modem awaits, or 0
    calls,         \* calls made so far
    events,        \* commands the cloud has sent so far
    part,          \* how many parts of the last of them have been received
    last,          \* history: what the last call to end returned
    heard,         \* history: the commands that read_mqtt_event returned and the parser found
    cut,           \* history: commands of which a part was thrown away unhandled
    abandoned      \* history: calls that ended while the modem still owed them something

modem == <<owed, input>>
cloud == <<events, part>>
vars == <<lock, phase, call, seen, rx, modem, calls, cloud, last, heard, cut, abandoned>>

Exchanging == {"prompt", "answer"}
Waiting == Exchanging \cup {"listen"}
Outcomes == {"none", "ok", "error", "timeout", "event"}

Token(type, id) == [type |-> type, id |-> id]
Answer(id, tokens) == [id |-> id, tokens |-> tokens]

\* A command from the cloud: +CMQTTRXSTART, the topic, the payload, +CMQTTRXEND.
EventParts == <<"start", "topic", "payload", "end">>

\* The commands of which a part is in a text.
Commands(text) == {k.id : k \in {k \in ToSet(text) : k.type \in ToSet(EventParts)}}

Owner == lock[1]
Number(t) == call[t].id
NoCall == [kind |-> "command", id |-> 0]
Owes(id) == input = id \/ \E a \in owed : a.id = id

Init ==
    /\ lock = <<>> /\ phase = [t \in Tasks |-> "idle"]
    /\ call = [t \in Tasks |-> NoCall]
    /\ seen = <<>> /\ rx = <<>> /\ owed = {} /\ input = 0
    /\ calls = 0 /\ events = 0 /\ part = 4
    /\ last = [outcome |-> "none", id |-> 0, from |-> 0]
    /\ heard = <<>> /\ cut = {} /\ abandoned = {}

-----------------------------------------------------------------------------
(* The modem's side of a line that is written to it. *)

\* What it answers to a line of each kind, unless it answers with an error.
Expected(kind) ==
    CASE kind = "command" -> <<"ok">>
      [] kind = "until"   -> <<"ok", "result">>
      [] kind = "upload"  -> <<"prompt">>

\* A command line arrives.  A modem that awaits data takes it for a part of them, or for all.
GetsLine(id, kind) ==
    IF input = 0
    THEN owed' = owed \cup {Answer(id, Expected(kind))} /\ UNCHANGED input
    ELSE \/ UNCHANGED modem
         \/ owed' = owed \cup {Answer(input, <<"ok">>)} /\ input' = 0

\* The data of an upload arrive.  A modem that awaits none takes them for a line it does not know.
GetsData(id) ==
    /\ owed' = owed \cup {IF input = 0 THEN Answer(id, <<"error">>) ELSE Answer(input, <<"ok">>)}
    /\ input' = 0

-----------------------------------------------------------------------------
(* The calls. *)

FirstPhase(kind) ==
    CASE kind = "upload" -> "prompt" [] kind = "listen" -> "listen" [] OTHER -> "answer"

\* Mutated form: what is left in the UART is not thrown away.
Exchange_NoDrain(t, kind, id) ==
    /\ phase' = [phase EXCEPT ![t] = FirstPhase(kind)] /\ seen' = <<>>
    /\ IF kind = "listen" THEN UNCHANGED modem ELSE GetsLine(id, kind)
    /\ UNCHANGED <<rx, cut>>

\* The lock is held: the UART is drained and the line written, without an await in between.
\* read_mqtt_event only listens and does not drain.
Exchange(t, kind, id) ==
    /\ phase' = [phase EXCEPT ![t] = FirstPhase(kind)] /\ seen' = <<>>
    /\ IF kind = "listen" THEN UNCHANGED <<rx, cut, modem>>
       ELSE rx' = <<>> /\ cut' = cut \cup Commands(rx) /\ GetsLine(id, kind)

\* Mutated form: a call does not wait for the lock while its owner only listens.
Call_OverListener(t, kind) ==
    /\ phase[t] = "idle" /\ calls < MaxCalls
    /\ calls' = calls + 1 /\ call' = [call EXCEPT ![t] = [kind |-> kind, id |-> calls + 1]]
    /\ IF lock = <<>> \/ phase[Owner] = "listen"
       THEN lock' = <<t>> \o lock /\ Exchange(t, kind, calls + 1)
       ELSE /\ lock' = Append(lock, t) /\ phase' = [phase EXCEPT ![t] = "queued"]
            /\ UNCHANGED <<seen, rx, cut, modem>>
    /\ UNCHANGED <<cloud, last, heard, abandoned>>

\* A task makes a call: it takes the lock if it is free and otherwise queues for it.
Call(t, kind) ==
    /\ phase[t] = "idle" /\ calls < MaxCalls
    /\ calls' = calls + 1 /\ call' = [call EXCEPT ![t] = [kind |-> kind, id |-> calls + 1]]
    /\ IF lock = <<>>
       THEN lock' = <<t>> /\ Exchange(t, kind, calls + 1)
       ELSE /\ lock' = Append(lock, t) /\ phase' = [phase EXCEPT ![t] = "queued"]
            /\ UNCHANGED <<seen, rx, cut, modem>>
    /\ UNCHANGED <<cloud, last, heard, abandoned>>

\* A task to which the lock was handed runs.
Begin(t) ==
    /\ phase[t] = "queued" /\ Owner = t
    /\ Exchange(t, call[t].kind, Number(t))
    /\ UNCHANGED <<lock, call, calls, cloud, last, heard, abandoned>>

\* Mutated form: the lock goes to the task that came last.
Returns_LastFirst(t, outcome, from) ==
    /\ lock' = IF Len(lock) > 2 THEN <<Last(lock)>> \o SubSeq(lock, 2, Len(lock) - 1) ELSE Tail(lock)
    /\ phase' = [phase EXCEPT ![t] = "idle"] /\ seen' = <<>>
    /\ call' = [call EXCEPT ![t] = NoCall]
    /\ last' = [outcome |-> outcome, id |-> Number(t), from |-> from]
    /\ abandoned' = abandoned \cup {id \in {Number(t)} : Owes(id)}

\* The call of t returns or raises and hands the lock on.
Returns(t, outcome, from) ==
    /\ lock' = Tail(lock) /\ phase' = [phase EXCEPT ![t] = "idle"] /\ seen' = <<>>
    /\ call' = [call EXCEPT ![t] = NoCall]
    /\ last' = [outcome |-> outcome, id |-> Number(t), from |-> from]
    /\ abandoned' = abandoned \cup {id \in {Number(t)} : Owes(id)}

\* The tokens of a type in what has been read; whether there is one.
Tokens(text, type) == {k \in ToSet(text) : k.type = type}
Holds(text, type) == Tokens(text, type) # {}

Marker(kind) == IF kind = "until" THEN "result" ELSE "ok"

\* A poll finds something: all of it is read and added to the response.
Polls(t, where) == lock # <<>> /\ Owner = t /\ phase[t] = where /\ rx # <<>> /\ rx' = <<>>

\* An exchange polls: a part of a cloud command that it reads is lost to the listener.
Overhears(t, where) == Polls(t, where) /\ cut' = cut \cup Commands(rx)

\* The marker is looked for first, an error second; without either the poll goes on.
ReadAnswer(t) ==
    /\ Overhears(t, "answer")
    /\ LET marker == Marker(call[t].kind) IN
       IF Holds(rx, marker) THEN \E k \in Tokens(rx, marker) : Returns(t, "ok", k.id)
       ELSE IF Holds(rx, "error") THEN \E k \in Tokens(rx, "error") : Returns(t, "error", k.id)
       ELSE UNCHANGED <<lock, phase, call, seen, last, abandoned>>
    /\ UNCHANGED <<modem, calls, cloud, heard>>

\* Mutated form: the data are sent by a call of its own, which takes the lock again.
ReadPrompt_Relocks(t) ==
    /\ Overhears(t, "prompt")
    /\ phase' = [phase EXCEPT ![t] = "queued"] /\ lock' = Append(lock, t)
    /\ UNCHANGED <<call, seen, modem, calls, cloud, last, heard, abandoned>>

\* At the prompt the data are written, and their OK is awaited in a new response.
ReadPrompt(t) ==
    /\ Overhears(t, "prompt")
    /\ IF Holds(rx, "prompt")
       THEN /\ phase' = [phase EXCEPT ![t] = "answer"] /\ GetsData(Number(t))
            /\ UNCHANGED <<lock, call, seen, last, abandoned>>
       ELSE /\ IF Holds(rx, "error") THEN \E k \in Tokens(rx, "error") : Returns(t, "error", k.id)
               ELSE UNCHANGED <<lock, phase, call, seen, last, abandoned>>
            /\ UNCHANGED modem
    /\ UNCHANGED <<calls, cloud, heard>>

\* _parse_event: the first topic and the first payload in the text make the command, whichever
\* they belong to; all commands have the topic the gateway subscribes to.  The command is the
\* payload's; without a topic or a payload there is none.
Parsed(text) ==
    IF Holds(text, "topic") /\ Holds(text, "payload")
    THEN <<text[Min({i \in DOMAIN text : text[i].type = "payload"})].id>>
    ELSE <<>>

\* Mutated form: a text is returned as soon as an event has started.
ReadEvent_AtStart(t) ==
    /\ Polls(t, "listen")
    /\ LET text == seen \o rx IN
       IF Holds(text, "start")
       THEN /\ Returns(t, "event", 0)
            /\ heard' = heard \o Parsed(text)
            /\ cut' = cut \cup {k \in Commands(text) : \E j \in Commands(text) : j < k}
       ELSE seen' = text /\ UNCHANGED <<lock, phase, call, last, heard, cut, abandoned>>
    /\ UNCHANGED <<modem, calls, cloud>>

\* The text is returned once a start and an end have been read, in whatever order and of
\* whatever commands; what it holds of any but its first command is lost.
ReadEvent(t) ==
    /\ Polls(t, "listen")
    /\ LET text == seen \o rx IN
       IF Holds(text, "start") /\ Holds(text, "end")
       THEN /\ Returns(t, "event", 0)
            /\ heard' = heard \o Parsed(text)
            /\ cut' = cut \cup {k \in Commands(text) : \E j \in Commands(text) : j < k}
       ELSE seen' = text /\ UNCHANGED <<lock, phase, call, last, heard, cut, abandoned>>
    /\ UNCHANGED <<modem, calls, cloud>>

\* The time limit passes: the exchange raises, read_mqtt_event returns None.  What has
\* arrived since the last poll stays in the UART.
TimesOut(t) ==
    /\ lock # <<>> /\ Owner = t /\ phase[t] \in Waiting
    /\ Returns(t, "timeout", 0) /\ cut' = cut \cup Commands(seen)
    /\ UNCHANGED <<rx, modem, calls, cloud, heard>>

-----------------------------------------------------------------------------
(* What arrives from the modem. *)

\* The next token of an answer, or an error in its place.  A prompt puts the modem in input mode.
ModemAnswers(a) ==
    /\ Len(rx) < MaxUnread
    /\ \/ /\ rx' = Append(rx, Token(Head(a.tokens), a.id))
          /\ owed' = (owed \ {a}) \cup
                     {b \in {Answer(a.id, Tail(a.tokens))} : Tail(a.tokens) # <<>>}
          /\ IF Head(a.tokens) = "prompt" THEN input = 0 /\ input' = a.id ELSE UNCHANGED input
       \/ rx' = Append(rx, Token("error", a.id)) /\ owed' = owed \ {a} /\ UNCHANGED input
    /\ UNCHANGED <<lock, phase, call, seen, calls, cloud, last, heard, cut, abandoned>>

\* A command from the cloud arrives, unasked, part by part.
CommandArrives ==
    /\ Len(rx) < MaxUnread
    /\ IF part < Len(EventParts) THEN part' = part + 1 /\ UNCHANGED events
       ELSE events < MaxEvents /\ events' = events + 1 /\ part' = 1
    /\ rx' = Append(rx, Token(EventParts[part'], events'))
    /\ UNCHANGED <<lock, phase, call, seen, modem, calls, last, heard, cut, abandoned>>

Runs(t) == Begin(t) \/ ReadAnswer(t) \/ ReadPrompt(t) \/ ReadEvent(t) \/ TimesOut(t)

Next ==
    \/ \E t \in Tasks : Runs(t) \/ \E kind \in Uses[t] : Call(t, kind)
    \/ \E a \in owed : ModemAnswers(a)
    \/ CommandArrives

Spec == Init /\ [][Next]_vars

\* A time limit passes, whatever the modem does, and a task that has the lock is run.
FairSpec == Spec /\ \A t \in Tasks : WF_vars(Begin(t) \/ TimesOut(t))

-----------------------------------------------------------------------------
(* Properties. *)

\* Every variable has its type, and no task waits for the lock twice: none takes it again
\* while it has it, which would stop all of them.
TypeOK ==
    /\ lock \in Seq(Tasks) /\ IsInjective(lock)
    /\ phase \in [Tasks -> Waiting \cup {"idle", "queued"}]
    /\ call \in [Tasks -> [kind : Kinds, id : 0..calls]]
    /\ calls \in Nat /\ events \in Nat /\ part \in 1..4
    /\ input \in 0..calls /\ abandoned \subseteq 1..calls
    /\ last \in [outcome : Outcomes, id : 0..calls, from : Nat]
    /\ heard \in Seq(1..events) /\ cut \subseteq 1..events

\* Only the owner of the lock is on the line, every task in a call owns it or is in the queue
\* for it, and a task that is done is neither: no two exchanges overlap and no handed-on
\* lock is lost.
OneExchange ==
    /\ \A t \in Tasks : phase[t] # "idle" <=> t \in ToSet(lock)
    /\ \A i \in 2..Len(lock) : phase[lock[i]] = "queued"

\* Whatever an exchange takes for its answer is its own, or belongs to a call that ended
\* while the modem still owed it something: never one that was in the UART when it began,
\* and never that of another task's exchange in progress.
AnswersAreOwn ==
    last.outcome \in {"ok", "error"} => last.from \in {last.id} \cup abandoned

\* Commands from the cloud are handled in order, each at most once; and one that is neither
\* handled nor still to be read as far as it has come has had a part of it thrown away: drained
\* or read by an exchange, dropped at a time limit, or returned in one text with an earlier
\* command.  (After such a cut the parser may find the topic of one command and the payload of
\* another, and still handles no command twice.)
EventsInOrder ==
    /\ \A i, j \in DOMAIN heard : i < j => heard[i] < heard[j]
    /\ \A id \in 1..events : id \in ToSet(heard) \cup cut \/
          \A n \in 1..(IF id = events THEN part ELSE 4) :
             Token(EventParts[n], id) \in ToSet(seen \o rx)

\* Calls return one at a time in the order in which they were made, answered by an answer
\* of their own or of an earlier call; and every call returns, although all share one UART
\* and the modem may be silent for ever.
Q == INSTANCE ExchangeQueue WITH
    asked <- calls, returned <- last.id,
    answeredAs <- IF last.outcome \in {"ok", "error"} THEN last.from ELSE 0
ImplementsExchangeQueue == Q!Spec
=============================================================================
