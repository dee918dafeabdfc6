---------------------------- MODULE HttpService ----------------------------
(***************************************************************************)
(* The dashboard server of gateway/web_server.py together with the task    *)
(* that watches it, _service_supervisor of gateway/gateway.py, interleaved *)
(* at their awaits: request handlers holding slots, the supervisor's own   *)
(* probe going through the same server, Wi-Fi recovery and restarts.       *)
(*                                                                         *)
(* A socket is one of the connections lwIP can hold at a time.  What a     *)
(* request asks for, its answer, the garbage collection and the counters   *)
(* rejected_requests and restart_count, which nothing reads but the        *)
(* dashboard, are left out.  Times are multiples of one second.            *)
(***************************************************************************)
EXTENDS Integers, FiniteSets, Sequences

CONSTANTS
    Sockets,           \* connections of the HTTP port
    MaxActive,         \* HTTP_MAX_ACTIVE_REQUESTS
    MonitorInterval,   \* WIFI_MONITOR_INTERVAL_SECONDS
    HealthInterval,    \* HTTP_HEALTH_INTERVAL_SECONDS
    FailureLimit,      \* HTTP_HEALTH_FAILURE_LIMIT
    MaxFaults          \* bound: listener deaths, Wi-Fi losses, failed starts, machine resets

ASSUME HttpAssumption ==
    /\ IsFiniteSet(Sockets)
    /\ MaxActive \in Nat \ {0} /\ FailureLimit \in Nat \ {0}
    /\ MonitorInterval \in Nat \ {0} /\ HealthInterval \in Nat /\ MaxFaults \in Nat

VARIABLES
    handler,           \* per socket, where its handle() task is
    peer,              \* per socket, who opened it
    active_requests,
    running, server,   \* WebServer.running; whether WebServer.server is set
    accepting,         \* the listening socket really takes connections
    wifi,              \* wlan.isconnected()
    pc,                \* where the supervisor is suspended
    probe,             \* {s}: the socket of the probe under way, or {}
    answered,          \* whether its answer has arrived; once it is closed, its verdict
    http_failures, elapsed,
    outcomes,          \* history: the last FailureLimit probes, TRUE when answered
    faults             \* history: faults injected so far

supervision == <<pc, probe, answered, http_failures, elapsed, outcomes>>
serving == <<handler, peer, active_requests>>
listening == <<running, server, accepting>>
vars == <<serving, listening, wifi, supervision, faults>>

Slots == {"reading", "responding", "closing"}     \* a handler that counts as active
Points == {"loop", "recovering", "connecting", "exchanging", "hangup", "closing",
           "pausing", "sleeping"}

\* The state in which start_gateway leaves both tasks.
Init ==
    /\ handler = [s \in Sockets |-> "free"] /\ peer = [s \in Sockets |-> "browser"]
    /\ active_requests = 0
    /\ running = TRUE /\ server = TRUE /\ accepting = TRUE
    /\ wifi \in BOOLEAN
    /\ pc = "loop" /\ probe = {} /\ answered = FALSE
    /\ http_failures = 0 /\ elapsed = HealthInterval /\ outcomes = <<>>
    /\ faults = 0

-----------------------------------------------------------------------------
(* The request handlers. *)

\* Mutated form: the limit is tested with > instead of >=.
Admit_OffByOne(s, who) ==
    /\ handler[s] = "free" /\ peer' = [peer EXCEPT ![s] = who]
    /\ IF active_requests > MaxActive
       THEN handler' = [handler EXCEPT ![s] = "rejecting"] /\ UNCHANGED active_requests
       ELSE handler' = [handler EXCEPT ![s] = "reading"] /\ active_requests' = active_requests + 1

\* handle(), up to its first await, for a connection that `who` opened.
Admit(s, who) ==
    /\ handler[s] = "free" /\ peer' = [peer EXCEPT ![s] = who]
    /\ IF active_requests >= MaxActive
       THEN handler' = [handler EXCEPT ![s] = "rejecting"] /\ UNCHANGED active_requests
       ELSE handler' = [handler EXCEPT ![s] = "reading"] /\ active_requests' = active_requests + 1

\* A browser connects.
Connect(s) ==
    /\ wifi /\ accepting
    /\ Admit(s, "browser")
    /\ UNCHANGED <<listening, wifi, supervision, faults>>

Probing(s) == s \in probe /\ peer[s] = "probe"

\* Something arrives from the other end: a request, to be answered, or the end of the
\* stream or an error, which leads to the finally clause.  The probe sends its request
\* right after connecting, so its handler sees the end only after the probe is closed.
Arrives(s) ==
    /\ handler[s] = "reading"
    /\ \/ handler' = [handler EXCEPT ![s] = "responding"]
       \/ ~ Probing(s) /\ handler' = [handler EXCEPT ![s] = "closing"]
    /\ UNCHANGED <<peer, active_requests, listening, wifi, supervision, faults>>

\* The answer is written, or writing it fails.
Responded(s) ==
    /\ handler[s] = "responding"
    /\ handler' = [handler EXCEPT ![s] = "closing"]
    /\ answered' \in {answered, answered \/ Probing(s)}
    /\ UNCHANGED <<peer, active_requests, listening, wifi, pc, probe, http_failures,
                   elapsed, outcomes, faults>>

\* Mutated form: a request that was turned away gives back a slot it never had.
Closed_Always(s) ==
    /\ handler[s] \in {"closing", "rejecting"}
    /\ handler' = [handler EXCEPT ![s] = "free"] /\ active_requests' = active_requests - 1
    /\ UNCHANGED <<peer, listening, wifi, supervision, faults>>

\* close_writer is done, after 250 ms at most.
Closed(s) ==
    /\ handler[s] \in {"closing", "rejecting"}
    /\ handler' = [handler EXCEPT ![s] = "free"]
    /\ active_requests' = active_requests - (IF handler[s] = "closing" THEN 1 ELSE 0)
    /\ UNCHANGED <<peer, listening, wifi, supervision, faults>>

-----------------------------------------------------------------------------
(* The faults the supervisor is there for. *)

Fault == faults < MaxFaults /\ faults' = faults + 1

\* The listening socket stops taking connections though the server believes it is up.
ListenerDies ==
    /\ Fault /\ accepting /\ accepting' = FALSE
    /\ UNCHANGED <<serving, running, server, wifi, supervision>>

WifiDrops ==
    /\ Fault /\ wifi /\ wifi' = FALSE
    /\ UNCHANGED <<serving, listening, supervision>>

\* The station reconnects by itself.
WifiReturns ==
    /\ ~ wifi /\ wifi' = TRUE
    /\ UNCHANGED <<serving, listening, supervision, faults>>

\* POST /api/restart: the machine resets and the program starts over.
MachineReset(s) ==
    /\ Fault /\ handler[s] = "responding" /\ peer[s] = "browser"
    /\ handler' = [t \in Sockets |-> "free"] /\ peer' = [t \in Sockets |-> "browser"]
    /\ active_requests' = 0 /\ running' = TRUE /\ server' = TRUE /\ accepting' = TRUE
    /\ wifi' \in BOOLEAN
    /\ pc' = "loop" /\ probe' = {} /\ answered' = FALSE
    /\ http_failures' = 0 /\ elapsed' = HealthInterval /\ outcomes' = <<>>

-----------------------------------------------------------------------------
(* The supervisor. *)

\* The top of the loop: Wi-Fi first, then the probe when it is due.
Look ==
    /\ pc = "loop"
    /\ \/ ~ wifi /\ pc' = "recovering" /\ UNCHANGED elapsed
       \/ /\ wifi
          /\ IF elapsed + MonitorInterval >= HealthInterval
             THEN elapsed' = 0 /\ pc' = "connecting"
             ELSE elapsed' = elapsed + MonitorInterval /\ pc' = "sleeping"
    /\ UNCHANGED <<serving, listening, wifi, probe, answered, http_failures, outcomes, faults>>

\* restart(), up to its first await: the old server is closed, if there is one.
Stop ==
    /\ running' = FALSE /\ server' = FALSE /\ accepting' = FALSE
    /\ pc' = IF server THEN "closing" ELSE "pausing"

\* Mutated form: recovery waits for Wi-Fi without its time limit.
Recovered_Unbounded ==
    /\ pc = "recovering"
    /\ wifi /\ Stop
    /\ UNCHANGED <<serving, wifi, probe, answered, http_failures, elapsed, outcomes, faults>>

\* _recover_wifi ends: Wi-Fi is back and the server restarted, or the time is up, or
\* the driver failed.
Recovered ==
    /\ pc = "recovering"
    /\ \/ wifi /\ Stop
       \/ ~ wifi /\ pc' = "sleeping" /\ UNCHANGED listening
    /\ UNCHANGED <<serving, wifi, probe, answered, http_failures, elapsed, outcomes, faults>>

Latest(o, ok) ==
    LET all == Append(o, ok)
    IN  IF Len(all) > FailureLimit THEN Tail(all) ELSE all

\* Mutated form: an answered probe does not clear the failures before it.
Judge_NeverClears(ok) ==
    /\ outcomes' = Latest(outcomes, ok)
    /\ http_failures' = http_failures + (IF ok THEN 0 ELSE 1)
    /\ IF http_failures' >= FailureLimit THEN Stop ELSE pc' = "sleeping" /\ UNCHANGED listening

\* Mutated form: failures are only counted.
Judge_NeverRestarts(ok) ==
    /\ outcomes' = Latest(outcomes, ok)
    /\ http_failures' = (IF ok THEN 0 ELSE FailureLimit)
    /\ pc' = "sleeping" /\ UNCHANGED listening

\* What the supervisor makes of a probe.
Judge(ok) ==
    /\ outcomes' = Latest(outcomes, ok)
    /\ http_failures' = IF ok THEN 0 ELSE http_failures + 1
    /\ IF http_failures' >= FailureLimit THEN Stop ELSE pc' = "sleeping" /\ UNCHANGED listening

\* _http_probe connects to the gateway's own address, or cannot within its timeout.
ProbeConnects ==
    /\ pc = "connecting"
    /\ \/ \E s \in Sockets :
             /\ wifi /\ accepting
             /\ Admit(s, "probe")
             /\ pc' = "exchanging" /\ probe' = {s}
             /\ UNCHANGED <<listening, http_failures, outcomes>>
       \/ /\ ~ (wifi /\ accepting /\ \E s \in Sockets : handler[s] = "free")
          /\ Judge(FALSE)
          /\ UNCHANGED <<serving, probe>>
    /\ UNCHANGED <<wifi, answered, elapsed, faults>>

\* The answer is read, or the probe is turned away, or its time is up: its end of the
\* connection is closed, and closing is awaited for 250 ms at most.
ProbeEnds ==
    /\ pc = "exchanging" /\ pc' = "hangup"
    /\ probe' = {} /\ answered' \in {answered, FALSE}
    /\ UNCHANGED <<serving, listening, wifi, http_failures, elapsed, outcomes, faults>>

ProbeJudged ==
    /\ pc = "hangup"
    /\ Judge(answered) /\ answered' = FALSE
    /\ UNCHANGED <<serving, wifi, probe, elapsed, faults>>

\* wait_closed of the old server, one second at most.
OldServerClosed ==
    /\ pc = "closing" /\ pc' = "pausing"
    /\ UNCHANGED <<serving, listening, wifi, probe, answered, http_failures, elapsed, outcomes, faults>>

\* start() of the restart succeeds, or fails and is only logged.
Restarted ==
    /\ pc = "pausing" /\ pc' = "sleeping"
    /\ \/ /\ running' = TRUE /\ server' = TRUE /\ accepting' = TRUE
          /\ http_failures' = 0 /\ UNCHANGED faults
       \/ Fault /\ UNCHANGED <<listening, http_failures>>
    /\ UNCHANGED <<serving, wifi, probe, answered, elapsed, outcomes>>

\* The sleep of WIFI_MONITOR_INTERVAL_SECONDS.
Slept ==
    /\ pc = "sleeping" /\ pc' = "loop"
    /\ UNCHANGED <<serving, listening, wifi, probe, answered, http_failures, elapsed, outcomes, faults>>

Supervisor ==
    \/ Look \/ Recovered \/ ProbeConnects \/ ProbeEnds \/ ProbeJudged
    \/ OldServerClosed \/ Restarted \/ Slept

Handle(s) == Arrives(s) \/ Responded(s)

Environment ==
    \/ ListenerDies \/ WifiDrops \/ WifiReturns
    \/ \E s \in Sockets : Connect(s) \/ MachineReset(s)

Next == Supervisor \/ Environment \/ \E s \in Sockets : Handle(s) \/ Closed(s)

Spec == Init /\ [][Next]_vars

\* Each await of the supervisor and close_writer end by a timeout or a sleep; the probe
\* sends its request and takes its answer.  A browser may stay silent, or stop taking its
\* answer, for ever: reader.read and writer.drain of a handler have no timeout.
FairSpec ==
    /\ Spec /\ WF_vars(Supervisor)
    /\ \A s \in Sockets : WF_vars(Closed(s)) /\ WF_vars(peer[s] = "probe" /\ Handle(s))

-----------------------------------------------------------------------------
(* Properties. *)

\* Every variable has its type.
TypeOK ==
    /\ handler \in [Sockets -> Slots \cup {"free", "rejecting"}]
    /\ peer \in [Sockets -> {"browser", "probe"}]
    /\ active_requests \in 0..MaxActive
    /\ running \in BOOLEAN /\ server \in BOOLEAN /\ accepting \in BOOLEAN /\ wifi \in BOOLEAN
    /\ pc \in Points /\ probe \subseteq Sockets /\ answered \in BOOLEAN
    /\ http_failures \in Nat /\ elapsed \in Nat
    /\ outcomes \in Seq(BOOLEAN) /\ Len(outcomes) <= FailureLimit /\ faults \in 0..MaxFaults

\* active_requests is the number of handlers between admission and the end of their
\* finally clause, across restarts of the server: no path leaks a slot, or gives one back
\* twice, which six requests later would shut the dashboard for good.
SlotsAccounted == active_requests = Cardinality({s \in Sockets : handler[s] \in Slots})

\* The supervisor takes a server down only after Wi-Fi was recovered or when the last
\* FailureLimit probes all went unanswered: one answer is enough to keep it.
NoHastyRestart ==
    [][server /\ ~ server' =>
          \/ pc = "recovering"
          \/ outcomes' = [i \in 1..FailureLimit |-> FALSE]]_vars

\* The supervisor always comes back to the top of its loop, whatever fails.
KeepsWatching == []<>(pc = "loop")

\* A server that stops taking connections, or that could not be started again, is
\* listening again sooner or later, provided that Wi-Fi stays up.
ListensAgain == <>[]wifi => []<>accepting

\* web_server.py:57 logs "HTTP server recovered by supervisor" after each restart: a server
\* that has recovered can take a request.
RecoveredCanServe ==
    [][pc = "pausing" /\ server' => active_requests' < MaxActive]_vars
=============================================================================
