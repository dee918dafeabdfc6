--------------------------- MODULE PriorityBuffer ---------------------------
(***************************************************************************)
(* What the gateway promises of its MQTT buffer, without its list, scans,  *)
(* counters, connection or timing: urgent messages leave in the order in   *)
(* which they came, none is given up for anything else; of each telemetry  *)
(* topic at most the newest value is kept, it waits until nothing urgent   *)
(* does, and may be given up for an urgent message when the room is used.  *)
(***************************************************************************)
EXTENDS Naturals, Sequences, FiniteSets, Functions

CONSTANTS
    Capacity,    \* messages the buffer has room for
    Topics,      \* telemetry topics
    Arrivals     \* identities of messages, in the order of their arrival

VARIABLES
    urgent,      \* the urgent messages waiting, oldest first
    latest       \* the newest value of each telemetry topic that is waiting

bufferVars == <<urgent, latest>>

Size == Len(urgent) + Cardinality(DOMAIN latest)

Without(t) == Restrict(latest, DOMAIN latest \ {t})

BufferInit == urgent = <<>> /\ latest = [t \in {} |-> 0]

AcceptUrgent(a) ==
    /\ Size < Capacity
    /\ urgent' = Append(urgent, a) /\ UNCHANGED latest

EvictForUrgent(a, t) ==
    /\ Size = Capacity
    /\ urgent' = Append(urgent, a) /\ latest' = Without(t)

AcceptValue(a, t) ==
    /\ Size < Capacity /\ t \notin DOMAIN latest
    /\ latest' = [s \in DOMAIN latest \cup {t} |-> IF s = t THEN a ELSE latest[s]]
    /\ UNCHANGED urgent

Replace(a, t) ==
    /\ t \in DOMAIN latest /\ latest[t] < a
    /\ latest' = [latest EXCEPT ![t] = a] /\ UNCHANGED urgent

TakeUrgent ==
    /\ urgent # <<>>
    /\ urgent' = Tail(urgent) /\ UNCHANGED latest

TakeValue(t) ==
    /\ urgent = <<>>
    /\ latest' = Without(t) /\ UNCHANGED urgent

\* A message that is refused leaves the buffer as it is.
BufferNext ==
    \/ \E a \in Arrivals :
          \/ AcceptUrgent(a)
          \/ \E t \in Topics : AcceptValue(a, t)
          \/ \E t \in DOMAIN latest : EvictForUrgent(a, t) \/ Replace(a, t)
    \/ TakeUrgent
    \/ \E t \in DOMAIN latest : TakeValue(t)

BufferSpec == BufferInit /\ [][BufferNext]_bufferVars
=============================================================================
