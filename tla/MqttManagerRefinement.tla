----------------------- MODULE MqttManagerRefinement -----------------------
(***************************************************************************)
(* The list of MqttManager implements PriorityBuffer: its important prefix *)
(* is the urgent sequence, the entries behind it are the latest values of  *)
(* their topics.                                                           *)
(***************************************************************************)
EXTENDS MqttManager

\* The queue q begins with its important entries.
ImportantLength(q) == Cardinality({i \in DOMAIN q : Important(q[i])})

Urgents(q) == [i \in 1..ImportantLength(q) |-> q[i].payload]

Behind(q) == (ImportantLength(q) + 1)..Len(q)

Latest(q) ==
    [t \in {q[i].topic : i \in Behind(q)} |->
        q[CHOOSE i \in Behind(q) : q[i].topic = t].payload]

Buffer == INSTANCE PriorityBuffer
            WITH Arrivals <- 1..(MaxOffers + MaxCommands),
                 urgent <- Urgents(queue), latest <- Latest(queue)

\* Every step of the gateway on its queue, by the TCP handlers or by the publisher,
\* is a step of the abstract buffer or leaves it alone.
ImplementsPriorityBuffer == Buffer!BufferSpec
=============================================================================
