-------------------------- MODULE MCMqttDocumented --------------------------
(***************************************************************************)
(* What a comment in the code and the data flow guide say of an event that *)
(* the queue has accepted, and what the code does not do.  TLC refutes it; *)
(* the README and PROJECT.json quote the sentences.                        *)
(***************************************************************************)
EXTENDS MqttManager

Msg(d, t, c) == [device |-> d, message_type |-> t, data_class |-> c]

MCDevices  == {"pump", "fan"}
MCSafeName == [d \in MCDevices |-> d]
MCMessages == {Msg("pump", "event", ""), Msg("pump", "telemetry", "fast"),
               Msg("pump", "diagnostic", ""), Msg("fan", "diagnostic", "")}

\* mqtt_manager.py:169: dropping the incoming item "is safer than silently losing
\* an older event": an event or response that was accepted leaves the queue only
\* once the broker has it.
AcceptedEventsDelivered ==
    [][\A e \in ToSet(queue) :
          Important(e) /\ e \notin ToSet(queue') => e \in ToSet(broker')]_vars
=============================================================================
