--------------------------- MODULE MCMqttManager ---------------------------
(* A small instance of MqttManager, with the session at the broker, for TLC. *)
EXTENDS MqttManagerRefinement, MqttSession

Msg(d, t, c) == [device |-> d, message_type |-> t, data_class |-> c]

\* Two devices whose identities stay apart: an alarm and two telemetry classes.
MCDevices  == {"pump", "fan"}
MCSafeName == [d \in MCDevices |-> d]
MCMessages == {Msg("pump", "event", "fast"),
               Msg("pump", "telemetry", "fast"),
               Msg("fan", "diagnostic", "")}
=============================================================================
