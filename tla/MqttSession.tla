---------------------------- MODULE MqttSession ----------------------------
(***************************************************************************)
(* The publisher of MqttManager with the broker's side of its session.     *)
(* The broker, or the network, may close the session at any time; nothing  *)
(* tells the gateway, whose flag `connected` only its own exceptions clear *)
(* (mqtt_manager.py:80-81).  Every step of the publisher is one of         *)
(* MqttManager, with what it does to the session.                          *)
(***************************************************************************)
EXTENDS MqttManager

CONSTANT MaxLosses   \* bound: sessions closed from outside

\* Each of them may cost the publisher an exception of its own, which MaxFailures counts.
ASSUME SessionAssumption == MaxLosses \in Nat /\ MaxLosses <= MaxFailures

VARIABLES
    session,     \* the broker holds an open session of the gateway
    losses       \* history: sessions closed from outside

svars == <<vars, session, losses>>

SessionInit == Init /\ session = FALSE /\ losses = 0

\* The broker or the network closes the session; the gateway is not told.  (The bound on
\* failures leaves room for the exception that this may lead to.)
SessionCloses ==
    /\ session /\ losses < MaxLosses /\ failed + losses < MaxFailures
    /\ session' = FALSE /\ losses' = losses + 1
    /\ UNCHANGED vars

\* The first _cleanup of _connect closes what was left open; CMQTTCONNECT opens a session.
Connects ==
    /\ ConnectStep
    /\ session' = CASE pc = "configure" -> FALSE
                    [] pc = "connect"   -> TRUE
                    [] OTHER            -> session
    /\ UNCHANGED losses

\* The broker confirms a subscription only within a session.
Subscribes == session /\ ConnectDone /\ UNCHANGED <<session, losses>>

\* It acknowledges a publish only within a session.
Acknowledged == session /\ PublishAcked /\ UNCHANGED <<session, losses>>

\* Without a session subscription and publish fail for sure; any exchange may fail besides.
\* An attempt to connect may have opened a session although its answer was lost.
Fails ==
    /\ PublisherFails
    /\ \/ ~ session /\ pc \in Publishing \cup {"subscribe"}
       \/ failed + losses < MaxFailures
    /\ session' \in {session, session \/ pc = "connect"}
    /\ UNCHANGED losses

\* _cleanup closes the session if its commands reach the broker.
CleansUp == CleanupDone /\ session' \in {session, FALSE} /\ UNCHANGED losses

\* What the publisher does whether there is a session or not.
Unaware == Wake \/ UploadStep \/ ListenIdle \/ HandleEvent \/ BackoffElapsed

SessionPublisher ==
    \/ Connects \/ Subscribes \/ Acknowledged \/ Fails \/ CleansUp
    \/ Unaware /\ UNCHANGED <<session, losses>>

Others == LteChanges \/ \E m \in Messages : Enqueue(m)

SessionNext ==
    SessionPublisher \/ SessionCloses \/ (Others /\ UNCHANGED <<session, losses>>)

\* Fair as in MqttManager: the publisher's awaits all end.  A session need not be closed.
SessionSpec == SessionInit /\ [][SessionNext]_svars /\ WF_svars(SessionPublisher)

-----------------------------------------------------------------------------
(* Properties. *)


\* Once LTE stays up, a session that was closed unnoticed is opened again as soon as there
\* is something to publish: the publish fails, and its exception clears the stale flag.
SessionReturns ==
    <>[]lteReady => []((~ session /\ queue # <<>>) => <>session)
=============================================================================
