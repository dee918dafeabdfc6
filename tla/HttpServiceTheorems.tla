------------------------ MODULE HttpServiceTheorems ------------------------
(***************************************************************************)
(* Proofs about HttpService for any number of sockets, slots and faults:   *)
(* the slots of the request handlers are accounted for, and the supervisor *)
(* takes the server down only for a reason.  Two inductive invariants, one *)
(* over the handlers and one over the supervisor, are proved separately:   *)
(* neither needs the other.                                                *)
(***************************************************************************)
EXTENDS HttpService, FiniteSetTheorems, SequenceTheorems, TLAPS

Active(h) == {s \in Sockets : h[s] \in Slots}

\* The handlers: their types, and the count of the slots they hold.
ServingInv ==
    /\ handler \in [Sockets -> Slots \cup {"free", "rejecting"}]
    /\ peer \in [Sockets -> {"browser", "probe"}]
    /\ active_requests \in 0..MaxActive
    /\ active_requests = Cardinality(Active(handler))

\* The last http_failures probes, as far back as outcomes goes, were not answered.
Unanswered(o, n) ==
    \A k \in 1..FailureLimit : k <= n => k <= Len(o) /\ o[Len(o) + 1 - k] = FALSE

\* The supervisor: its types, and what http_failures says of the probes.
WatchInv ==
    /\ running \in BOOLEAN /\ server \in BOOLEAN /\ accepting \in BOOLEAN /\ wifi \in BOOLEAN
    /\ pc \in Points /\ probe \subseteq Sockets /\ answered \in BOOLEAN
    /\ http_failures \in Nat /\ elapsed \in Nat
    /\ outcomes \in Seq(BOOLEAN) /\ Len(outcomes) <= FailureLimit /\ faults \in 0..MaxFaults
    /\ Unanswered(outcomes, http_failures)

-----------------------------------------------------------------------------
(* The slots. *)

\* What a handler's step does to the count of the slots.
LEMMA ActiveChanges ==
    ASSUME HttpAssumption, handler \in [Sockets -> Slots \cup {"free", "rejecting"}],
           NEW s \in Sockets, NEW v \in Slots \cup {"free", "rejecting"},
           handler' = [handler EXCEPT ![s] = v]
    PROVE  /\ handler' \in [Sockets -> Slots \cup {"free", "rejecting"}]
           /\ Cardinality(Active(handler)) \in Nat /\ Cardinality(Active(handler')) \in Nat
           /\ v \in Slots /\ handler[s] \notin Slots =>
                 Cardinality(Active(handler')) = Cardinality(Active(handler)) + 1
           /\ v \notin Slots /\ handler[s] \in Slots =>
                 Cardinality(Active(handler')) = Cardinality(Active(handler)) - 1
           /\ (v \in Slots <=> handler[s] \in Slots) =>
                 Cardinality(Active(handler')) = Cardinality(Active(handler))
PROOF
<1>1. handler' \in [Sockets -> Slots \cup {"free", "rejecting"}]
  OBVIOUS
<1>2. IsFiniteSet(Active(handler)) /\ IsFiniteSet(Active(handler'))
  BY FS_Subset DEF HttpAssumption, Active
<1>3. Cardinality(Active(handler)) \in Nat /\ Cardinality(Active(handler')) \in Nat
  BY <1>2, FS_CardinalityType
<1>4. ASSUME v \in Slots, handler[s] \notin Slots
      PROVE  Cardinality(Active(handler')) = Cardinality(Active(handler)) + 1
  <2>1. Active(handler') = Active(handler) \cup {s} /\ s \notin Active(handler)
    BY <1>4 DEF Active
  <2> QED BY <2>1, <1>2, FS_AddElement
<1>5. ASSUME v \notin Slots, handler[s] \in Slots
      PROVE  Cardinality(Active(handler')) = Cardinality(Active(handler)) - 1
  <2>1. Active(handler') = Active(handler) \ {s} /\ s \in Active(handler)
    BY <1>5 DEF Active
  <2> QED BY <2>1, <1>2, FS_RemoveElement
<1>6. ASSUME v \in Slots <=> handler[s] \in Slots
      PROVE  Cardinality(Active(handler')) = Cardinality(Active(handler))
  <2>1. Active(handler') = Active(handler)
    BY <1>6 DEF Active
  <2> QED BY <2>1
<1> QED BY <1>1, <1>3, <1>4, <1>5, <1>6

\* A handler moves on without taking or giving back a slot.
LEMMA SlotKept ==
    ASSUME HttpAssumption, ServingInv, NEW s \in Sockets,
           NEW v \in Slots \cup {"free", "rejecting"}, v \in Slots <=> handler[s] \in Slots,
           handler' = [handler EXCEPT ![s] = v],
           peer' \in [Sockets -> {"browser", "probe"}], active_requests' = active_requests
    PROVE  ServingInv'
PROOF
<1>1. /\ handler' \in [Sockets -> Slots \cup {"free", "rejecting"}]
      /\ Cardinality(Active(handler')) = Cardinality(Active(handler))
  BY ActiveChanges DEF ServingInv
<1> QED BY <1>1 DEF ServingInv

LEMMA AdmitServing ==
    ASSUME HttpAssumption, ServingInv, NEW s \in Sockets, NEW who \in {"browser", "probe"},
           Admit(s, who)
    PROVE  ServingInv'
PROOF
<1>1. handler[s] = "free" /\ peer' \in [Sockets -> {"browser", "probe"}]
  BY DEF Admit, ServingInv
<1>2. "free" \notin Slots /\ "rejecting" \notin Slots /\ "reading" \in Slots
  BY DEF Slots
<1>3. active_requests \in Nat /\ MaxActive \in Nat /\ active_requests <= MaxActive
      /\ active_requests = Cardinality(Active(handler))
  BY DEF ServingInv, HttpAssumption
<1>4. CASE active_requests >= MaxActive
  <2>1. handler' = [handler EXCEPT ![s] = "rejecting"] /\ active_requests' = active_requests
    BY <1>4 DEF Admit
  <2> QED BY <2>1, <1>1, <1>2, SlotKept
<1>5. CASE ~ (active_requests >= MaxActive)
  <2>1. handler' = [handler EXCEPT ![s] = "reading"] /\ active_requests' = active_requests + 1
    BY <1>5 DEF Admit
  <2>2. /\ handler' \in [Sockets -> Slots \cup {"free", "rejecting"}]
        /\ Cardinality(Active(handler')) = Cardinality(Active(handler)) + 1
    BY <2>1, <1>1, <1>2, ActiveChanges DEF ServingInv
  <2>3. Cardinality(Active(handler')) = active_requests' /\ active_requests' \in 0..MaxActive
    BY <2>1, <2>2, <1>3, <1>5
  <2> QED BY <2>2, <2>3, <1>1 DEF ServingInv
<1> QED BY <1>4, <1>5

LEMMA ClosedServing ==
    ASSUME HttpAssumption, ServingInv, NEW s \in Sockets, Closed(s)
    PROVE  ServingInv'
PROOF
<1>1. /\ handler' = [handler EXCEPT ![s] = "free"] /\ peer' = peer
      /\ active_requests' = active_requests - (IF handler[s] = "closing" THEN 1 ELSE 0)
      /\ handler[s] \in {"closing", "rejecting"}
  BY DEF Closed
<1>2. "free" \notin Slots /\ "rejecting" \notin Slots /\ "closing" \in Slots
  BY DEF Slots
<1>3. active_requests \in Nat /\ MaxActive \in Nat /\ active_requests <= MaxActive
      /\ active_requests = Cardinality(Active(handler))
  BY DEF ServingInv, HttpAssumption
<1>4. CASE handler[s] = "rejecting"
  <2>1. active_requests' = active_requests
    BY <1>1, <1>3, <1>4
  <2> QED BY <2>1, <1>1, <1>2, <1>4, SlotKept DEF ServingInv
<1>5. CASE handler[s] = "closing"
  <2>1. /\ handler' \in [Sockets -> Slots \cup {"free", "rejecting"}]
        /\ Cardinality(Active(handler')) \in Nat
        /\ Cardinality(Active(handler')) = Cardinality(Active(handler)) - 1
    BY <1>1, <1>2, <1>5, ActiveChanges DEF ServingInv
  <2>2. Cardinality(Active(handler')) = active_requests' /\ active_requests' \in 0..MaxActive
    BY <1>1, <1>3, <1>5, <2>1
  <2> QED BY <2>1, <2>2, <1>1 DEF ServingInv
<1> QED BY <1>1, <1>4, <1>5

LEMMA NoHandlerServing ==
    ASSUME HttpAssumption, NEW h, h = [s \in Sockets |-> "free"]
    PROVE  Cardinality(Active(h)) = 0
PROOF
<1>1. Active(h) = {}
  BY DEF Active, Slots
<1> QED BY <1>1, FS_EmptySet

LEMMA NextServing == ASSUME HttpAssumption, ServingInv, [Next]_vars PROVE ServingInv'
PROOF
<1>1. ASSUME UNCHANGED serving PROVE ServingInv'
  BY <1>1 DEF serving, ServingInv
<1>2. CASE \E s \in Sockets : Connect(s)
  BY <1>2, AdmitServing DEF Connect
<1>3. CASE \E s \in Sockets : Arrives(s)
  <2>1. PICK s \in Sockets, v \in Slots :
           /\ handler[s] \in Slots /\ handler' = [handler EXCEPT ![s] = v]
           /\ peer' = peer /\ active_requests' = active_requests
    BY <1>3 DEF Arrives, Slots
  <2> QED BY <2>1, SlotKept DEF ServingInv
<1>4. CASE \E s \in Sockets : Responded(s)
  <2>1. PICK s \in Sockets, v \in Slots :
           /\ handler[s] \in Slots /\ handler' = [handler EXCEPT ![s] = v]
           /\ peer' = peer /\ active_requests' = active_requests
    BY <1>4 DEF Responded, Slots
  <2> QED BY <2>1, SlotKept DEF ServingInv
<1>5. CASE \E s \in Sockets : Closed(s)
  BY <1>5, ClosedServing
<1>6. CASE \E s \in Sockets : MachineReset(s)
  <2>1. /\ handler' = [t \in Sockets |-> "free"] /\ peer' = [t \in Sockets |-> "browser"]
        /\ active_requests' = 0
    BY <1>6 DEF MachineReset
  <2>2. Cardinality(Active(handler')) = 0 /\ 0 \in 0..MaxActive
    BY <2>1, NoHandlerServing DEF HttpAssumption
  <2> QED BY <2>1, <2>2 DEF ServingInv
<1>7. CASE ProbeConnects
  <2>1. CASE \E s \in Sockets : Admit(s, "probe")
    BY <2>1, AdmitServing
  <2>2. CASE UNCHANGED serving
    BY <2>2, <1>1
  <2> QED BY <2>1, <2>2, <1>7 DEF ProbeConnects
<1>8. CASE ListenerDies \/ WifiDrops \/ WifiReturns \/ Look \/ Recovered \/ ProbeEnds
           \/ ProbeJudged \/ OldServerClosed \/ Restarted \/ Slept
  BY <1>8, <1>1 DEF ListenerDies, WifiDrops, WifiReturns, Look, Recovered, ProbeEnds,
                    ProbeJudged, OldServerClosed, Restarted, Slept
<1>9. CASE UNCHANGED vars
  BY <1>9, <1>1 DEF vars
<1> QED
  BY <1>2, <1>3, <1>4, <1>5, <1>6, <1>7, <1>8, <1>9 DEF Next, Supervisor, Environment, Handle

LEMMA ServingInvariant == Spec => []ServingInv
PROOF
<1>1. HttpAssumption /\ Init => ServingInv
  <2> SUFFICES ASSUME HttpAssumption, Init PROVE ServingInv
    OBVIOUS
  <2>1. Cardinality(Active(handler)) = 0 /\ 0 \in 0..MaxActive
    BY NoHandlerServing DEF Init, HttpAssumption
  <2> QED BY <2>1 DEF Init, ServingInv
<1> QED BY <1>1, HttpAssumption, NextServing, PTL DEF Spec

\* No path through handle(), a restart or a reset leaks a slot or returns one twice.
THEOREM SlotsNeverLeak == Spec => []SlotsAccounted
PROOF
<1>1. ServingInv => SlotsAccounted
  BY DEF ServingInv, SlotsAccounted, Active
<1> QED BY <1>1, ServingInvariant, PTL

-----------------------------------------------------------------------------
(* The supervisor. *)

\* The history of the probes keeps its bound, ends with the last one and shifts the others.
LEMMA LatestProperties ==
    ASSUME HttpAssumption, outcomes \in Seq(BOOLEAN), Len(outcomes) <= FailureLimit,
           NEW ok \in BOOLEAN, outcomes' = Latest(outcomes, ok)
    PROVE  /\ outcomes' \in Seq(BOOLEAN) /\ Len(outcomes') \in 1..FailureLimit
           /\ outcomes'[Len(outcomes')] = ok
           /\ \A k \in 1..(FailureLimit - 1) : k <= Len(outcomes) =>
                  /\ k + 1 <= Len(outcomes')
                  /\ outcomes'[Len(outcomes') - k] = outcomes[Len(outcomes) + 1 - k]
PROOF
<1> DEFINE all == Append(outcomes, ok)
<1>1. /\ all \in Seq(BOOLEAN) /\ Len(all) = Len(outcomes) + 1 /\ all[Len(all)] = ok
      /\ \A k \in 1..Len(outcomes) : all[k] = outcomes[k]
      /\ Len(outcomes) \in Nat /\ FailureLimit \in Nat \ {0}
  BY DEF HttpAssumption
<1>2. outcomes' = IF Len(all) > FailureLimit THEN Tail(all) ELSE all
  BY DEF Latest
<1> HIDE DEF all
<1>3. CASE Len(all) > FailureLimit
  <2>1. Len(outcomes) = FailureLimit
    BY <1>1, <1>3
  <2>2. /\ outcomes' \in Seq(BOOLEAN) /\ Len(outcomes') = Len(outcomes)
        /\ \A k \in 1..Len(outcomes) : outcomes'[k] = all[k + 1]
    BY <1>1, <1>2, <1>3
  <2> QED BY <1>1, <2>1, <2>2
<1>4. CASE ~ (Len(all) > FailureLimit)
  <2>1. outcomes' = all
    BY <1>2, <1>4
  <2> QED BY <1>1, <1>4, <2>1
<1> QED BY <1>3, <1>4

\* What a judgement does: the types stay, http_failures still counts the unanswered probes
\* at the end of the history, and it stops the server only when those fill it.
LEMMA Judged ==
    ASSUME HttpAssumption, WatchInv, NEW ok \in BOOLEAN, Judge(ok)
    PROVE  /\ running' \in BOOLEAN /\ server' \in BOOLEAN /\ accepting' \in BOOLEAN
           /\ pc' \in Points /\ http_failures' \in Nat
           /\ outcomes' \in Seq(BOOLEAN) /\ Len(outcomes') <= FailureLimit
           /\ Unanswered(outcomes', http_failures')
           /\ server /\ ~ server' => outcomes' = [i \in 1..FailureLimit |-> FALSE]
PROOF
<1>1. /\ outcomes \in Seq(BOOLEAN) /\ Len(outcomes) <= FailureLimit /\ http_failures \in Nat
      /\ running \in BOOLEAN /\ server \in BOOLEAN /\ accepting \in BOOLEAN
      /\ FailureLimit \in Nat \ {0}
  BY DEF WatchInv, HttpAssumption
<1>2. /\ outcomes' \in Seq(BOOLEAN) /\ Len(outcomes') \in 1..FailureLimit
      /\ outcomes'[Len(outcomes')] = ok
      /\ \A k \in 1..(FailureLimit - 1) : k <= Len(outcomes) =>
            k + 1 <= Len(outcomes') /\ outcomes'[Len(outcomes') - k] = outcomes[Len(outcomes) + 1 - k]
  <2>1. outcomes' = Latest(outcomes, ok)
    BY DEF Judge
  <2> QED BY <1>1, <2>1, LatestProperties
<1>3. http_failures' = (IF ok THEN 0 ELSE http_failures + 1) /\ http_failures' \in Nat
  BY <1>1 DEF Judge
<1>4. Unanswered(outcomes', http_failures')
  <2> SUFFICES ASSUME NEW k \in 1..FailureLimit, k <= http_failures'
               PROVE  k <= Len(outcomes') /\ outcomes'[Len(outcomes') + 1 - k] = FALSE
    BY DEF Unanswered
  <2>1. ok = FALSE /\ k <= http_failures + 1
    BY <1>1, <1>3
  <2>2. CASE k = 1
    BY <2>1, <2>2, <1>2
  <2>3. CASE k # 1
    <3>1. k - 1 \in 1..(FailureLimit - 1) /\ k - 1 \in 1..FailureLimit /\ k - 1 <= http_failures
      BY <1>1, <2>1, <2>3
    <3>2. k - 1 <= Len(outcomes) /\ outcomes[Len(outcomes) + 1 - (k - 1)] = FALSE
      BY <3>1 DEF WatchInv, Unanswered
    <3>3. /\ (k - 1) + 1 <= Len(outcomes')
          /\ outcomes'[Len(outcomes') - (k - 1)] = outcomes[Len(outcomes) + 1 - (k - 1)]
      BY <3>1, <3>2, <1>2
    <3>4. Len(outcomes') - (k - 1) = Len(outcomes') + 1 - k /\ (k - 1) + 1 = k
      BY <1>2
    <3> QED BY <3>2, <3>3, <3>4
  <2> QED BY <2>2, <2>3
<1>5. CASE http_failures' >= FailureLimit
  <2>1. running' \in BOOLEAN /\ server' \in BOOLEAN /\ accepting' \in BOOLEAN /\ pc' \in Points
    BY <1>5 DEF Judge, Stop, Points
  <2>2. \A k \in 1..FailureLimit :
           k <= Len(outcomes') /\ outcomes'[Len(outcomes') + 1 - k] = FALSE
    BY <1>1, <1>3, <1>4, <1>5 DEF Unanswered
  <2>3. Len(outcomes') = FailureLimit
    BY <1>1, <1>2, <2>2
  <2>4. ASSUME NEW i \in 1..FailureLimit PROVE outcomes'[i] = FALSE
    <3>1. FailureLimit + 1 - i \in 1..FailureLimit
      BY <1>1
    <3>2. outcomes'[Len(outcomes') + 1 - (FailureLimit + 1 - i)] = FALSE
      BY <2>2, <3>1
    <3>3. Len(outcomes') + 1 - (FailureLimit + 1 - i) = i
      BY <1>1, <2>3
    <3> QED BY <3>2, <3>3
  <2>5. outcomes' = [i \in 1..FailureLimit |-> FALSE]
    <3>1. outcomes' \in [1..FailureLimit -> BOOLEAN]
      BY <1>2, <2>3
    <3> QED BY <3>1, <2>4
  <2> QED BY <1>2, <1>3, <1>4, <2>1, <2>5
<1>6. CASE ~ (http_failures' >= FailureLimit)
  <2>1. UNCHANGED listening /\ pc' = "sleeping"
    BY <1>6 DEF Judge
  <2> QED BY <1>1, <1>2, <1>3, <1>4, <2>1 DEF listening, Points
<1> QED BY <1>5, <1>6

\* The supervisor's variables but for pc, and the faults, when a step does not judge.
Watched ==
    /\ http_failures \in Nat /\ outcomes \in Seq(BOOLEAN) /\ Len(outcomes) <= FailureLimit
    /\ Unanswered(outcomes, http_failures)

LEMMA NextWatch == ASSUME HttpAssumption, WatchInv, [Next]_vars PROVE WatchInv'
PROOF
<1>1. /\ FailureLimit \in Nat \ {0} /\ HealthInterval \in Nat /\ MonitorInterval \in Nat
      /\ MaxFaults \in Nat /\ Watched
      /\ running \in BOOLEAN /\ server \in BOOLEAN /\ accepting \in BOOLEAN /\ wifi \in BOOLEAN
      /\ pc \in Points /\ probe \subseteq Sockets /\ answered \in BOOLEAN
      /\ elapsed \in Nat /\ faults \in 0..MaxFaults
  BY DEF WatchInv, HttpAssumption, Watched
<1>2. ASSUME Fault PROVE faults' \in 0..MaxFaults
  BY <1>1, <1>2 DEF Fault
<1>3. ASSUME UNCHANGED <<http_failures, outcomes>> PROVE Watched'
  BY <1>1, <1>3 DEF Watched, Unanswered
<1>4. ASSUME http_failures' = 0, outcomes' \in Seq(BOOLEAN), Len(outcomes') <= FailureLimit
      PROVE  Watched'
  BY <1>4 DEF Watched, Unanswered
<1>5. ASSUME UNCHANGED <<listening, wifi, supervision, faults>> PROVE WatchInv'
  BY <1>5 DEF WatchInv, listening, supervision, Unanswered
<1>6. CASE \E s \in Sockets : Connect(s) \/ Arrives(s) \/ Closed(s)
  BY <1>6, <1>5 DEF Connect, Arrives, Closed
<1>7. CASE \E s \in Sockets : Responded(s)
  <2>1. PICK s \in Sockets : Responded(s)
    BY <1>7
  <2>2. answered' \in BOOLEAN
    BY <2>1, <1>1 DEF Responded
  <2> QED BY <2>1, <2>2, <1>1, <1>3 DEF Responded, WatchInv, Watched, listening
<1>8. CASE \E s \in Sockets : MachineReset(s)
  <2>1. PICK s \in Sockets : MachineReset(s)
    BY <1>8
  <2>2. outcomes' \in Seq(BOOLEAN) /\ Len(outcomes') <= FailureLimit
    BY <2>1, <1>1 DEF MachineReset
  <2> QED BY <2>1, <2>2, <1>1, <1>2, <1>4 DEF MachineReset, WatchInv, Watched, Points
<1>9. CASE ListenerDies \/ WifiDrops
  BY <1>9, <1>1, <1>2, <1>3
  DEF ListenerDies, WifiDrops, WatchInv, Watched, listening, supervision
<1>10. CASE WifiReturns
  BY <1>10, <1>1, <1>3 DEF WifiReturns, WatchInv, Watched, listening, supervision
<1>11. CASE Look
  <2>1. elapsed' \in Nat /\ pc' \in Points
    BY <1>11, <1>1 DEF Look, Points
  <2> QED BY <2>1, <1>11, <1>1, <1>3 DEF Look, WatchInv, Watched, listening
<1>12. CASE Recovered
  <2>1. running' \in BOOLEAN /\ server' \in BOOLEAN /\ accepting' \in BOOLEAN /\ pc' \in Points
    BY <1>12, <1>1 DEF Recovered, Stop, listening, Points
  <2> QED BY <2>1, <1>12, <1>1, <1>3 DEF Recovered, WatchInv, Watched
<1>13. CASE ProbeConnects
  <2>1. CASE \E s \in Sockets : /\ pc' = "exchanging" /\ probe' = {s}
                                /\ UNCHANGED <<listening, http_failures, outcomes>>
    BY <2>1, <1>13, <1>1, <1>3 DEF ProbeConnects, WatchInv, Watched, listening, Points
  <2>2. CASE Judge(FALSE) /\ UNCHANGED probe
    BY <2>2, <1>13, <1>1, Judged DEF ProbeConnects, WatchInv
  <2> QED BY <2>1, <2>2, <1>13 DEF ProbeConnects
<1>14. CASE ProbeEnds
  BY <1>14, <1>1, <1>3 DEF ProbeEnds, WatchInv, Watched, listening, Points
<1>15. CASE ProbeJudged
  BY <1>15, <1>1, Judged DEF ProbeJudged, WatchInv
<1>16. CASE OldServerClosed \/ Slept
  BY <1>16, <1>1, <1>3 DEF OldServerClosed, Slept, WatchInv, Watched, listening, Points
<1>17. CASE Restarted
  <2>1. CASE http_failures' = 0 /\ running' = TRUE /\ server' = TRUE /\ accepting' = TRUE
             /\ UNCHANGED faults
    BY <2>1, <1>17, <1>1, <1>4 DEF Restarted, WatchInv, Watched, Points
  <2>2. CASE Fault /\ UNCHANGED <<listening, http_failures>>
    BY <2>2, <1>17, <1>1, <1>2, <1>3 DEF Restarted, WatchInv, Watched, listening, Points
  <2> QED BY <2>1, <2>2, <1>17 DEF Restarted
<1>18. CASE UNCHANGED vars
  BY <1>18, <1>5 DEF vars
<1> QED
  BY <1>6, <1>7, <1>8, <1>9, <1>10, <1>11, <1>12, <1>13, <1>14, <1>15, <1>16, <1>17, <1>18
  DEF Next, Supervisor, Environment, Handle

LEMMA WatchInvariant == Spec => []WatchInv
PROOF
<1>1. HttpAssumption /\ Init => WatchInv
  <2> SUFFICES ASSUME HttpAssumption, Init PROVE WatchInv
    OBVIOUS
  <2>1. outcomes \in Seq(BOOLEAN) /\ Len(outcomes) <= FailureLimit /\ faults \in 0..MaxFaults
    BY DEF HttpAssumption, Init
  <2>2. Unanswered(outcomes, http_failures)
    BY DEF Unanswered, Init
  <2>3. elapsed \in Nat /\ http_failures \in Nat /\ pc \in Points
    BY DEF Points, Init, HttpAssumption
  <2> QED BY <2>1, <2>2, <2>3 DEF Init, WatchInv
<1> QED BY <1>1, HttpAssumption, NextWatch, PTL DEF Spec

\* Every variable keeps its type, whatever fails and however the tasks interleave.
THEOREM TypeCorrect == Spec => []TypeOK
PROOF
<1>1. ServingInv /\ WatchInv => TypeOK
  BY DEF ServingInv, WatchInv, TypeOK
<1> QED BY <1>1, ServingInvariant, WatchInvariant, PTL

\* The supervisor takes the server down only after a Wi-Fi recovery, or when as many probes
\* in a row as the limit went unanswered.
THEOREM RestartsAreEarned == Spec => NoHastyRestart
PROOF
<1> DEFINE Hasty == server /\ ~ server' =>
                       \/ pc = "recovering"
                       \/ outcomes' = [i \in 1..FailureLimit |-> FALSE]
<1>1. ASSUME HttpAssumption, WatchInv, [Next]_vars PROVE Hasty
  <2> SUFFICES ASSUME server, ~ server', pc # "recovering"
               PROVE  outcomes' = [i \in 1..FailureLimit |-> FALSE]
    OBVIOUS
  <2>1. ASSUME NEW ok \in BOOLEAN, Judge(ok)
        PROVE  outcomes' = [i \in 1..FailureLimit |-> FALSE]
    BY <1>1, <2>1, Judged
  <2>2. CASE ProbeConnects
    BY <2>1, <2>2 DEF ProbeConnects, listening
  <2>3. CASE ProbeJudged
    BY <1>1, <2>1, <2>3 DEF ProbeJudged, WatchInv
  <2>4. CASE Recovered
    BY <2>4 DEF Recovered
  <2>5. CASE server' = server \/ server' = TRUE
    BY <2>5
  <2> QED
    BY <1>1, <2>2, <2>3, <2>4, <2>5
    DEF Next, Supervisor, Environment, Handle, vars, listening, Connect, Arrives, Responded,
        Closed, MachineReset, ListenerDies, WifiDrops, WifiReturns, Look, ProbeEnds,
        OldServerClosed, Restarted, Slept
<1> QED BY <1>1, HttpAssumption, WatchInvariant, PTL DEF Spec, NoHastyRestart
=============================================================================
