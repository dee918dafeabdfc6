------------------------- MODULE AtCommandsTheorems -------------------------
(***************************************************************************)
(* Theorems about the AT command channel, for any tasks and any number of  *)
(* calls and events.  The queue of the lock is treated first, in terms of  *)
(* four moves; then the answers, which need to know whose exchange is on   *)
(* the line.                                                               *)
(***************************************************************************)
EXTENDS AtCommands, SequenceTheorems, WellFoundedInduction, TLAPS

-----------------------------------------------------------------------------
(* The queue for the lock. *)

\* Calls stand in the queue in the order of their numbers, the next to return at its head; a
\* task is in it exactly while it is in a call, and only the head is on the line.
QueueInv ==
    /\ lock \in Seq(Tasks)
    /\ phase \in [Tasks -> Waiting \cup {"idle", "queued"}]
    /\ call \in [Tasks -> [kind : Kinds, id : Nat]]
    /\ last.outcome \in Outcomes /\ last.id \in Nat
    /\ calls = last.id + Len(lock)
    /\ \A i \in 1..Len(lock) : Number(lock[i]) = last.id + i
    /\ \A i \in 1..Len(lock) : phase[lock[i]] # "idle"
    /\ \A i \in 2..Len(lock) : phase[lock[i]] = "queued"
    /\ \A t \in Tasks : phase[t] # "idle" => \E i \in 1..Len(lock) : lock[i] = t

\* The moves: a task joins the queue, its head goes on the line or on with its exchange, its
\* head leaves, or nothing moves.
Joins(t, p) ==
    /\ phase[t] = "idle" /\ lock' = Append(lock, t)
    /\ phase' = [phase EXCEPT ![t] = p]
    /\ p \in Waiting \cup {"queued"} /\ (lock # <<>> => p = "queued")
    /\ calls' = calls + 1 /\ UNCHANGED last
    /\ \E kind \in Kinds : call' = [call EXCEPT ![t] = [kind |-> kind, id |-> calls + 1]]

GoesOn(t, p) ==
    /\ lock # <<>> /\ Owner = t /\ p \in Waiting
    /\ phase' = [phase EXCEPT ![t] = p]
    /\ UNCHANGED <<lock, call, calls, last>>

Leaves(t) ==
    /\ lock # <<>> /\ Owner = t
    /\ lock' = Tail(lock) /\ phase' = [phase EXCEPT ![t] = "idle"]
    /\ call' = [call EXCEPT ![t] = NoCall]
    /\ last'.outcome \in Outcomes /\ last'.id = Number(t)
    /\ UNCHANGED calls

Stays == UNCHANGED <<lock, phase, call, calls, last>>

Moves ==
    \/ \E t \in Tasks : Leaves(t) \/ \E p \in Waiting \cup {"queued"} : Joins(t, p) \/ GoesOn(t, p)
    \/ Stays

\* A task that joins finds its place behind all others.
LEMMA JoinKeepsQueue ==
    ASSUME QueueInv, NEW t \in Tasks, NEW p, Joins(t, p)
    PROVE  QueueInv'
<1> USE DEF QueueInv, Joins, Number
<1>1. lock' \in Seq(Tasks) /\ Len(lock') = Len(lock) + 1 /\ lock'[Len(lock) + 1] = t
      /\ \A i \in 1..Len(lock) : lock'[i] = lock[i]
  OBVIOUS
<1>2. \A i \in 1..Len(lock) : lock[i] \in Tasks /\ lock[i] # t
  OBVIOUS
<1>3. phase'[t] = p /\ \A u \in Tasks \ {t} : phase'[u] = phase[u]
  OBVIOUS
<1>4. call'[t].id = calls + 1 /\ \A u \in Tasks \ {t} : call'[u] = call[u]
  OBVIOUS
<1>5. calls \in Nat /\ Len(lock) \in Nat
  OBVIOUS
<1>6. call' \in [Tasks -> [kind : Kinds, id : Nat]]
  BY <1>5
<1>7. phase' \in [Tasks -> Waiting \cup {"idle", "queued"}]
  OBVIOUS
<1>8. ASSUME NEW i \in 1..Len(lock') PROVE call'[lock'[i]].id = last'.id + i
  <2>1. calls = last.id + Len(lock) /\ last' = last /\ last.id \in Nat
    OBVIOUS
  <2>2. CASE i = Len(lock) + 1
    <3>1. call'[lock'[i]].id = calls + 1
      BY <1>1, <1>4, <2>2
    <3> QED
      BY <1>5, <2>1, <2>2, <3>1
  <2>3. CASE i \in 1..Len(lock)
    <3>1. lock'[i] = lock[i] /\ lock[i] \in Tasks \ {t}
      BY <1>1, <1>2, <2>3
    <3>2. call'[lock'[i]].id = call[lock[i]].id /\ call[lock[i]].id = last.id + i
      BY <1>4, <2>3, <3>1
    <3> QED
      BY <2>1, <3>2
  <2> QED
    BY <1>1, <1>5, <2>2, <2>3
<1>9. \A i \in 1..Len(lock') : phase'[lock'[i]] # "idle"
  BY <1>1, <1>2, <1>3, <1>5 DEF Waiting, Exchanging
<1>10. \A i \in 2..Len(lock') : phase'[lock'[i]] = "queued"
  BY <1>1, <1>2, <1>3, <1>5
<1>11. ASSUME NEW u \in Tasks, phase'[u] # "idle" PROVE \E i \in 1..Len(lock') : lock'[i] = u
  BY <1>1, <1>3, <1>5, <1>11
<1>12. last' = last /\ calls' = last'.id + Len(lock')
  BY <1>1, <1>5
<1> HIDE DEF Joins
<1> QED
  BY <1>1, <1>6, <1>7, <1>8, <1>9, <1>10, <1>11, <1>12

\* The head that goes on stays the head.
LEMMA GoOnKeepsQueue ==
    ASSUME QueueInv, NEW t \in Tasks, NEW p, GoesOn(t, p)
    PROVE  QueueInv'
<1> USE DEF QueueInv, GoesOn, Number, Owner
<1>1. phase'[t] = p /\ \A u \in Tasks \ {t} : phase'[u] = phase[u]
  OBVIOUS
<1>2. phase' \in [Tasks -> Waiting \cup {"idle", "queued"}]
  OBVIOUS
<1>3. 1 \in 1..Len(lock) /\ lock[1] = t
  OBVIOUS
<1>4. ASSUME NEW i \in 2..Len(lock) PROVE lock[i] \in Tasks \ {t}
  <2>1. call[lock[i]].id = last.id + i /\ call[lock[1]].id = last.id + 1 /\ last.id \in Nat
    BY <1>3
  <2> QED
    BY <1>3, <2>1
<1>5. \A i \in 1..Len(lock) : phase'[lock[i]] # "idle"
  BY <1>1 DEF Waiting, Exchanging
<1>6. \A i \in 2..Len(lock) : phase'[lock[i]] = "queued"
  BY <1>1, <1>4
<1>7. \A u \in Tasks : phase'[u] # "idle" => \E i \in 1..Len(lock) : lock[i] = u
  BY <1>1, <1>3
<1> QED
  BY <1>2, <1>5, <1>6, <1>7

\* The head that leaves is in no other place, and the next has the next number.
LEMMA LeaveKeepsQueue ==
    ASSUME QueueInv, NEW t \in Tasks, Leaves(t)
    PROVE  QueueInv'
<1> USE DEF QueueInv, Leaves, Number, Owner
<1>1. lock' \in Seq(Tasks) /\ Len(lock') = Len(lock) - 1 /\ Len(lock) \in Nat \ {0}
      /\ \A i \in 1..Len(lock') : i + 1 \in 2..Len(lock) /\ lock'[i] = lock[i + 1]
  OBVIOUS
<1>2. 1 \in 1..Len(lock) /\ lock[1] = t
  OBVIOUS
<1>3. last'.id = last.id + 1 /\ last.id \in Nat
  BY <1>2
<1>4. \A i \in 2..Len(lock) : lock[i] \in Tasks \ {t}
  BY <1>2
<1>5. phase'[t] = "idle" /\ \A u \in Tasks \ {t} : phase'[u] = phase[u]
  OBVIOUS
<1>6. call'[t].id = 0 /\ \A u \in Tasks \ {t} : call'[u] = call[u]
  BY DEF NoCall
<1>7. phase' \in [Tasks -> Waiting \cup {"idle", "queued"}]
  OBVIOUS
<1>8. call' \in [Tasks -> [kind : Kinds, id : Nat]]
  BY DEF NoCall, Kinds
<1>9. last'.outcome \in Outcomes /\ last'.id \in Nat /\ calls' = last'.id + Len(lock')
  <2>1. calls = last.id + Len(lock) /\ calls' = calls /\ last'.outcome \in Outcomes
    OBVIOUS
  <2>2. PICK n \in Nat : n = last.id
    BY <1>3
  <2>3. PICK m \in Nat : m = Len(lock)
    BY <1>1
  <2>4. calls' = n + m /\ last'.id = n + 1 /\ Len(lock') = m - 1
    BY <1>1, <1>3, <2>1, <2>2, <2>3
  <2> HIDE DEF QueueInv, Leaves
  <2> QED
    BY <2>1, <2>4
<1>10. ASSUME NEW i \in 1..Len(lock') PROVE call'[lock'[i]].id = last'.id + i
  <2>1. call[lock[i + 1]].id = last.id + (i + 1) /\ lock'[i] = lock[i + 1] /\ i \in Nat
    BY <1>1
  <2>2. call'[lock'[i]] = call[lock[i + 1]]
    BY <1>1, <1>4, <1>6, <2>1
  <2> HIDE DEF QueueInv, Leaves
  <2> QED
    BY <1>3, <2>1, <2>2
<1>11. \A i \in 1..Len(lock') : phase'[lock'[i]] = "queued"
  BY <1>1, <1>4, <1>5
<1>12. ASSUME NEW u \in Tasks, phase'[u] # "idle" PROVE \E i \in 1..Len(lock') : lock'[i] = u
  <2>1. u # t /\ phase[u] # "idle"
    BY <1>5, <1>12
  <2>2. PICK i \in 1..Len(lock) : lock[i] = u
    BY <2>1
  <2>3. i - 1 \in 1..Len(lock') /\ lock'[i - 1] = u
    BY <1>1, <1>2, <2>1, <2>2
  <2> QED
    BY <2>3
<1> QED
  BY <1>1, <1>7, <1>8, <1>9, <1>10, <1>11, <1>12

\* Every move keeps the order.
LEMMA MovesKeepQueue == QueueInv /\ Moves => QueueInv'
<1>1. QueueInv /\ Stays => QueueInv'
  BY DEF QueueInv, Stays, Number
<1> QED
  BY <1>1, JoinKeepsQueue, GoOnKeepsQueue, LeaveKeepsQueue DEF Moves

\* What a call makes of its own phase.
LEMMA PhasesAreWaiting == \A kind \in Kinds : FirstPhase(kind) \in Waiting
  BY DEF Kinds, FirstPhase, Waiting, Exchanging

\* A call that returns leaves the head of the queue.
LEMMA ReturnLeaves ==
    ASSUME lock # <<>>, NEW t, Owner = t, NEW outcome \in Outcomes, NEW from,
           Returns(t, outcome, from), UNCHANGED calls
    PROVE  Leaves(t)
  BY DEF Returns, Leaves

\* Every step of the channel is a move.
LEMMA StepMoves == QueueInv /\ [Next]_vars => Moves
<1> SUFFICES ASSUME QueueInv, [Next]_vars PROVE Moves
  OBVIOUS
<1> USE DEF Overhears, Polls
<1>1. ASSUME NEW t \in Tasks, NEW kind \in Uses[t], Call(t, kind) PROVE Moves
  <2>1. kind \in Kinds
    BY AtAssumption, <1>1 DEF AtAssumption, Uses, Kinds
  <2>2. CASE lock = <<>>
    <3>1. lock' = Append(lock, t)
      BY <1>1, <2>2 DEF Call
    <3>2. Joins(t, FirstPhase(kind))
      BY <1>1, <2>1, <2>2, <3>1, PhasesAreWaiting DEF Call, Exchange, Joins
    <3> QED
      BY <2>1, <3>2, PhasesAreWaiting DEF Moves
  <2>3. CASE lock # <<>>
    <3>1. Joins(t, "queued")
      BY <1>1, <2>1, <2>3 DEF Call, Joins
    <3> QED
      BY <3>1 DEF Moves
  <2> QED
    BY <2>2, <2>3
<1>2. ASSUME NEW t \in Tasks, Begin(t) PROVE Moves
  <2>1. lock # <<>>
    BY <1>2 DEF Begin, QueueInv
  <2>2. call[t].kind \in Kinds
    BY DEF QueueInv
  <2>3. GoesOn(t, FirstPhase(call[t].kind))
    BY <1>2, <2>1, <2>2, PhasesAreWaiting DEF Begin, Exchange, GoesOn
  <2> QED
    BY <2>2, <2>3, PhasesAreWaiting DEF Moves
<1>3. ASSUME NEW t \in Tasks, NEW outcome \in Outcomes, NEW from, lock # <<>>, Owner = t,
             Returns(t, outcome, from), UNCHANGED calls PROVE Moves
  BY <1>3, ReturnLeaves DEF Moves
<1>4. ASSUME UNCHANGED <<lock, phase, call, calls, last>> PROVE Moves
  BY <1>4 DEF Moves, Stays
<1>5. ASSUME NEW t \in Tasks, ReadAnswer(t) PROVE Moves
  <2>1. lock # <<>> /\ Owner = t /\ calls' = calls /\ "ok" \in Outcomes /\ "error" \in Outcomes
    BY <1>5 DEF ReadAnswer, Outcomes
  <2>2. \/ \E k : Returns(t, "ok", k.id) \/ Returns(t, "error", k.id)
        \/ UNCHANGED <<lock, phase, call, seen, last, abandoned>>
    BY <1>5 DEF ReadAnswer
  <2> QED
    BY <1>3, <1>4, <2>1, <2>2
<1>6. ASSUME NEW t \in Tasks, ReadPrompt(t) PROVE Moves
  <2>1. lock # <<>> /\ Owner = t /\ calls' = calls /\ "error" \in Outcomes
    BY <1>6 DEF ReadPrompt, Outcomes
  <2>2. CASE Holds(rx, "prompt")
    <3>1. GoesOn(t, "answer")
      BY <1>6, <2>2 DEF ReadPrompt, GoesOn, Waiting, Exchanging
    <3> QED
      BY <3>1 DEF Moves, GoesOn
  <2>3. CASE ~ Holds(rx, "prompt")
    <3>1. \/ \E k : Returns(t, "error", k.id)
          \/ UNCHANGED <<lock, phase, call, seen, last, abandoned>>
      BY <1>6, <2>3 DEF ReadPrompt
    <3> QED
      BY <1>3, <1>4, <2>1, <3>1
  <2> QED
    BY <2>2, <2>3
<1>7. ASSUME NEW t \in Tasks, ReadEvent(t) PROVE Moves
  <2>1. lock # <<>> /\ Owner = t /\ calls' = calls /\ "event" \in Outcomes
    BY <1>7 DEF ReadEvent, Outcomes
  <2>2. \/ Returns(t, "event", 0)
        \/ UNCHANGED <<lock, phase, call, last, heard, cut, abandoned>>
    BY <1>7 DEF ReadEvent
  <2> QED
    BY <1>3, <1>4, <2>1, <2>2
<1>8. ASSUME NEW t \in Tasks, TimesOut(t) PROVE Moves
  BY <1>3, <1>8 DEF TimesOut, Outcomes
<1>9. ASSUME NEW a \in owed, ModemAnswers(a) PROVE Moves
  BY <1>4, <1>9 DEF ModemAnswers
<1>10. CASE CommandArrives
  BY <1>4, <1>10 DEF CommandArrives
<1>11. CASE UNCHANGED vars
  BY <1>4, <1>11 DEF vars
<1> QED
  BY <1>1, <1>2, <1>5, <1>6, <1>7, <1>8, <1>9, <1>10, <1>11 DEF Next, Runs

LEMMA InitQueue == Init => QueueInv
  BY DEF Init, QueueInv, NoCall, Kinds, Outcomes, Number

\* The queue keeps its order in every state.
THEOREM QueueHolds == Spec => []QueueInv
<1>1. QueueInv /\ [Next]_vars => QueueInv'
  BY StepMoves, MovesKeepQueue
<1> QED
  BY InitQueue, <1>1, PTL DEF Spec

LEMMA QueueGivesOneExchange == QueueInv => OneExchange
<1> SUFFICES ASSUME QueueInv PROVE OneExchange
  OBVIOUS
<1>1. \A t : t \in ToSet(lock) <=> \E i \in 1..Len(lock) : lock[i] = t
  BY DEF ToSet, QueueInv
<1> QED
  BY <1>1 DEF OneExchange, QueueInv

\* No two exchanges overlap, and no lock that was handed on is lost.
THEOREM OneAtATime == Spec => []OneExchange
  BY QueueHolds, QueueGivesOneExchange, PTL

-----------------------------------------------------------------------------
(* The types. *)

AnswerTypes == {"ok", "result", "prompt", "error"}
EventTypes == {"start", "topic", "payload", "end"}
AnyToken == [type : AnswerTypes \cup EventTypes, id : Nat]
AnyAnswer == [id : Nat, tokens : Seq(AnswerTypes) \ {<<>>}]

\* What waits, what is owed and what has been returned, by type alone: the numbers are
\* bounded by AnswerInv and EventInv.
Typed ==
    /\ rx \in Seq(AnyToken) /\ seen \in Seq(AnyToken)
    /\ owed \subseteq AnyAnswer /\ input \in Nat
    /\ calls \in Nat /\ events \in Nat /\ part \in 1..4
    /\ call \in [Tasks -> [kind : Kinds, id : 0..calls]]
    /\ last \in [outcome : Outcomes, id : Nat, from : Nat]
    /\ heard \in Seq(Nat)

\* A nonempty set of naturals has a least element, the one Min chooses.
LEMMA MinExists ==
  ASSUME NEW S \in SUBSET Nat, S # {}
  PROVE  Min(S) \in S /\ \A y \in S : Min(S) <= y
<1> DEFINE R == {ss \in Nat \X Nat : ss[1] < ss[2]}
<1>1. IsWellFoundedOn(R, Nat)
  BY NatLessThanWellFounded DEF OpToRel
<1>2. \A x, y \in Nat : <<y, x>> \in R <=> y < x
  OBVIOUS
<1>3. \E x \in S : \A y \in S : x <= y
  <2> HIDE DEF R
  <2>1. PICK x \in S : \A y \in S : ~ (<<y, x>> \in R)
    BY <1>1, WFMin
  <2>2. \A y \in S : x <= y
    <3> TAKE y \in S
    <3>1. x \in Nat /\ y \in Nat
      OBVIOUS
    <3>2. ~ (y < x)
      BY <2>1, <1>2, <3>1, Zenon
    <3> QED BY <3>1, <3>2
  <2> QED BY <2>2
<1> QED BY <1>3 DEF Min

\* What is in a sequence stands at one of its places.
LEMMA InSequence ==
  ASSUME NEW S, NEW s \in Seq(S)
  PROVE  \A e : e \in ToSet(s) <=> \E i \in 1..Len(s) : s[i] = e
BY DEF ToSet

\* The tokens of a text that grows.
LEMMA TokensOfText ==
  ASSUME NEW S, NEW s \in Seq(S)
  PROVE  /\ ToSet(s) \subseteq S
         /\ \A e \in S : Append(s, e) \in Seq(S) /\ ToSet(Append(s, e)) = ToSet(s) \cup {e}
         /\ \A r \in Seq(S) : s \o r \in Seq(S) /\ ToSet(s \o r) = ToSet(s) \cup ToSet(r)
<1>1. ToSet(s) \subseteq S
  BY InSequence
<1>2. ASSUME NEW e \in S PROVE Append(s, e) \in Seq(S) /\ ToSet(Append(s, e)) = ToSet(s) \cup {e}
  <2> DEFINE q == Append(s, e)
  <2>1. /\ q \in Seq(S) /\ Len(q) = Len(s) + 1 /\ Len(s) \in Nat
        /\ \A i \in 1..Len(s) : q[i] = s[i]
        /\ q[Len(s) + 1] = e
    OBVIOUS
  <2> HIDE DEF q
  <2>2. \A x : x \in ToSet(q) <=> x \in ToSet(s) \/ x = e
    <3> TAKE x
    <3>1. /\ x \in ToSet(q) <=> \E i \in 1..Len(q) : q[i] = x
          /\ x \in ToSet(s) <=> \E i \in 1..Len(s) : s[i] = x
      BY <2>1, InSequence
    <3>2. \A i \in 1..Len(q) : i \in 1..Len(s) \/ i = Len(s) + 1
      BY <2>1
    <3>3. Len(s) + 1 \in 1..Len(q) /\ \A i \in 1..Len(s) : i \in 1..Len(q)
      BY <2>1
    <3> QED BY <2>1, <3>1, <3>2, <3>3
  <2> QED BY <2>1, <2>2 DEF q
<1>3. ASSUME NEW r \in Seq(S) PROVE s \o r \in Seq(S) /\ ToSet(s \o r) = ToSet(s) \cup ToSet(r)
  <2> DEFINE q == s \o r
  <2>1. /\ q \in Seq(S) /\ Len(q) = Len(s) + Len(r) /\ Len(s) \in Nat /\ Len(r) \in Nat
        /\ \A i \in 1..Len(s) : q[i] = s[i]
        /\ \A i \in 1..Len(r) : q[Len(s) + i] = r[i]
    OBVIOUS
  <2> HIDE DEF q
  <2>2. ASSUME NEW i \in 1..Len(q) PROVE q[i] \in ToSet(s) \/ q[i] \in ToSet(r)
    <3>1. CASE i \in 1..Len(s)
      BY <2>1, <3>1, InSequence
    <3>2. CASE i \notin 1..Len(s)
      <4>1. i - Len(s) \in 1..Len(r) /\ Len(s) + (i - Len(s)) = i
        BY <2>1, <3>2
      <4>2. q[i] = r[i - Len(s)]
        BY <2>1, <4>1
      <4> QED BY <4>1, <4>2, InSequence
    <3> QED BY <3>1, <3>2
  <2>3. ASSUME NEW i \in 1..Len(s) PROVE s[i] \in ToSet(q)
    <3>1. i \in 1..Len(q) /\ q[i] = s[i]
      BY <2>1
    <3> QED BY <2>1, <3>1, InSequence
  <2>4. ASSUME NEW i \in 1..Len(r) PROVE r[i] \in ToSet(q)
    <3>1. Len(s) + i \in 1..Len(q) /\ q[Len(s) + i] = r[i]
      BY <2>1
    <3> QED BY <2>1, <3>1, InSequence
  <2>5. \A x : x \in ToSet(q) <=> x \in ToSet(s) \/ x \in ToSet(r)
    <3> TAKE x
    <3>1. /\ x \in ToSet(q) => \E i \in 1..Len(q) : q[i] = x
          /\ x \in ToSet(s) => \E i \in 1..Len(s) : s[i] = x
          /\ x \in ToSet(r) => \E i \in 1..Len(r) : r[i] = x
      BY <2>1, InSequence
    <3> QED BY <2>2, <2>3, <2>4, <3>1
  <2> QED BY <2>1, <2>5 DEF q
<1> QED BY <1>1, <1>2, <1>3

\* The parts of a command, each of a type of its own.
LEMMA PartTypes == /\ ToSet(EventParts) = EventTypes
                   /\ \A n \in 1..4 : EventParts[n] \in EventTypes
<1>1. EventParts \in Seq(EventTypes) /\ Len(EventParts) = 4
      /\ EventParts[1] = "start" /\ EventParts[2] = "topic"
      /\ EventParts[3] = "payload" /\ EventParts[4] = "end"
  BY DEF EventParts, EventTypes
<1>2. \A e : e \in ToSet(EventParts) <=> \E n \in 1..4 : EventParts[n] = e
  BY <1>1, InSequence
<1>3. \A n \in 1..4 : n = 1 \/ n = 2 \/ n = 3 \/ n = 4
  OBVIOUS
<1> QED BY <1>1, <1>2, <1>3 DEF EventTypes

\* The command that the parser finds is that of the first payload, which is in the text.
LEMMA ParsedIsThere ==
  ASSUME NEW text \in Seq(AnyToken), Holds(text, "topic"), Holds(text, "payload")
  PROVE  \E m \in 1..Len(text) :
            /\ text[m].type = "payload" /\ text[m].id \in Nat /\ Parsed(text) = <<text[m].id>>
            /\ \A i \in 1..Len(text) : text[i].type = "payload" => m <= i
<1> DEFINE P == {i \in DOMAIN text : text[i].type = "payload"}
<1>1. \A e : e \in ToSet(text) <=> \E i \in 1..Len(text) : text[i] = e
  BY InSequence
<1>2. P \in SUBSET Nat /\ P # {} /\ P = {i \in 1..Len(text) : text[i].type = "payload"}
  BY <1>1 DEF Holds, Tokens
<1>3. Parsed(text) = <<text[Min(P)].id>>
  BY DEF Parsed
<1> HIDE DEF P
<1>4. Min(P) \in P /\ \A y \in P : Min(P) <= y
  BY <1>2, MinExists
<1>5. Min(P) \in 1..Len(text) /\ text[Min(P)].type = "payload"
      /\ \A i \in 1..Len(text) : text[i].type = "payload" => Min(P) <= i
  BY <1>2, <1>4
<1>6. text[Min(P)] \in AnyToken
  BY <1>5
<1> QED BY <1>3, <1>5, <1>6 DEF AnyToken

LEMMA ParsedTyped == ASSUME NEW text \in Seq(AnyToken) PROVE Parsed(text) \in Seq(Nat)
<1>1. CASE Holds(text, "topic") /\ Holds(text, "payload")
  <2>1. PICK id \in Nat : Parsed(text) = <<id>>
    BY <1>1, ParsedIsThere
  <2> QED BY <2>1
<1>2. CASE ~ (Holds(text, "topic") /\ Holds(text, "payload"))
  BY <1>2 DEF Parsed
<1> QED BY <1>1, <1>2

\* The pieces of a step.
ChannelTyped ==
    rx \in Seq(AnyToken) /\ seen \in Seq(AnyToken) /\ owed \subseteq AnyAnswer /\ input \in Nat
CallsTyped ==
    /\ calls \in Nat /\ call \in [Tasks -> [kind : Kinds, id : 0..calls]]
    /\ last \in [outcome : Outcomes, id : Nat, from : Nat]
CloudTyped ==
    /\ events \in Nat /\ part \in 1..4 /\ heard \in Seq(Nat)

LEMMA AnswerTyped ==
  ASSUME NEW id \in Nat, NEW tokens \in Seq(AnswerTypes) \ {<<>>}
  PROVE  Answer(id, tokens) \in AnyAnswer
BY DEF Answer, AnyAnswer

\* What the modem owes for a line is well formed.
LEMMA LineTyped ==
  ASSUME ChannelTyped, NEW id \in Nat, NEW kind \in Kinds \ {"listen"}, GetsLine(id, kind)
  PROVE  owed' \subseteq AnyAnswer /\ input' \in Nat
<1>1. <<"ok">> \in Seq(AnswerTypes) \ {<<>>}
  BY DEF AnswerTypes
<1>2. Expected(kind) \in Seq(AnswerTypes) \ {<<>>}
  BY DEF Expected, Kinds, AnswerTypes
<1>3. Answer(id, Expected(kind)) \in AnyAnswer /\ Answer(input, <<"ok">>) \in AnyAnswer
  BY <1>1, <1>2, AnswerTyped DEF ChannelTyped
<1>4. /\ owed' \subseteq owed \cup {Answer(id, Expected(kind)), Answer(input, <<"ok">>)}
      /\ input' \in {input, 0}
  BY DEF GetsLine, modem
<1> QED BY <1>3, <1>4 DEF ChannelTyped

LEMMA DataTyped ==
  ASSUME ChannelTyped, NEW id \in Nat, GetsData(id)
  PROVE  owed' \subseteq AnyAnswer /\ input' \in Nat
<1>1. <<"ok">> \in Seq(AnswerTypes) \ {<<>>} /\ <<"error">> \in Seq(AnswerTypes) \ {<<>>}
  BY DEF AnswerTypes
<1> QED BY <1>1, AnswerTyped DEF GetsData, ChannelTyped

LEMMA ExchangeTyped ==
  ASSUME ChannelTyped, NEW t, NEW kind \in Kinds, NEW id \in Nat, Exchange(t, kind, id)
  PROVE  ChannelTyped'
<1>1. seen' = <<>> /\ <<>> \in Seq(AnyToken)
  BY DEF Exchange
<1>2. CASE kind = "listen"
  BY <1>1, <1>2 DEF Exchange, modem, ChannelTyped
<1>3. CASE kind # "listen"
  <2>1. rx' = <<>> /\ GetsLine(id, kind)
    BY <1>3 DEF Exchange
  <2> QED BY <1>1, <1>3, <2>1, LineTyped DEF ChannelTyped
<1> QED BY <1>2, <1>3

LEMMA ReturnTyped ==
  ASSUME CallsTyped, NEW t \in Tasks, NEW outcome \in Outcomes, NEW from \in Nat,
         Returns(t, outcome, from), UNCHANGED calls
  PROVE  CallsTyped' /\ seen' = <<>>
<1>1. NoCall \in [kind : Kinds, id : 0..calls] /\ Number(t) \in Nat
  BY DEF NoCall, Kinds, CallsTyped, Number
<1> QED BY <1>1 DEF Returns, CallsTyped

\* A token that arrives.
LEMMA ArrivalTyped ==
  ASSUME ChannelTyped, NEW type \in AnswerTypes \cup EventTypes, NEW id \in Nat,
         rx' = Append(rx, Token(type, id))
  PROVE  rx' \in Seq(AnyToken)
<1>1. Token(type, id) \in AnyToken
  BY DEF Token, AnyToken
<1> QED BY <1>1, TokensOfText DEF ChannelTyped

LEMMA ArrivalInBounds ==
  ASSUME CommandArrives, events \in Nat, part \in 1..4
  PROVE  /\ events' \in Nat /\ part' \in 1..4
         /\ rx' = Append(rx, Token(EventParts[part'], events'))
         /\ \/ part < 4 /\ part' = part + 1 /\ events' = events
            \/ part = 4 /\ part' = 1 /\ events' = events + 1
<1>1. Len(EventParts) = 4
  BY DEF EventParts
<1> QED BY <1>1 DEF CommandArrives

LEMMA TypedStep == Typed /\ QueueInv /\ [Next]_vars => Typed'
<1> SUFFICES ASSUME ChannelTyped, CallsTyped, CloudTyped, QueueInv, [Next]_vars
             PROVE  ChannelTyped' /\ CallsTyped' /\ CloudTyped'
  BY DEF Typed, ChannelTyped, CallsTyped, CloudTyped
<1> DEFINE Goal == ChannelTyped' /\ CallsTyped' /\ CloudTyped'
<1>0. <<>> \in Seq(AnyToken)
  OBVIOUS
<1>1. ASSUME UNCHANGED <<calls, call, last>> PROVE CallsTyped'
  BY <1>1 DEF CallsTyped
<1>2. ASSUME UNCHANGED <<events, part, heard>> PROVE CloudTyped'
  BY <1>2 DEF CloudTyped
<1>3. ASSUME NEW t \in Tasks, NEW kind \in Uses[t], Call(t, kind) PROVE Goal
  <2>1. kind \in Kinds
    BY AtAssumption DEF AtAssumption, Uses, Kinds
  <2>2. CallsTyped'
    BY <1>3, <2>1 DEF Call, CallsTyped
  <2>3. ChannelTyped'
    <3>1. calls + 1 \in Nat
      BY DEF CallsTyped
    <3>2. CASE lock = <<>>
      BY <1>3, <2>1, <3>1, <3>2, ExchangeTyped DEF Call
    <3>3. CASE lock # <<>>
      BY <1>3, <3>3 DEF Call, modem, ChannelTyped
    <3> QED BY <3>2, <3>3
  <2>4. CloudTyped'
    BY <1>2, <1>3 DEF Call, cloud
  <2> QED BY <2>2, <2>3, <2>4
<1>4. ASSUME NEW t \in Tasks, Begin(t) PROVE Goal
  <2>1. call[t].kind \in Kinds /\ Number(t) \in Nat
    BY DEF CallsTyped, Number
  <2>2. ChannelTyped'
    BY <1>4, <2>1, ExchangeTyped DEF Begin
  <2> QED BY <1>1, <1>2, <1>4, <2>2 DEF Begin, cloud
<1>5. ASSUME NEW t \in Tasks, ReadAnswer(t) PROVE Goal
  <2>1. rx' = <<>> /\ UNCHANGED <<owed, input, calls, events, part, heard>>
    BY <1>5 DEF ReadAnswer, Overhears, Polls, modem, cloud
  <2>2. \/ \E k \in ToSet(rx) : Returns(t, "ok", k.id) \/ Returns(t, "error", k.id)
        \/ UNCHANGED <<call, seen, last>>
    BY <1>5 DEF ReadAnswer, Tokens
  <2>3. \A k \in ToSet(rx) : k.id \in Nat
    <3>1. ToSet(rx) \subseteq AnyToken
      BY TokensOfText DEF ChannelTyped
    <3> QED BY <3>1 DEF AnyToken
  <2>4. CallsTyped' /\ (seen' = <<>> \/ seen' = seen)
    BY <1>1, <2>1, <2>2, <2>3, ReturnTyped DEF Outcomes
  <2> QED BY <1>0, <1>2, <2>1, <2>4 DEF ChannelTyped
<1>6. ASSUME NEW t \in Tasks, ReadPrompt(t) PROVE Goal
  <2>1. rx' = <<>> /\ UNCHANGED <<calls, events, part, heard>>
    BY <1>6 DEF ReadPrompt, Overhears, Polls, cloud
  <2>2. \/ GetsData(Number(t)) /\ UNCHANGED <<call, seen, last>>
        \/ UNCHANGED modem /\ \E k \in ToSet(rx) : Returns(t, "error", k.id)
        \/ UNCHANGED modem /\ UNCHANGED <<call, seen, last>>
    BY <1>6 DEF ReadPrompt, Tokens
  <2>3. \A k \in ToSet(rx) : k.id \in Nat
    <3>1. ToSet(rx) \subseteq AnyToken
      BY TokensOfText DEF ChannelTyped
    <3> QED BY <3>1 DEF AnyToken
  <2>4. CallsTyped' /\ (seen' = <<>> \/ seen' = seen)
    BY <1>1, <2>1, <2>2, <2>3, ReturnTyped DEF Outcomes
  <2>5. Number(t) \in Nat
    BY DEF CallsTyped, Number
  <2>6. owed' \subseteq AnyAnswer /\ input' \in Nat
    BY <2>2, <2>5, DataTyped DEF modem, ChannelTyped
  <2> QED BY <1>0, <1>2, <2>1, <2>4, <2>6 DEF ChannelTyped
<1>7. ASSUME NEW t \in Tasks, ReadEvent(t) PROVE Goal
  <2> DEFINE text == seen \o rx
  <2>1. rx' = <<>> /\ UNCHANGED <<owed, input, calls, events, part>>
    BY <1>7 DEF ReadEvent, Polls, modem, cloud
  <2>2. text \in Seq(AnyToken)
    BY TokensOfText DEF ChannelTyped
  <2>3. \/ Returns(t, "event", 0) /\ heard' = heard \o Parsed(text)
        \/ seen' = text /\ UNCHANGED <<call, last, heard>>
    BY <1>7 DEF ReadEvent
  <2> HIDE DEF text
  <2>4. CallsTyped' /\ seen' \in Seq(AnyToken)
    BY <1>0, <1>1, <2>1, <2>2, <2>3, ReturnTyped DEF Outcomes
  <2>5. heard' \in Seq(Nat)
    <3>1. heard \in Seq(Nat) /\ Parsed(text) \in Seq(Nat)
      BY <2>2, ParsedTyped DEF CloudTyped
    <3>2. heard \o Parsed(text) \in Seq(Nat)
      BY <3>1
    <3> QED BY <2>3, <3>1, <3>2
  <2> QED BY <1>0, <2>1, <2>4, <2>5 DEF ChannelTyped, CloudTyped
<1>8. ASSUME NEW t \in Tasks, TimesOut(t) PROVE Goal
  <2>1. CallsTyped' /\ seen' = <<>>
    BY <1>8, ReturnTyped DEF TimesOut, Outcomes
  <2> QED BY <1>0, <1>2, <1>8, <2>1 DEF TimesOut, modem, cloud, ChannelTyped
<1>9. ASSUME NEW a \in owed, ModemAnswers(a) PROVE Goal
  <2>1. a.id \in Nat /\ a.tokens \in Seq(AnswerTypes) /\ a.tokens # <<>>
    BY DEF ChannelTyped, AnyAnswer
  <2>2. Head(a.tokens) \in AnswerTypes /\ Tail(a.tokens) \in Seq(AnswerTypes) /\ "error" \in AnswerTypes
    BY <2>1 DEF AnswerTypes
  <2>3. rx' \in Seq(AnyToken)
    BY <1>9, <2>1, <2>2, ArrivalTyped DEF ModemAnswers
  <2>4. owed' \subseteq AnyAnswer
    <3>1. \/ owed' \subseteq owed
          \/ /\ Tail(a.tokens) # <<>>
             /\ owed' \subseteq owed \cup {Answer(a.id, Tail(a.tokens))}
      BY <1>9 DEF ModemAnswers
    <3> QED BY <2>1, <2>2, <3>1, AnswerTyped DEF ChannelTyped
  <2>5. input' \in {input, a.id} /\ UNCHANGED <<seen, calls, call, last, events, part, heard>>
    BY <1>9 DEF ModemAnswers, cloud
  <2> QED BY <1>1, <1>2, <2>1, <2>3, <2>4, <2>5 DEF ChannelTyped
<1>10. CASE CommandArrives
  <2>1. UNCHANGED <<heard, seen, owed, input, calls, call, last>>
    BY <1>10 DEF CommandArrives, modem
  <2>2. events' \in Nat /\ part' \in 1..4 /\ rx' = Append(rx, Token(EventParts[part'], events'))
    BY <1>10, ArrivalInBounds DEF CloudTyped
  <2>3. EventParts[part'] \in AnswerTypes \cup EventTypes
    BY <2>2, PartTypes
  <2> QED BY <1>1, <2>1, <2>2, <2>3, ArrivalTyped DEF CloudTyped, ChannelTyped
<1>11. CASE UNCHANGED vars
  BY <1>1, <1>2, <1>11 DEF vars, modem, cloud, ChannelTyped
<1> QED
  BY <1>3, <1>4, <1>5, <1>6, <1>7, <1>8, <1>9, <1>10, <1>11 DEF Next, Runs

-----------------------------------------------------------------------------
(* Whose answer is whose. *)

\* The number of the call on the line, if its exchange awaits something of the modem.
OnLine == {id \in {last.id + 1} : lock # <<>> /\ phase[Owner] \in Exchanging}

\* The calls the modem may still answer: the one on the line and those it owed when they ended.
Answerable == OnLine \cup abandoned

\* AnswersAreOwn needs to know what an answer on its way can be: all that the modem owes, and
\* all that waits in the UART while an exchange is on the line, belongs to an answerable call.
AnswerInv ==
    /\ abandoned \subseteq 1..last.id
    /\ \A a \in owed : a.id \in Answerable
    /\ input # 0 => input \in Answerable
    /\ OnLine # {} => \A k \in ToSet(rx) : k.type \in AnswerTypes => k.id \in Answerable
    /\ AnswersAreOwn

\* The owner of the lock makes the next call to return.
LEMMA OwnerIsNext ==
  ASSUME QueueInv, lock # <<>>
  PROVE  Owner \in Tasks /\ Number(Owner) = last.id + 1
<1>1. 1 \in 1..Len(lock)
  BY DEF QueueInv
<1> QED BY <1>1 DEF QueueInv, Owner

\* No exchange is on the line once its owner has left: the next in the queue has yet to run.
LEMMA LineIsFree ==
  ASSUME QueueInv, NEW t \in Tasks, Leaves(t)
  PROVE  OnLine' = {}
<1> SUFFICES ASSUME lock' # <<>>, phase'[Owner'] \in Exchanging PROVE FALSE
  BY DEF OnLine
<1>1. lock \in Seq(Tasks) /\ lock # <<>> /\ lock' = Tail(lock) /\ lock[1] = t
  BY DEF QueueInv, Leaves, Owner
<1>2. 1 \in 1..Len(lock) /\ 2 \in 1..Len(lock) /\ 2 \in 2..Len(lock) /\ lock'[1] = lock[2]
  BY <1>1
<1>3. lock[2] \in Tasks /\ phase[lock[2]] = "queued"
  BY <1>1, <1>2 DEF QueueInv
<1>4. lock[2] # t
  <2>1. Number(lock[1]) = last.id + 1 /\ Number(lock[2]) = last.id + 2 /\ last.id \in Nat
    BY <1>2 DEF QueueInv
  <2> QED BY <1>1, <2>1
<1>5. phase'[lock'[1]] = "queued"
  BY <1>2, <1>3, <1>4 DEF QueueInv, Leaves
<1> QED BY <1>5 DEF Owner, Exchanging

\* What a line or data make the modem owe is owed to the call they are for or to the upload
\* that it awaits.
LEMMA LineOwes ==
  ASSUME NEW G, \A a \in owed : a.id \in G, input # 0 => input \in G, NEW id \in G, NEW kind,
         GetsLine(id, kind) \/ GetsData(id)
  PROVE  (\A a \in owed' : a.id \in G) /\ (input' # 0 => input' \in G)
<1>1. input' \in {input, 0}
  BY DEF GetsLine, GetsData, modem
<1>2. \A a \in owed' : a \in owed \/ a.id = id \/ (input # 0 /\ a.id = input)
  BY DEF GetsLine, GetsData, Answer, modem
<1> QED BY <1>1, <1>2

\* The owner of the lock goes on the line: what was in the UART is gone, unless it only listens.
LEMMA ExchangeOwnAnswers ==
  ASSUME AnswerInv, OnLine = {}, NEW t \in Tasks, phase \in [Tasks -> Waiting \cup {"idle", "queued"}],
         lock' # <<>>, Owner' = t, UNCHANGED <<last, abandoned>>,
         NEW kind \in Kinds, Exchange(t, kind, last.id + 1)
  PROVE  AnswerInv'
<1>1. phase'[t] = FirstPhase(kind) /\ AnswersAreOwn'
  BY DEF Exchange, AnswerInv, AnswersAreOwn
<1>2. CASE kind = "listen"
  <2>1. OnLine' = {} /\ UNCHANGED <<owed, input>>
    BY <1>1, <1>2 DEF Exchange, FirstPhase, OnLine, Exchanging, modem
  <2> QED BY <1>1, <2>1 DEF AnswerInv, Answerable
<1>3. CASE kind # "listen"
  <2> DEFINE G == {last.id + 1} \cup abandoned
  <2>1. rx' = <<>> /\ GetsLine(last.id + 1, kind)
    BY <1>3 DEF Exchange
  <2>2. Answerable' = G
    BY <1>1, <1>3 DEF Answerable, OnLine, FirstPhase, Exchanging, Kinds
  <2>3. (\A a \in owed : a.id \in G) /\ (input # 0 => input \in G)
    BY DEF AnswerInv, Answerable
  <2>4. (\A a \in owed' : a.id \in G) /\ (input' # 0 => input' \in G)
    BY <2>1, <2>3, LineOwes
  <2>5. ToSet(rx') = {}
    BY <2>1 DEF ToSet
  <2> QED BY <1>1, <2>2, <2>4, <2>5 DEF AnswerInv
<1> QED BY <1>2, <1>3

\* A call that ends while it is owed something is remembered among the abandoned.
LEMMA ReturnOwnAnswers ==
  ASSUME AnswerInv, Typed, QueueInv, lock # <<>>, NEW t \in Tasks, Owner = t,
         NEW outcome \in Outcomes, NEW from, Returns(t, outcome, from),
         outcome \in {"ok", "error"} => from \in {last.id + 1} \cup abandoned,
         UNCHANGED <<modem, calls>>
  PROVE  AnswerInv'
<1>1. Number(t) = last.id + 1 /\ last.id \in Nat
  BY OwnerIsNext DEF Typed
<1>2. OnLine' = {}
  BY ReturnLeaves, LineIsFree
<1>3. OnLine \subseteq {last.id + 1}
  BY DEF OnLine
<1>4. abandoned' = abandoned \cup {id \in {last.id + 1} : Owes(id)}
  BY <1>1 DEF Returns
<1>5. last'.id = last.id + 1 /\ last'.outcome = outcome /\ last'.from = from
  BY <1>1 DEF Returns
<1>6. \A a \in owed' : a.id \in abandoned'
  BY <1>3, <1>4 DEF AnswerInv, Answerable, Owes, modem
<1>7. input' # 0 => input' \in abandoned'
  BY <1>3, <1>4 DEF AnswerInv, Answerable, Owes, modem
<1>8. abandoned' \subseteq 1..last'.id
  <2>1. abandoned \subseteq 1..last.id /\ abandoned' \subseteq abandoned \cup {last.id + 1}
    BY <1>4 DEF AnswerInv
  <2>2. 1..last.id \subseteq 1..(last.id + 1) /\ last.id + 1 \in 1..(last.id + 1)
    BY <1>1
  <2> QED BY <1>5, <2>1, <2>2
<1>9. AnswersAreOwn'
  BY <1>4, <1>5 DEF AnswersAreOwn
<1> QED BY <1>2, <1>6, <1>7, <1>8, <1>9 DEF AnswerInv, Answerable

\* A poll that is not the last, and whatever else leaves the line and the modem alone.
LEMMA QuietOwnAnswers ==
  ASSUME AnswerInv, OnLine' = OnLine, UNCHANGED <<modem, last, abandoned>>,
         \A k \in ToSet(rx') : k.type \in AnswerTypes => k \in ToSet(rx)
  PROVE  AnswerInv'
BY DEF AnswerInv, Answerable, AnswersAreOwn, modem

LEMMA AnswerStep == Typed /\ QueueInv /\ AnswerInv /\ [Next]_vars => AnswerInv'
<1> SUFFICES ASSUME Typed, QueueInv, AnswerInv, [Next]_vars PROVE AnswerInv'
  OBVIOUS
<1>1. last.id \in Nat /\ phase \in [Tasks -> Waiting \cup {"idle", "queued"}] /\ lock \in Seq(Tasks)
  BY DEF Typed, QueueInv
<1>2. ASSUME UNCHANGED <<lock, phase, last>> PROVE OnLine' = OnLine
  BY <1>2 DEF OnLine, Owner
<1>3. ASSUME NEW t \in Tasks, NEW kind \in Uses[t], Call(t, kind) PROVE AnswerInv'
  <2>1. kind \in Kinds
    BY AtAssumption DEF AtAssumption, Uses, Kinds
  <2>2. CASE lock = <<>>
    <3>1. calls = last.id /\ OnLine = {}
      BY <1>1, <2>2 DEF QueueInv, OnLine
    <3>2. lock' = <<t>> /\ Exchange(t, kind, last.id + 1) /\ UNCHANGED <<last, abandoned>>
      BY <1>3, <2>2, <3>1 DEF Call
    <3>3. lock' # <<>> /\ Owner' = t
      BY <3>2 DEF Owner
    <3> QED BY <1>1, <2>1, <3>1, <3>2, <3>3, ExchangeOwnAnswers
  <2>3. CASE lock # <<>>
    <3>1. /\ lock' = Append(lock, t) /\ phase' = [phase EXCEPT ![t] = "queued"] /\ phase[t] = "idle"
          /\ UNCHANGED <<rx, modem, last, abandoned>>
      BY <1>3, <2>3 DEF Call
    <3>2. lock' # <<>> /\ Owner' = Owner /\ Owner \in Tasks /\ phase[Owner] # "idle"
      <4>1. 1 \in 1..Len(lock)
        BY <1>1, <2>3
      <4>2. lock' # <<>> /\ lock'[1] = lock[1] /\ lock[1] \in Tasks
        BY <1>1, <3>1, <4>1
      <4>3. phase[lock[1]] # "idle"
        BY <4>1 DEF QueueInv
      <4> QED BY <4>2, <4>3 DEF Owner
    <3>3. OnLine' = OnLine
      BY <1>1, <2>3, <3>1, <3>2 DEF OnLine
    <3> QED BY <3>1, <3>3, QuietOwnAnswers
  <2> QED BY <2>2, <2>3
<1>4. ASSUME NEW t \in Tasks, Begin(t) PROVE AnswerInv'
  <2>1. phase[t] = "queued" /\ Owner = t /\ Exchange(t, call[t].kind, Number(t))
        /\ UNCHANGED <<lock, last, abandoned>>
    BY <1>4 DEF Begin
  <2>2. lock # <<>> /\ call[t].kind \in Kinds
    BY <2>1 DEF QueueInv
  <2>3. Number(t) = last.id + 1 /\ OnLine = {} /\ Owner' = t /\ lock' # <<>>
    BY <2>1, <2>2, OwnerIsNext DEF OnLine, Exchanging, Owner
  <2> QED BY <1>1, <2>1, <2>2, <2>3, ExchangeOwnAnswers
<1>5. ASSUME NEW t \in Tasks, lock # <<>>, Owner = t, phase[t] \in Exchanging,
             NEW k \in ToSet(rx), k.type \in AnswerTypes,
             NEW outcome \in {"ok", "error"}, Returns(t, outcome, k.id), UNCHANGED <<modem, calls>>
      PROVE  AnswerInv'
  <2>1. k.id \in {last.id + 1} \cup abandoned
    BY <1>5 DEF AnswerInv, OnLine, Answerable
  <2>2. outcome \in Outcomes
    BY DEF Outcomes
  <2> QED BY <1>5, <2>1, <2>2, ReturnOwnAnswers
<1>6. ASSUME UNCHANGED <<lock, phase, last, abandoned, modem>>, rx' = <<>> PROVE AnswerInv'
  <2>1. ToSet(rx') = {}
    BY <1>6 DEF ToSet
  <2> QED BY <1>2, <1>6, <2>1, QuietOwnAnswers
<1>7. ASSUME NEW t \in Tasks, ReadAnswer(t) PROVE AnswerInv'
  <2>1. /\ lock # <<>> /\ Owner = t /\ phase[t] \in Exchanging /\ rx' = <<>>
        /\ UNCHANGED <<modem, calls>>
    BY <1>7 DEF ReadAnswer, Overhears, Polls, Exchanging
  <2>2. \/ \E k \in ToSet(rx), outcome \in {"ok", "error"} :
              k.type \in {"ok", "result", "error"} /\ Returns(t, outcome, k.id)
        \/ UNCHANGED <<lock, phase, last, abandoned>>
    BY <1>7 DEF ReadAnswer, Tokens, Marker
  <2> QED BY <1>5, <1>6, <2>1, <2>2 DEF AnswerTypes
<1>8. ASSUME NEW t \in Tasks, ReadPrompt(t) PROVE AnswerInv'
  <2>1. lock # <<>> /\ Owner = t /\ phase[t] \in Exchanging /\ rx' = <<>> /\ UNCHANGED calls
    BY <1>8 DEF ReadPrompt, Overhears, Polls, Exchanging
  <2>2. CASE Holds(rx, "prompt")
    <3>1. /\ phase' = [phase EXCEPT ![t] = "answer"] /\ GetsData(Number(t))
          /\ UNCHANGED <<lock, last, abandoned>>
      BY <1>8, <2>2 DEF ReadPrompt
    <3>2. OnLine = {last.id + 1} /\ OnLine' = OnLine /\ Number(t) = last.id + 1
      BY <1>1, <2>1, <3>1, OwnerIsNext DEF OnLine, Exchanging, Owner
    <3>3. Answerable' = Answerable /\ Number(t) \in Answerable
      BY <3>1, <3>2 DEF Answerable
    <3>4. (\A a \in owed : a.id \in Answerable) /\ (input # 0 => input \in Answerable)
      BY DEF AnswerInv
    <3> DEFINE G == Answerable
    <3> HIDE DEF G
    <3>5. (\A a \in owed' : a.id \in G) /\ (input' # 0 => input' \in G)
      BY <3>1, <3>3, <3>4, LineOwes DEF G
    <3>6. ToSet(rx') = {} /\ AnswersAreOwn'
      BY <2>1, <3>1 DEF ToSet, AnswerInv, AnswersAreOwn
    <3>7. abandoned' \subseteq 1..last'.id
      BY <3>1 DEF AnswerInv
    <3> QED BY <3>3, <3>5, <3>6, <3>7 DEF AnswerInv, G
  <2>3. CASE ~ Holds(rx, "prompt")
    <3>1. \/ \E k \in ToSet(rx) : k.type = "error" /\ Returns(t, "error", k.id)
          \/ UNCHANGED <<lock, phase, last, abandoned>>
      BY <1>8, <2>3 DEF ReadPrompt, Tokens
    <3>2. UNCHANGED modem
      BY <1>8, <2>3 DEF ReadPrompt
    <3> QED BY <1>5, <1>6, <2>1, <3>1, <3>2 DEF AnswerTypes
  <2> QED BY <2>2, <2>3
<1>9. ASSUME NEW t \in Tasks, ReadEvent(t) PROVE AnswerInv'
  <2>1. lock # <<>> /\ Owner = t /\ rx' = <<>> /\ UNCHANGED <<modem, calls>>
    BY <1>9 DEF ReadEvent, Polls
  <2>2. \/ Returns(t, "event", 0)
        \/ UNCHANGED <<lock, phase, last, abandoned>>
    BY <1>9 DEF ReadEvent
  <2>3. ASSUME Returns(t, "event", 0) PROVE AnswerInv'
    BY <2>1, <2>3, ReturnOwnAnswers DEF Outcomes
  <2> QED BY <1>6, <2>1, <2>2, <2>3
<1>10. ASSUME NEW t \in Tasks, TimesOut(t) PROVE AnswerInv'
  BY <1>10, ReturnOwnAnswers DEF TimesOut, Outcomes
<1>11. ASSUME NEW a \in owed, ModemAnswers(a) PROVE AnswerInv'
  <2>1. a.id \in Answerable
    BY DEF AnswerInv
  <2>2. UNCHANGED <<lock, phase, last, abandoned>>
    BY <1>11 DEF ModemAnswers
  <2>3. Answerable' = Answerable /\ OnLine' = OnLine
    BY <1>2, <2>2 DEF Answerable
  <2>4. \A b \in owed' : b \in owed \/ b.id = a.id
    BY <1>11 DEF ModemAnswers, Answer
  <2>5. input' \in {input, a.id}
    BY <1>11 DEF ModemAnswers
  <2>6. \A k \in ToSet(rx') : k \in ToSet(rx) \/ k.id = a.id
    <3>1. PICK type \in AnswerTypes : rx' = Append(rx, Token(type, a.id))
      <4>1. a.tokens \in Seq(AnswerTypes) /\ a.tokens # <<>> /\ "error" \in AnswerTypes
        BY DEF Typed, AnyAnswer, AnswerTypes
      <4>2. Head(a.tokens) \in AnswerTypes
        BY <4>1
      <4> QED BY <1>11, <4>1, <4>2 DEF ModemAnswers
    <3>2. Token(type, a.id) \in AnyToken /\ rx \in Seq(AnyToken)
      BY DEF Typed, AnyAnswer, AnyToken, Token
    <3>3. ToSet(rx') = ToSet(rx) \cup {Token(type, a.id)}
      BY <3>1, <3>2, TokensOfText
    <3> QED BY <3>3 DEF Token
  <2>7. AnswersAreOwn' /\ abandoned' \subseteq 1..last'.id
    BY <2>2 DEF AnswerInv, AnswersAreOwn
  <2>8. \A b \in owed' : b.id \in Answerable
    BY <2>1, <2>4 DEF AnswerInv
  <2>9. input' # 0 => input' \in Answerable
    BY <2>1, <2>5 DEF AnswerInv
  <2>10. OnLine # {} => \A k \in ToSet(rx') : k.type \in AnswerTypes => k.id \in Answerable
    BY <2>1, <2>6 DEF AnswerInv
  <2> QED BY <2>3, <2>7, <2>8, <2>9, <2>10 DEF AnswerInv
<1>12. CASE CommandArrives
  <2>1. UNCHANGED <<lock, phase, modem, last, abandoned>>
    BY <1>12 DEF CommandArrives
  <2>2. \E type \in EventTypes, id \in Nat : rx' = Append(rx, Token(type, id))
    <3>1. events' \in Nat /\ part' \in 1..4 /\ rx' = Append(rx, Token(EventParts[part'], events'))
      BY <1>12, ArrivalInBounds DEF Typed
    <3> QED BY <3>1, PartTypes
  <2>3. PICK type \in EventTypes, id \in Nat : rx' = Append(rx, Token(type, id))
    BY <2>2
  <2>4. Token(type, id) \in AnyToken /\ rx \in Seq(AnyToken)
    BY DEF Typed, AnyToken, Token
  <2>5. ToSet(rx') = ToSet(rx) \cup {Token(type, id)}
    BY <2>3, <2>4, TokensOfText
  <2>6. Token(type, id).type \notin AnswerTypes
    BY DEF Token, EventTypes, AnswerTypes
  <2>7. \A k \in ToSet(rx') : k.type \in AnswerTypes => k \in ToSet(rx)
    BY <2>5, <2>6
  <2> QED BY <1>2, <2>1, <2>7, QuietOwnAnswers
<1>13. CASE UNCHANGED vars
  BY <1>2, <1>13, QuietOwnAnswers DEF vars
<1> QED
  BY <1>3, <1>4, <1>7, <1>8, <1>9, <1>10, <1>11, <1>12, <1>13 DEF Next, Runs

-----------------------------------------------------------------------------
(* The commands of the cloud. *)

\* The text that has been received and is not handled: what read_mqtt_event has read and what
\* waits in the UART.
Text == seen \o rx

Place(type) ==
    CASE type = "start" -> 1 [] type = "topic" -> 2 [] type = "payload" -> 3 [] OTHER -> 4

\* The parts of commands stand in a text in the order in which the cloud sent them.
InOrder(text) ==
    \A i, j \in 1..Len(text) :
        i < j /\ text[i].type \in EventTypes /\ text[j].type \in EventTypes =>
            \/ text[i].id < text[j].id
            \/ text[i].id = text[j].id /\ Place(text[i].type) < Place(text[j].type)

\* How many parts of a command have arrived.
Arrived(id) == IF id = events THEN part ELSE 4

\* All parts of a command that have arrived are in a set of tokens.
AllIn(id, tokens) == \A n \in 1..Arrived(id) : Token(EventParts[n], id) \in tokens

\* EventsInOrder needs to know that what is left to handle is in order, and that a payload that
\* is left, or has yet to come, is of a later command than all that were handled.
EventInv ==
    /\ part < 4 => events > 0
    /\ InOrder(Text) /\ cut \subseteq 1..events
    /\ \A k \in ToSet(Text) : k.type \in EventTypes =>
          k.id \in 1..events /\ Place(k.type) <= Arrived(k.id)
    /\ \A h \in ToSet(heard) :
          /\ h \in 1..events /\ Arrived(h) >= 3
          /\ \A k \in ToSet(Text) : k.type = "payload" => h < k.id
    /\ \A i, j \in 1..Len(heard) : i < j => heard[i] < heard[j]
    /\ \A id \in 1..events : id \in ToSet(heard) \cup cut \/ AllIn(id, ToSet(Text))
    /\ seen # <<>> => lock # <<>> /\ phase[Owner] = "listen"

LEMMA PartPlaces == \A n \in 1..4 : Place(EventParts[n]) = n /\ (EventParts[n] = "payload" => n = 3)
<1>1. /\ EventParts[1] = "start" /\ EventParts[2] = "topic"
      /\ EventParts[3] = "payload" /\ EventParts[4] = "end"
  BY DEF EventParts
<1>2. \A n \in 1..4 : n = 1 \/ n = 2 \/ n = 3 \/ n = 4
  OBVIOUS
<1> QED BY <1>1, <1>2 DEF Place

LEMMA CommandsOfText ==
  ASSUME NEW text
  PROVE  \A id : id \in Commands(text) <=> \E k \in ToSet(text) : k.type \in EventTypes /\ k.id = id
BY PartTypes DEF Commands

LEMMA TextTyped == Typed => Text \in Seq(AnyToken) /\ ToSet(Text) = ToSet(seen) \cup ToSet(rx)
BY TokensOfText DEF Typed, Text

\* The first part of a command arrives before the others.
LEMMA FirstPart ==
  ASSUME Typed, NEW id, NEW S, AllIn(id, S)
  PROVE  Token(EventParts[1], id) \in S /\ EventParts[1] \in EventTypes
BY PartTypes DEF Typed, AllIn, Arrived

\* A step that adds no part of a command: what is lost by it is remembered as cut.
LEMMA LossKept ==
  ASSUME EventInv, UNCHANGED <<events, part, heard>>, InOrder(Text)', Typed,
         \A k \in ToSet(Text)' : k.type \in EventTypes => k \in ToSet(Text),
         NEW lost, ToSet(lost) \subseteq ToSet(Text), ToSet(Text) \subseteq ToSet(Text)' \cup ToSet(lost),
         cut' = cut \cup Commands(lost),
         seen' # <<>> => lock' # <<>> /\ phase'[Owner'] = "listen"
  PROVE  EventInv'
<1>1. cut' \subseteq 1..events
  BY CommandsOfText DEF EventInv
<1>2. ASSUME NEW id \in 1..events, id \notin ToSet(heard) \cup cut' PROVE AllIn(id, ToSet(Text)')
  <2>1. AllIn(id, ToSet(Text))
    BY <1>2 DEF EventInv
  <2>2. \A k \in ToSet(lost) : k.type \in EventTypes => k.id # id
    BY <1>2, CommandsOfText
  <2>3. ASSUME NEW n \in 1..Arrived(id) PROVE Token(EventParts[n], id) \in ToSet(Text)'
    <3>1. n \in 1..4
      BY DEF Arrived, Typed
    <3>2. EventParts[n] \in EventTypes
      BY <3>1, PartTypes
    <3>3. Token(EventParts[n], id) \in ToSet(Text)
      BY <2>1 DEF AllIn
    <3> QED BY <2>2, <3>2, <3>3 DEF Token
  <2> QED BY <2>3 DEF AllIn
<1>3. \A id, S : AllIn(id, S)' <=> AllIn(id, S')
  BY DEF AllIn, Arrived
<1>4. \A id : Arrived(id)' = Arrived(id)
  BY DEF Arrived
<1>5. "payload" \in EventTypes
  BY DEF EventTypes
<1> QED BY <1>1, <1>2, <1>3, <1>4, <1>5 DEF EventInv

\* A text from which the beginning is gone is still in order, and so is one that grows by a part
\* that is later than all in it, or by something else.
LEMMA RestInOrder ==
  ASSUME NEW s \in Seq(AnyToken), NEW r \in Seq(AnyToken), InOrder(s \o r)
  PROVE  InOrder(r)
<1> DEFINE q == s \o r
<1>1. Len(s) \in Nat /\ Len(r) \in Nat /\ \A i \in 1..Len(r) : Len(s) + i \in 1..Len(q) /\ q[Len(s) + i] = r[i]
  OBVIOUS
<1>2. InOrder(q)
  OBVIOUS
<1> HIDE DEF q
<1> SUFFICES ASSUME NEW i \in 1..Len(r), NEW j \in 1..Len(r), i < j,
                    r[i].type \in EventTypes, r[j].type \in EventTypes
             PROVE  \/ r[i].id < r[j].id
                    \/ r[i].id = r[j].id /\ Place(r[i].type) < Place(r[j].type)
  BY DEF InOrder
<1> DEFINE a == Len(s) + i
           b == Len(s) + j
<1>3. a \in 1..Len(q) /\ b \in 1..Len(q) /\ a < b /\ q[a] = r[i] /\ q[b] = r[j]
  BY <1>1
<1> HIDE DEF a, b
<1> QED BY <1>2, <1>3 DEF InOrder

LEMMA LongerInOrder ==
  ASSUME NEW text \in Seq(AnyToken), InOrder(text), NEW k \in AnyToken,
         k.type \in EventTypes => \A l \in ToSet(text) : l.type \in EventTypes =>
             l.id < k.id \/ (l.id = k.id /\ Place(l.type) < Place(k.type))
  PROVE  InOrder(Append(text, k))
<1> DEFINE q == Append(text, k)
<1>1. /\ Len(q) = Len(text) + 1 /\ Len(text) \in Nat /\ q[Len(text) + 1] = k
      /\ \A i \in 1..Len(text) : q[i] = text[i] /\ text[i] \in ToSet(text)
  BY InSequence
<1> HIDE DEF q
<1> SUFFICES ASSUME NEW i \in 1..Len(q), NEW j \in 1..Len(q), i < j,
                    q[i].type \in EventTypes, q[j].type \in EventTypes
             PROVE  \/ q[i].id < q[j].id
                    \/ q[i].id = q[j].id /\ Place(q[i].type) < Place(q[j].type)
  BY DEF InOrder, q
<1>2. i \in 1..Len(text)
  BY <1>1
<1>3. CASE j \in 1..Len(text)
  BY <1>1, <1>2, <1>3 DEF InOrder
<1>4. CASE j = Len(text) + 1
  BY <1>1, <1>2, <1>4
<1> QED BY <1>1, <1>3, <1>4

\* A token that arrives stands at the end of the text.
LEMMA ArrivesAtEnd ==
  ASSUME Typed, NEW k \in AnyToken, rx' = Append(rx, k), UNCHANGED seen
  PROVE  Text' = Append(Text, k) /\ ToSet(Text)' = ToSet(Text) \cup {k}
<1>1. seen \o Append(rx, k) = Append(seen \o rx, k)
  BY DEF Typed
<1>2. Text' = Append(Text, k)
  BY <1>1 DEF Text
<1> QED BY <1>2, TextTyped, TokensOfText

\* The next part of a command arrives.
LEMMA ArrivalOfEvents ==
  ASSUME EventInv, Typed, CommandArrives
  PROVE  EventInv'
<1> DEFINE k == Token(EventParts[part'], events')
<1>1. /\ events' \in Nat /\ part' \in 1..4 /\ rx' = Append(rx, k)
      /\ \/ part < 4 /\ part' = part + 1 /\ events' = events
         \/ part = 4 /\ part' = 1 /\ events' = events + 1
  BY ArrivalInBounds DEF Typed
<1>2. UNCHANGED <<lock, phase, seen, heard, cut>>
  BY DEF CommandArrives
<1>3. EventParts[part'] \in EventTypes /\ k \in AnyToken /\ k.type \in EventTypes /\ k.id = events'
      /\ Place(k.type) = part' /\ (k.type = "payload" => part' = 3)
  BY <1>1, PartTypes, PartPlaces DEF Token, AnyToken
<1>4. events \in Nat /\ part \in 1..4 /\ events' > 0
  BY <1>1 DEF Typed, EventInv
<1>5. Text' = Append(Text, k) /\ ToSet(Text)' = ToSet(Text) \cup {k}
  BY <1>1, <1>2, <1>3, ArrivesAtEnd
<1>6. k = Token(EventParts[part'], events')
  OBVIOUS
<1> HIDE DEF k
<1>7. \A id \in 1..events : Arrived(id)' \in Arrived(id)..4
  BY <1>1, <1>4 DEF Arrived
<1>8. InOrder(Text)'
  <2>1. ASSUME NEW l \in ToSet(Text), l.type \in EventTypes
        PROVE  l.id < k.id \/ (l.id = k.id /\ Place(l.type) < Place(k.type))
    <3>1. l.id \in 1..events /\ Place(l.type) <= Arrived(l.id)
      BY <2>1 DEF EventInv
    <3>2. Place(l.type) \in 1..4
      BY DEF Place
    <3> QED BY <1>1, <1>3, <1>4, <3>1, <3>2 DEF Arrived
  <2>2. Text \in Seq(AnyToken) /\ InOrder(Text)
    BY TextTyped DEF EventInv
  <2>3. InOrder(Append(Text, k))
    BY <1>3, <2>1, <2>2, LongerInOrder
  <2> QED BY <1>5, <2>3 DEF InOrder
<1>9. ASSUME NEW l \in ToSet(Text)', l.type \in EventTypes
      PROVE  l.id \in 1..events' /\ Place(l.type) <= Arrived(l.id)'
  <2>1. CASE l = k
    BY <1>3, <1>4, <2>1, <1>1 DEF Arrived
  <2>2. CASE l \in ToSet(Text)
    <3>1. l.id \in 1..events /\ Place(l.type) <= Arrived(l.id)
      BY <1>9, <2>2 DEF EventInv
    <3>2. Place(l.type) \in 1..4 /\ Arrived(l.id) \in 1..4 /\ Arrived(l.id)' \in Arrived(l.id)..4
      BY <1>4, <1>7, <3>1 DEF Place, Arrived
    <3> QED BY <1>1, <1>4, <3>1, <3>2
  <2> QED BY <1>5, <2>1, <2>2
<1>10. ASSUME NEW h \in ToSet(heard)'
       PROVE  /\ h \in 1..events' /\ Arrived(h)' >= 3
              /\ \A l \in ToSet(Text)' : l.type = "payload" => h < l.id
  <2>1. h \in 1..events /\ Arrived(h) >= 3 /\ \A l \in ToSet(Text) : l.type = "payload" => h < l.id
    BY <1>2, <1>10 DEF EventInv
  <2>2. Arrived(h) \in 1..4 /\ Arrived(h)' \in Arrived(h)..4
    BY <1>4, <1>7, <2>1 DEF Arrived
  <2>3. k.type = "payload" => h < k.id
    <3>1. SUFFICES ASSUME k.type = "payload" PROVE h < events'
      BY <1>3
    <3>2. part < 3 /\ events' = events
      BY <1>1, <1>3, <1>4, <3>1
    <3> QED BY <1>4, <2>1, <3>2 DEF Arrived
  <2> QED BY <1>1, <1>4, <1>5, <2>1, <2>2, <2>3
<1>11. ASSUME NEW id \in 1..events', id \notin ToSet(heard)' \cup cut'
       PROVE  AllIn(id, ToSet(Text))'
  <2>1. SUFFICES ASSUME NEW n \in 1..Arrived(id)'
                 PROVE  Token(EventParts[n], id) \in ToSet(Text)'
    BY DEF AllIn
  <2>2. CASE id = events' /\ n = part'
    BY <1>5, <1>6, <2>2
  <2>3. CASE ~ (id = events' /\ n = part')
    <3>1. id \in 1..events /\ n \in 1..Arrived(id)
      BY <1>1, <1>4, <2>1, <2>3 DEF Arrived
    <3>2. AllIn(id, ToSet(Text))
      BY <1>2, <1>11, <3>1 DEF EventInv
    <3> QED BY <1>5, <3>1, <3>2 DEF AllIn
  <2> QED BY <2>2, <2>3
<1>12. cut' \subseteq 1..events' /\ (part' < 4 => events' > 0)
       /\ (\A i, j \in 1..Len(heard') : i < j => heard'[i] < heard'[j])
       /\ (seen' # <<>> => lock' # <<>> /\ phase'[Owner'] = "listen")
  BY <1>1, <1>2, <1>4 DEF EventInv, Owner
<1> QED BY <1>8, <1>9, <1>10, <1>11, <1>12 DEF EventInv

\* A text is returned that holds an end: its first command is handled, unless a part of it was
\* lost before, and all the others are cut.
LEMMA FirstIsHandled ==
  ASSUME EventInv, Typed, Holds(Text, "end"),
         NEW id \in Commands(Text), \A j \in Commands(Text) : ~ (j < id), AllIn(id, ToSet(Text))
  PROVE  Parsed(Text) = <<id>>
<1>1. Text \in Seq(AnyToken) /\ events \in Nat /\ part \in 1..4
  BY TextTyped DEF Typed
<1>2. \A l \in ToSet(Text) : l.type \in EventTypes =>
          l.id \in 1..events /\ Place(l.type) <= Arrived(l.id) /\ ~ (l.id < id)
  BY CommandsOfText DEF EventInv
<1>3. id \in 1..events
  BY <1>2, CommandsOfText
<1>4. PICK e \in ToSet(Text) : e.type = "end"
  BY DEF Holds, Tokens
<1>5. e.id \in 1..events /\ Arrived(e.id) >= 4 /\ ~ (e.id < id)
  <2>1. e.type \in EventTypes /\ Place(e.type) = 4
    BY <1>4 DEF EventTypes, Place
  <2> QED BY <1>1, <1>2, <1>4, <2>1 DEF Arrived
<1>6. Arrived(id) = 4
  BY <1>1, <1>3, <1>5 DEF Arrived
<1>7. Token("topic", id) \in ToSet(Text) /\ Token("payload", id) \in ToSet(Text)
  BY <1>6 DEF AllIn, EventParts
<1>8. Holds(Text, "topic") /\ Holds(Text, "payload")
  BY <1>7 DEF Holds, Tokens, Token
<1>9. PICK m \in 1..Len(Text) :
            /\ Text[m].type = "payload" /\ Text[m].id \in Nat /\ Parsed(Text) = <<Text[m].id>>
            /\ \A i \in 1..Len(Text) : Text[i].type = "payload" => m <= i
  BY <1>1, <1>8, ParsedIsThere
<1>10. PICK i \in 1..Len(Text) : Text[i] = Token("payload", id)
  BY <1>1, <1>7, InSequence
<1>11. Text[i].type = "payload" /\ Text[i].id = id /\ m <= i /\ "payload" \in EventTypes
  BY <1>9, <1>10 DEF Token, EventTypes
<1>12. ~ (Text[m].id < id)
  <2>1. Text[m] \in ToSet(Text)
    BY <1>1, InSequence
  <2> QED BY <1>2, <1>9, <1>11, <2>1
<1>13. CASE m = i
  BY <1>9, <1>11, <1>13
<1>14. CASE m < i
  <2>1. Text[m].id < id \/ Text[m].id = id
    BY <1>9, <1>11, <1>14 DEF EventInv, InOrder
  <2> QED BY <1>9, <1>12, <2>1
<1> QED BY <1>1, <1>11, <1>13, <1>14

LEMMA ReturnOfEvent ==
  ASSUME EventInv, Typed, Holds(Text, "end"), seen' = <<>>, rx' = <<>>,
         heard' = heard \o Parsed(Text), UNCHANGED <<events, part>>,
         cut' = cut \cup {k \in Commands(Text) : \E j \in Commands(Text) : j < k}
  PROVE  EventInv'
<1>1. Text \in Seq(AnyToken) /\ heard \in Seq(Nat) /\ events \in Nat /\ part \in 1..4
  BY TextTyped DEF Typed
<1>2. Text' = <<>> /\ ToSet(Text)' = {} /\ InOrder(Text)'
  <2>1. Text' = <<>>
    BY DEF Text
  <2> QED BY <2>1 DEF ToSet, InOrder
<1>3. \A id : Arrived(id)' = Arrived(id)
  BY DEF Arrived
<1>4. cut' \subseteq 1..events
  BY CommandsOfText DEF EventInv
<1>5. \/ Parsed(Text) = <<>>
      \/ \E p \in ToSet(Text) : p.type = "payload" /\ p.id \in Nat /\ Parsed(Text) = <<p.id>>
  <2>1. CASE Holds(Text, "topic") /\ Holds(Text, "payload")
    BY <1>1, <2>1, ParsedIsThere, InSequence
  <2>2. CASE ~ (Holds(Text, "topic") /\ Holds(Text, "payload"))
    BY <2>2 DEF Parsed
  <2> QED BY <2>1, <2>2
<1>6. /\ \A h \in ToSet(heard') : h \in 1..events /\ Arrived(h) >= 3
      /\ \A i, j \in 1..Len(heard') : i < j => heard'[i] < heard'[j]
  <2>1. CASE Parsed(Text) = <<>>
    <3>1. heard' = heard
      BY <1>1, <2>1
    <3> QED BY <3>1 DEF EventInv
  <2>2. ASSUME NEW p \in ToSet(Text), p.type = "payload", p.id \in Nat, Parsed(Text) = <<p.id>>
        PROVE  /\ \A h \in ToSet(heard') : h \in 1..events /\ Arrived(h) >= 3
               /\ \A i, j \in 1..Len(heard') : i < j => heard'[i] < heard'[j]
    <3>1. p.id \in 1..events /\ Arrived(p.id) >= 3
      BY <1>1, <2>2 DEF EventInv, EventTypes, Place, Arrived
    <3>2. heard' = Append(heard, p.id)
      BY <1>1, <2>2
    <3>3. ToSet(heard') = ToSet(heard) \cup {p.id}
      <4>1. \A e \in Nat : ToSet(Append(heard, e)) = ToSet(heard) \cup {e}
        BY <1>1, TokensOfText
      <4> QED BY <2>2, <3>2, <4>1
    <3>4. /\ Len(heard') = Len(heard) + 1 /\ Len(heard) \in Nat /\ heard'[Len(heard) + 1] = p.id
          /\ \A i \in 1..Len(heard) : heard'[i] = heard[i] /\ heard[i] \in ToSet(heard)
      BY <1>1, <2>2, <3>2, InSequence
    <3>5. ASSUME NEW i \in 1..Len(heard'), NEW j \in 1..Len(heard'), i < j
          PROVE  heard'[i] < heard'[j]
      <4>1. i \in 1..Len(heard)
        BY <3>4, <3>5
      <4>2. CASE j \in 1..Len(heard)
        BY <3>4, <3>5, <4>1, <4>2 DEF EventInv
      <4>3. CASE j = Len(heard) + 1
        BY <2>2, <3>4, <4>1, <4>3 DEF EventInv
      <4> QED BY <3>4, <4>2, <4>3
    <3>6. \A h \in ToSet(heard) : h \in 1..events /\ Arrived(h) >= 3
      BY DEF EventInv
    <3> QED BY <3>1, <3>3, <3>5, <3>6
  <2> QED BY <1>5, <2>1, <2>2
<1>7. ASSUME NEW id \in 1..events PROVE id \in ToSet(heard') \cup cut'
  <2>1. CASE id \in ToSet(heard)
    BY <1>1, <2>1, ParsedTyped, TokensOfText
  <2>2. CASE id \in cut
    BY <2>2
  <2>3. CASE id \notin ToSet(heard) \cup cut
    <3>1. AllIn(id, ToSet(Text))
      BY <2>3 DEF EventInv
    <3>2. id \in Commands(Text)
      <4>1. Token(EventParts[1], id) \in ToSet(Text) /\ EventParts[1] \in EventTypes
        BY <3>1, FirstPart
      <4> QED BY <4>1, CommandsOfText DEF Token
    <3>3. CASE \E j \in Commands(Text) : j < id
      BY <3>2, <3>3
    <3>4. CASE \A j \in Commands(Text) : ~ (j < id)
      <4>1. Parsed(Text) = <<id>> /\ id \in Nat
        BY <3>1, <3>2, <3>4, FirstIsHandled
      <4>2. heard' = Append(heard, id)
        BY <1>1, <4>1
      <4>3. ToSet(Append(heard, id)) = ToSet(heard) \cup {id}
        BY <1>1, <4>1, TokensOfText
      <4> QED BY <4>2, <4>3
    <3> QED BY <3>3, <3>4
  <2> QED BY <2>1, <2>2, <2>3
<1>8. part' < 4 => events' > 0
  BY DEF EventInv
<1> QED BY <1>2, <1>3, <1>4, <1>6, <1>7, <1>8 DEF EventInv

LEMMA EventStep == Typed /\ Typed' /\ QueueInv /\ EventInv /\ [Next]_vars => EventInv'
<1> SUFFICES ASSUME Typed, Typed', QueueInv, EventInv, [Next]_vars PROVE EventInv'
  OBVIOUS
<1>1. /\ rx \in Seq(AnyToken) /\ seen \in Seq(AnyToken) /\ lock \in Seq(Tasks)
      /\ Text \in Seq(AnyToken) /\ ToSet(Text) = ToSet(seen) \cup ToSet(rx)
  BY TextTyped DEF Typed, QueueInv
<1>2. \A s \in Seq(AnyToken) : s \o <<>> = s /\ <<>> \o s = s
  OBVIOUS
<1>3. ToSet(<<>>) = {} /\ Commands(<<>>) = {}
  BY DEF ToSet, Commands
<1>4. ASSUME UNCHANGED <<events, part, heard, cut>>, Text' = Text,
             seen' # <<>> => lock' # <<>> /\ phase'[Owner'] = "listen"
      PROVE  EventInv'
  <2>1. InOrder(Text)' /\ ToSet(Text)' = ToSet(Text)
    BY <1>4 DEF EventInv, InOrder
  <2>2. cut' = cut \cup Commands(<<>>)
    BY <1>3, <1>4
  <2> QED BY <1>3, <1>4, <2>1, <2>2, LossKept
<1>5. ASSUME UNCHANGED <<events, part, heard>>, seen' = <<>>, seen = <<>>,
             rx' = <<>>, cut' = cut \cup Commands(rx)
      PROVE  EventInv'
  <2>1. Text' = <<>> /\ ToSet(Text) = ToSet(rx)
    BY <1>1, <1>3, <1>5 DEF Text
  <2>2. InOrder(Text)' /\ ToSet(Text)' = {}
    BY <2>1 DEF InOrder, ToSet
  <2> QED BY <1>5, <2>1, <2>2, LossKept
<1>6. ASSUME NEW t, NEW kind, NEW id, Exchange(t, kind, id), seen = <<>>,
             UNCHANGED <<events, part, heard>>
      PROVE  EventInv'
  <2>1. CASE kind = "listen"
    <3>1. seen' = <<>> /\ UNCHANGED <<rx, cut>>
      BY <1>6, <2>1 DEF Exchange
    <3> QED BY <1>4, <1>6, <3>1 DEF Text
  <2>2. CASE kind # "listen"
    BY <1>5, <1>6, <2>2 DEF Exchange
  <2> QED BY <2>1, <2>2
<1>7. ASSUME NEW t \in Tasks, NEW kind \in Uses[t], Call(t, kind) PROVE EventInv'
  <2>1. UNCHANGED <<events, part, heard>>
    BY <1>7 DEF Call, cloud
  <2>2. CASE lock = <<>>
    <3>1. seen = <<>> /\ Exchange(t, kind, calls + 1)
      BY <1>7, <2>2 DEF Call, EventInv
    <3> QED BY <1>6, <2>1, <3>1
  <2>3. CASE lock # <<>>
    <3>1. /\ lock' = Append(lock, t) /\ phase' = [phase EXCEPT ![t] = "queued"] /\ phase[t] = "idle"
          /\ UNCHANGED <<seen, rx, cut>>
      BY <1>7, <2>3 DEF Call
    <3>2. 1 \in 1..Len(lock)
      BY <1>1, <2>3
    <3>3. lock' # <<>> /\ lock'[1] = lock[1]
      BY <1>1, <3>1, <3>2
    <3>4. lock[1] \in Tasks
      BY <1>1, <3>2
    <3>5. phase[lock[1]] # "idle"
      BY <3>2 DEF QueueInv
    <3>6. phase'[lock[1]] = phase[lock[1]]
      BY <3>1, <3>4, <3>5 DEF QueueInv
    <3>7. seen' # <<>> => lock' # <<>> /\ phase'[Owner'] = "listen"
      BY <3>1, <3>3, <3>6 DEF EventInv, Owner
    <3> QED BY <1>4, <2>1, <3>1, <3>7 DEF Text
  <2> QED BY <2>2, <2>3
<1>8. ASSUME NEW t \in Tasks, Begin(t) PROVE EventInv'
  <2>1. seen = <<>>
    BY <1>8 DEF Begin, EventInv
  <2> QED BY <1>6, <1>8, <2>1 DEF Begin, cloud
<1>9. ASSUME NEW t \in Tasks, Overhears(t, "answer") \/ Overhears(t, "prompt"),
             UNCHANGED <<events, part, heard>>, seen' \in {seen, <<>>}
      PROVE  EventInv'
  <2>1. seen = <<>> /\ rx' = <<>> /\ cut' = cut \cup Commands(rx)
    BY <1>9 DEF Overhears, Polls, EventInv
  <2> QED BY <1>5, <1>9, <2>1
<1>10. ASSUME NEW t \in Tasks, ReadAnswer(t) PROVE EventInv'
  <2>1. Overhears(t, "answer") /\ UNCHANGED <<events, part, heard>> /\ seen' \in {seen, <<>>}
    BY <1>10 DEF ReadAnswer, Returns, cloud
  <2> QED BY <1>9, <2>1
<1>11. ASSUME NEW t \in Tasks, ReadPrompt(t) PROVE EventInv'
  <2>1. Overhears(t, "prompt") /\ UNCHANGED <<events, part, heard>> /\ seen' \in {seen, <<>>}
    BY <1>11 DEF ReadPrompt, Returns, cloud
  <2> QED BY <1>9, <2>1
<1>12. ASSUME NEW t \in Tasks, ReadEvent(t) PROVE EventInv'
  <2>1. UNCHANGED <<events, part>> /\ rx' = <<>> /\ lock # <<>> /\ phase[Owner] = "listen"
    BY <1>12 DEF ReadEvent, Polls, cloud
  <2>2. CASE Holds(Text, "start") /\ Holds(Text, "end")
    <3>1. /\ heard' = heard \o Parsed(Text) /\ seen' = <<>>
          /\ cut' = cut \cup {k \in Commands(Text) : \E j \in Commands(Text) : j < k}
      BY <1>12, <2>2 DEF ReadEvent, Text, Returns
    <3> QED BY <2>1, <2>2, <3>1, ReturnOfEvent
  <2>3. CASE ~ (Holds(Text, "start") /\ Holds(Text, "end"))
    <3>1. seen' = Text /\ UNCHANGED <<lock, phase, heard, cut>>
      BY <1>12, <2>3 DEF ReadEvent, Text
    <3>2. Text' = Text
      <4>1. Text' = seen' \o rx'
        BY DEF Text
      <4> QED BY <1>1, <1>2, <2>1, <3>1, <4>1
    <3>3. lock' # <<>> /\ phase'[Owner'] = "listen"
      BY <2>1, <3>1 DEF Owner
    <3> QED BY <1>4, <2>1, <3>1, <3>2, <3>3
  <2> QED BY <2>2, <2>3
<1>13. ASSUME NEW t \in Tasks, TimesOut(t) PROVE EventInv'
  <2>1. seen' = <<>> /\ cut' = cut \cup Commands(seen) /\ UNCHANGED <<rx, events, part, heard>>
    BY <1>13 DEF TimesOut, Returns, cloud
  <2>2. Text' = rx
    <3>1. Text' = seen' \o rx'
      BY DEF Text
    <3> QED BY <1>1, <1>2, <2>1, <3>1
  <2>3. InOrder(rx)
    BY <1>1, RestInOrder DEF EventInv, Text
  <2>4. InOrder(Text)'
    BY <2>2, <2>3 DEF InOrder
  <2> QED BY <1>1, <2>1, <2>2, <2>4, LossKept
<1>14. ASSUME NEW a \in owed, ModemAnswers(a) PROVE EventInv'
  <2>1. UNCHANGED <<lock, phase, seen, events, part, heard, cut>>
    BY <1>14 DEF ModemAnswers, cloud
  <2>2. PICK type \in AnswerTypes : rx' = Append(rx, Token(type, a.id))
    <3>1. a.tokens \in Seq(AnswerTypes) /\ a.tokens # <<>> /\ "error" \in AnswerTypes
      BY DEF Typed, AnyAnswer, AnswerTypes
    <3>2. Head(a.tokens) \in AnswerTypes
      BY <3>1
    <3> QED BY <1>14, <3>1, <3>2 DEF ModemAnswers
  <2> DEFINE k == Token(type, a.id)
  <2>3. k \in AnyToken /\ k.type \notin EventTypes /\ rx' = Append(rx, k)
    BY <2>2 DEF Typed, AnyAnswer, AnyToken, Token, AnswerTypes, EventTypes
  <2> HIDE DEF k
  <2>4. Text' = Append(Text, k) /\ ToSet(Text)' = ToSet(Text) \cup {k}
    BY <2>1, <2>3, ArrivesAtEnd
  <2>5. InOrder(Append(Text, k))
    BY <1>1, <2>3, LongerInOrder DEF EventInv
  <2>6. InOrder(Text)'
    BY <2>4, <2>5 DEF InOrder
  <2>7. seen' # <<>> => lock' # <<>> /\ phase'[Owner'] = "listen"
    BY <2>1 DEF EventInv, Owner
  <2>8. cut' = cut \cup Commands(<<>>)
    BY <1>3, <2>1
  <2> QED BY <1>3, <2>1, <2>3, <2>4, <2>6, <2>7, <2>8, LossKept
<1>15. CASE CommandArrives
  BY <1>15, ArrivalOfEvents
<1>16. CASE UNCHANGED vars
  <2>1. UNCHANGED <<lock, phase, seen, rx, events, part, heard, cut>>
    BY <1>16 DEF vars, cloud
  <2>2. seen' # <<>> => lock' # <<>> /\ phase'[Owner'] = "listen"
    BY <2>1 DEF EventInv, Owner
  <2> QED BY <1>4, <2>1, <2>2 DEF Text
<1> QED
  BY <1>7, <1>8, <1>10, <1>11, <1>12, <1>13, <1>14, <1>15, <1>16 DEF Next, Runs

-----------------------------------------------------------------------------
(* The theorems. *)

LEMMA InitChannel == Init => Typed /\ AnswerInv /\ EventInv
<1> SUFFICES ASSUME Init PROVE Typed /\ AnswerInv /\ EventInv
  OBVIOUS
<1>1. /\ rx = <<>> /\ seen = <<>> /\ heard = <<>> /\ owed = {} /\ input = 0 /\ calls = 0
      /\ events = 0 /\ part = 4 /\ cut = {} /\ abandoned = {} /\ lock = <<>>
      /\ last = [outcome |-> "none", id |-> 0, from |-> 0]
      /\ call = [t \in Tasks |-> NoCall]
  BY DEF Init
<1>2. ToSet(rx) = {} /\ ToSet(seen) = {} /\ ToSet(heard) = {} /\ DOMAIN heard = {}
  BY <1>1 DEF ToSet
<1>3. NoCall \in [kind : Kinds, id : 0..0]
  BY DEF NoCall, Kinds
<1>4. Typed
  <2>1. rx \in Seq(AnyToken) /\ seen \in Seq(AnyToken)
        /\ heard \in Seq(Nat)
    <3>1. \A S : <<>> \in Seq(S)
      OBVIOUS
    <3> QED BY <1>1, <3>1
  <2>2. call \in [Tasks -> [kind : Kinds, id : 0..calls]]
    BY <1>1, <1>3
  <2>3. last \in [outcome : Outcomes, id : Nat, from : Nat]
    BY <1>1 DEF Outcomes
  <2> QED BY <1>1, <2>1, <2>2, <2>3 DEF Typed
<1>5. AnswerInv
  BY <1>1 DEF AnswerInv, OnLine, AnswersAreOwn
<1>6. EventInv
  <2>1. Text = <<>> /\ ToSet(Text) = {} /\ Len(heard) = 0
    BY <1>1 DEF Text, ToSet
  <2> QED BY <1>1, <1>2, <2>1 DEF EventInv, InOrder
<1> QED BY <1>4, <1>5, <1>6

\* The queue, the answers and the events, together, are an invariant.
THEOREM ChannelHolds == Spec => [](Typed /\ AnswerInv /\ EventInv)
<1>1. QueueInv /\ Typed /\ AnswerInv /\ EventInv /\ [Next]_vars => Typed' /\ AnswerInv' /\ EventInv'
  BY TypedStep, AnswerStep, EventStep
<1> QED
  BY InitChannel, <1>1, QueueHolds, PTL DEF Spec

\* Every variable keeps its type, and no task waits for the lock twice.
THEOREM TypeCorrect == Spec => []TypeOK
<1>1. QueueInv /\ Typed /\ AnswerInv /\ EventInv => TypeOK
  <2> SUFFICES ASSUME QueueInv, Typed, AnswerInv, EventInv PROVE TypeOK
    OBVIOUS
  <2>1. last.id \in Nat /\ Len(lock) \in Nat /\ calls = last.id + Len(lock) /\ calls \in Nat
    BY DEF QueueInv, Typed
  <2>2. IsInjective(lock)
    <3>1. SUFFICES ASSUME NEW i \in 1..Len(lock), NEW j \in 1..Len(lock), lock[i] = lock[j]
                   PROVE  i = j
      BY DEF IsInjective, QueueInv
    <3>2. last.id + i = last.id + j
      BY <3>1 DEF QueueInv
    <3> QED BY <2>1, <3>2
  <2>3. OnLine \subseteq 1..calls
    <3>1. lock # <<>> => Len(lock) > 0
      BY DEF QueueInv
    <3> QED BY <2>1, <3>1 DEF OnLine
  <2>4. abandoned \subseteq 1..calls
    BY <2>1 DEF AnswerInv
  <2>5. input \in 0..calls
    BY <2>1, <2>3, <2>4 DEF AnswerInv, Answerable, Typed
  <2>6. last \in [outcome : Outcomes, id : 0..calls, from : Nat]
    <3>1. last.id \in 0..calls
      BY <2>1
    <3> QED BY <3>1 DEF Typed
  <2>7. heard \in Seq(1..events) /\ cut \subseteq 1..events
    <3>1. \A i \in 1..Len(heard) : heard[i] \in ToSet(heard)
      BY InSequence DEF Typed
    <3>2. \A i \in 1..Len(heard) : heard[i] \in 1..events
      BY <3>1 DEF EventInv
    <3> DEFINE E == 1..events
    <3> HIDE DEF E
    <3>3. heard \in Seq(Nat) /\ \A i \in 1..Len(heard) : heard[i] \in E
      BY <3>2 DEF Typed, E
    <3>4. heard \in Seq(E)
      BY <3>3, SeqDef
    <3> QED BY <3>4 DEF E, EventInv
  <2> QED BY <2>2, <2>4, <2>5, <2>6, <2>7 DEF TypeOK, Typed, QueueInv
<1> QED
  BY <1>1, QueueHolds, ChannelHolds, PTL

\* What an exchange takes for its answer is its own or that of a call that ended unanswered.
THEOREM NoForeignAnswers == Spec => []AnswersAreOwn
<1>1. AnswerInv => AnswersAreOwn
  BY DEF AnswerInv
<1> QED
  BY <1>1, ChannelHolds, PTL

\* Commands from the cloud are handled in order and each at most once, and one that is neither
\* handled nor still to be read as far as it has come has had a part of it thrown away.
THEOREM EventsReturnInOrder == Spec => []EventsInOrder
<1>1. Typed /\ EventInv => EventsInOrder
  <2> SUFFICES ASSUME Typed, EventInv PROVE EventsInOrder
    OBVIOUS
  <2>1. DOMAIN heard = 1..Len(heard)
    BY DEF Typed
  <2> QED BY <2>1 DEF EventInv, EventsInOrder, Text, AllIn, Arrived
<1> QED
  BY <1>1, ChannelHolds, PTL

-----------------------------------------------------------------------------
(* The queue that the channel implements. *)

\* The answer taken by the last call to return, as ExchangeQueue has it.
AnsweredAs == IF last.outcome \in {"ok", "error"} THEN last.from ELSE 0

\* An answer is never that of a later call.
LEMMA AnsweredBefore == Typed /\ AnswerInv => AnsweredAs \in 0..last.id
<1> SUFFICES ASSUME Typed, AnswerInv PROVE AnsweredAs \in 0..last.id
  OBVIOUS
<1>1. last.id \in Nat /\ abandoned \subseteq 1..last.id /\ AnswersAreOwn
  BY DEF Typed, AnswerInv
<1>2. CASE last.outcome \in {"ok", "error"}
  <2>1. last.from \in {last.id} \cup abandoned
    BY <1>1, <1>2 DEF AnswersAreOwn
  <2>2. last.id \in 0..last.id /\ \A a \in 1..last.id : a \in 0..last.id
    BY <1>1
  <2>3. last.from \in 0..last.id
    BY <1>1, <2>1, <2>2
  <2> QED BY <1>2, <2>3 DEF AnsweredAs
<1>3. CASE ~ (last.outcome \in {"ok", "error"})
  <2>1. 0 \in 0..last.id
    BY <1>1
  <2> QED BY <1>3, <2>1 DEF AnsweredAs
<1> QED BY <1>2, <1>3

\* The channel is a queue of exchanges: it begins as one, and every step asks, returns the
\* next call with an answer of its own or an earlier one, or is a stutter.
THEOREM QueueRefined == Spec => Q!Init /\ [][Q!Next]_Q!vars
<1>1. Init => Q!Init
  BY DEF Init, Q!Init
<1>2. ASSUME QueueInv, Typed, Typed', AnswerInv', [Next]_vars
      PROVE  [Q!Next]_Q!vars
  <2>1. Moves
    BY <1>2, StepMoves
  <2>2. ASSUME NEW t \in Tasks, Leaves(t) PROVE [Q!Next]_Q!vars
    <3>1. lock # <<>> /\ last'.id = last.id + 1 /\ calls' = calls
      BY <1>2, <2>2, OwnerIsNext DEF Leaves
    <3>2. last.id \in Nat /\ Len(lock) \in Nat /\ Len(lock) > 0 /\ calls = last.id + Len(lock)
      <4>1. lock \in Seq(Tasks) /\ last.id \in Nat /\ calls = last.id + Len(lock)
        BY <1>2 DEF QueueInv
      <4>2. Len(lock) \in Nat /\ Len(lock) > 0
        BY <3>1, <4>1
      <4> QED BY <4>1, <4>2
    <3>3. AnsweredAs' \in 0..last'.id
      BY <1>2, AnsweredBefore DEF Typed, AnswerInv, AnsweredAs, AnswersAreOwn
    <3>4. Q!Return
      BY <3>1, <3>2, <3>3 DEF Q!Return, AnsweredAs
    <3> QED BY <3>4 DEF Q!Next
  <2>3. ASSUME NEW t \in Tasks, NEW p, Joins(t, p) PROVE [Q!Next]_Q!vars
    BY <2>3 DEF Joins, Q!Ask, Q!Next
  <2>4. ASSUME UNCHANGED <<calls, last>> PROVE [Q!Next]_Q!vars
    BY <2>4 DEF Q!vars
  <2> QED BY <2>1, <2>2, <2>3, <2>4 DEF Moves, GoesOn, Stays
<1>3. QueueInv /\ Typed /\ Typed' /\ AnswerInv' /\ [Next]_vars => [Q!Next]_Q!vars
  BY <1>2
<1> QED
  BY <1>1, <1>3, QueueHolds, ChannelHolds, PTL DEF Spec
=============================================================================
