---------------------------- MODULE ExchangeQueue ----------------------------
(***************************************************************************)
(* What the AT command channel promises to those that use it, whatever     *)
(* they interleave and however late the modem is: calls are numbered as    *)
(* they are made, they return one at a time in that order, all of them do, *)
(* and an answer that one of them takes was given to it or to an earlier.  *)
(***************************************************************************)
EXTENDS Naturals

VARIABLES
    asked,         \* calls made so far
    returned,      \* calls that have returned
    answeredAs     \* the call whose answer the last of them took, 0 if it took none

vars == <<asked, returned, answeredAs>>

Init == asked = 0 /\ returned = 0 /\ answeredAs = 0

Ask == asked' = asked + 1 /\ UNCHANGED <<returned, answeredAs>>

Return ==
    /\ returned < asked /\ returned' = returned + 1
    /\ answeredAs' \in 0..returned'
    /\ UNCHANGED asked

Next == Ask \/ Return

Spec == Init /\ [][Next]_vars /\ WF_vars(Return)
=============================================================================
