----------------------------- MODULE BoundedLog -----------------------------
(***************************************************************************)
(* What a bounded log promises its readers: the newest records, in order,  *)
(* without a gap; a new record costs at most the oldest one, and releasing *)
(* memory gives up the oldest records only, and none of the newest Keep.   *)
(***************************************************************************)
EXTENDS Naturals, Sequences

CONSTANTS
    Capacity,    \* records the log keeps
    Keep,        \* records that a release leaves
    Records      \* the records that may be written

VARIABLES
    kept,        \* the records kept, oldest first
    releases     \* releases of memory so far

logVars == <<kept, releases>>

With(log, r) == IF Len(log) < Capacity THEN Append(log, r) ELSE Append(Tail(log), r)

Released(log) == IF Len(log) <= Keep THEN log ELSE SubSeq(log, Len(log) - Keep + 1, Len(log))

LogInit == kept = <<>> /\ releases = 0

Record == (\E r \in Records : kept' = With(kept, r)) /\ UNCHANGED releases

\* All but the newest Keep records are given up, and the release may leave a record of itself.
Release ==
    /\ releases' = releases + 1
    /\ \/ kept' = Released(kept)
       \/ \E r \in Records : kept' = With(Released(kept), r)

LogSpec == LogInit /\ [][Record \/ Release]_logVars
=============================================================================
