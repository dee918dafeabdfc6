--------------------------- MODULE GatewayLogger ---------------------------
(***************************************************************************)
(* The log of gateway/logger.py, a list that becomes a ring when it is     *)
(* full, and the memory watch of start_gateway() in gateway/gateway.py,    *)
(* which trims it under heap pressure and warns once per episode.          *)
(*                                                                         *)
(* A record is the number of the _add call that wrote it: timestamps,      *)
(* levels and texts are left out.  Lists are indexed from 0 in the code    *)
(* and from 1 here; `next` keeps the code's value.                         *)
(***************************************************************************)
EXTENDS Integers, Sequences

CONSTANTS
    Capacity,     \* LOG_CAPACITY
    TrimKeep,     \* the 25 of start_gateway
    MaxRecords,   \* bound: calls of _add
    MaxTrims      \* bound: calls of trim

ASSUME LoggerAssumption ==
    Capacity \in Nat \ {0} /\ TrimKeep \in Nat /\ MaxRecords \in Nat /\ MaxTrims \in Nat

VARIABLES
    items,        \* _items
    next,         \* _next
    warned,       \* memory_warning_active of start_gateway
    added,        \* history: calls of _add so far
    trims,        \* history: calls of trim so far
    pressed,      \* history: the heap was last found short of memory
    warnings      \* history: memory warnings written since it was last found in order

episode == <<pressed, warnings>>
vars == <<items, next, warned, added, trims, episode>>

Lesser(a, b) == IF a < b THEN a ELSE b

Log == [items |-> items, next |-> next]

\* Mutated form: the ring's position is not moved on.
AddTo_StuckCursor(log, r) ==
    IF Len(log.items) < Capacity THEN [items |-> Append(log.items, r), next |-> log.next]
    ELSE [items |-> [log.items EXCEPT ![log.next + 1] = r], next |-> log.next]

\* _add: append while there is room, then overwrite the oldest.
AddTo(log, r) ==
    IF Len(log.items) < Capacity THEN [items |-> Append(log.items, r), next |-> log.next]
    ELSE [items |-> [log.items EXCEPT ![log.next + 1] = r],
          next  |-> (log.next + 1) % Capacity]

\* Mutated form: a list that is not a ring yet is read from its start.
Newest_FromStart(log, n) ==
    LET total == Len(log.items)
        count == Lesser(n, total)
        start == IF total = Capacity THEN (log.next + total - count) % total ELSE 0
    IN  [k \in 1..count |-> log.items[((start + k - 1) % total) + 1]]

\* The walk that entries and trim share: the newest n records, oldest of them first.
Newest(log, n) ==
    LET total == Len(log.items)
        count == Lesser(n, total)
        oldest == IF total = Capacity THEN log.next ELSE 0
        start == (oldest + total - count) % total
    IN  [k \in 1..count |-> log.items[((start + k - 1) % total) + 1]]

\* entries(limit), what /api/logs and /api/details show.
Entries(limit) == Newest(Log, limit)

\* Mutated form: the position survives the trim.
Trimmed_KeepsCursor(log, n) ==
    IF n >= Len(log.items) THEN log ELSE [items |-> Newest(log, n), next |-> log.next]

\* trim(keep)
Trimmed(log, n) ==
    IF n >= Len(log.items) THEN log ELSE [items |-> Newest(log, n), next |-> 0]

-----------------------------------------------------------------------------
Init ==
    /\ items = <<>> /\ next = 0 /\ warned = FALSE
    /\ added = 0 /\ trims = 0 /\ pressed = FALSE /\ warnings = 0

Becomes(log) == items' = log.items /\ next' = log.next

\* info, warning or error, called by any service.
Add ==
    /\ added < MaxRecords
    /\ added' = added + 1
    /\ Becomes(AddTo(Log, added + 1))
    /\ UNCHANGED <<warned, trims, episode>>

\* Mutated form: the flag is set and not asked.
WarnOnce_Always(log) ==
    /\ pressed' = TRUE /\ warned' = TRUE
    /\ added < MaxRecords /\ added' = added + 1
    /\ Becomes(AddTo(log, added + 1)) /\ warnings' = warnings + 1

\* The memory watch, the log being `log` by then, warns unless it has before.
WarnOnce(log) ==
    /\ pressed' = TRUE
    /\ IF warned THEN Becomes(log) /\ UNCHANGED <<warned, added, warnings>>
       ELSE /\ added < MaxRecords /\ added' = added + 1 /\ Becomes(AddTo(log, added + 1))
            /\ warned' = TRUE /\ warnings' = warnings + 1

\* Less than 45000 bytes free.
CriticalHeap ==
    /\ trims < MaxTrims /\ trims' = trims + 1
    /\ WarnOnce(Trimmed(Log, TrimKeep))

\* Less than 55000 bytes free.
LowHeap == WarnOnce(Log) /\ UNCHANGED trims

\* At least 55000 bytes free.
HeapInOrder ==
    /\ warned' = FALSE /\ pressed' = FALSE /\ warnings' = 0
    /\ UNCHANGED <<items, next, added, trims>>

Next == Add \/ CriticalHeap \/ LowHeap \/ HeapInOrder

Spec == Init /\ [][Next]_vars

-----------------------------------------------------------------------------
(* Properties. *)

\* The list never outgrows its capacity, the cursor stays inside it, and is 0 until
\* the list is a full ring.
TypeOK ==
    /\ items \in Seq(1..added) /\ Len(items) <= Capacity
    /\ next \in 0..(Capacity - 1) /\ (Len(items) < Capacity => next = 0)
    /\ warned \in BOOLEAN /\ added \in Nat /\ trims \in Nat
    /\ pressed \in BOOLEAN /\ warnings \in Nat

\* Whatever mixture of writes, wraps and trims came before, a reader asking for any
\* number of records gets the newest ones, in order, without a gap or a repetition.
EntriesAreNewest ==
    \A limit \in 0..(Capacity + 1) :
        LET count == Lesser(limit, Len(items))
        IN  Entries(limit) = [k \in 1..count |-> added - count + k]

\* Each episode of heap pressure, from the round that finds too little memory to the one that
\* finds it in order, has exactly one warning in the log, whatever path it takes between the
\* two thresholds: none is written twice and no new episode goes without.
OneWarningPerEpisode == warnings = IF pressed THEN 1 ELSE 0

Bounded == INSTANCE BoundedLog
             WITH Records <- 1..MaxRecords, Keep <- TrimKeep,
                  kept <- Entries(Capacity), releases <- trims

\* The ring, read through entries, behaves as the bounded log it stands for: a record costs
\* at most the oldest one, and only a trim costs more.
ImplementsBoundedLog == Bounded!LogSpec
=============================================================================
