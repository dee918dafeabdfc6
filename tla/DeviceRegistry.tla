--------------------------- MODULE DeviceRegistry ---------------------------
(***************************************************************************)
(* The bounded registry of gateway/device_manager.py.  A key stands for    *)
(* what update() makes the identity of a packet: the declared device_id,   *)
(* node_id or id, or the address it came from.  Names, addresses and       *)
(* payloads are display text and left out; last_seen, a string of fixed    *)
(* width that orders as the time does, is the time in seconds.             *)
(***************************************************************************)
EXTENDS Integers, FiniteSets, FiniteSetsExt

CONSTANTS
    Keys,              \* the identities packets may carry
    Capacity,          \* DEVICE_CAPACITY
    MaxTime,           \* bound: the seconds a behaviour lasts
    MaxPackets         \* bound: packets between two resets

ASSUME RegistryAssumption ==
    /\ IsFiniteSet(Keys)
    /\ Capacity \in Nat \ {0} /\ MaxTime \in Nat \ {0} /\ MaxPackets \in Nat

VARIABLES
    devices,           \* the records, a function whose domain is the keys of _devices
    now,               \* the clock iso_time() reads
    packet_count,      \* packets taken in since the program started
    latest,            \* history: per key, when its last packet came, 0 for never
    forgotten          \* history: per key, the packets that its evicted records had counted

registry == <<devices, latest, forgotten>>
registryVars == <<registry, now, packet_count>>

Known == DOMAIN devices
NoDevices == [k \in {} |-> [last_seen |-> 0, packet_count |-> 0]]

RegistryInit ==
    /\ devices = NoDevices /\ latest = [k \in Keys |-> 0] /\ forgotten = [k \in Keys |-> 0]
    /\ now = 1 /\ packet_count = 0

\* Mutated form: the record seen last is taken for the oldest.
Oldest_Newest == {k \in Known : \A j \in Known : devices[k].last_seen >= devices[j].last_seen}

\* The records _evict_oldest may pick: the dict's order decides among equals.
Oldest == {k \in Known : \A j \in Known : devices[k].last_seen <= devices[j].last_seen}

\* Mutated form: the capacity is tested with > instead of >=.
Kept_OffByOne(k) ==
    IF k \in Known \/ Cardinality(Known) <= Capacity
    THEN {Known} ELSE {Known \ {old} : old \in Oldest}

\* The sets of keys that may be left when a packet of k makes room for itself.
Kept(k) ==
    IF k \in Known \/ Cardinality(Known) < Capacity
    THEN {Known} ELSE {Known \ {old} : old \in Oldest}

Count(k) == IF k \in Known THEN devices[k].packet_count ELSE 0

\* update(), which has no await.
Update(k) ==
    \E kept \in Kept(k) :
        /\ devices' = [j \in kept \cup {k} |->
                          IF j = k THEN [last_seen |-> now, packet_count |-> Count(k) + 1]
                                   ELSE devices[j]]
        /\ latest' = [latest EXCEPT ![k] = now]
        /\ forgotten' = [j \in Keys |-> forgotten[j] + (IF j \in Known \ kept THEN Count(j) ELSE 0)]

Packet(k) ==
    /\ packet_count < MaxPackets /\ packet_count' = packet_count + 1
    /\ Update(k) /\ UNCHANGED now

Tick == now < MaxTime /\ now' = now + 1 /\ UNCHANGED <<registry, packet_count>>

\* The machine resets: the registry is in RAM only.
Reset ==
    /\ devices' = NoDevices /\ latest' = [k \in Keys |-> 0] /\ forgotten' = [k \in Keys |-> 0]
    /\ packet_count' = 0 /\ UNCHANGED now

RegistryNext == Tick \/ Reset \/ \E k \in Keys : Packet(k)
RegistrySpec == RegistryInit /\ [][RegistryNext]_registryVars

-----------------------------------------------------------------------------
(* Properties. *)

\* The registry is bounded and every variable has its type.
RegistryTypeOK ==
    /\ Known \subseteq Keys /\ Cardinality(Known) <= Capacity
    /\ devices \in [Known -> [last_seen : 1..MaxTime, packet_count : Nat \ {0}]]
    /\ now \in 1..MaxTime /\ packet_count \in Nat
    /\ latest \in [Keys -> 0..MaxTime] /\ forgotten \in [Keys -> Nat]

\* A device is dropped from the dashboard only when Capacity others were seen as recently:
\* evictions, one at a time and by the time of the last packet, amount to keeping the most
\* recent ones, however often a device left and came back.
RecentAreListed ==
    \A k \in Keys :
        /\ latest[k] > 0
        /\ Cardinality({j \in Keys \ {k} : latest[j] >= latest[k]}) < Capacity
        => k \in Known

\* Every packet is in the count of a listed device or of one that was evicted.
PacketsAddUp ==
    LET Packets(k) == Count(k) + forgotten[k]
    IN  packet_count = MapThenSumSet(Packets, Keys)
=============================================================================
