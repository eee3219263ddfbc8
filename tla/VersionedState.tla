--------------------------- MODULE VersionedState ---------------------------
(* What StateManager promises for a key: the record is absent or has a value   *)
(* and a version, and a step leaves it alone, writes it with the next version, *)
(* or removes it.  A restart is no step of this specification: it must be       *)
(* invisible or complete a write that was under way.                            *)
EXTENDS Naturals

CONSTANTS Keys, Values, Absent

VARIABLE record        \* per key: Absent, or its value and version

VersionOf(r) == IF r = Absent THEN 0 ELSE r.version

Written(k) == \E v \in Values :
    record'[k] = [value |-> v, version |-> VersionOf(record[k]) + 1]

Removed(k) == record'[k] = Absent

RegisterInit == record = [k \in Keys |-> Absent]

\* A restart may complete writes of several keys at once.
RegisterNext ==
    /\ record' = [k \in Keys |-> record'[k]]
    /\ \A k \in Keys : record'[k] = record[k] \/ Written(k) \/ Removed(k)

RegisterSpec == RegisterInit /\ [][RegisterNext]_record
=============================================================================
