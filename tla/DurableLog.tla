------------------------------ MODULE DurableLog ------------------------------
(* What an event stream promises: a log that grows at its end, of which some     *)
(* entries are saved.  A restart keeps the longest prefix that is saved without  *)
(* a gap and nothing else: an entry is never reordered, replaced or resurrected. *)
EXTENDS Naturals, Sequences

CONSTANT Ids

VARIABLES
    log,       \* the entries, in order
    saved      \* the positions that survive a restart, if no earlier one is missing

LogInit == log = <<>> /\ saved = {}

Extend == \E e \in Ids : log' = Append(log, e) /\ UNCHANGED saved

Save ==
    /\ saved \subseteq saved'
    /\ saved' \subseteq 1..Len(log)
    /\ UNCHANGED log

FirstGap(n) == 1..n \subseteq saved /\ n + 1 \notin saved

Lose == \E n \in 0..Len(log) :
    /\ FirstGap(n)
    /\ log' = SubSeq(log, 1, n)
    /\ saved' = 1..n

LogNext == Extend \/ Save \/ Lose

LogSpec == LogInit /\ [][LogNext]_<<log, saved>>
=============================================================================
