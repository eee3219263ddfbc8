----------------------------- MODULE StateStore -----------------------------
(* StateManager: a SQLite table of versioned records with a cache in front of  *)
(* it.  A write reads the old record from the cache, commits the row, updates   *)
(* the cache, writes the audit row and calls the subscribers, one after the     *)
(* other; only the commit is under the manager's lock.  A read that misses the  *)
(* cache reads the row and stores it in the cache in two steps.                 *)
EXTENDS Naturals

CONSTANTS
    Keys,          \* (domain, key) pairs
    Values,        \* what callers write
    Absent,        \* no record
    StateThreads,  \* the threads that call the manager
    MaxVersion,    \* bound on the version a caller pushes a record to
    ConflictRetries    \* of set_with_retry

ASSUME StateAssumption == MaxVersion \in Nat

VARIABLES
    serialized,    \* the keys whose callers wait for each other, as dispatch does
                   \* with the session lock; nothing orders the callers of the others
    state_row,           \* state_store, durable
    cached,        \* _cache
    call           \* per thread: the call it is in

stateVars == <<serialized, state_row, cached, call>>

Record == [value : Values, version : 1..MaxVersion]
Ops == {"get", "set", "set_if_version", "set_with_retry", "delete"}
Writes == {"set", "set_if_version", "set_with_retry"}
NoCommit == [pc |-> "idle"]

Version(r) == IF r = Absent THEN 0 ELSE r.version
PutRecord(f, k, r) == [f EXCEPT ![k] = r]
GoesTo(t, pc) == call' = [call EXCEPT ![t].pc = pc]
CallReturns(t) == call' = [call EXCEPT ![t] = NoCommit]

StateInit ==
    /\ serialized \in SUBSET Keys
    /\ state_row = [k \in Keys |-> Absent]
    /\ cached = [k \in Keys |-> Absent]
    /\ call = [t \in StateThreads |-> NoCommit]

\* The domain and role checks raise before anything is read.
CallState(t, op, k, v, expected) ==
    /\ call[t].pc = "idle"
    /\ k \in serialized =>
         \A u \in StateThreads : call[u].pc # "idle" => call[u].key # k
    /\ (op \in Writes) = (v \in Values)
    /\ op = "set_if_version" \/ expected = 0
    /\ call' = [call EXCEPT ![t] =
         [pc |-> CASE op = "set" -> "old"
                   [] op = "delete" -> "old"
                   [] op = "set_with_retry" -> "expect"
                   [] OTHER -> "read",
          op |-> op, key |-> k, value |-> v, expected |-> expected,
          found |-> Absent, old |-> Absent, tries |-> 0]]
    /\ UNCHANGED <<serialized, state_row, cached>>

\* get_record: a hit returns, a miss takes the row.  pc "expect" is the read of
\* set_with_retry, "read" the one of get and of set_if_version.
GetRecord(t) ==
    LET d == call[t] IN
    /\ d.pc \in {"expect", "read"}
    /\ IF cached[d.key] # Absent \/ state_row[d.key] = Absent
       THEN call' = [call EXCEPT ![t].found = cached[d.key],
                                 ![t].pc = IF d.pc = "expect" THEN "expected" ELSE "check"]
       ELSE call' = [call EXCEPT ![t].found = state_row[d.key],
                                 ![t].pc = IF d.pc = "expect" THEN "fill_expected" ELSE "fill"]
    /\ UNCHANGED <<serialized, state_row, cached>>

\* The record read on a miss becomes the cached one.
FillCache(t) ==
    /\ call[t].pc \in {"fill_expected", "fill"}
    /\ cached' = PutRecord(cached, call[t].key, call[t].found)
    /\ GoesTo(t, IF call[t].pc = "fill" THEN "check" ELSE "expected")
    /\ UNCHANGED <<serialized, state_row>>

\* set_with_retry hands the version it read to set_if_version.
ExpectedVersion(t) ==
    /\ call[t].pc = "expected"
    /\ call' = [call EXCEPT ![t].expected = Version(call[t].found), ![t].pc = "read"]
    /\ UNCHANGED <<serialized, state_row, cached>>

VersionMatches(t) == Version(call[t].found) = call[t].expected

CheckVersion(t) ==
    /\ call[t].pc = "check"
    /\ \/ /\ call[t].op = "get"
          /\ CallReturns(t)
       \/ /\ call[t].op # "get"
          /\ VersionMatches(t)
          /\ GoesTo(t, "old")
       \/ /\ call[t].op # "get"
          /\ ~VersionMatches(t)
          /\ IF call[t].op = "set_with_retry" /\ call[t].tries < ConflictRetries
             THEN call' = [call EXCEPT ![t].tries = @ + 1, ![t].pc = "expect"]
             ELSE CallReturns(t)
    /\ UNCHANGED <<serialized, state_row, cached>>

\* The old record, and with it the new version, is read before the lock is taken.
ReadOld(t) ==
    /\ call[t].pc = "old"
    /\ call[t].op = "delete" \/ Version(cached[call[t].key]) < MaxVersion
    /\ call' = [call EXCEPT ![t].old = cached[call[t].key], ![t].pc = "commit"]
    /\ UNCHANGED <<serialized, state_row, cached>>

\* The record a write leaves, or Absent after a delete.
NewRecord(t) ==
    IF call[t].op = "delete" THEN Absent
    ELSE [value |-> call[t].value, version |-> Version(call[t].old) + 1]

\* Mutant: INSERT OR IGNORE keeps a row that is already there.
CommitRowIgnored(t) ==
    /\ call[t].pc = "commit"
    /\ state_row' = IF state_row[call[t].key] # Absent /\ call[t].op # "delete" THEN state_row
                    ELSE PutRecord(state_row, call[t].key, NewRecord(t))
    /\ GoesTo(t, "cache")
    /\ UNCHANGED <<serialized, cached>>

CommitRow(t) ==
    /\ call[t].pc = "commit"
    /\ state_row' = PutRecord(state_row, call[t].key, NewRecord(t))
    /\ GoesTo(t, "cache")
    /\ UNCHANGED <<serialized, cached>>

\* A delete of a record that is not cached ends here.
UpdateCache(t) ==
    /\ call[t].pc = "cache"
    /\ cached' = PutRecord(cached, call[t].key, NewRecord(t))
    /\ IF call[t].op = "delete" /\ call[t].old = Absent THEN CallReturns(t) ELSE GoesTo(t, "report")
    /\ UNCHANGED <<serialized, state_row>>

\* The audit row and the calls of the subscribers, on the writer's thread: neither
\* is read back by the manager, and a subscriber that raises is only recorded.
Report(t) ==
    /\ call[t].pc = "report"
    /\ CallReturns(t)
    /\ UNCHANGED <<serialized, state_row, cached>>

\* The process ends anywhere and starts again: _warm_cache loads every row.
RestartState ==
    /\ cached' = state_row
    /\ call' = [t \in StateThreads |-> NoCommit]
    /\ UNCHANGED <<serialized, state_row>>

StateNext ==
    \/ \E t \in StateThreads :
         \/ \E op \in Ops, k \in Keys, v \in Values \cup {Absent}, n \in 0..1 :
               CallState(t, op, k, v, n)
         \/ GetRecord(t) \/ FillCache(t) \/ ExpectedVersion(t) \/ CheckVersion(t)
         \/ ReadOld(t) \/ CommitRow(t) \/ UpdateCache(t) \/ Report(t)
    \/ RestartState

StateSpec == StateInit /\ [][StateNext]_stateVars

StateTypeOK ==
    /\ state_row \in [Keys -> Record \cup {Absent}]
    /\ cached \in [Keys -> Record \cup {Absent}]
    /\ \A t \in StateThreads : call[t].pc # "idle" => call[t].op \in Ops

-----------------------------------------------------------------------------
\* A key whose callers nothing orders promises nothing: it stays absent here.
Register == INSTANCE VersionedState
    WITH record <- [k \in Keys |-> IF k \in serialized THEN cached[k] ELSE Absent]

\* What readers see of a key whose callers wait for each other is a versioned
\* register: every write adds exactly one to its version, whatever the order of
\* commit, cache update and restart, so _warm_cache undoes no acknowledged write.
ImplementsRegister == Register!RegisterSpec
=============================================================================
