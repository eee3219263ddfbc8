------------------------------- MODULE Memory -------------------------------
(***************************************************************************)
(* Semantic events: EventRepository and the threads that use it without a  *)
(* lock.  A chat turn recalls events and, every EXTRACTION_INTERVAL turns, *)
(* extracts new ones; the idle hook extracts the rest and retires events   *)
(* that decayed; the desktop's endpoints create, edit and delete events.   *)
(* Every statement is a transaction of its own.                            *)
(***************************************************************************)
EXTENDS Naturals, FiniteSetsExt

CONSTANTS
    Editors,         \* endpoint threads
    MaxEvents,       \* bound on the events ever made
    EventContents,   \* contents, numbered so that neighbours are near
    NULL,            \* SQL's NULL; also no row, no edit
    EXTRACTION_INTERVAL,
    MaxTurns,        \* bound on the turns of the session
    MaxExtracted,    \* bound on the events of one extraction
    MaxEpisodes      \* bound on endpoint calls, idle passes and restarts together

VARIABLES
    semantic_events,       \* the table, by event_id
    next_event,            \* the ids from here on were never drawn
    worker,                \* the chat turn and the idle thread
    edits,                 \* per endpoint thread: the row update_fields will write
    user_turns,            \* user messages of the session
    last_extracted_turn,   \* EventExtractor.last_extracted_turn
    episodes               \* endpoint calls, idle passes and restarts so far

memoryVars == <<semantic_events, next_event, worker, edits, user_turns,
                last_extracted_turn, episodes>>

EventIds == 1..MaxEvents
Importance == 1..2

\* A vector is named by the content it was computed from.
SemanticEvent == [content : EventContents, vector : EventContents \cup {NULL},
                  importance : Importance,
                  status : {"active", "superseded", "dormant"},
                  superseded_by : EventIds \cup {NULL}, recalled : BOOLEAN]

\* SQL's NULL is neither a row, an id nor a content, and the bounds are counts.
ASSUME MemoryAssumption ==
    /\ MaxEvents \in Nat /\ MaxTurns \in Nat /\ MaxExtracted \in Nat /\ MaxEpisodes \in Nat
    /\ EXTRACTION_INTERVAL \in Nat \ {0}
    /\ NULL \notin EventIds \cup EventContents /\ NULL \notin SemanticEvent

NewEvent(c, v, i) == [content |-> c, vector |-> v, importance |-> i, status |-> "active",
                      superseded_by |-> NULL, recalled |-> FALSE]

Stored == {e \in EventIds : semantic_events[e] # NULL}
get_active == {e \in Stored : semantic_events[e].status = "active"}

Resting_Worker == [at |-> "rest", left |-> 0, upto |-> 0, id |-> NULL, event |-> NULL,
                   duplicate |-> NULL, marks |-> {}]

MemoryInit ==
    /\ semantic_events = [e \in EventIds |-> NULL]
    /\ next_event = 1
    /\ worker = [w \in {"turn", "idle"} |-> Resting_Worker]
    /\ edits = [u \in Editors |-> NULL]
    /\ user_turns = 0
    /\ last_extracted_turn = 0
    /\ episodes = 0

-----------------------------------------------------------------------------
\* Two contents share at least half of their tokens; the relation is not transitive.
Near(c, d) == c \in {d - 1, d, d + 1}

\* _find_duplicate: the first near row in get_active's order, importance then age.
_find_duplicate(c) ==
    LET near == {e \in get_active : Near(c, semantic_events[e].content)}
        Before(e, f) == \/ semantic_events[e].importance > semantic_events[f].importance
                        \/ /\ semantic_events[e].importance = semantic_events[f].importance
                           /\ e >= f
    IN  IF near = {} THEN NULL ELSE CHOOSE e \in near : \A f \in near : Before(e, f)

should_extract(n) == n > 0 /\ n % EXTRACTION_INTERVAL = 0

NewEpisode == episodes < MaxEpisodes /\ episodes' = episodes + 1

At(w, place) == worker[w].at = place

Goes(w, place) == worker' = [worker EXCEPT ![w].at = place]

-----------------------------------------------------------------------------
\* EventRecaller.recall: a read of the active rows fixes the candidates; the
\* ranking may select any of them.
Recall ==
    /\ At("turn", "rest") /\ user_turns < MaxTurns
    /\ \E hits \in SUBSET get_active :
          worker' = [worker EXCEPT !["turn"] = [@ EXCEPT !.at = "recalled", !.marks = hits]]
    /\ UNCHANGED <<semantic_events, next_event, edits, user_turns, last_extracted_turn,
                   episodes>>

\* update_recall_stats of every selected event (increments, so their order is lost).
update_recall_stats ==
    /\ At("turn", "recalled")
    /\ semantic_events' = [e \in EventIds |->
          IF e \in worker["turn"].marks THEN [semantic_events[e] EXCEPT !.recalled = TRUE]
          ELSE semantic_events[e]]
    /\ worker' = [worker EXCEPT !["turn"] = [@ EXCEPT !.at = "answering", !.marks = {}]]
    /\ UNCHANGED <<next_event, edits, user_turns, last_extracted_turn, episodes>>

\* The model has answered and the turn is stored; at the boundary the last
\* EXTRACTION_INTERVAL turns are handed to the extractor.
TurnEnd ==
    /\ At("turn", "answering")
    /\ user_turns' = user_turns + 1
    /\ IF should_extract(user_turns + 1)
       THEN worker' = [worker EXCEPT !["turn"] = [Resting_Worker EXCEPT
                          !.at = "extract", !.left = MaxExtracted, !.upto = user_turns + 1]]
       ELSE Goes("turn", "rest")
    /\ UNCHANGED <<semantic_events, next_event, edits, last_extracted_turn, episodes>>

\* MemoryIdleHook.on_idle: residual turns are extracted, a window that ends at the
\* boundary is left to the turn.
on_idle ==
    /\ At("idle", "rest") /\ NewEpisode
    /\ IF user_turns > last_extracted_turn /\ ~should_extract(user_turns)
       THEN worker' = [worker EXCEPT !["idle"] = [Resting_Worker EXCEPT
                          !.at = "extract", !.left = MaxExtracted, !.upto = user_turns]]
       ELSE Goes("idle", "gc")
    /\ UNCHANGED <<semantic_events, next_event, edits, user_turns, last_extracted_turn>>

-----------------------------------------------------------------------------
\* One event of the model's list: an id is drawn, the content embedded (or not),
\* the duplicate looked up.  A duplicate at least as important ends the matter.
ExtractOne(w) ==
    /\ At(w, "extract") /\ worker[w].left > 0 /\ next_event <= MaxEvents
    /\ \E c \in EventContents, i \in Importance, embedded \in BOOLEAN :
          LET d == _find_duplicate(c)
              known == d # NULL /\ i <= semantic_events[d].importance
          IN  /\ worker' = [worker EXCEPT ![w] = [@ EXCEPT
                               !.left = worker[w].left - 1,
                               !.at = IF known THEN "extract" ELSE "store",
                               !.id = IF known THEN NULL ELSE next_event,
                               !.event = IF known THEN NULL
                                         ELSE NewEvent(c, IF embedded THEN c ELSE NULL, i),
                               !.duplicate = IF known THEN NULL ELSE d]]
              /\ next_event' = IF known THEN next_event ELSE next_event + 1
    /\ UNCHANGED <<semantic_events, edits, user_turns, last_extracted_turn, episodes>>

NextRaw(w) == worker' = [worker EXCEPT ![w] = [@ EXCEPT !.at = "extract", !.id = NULL,
                                                        !.event = NULL, !.duplicate = NULL]]

\* EventRepository.store.
store(w) ==
    /\ At(w, "store")
    /\ semantic_events' = [semantic_events EXCEPT ![worker[w].id] = worker[w].event]
    /\ IF worker[w].duplicate = NULL THEN NextRaw(w) ELSE Goes(w, "supersede")
    /\ UNCHANGED <<next_event, edits, user_turns, last_extracted_turn, episodes>>

\* mark_superseded on the duplicate, whatever has become of it since.
mark_superseded(w) ==
    /\ At(w, "supersede")
    /\ semantic_events' = [semantic_events EXCEPT ![worker[w].duplicate] =
                             [@ EXCEPT !.status = "superseded", !.superseded_by = worker[w].id]]
    /\ NextRaw(w)
    /\ UNCHANGED <<next_event, edits, user_turns, last_extracted_turn, episodes>>

\* Mutant: a failed INSERT is swallowed and the duplicate superseded all the same.
ExtractFails_Swallowed(w) ==
    /\ worker[w].at \in {"extract", "store", "supersede"}
    /\ Goes(w, IF At(w, "store") /\ worker[w].duplicate # NULL THEN "supersede" ELSE "rest")
    /\ UNCHANGED <<semantic_events, next_event, edits, user_turns, last_extracted_turn,
                   episodes>>

\* SQLite raises: extract is left, the window is not marked, the idle hook stops too.
ExtractFails(w) ==
    /\ worker[w].at \in {"extract", "store", "supersede"}
    /\ worker' = [worker EXCEPT ![w] = Resting_Worker]
    /\ UNCHANGED <<semantic_events, next_event, edits, user_turns, last_extracted_turn,
                   episodes>>

\* extract returns; mark_extracted records the end of the window.
mark_extracted(w) ==
    /\ At(w, "extract")
    /\ last_extracted_turn' = Max({last_extracted_turn, worker[w].upto})
    /\ worker' = [worker EXCEPT ![w] = [Resting_Worker EXCEPT
                                           !.at = IF w = "idle" THEN "gc" ELSE "rest"]]
    /\ UNCHANGED <<semantic_events, next_event, edits, user_turns, episodes>>

\* The idle hook reads the active events and keeps those should_gc names: never
\* recalled, not important, and old enough (any of them may be).
ReadForGc ==
    /\ At("idle", "gc")
    /\ \E old \in SUBSET {e \in get_active : /\ ~semantic_events[e].recalled
                                             /\ semantic_events[e].importance = 1} :
          worker' = [worker EXCEPT !["idle"] = [@ EXCEPT !.at = "mark", !.marks = old]]
    /\ UNCHANGED <<semantic_events, next_event, edits, user_turns, last_extracted_turn,
                   episodes>>

\* mark_dormant on each of them, a failing one skipped (it is not in marks).
mark_dormant ==
    /\ At("idle", "mark")
    /\ IF worker["idle"].marks = {}
       THEN Goes("idle", "rest") /\ UNCHANGED semantic_events
       ELSE LET e == Min(worker["idle"].marks)
            IN  /\ semantic_events' = [semantic_events EXCEPT ![e].status = "dormant"]
                /\ worker' = [worker EXCEPT !["idle"].marks = @ \ {e}]
    /\ UNCHANGED <<next_event, edits, user_turns, last_extracted_turn, episodes>>

-----------------------------------------------------------------------------
Call(u) == edits[u] = NULL /\ NewEpisode

\* POST /api/memory/events: embedded or refused, then stored.
create_semantic_event(u) ==
    /\ Call(u) /\ next_event <= MaxEvents
    /\ \E c \in EventContents :
          semantic_events' = [semantic_events EXCEPT ![next_event] = NewEvent(c, c, 2)]
    /\ next_event' = next_event + 1
    /\ UNCHANGED <<worker, edits, user_turns, last_extracted_turn>>

\* Mutant: WithContent_Kept, the vector stays.
\* What update_fields makes of the row it read: a content given anew drops the vector.
WithContent_Kept(row, c) == [row EXCEPT !.content = c]
WithContent(row, c) == [row EXCEPT !.content = c, !.vector = NULL]
WithImportance(row, i) == [row EXCEPT !.importance = i]

\* PATCH, first half: the row is read and changed in memory.
update_fields(u) ==
    /\ Call(u)
    /\ \E e \in Stored :
          \E row \in {WithContent(semantic_events[e], c) : c \in EventContents}
                     \cup {WithImportance(semantic_events[e], i) : i \in Importance} :
             edits' = [edits EXCEPT ![u] = [id |-> e, row |-> row]]
    /\ UNCHANGED <<semantic_events, next_event, worker, user_turns, last_extracted_turn>>

\* PATCH, second half: every editable column and the status as they were read.
WriteFields(u) ==
    /\ edits[u] # NULL
    /\ LET e == edits[u].id
           row == edits[u].row
       IN  semantic_events' = [semantic_events EXCEPT ![e] = [@ EXCEPT
              !.content = row.content, !.vector = row.vector,
              !.importance = row.importance, !.status = row.status]]
    /\ edits' = [edits EXCEPT ![u] = NULL]
    /\ UNCHANGED <<next_event, worker, user_turns, last_extracted_turn, episodes>>

\* DELETE: a soft one, events are never removed.
delete_semantic_event(u) ==
    /\ Call(u)
    /\ \E e \in Stored : semantic_events' = [semantic_events EXCEPT ![e].status = "dormant"]
    /\ UNCHANGED <<next_event, worker, edits, user_turns, last_extracted_turn>>

-----------------------------------------------------------------------------
\* recompute_content_embeddings, before any thread starts: rows without a vector
\* get one, unless the embedder fails.
recompute_content_embeddings(embedded) ==
    semantic_events' = [e \in EventIds |->
        IF e \in embedded THEN [semantic_events[e] EXCEPT !.vector = semantic_events[e].content]
        ELSE semantic_events[e]]

\* The process dies anywhere and the next one starts.
CompanionStarts ==
    /\ NewEpisode
    /\ \E embedded \in SUBSET {e \in Stored : semantic_events[e].vector = NULL} :
          recompute_content_embeddings(embedded)
    /\ worker' = [w \in {"turn", "idle"} |-> Resting_Worker]
    /\ edits' = [u \in Editors |-> NULL]
    /\ last_extracted_turn' = 0
    /\ UNCHANGED <<next_event, user_turns>>

MemoryNext ==
    \/ Recall \/ update_recall_stats \/ TurnEnd \/ on_idle \/ ReadForGc \/ mark_dormant
    \/ \E w \in {"turn", "idle"} :
          ExtractOne(w) \/ store(w) \/ mark_superseded(w) \/ ExtractFails(w) \/ mark_extracted(w)
    \/ \E u \in Editors : \/ create_semantic_event(u) \/ update_fields(u)
                          \/ WriteFields(u) \/ delete_semantic_event(u)
    \/ CompanionStarts

MemorySpec == MemoryInit /\ [][MemoryNext]_memoryVars

-----------------------------------------------------------------------------
MemoryTypeOK ==
    /\ semantic_events \in [EventIds -> SemanticEvent \cup {NULL}]
    /\ next_event \in 1..MaxEvents + 1
    /\ \A w \in {"turn", "idle"} :
          worker[w].at \in {"rest", "recalled", "answering", "extract", "store", "supersede",
                            "gc", "mark"}
    /\ \A u \in Editors : edits[u] # NULL => edits[u].id \in Stored
    /\ user_turns \in 0..MaxTurns
    /\ last_extracted_turn \in 0..MaxTurns
    /\ episodes \in 0..MaxEpisodes

\* What the companion learned is not lost by replacing it: a superseded event names
\* a successor that is in the table and was made after it, whatever two extractors,
\* an editor's stale write and a crash between the two statements do.  Following the
\* successors therefore ends in an event that was not superseded.
\* (event_extractor.extract, event_repository.mark_superseded)
SupersededIsReplaced ==
    \A e \in Stored : semantic_events[e].status = "superseded" =>
        semantic_events[e].superseded_by \in {s \in Stored : s > e}

\* The vector vector_search compares is the one of the content recall will show:
\* edits that cross never leave the vector of a content the row no longer has.
\* (event_repository.update_fields, recompute_content_embeddings)
VectorIsOfContent ==
    \A e \in Stored : semantic_events[e].vector \in {NULL, semantic_events[e].content}

\* No interleaving of the turn, the idle hook, two editors and a restart spoils the
\* table: what replaces an event is there, and what is searched is what is shown.
\* (event_extractor.extract, event_repository.update_fields)
EventsStayUsable == SupersededIsReplaced /\ VectorIsOfContent
=============================================================================
