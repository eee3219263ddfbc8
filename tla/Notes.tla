-------------------------------- MODULE Notes --------------------------------
(***************************************************************************)
(* The memories the user keeps on purpose: memory_chunks and               *)
(* memory_drafts.  The desktop's endpoints and chat turns add, edit,       *)
(* invalidate, restore and delete chunks; the REPL also summarises a       *)
(* session into a draft and confirms or discards it.  No operation opens a *)
(* transaction, so a process may die between any two statements.           *)
(***************************************************************************)
EXTENDS Naturals, FiniteSets

CONSTANTS
    NoteThreads,       \* desktop threads
    Cli,               \* the REPL
    NoteBodies,        \* texts
    DraftIds,          \* drafts ever made
    Nothing,           \* no row, no vector, no draft, no status
    MaxNotes,          \* bound on the chunks ever inserted
    MaxNoteCalls       \* bound on the calls and deaths

\* SQL's NULL is no value of a column, and the bounds are counts.
ASSUME NotesAssumption ==
    /\ MaxNotes \in Nat /\ MaxNoteCalls \in Nat
    /\ Nothing \notin {"pending", "confirmed", "discarded", "active", "invalid", "deleted"}

VARIABLES
    memory_chunks,     \* the table by id; a deleted row leaves "deleted"
    next_note,         \* AUTOINCREMENT
    memory_drafts,     \* status per draft
    hand,              \* per thread: the statements its call has left
    note_calls

noteVars == <<memory_chunks, next_note, memory_drafts, hand, note_calls>>

NoteIds == 1..MaxNotes
Hands == NoteThreads \cup {Cli}

Empty_Hand == [at |-> "rest", id |-> Nothing, body |-> Nothing, draft |-> Nothing,
               status |-> Nothing, hits |-> {}]

Chunk == [body : NoteBodies, vector : NoteBodies \cup {Nothing},
          status : {"active", "invalid", "deleted"}, draft : DraftIds \cup {Nothing}]

NotesInit ==
    /\ memory_chunks = [i \in NoteIds |-> Nothing]
    /\ next_note = 1
    /\ memory_drafts = [d \in DraftIds |-> Nothing]
    /\ hand = [h \in Hands |-> Empty_Hand]
    /\ note_calls = 0

Rows == {i \in 1..next_note - 1 : memory_chunks[i].status # "deleted"}
Active == {i \in Rows : memory_chunks[i].status = "active"}

Begins(h) == hand[h].at = "rest" /\ note_calls < MaxNoteCalls /\ note_calls' = note_calls + 1

-----------------------------------------------------------------------------
\* add_memory_chunk, first statement: the row.  Its vector is the second one.
InsertChunk(h, body, d, place) ==
    /\ next_note <= MaxNotes
    /\ memory_chunks' = [memory_chunks EXCEPT ![next_note] =
          [body |-> body, vector |-> Nothing, status |-> "active", draft |-> d]]
    /\ next_note' = next_note + 1
    /\ hand' = [hand EXCEPT ![h] = [@ EXCEPT !.at = place, !.id = next_note, !.body = body]]

\* POST /api/memories; in a turn, a #remember line or a sentence the decision
\* engine routes to memory.
add_memory_chunk(h) ==
    /\ Begins(h)
    /\ \E b \in NoteBodies : InsertChunk(h, b, Nothing, "embed")
    /\ UNCHANGED memory_drafts

\* PATCH and /memory set: the body, then its vector, then the status if one is given.
update_memory_chunk(h) ==
    /\ Begins(h)
    /\ \E i \in Rows, b \in NoteBodies, s \in {Nothing, "active", "invalid"} :
          /\ memory_chunks' = [memory_chunks EXCEPT ![i].body = b]
          /\ hand' = [hand EXCEPT ![h] = [@ EXCEPT !.at = "embed", !.id = i, !.body = b,
                                                   !.status = s]]
    /\ UNCHANGED <<next_note, memory_drafts>>

\* maybe_write_embedding (the configuration may turn it on): the text the caller
\* holds, on whatever row is there.
maybe_write_embedding(h) ==
    /\ hand[h].at \in {"embed", "embed_draft"}
    /\ memory_chunks' = [memory_chunks EXCEPT ![hand[h].id].vector =
          IF hand[h].id \in Rows THEN hand[h].body ELSE @]
    /\ hand' = [hand EXCEPT ![h].at = IF hand[h].at = "embed_draft" THEN "confirm"
                                      ELSE IF hand[h].status # Nothing THEN "status"
                                      ELSE "done"]
    /\ UNCHANGED <<next_note, memory_drafts, note_calls>>

\* invalidate_memory_chunk and restore_memory_chunk, on a row that is still there.
SetStatus(i, s) == memory_chunks' = [memory_chunks EXCEPT ![i].status =
                                        IF i \in Rows THEN s ELSE @]

PatchStatus(h) ==
    /\ hand[h].at = "status"
    /\ SetStatus(hand[h].id, hand[h].status)
    /\ hand' = [hand EXCEPT ![h].at = "done"]
    /\ UNCHANGED <<next_note, memory_drafts, note_calls>>

invalidate_or_restore(h) ==
    /\ Begins(h)
    /\ \E i \in Rows, s \in {"active", "invalid"} : SetStatus(i, s)
    /\ UNCHANGED <<next_note, memory_drafts, hand>>

delete_memory_chunk(h) ==
    /\ Begins(h)
    /\ \E i \in Rows : memory_chunks' = [memory_chunks EXCEPT ![i].status = "deleted"]
    /\ UNCHANGED <<next_note, memory_drafts, hand>>

\* recall: the full-text rows, then the overlapping ones, then the near vectors,
\* each from a query of its own and each asking for active rows.
recall(h) ==
    /\ Begins(h)
    /\ \E found \in SUBSET Active :
          hand' = [hand EXCEPT ![h] = [@ EXCEPT !.at = "overlap", !.hits = found]]
    /\ UNCHANGED <<memory_chunks, next_note, memory_drafts>>

RecallMore(h) ==
    /\ hand[h].at \in {"overlap", "vectors"}
    /\ \E found \in SUBSET (IF hand[h].at = "overlap" THEN Active
                            ELSE {i \in Active : memory_chunks[i].vector # Nothing}) :
          hand' = [hand EXCEPT ![h] = [@ EXCEPT !.hits = hand[h].hits \cup found,
                      !.at = IF hand[h].at = "overlap" THEN "vectors" ELSE "done"]]
    /\ UNCHANGED <<memory_chunks, next_note, memory_drafts, note_calls>>

-----------------------------------------------------------------------------
\* /summarize.
create_draft_from_session ==
    /\ Begins(Cli)
    /\ \E d \in DraftIds : /\ memory_drafts[d] = Nothing
                           /\ memory_drafts' = [memory_drafts EXCEPT ![d] = "pending"]
    /\ UNCHANGED <<memory_chunks, next_note, hand>>

\* confirm_draft: the draft is read, its text added as a chunk, the draft marked.
confirm_draft ==
    /\ Begins(Cli)
    /\ \E d \in DraftIds :
          /\ memory_drafts[d] = "pending"
          /\ hand' = [hand EXCEPT ![Cli] = [@ EXCEPT !.at = "add", !.draft = d]]
    /\ UNCHANGED <<memory_chunks, next_note, memory_drafts>>

\* Mutant: the draft is marked before its text is stored.
AddDraft_MarkedFirst ==
    /\ hand[Cli].at = "add"
    /\ IF memory_drafts[hand[Cli].draft] = "pending"
       THEN /\ memory_drafts' = [memory_drafts EXCEPT ![hand[Cli].draft] = "confirmed"]
            /\ UNCHANGED <<memory_chunks, next_note, hand>>
       ELSE /\ \E b \in NoteBodies : InsertChunk(Cli, b, hand[Cli].draft, "embed_draft")
            /\ UNCHANGED memory_drafts
    /\ UNCHANGED note_calls

AddDraft ==
    /\ hand[Cli].at = "add"
    /\ \E b \in NoteBodies : InsertChunk(Cli, b, hand[Cli].draft, "embed_draft")
    /\ UNCHANGED <<memory_drafts, note_calls>>

MarkConfirmed ==
    /\ hand[Cli].at = "confirm"
    /\ memory_drafts' = [memory_drafts EXCEPT ![hand[Cli].draft] = "confirmed"]
    /\ hand' = [hand EXCEPT ![Cli].at = "done"]
    /\ UNCHANGED <<memory_chunks, next_note, note_calls>>

\* The REPL runs one command at a time, so the check still holds at the UPDATE.
discard_draft ==
    /\ Begins(Cli)
    /\ \E d \in DraftIds : /\ memory_drafts[d] = "pending"
                           /\ memory_drafts' = [memory_drafts EXCEPT ![d] = "discarded"]
    /\ UNCHANGED <<memory_chunks, next_note, hand>>

\* A call returns.
NoteReturns(h) ==
    /\ hand[h].at = "done"
    /\ hand' = [hand EXCEPT ![h] = Empty_Hand]
    /\ UNCHANGED <<memory_chunks, next_note, memory_drafts, note_calls>>

\* The desktop or the REPL dies: its calls are gone, what they wrote stays.
NoteProcessDies ==
    /\ note_calls < MaxNoteCalls /\ note_calls' = note_calls + 1
    /\ \E dead \in {NoteThreads, {Cli}} :
          hand' = [h \in Hands |-> IF h \in dead THEN Empty_Hand ELSE hand[h]]
    /\ UNCHANGED <<memory_chunks, next_note, memory_drafts>>

NotesNext ==
    \/ \E h \in Hands :
          \/ add_memory_chunk(h) \/ update_memory_chunk(h) \/ maybe_write_embedding(h)
          \/ PatchStatus(h) \/ invalidate_or_restore(h) \/ delete_memory_chunk(h)
          \/ recall(h) \/ RecallMore(h) \/ NoteReturns(h)
    \/ create_draft_from_session \/ confirm_draft \/ AddDraft \/ MarkConfirmed \/ discard_draft
    \/ NoteProcessDies

NotesSpec == NotesInit /\ [][NotesNext]_noteVars

-----------------------------------------------------------------------------
NotesTypeOK ==
    /\ memory_chunks \in [NoteIds -> Chunk \cup {Nothing}]
    /\ next_note \in 1..MaxNotes + 1
    /\ memory_drafts \in [DraftIds -> {Nothing, "pending", "confirmed", "discarded"}]
    /\ note_calls \in 0..MaxNoteCalls

\* A draft the REPL lists no longer because it was confirmed has become a memory,
\* even if the process died inside confirm_draft: only the user's own deletion
\* takes the memory away again.
ConfirmedIsKept ==
    \A d \in DraftIds : memory_drafts[d] = "confirmed" =>
        \E i \in 1..next_note - 1 : memory_chunks[i].draft = d
=============================================================================
