------------------------------ MODULE Personas ------------------------------
(***************************************************************************)
(* The personas table: the two processes that may open it migrate it at    *)
(* their start (persona_traits_migration, sync_builtin_personas) and the   *)
(* desktop serves the persona endpoints once it is up.  Hand written       *)
(* traits of older releases are exported to a file before anything may     *)
(* overwrite them, and the levels derived from the OCEAN vector are cached *)
(* in the row.  Every statement commits on its own except inside BEGIN     *)
(* IMMEDIATE and SAVEPOINT.                                                *)
(***************************************************************************)
EXTENDS Naturals, FiniteSets

CONSTANTS
    Legacy,      \* personas of an older release
    Presets,     \* built-in presets
    Created,     \* ids create_persona may hand out
    NoExport,    \* there is no export
    Foreign,     \* the records of another database's export
    NoStateRow,   \* persona_migration_state has no row
    MaxStarts    \* bound on the starts of the processes

Processes == {"desktop", "cli"}
PersonaIds == Legacy \cup Presets \cup Created
Oceans == {0, 1}

\* What an export and the state row keep.
ExportRecord == [id : PersonaIds, traits : {"hand", "derived"}, ocean : Oceans]
MigrationRow == [status : {"exported", "completed"}, digest : SUBSET ExportRecord]

ASSUME PersonasAssumption ==
    /\ MaxStarts \in Nat
    /\ \A records \in SUBSET ExportRecord : records \notin {NoExport, Foreign}
    /\ \A row \in MigrationRow : row # NoStateRow

VARIABLES
    personas,    \* the table: id -> [traits, ocean, levels, builtin, active]
    export,      \* the export file: NoExport, Foreign or the records in it
    migration,   \* the state row: NoStateRow or [status, digest]
    starter,     \* per process: where it is, and what it read
    starts,      \* starts so far
    deleting     \* ids delete_persona has checked and not deleted yet

personaVars == <<personas, export, migration, starter, starts, deleting>>

NoLevels == 2       \* derived_levels_json = '{}'

Row(traits, ocean, levels, builtin, active) ==
    [traits |-> traits, ocean |-> ocean, levels |-> levels, builtin |-> builtin, active |-> active]

LegacyRow(active) == Row("hand", 0, NoLevels, FALSE, active)

\* A database of the older release; one of its personas may carry an id that
\* is a preset's today, and the export directory may hold another database's.
PersonasInit ==
    /\ \E ids \in {Legacy, Legacy \cup Presets}, first \in Legacy :
         personas = [i \in ids |-> LegacyRow(i = first)]
    /\ export \in {NoExport, Foreign}
    /\ migration = NoStateRow
    /\ starter = [p \in Processes |-> [at |-> "down", records |-> {}, status |-> ""]]
    /\ starts = 0
    /\ deleting = {}

-----------------------------------------------------------------------------
StarterAt(p, place) == starter[p].at = place
StarterGoes(p, place) == starter' = [starter EXCEPT ![p].at = place]
Up == StarterAt("desktop", "up")

\* _read_legacy_records: what the export keeps of a row.
Records == {[id |-> i, traits |-> personas[i].traits, ocean |-> personas[i].ocean] :
              i \in DOMAIN personas}

StartProcess(p) ==
    /\ StarterAt(p, "down") /\ starts < MaxStarts
    /\ starts' = starts + 1
    /\ StarterGoes(p, "load")
    /\ UNCHANGED <<personas, export, migration, deleting>>

ProcessDies(p) ==
    /\ ~StarterAt(p, "down")
    /\ starter' = [starter EXCEPT ![p] = [at |-> "down", records |-> {}, status |-> ""]]
    /\ deleting' = IF p = "desktop" THEN {} ELSE deleting
    /\ UNCHANGED <<personas, export, migration, starts>>

\* prepare_persona_traits_migration: the state row decides what there is to do.
LoadState(p) ==
    /\ StarterAt(p, "load")
    /\ starter' = [starter EXCEPT ![p] =
                     IF migration = NoStateRow THEN [@ EXCEPT !.at = "read"]
                     ELSE IF export # migration.digest THEN [@ EXCEPT !.at = "refused"]
                     ELSE [@ EXCEPT !.at = IF migration.status = "exported" THEN "unchanged"
                                           ELSE "sync"]]
    /\ UNCHANGED <<personas, export, migration, starts, deleting>>

\* _validate_exported_records_unchanged.
ValidateUnchanged(p) ==
    /\ StarterAt(p, "unchanged")
    /\ StarterGoes(p, IF export \subseteq Records THEN "sync" ELSE "refused")
    /\ UNCHANGED <<personas, export, migration, starts, deleting>>

ReadLegacy(p) ==
    /\ StarterAt(p, "read")
    /\ starter' = [starter EXCEPT ![p].records = Records, ![p].at = "place"]
    /\ UNCHANGED <<personas, export, migration, starts, deleting>>

\* An export that is there already is taken only when it says the same.
\* Mutant: any valid export will do.
IsOurExport_Any(p) == export # NoExport
IsOurExport(p) == export = starter[p].records

PlaceExport(p) ==
    /\ StarterAt(p, "place")
    /\ StarterGoes(p, IF export = NoExport THEN "write"
                      ELSE IF IsOurExport(p) THEN "store" ELSE "refused")
    /\ UNCHANGED <<personas, export, migration, starts, deleting>>

\* _write_export_atomic: the temporary file is complete; is the name still free?
CheckFree(p) ==
    /\ StarterAt(p, "write")
    /\ StarterGoes(p, IF export = NoExport THEN "replace" ELSE "refused")
    /\ UNCHANGED <<personas, export, migration, starts, deleting>>

ReplaceExport(p) ==
    /\ StarterAt(p, "replace")
    /\ export' = starter[p].records
    /\ StarterGoes(p, "verify")
    /\ UNCHANGED <<personas, migration, starts, deleting>>

VerifyExport(p) ==
    /\ StarterAt(p, "verify")
    /\ StarterGoes(p, IF export = starter[p].records THEN "store" ELSE "refused")
    /\ UNCHANGED <<personas, export, migration, starts, deleting>>

\* _store_exported_state: the second INSERT of the same migration_id fails.
StoreExported(p) ==
    /\ StarterAt(p, "store")
    /\ migration' = IF migration = NoStateRow THEN [status |-> "exported", digest |-> export]
                    ELSE migration
    /\ StarterGoes(p, IF migration = NoStateRow THEN "sync" ELSE "refused")
    /\ UNCHANGED <<personas, export, starts, deleting>>

\* sync_builtin_personas, one SAVEPOINT, rolled back when a preset's id belongs
\* to somebody else; the command line has no such step.
SyncBuiltins(p) ==
    /\ StarterAt(p, "sync")
    /\ LET conflict == \E i \in Presets \cap DOMAIN personas : ~personas[i].builtin
           synced == [i \in DOMAIN personas \cup Presets |->
                        IF i \notin Presets THEN personas[i]
                        ELSE Row("derived", 1, 1, TRUE,
                                 IF i \in DOMAIN personas THEN personas[i].active ELSE FALSE)]
       IN  /\ personas' = IF p = "cli" \/ conflict THEN personas ELSE synced
           /\ StarterGoes(p, IF p = "desktop" /\ conflict THEN "refused" ELSE "status")
    /\ UNCHANGED <<export, migration, starts, deleting>>

\* complete_persona_level_migration: the status, then the rows, then the write.
LoadStatus(p) ==
    /\ StarterAt(p, "status")
    /\ starter' = [starter EXCEPT ![p].status = migration.status, ![p].at = "derive"]
    /\ UNCHANGED <<personas, export, migration, starts, deleting>>

LevelsCurrent == \A i \in DOMAIN personas : personas[i].levels = personas[i].ocean

DeriveLevels(p) ==
    /\ StarterAt(p, "derive")
    /\ starter' = [starter EXCEPT
                     ![p].records = Records,
                     ![p].at = IF starter[p].status = "exported" THEN "commit"
                               ELSE IF LevelsCurrent THEN "up" ELSE "refused"]
    /\ UNCHANGED <<personas, export, migration, starts, deleting>>

\* UPDATE ... WHERE status = 'exported' must have changed one row.
\* Mutant: without the look at changes().
MayComplete_Always == TRUE
MayComplete == migration.status = "exported"

CommitLevels(p) ==
    /\ StarterAt(p, "commit")
    /\ IF MayComplete
       THEN /\ personas' = [i \in DOMAIN personas |->
                 IF \E r \in starter[p].records : r.id = i
                 THEN [personas[i] EXCEPT
                         !.levels = (CHOOSE r \in starter[p].records : r.id = i).ocean]
                 ELSE personas[i]]
            /\ migration' = [migration EXCEPT !.status = "completed"]
            /\ StarterGoes(p, "up")
       ELSE /\ StarterGoes(p, "refused")
            /\ UNCHANGED <<personas, migration>>
    /\ UNCHANGED <<export, starts, deleting>>

-----------------------------------------------------------------------------
\* POST /api/personas: the traits and the levels are derived from the vector.
create_persona(i, ocean) ==
    /\ Up /\ i \in Created \ DOMAIN personas
    /\ personas' = [j \in DOMAIN personas \cup {i} |->
                      IF j = i THEN Row("derived", ocean, ocean, FALSE, FALSE) ELSE personas[j]]
    /\ UNCHANGED <<export, migration, starter, starts, deleting>>

\* PUT /api/personas/<id> with a name or a vector: traits and levels with it.
update_persona(i, ocean) ==
    /\ Up /\ i \in DOMAIN personas /\ ~personas[i].builtin
    /\ personas' = [personas EXCEPT ![i] = Row("derived", ocean, ocean, FALSE, @.active)]
    /\ UNCHANGED <<export, migration, starter, starts, deleting>>

\* DELETE /api/personas/<id>: neither built-in nor active nor the last one, and
\* then the DELETE, whatever happened in between.
check_delete(i) ==
    /\ Up /\ i \in DOMAIN personas /\ deleting = {}
    /\ ~personas[i].builtin /\ ~personas[i].active /\ Cardinality(DOMAIN personas) > 1
    /\ deleting' = {i}
    /\ UNCHANGED <<personas, export, migration, starter, starts>>

delete_persona(i) ==
    /\ Up /\ i \in deleting
    /\ personas' = [j \in DOMAIN personas \ {i} |-> personas[j]]
    /\ deleting' = {}
    /\ UNCHANGED <<export, migration, starter, starts>>

\* set_active_persona_in_transaction, inside the transaction of the switch.
set_active_persona(i) ==
    /\ Up /\ i \in DOMAIN personas
    /\ personas' = [j \in DOMAIN personas |-> [personas[j] EXCEPT !.active = (j = i)]]
    /\ UNCHANGED <<export, migration, starter, starts, deleting>>

PersonaStep(p) ==
    \/ StartProcess(p) \/ ProcessDies(p) \/ LoadState(p) \/ ValidateUnchanged(p) \/ ReadLegacy(p)
    \/ PlaceExport(p) \/ CheckFree(p) \/ ReplaceExport(p) \/ VerifyExport(p) \/ StoreExported(p)
    \/ SyncBuiltins(p) \/ LoadStatus(p) \/ DeriveLevels(p) \/ CommitLevels(p)

PersonasNext ==
    \/ \E p \in Processes : PersonaStep(p)
    \/ \E i \in PersonaIds : \/ \E o \in Oceans : create_persona(i, o) \/ update_persona(i, o)
                             \/ check_delete(i) \/ delete_persona(i) \/ set_active_persona(i)

PersonasSpec == PersonasInit /\ [][PersonasNext]_personaVars

-----------------------------------------------------------------------------
PersonasTypeOK ==
    /\ DOMAIN personas \subseteq PersonaIds
    /\ \A i \in DOMAIN personas :
         personas[i] \in [traits : {"hand", "derived"}, ocean : Oceans,
                          levels : Oceans \cup {NoLevels}, builtin : BOOLEAN, active : BOOLEAN]
    /\ migration = NoStateRow \/ migration.status \in {"exported", "completed"}
    /\ starts \in 0..MaxStarts
    /\ deleting \subseteq PersonaIds
    /\ Cardinality({i \in DOMAIN personas : personas[i].active}) <= 1

\* The traits the user wrote by hand are in the table or in the export this
\* database's state row vouches for (prepare_persona_traits_migration), through
\* crashes, a second process and an export that was there before.
LegacyTraitsKept ==
    \A i \in Legacy :
       \/ i \in DOMAIN personas /\ personas[i].traits = "hand"
       \/ /\ export \notin {NoExport, Foreign}
          /\ [id |-> i, traits |-> "hand", ocean |-> 0] \in export

\* The migration neither loses nor wedges: the hand-written traits are kept, and
\* once it is completed every cached level is the one of the row's vector, whatever
\* edits the desktop makes while another process is still inside
\* complete_persona_level_migration (were one not, no later start would pass).
MigrationIsSafe ==
    /\ LegacyTraitsKept
    /\ migration # NoStateRow /\ migration.status = "completed" => LevelsCurrent
=============================================================================
