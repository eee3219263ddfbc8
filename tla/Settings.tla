------------------------------ MODULE Settings ------------------------------
(***************************************************************************)
(* settings.json: settings_store on top of JsonStateStore.  Every endpoint *)
(* that changes a setting reads the file, computes the new content and     *)
(* saves it: the current content is copied to a rolling backup first, the  *)
(* new one replaces the file.  patch_module does all of it under the lock, *)
(* update_settings only the reading.  The file may be found damaged.       *)
(***************************************************************************)
EXTENDS Naturals, FiniteSets

CONSTANTS
    Writers,       \* endpoint threads
    NoWriter,      \* nobody holds _SETTINGS_LOCK
    Missing, Damaged,
    max_backups,   \* JsonStateStore.max_backups
    MaxChanges,    \* bound on the endpoint calls
    MaxFaults      \* bound on power losses

\* The settings are kept with the default of three backups; with one, the only backup is
\* deleted before the next is written.
ASSUME SettingsAssumption ==
    /\ max_backups \in Nat /\ max_backups >= 2
    /\ MaxChanges \in Nat /\ IsFiniteSet(Writers)

VARIABLES
    file,        \* settings.json: Missing, Damaged or its content
    backups,     \* backups/settings.json.bak.*: their order and content
    v1_backup,   \* settings.v1.bak.json is there
    lock,        \* the thread inside _SETTINGS_LOCK
    writer,      \* per thread: where it is, its call, what it loaded and is saving
    changes, faults

settingsVars == <<file, backups, v1_backup, lock, writer, changes, faults>>

\* What a content tells: the layout, a field the old layout knows, one it does not.
Content == [schema : {1, 2}, flat : 0..1, modern : 0..1]
DEFAULT_SETTINGS == [schema |-> 2, flat |-> 0, modern |-> 0]

\* migrate_v1_to_v2 takes over the flat fields and nothing else.
migrate_v1_to_v2(raw) == [DEFAULT_SETTINGS EXCEPT !.flat = raw.flat]

Endpoints == {"read", "patch", "update", "update_module"}

Resting == [at |-> "idle", call |-> "read", loaded |-> DEFAULT_SETTINGS,
            saving |-> DEFAULT_SETTINGS, migrating |-> FALSE, listed |-> {},
            copy |-> DEFAULT_SETTINGS]

\* Backups ever made: one per save, and a call saves at most twice.
MaxOrder == 2 * MaxChanges

SettingsInit ==
    /\ file \in {Missing, [schema |-> 1, flat |-> 1, modern |-> 0]}
    /\ backups = {}
    /\ v1_backup = FALSE
    /\ lock = NoWriter
    /\ writer = [t \in Writers |-> Resting]
    /\ changes = 0
    /\ faults = 0

-----------------------------------------------------------------------------
\* The n backups that sort last.
Newest(listed, n) == {b \in listed : Cardinality({c \in listed : c.order > b.order}) < n}

Valid == file \notin {Missing, Damaged}

\* An endpoint starts a call and enters the lock to read the file.
BeginCall(t, call) ==
    /\ writer[t].at = "idle" /\ lock = NoWriter /\ changes < MaxChanges
    /\ changes' = changes + 1
    /\ lock' = t
    /\ writer' = [writer EXCEPT ![t] = [Resting EXCEPT !.at = "load", !.call = call]]
    /\ UNCHANGED <<file, backups, v1_backup, faults>>

\* JsonStateStore.load_result and _canonical_settings: a damaged file comes back
\* from the newest backup; an old layout, or nothing at all, is migrated and saved
\* before the call goes on.
LoadSettings(t) ==
    /\ writer[t].at = "load"
    /\ writer' = [writer EXCEPT ![t] =
                    IF Valid /\ file.schema = 2 THEN [@ EXCEPT !.at = "apply", !.loaded = file]
                    ELSE IF file = Damaged /\ backups # {}
                         THEN [@ EXCEPT !.at = "restore",
                                        !.loaded = (CHOOSE b \in Newest(backups, 1) : TRUE).content]
                    ELSE IF file = Missing /\ @.call = "read" THEN [@ EXCEPT !.at = "apply"]
                    ELSE LET migrated == IF Valid THEN migrate_v1_to_v2(file) ELSE DEFAULT_SETTINGS
                         IN  [@ EXCEPT !.at = "save", !.migrating = TRUE,
                                         !.loaded = migrated, !.saving = migrated]]
    /\ v1_backup' = (v1_backup \/ (Valid /\ file.schema = 1))
    /\ UNCHANGED <<file, backups, lock, changes, faults>>

\* _load_from_backup replaces the file with what it found.
RestoreBackup(t) ==
    /\ writer[t].at = "restore"
    /\ file' = writer[t].loaded
    /\ writer' = [writer EXCEPT ![t].at = "load"]
    /\ UNCHANGED <<backups, v1_backup, lock, changes, faults>>

\* The new content.  patch_module and an update that names a module merge into
\* what was loaded; any other update goes through the old layout and back.
Applied(w, value) ==
    IF w.call = "update" THEN migrate_v1_to_v2([w.loaded EXCEPT !.flat = value])
    ELSE [w.loaded EXCEPT !.modern = value]

ApplyChange(t, value) ==
    /\ writer[t].at = "apply" /\ writer[t].call # "read"
    /\ writer' = [writer EXCEPT ![t].at = "save", ![t].saving = Applied(writer[t], value)]
    /\ lock' = IF writer[t].call = "patch" THEN lock ELSE NoWriter
    /\ UNCHANGED <<file, backups, v1_backup, changes, faults>>

ReturnSettings(t) ==
    /\ writer[t].at = "apply" /\ writer[t].call = "read"
    /\ writer' = [writer EXCEPT ![t] = Resting]
    /\ lock' = NoWriter
    /\ UNCHANGED <<file, backups, v1_backup, changes, faults>>

-----------------------------------------------------------------------------
\* JsonStateStore.save: only a content that parses is worth a backup; the backups
\* are listed before the oldest ones make room.
ReadCurrent(t) ==
    /\ writer[t].at = "save"
    /\ writer' = [writer EXCEPT ![t] =
                    IF Valid THEN [@ EXCEPT !.at = "unlink", !.copy = file, !.listed = backups]
                    ELSE [@ EXCEPT !.at = "replace"]]
    /\ UNCHANGED <<file, backups, v1_backup, lock, changes, faults>>

\* _rotate_backup: which of the listed backups stay.
\* Mutant: none of them.
Stay_None(listed) == {}
Stay(listed) == IF Cardinality(listed) < max_backups THEN listed
                ELSE Newest(listed, max_backups - 1)

UnlinkOldest(t) ==
    /\ writer[t].at = "unlink"
    /\ backups' = backups \ (writer[t].listed \ Stay(writer[t].listed))
    /\ writer' = [writer EXCEPT ![t].at = "copy", ![t].listed = {}]
    /\ UNCHANGED <<file, v1_backup, lock, changes, faults>>

CopyCurrent(t) ==
    /\ writer[t].at = "copy"
    /\ LET order == 1 + Cardinality({n \in 1..MaxOrder : \E b \in backups : b.order >= n})
       IN  backups' = backups \cup {[order |-> order, content |-> writer[t].copy]}
    /\ writer' = [writer EXCEPT ![t].at = "replace"]
    /\ UNCHANGED <<file, v1_backup, lock, changes, faults>>

\* _atomic_write; the call returns, or the load this save was part of goes on.
ReplaceFile(t) ==
    /\ writer[t].at = "replace"
    /\ file' = writer[t].saving
    /\ writer' = [writer EXCEPT ![t] = IF ~@.migrating THEN Resting
                                       ELSE [@ EXCEPT !.at = "apply", !.migrating = FALSE]]
    /\ lock' = IF lock = t /\ ~writer[t].migrating THEN NoWriter ELSE lock
    /\ UNCHANGED <<backups, v1_backup, changes, faults>>

\* The machine goes down; the file was replaced without fsync and may not parse.
PowerLoss(content) ==
    /\ faults < MaxFaults
    /\ faults' = faults + 1
    /\ file' = content
    /\ writer' = [t \in Writers |-> Resting]
    /\ lock' = NoWriter
    /\ UNCHANGED <<backups, v1_backup, changes>>

SettingsNext ==
    \/ \E t \in Writers :
         \/ \E c \in Endpoints : BeginCall(t, c)
         \/ \E v \in 0..1 : ApplyChange(t, v)
         \/ LoadSettings(t) \/ RestoreBackup(t) \/ ReturnSettings(t)
         \/ ReadCurrent(t) \/ UnlinkOldest(t) \/ CopyCurrent(t) \/ ReplaceFile(t)
    \/ PowerLoss(file)
    \/ Valid /\ PowerLoss(Damaged)

SettingsSpec == SettingsInit /\ [][SettingsNext]_settingsVars

-----------------------------------------------------------------------------
SettingsTypeOK ==
    /\ file \in Content \cup {Missing, Damaged}
    /\ backups \subseteq [order : 1..MaxOrder, content : Content]
    /\ v1_backup \in BOOLEAN
    /\ lock \in Writers \cup {NoWriter}
    /\ \A t \in Writers : /\ writer[t].at \in {"idle", "load", "restore", "apply", "save", "unlink",
                                               "copy", "replace"}
                          /\ writer[t].loaded \in Content /\ writer[t].saving \in Content

\* Once the settings were saved over valid ones, a damaged settings.json is never
\* the end of them: whatever saves are under way, in the lock or outside it, when
\* the machine goes down, a backup is left for _load_from_backup, and the next
\* start does not fall back to the defaults.
SettingsSurvive == [][backups # {} => backups' # {}]_settingsVars
=============================================================================
