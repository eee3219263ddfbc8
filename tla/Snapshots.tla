------------------------------ MODULE Snapshots ------------------------------
(* The persona snapshot a desktop session carries: what build_persona_snapshot writes *)
(* into the sessions row, and what a later start makes of the row, after one of its   *)
(* columns has changed on disk too (session_binding.py).                              *)
EXTENDS Integers, FiniteSets

CONSTANT TraitValues     \* percentages one trait may have

ASSUME SnapshotsAssumption == TraitValues \subseteq 0..100

VARIABLES
    persona,        \* the persona the session is created for
    session_row,    \* the sessions row
    context         \* the session core of this start

snapshotVars == <<persona, session_row, context>>

NoOcean == -1
NoSnapshot == [schema |-> 0]
Unbound == [kind |-> "unbound"]
SwitchRefused == [kind |-> "refused"]

SnapshotSources == {"a1_persona_system_prompt", "legacy_backfill", "p3_a2_l1_assembled"}

\* A built-in persona is a validated anchor of the manifest it was released with; no
\* persona lacks a prompt.
PersonaShapes ==
    {p \in [id : {"x"}, prompt : {"own"}, ocean : TraitValues \cup {NoOcean},
            status : {"unvalidated", "validated_anchor"}, manifest : {"none", "current", "old"}] :
        p.status = "unvalidated" <=> p.manifest = "none"}

NormalizedOcean(p) == IF p.ocean = NoOcean THEN 50 ELSE p.ocean

Level(value) == IF value <= 33 THEN "low" ELSE IF value <= 66 THEN "mid" ELSE "high"

Payload(p, source) ==
    [id |-> p.id, prompt |-> p.prompt, ocean |-> NormalizedOcean(p),
     level |-> Level(NormalizedOcean(p)), status |-> p.status, manifest |-> p.manifest,
     source |-> source]

\* sort_keys and fixed separators make one text of a payload; nothing else has its digest.
CanonicalJson(payload) == [payload |-> payload, layout |-> "sorted"]
Sha256(text) == text

\* A validated anchor of another manifest has no snapshot.
Buildable(p) == p.status = "validated_anchor" => p.manifest = "current"

build_persona_snapshot(p, source) ==
    LET text == CanonicalJson(Payload(p, source))
    IN  [persona_id |-> p.id, json |-> text, schema |-> 1, sha256 |-> Sha256(text),
         source |-> source]

\* A validated anchor gets the assembled L1 prompt, any other persona its own.
SnapshotForNewSession(p) ==
    IF p.status = "validated_anchor"
    THEN build_persona_snapshot([p EXCEPT !.prompt = "assembled"], "p3_a2_l1_assembled")
    ELSE build_persona_snapshot(p, "a1_persona_system_prompt")

-----------------------------------------------------------------------------
(* Reading the row.                                                                *)

PayloadIsValid(payload, r) ==
    /\ payload.prompt # ""
    /\ payload.source \in SnapshotSources
    /\ payload.id = r.persona_id
    /\ payload.ocean \in 0 .. 100
    /\ payload.level = Level(payload.ocean)

\* Mutant: the text is compared with its canonical form, not with the digest.
SnapshotIsValidUnhashed(r) ==
    /\ r.schema = 1
    /\ PayloadIsValid(r.json.payload, r)
    /\ CanonicalJson(r.json.payload) = r.json
    /\ r.source = r.json.payload.source

validate_persona_snapshot(r) ==
    /\ r.schema = 1
    /\ PayloadIsValid(r.json.payload, r)
    /\ CanonicalJson(r.json.payload) = r.json
    /\ Sha256(CanonicalJson(r.json.payload)) = r.sha256
    /\ r.source \in SnapshotSources
    /\ r.source = r.json.payload.source

PersonaFromSnapshot(payload) ==
    [kind |-> "bound", id |-> payload.id, prompt |-> payload.prompt, ocean |-> payload.ocean,
     status |-> payload.status, manifest |-> payload.manifest]

-----------------------------------------------------------------------------
SnapshotInit ==
    /\ persona \in PersonaShapes
    /\ session_row = NoSnapshot
    /\ context = Unbound

\* _switch_locked builds the context before it commits the row.
CreateSession ==
    /\ session_row = NoSnapshot /\ context = Unbound
    /\ IF Buildable(persona)
       THEN /\ session_row' = SnapshotForNewSession(persona)
            /\ context' = PersonaFromSnapshot(session_row'.json.payload)
       ELSE context' = SwitchRefused /\ UNCHANGED session_row
    /\ UNCHANGED persona

\* A session of an older version has no snapshot; a start gives it one of its persona.
BackfillLegacySession ==
    /\ session_row = NoSnapshot /\ context = Unbound
    /\ Buildable(persona)
    /\ session_row' = build_persona_snapshot(persona, "legacy_backfill")
    /\ UNCHANGED <<persona, context>>

Written == {SnapshotForNewSession(persona), build_persona_snapshot(persona, "legacy_backfill")}

\* One column of the row is no longer what was written.
RowChanges ==
    /\ session_row \in Written
    /\ \/ \E p \in PersonaShapes, s \in SnapshotSources, t \in {"own", ""}, l \in {"sorted", "other"} :
             session_row' = [session_row EXCEPT !.json =
                                [payload |-> Payload([p EXCEPT !.prompt = t], s), layout |-> l]]
       \/ session_row' = [session_row EXCEPT !.schema = 2]
       \/ session_row' = [session_row EXCEPT !.persona_id = "y"]
       \/ \E s \in SnapshotSources \cup {"unknown"} : session_row' = [session_row EXCEPT !.source = s]
       \/ \E p \in PersonaShapes, s \in SnapshotSources :
             session_row' = [session_row EXCEPT !.sha256 = Sha256(CanonicalJson(Payload(p, s)))]
    /\ context' = Unbound
    /\ UNCHANGED persona

\* The next start binds the session of the row, or answers persona_snapshot_invalid.
RestoreSession ==
    /\ session_row # NoSnapshot
    /\ context' = IF validate_persona_snapshot(session_row)
                  THEN PersonaFromSnapshot(session_row.json.payload) ELSE SwitchRefused
    /\ UNCHANGED <<persona, session_row>>

SnapshotNext == CreateSession \/ BackfillLegacySession \/ RowChanges \/ RestoreSession

SnapshotSpec == SnapshotInit /\ [][SnapshotNext]_snapshotVars

SnapshotTypeOK ==
    /\ persona \in PersonaShapes
    /\ context.kind \in {"unbound", "refused", "bound"}

\* A start binds the persona the session was created with or none at all, whichever column
\* of the row has changed since (validate_persona_snapshot), and a row as it was written is
\* never refused: a switch commits nothing that the next start cannot read.
SnapshotKeepsPersona ==
    /\ context.kind = "bound" =>
          /\ context.ocean = NormalizedOcean(persona)
          /\ context.status = persona.status
          /\ context.prompt \in {persona.prompt, "assembled"}
          /\ context.manifest = persona.manifest
    /\ session_row \in Written => context # SwitchRefused
=============================================================================
