-------------------------------- MODULE Skills --------------------------------
(***************************************************************************)
(* Skill extensions: extension_manager installs and removes the directory  *)
(* of one skill and the endpoints keep its switch in memory and in the     *)
(* database; SkillInvoker starts its process, calls it and breaks the      *)
(* circuit after three failures, with one half open probe after a          *)
(* cooldown.  Requests run on the threads of the HTTP server.              *)
(***************************************************************************)
EXTENDS Naturals

CONSTANTS
    ExtensionRequests,   \* threads of the extension endpoints
    SkillCallers,        \* threads that invoke the skill
    NoDir,               \* the install directory does not exist
    MaxHostStarts        \* bound on the restarts of the process

ASSUME SkillsAssumption == NoDir \notin [whole : BOOLEAN, good : BOOLEAN]

VARIABLES
    install_dir,         \* NoDir or what it holds: a whole copy, one the checks accept
    extension_status,    \* the row: "absent", "on" or "off"
    extension_state,     \* the same in the endpoints' dictionary
    ext_requests,        \* per thread: where it is, what it installs or sets
    disturbed,           \* a crash or a second request met a request on the directory
    skill_process,       \* "none", "starting", "up" or "dead"
    failure_counts,      \* consecutive failures; more than the limit is the limit
    circuit,             \* "closed", "open", or "cooled": open for the cooldown time
    half_open_probe,
    skill_calls,         \* per thread: where it is and whether it is the probe
    lost_probe,          \* the probe's call ended without a result
    host_starts

extensionVars == <<install_dir, extension_status, extension_state, ext_requests, disturbed>>
invokerVars == <<skill_process, failure_counts, circuit, half_open_probe, skill_calls, lost_probe>>
skillVars == <<extensionVars, invokerVars, host_starts>>

FailureLimit == 3

ExtRequest == [at : {"none", "make", "copy", "verify", "undo", "remove", "forget", "forget_removed",
                     "remember", "drop", "save"}, good : BOOLEAN, enabled : BOOLEAN]
SkillCall == [at : {"none", "probe", "send", "sent"}, probe : BOOLEAN]

NoExtRequest == [at |-> "none", good |-> FALSE, enabled |-> FALSE]
NoSkillCall == [at |-> "none", probe |-> FALSE]

SkillsInit ==
    /\ install_dir = NoDir
    /\ extension_status = "absent" /\ extension_state = "absent"
    /\ ext_requests = [t \in ExtensionRequests |-> NoExtRequest]
    /\ disturbed = FALSE
    /\ skill_process = "none"
    /\ failure_counts = 0 /\ circuit = "closed"
    /\ half_open_probe = FALSE /\ lost_probe = FALSE
    /\ skill_calls = [k \in SkillCallers |-> NoSkillCall]
    /\ host_starts = 0

-----------------------------------------------------------------------------
(* Install, remove, switch                                                     *)

RequestAt(t, place) == ext_requests[t].at = place
RequestGoes(t, place) == ext_requests' = [ext_requests EXCEPT ![t].at = place]
RequestEnds(t) == ext_requests' = [ext_requests EXCEPT ![t] = NoExtRequest]

\* A request on the directory; two of them may get in each other's way.
OnDirectory(t) == ext_requests[t].at \in {"make", "copy", "verify", "undo", "remove"}
Disturbs(t) == disturbed' = (disturbed \/ \E u \in ExtensionRequests \ {t} : OnDirectory(u))

\* What a package may be: its manifest is valid or not, its files pass the checks or not.
Packages == [manifest : BOOLEAN, good : BOOLEAN]

\* validate_manifest_dict: schema, type, permissions, version, market id, entry point.
validate_manifest_dict(package) == package.manifest

install_extension(t) ==
    /\ RequestAt(t, "none") /\ install_dir = NoDir
    /\ \E package \in Packages :
          /\ validate_manifest_dict(package)
          /\ ext_requests' = [ext_requests EXCEPT ![t].at = "make", ![t].good = package.good]
    /\ Disturbs(t)
    /\ UNCHANGED <<install_dir, extension_status, extension_state, invokerVars, host_starts>>

\* copytree refuses a directory that exists by now.
MakeTarget(t) ==
    /\ RequestAt(t, "make")
    /\ IF install_dir = NoDir
       THEN /\ install_dir' = [whole |-> FALSE, good |-> ext_requests[t].good]
            /\ RequestGoes(t, "copy")
       ELSE RequestGoes(t, "undo") /\ UNCHANGED install_dir
    /\ UNCHANGED <<extension_status, extension_state, disturbed, invokerVars, host_starts>>

CopyTree(t) ==
    /\ RequestAt(t, "copy")
    /\ \/ /\ install_dir # NoDir
          /\ install_dir' = [whole |-> TRUE, good |-> ext_requests[t].good]
          /\ RequestGoes(t, "verify")
       \/ RequestGoes(t, "undo") /\ UNCHANGED install_dir
    /\ UNCHANGED <<extension_status, extension_state, disturbed, invokerVars, host_starts>>

\* verify_supply_chain: every requirement is locked, a bundled skill's files have the
\* hashes of the host's trust anchor; the SBOM is written into the directory.
verify_supply_chain == install_dir # NoDir /\ install_dir.good

VerifyTarget(t) ==
    /\ RequestAt(t, "verify")
    /\ RequestGoes(t, IF verify_supply_chain THEN "forget" ELSE "undo")
    /\ UNCHANGED <<install_dir, extension_status, extension_state, disturbed, invokerVars,
                   host_starts>>

\* Any exception removes the target.
UndoInstall(t) ==
    /\ RequestAt(t, "undo")
    /\ install_dir' = NoDir
    /\ RequestEnds(t)
    /\ UNCHANGED <<extension_status, extension_state, disturbed, invokerVars, host_starts>>

\* No code writes the .running marker that would refuse it.
uninstall_extension(t) ==
    /\ RequestAt(t, "none") /\ install_dir # NoDir
    /\ RequestGoes(t, "remove")
    /\ Disturbs(t)
    /\ UNCHANGED <<install_dir, extension_status, extension_state, invokerVars, host_starts>>

RemoveTree(t) ==
    /\ RequestAt(t, "remove")
    /\ install_dir' = NoDir
    /\ IF install_dir = NoDir THEN RequestEnds(t) ELSE RequestGoes(t, "forget_removed")
    /\ UNCHANGED <<extension_status, extension_state, disturbed, invokerVars, host_starts>>

delete_extension_status(t) ==
    /\ ext_requests[t].at \in {"forget", "forget_removed"}
    /\ extension_status' = "absent"
    /\ ext_requests' = [ext_requests EXCEPT ![t].enabled = TRUE,
                           ![t].at = IF @ = "forget" THEN "remember" ELSE "drop"]
    /\ UNCHANGED <<install_dir, extension_state, disturbed, invokerVars, host_starts>>

toggle_extension(t) ==
    /\ RequestAt(t, "none")
    /\ \E enabled \in BOOLEAN : ext_requests' = [ext_requests EXCEPT ![t].at = "remember",
                                                                      ![t].enabled = enabled]
    /\ UNCHANGED <<install_dir, extension_status, extension_state, disturbed, invokerVars,
                   host_starts>>

SwitchOf(t) == IF ext_requests[t].enabled THEN "on" ELSE "off"

\* The dictionary first, then the row; ...
RememberState(t) ==
    /\ RequestAt(t, "remember")
    /\ extension_state' = SwitchOf(t)
    /\ RequestGoes(t, "save")
    /\ UNCHANGED <<install_dir, extension_status, disturbed, invokerVars, host_starts>>

\* ... the removed one only leaves the dictionary.
DropState(t) ==
    /\ RequestAt(t, "drop")
    /\ extension_state' = "absent"
    /\ RequestEnds(t)
    /\ UNCHANGED <<install_dir, extension_status, disturbed, invokerVars, host_starts>>

save_extension_status(t) ==
    /\ RequestAt(t, "save")
    /\ extension_status' = SwitchOf(t)
    /\ RequestEnds(t)
    /\ UNCHANGED <<install_dir, extension_state, disturbed, invokerVars, host_starts>>

-----------------------------------------------------------------------------
(* SkillInvoker                                                                *)

CallAt(k, place) == skill_calls[k].at = place
CallGoes(k, place) == skill_calls' = [skill_calls EXCEPT ![k].at = place]

\* start: not running, circuit closed, source and files checked, keys resolved.
StartSkill ==
    /\ skill_process = "none" /\ circuit = "closed" /\ verify_supply_chain
    /\ skill_process' = "starting"
    /\ UNCHANGED <<extensionVars, failure_counts, circuit, half_open_probe, skill_calls,
                   lost_probe, host_starts>>

\* _wait_ready: it answers on its port, or it exited or took too long and is terminated.
WaitSkillReady ==
    /\ skill_process = "starting" /\ skill_process' \in {"up", "none"}
    /\ UNCHANGED <<extensionVars, failure_counts, circuit, half_open_probe, skill_calls,
                   lost_probe, host_starts>>

\* Registered in _processes.
Registered == skill_process \in {"up", "dead"}

StopSkill ==
    /\ Registered /\ skill_process' = "none"
    /\ UNCHANGED <<extensionVars, failure_counts, circuit, half_open_probe, skill_calls,
                   lost_probe, host_starts>>

SkillExits ==
    /\ skill_process = "up" /\ skill_process' = "dead"
    /\ UNCHANGED <<extensionVars, failure_counts, circuit, half_open_probe, skill_calls,
                   lost_probe, host_starts>>

\* invoke: ensure_circuit_closed lets a call pass a closed circuit, or as the probe.
InvokeSkill(k) ==
    /\ CallAt(k, "none") /\ Registered
    /\ \/ circuit = "closed" /\ CallGoes(k, "send")
       \/ circuit = "cooled" /\ ~half_open_probe /\ CallGoes(k, "probe")
    /\ UNCHANGED <<extensionVars, skill_process, failure_counts, circuit, half_open_probe,
                   lost_probe, host_starts>>

\* should_probe_half_open takes the place; nothing locks its check and its write.
TakeProbe(k) ==
    /\ CallAt(k, "probe")
    /\ half_open_probe' = TRUE
    /\ skill_calls' = [skill_calls EXCEPT ![k] = [at |-> "send", probe |-> TRUE]]
    /\ UNCHANGED <<extensionVars, skill_process, failure_counts, circuit, lost_probe, host_starts>>

\* The payload cannot be serialised: the exception leaves before any result is recorded.
PayloadFails(k) ==
    /\ CallAt(k, "send")
    /\ skill_calls' = [skill_calls EXCEPT ![k] = NoSkillCall]
    /\ lost_probe' = (lost_probe \/ skill_calls[k].probe)
    /\ UNCHANGED <<extensionVars, skill_process, failure_counts, circuit, half_open_probe,
                   host_starts>>

SendToSkill(k) ==
    /\ CallAt(k, "send") /\ skill_process = "up"
    /\ CallGoes(k, "sent")
    /\ UNCHANGED <<extensionVars, skill_process, failure_counts, circuit, half_open_probe,
                   lost_probe, host_starts>>

MoreFailures == IF failure_counts < FailureLimit THEN failure_counts + 1 ELSE failure_counts

\* Mutant: an opened circuit keeps the place of the probe that failed.
record_failure_KeepsProbe ==
    /\ failure_counts' = MoreFailures
    /\ circuit' = IF MoreFailures = FailureLimit THEN "open" ELSE circuit
    /\ UNCHANGED <<half_open_probe, lost_probe>>

record_failure ==
    /\ failure_counts' = MoreFailures
    /\ IF MoreFailures = FailureLimit
       THEN circuit' = "open" /\ half_open_probe' = FALSE /\ lost_probe' = FALSE
       ELSE UNCHANGED <<circuit, half_open_probe, lost_probe>>

record_success ==
    /\ failure_counts' = 0 /\ circuit' = "closed"
    /\ half_open_probe' = FALSE /\ lost_probe' = FALSE

\* The process has exited, the request failed, or the answer was no text.
CallFails(k) ==
    /\ CallAt(k, "sent") \/ (CallAt(k, "send") /\ skill_process # "up")
    /\ record_failure
    /\ skill_calls' = [skill_calls EXCEPT ![k] = NoSkillCall]
    /\ UNCHANGED <<extensionVars, skill_process, host_starts>>

CallSucceeds(k) ==
    /\ CallAt(k, "sent")
    /\ record_success
    /\ skill_calls' = [skill_calls EXCEPT ![k] = NoSkillCall]
    /\ UNCHANGED <<extensionVars, skill_process, host_starts>>

\* circuit_cooldown_seconds have passed since the last failure.
CooldownPasses ==
    /\ circuit = "open" /\ circuit' = "cooled"
    /\ UNCHANGED <<extensionVars, skill_process, failure_counts, half_open_probe, skill_calls,
                   lost_probe, host_starts>>

\* init_extension_status reads the rows; the invoker starts empty.
HostRestarts ==
    /\ host_starts < MaxHostStarts /\ host_starts' = host_starts + 1
    /\ disturbed' = (disturbed \/ \E t \in ExtensionRequests : OnDirectory(t))
    /\ ext_requests' = [t \in ExtensionRequests |-> NoExtRequest]
    /\ extension_state' = extension_status
    /\ skill_process' = "none" /\ failure_counts' = 0 /\ circuit' = "closed"
    /\ half_open_probe' = FALSE /\ lost_probe' = FALSE
    /\ skill_calls' = [k \in SkillCallers |-> NoSkillCall]
    /\ UNCHANGED <<install_dir, extension_status>>

SkillsNext ==
    \/ \E t \in ExtensionRequests :
          \/ install_extension(t) \/ MakeTarget(t) \/ CopyTree(t) \/ VerifyTarget(t)
          \/ UndoInstall(t) \/ uninstall_extension(t) \/ RemoveTree(t)
          \/ delete_extension_status(t) \/ toggle_extension(t) \/ RememberState(t)
          \/ DropState(t) \/ save_extension_status(t)
    \/ \E k \in SkillCallers :
          \/ InvokeSkill(k) \/ TakeProbe(k) \/ PayloadFails(k) \/ SendToSkill(k)
          \/ CallFails(k) \/ CallSucceeds(k)
    \/ StartSkill \/ WaitSkillReady \/ StopSkill \/ SkillExits \/ CooldownPasses \/ HostRestarts

SkillsSpec == SkillsInit /\ [][SkillsNext]_skillVars

-----------------------------------------------------------------------------
SkillsTypeOK ==
    /\ install_dir # NoDir => install_dir \in [whole : BOOLEAN, good : BOOLEAN]
    /\ {extension_status, extension_state} \subseteq {"absent", "on", "off"}
    /\ ext_requests \in [ExtensionRequests -> ExtRequest]
    /\ disturbed \in BOOLEAN
    /\ skill_process \in {"none", "starting", "up", "dead"}
    /\ failure_counts \in 0..FailureLimit /\ circuit \in {"closed", "open", "cooled"}
    /\ half_open_probe \in BOOLEAN /\ lost_probe \in BOOLEAN
    /\ skill_calls \in [SkillCallers -> SkillCall]

\* While the circuit is broken the place of the probe is taken only by a call that is
\* still under way, so that a later call can close the circuit; a payload that cannot be
\* serialised is the exception.
ProbeIsReturned ==
    circuit # "closed" /\ half_open_probe =>
        lost_probe \/ \E k \in SkillCallers : skill_calls[k].probe

\* A directory that no request works on is a whole copy the supply chain checks accepted,
\* unless a crash or a second request on it came between.
InstalledIsWhole ==
    install_dir # NoDir =>
        \/ disturbed \/ \E t \in ExtensionRequests : OnDirectory(t)
        \/ install_dir = [whole |-> TRUE, good |-> TRUE]

\* Failures leave no rest behind: neither half an extension (install_extension) nor a
\* circuit nobody may try to close (SkillInvoker.record_failure, should_probe_half_open).
SkillsRecover == ProbeIsReturned /\ InstalledIsWhole
=============================================================================
