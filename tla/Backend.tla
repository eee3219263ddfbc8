------------------------------- MODULE Backend -------------------------------
(***************************************************************************)
(* The local model: LlamaServerBackend owns a llama-server process, turns  *)
(* generate through the orchestrator's current backend, and two paths      *)
(* replace that backend: POST activate (under model_lock) and the download *)
(* worker's activation (under nothing).  start() and stop() hold no lock.  *)
(***************************************************************************)
EXTENDS Naturals, FiniteSets

CONSTANTS
    Generators,           \* threads that generate: turns, plan steps, extraction
    Activators,           \* activation calls
    DownloadActivators,   \* those of them made by the download worker
    NoBackend,            \* nothing: no backend read, no holder of the lock
    MaxBackends           \* bound on the backend objects made

\* The program starts with one.
ASSUME BackendAssumption == MaxBackends \in Nat \ {0}

VARIABLES
    current_backend,   \* orchestrator.backend
    made,              \* backend objects made so far
    process,           \* per backend: _process, as "none", "loading", "ready" or "exited"
    leaked,            \* servers that run and no backend holds any more
    retired,           \* backends an activation has stopped
    activation_lock,   \* its holder
    local_model_up,
    activation,        \* per activation: where it is, the backend it read, the one it made
    generation         \* per generator: where it is, its backend, its attempt

backendVars == <<current_backend, made, process, leaked, retired, activation_lock, local_model_up,
                 activation, generation>>

BackendIds == 1..MaxBackends
ServerAlive(b) == process[b] \in {"loading", "ready"}

NotActivating == [at |-> "rest", old |-> NoBackend, new |-> NoBackend]
NotGenerating == [at |-> "rest", on |-> NoBackend, attempt |-> 0]

BackendInit ==
    /\ current_backend = 1
    /\ made = 1
    /\ process = [b \in BackendIds |-> IF b = 1 THEN "ready" ELSE "none"]
    /\ leaked = 0
    /\ retired = {}
    /\ activation_lock = NoBackend
    /\ local_model_up = TRUE
    /\ activation = [a \in Activators |-> NotActivating]
    /\ generation = [g \in Generators |-> NotGenerating]

-----------------------------------------------------------------------------
\* Popen assigned to _process: a server another start() spawned meanwhile is lost.
Spawn(b) ==
    /\ process' = [process EXCEPT ![b] = "loading"]
    /\ leaked' = IF ServerAlive(b) THEN leaked + 1 ELSE leaked

\* stop(): the process now held is terminated.
Stopped(b) == process' = [process EXCEPT ![b] = "none"]

\* The server finishes loading, or dies.
ServerLoads(b) ==
    /\ process[b] = "loading"
    /\ process' = [process EXCEPT ![b] = "ready"]
    /\ UNCHANGED <<current_backend, made, leaked, retired, activation_lock, local_model_up,
                   activation, generation>>

ServerExits(b) ==
    /\ ServerAlive(b)
    /\ process' = [process EXCEPT ![b] = "exited"]
    /\ UNCHANGED <<current_backend, made, leaked, retired, activation_lock, local_model_up,
                   activation, generation>>

-----------------------------------------------------------------------------
ActivationAt(a, place) == activation[a].at = place

\* The endpoint gives up when the lock is taken; the worker does not ask for it.
\* The current backend is read and a new one constructed.
BeginActivation(a) ==
    /\ ActivationAt(a, "rest") /\ made < MaxBackends
    /\ a \in DownloadActivators \/ activation_lock = NoBackend
    /\ activation_lock' = IF a \in DownloadActivators THEN activation_lock ELSE a
    /\ activation' = [activation EXCEPT ![a] = [at |-> "start", old |-> current_backend,
                                                new |-> made + 1]]
    /\ made' = made + 1
    /\ UNCHANGED <<current_backend, process, leaked, retired, local_model_up, generation>>

\* create_llama_backend starts the server ...
LoadBackend(a) ==
    /\ ActivationAt(a, "start")
    /\ Spawn(activation[a].new)
    /\ activation' = [activation EXCEPT ![a].at = "wait"]
    /\ UNCHANGED <<current_backend, made, retired, activation_lock, local_model_up, generation>>

\* ... and waits for it.  Failing stops the new server; the endpoint answers 500,
\* the worker declares the local model unavailable.
ModelLoadFails(a) ==
    /\ ActivationAt(a, "wait")
    /\ Stopped(activation[a].new)
    /\ local_model_up' = (local_model_up /\ a \notin DownloadActivators)
    /\ activation' = [activation EXCEPT ![a].at = "end"]
    /\ UNCHANGED <<current_backend, made, leaked, retired, activation_lock, generation>>

\* Mutant: the old backend is stopped as soon as the new one is asked for.
Installs_StopFirst(a) ==
    /\ ActivationAt(a, "start") /\ activation[a].old \notin retired
    /\ retired' = retired \cup {activation[a].old}
    /\ Stopped(activation[a].old)
    /\ UNCHANGED <<current_backend, made, leaked, activation_lock, local_model_up,
                   activation, generation>>

\* The new backend is ready and becomes the orchestrator's.
Installs(a) ==
    /\ ActivationAt(a, "wait") /\ process[activation[a].new] = "ready"
    /\ current_backend' = activation[a].new
    /\ local_model_up' = TRUE
    /\ activation' = [activation EXCEPT ![a].at = "stop"]
    /\ UNCHANGED <<made, process, leaked, retired, activation_lock, generation>>

\* Then the backend that was read at the beginning is stopped.
StopOld(a) ==
    /\ ActivationAt(a, "stop")
    /\ Stopped(activation[a].old)
    /\ retired' = retired \cup {activation[a].old}
    /\ activation' = [activation EXCEPT ![a].at = "end"]
    /\ UNCHANGED <<current_backend, made, leaked, activation_lock, local_model_up, generation>>

ActivationReturns(a) ==
    /\ ActivationAt(a, "end")
    /\ activation_lock' = IF activation_lock = a THEN NoBackend ELSE activation_lock
    /\ activation' = [activation EXCEPT ![a] = NotActivating]
    /\ UNCHANGED <<current_backend, made, process, leaked, retired, local_model_up, generation>>

-----------------------------------------------------------------------------
GenerationAt(g, place) == generation[g].at = place
GenerationGoes(g, place) == generation' = [generation EXCEPT ![g].at = place]
GenerationReturns(g) == generation' = [generation EXCEPT ![g] = NotGenerating]

\* A generator takes the current backend and calls generate on it.
StartGenerating(g) ==
    /\ GenerationAt(g, "rest")
    /\ generation' = [generation EXCEPT ![g] = [at |-> "start", on |-> current_backend,
                                                attempt |-> 0]]
    /\ UNCHANGED <<current_backend, made, process, leaked, retired, activation_lock,
                   local_model_up, activation>>

\* start(): a live process is used as it is; otherwise one is about to be spawned.
StartServer(g) ==
    /\ GenerationAt(g, "start")
    /\ GenerationGoes(g, IF ServerAlive(generation[g].on) THEN "post" ELSE "spawn")
    /\ UNCHANGED <<current_backend, made, process, leaked, retired, activation_lock,
                   local_model_up, activation>>

SpawnServer(g) ==
    /\ GenerationAt(g, "spawn")
    /\ Spawn(generation[g].on)
    /\ GenerationGoes(g, "wait")
    /\ UNCHANGED <<current_backend, made, retired, activation_lock, local_model_up, activation>>

\* _wait_until_ready: ready, or a server that is gone (or too slow), which stops
\* whatever process the backend now holds.
WaitReady(g) ==
    /\ GenerationAt(g, "wait")
    /\ \/ process[generation[g].on] = "ready" /\ GenerationGoes(g, "post") /\ UNCHANGED process
       \/ Stopped(generation[g].on) /\ GenerationReturns(g)
    /\ UNCHANGED <<current_backend, made, leaked, retired, activation_lock, local_model_up,
                   activation>>

\* _post_json answers.
Post(g) ==
    /\ GenerationAt(g, "post") /\ process[generation[g].on] = "ready"
    /\ GenerationReturns(g)
    /\ UNCHANGED <<current_backend, made, process, leaked, retired, activation_lock,
                   local_model_up, activation>>

\* _post_json fails: a first failure whose process has exited is cleaned up and
\* tried again, any other is raised.
PostFails(g) ==
    /\ GenerationAt(g, "post")
    /\ IF generation[g].attempt = 0 /\ process[generation[g].on] = "exited"
       THEN /\ Stopped(generation[g].on)
            /\ generation' = [generation EXCEPT ![g].at = "start", ![g].attempt = 1]
       ELSE GenerationReturns(g) /\ UNCHANGED process
    /\ UNCHANGED <<current_backend, made, leaked, retired, activation_lock, local_model_up,
                   activation>>

BackendNext ==
    \/ \E b \in BackendIds : ServerLoads(b) \/ ServerExits(b)
    \/ \E a \in Activators : \/ BeginActivation(a) \/ LoadBackend(a) \/ ModelLoadFails(a)
                             \/ Installs(a) \/ StopOld(a) \/ ActivationReturns(a)
    \/ \E g \in Generators : \/ StartGenerating(g) \/ StartServer(g) \/ SpawnServer(g)
                             \/ WaitReady(g) \/ Post(g) \/ PostFails(g)

BackendSpec == BackendInit /\ [][BackendNext]_backendVars

-----------------------------------------------------------------------------
BackendTypeOK ==
    /\ current_backend \in 1..made /\ made \in BackendIds
    /\ process \in [BackendIds -> {"none", "loading", "ready", "exited"}]
    /\ retired \subseteq 1..made
    /\ activation_lock \in Activators \cup {NoBackend}
    /\ \A g \in Generators : generation[g].attempt \in 0..1

\* However activations overlap, with and without model_lock, and whichever of them
\* fail, the backend turns are sent to is never one an activation has stopped: the
\* new one is installed before the one read at the start is stopped.
\* (http_host.activate_model, activate_downloaded_model)
CurrentIsNotRetired == current_backend \notin retired
=============================================================================
