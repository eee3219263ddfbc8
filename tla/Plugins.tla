-------------------------------- MODULE Plugins --------------------------------
(* The declarative plugin loader: fibers with a lifecycle, the effect scope of     *)
(* each, and the loader that loads in dependency order, unloads in the reverse and  *)
(* reloads single plugins.                                                          *)
EXTENDS Naturals, Sequences, FiniteSets

CONSTANTS
    Plugins,       \* the enabled entries of the configuration
    Requires,      \* what each plugin requires
    MaxEffects     \* bound on the resources a factory registers

VARIABLES
    fiber,         \* LifecycleState of the plugin's current fiber
    services,      \* PluginLoader._services: the plugins whose service is offered
    disposers,     \* per plugin: resources its scope holds, newest last
    abandoned,     \* the plugins whose disposal the timeout cut off
    loader,        \* what the loader does: "idle", "load", "unload" or "reload"
    todo           \* the plugins it has still to go through, in order

pluginVars == <<fiber, services, disposers, abandoned, loader, todo>>

LifecycleState == {"pending", "loading", "active", "failed", "unloading", "disposed"}

\* topological_sort of the enabled entries; a cycle or a missing entry raises before
\* any fiber exists.
Respects(order) ==
    \A i, j \in DOMAIN order : order[i] \in Requires[order[j]] => i < j

TopologicalOrder == CHOOSE order \in [1..Cardinality(Plugins) -> Plugins] :
    /\ \A p \in Plugins : \E i \in DOMAIN order : order[i] = p
    /\ Respects(order)

\* topological_sort raises on a cycle or a missing entry, so that the loader only ever
\* works on entries it could sort.
ASSUME PluginsAssumption ==
    /\ IsFiniteSet(Plugins) /\ Requires \in [Plugins -> SUBSET Plugins]
    /\ MaxEffects \in Nat
    /\ \E order \in [1..Cardinality(Plugins) -> Plugins] :
          /\ \A p \in Plugins : \E i \in DOMAIN order : order[i] = p
          /\ Respects(order)

\* Mutant: unload_all goes through the plugins as load_all does.
Unreversed(s) == s

Reversed(s) == [i \in DOMAIN s |-> s[Len(s) + 1 - i]]

UnloadOrder == Reversed(TopologicalOrder)

PluginInit ==
    /\ fiber = [p \in Plugins |-> "pending"]
    /\ services = {}
    /\ disposers = [p \in Plugins |-> 0]
    /\ abandoned = {}
    /\ loader = "idle"
    /\ todo = <<>>

LoadAll ==
    /\ loader = "idle"
    /\ loader' = "load"
    /\ todo' = TopologicalOrder
    /\ UNCHANGED <<fiber, services, disposers, abandoned>>

UnloadAll ==
    /\ loader = "idle"
    /\ loader' = "unload"
    /\ todo' = UnloadOrder
    /\ UNCHANGED <<fiber, services, disposers, abandoned>>

Reload(p) ==
    /\ loader = "idle"
    /\ loader' = "reload"
    /\ todo' = IF fiber[p] = "active" THEN <<p, p>> ELSE <<p>>
    /\ UNCHANGED <<fiber, services, disposers, abandoned>>

\* The next plugin, and "idle" after the last one.
Advance ==
    /\ todo' = Tail(todo)
    /\ loader' = IF Len(todo) = 1 THEN "idle" ELSE loader

\* reload goes through its plugin twice when it has to unload it first.
Loading(p) == loader = "load" \/ (loader = "reload" /\ Len(todo) = 1)

Skip ==
    /\ todo # <<>>
    /\ \/ loader = "load" /\ fiber[Head(todo)] = "active"
       \/ loader = "unload" /\ fiber[Head(todo)] \notin {"active", "unloading"}
    /\ Advance
    /\ UNCHANGED <<fiber, services, disposers, abandoned>>

\* A new fiber; a required service that is not offered fails it at once.
BeginLoad ==
    LET p == Head(todo) IN
    /\ todo # <<>>
    /\ Loading(p)
    /\ fiber[p] \notin {"active", "loading"}
    /\ IF Requires[p] \subseteq services
       THEN /\ fiber' = [fiber EXCEPT ![p] = "loading"]
            /\ UNCHANGED <<loader, todo>>
       ELSE /\ fiber' = [fiber EXCEPT ![p] = "failed"]
            /\ Advance
    /\ UNCHANGED <<services, disposers, abandoned>>

AddEffect ==
    LET p == Head(todo) IN
    /\ todo # <<>>
    /\ fiber[p] = "loading"
    /\ disposers[p] < MaxEffects
    /\ disposers' = [disposers EXCEPT ![p] = @ + 1]
    /\ UNCHANGED <<fiber, services, abandoned, loader, todo>>

\* The factory raises: the scope is disposed, in full and before the next plugin.
LoadFails ==
    LET p == Head(todo) IN
    /\ todo # <<>>
    /\ fiber[p] = "loading"
    /\ fiber' = [fiber EXCEPT ![p] = "failed"]
    /\ disposers' = [disposers EXCEPT ![p] = 0]
    /\ Advance
    /\ UNCHANGED <<services, abandoned>>

LoadSucceeds ==
    LET p == Head(todo) IN
    /\ todo # <<>>
    /\ fiber[p] = "loading"
    /\ fiber' = [fiber EXCEPT ![p] = "active"]
    /\ services' = services \cup {p}
    /\ Advance
    /\ UNCHANGED <<disposers, abandoned>>

BeginUnload ==
    LET p == Head(todo) IN
    /\ todo # <<>>
    /\ ~Loading(p)
    /\ fiber[p] = "active"
    /\ fiber' = [fiber EXCEPT ![p] = "unloading"]
    /\ UNCHANGED <<services, disposers, abandoned, loader, todo>>

Dispose ==
    LET p == Head(todo) IN
    /\ todo # <<>>
    /\ fiber[p] = "unloading"
    /\ disposers[p] > 0
    /\ disposers' = [disposers EXCEPT ![p] = @ - 1]
    /\ UNCHANGED <<fiber, services, abandoned, loader, todo>>

\* The grace time is over: the scope is marked disposed, so nobody comes back for
\* what it still holds.
GraceEnds ==
    LET p == Head(todo) IN
    /\ todo # <<>>
    /\ fiber[p] = "unloading"
    /\ disposers[p] > 0
    /\ abandoned' = abandoned \cup {p}
    /\ disposers' = [disposers EXCEPT ![p] = 0]
    /\ UNCHANGED <<fiber, services, loader, todo>>

EndUnload ==
    LET p == Head(todo) IN
    /\ todo # <<>>
    /\ fiber[p] = "unloading"
    /\ disposers[p] = 0
    /\ fiber' = [fiber EXCEPT ![p] = "disposed"]
    /\ services' = services \ {p}
    /\ Advance
    /\ UNCHANGED <<disposers, abandoned>>

PluginNext ==
    \/ LoadAll \/ UnloadAll \/ \E p \in Plugins : Reload(p)
    \/ Skip
    \/ BeginLoad \/ AddEffect \/ LoadFails \/ LoadSucceeds
    \/ BeginUnload \/ Dispose \/ GraceEnds \/ EndUnload

PluginSpec == PluginInit /\ [][PluginNext]_pluginVars

PluginTypeOK ==
    /\ fiber \in [Plugins -> LifecycleState]
    /\ services \subseteq Plugins
    /\ disposers \in [Plugins -> 0..MaxEffects]
    /\ abandoned \subseteq Plugins
    /\ loader \in {"idle", "load", "unload", "reload"}

\* While unload_all runs, a plugin whose resources are being released is required by
\* no active plugin, whatever failed to load or was reloaded before.
UnloadedAfterDependents == \A p \in Plugins :
    loader = "unload" /\ fiber[p] = "unloading" =>
        \A q \in Plugins : p \in Requires[q] => fiber[q] # "active"

\* Between two operations a plugin holds resources only while it is active, and its
\* service is offered exactly then: a failed or half initialised one leaves nothing.
OnlyActiveHolds == loader = "idle" => \A p \in Plugins :
    /\ fiber[p] # "active" => disposers[p] = 0
    /\ (p \in services) = (fiber[p] = "active")

\* A plugin's resources are released once, in an order its dependents survive, and
\* nothing stays behind (PluginLoader.unload_all, PluginFiber.unload, EffectScope.dispose).
PluginsUnwind == UnloadedAfterDependents /\ OnlyActiveHolds
=============================================================================
