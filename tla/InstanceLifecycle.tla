--------------------------- MODULE InstanceLifecycle ---------------------------
(***************************************************************************)
(* The two kinds of owner of a model instance.  Managed is started with    *)
(* the node: a task of its own launches it, and, when the model is split,  *)
(* takes events of the coordinator that replace its generation, drain it   *)
(* before that, or fall back from it.  Runtime is loaded and unloaded by   *)
(* the run loop of the node, which also unloads Managed: it drains the     *)
(* instance, tells the task to stop, and aborts the task in the end.       *)
(*                                                                         *)
(* The server of a handle is in this process: it ends with the handle, not *)
(* before.  An orderly shutdown takes no new connections and waits for the *)
(* ones there are; dropping the handle ends them.                          *)
(***************************************************************************)
EXTENDS InstanceAdmission

CONSTANTS Managed, Runtime

ASSUME InstanceAssumption == Managed # Runtime /\ Instance = {Managed, Runtime}

VARIABLES
    task,       \* the task of Managed
    coord,      \* the coordinator of Managed, when it is split
    loaded,     \* the run loop's load of Runtime
    listed,     \* the instances the run loop may unload
    unload      \* the unload the run loop is at

vars == <<admissionVars, task, coord, loaded, listed, unload>>

\* slot: the port Managed is registered at, as the unload reads it.
\* port, old: the handle it has, and the one it is shutting down.
Task == [pc : {"launching", "serving", "cutting", "retiring", "emptying", "falling",
               "closing", "ended", "panicked", "aborted"},
         port : SUBSET Port, old : SUBSET Port, slot : SUBSET Port, again : BOOLEAN]

\* next: the port of the candidate; drained: it drained before loading it;
\* event: what is in its channel, which holds one event.
Coord == [pc : {"off", "watching", "asking", "draining", "loading", "sending", "publishing", "leaving"},
          next : SUBSET Port, drained : BOOLEAN,
          event : {"none", "drain", "replace", "fallback", "withdraw"}]

TypeOK ==
    /\ AdmissionTypeOK
    /\ task \in Task
    /\ coord \in Coord
    /\ loaded \in [pc : {"absent", "announced", "ready"}, port : SUBSET Port]
    /\ listed \subseteq Instance
    /\ unload \in [pc : {"none", "waiting", "stopping", "closing"}, of : SUBSET Instance,
                   active : SUBSET Port]
    /\ task.old # {} => task.pc \in {"cutting", "retiring", "emptying"}
    /\ coord.event = "replace" => coord.pc = "publishing"

NoCoord == [pc |-> "off", next |-> {}, drained |-> FALSE, event |-> "none"]
NoUnload == [pc |-> "none", of |-> {}, active |-> {}]

Init ==
    /\ record = [i \in Instance |-> Fresh(IF i = Managed THEN "loading" ELSE "stopped")]
    /\ registered = [p \in Port |-> {}]
    /\ route = {}
    /\ advertised = {}
    /\ server = [p \in Port |-> "off"]
    /\ request = [r \in Request |-> Nowhere]
    /\ task = [pc |-> "launching", port |-> {}, old |-> {}, slot |-> {}, again |-> FALSE]
    /\ coord = NoCoord
    /\ loaded = [pc |-> "absent", port |-> {}]
    /\ listed = {Managed}
    /\ unload = NoUnload

-------------------------------------------------------------------------------

Servers(ps, s) == [p \in Port |-> IF p \in ps THEN s ELSE server[p]]

\* Mutant: nobody is waited for.
NobodyWaited(ps) == ps \subseteq Port

\* The orderly shutdown of the server at ps is over.
NobodyAt(ps) == \A p \in ps : Running(p) = {}

Unregistered(ps) == [p \in Port |-> IF p \in ps THEN {} ELSE registered[p]]

\* The system hands out a port again only after long: never, here, while a
\* route, a registration, a request or the slot of the task still names it.
Free(p) ==
    /\ server[p] = "off"
    /\ p \notin route \cup task.slot /\ registered[p] = {}
    /\ \A r \in Request : p \notin request[r].port

\* Port 0 stands for none; a removal by port asks nobody whose it is.
MovedTo(p) == [q \in Port |-> IF q = p THEN {Managed} ELSE IF q \in task.slot THEN {} ELSE registered[q]]

StopSignalled == unload.pc = "stopping" /\ unload.of = {Managed}

-------------------------------------------------------------------------------
(* The task of Managed                                                     *)

\* A launch ends in startup_publish_loaded_runtime; a split one has a
\* coordinator.  Nothing runs between the record's steps up to serving that
\* could tell them apart.
Launches(p) ==
    /\ task.pc = "launching"
    /\ Free(p)
    /\ task' = [task EXCEPT !.pc = "serving", !.port = {p}, !.slot = {p}]
    /\ server' = Servers({p}, "open")
    /\ record' = [record EXCEPT ![Managed] = Fresh("serving")]
    /\ registered' = MovedTo(p)
    /\ route' = route \cup {p}
    /\ advertised' = advertised \cup {Managed}
    /\ \E split \in BOOLEAN : coord' = IF split THEN [NoCoord EXCEPT !.pc = "watching"] ELSE NoCoord
    /\ UNCHANGED <<request, loaded, listed, unload>>

LaunchFails ==
    /\ task.pc = "launching"
    /\ task' = [task EXCEPT !.pc = "ended"]
    /\ record' = [record EXCEPT ![Managed] = Moved(@, "failed")]
    /\ UNCHANGED <<registered, route, advertised, server, request, coord, loaded, listed, unload>>

\* startup_handle_drain_event.  The coordinator may have given up waiting.
Drains ==
    /\ task.pc = "serving"
    /\ coord.event = "drain"
    /\ record' = IF Drainable(record[Managed])
                 THEN [record EXCEPT ![Managed] = MarkDraining(@, "ahead")] ELSE record
    /\ coord' = [coord EXCEPT !.event = "none",
                              !.pc = IF @ # "asking" THEN @
                                     ELSE IF Drainable(record[Managed]) THEN "draining" ELSE "watching"]
    /\ UNCHANGED <<registered, route, advertised, server, request, task, loaded, listed, unload>>

\* startup_handle_replace_event up to rearm_lifecycle_for_cutover: the route
\* moves before the record is registered for the new port.
CutsOver ==
    /\ task.pc = "serving"
    /\ coord.event = "replace"
    /\ task' = [task EXCEPT !.pc = "cutting", !.port = coord.next, !.old = task.port]
    /\ route' = (route \ task.port) \cup coord.next
    /\ coord' = [coord EXCEPT !.event = "none", !.next = {}]
    /\ UNCHANGED <<record, registered, advertised, server, request, loaded, listed, unload>>

\* Mutant: the previous port is unregistered after the new one is registered.
RegistersReplacementLate ==
    /\ task.pc = "cutting"
    /\ \E p \in task.port :
        /\ task' = [task EXCEPT !.pc = "retiring", !.slot = {p}]
        /\ registered' = [MovedTo(p) EXCEPT ![p] = {}]
    /\ record' = [record EXCEPT ![Managed] = Fresh("serving")]
    /\ request' = Uncounted(Managed)
    /\ advertised' = advertised \cup {Managed}
    /\ server' = Servers(task.old, "closing")
    /\ coord' = [coord EXCEPT !.pc = "watching", !.drained = FALSE]
    /\ UNCHANGED <<route, loaded, listed, unload>>

\* Re-armed and registered, acknowledged, and the old server told to stop.
RegistersReplacement ==
    /\ task.pc = "cutting"
    /\ \E p \in task.port :
        /\ task' = [task EXCEPT !.pc = "retiring", !.slot = {p}]
        /\ registered' = MovedTo(p)
    /\ record' = [record EXCEPT ![Managed] = Fresh("serving")]
    /\ request' = Uncounted(Managed)
    /\ advertised' = advertised \cup {Managed}
    /\ server' = Servers(task.old, "closing")
    /\ coord' = [coord EXCEPT !.pc = "watching", !.drained = FALSE]
    /\ UNCHANGED <<route, loaded, listed, unload>>

\* Mutant: the handle that is shut stays with the task.
RetiresReplacedOnly ==
    /\ task.pc = "retiring"
    /\ NobodyAt(task.old)
    /\ server' = Servers(task.old, "off")
    /\ task' = [task EXCEPT !.pc = "serving"]
    /\ UNCHANGED <<record, registered, route, advertised, request, coord, loaded, listed, unload>>

RetiresReplaced ==
    /\ task.pc = "retiring"
    /\ NobodyAt(task.old)
    /\ server' = Servers(task.old, "off")
    /\ task' = [task EXCEPT !.pc = "serving", !.old = {}]
    /\ UNCHANGED <<record, registered, route, advertised, request, coord, loaded, listed, unload>>

\* startup_handle_local_fallback_event.
FallsBack ==
    /\ task.pc = "serving"
    /\ coord.event = "fallback"
    /\ task' = [task EXCEPT !.pc = "emptying", !.port = {}, !.old = task.port]
    /\ route' = route \ task.port
    /\ server' = Servers(task.port, "closing")
    /\ coord' = [coord EXCEPT !.event = "none"]
    /\ UNCHANGED <<record, registered, advertised, request, loaded, listed, unload>>

SplitIsShut ==
    /\ task.pc = "emptying"
    /\ NobodyAt(task.old)
    /\ server' = Servers(task.old, "off")
    /\ task' = [task EXCEPT !.pc = "falling", !.old = {}]
    /\ UNCHANGED <<record, registered, route, advertised, request, coord, loaded, listed, unload>>

\* Mutant: a failed fallback leaves the loop without cleaning up.
FallbackReturns ==
    /\ task.pc = "falling"
    /\ task' = [task EXCEPT !.pc = "ended", !.slot = {}]
    /\ coord' = NoCoord
    /\ UNCHANGED <<record, registered, route, advertised, server, request, loaded, listed, unload>>

\* No capacity, or the local load failed; acknowledged all the same.
FallbackFails ==
    /\ task.pc = "falling"
    /\ registered' = Unregistered(task.slot)
    /\ advertised' = advertised \ {Managed}
    /\ task' = [task EXCEPT !.pc = "ended", !.slot = {}]
    /\ coord' = NoCoord
    /\ UNCHANGED <<record, route, server, request, loaded, listed, unload>>

\* startup_register_loaded_runtime expects a record that can become serving; it
\* panics otherwise, with the slot moved and the new handle dropped.
FallbackRegisters(p) ==
    LET serves == "serving" \in Successors(record[Managed].state) IN
    /\ task.pc = "falling"
    /\ Free(p)
    /\ record' = [record EXCEPT ![Managed] = Moved(@, "serving")]
    /\ registered' = IF serves THEN MovedTo(p) ELSE Unregistered(task.slot)
    /\ server' = IF serves THEN Servers({p}, "open") ELSE server
    /\ route' = IF serves THEN route \cup {p} ELSE route
    /\ advertised' = IF serves THEN advertised \cup {Managed} ELSE advertised
    /\ task' = IF serves THEN [task EXCEPT !.pc = "serving", !.port = {p}, !.slot = {p}]
               ELSE [task EXCEPT !.pc = "panicked", !.slot = {p}]
    /\ coord' = IF serves THEN NoCoord ELSE coord
    /\ UNCHANGED <<request, loaded, listed, unload>>

\* startup_shutdown_local_model_loop, on the stop signal or to launch again.
\* The coordinator goes first, with a candidate it may have.
Shuts ==
    /\ task.pc = "serving"
    /\ StopSignalled \/ coord.event = "withdraw"
    /\ task' = [task EXCEPT !.pc = "closing", !.slot = {}, !.again = ~StopSignalled]
    /\ route' = route \ task.port
    /\ registered' = Unregistered(task.slot)
    /\ advertised' = advertised \ {Managed}
    /\ server' = [p \in Port |-> IF p \in task.port THEN "closing"
                                 ELSE IF p \in coord.next THEN "off" ELSE server[p]]
    /\ coord' = NoCoord
    /\ UNCHANGED <<record, request, loaded, listed, unload>>

\* Relaunching resets the record.  A stop that came meanwhile ends the task.
Closes ==
    /\ task.pc = "closing"
    /\ NobodyAt(task.port)
    /\ server' = Servers(task.port, "off")
    /\ task' = [task EXCEPT !.port = {}, !.again = FALSE,
                            !.pc = IF task.again /\ ~StopSignalled THEN "launching" ELSE "ended"]
    /\ record' = IF task.again /\ ~StopSignalled
                 THEN [record EXCEPT ![Managed] = Fresh("loading")] ELSE record
    /\ request' = IF task.again /\ ~StopSignalled THEN Uncounted(Managed) ELSE request
    /\ UNCHANGED <<registered, route, advertised, coord, loaded, listed, unload>>

-------------------------------------------------------------------------------
(* The coordinator of Managed                                              *)

Listening == task.pc \in {"serving", "cutting", "retiring", "emptying", "falling", "closing"}

\* cut_over_to_boundaries begins with a drain, a replan without one, and a
\* loss of stages ends the split.  A send waits for room in the channel.
AsksDrain ==
    /\ coord.pc = "watching"
    /\ coord.event = "none" /\ Listening
    /\ coord' = [coord EXCEPT !.pc = "asking", !.event = "drain"]
    /\ UNCHANGED <<admissionVars, task, loaded, listed, unload>>

\* await_drain_ack.  The event stays in the channel.
AckTimesOut ==
    /\ coord.pc = "asking"
    /\ coord' = [coord EXCEPT !.pc = "watching"]
    /\ UNCHANGED <<admissionVars, task, loaded, listed, unload>>

\* Mutant: the coordinator waits for the last request, whatever the deadline.
DrainedWhenReady ==
    /\ coord.pc = "draining"
    /\ record[Managed].state = "draining" /\ InFlight(Managed) = {}
    /\ coord' = [coord EXCEPT !.pc = "loading", !.drained = TRUE]
    /\ UNCHANGED <<admissionVars, task, loaded, listed, unload>>

Drained ==
    /\ coord.pc = "draining"
    /\ ReadyToUnload(Managed)
    /\ coord' = [coord EXCEPT !.pc = "loading", !.drained = TRUE]
    /\ UNCHANGED <<admissionVars, task, loaded, listed, unload>>

Replans ==
    /\ coord.pc = "watching"
    /\ coord' = [coord EXCEPT !.pc = "loading"]
    /\ UNCHANGED <<admissionVars, task, loaded, listed, unload>>

LoadsCandidate(p) ==
    /\ coord.pc = "loading"
    /\ Free(p)
    /\ server' = Servers({p}, "open")
    /\ coord' = [coord EXCEPT !.pc = "sending", !.next = {p}]
    /\ UNCHANGED <<record, registered, route, advertised, request, task, loaded, listed, unload>>

SendsReplace ==
    /\ coord.pc = "sending"
    /\ coord.event = "none" /\ Listening
    /\ coord' = [coord EXCEPT !.pc = "publishing", !.event = "replace"]
    /\ UNCHANGED <<admissionVars, task, loaded, listed, unload>>

\* The load failed, or there is no loop to take its result.  After a drain the
\* record is re-armed and made serving again, whatever became of it.
CandidateFails ==
    /\ \/ coord.pc = "loading"
       \/ coord.pc \in {"sending", "publishing"} /\ ~Listening
    /\ server' = Servers(coord.next, "off")
    /\ record' = IF coord.drained THEN [record EXCEPT ![Managed] = Fresh("serving")] ELSE record
    /\ request' = IF coord.drained THEN Uncounted(Managed) ELSE request
    /\ coord' = [coord EXCEPT !.pc = "watching", !.next = {}, !.drained = FALSE, !.event = "none"]
    /\ UNCHANGED <<registered, route, advertised, task, loaded, listed, unload>>

LosesStages ==
    /\ coord.pc = "watching"
    /\ coord.event = "none" /\ Listening
    /\ \E event \in {"fallback", "withdraw"} : coord' = [coord EXCEPT !.pc = "leaving", !.event = event]
    /\ UNCHANGED <<admissionVars, task, loaded, listed, unload>>

\* Without a loop every send fails and every acknowledgement is lost.
CoordinatorIsAlone ==
    /\ coord.pc \in {"watching", "asking", "leaving"}
    /\ ~Listening
    /\ coord' = NoCoord
    /\ UNCHANGED <<admissionVars, task, loaded, listed, unload>>

-------------------------------------------------------------------------------
(* The run loop                                                            *)

LoadsRuntime(p) ==
    /\ unload.pc = "none"
    /\ loaded.pc = "absent"
    /\ Free(p)
    /\ loaded' = [pc |-> "announced", port |-> {p}]
    /\ server' = Servers({p}, "open")
    /\ route' = route \cup {p}
    /\ advertised' = advertised \cup {Runtime}
    /\ UNCHANGED <<record, registered, request, task, coord, listed, unload>>

\* The end of finish_runtime_model_load, several awaits later.
RegistersRuntime ==
    /\ loaded.pc = "announced"
    /\ loaded' = [loaded EXCEPT !.pc = "ready"]
    /\ record' = [record EXCEPT ![Runtime] = Fresh("serving")]
    /\ registered' = [p \in Port |-> IF p \in loaded.port THEN {Runtime} ELSE registered[p]]
    /\ request' = Uncounted(Runtime)
    /\ listed' = listed \cup {Runtime}
    /\ UNCHANGED <<route, advertised, server, task, coord, unload>>

Limit(force) == IF force THEN "passed" ELSE "ahead"

\* The run loop is busy with a load, or with another unload.
RunLoopFree == unload.pc = "none" /\ loaded.pc # "announced"

UnloadsRuntime(force) ==
    /\ RunLoopFree
    /\ Runtime \in listed
    /\ unload' = [NoUnload EXCEPT !.pc = "waiting", !.of = {Runtime}]
    /\ listed' = listed \ {Runtime}
    /\ record' = [record EXCEPT ![Runtime] = MarkDraining(@, Limit(force))]
    /\ route' = route \ loaded.port
    /\ advertised' = advertised \ {Runtime}
    /\ UNCHANGED <<registered, server, request, task, coord, loaded>>

\* The requests still there when the deadline has passed go on.
ShutsRuntime ==
    /\ unload.pc = "waiting" /\ unload.of = {Runtime}
    /\ ReadyToUnload(Runtime)
    /\ record' = [record EXCEPT ![Runtime] = Unloading(Runtime)]
    /\ registered' = Unregistered(loaded.port)
    /\ server' = Servers(loaded.port, "closing")
    /\ unload' = [unload EXCEPT !.pc = "closing"]
    /\ UNCHANGED <<route, advertised, request, task, coord, loaded, listed>>

ClosesRuntime ==
    /\ unload.pc = "closing"
    /\ NobodyAt(loaded.port)
    /\ server' = Servers(loaded.port, "off")
    /\ record' = [record EXCEPT ![Runtime] = Moved(@, "stopped")]
    /\ loaded' = [pc |-> "absent", port |-> {}]
    /\ unload' = NoUnload
    /\ UNCHANGED <<registered, route, advertised, request, task, coord, listed>>

\* No port, or a record that cannot drain: the task is stopped at once.
UnloadsManaged(force) ==
    LET drains == task.slot # {} /\ Drainable(record[Managed]) IN
    /\ RunLoopFree
    /\ Managed \in listed
    /\ listed' = listed \ {Managed}
    /\ record' = IF drains THEN [record EXCEPT ![Managed] = MarkDraining(@, Limit(force))] ELSE record
    /\ unload' = [pc |-> IF drains THEN "waiting" ELSE "stopping", of |-> {Managed},
                  active |-> task.slot]
    /\ UNCHANGED <<registered, route, advertised, server, request, task, coord, loaded>>

\* Mutant: the stop of the task waits for the last request, whatever the deadline.
StopsManagedIdle ==
    /\ unload.pc = "waiting" /\ unload.of = {Managed}
    /\ record[Managed].state # "draining" \/ InFlight(Managed) = {}
    /\ record' = [record EXCEPT ![Managed] = Unloading(Managed)]
    /\ unload' = [unload EXCEPT !.pc = "stopping"]
    /\ UNCHANGED <<registered, route, advertised, server, request, task, coord, loaded, listed>>

StopsManaged ==
    /\ unload.pc = "waiting" /\ unload.of = {Managed}
    /\ ReadyToUnload(Managed)
    /\ record' = [record EXCEPT ![Managed] = Unloading(Managed)]
    /\ unload' = [unload EXCEPT !.pc = "stopping"]
    /\ UNCHANGED <<registered, route, advertised, server, request, task, coord, loaded, listed>>

\* await_managed_model_stop: at once if forced, else after a timeout.  What
\* the task had is dropped where it is; its coordinator runs on.
AbortsManaged ==
    LET had == task.port \cup task.old \cup (IF coord.event = "replace" THEN coord.next ELSE {}) IN
    /\ unload.pc = "stopping" /\ task.pc \notin {"ended", "panicked", "aborted"}
    /\ server' = Servers(had, "off")
    /\ request' = CutAt(had)
    /\ task' = [task EXCEPT !.pc = "aborted", !.port = {}, !.old = {}]
    /\ coord' = [coord EXCEPT !.event = "none", !.next = IF coord.event = "replace" THEN {} ELSE @]
    /\ UNCHANGED <<record, registered, route, advertised, loaded, listed, unload>>

UnloadedManaged ==
    /\ unload.pc = "stopping" /\ task.pc \in {"ended", "panicked", "aborted"}
    /\ registered' = Unregistered(unload.active)
    /\ record' = [record EXCEPT ![Managed] = IF @.state = "unloading" THEN Moved(@, "stopped") ELSE @]
    /\ unload' = NoUnload
    /\ UNCHANGED <<route, advertised, server, request, task, coord, loaded, listed>>

-------------------------------------------------------------------------------

\* The task goes on by itself, and so do the coordinator and the run loop.
TaskStep ==
    \/ \E p \in Port : Launches(p) \/ FallbackRegisters(p)
    \/ LaunchFails \/ Drains \/ CutsOver \/ RegistersReplacement \/ RetiresReplaced
    \/ FallsBack \/ SplitIsShut \/ FallbackFails \/ Shuts \/ Closes

CoordStep ==
    \/ \E p \in Port : LoadsCandidate(p)
    \/ Drained \/ SendsReplace \/ CandidateFails \/ CoordinatorIsAlone

CoordChoice == AsksDrain \/ AckTimesOut \/ Replans \/ LosesStages

UnloadStep ==
    \/ RegistersRuntime \/ ShutsRuntime \/ ClosesRuntime
    \/ StopsManaged \/ AbortsManaged \/ UnloadedManaged

UnloadChoice ==
    \/ \E p \in Port : LoadsRuntime(p)
    \/ \E force \in BOOLEAN : UnloadsRuntime(force) \/ UnloadsManaged(force)

RequestStep(r) ==
    /\ \/ \E p \in Port : IsRouted(r, p)
       \/ IsAdmitted(r) \/ Connects(r) \/ IsAnswered(r) \/ IsReported(r)
    /\ UNCHANGED <<task, coord, loaded, listed, unload>>

TimePasses(i) == DeadlinePasses(i) /\ UNCHANGED <<task, coord, loaded, listed, unload>>

Next ==
    \/ TaskStep \/ CoordStep \/ CoordChoice \/ UnloadStep \/ UnloadChoice
    \/ \E r \in Request : RequestStep(r)
    \/ \E i \in Instance : TimePasses(i)

Spec == Init /\ [][Next]_vars

\* The tasks of the node run, and deadlines pass.  The wait of an unload looks at
\* the record ten times a second: it does not miss for ever that the record is
\* ready now and then.  Nobody has to unload, replan or ask, and a request may
\* take for ever.
FairSpec ==
    /\ Spec
    /\ WF_vars(TaskStep) /\ WF_vars(CoordStep) /\ SF_vars(UnloadStep)
    /\ \A i \in Instance : WF_vars(TimePasses(i))

-------------------------------------------------------------------------------
(* Properties *)

Ports(i) == IF i = Managed THEN task.port \cup task.old ELSE loaded.port

\* The instance whose handle is at a port.
Owner(p) == {i \in Instance : p \in Ports(i)}

\* Requests are routed to open servers only, and past the record that counts
\* them: every routed port is registered for the instance that serves it, but
\* for the moment between a route and its registration, and for what an abort
\* leaves behind.
RouteIsGuarded ==
    \A p \in route :
        \/ task.pc = "aborted"
        \/ /\ server[p] = "open"
           /\ Owner(p) # {}
           /\ \/ registered[p] = Owner(p)
              \/ task.pc = "cutting" /\ p \in task.port
              \/ loaded.pc = "announced" /\ p \in loaded.port

\* A managed model whose task came to its end left nothing behind: no route,
\* no registration, no entry in the registry of served models, no server.
EndLeavesNothing ==
    task.pc = "ended" =>
        /\ Managed \notin advertised
        /\ \A p \in Port : registered[p] # {Managed} /\ Owner(p) # {Managed}
        /\ \A p \in route : Owner(p) = {Runtime}

\* A request runs on a server that is on: a server goes off when its last
\* request is over, or with the request cut.
RunsOnServer == \A p \in Port : server[p] = "off" => Running(p) = {}

\* From the end of a drain to the cutover it was for, nobody the record counts
\* is on the instance, unless the drain ended at its deadline: a drained
\* instance lets nobody in while its replacement loads.
DrainHolds ==
    coord.drained /\ coord.pc \in {"loading", "sending"} /\ record[Managed].deadline = "ahead"
        => InFlight(Managed) = {}

\* A drain that the coordinator was told of ends with the model serving again,
\* though requests never end: by the replacement, or, when its load fails, by
\* the record re-armed; unless the task leaves its loop meanwhile.
DrainResumes ==
    coord.pc = "draining" ~> task.pc # "serving" \/ record[Managed].state = "serving"

\* An unload ends, for a model started with the node though requests never do.
ManagedUnloadEnds == unload.of = {Managed} ~> unload.of # {Managed}

\* The local load of a fallback becomes a serving instance, or is given up.
FallbackServes == task.pc # "panicked"
===============================================================================
