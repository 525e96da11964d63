------------------------- MODULE InstanceLifecycleProofs -------------------------
(***************************************************************************)
(* Proofs about InstanceLifecycle: its types, that requests run on servers *)
(* that are on, that a route is past the record that counts it, that a     *)
(* task that ends leaves nothing behind, and that a drain holds.           *)
(***************************************************************************)
EXTENDS InstanceLifecycle, TLAPS

-------------------------------------------------------------------------------
(* The inductive invariant *)

\* The ports of the handles of the task.
Handled == task.port \cup task.old

\* The task has a handle it serves with.
Serves == task.pc \in {"serving", "cutting", "retiring"}

\* The handles of the node are on, at ports of their own.
HandlesApart ==
    /\ \A p \in Handled \cup coord.next \cup loaded.port : server[p] # "off"
    /\ task.port \cap task.old = {}
    /\ Handled \cap (coord.next \cup loaded.port) = {}
    /\ coord.next \cap loaded.port = {}

\* Nobody knows a candidate's port before the cutover.
CandidateIsPrivate ==
    \A p \in coord.next :
        /\ p \notin route \cup task.slot
        /\ registered[p] = {}
        /\ \A r \in Request : p \notin request[r].port

\* A request is for one port.
RequestShape == \A r \in Request : \A p, q \in request[r].port : p = q

\* What the task and its coordinator have, by where they are.
TaskShape ==
    /\ Serves => task.port # {}
    /\ task.port # {} => Serves \/ task.pc = "closing"
    /\ task.pc \in {"serving", "retiring"} => task.slot = task.port
    /\ task.pc \in {"cutting", "emptying"} => task.slot = task.old
    /\ task.pc \in {"launching", "ended", "closing"} => task.slot = {}
    /\ task.pc = "aborted" => Handled = {}
    /\ task.pc = "cutting" => coord.pc = "publishing" /\ coord.event = "none"
    /\ coord.event = "replace" \/ coord.pc = "sending" => coord.next # {}
    /\ \A p, q \in task.port : p = q
    /\ \A p, q \in coord.next : p = q

\* A registration is for the slot of the task or for the loaded instance.
RegistrationShape ==
    /\ \A p \in Port : registered[p] \in {{}, {Managed}, {Runtime}}
    /\ \A p \in Port : registered[p] = {Managed} => p \in task.slot \/ task.pc = "aborted"
    /\ \A p \in Port : registered[p] = {Runtime} => p \in loaded.port
    /\ task.pc \notin {"panicked", "aborted"} => \A p \in task.slot : registered[p] = {Managed}
    /\ task.slot \cap loaded.port = {}

\* What the run loop has, by where it is with a load or an unload.
UnloadShape ==
    /\ unload.of \in {{}, {Managed}, {Runtime}}
    /\ unload.of = {} <=> unload.pc = "none"
    /\ unload.pc = "none" => unload.active = {}
    /\ unload.pc # "none" => loaded.pc # "announced"
    /\ unload.pc = "stopping" => unload.of = {Managed}
    /\ unload.pc = "closing" => unload.of = {Runtime} /\ \A p \in loaded.port : registered[p] = {}
    /\ unload.of = {Runtime} => loaded.pc = "ready" /\ unload.active = {}
    /\ unload.active \cap loaded.port = {}
    /\ Runtime \in listed => loaded.pc = "ready" /\ unload.of # {Runtime}
    /\ loaded.pc = "absent" => loaded.port = {}
    /\ loaded.pc = "ready" /\ unload.pc # "closing" => \A p \in loaded.port : registered[p] = {Runtime}
    /\ unload.of # {Runtime} => \A p \in loaded.port : server[p] = "open"

\* Requests are routed to what serves.
RouteShape ==
    /\ task.pc # "aborted" => \A p \in route : (p \in task.port /\ Serves) \/ p \in loaded.port
    /\ unload.of = {Runtime} => route \cap loaded.port = {}
    /\ Serves => \A p \in task.port : server[p] = "open"
    /\ \A p \in coord.next : server[p] = "open"

\* A model that is not served is not advertised.
EndShape == task.pc \in {"launching", "closing", "ended"} => Managed \notin advertised

\* The inductive invariant.
IInv ==
    /\ TypeOK
    /\ HandlesApart
    /\ CandidateIsPrivate
    /\ RequestShape
    /\ TaskShape
    /\ RegistrationShape
    /\ UnloadShape
    /\ RouteShape
    /\ EndShape
    /\ RunsOnServer

-------------------------------------------------------------------------------

\* The two instances are told apart by the sets they are in.
LEMMA Distinct == {Managed} # {Runtime} /\ {Managed} # {} /\ {Runtime} # {}
<1> QED  BY InstanceAssumption

\* What the operations on a record return.
LEMMA RecordTypes ==
    ASSUME NEW rec \in Record
    PROVE  /\ \A s \in State : Fresh(s) \in Record /\ Moved(rec, s) \in Record
           /\ \A d \in {"ahead", "passed"} : MarkDraining(rec, d) \in Record
<1>1. \A s \in State : Fresh(s) \in Record /\ Moved(rec, s) \in Record
  BY DEF Fresh, Moved, Record
<1>2. \A d \in {"ahead", "passed"} : MarkDraining(rec, d) \in Record
  BY DEF MarkDraining, Sooner, Record, State
<1> QED  BY <1>1, <1>2

\* What they make of the requests.
LEMMA RequestTypes ==
    ASSUME request \in [Request -> Place]
    PROVE  /\ \A i \in Instance : Uncounted(i) \in [Request -> Place]
           /\ \A ps \in SUBSET Port : CutAt(ps) \in [Request -> Place]
<1>1. ASSUME NEW i \in Instance PROVE Uncounted(i) \in [Request -> Place]
  BY DEF Uncounted, Place
<1>2. ASSUME NEW ps \in SUBSET Port PROVE CutAt(ps) \in [Request -> Place]
  BY DEF CutAt, Place
<1> QED  BY <1>1, <1>2

\* A step of the task keeps it.
LEMMA TaskKeepsInv ==
    ASSUME IInv, TaskStep
    PROVE  IInv'
<1>1. ASSUME NEW p \in Port, Launches(p)
     PROVE  IInv'
  <2>1. /\ record \in [Instance -> Record] /\ request \in [Request -> Place]
        /\ Managed \in Instance /\ Runtime \in Instance
        /\ {"serving", "loading"} \subseteq State
    BY <1>1, InstanceAssumption DEF IInv, TypeOK, AdmissionTypeOK, State
  <2>2. record' \in [Instance -> Record]
    BY <1>1, <2>1, RecordTypes DEF Launches
  <2>3. request' \in [Request -> Place]
    BY <1>1, <2>1, RequestTypes DEF Launches
  <2>4. task' \in Task
    BY <1>1 DEF IInv, TypeOK, Task, Launches
  <2>5. coord' \in Coord
    <3>1. coord' \in {NoCoord, [NoCoord EXCEPT !.pc = "watching"]}
      BY <1>1 DEF Launches
    <3>2. NoCoord \in Coord /\ [NoCoord EXCEPT !.pc = "watching"] \in Coord
      BY DEF Coord, NoCoord
    <3> QED  BY <3>1, <3>2
  <2>6. TypeOK'
    BY <1>1, <2>1, <2>2, <2>3, <2>4, <2>5 DEF IInv, TypeOK, AdmissionTypeOK, TaskShape,
      Task, Coord, Launches, Servers, MovedTo, NoCoord, Free
  <2>7. HandlesApart' /\ CandidateIsPrivate' /\ RequestShape' /\ TaskShape' /\ EndShape'
        /\ RunsOnServer'
    BY <1>1, Distinct DEF IInv, HandlesApart, CandidateIsPrivate, RequestShape, TaskShape,
      EndShape, RunsOnServer, Handled, Serves, Running, TypeOK, AdmissionTypeOK, Task,
      Coord, Launches, Servers, MovedTo, NoCoord, Free, Fresh, admissionVars
  <2>8. RegistrationShape'
    BY <1>1, Distinct, SMTT(30) DEF IInv, HandlesApart, CandidateIsPrivate, RequestShape, TaskShape,
      RegistrationShape, UnloadShape, RouteShape, EndShape, RunsOnServer, Handled,
      Serves, Running, TypeOK, AdmissionTypeOK, Task, Coord, Launches, Servers, MovedTo,
      NoCoord, Free, Fresh, admissionVars
  <2>9. UnloadShape'
    BY <1>1, Distinct DEF IInv, HandlesApart, CandidateIsPrivate, RequestShape, TaskShape,
      RegistrationShape, UnloadShape, RouteShape, EndShape, RunsOnServer, Handled,
      Serves, Running, TypeOK, AdmissionTypeOK, Task, Coord, Launches, Servers, MovedTo,
      NoCoord, Free, Fresh, admissionVars
  <2>10. RouteShape'
    BY <1>1, Distinct DEF IInv, HandlesApart, CandidateIsPrivate, RequestShape, TaskShape,
      RegistrationShape, UnloadShape, RouteShape, EndShape, RunsOnServer, Handled,
      Serves, Running, TypeOK, AdmissionTypeOK, Task, Coord, Launches, Servers, MovedTo,
      NoCoord, Free, Fresh, admissionVars
  <2> QED  BY <2>1, <2>2, <2>3, <2>4, <2>5, <2>6, <2>7, <2>8, <2>9, <2>10 DEF IInv
<1>2. ASSUME NEW p \in Port, FallbackRegisters(p)
     PROVE  IInv'
  <2>1. /\ record \in [Instance -> Record] /\ request \in [Request -> Place]
        /\ Managed \in Instance /\ Runtime \in Instance
        /\ {"serving", "loading"} \subseteq State
    BY <1>2, InstanceAssumption DEF IInv, TypeOK, AdmissionTypeOK, State
  <2>2. record' \in [Instance -> Record]
    BY <1>2, <2>1, RecordTypes DEF FallbackRegisters
  <2>3. request' \in [Request -> Place]
    BY <1>2, <2>1, RequestTypes DEF FallbackRegisters
  <2>4. TypeOK'
    <3>1. task' \in Task
      BY <1>2 DEF IInv, TypeOK, Task, FallbackRegisters
    <3>2. coord' \in Coord
      BY <1>2 DEF IInv, TypeOK, Coord, NoCoord, FallbackRegisters
    <3>3. registered' \in [Port -> SUBSET Instance]
      BY <1>2, <2>1 DEF IInv, TypeOK, AdmissionTypeOK, FallbackRegisters, MovedTo, Unregistered
    <3>4. server' \in [Port -> {"off", "open", "closing"}]
      BY <1>2 DEF IInv, TypeOK, AdmissionTypeOK, FallbackRegisters, Servers
    <3> QED  BY <1>2, <2>1, <2>2, <2>3, <3>1, <3>2, <3>3, <3>4, ZenonT(40)
        DEF IInv, TypeOK, AdmissionTypeOK, Task, Coord, NoCoord, FallbackRegisters
  <2>5. HandlesApart' /\ RequestShape' /\ EndShape' /\ RunsOnServer'
    BY <1>2, Distinct DEF IInv, HandlesApart, RequestShape, EndShape, RunsOnServer,
      Handled, Running, TypeOK, AdmissionTypeOK, Task, Coord, FallbackRegisters,
      Servers, MovedTo, Unregistered, NoCoord, Free, Moved, Successors, admissionVars
  <2>6. CandidateIsPrivate'
    BY <1>2, Distinct DEF IInv, HandlesApart, CandidateIsPrivate, RequestShape, TaskShape,
      RegistrationShape, UnloadShape, RouteShape, EndShape, RunsOnServer, Handled,
      Serves, Running, TypeOK, AdmissionTypeOK, Task, Coord, FallbackRegisters, Servers,
      MovedTo, Unregistered, NoCoord, Free, Moved, Successors, admissionVars
  <2>7. TaskShape'
    BY <1>2, Distinct DEF IInv, HandlesApart, CandidateIsPrivate, RequestShape, TaskShape,
      RegistrationShape, UnloadShape, RouteShape, EndShape, RunsOnServer, Handled,
      Serves, Running, TypeOK, AdmissionTypeOK, Task, Coord, FallbackRegisters, Servers,
      MovedTo, Unregistered, NoCoord, Free, Moved, Successors, admissionVars
  <2>8. UnloadShape'
    BY <1>2, Distinct DEF IInv, HandlesApart, CandidateIsPrivate, RequestShape, TaskShape,
      RegistrationShape, UnloadShape, RouteShape, EndShape, RunsOnServer, Handled,
      Serves, Running, TypeOK, AdmissionTypeOK, Task, Coord, FallbackRegisters, Servers,
      MovedTo, Unregistered, NoCoord, Free, Moved, Successors, admissionVars
  <2>9. RouteShape'
    BY <1>2, Distinct DEF IInv, HandlesApart, CandidateIsPrivate, RequestShape, TaskShape,
      RegistrationShape, UnloadShape, RouteShape, EndShape, RunsOnServer, Handled,
      Serves, Running, TypeOK, AdmissionTypeOK, Task, Coord, FallbackRegisters, Servers,
      MovedTo, Unregistered, NoCoord, Free, Moved, Successors, admissionVars
  <2>10. RegistrationShape'
    <3>1. /\ task.slot \cap loaded.port = {} /\ p \notin loaded.port
          /\ \A q \in Port : registered[q] \in {{}, {Managed}, {Runtime}}
          /\ \A q \in Port : registered[q] = {Managed} => q \in task.slot
          /\ \A q \in Port : registered[q] = {Runtime} => q \in loaded.port
      BY <1>2 DEF IInv, RegistrationShape, HandlesApart, FallbackRegisters, Free
    <3>2. \/ registered' = MovedTo(p) /\ task' = [task EXCEPT !.pc = "serving", !.port = {p}, !.slot = {p}]
          \/ registered' = Unregistered(task.slot) /\ task' = [task EXCEPT !.pc = "panicked", !.slot = {p}]
      BY <1>2 DEF FallbackRegisters
    <3>3. task'.slot = {p} /\ (task'.pc = "panicked" \/ registered'[p] = {Managed})
      BY <3>2 DEF IInv, TypeOK, Task, MovedTo
    <3>4. \A q \in Port \ {p} : registered'[q] = IF q \in task.slot THEN {} ELSE registered[q]
      BY <3>2 DEF MovedTo, Unregistered
    <3>5. registered'[p] \in {{}, {Managed}}
      BY <1>2, <3>2 DEF MovedTo, Unregistered, FallbackRegisters, Free
    <3>6. loaded' = loaded
      BY <1>2 DEF FallbackRegisters
    <3> QED  BY <3>1, <3>3, <3>4, <3>5, <3>6, Distinct DEF RegistrationShape
  <2> QED  BY <2>1, <2>2, <2>3, <2>4, <2>5, <2>6, <2>7, <2>8, <2>9, <2>10 DEF IInv
<1>3. ASSUME LaunchFails
     PROVE  IInv'
  <2>1. TypeOK'
    BY <1>3, InstanceAssumption DEF IInv, TypeOK, AdmissionTypeOK, Record, State, Place,
      Task, Coord, admissionVars, LaunchFails, Moved, Successors
  <2>2. HandlesApart' /\ CandidateIsPrivate' /\ RequestShape' /\ TaskShape' /\
        RegistrationShape' /\ UnloadShape' /\ RouteShape' /\ EndShape' /\ RunsOnServer'
    BY <1>3, Distinct DEF IInv, HandlesApart, CandidateIsPrivate, RequestShape, TaskShape,
      RegistrationShape, UnloadShape, RouteShape, EndShape, RunsOnServer, Handled,
      Serves, Running, TypeOK, AdmissionTypeOK, Task, Coord, LaunchFails, Moved,
      Successors, admissionVars
  <2> QED  BY <2>1, <2>2 DEF IInv
<1>4. ASSUME Drains
     PROVE  IInv'
  <2>1. /\ record \in [Instance -> Record] /\ request \in [Request -> Place]
        /\ Managed \in Instance /\ Runtime \in Instance
        /\ {"serving", "loading"} \subseteq State
    BY <1>4, InstanceAssumption DEF IInv, TypeOK, AdmissionTypeOK, State
  <2>2. record' \in [Instance -> Record]
    BY <1>4, <2>1, RecordTypes DEF Drains
  <2>3. request' \in [Request -> Place]
    BY <1>4, <2>1, RequestTypes DEF Drains
  <2>4. TypeOK'
    BY <1>4, <2>1, <2>2, <2>3 DEF IInv, TypeOK, AdmissionTypeOK, Task, Coord, Drains,
      Drainable
  <2>5. HandlesApart' /\ CandidateIsPrivate' /\ RequestShape' /\ TaskShape' /\
        RegistrationShape' /\ UnloadShape' /\ RouteShape' /\ EndShape' /\ RunsOnServer'
    BY <1>4, Distinct DEF IInv, HandlesApart, CandidateIsPrivate, RequestShape, TaskShape,
      RegistrationShape, UnloadShape, RouteShape, EndShape, RunsOnServer, Handled,
      Serves, Running, TypeOK, AdmissionTypeOK, Task, Coord, Drains, Drainable,
      MarkDraining, Sooner, admissionVars
  <2> QED  BY <2>1, <2>2, <2>3, <2>4, <2>5 DEF IInv
<1>5. ASSUME CutsOver
     PROVE  IInv'
  <2>1. TypeOK'
    BY <1>5, InstanceAssumption DEF IInv, TypeOK, AdmissionTypeOK, Record, State, Place,
      Task, Coord, admissionVars, CutsOver
  <2>2. HandlesApart' /\ CandidateIsPrivate' /\ RequestShape' /\ TaskShape' /\
        RegistrationShape' /\ UnloadShape' /\ EndShape' /\ RunsOnServer'
    BY <1>5, Distinct DEF IInv, HandlesApart, CandidateIsPrivate, RequestShape, TaskShape,
      RegistrationShape, UnloadShape, EndShape, RunsOnServer, Handled, Serves, Running,
      TypeOK, AdmissionTypeOK, Task, Coord, CutsOver, admissionVars
  <2>3. RouteShape'
    BY <1>5, Distinct DEF IInv, HandlesApart, CandidateIsPrivate, RequestShape, TaskShape,
      RegistrationShape, UnloadShape, RouteShape, EndShape, RunsOnServer, Handled,
      Serves, Running, TypeOK, AdmissionTypeOK, Task, Coord, CutsOver, admissionVars
  <2> QED  BY <2>1, <2>2, <2>3 DEF IInv
<1>6. ASSUME RegistersReplacement
     PROVE  IInv'
  <2>1. /\ record \in [Instance -> Record] /\ request \in [Request -> Place]
        /\ Managed \in Instance /\ Runtime \in Instance
        /\ {"serving", "loading"} \subseteq State
    BY <1>6, InstanceAssumption DEF IInv, TypeOK, AdmissionTypeOK, State
  <2>2. record' \in [Instance -> Record]
    BY <1>6, <2>1, RecordTypes DEF RegistersReplacement
  <2>3. request' \in [Request -> Place]
    BY <1>6, <2>1, RequestTypes DEF RegistersReplacement
  <2>4. task' \in Task
    <3>1. PICK p \in task.port : task' = [task EXCEPT !.pc = "retiring", !.slot = {p}]
      BY <1>6 DEF RegistersReplacement
    <3> QED  BY <3>1 DEF IInv, TypeOK, Task
  <2>5. coord' \in Coord
    BY <1>6 DEF IInv, TypeOK, Coord, NoCoord, RegistersReplacement
  <2>6. TypeOK'
    <3>1. registered' \in [Port -> SUBSET Instance]
      BY <1>6, <2>1 DEF IInv, TypeOK, AdmissionTypeOK, RegistersReplacement, MovedTo
    <3>2. server' \in [Port -> {"off", "open", "closing"}]
      BY <1>6 DEF IInv, TypeOK, AdmissionTypeOK, RegistersReplacement, Servers
    <3>3. task'.pc = "retiring" /\ coord'.event = coord.event
      BY <1>6 DEF IInv, TypeOK, Task, Coord, RegistersReplacement
    <3>4. coord.event # "replace"
      BY <1>6 DEF IInv, TaskShape, RegistersReplacement
    <3> QED  BY <1>6, <2>1, <2>2, <2>3, <2>4, <2>5, <3>1, <3>2, <3>3, <3>4
        DEF IInv, TypeOK, AdmissionTypeOK, RegistersReplacement
  <2>7. HandlesApart' /\ TaskShape' /\ EndShape' /\ RunsOnServer'
    BY <1>6, Distinct DEF IInv, HandlesApart, TaskShape, EndShape, RunsOnServer, Handled,
      Serves, Running, TypeOK, AdmissionTypeOK, Task, Coord, RegistersReplacement,
      MovedTo, Fresh, Uncounted, Servers, admissionVars
  <2>8. UnloadShape'
    BY <1>6, Distinct DEF IInv, HandlesApart, CandidateIsPrivate, RequestShape, TaskShape,
      RegistrationShape, UnloadShape, RouteShape, EndShape, RunsOnServer, Handled,
      Serves, Running, TypeOK, AdmissionTypeOK, Task, Coord, RegistersReplacement,
      MovedTo, Fresh, Uncounted, Servers, admissionVars
  <2>9. RouteShape'
    BY <1>6, Distinct DEF IInv, HandlesApart, CandidateIsPrivate, RequestShape, TaskShape,
      RegistrationShape, UnloadShape, RouteShape, EndShape, RunsOnServer, Handled,
      Serves, Running, TypeOK, AdmissionTypeOK, Task, Coord, RegistersReplacement,
      MovedTo, Fresh, Uncounted, Servers, admissionVars
  <2>10. CandidateIsPrivate'
    <3>1. coord'.next = coord.next
      BY <1>6 DEF IInv, TypeOK, Coord, RegistersReplacement
    <3>2. \A r \in Request : request'[r].port = request[r].port
      BY <1>6, <2>1 DEF RegistersReplacement, Uncounted, Place
    <3>3. PICK p \in task.port : registered' = MovedTo(p) /\ task' = [task EXCEPT !.pc = "retiring", !.slot = {p}]
      BY <1>6 DEF RegistersReplacement
    <3>4. task'.slot = {p} /\ p \notin coord.next
      BY <3>3 DEF IInv, TypeOK, Task, HandlesApart, Handled
    <3>5. \A q \in coord.next : registered'[q] = {} /\ q \notin route
      BY <3>3, <3>4 DEF IInv, TypeOK, Coord, CandidateIsPrivate, MovedTo
    <3> QED  BY <1>6, <3>1, <3>2, <3>4, <3>5 DEF IInv, CandidateIsPrivate, RegistersReplacement
  <2>11. RequestShape'
    BY <1>6, <2>1 DEF IInv, RequestShape, Place, Uncounted, RegistersReplacement
  <2>12. RegistrationShape'
    <3>1. PICK p \in task.port : registered' = MovedTo(p) /\ task' = [task EXCEPT !.pc = "retiring", !.slot = {p}]
      BY <1>6 DEF RegistersReplacement
    <3>2. /\ p \in Port /\ p \notin loaded.port
          /\ task'.slot = {p} /\ task'.pc = "retiring"
      BY <3>1 DEF IInv, TypeOK, Task, HandlesApart, Handled
    <3>3. \A q \in Port : registered'[q] = IF q = p THEN {Managed} ELSE IF q \in task.slot THEN {} ELSE registered[q]
      BY <3>1 DEF MovedTo
    <3>4. loaded' = loaded /\ task.pc = "cutting"
      BY <1>6 DEF RegistersReplacement
    <3> QED  BY <3>2, <3>3, <3>4, Distinct DEF IInv, RegistrationShape
  <2> QED  BY <2>1, <2>2, <2>3, <2>4, <2>5, <2>6, <2>7, <2>8, <2>9, <2>10, <2>11, <2>12 DEF IInv
<1>7. ASSUME RetiresReplaced
     PROVE  IInv'
  <2>1. TypeOK'
    BY <1>7, InstanceAssumption, ZenonT(40) DEF IInv, TypeOK, AdmissionTypeOK, Record, State, Place,
      Task, Coord, admissionVars, RetiresReplaced, Servers, NobodyAt
  <2>2. HandlesApart' /\ CandidateIsPrivate' /\ RequestShape' /\ TaskShape' /\
        RegistrationShape' /\ EndShape' /\ RunsOnServer'
    BY <1>7, Distinct DEF IInv, HandlesApart, CandidateIsPrivate, RequestShape, TaskShape,
      RegistrationShape, EndShape, RunsOnServer, Handled, Serves, Running, TypeOK,
      AdmissionTypeOK, Task, Coord, RetiresReplaced, Servers, NobodyAt, admissionVars
  <2>3. UnloadShape'
    BY <1>7, Distinct DEF IInv, HandlesApart, CandidateIsPrivate, RequestShape, TaskShape,
      RegistrationShape, UnloadShape, RouteShape, EndShape, RunsOnServer, Handled,
      Serves, Running, TypeOK, AdmissionTypeOK, Task, Coord, RetiresReplaced, Servers,
      NobodyAt, admissionVars
  <2>4. RouteShape'
    BY <1>7, Distinct DEF IInv, HandlesApart, CandidateIsPrivate, RequestShape, TaskShape,
      RegistrationShape, UnloadShape, RouteShape, EndShape, RunsOnServer, Handled,
      Serves, Running, TypeOK, AdmissionTypeOK, Task, Coord, RetiresReplaced, Servers,
      NobodyAt, admissionVars
  <2> QED  BY <2>1, <2>2, <2>3, <2>4 DEF IInv
<1>8. ASSUME FallsBack
     PROVE  IInv'
  <2>1. TypeOK'
    BY <1>8, InstanceAssumption DEF IInv, TypeOK, AdmissionTypeOK, Record, State, Place,
      Task, Coord, admissionVars, FallsBack, Servers
  <2>2. HandlesApart' /\ CandidateIsPrivate' /\ RequestShape' /\ TaskShape' /\
        RegistrationShape' /\ EndShape' /\ RunsOnServer'
    BY <1>8, Distinct DEF IInv, HandlesApart, CandidateIsPrivate, RequestShape, TaskShape,
      RegistrationShape, EndShape, RunsOnServer, Handled, Serves, Running, TypeOK,
      AdmissionTypeOK, Task, Coord, FallsBack, Servers, admissionVars
  <2>3. UnloadShape'
    BY <1>8, Distinct DEF IInv, HandlesApart, CandidateIsPrivate, RequestShape, TaskShape,
      RegistrationShape, UnloadShape, RouteShape, EndShape, RunsOnServer, Handled,
      Serves, Running, TypeOK, AdmissionTypeOK, Task, Coord, FallsBack, Servers,
      admissionVars
  <2>4. RouteShape'
    BY <1>8, Distinct DEF IInv, HandlesApart, CandidateIsPrivate, RequestShape, TaskShape,
      RegistrationShape, UnloadShape, RouteShape, EndShape, RunsOnServer, Handled,
      Serves, Running, TypeOK, AdmissionTypeOK, Task, Coord, FallsBack, Servers,
      admissionVars
  <2> QED  BY <2>1, <2>2, <2>3, <2>4 DEF IInv
<1>9. ASSUME SplitIsShut
     PROVE  IInv'
  <2>1. TypeOK'
    BY <1>9, InstanceAssumption, ZenonT(40) DEF IInv, TypeOK, AdmissionTypeOK, Record, State, Place,
      Task, Coord, admissionVars, SplitIsShut, Servers, NobodyAt
  <2>2. HandlesApart' /\ CandidateIsPrivate' /\ RequestShape' /\ TaskShape' /\
        RegistrationShape' /\ EndShape' /\ RunsOnServer'
    BY <1>9, Distinct DEF IInv, HandlesApart, CandidateIsPrivate, RequestShape, TaskShape,
      RegistrationShape, EndShape, RunsOnServer, Handled, Serves, Running, TypeOK,
      AdmissionTypeOK, Task, Coord, SplitIsShut, Servers, NobodyAt, admissionVars
  <2>3. UnloadShape'
    BY <1>9, Distinct DEF IInv, HandlesApart, CandidateIsPrivate, RequestShape, TaskShape,
      RegistrationShape, UnloadShape, RouteShape, EndShape, RunsOnServer, Handled,
      Serves, Running, TypeOK, AdmissionTypeOK, Task, Coord, SplitIsShut, Servers,
      NobodyAt, admissionVars
  <2>4. RouteShape'
    BY <1>9, Distinct DEF IInv, HandlesApart, CandidateIsPrivate, RequestShape, TaskShape,
      RegistrationShape, UnloadShape, RouteShape, EndShape, RunsOnServer, Handled,
      Serves, Running, TypeOK, AdmissionTypeOK, Task, Coord, SplitIsShut, Servers,
      NobodyAt, admissionVars
  <2> QED  BY <2>1, <2>2, <2>3, <2>4 DEF IInv
<1>10. ASSUME FallbackFails
     PROVE  IInv'
  <2>1. TypeOK'
    BY <1>10, InstanceAssumption DEF IInv, TypeOK, AdmissionTypeOK, Record, State, Place,
      Task, Coord, admissionVars, FallbackFails, Unregistered, NoCoord
  <2>2. HandlesApart' /\ CandidateIsPrivate' /\ RequestShape' /\ RunsOnServer'
    BY <1>10, Distinct DEF IInv, HandlesApart, CandidateIsPrivate, RequestShape, TaskShape,
      RegistrationShape, RouteShape, EndShape, RunsOnServer, Handled, Serves, Running,
      TypeOK, AdmissionTypeOK, Task, Coord, FallbackFails, Unregistered, NoCoord
  <2>4. TaskShape' /\ RouteShape' /\ EndShape'
    BY <1>10, Distinct DEF IInv, HandlesApart, CandidateIsPrivate, RequestShape, TaskShape,
      RegistrationShape, RouteShape, EndShape, RunsOnServer, Handled, Serves, Running,
      TypeOK, AdmissionTypeOK, Task, Coord, FallbackFails, Unregistered, NoCoord
  <2>5. RegistrationShape'
    BY <1>10, Distinct
       DEF IInv, RegistrationShape, TaskShape, TypeOK, Task, FallbackFails, Unregistered
  <2>3. UnloadShape'
    BY <1>10, Distinct DEF IInv, HandlesApart, CandidateIsPrivate, RequestShape, TaskShape,
      RegistrationShape, UnloadShape, RouteShape, EndShape, RunsOnServer, Handled,
      Serves, Running, TypeOK, AdmissionTypeOK, Task, Coord, FallbackFails,
      Unregistered, NoCoord, admissionVars
  <2> QED  BY <2>1, <2>2, <2>3, <2>4, <2>5 DEF IInv
<1>11. ASSUME Shuts
     PROVE  IInv'
  <2>1. TypeOK'
    BY <1>11, InstanceAssumption DEF IInv, TypeOK, AdmissionTypeOK, Record, State, Place,
      Task, Coord, admissionVars, Shuts, StopSignalled, Unregistered, NoCoord
  <2>2. HandlesApart' /\ CandidateIsPrivate' /\ RequestShape' /\ TaskShape' /\
        RegistrationShape' /\ RouteShape' /\ EndShape'
    BY <1>11, Distinct DEF IInv, HandlesApart, CandidateIsPrivate, RequestShape, TaskShape,
      RegistrationShape, RouteShape, EndShape, Handled, Serves, TypeOK, AdmissionTypeOK,
      Task, Coord, Shuts, StopSignalled, Unregistered, NoCoord, admissionVars
  <2>3. UnloadShape'
    BY <1>11, Distinct DEF IInv, HandlesApart, CandidateIsPrivate, RequestShape, TaskShape,
      RegistrationShape, UnloadShape, RouteShape, EndShape, RunsOnServer, Handled,
      Serves, Running, TypeOK, AdmissionTypeOK, Task, Coord, Shuts, StopSignalled,
      Unregistered, NoCoord, admissionVars
  <2>4. RunsOnServer'
    BY <1>11, Distinct DEF IInv, HandlesApart, CandidateIsPrivate, RequestShape, TaskShape,
      RegistrationShape, UnloadShape, RouteShape, EndShape, RunsOnServer, Handled,
      Serves, Running, TypeOK, AdmissionTypeOK, Task, Coord, Shuts, StopSignalled,
      Unregistered, NoCoord, admissionVars
  <2> QED  BY <2>1, <2>2, <2>3, <2>4 DEF IInv
<1>12. ASSUME Closes
     PROVE  IInv'
  <2>1. /\ record \in [Instance -> Record] /\ request \in [Request -> Place]
        /\ Managed \in Instance /\ Runtime \in Instance
        /\ {"serving", "loading"} \subseteq State
    BY <1>12, InstanceAssumption DEF IInv, TypeOK, AdmissionTypeOK, State
  <2>2. record' \in [Instance -> Record]
    BY <1>12, <2>1, RecordTypes DEF Closes
  <2>3. request' \in [Request -> Place]
    BY <1>12, <2>1, RequestTypes DEF Closes
  <2>4. TypeOK'
    BY <1>12, <2>1, <2>2, <2>3, ZenonT(40) DEF IInv, TypeOK, AdmissionTypeOK, Task, Coord, Closes,
      NobodyAt, Servers, StopSignalled
  <2>5. HandlesApart' /\ CandidateIsPrivate' /\ RequestShape' /\ TaskShape' /\
        RegistrationShape' /\ EndShape' /\ RunsOnServer'
    BY <1>12, Distinct DEF IInv, HandlesApart, CandidateIsPrivate, RequestShape, TaskShape,
      RegistrationShape, EndShape, RunsOnServer, Handled, Serves, Running, TypeOK,
      AdmissionTypeOK, Task, Coord, Closes, NobodyAt, Servers, StopSignalled, Fresh,
      Uncounted, admissionVars
  <2>6. UnloadShape'
    BY <1>12, Distinct DEF IInv, HandlesApart, CandidateIsPrivate, RequestShape, TaskShape,
      RegistrationShape, UnloadShape, RouteShape, EndShape, RunsOnServer, Handled,
      Serves, Running, TypeOK, AdmissionTypeOK, Task, Coord, Closes, NobodyAt, Servers,
      StopSignalled, Fresh, Uncounted, admissionVars
  <2>7. RouteShape'
    BY <1>12, Distinct DEF IInv, HandlesApart, CandidateIsPrivate, RequestShape, TaskShape,
      RegistrationShape, UnloadShape, RouteShape, EndShape, RunsOnServer, Handled,
      Serves, Running, TypeOK, AdmissionTypeOK, Task, Coord, Closes, NobodyAt, Servers,
      StopSignalled, Fresh, Uncounted, admissionVars
  <2> QED  BY <2>1, <2>2, <2>3, <2>4, <2>5, <2>6, <2>7 DEF IInv
<1> QED  BY <1>1, <1>2, <1>3, <1>4, <1>5, <1>6, <1>7, <1>8, <1>9, <1>10, <1>11, <1>12
    DEF TaskStep

\* So does a step of the coordinator.
LEMMA CoordKeepsInv ==
    ASSUME IInv, CoordStep \/ CoordChoice
    PROVE  IInv'
<1>1. ASSUME NEW p \in Port, LoadsCandidate(p)
     PROVE  IInv'
  <2>1. TypeOK'
    BY <1>1, InstanceAssumption, ZenonT(40) DEF IInv, TypeOK, AdmissionTypeOK, Record, State, Place,
      Task, Coord, admissionVars, LoadsCandidate, Free, Servers
  <2>2. HandlesApart' /\ CandidateIsPrivate' /\ RequestShape' /\ RegistrationShape' /\
        UnloadShape' /\ RouteShape' /\ EndShape' /\ RunsOnServer'
    BY <1>1, Distinct DEF IInv, HandlesApart, CandidateIsPrivate, RequestShape,
      RegistrationShape, UnloadShape, RouteShape, EndShape, RunsOnServer, Handled,
      Serves, Running, TypeOK, AdmissionTypeOK, Task, Coord, LoadsCandidate, Free,
      Servers, admissionVars
  <2>3. TaskShape'
    BY <1>1, Distinct DEF IInv, HandlesApart, CandidateIsPrivate, RequestShape, TaskShape,
      RegistrationShape, UnloadShape, RouteShape, EndShape, RunsOnServer, Handled,
      Serves, Running, TypeOK, AdmissionTypeOK, Task, Coord, LoadsCandidate, Free,
      Servers, admissionVars
  <2> QED  BY <2>1, <2>2, <2>3 DEF IInv
<1>2. ASSUME Drained
     PROVE  IInv'
  <2>1. TypeOK'
    BY <1>2, InstanceAssumption, ZenonT(40) DEF IInv, TypeOK, AdmissionTypeOK, Record, State, Place,
      Task, Coord, admissionVars, Drained
  <2>2. HandlesApart' /\ CandidateIsPrivate' /\ RequestShape' /\ RegistrationShape' /\
        UnloadShape' /\ RouteShape' /\ EndShape' /\ RunsOnServer'
    BY <1>2, Distinct DEF IInv, HandlesApart, CandidateIsPrivate, RequestShape,
      RegistrationShape, UnloadShape, RouteShape, EndShape, RunsOnServer, Handled,
      Serves, Running, TypeOK, AdmissionTypeOK, Task, Coord, Drained, admissionVars
  <2>3. TaskShape'
    BY <1>2, Distinct DEF IInv, HandlesApart, CandidateIsPrivate, RequestShape, TaskShape,
      RegistrationShape, UnloadShape, RouteShape, EndShape, RunsOnServer, Handled,
      Serves, Running, TypeOK, AdmissionTypeOK, Task, Coord, Drained, admissionVars
  <2> QED  BY <2>1, <2>2, <2>3 DEF IInv
<1>3. ASSUME SendsReplace
     PROVE  IInv'
  <2>1. TypeOK'
    BY <1>3, InstanceAssumption DEF IInv, TypeOK, AdmissionTypeOK, Record, State, Place,
      Task, Coord, admissionVars, SendsReplace
  <2>2. HandlesApart' /\ CandidateIsPrivate' /\ RequestShape' /\ RegistrationShape' /\
        UnloadShape' /\ RouteShape' /\ EndShape' /\ RunsOnServer'
    BY <1>3, Distinct DEF IInv, HandlesApart, CandidateIsPrivate, RequestShape,
      RegistrationShape, UnloadShape, RouteShape, EndShape, RunsOnServer, Handled,
      Serves, Running, TypeOK, AdmissionTypeOK, Task, Coord, SendsReplace, admissionVars
  <2>3. TaskShape'
    BY <1>3, Distinct DEF IInv, HandlesApart, CandidateIsPrivate, RequestShape, TaskShape,
      RegistrationShape, UnloadShape, RouteShape, EndShape, RunsOnServer, Handled,
      Serves, Running, TypeOK, AdmissionTypeOK, Task, Coord, SendsReplace, admissionVars
  <2> QED  BY <2>1, <2>2, <2>3 DEF IInv
<1>4. ASSUME CandidateFails
     PROVE  IInv'
  <2>1. /\ record \in [Instance -> Record] /\ request \in [Request -> Place]
        /\ Managed \in Instance /\ Runtime \in Instance
        /\ {"serving", "loading"} \subseteq State
    BY <1>4, InstanceAssumption DEF IInv, TypeOK, AdmissionTypeOK, State
  <2>2. record' \in [Instance -> Record]
    BY <1>4, <2>1, RecordTypes DEF CandidateFails
  <2>3. request' \in [Request -> Place]
    BY <1>4, <2>1, RequestTypes DEF CandidateFails
  <2>4. TypeOK'
    BY <1>4, <2>1, <2>2, <2>3, ZenonT(40) DEF IInv, TypeOK, AdmissionTypeOK, Task, Coord,
      CandidateFails, Servers, Listening
  <2>5. HandlesApart' /\ CandidateIsPrivate' /\ RequestShape' /\ RegistrationShape' /\
        EndShape'
    BY <1>4, Distinct DEF IInv, HandlesApart, CandidateIsPrivate, RequestShape,
      RegistrationShape, EndShape, Handled, TypeOK, AdmissionTypeOK, Task, Coord,
      CandidateFails, Servers, Fresh, Uncounted, Listening, admissionVars
  <2>6. TaskShape'
    BY <1>4, Distinct DEF IInv, HandlesApart, CandidateIsPrivate, RequestShape, TaskShape,
      RegistrationShape, UnloadShape, RouteShape, EndShape, RunsOnServer, Handled,
      Serves, Running, TypeOK, AdmissionTypeOK, Task, Coord, CandidateFails, Servers,
      Fresh, Uncounted, Listening, admissionVars
  <2>7. UnloadShape'
    BY <1>4, Distinct DEF IInv, HandlesApart, CandidateIsPrivate, RequestShape, TaskShape,
      RegistrationShape, UnloadShape, RouteShape, EndShape, RunsOnServer, Handled,
      Serves, Running, TypeOK, AdmissionTypeOK, Task, Coord, CandidateFails, Servers,
      Fresh, Uncounted, Listening, admissionVars
  <2>8. RouteShape'
    BY <1>4, Distinct DEF IInv, HandlesApart, CandidateIsPrivate, RequestShape, TaskShape,
      RegistrationShape, UnloadShape, RouteShape, EndShape, RunsOnServer, Handled,
      Serves, Running, TypeOK, AdmissionTypeOK, Task, Coord, CandidateFails, Servers,
      Fresh, Uncounted, Listening, admissionVars
  <2>9. RunsOnServer'
    BY <1>4, Distinct DEF IInv, HandlesApart, CandidateIsPrivate, RequestShape, TaskShape,
      RegistrationShape, UnloadShape, RouteShape, EndShape, RunsOnServer, Handled,
      Serves, Running, TypeOK, AdmissionTypeOK, Task, Coord, CandidateFails, Servers,
      Fresh, Uncounted, Listening, admissionVars
  <2> QED  BY <2>1, <2>2, <2>3, <2>4, <2>5, <2>6, <2>7, <2>8, <2>9 DEF IInv
<1>5. ASSUME CoordinatorIsAlone
     PROVE  IInv'
  <2>1. TypeOK'
    BY <1>5, InstanceAssumption DEF IInv, TypeOK, AdmissionTypeOK, Record, State, Place,
      Task, Coord, admissionVars, CoordinatorIsAlone, NoCoord
  <2>2. HandlesApart' /\ CandidateIsPrivate' /\ RequestShape' /\ RegistrationShape' /\
        UnloadShape' /\ RouteShape' /\ EndShape' /\ RunsOnServer'
    BY <1>5, Distinct DEF IInv, HandlesApart, CandidateIsPrivate, RequestShape,
      RegistrationShape, UnloadShape, RouteShape, EndShape, RunsOnServer, Handled,
      Serves, Running, TypeOK, AdmissionTypeOK, Task, Coord, CoordinatorIsAlone,
      NoCoord, admissionVars
  <2>3. TaskShape'
    BY <1>5, Distinct DEF IInv, HandlesApart, CandidateIsPrivate, RequestShape, TaskShape,
      RegistrationShape, UnloadShape, RouteShape, EndShape, RunsOnServer, Handled,
      Serves, Running, TypeOK, AdmissionTypeOK, Task, Coord, CoordinatorIsAlone,
      NoCoord, admissionVars
  <2> QED  BY <2>1, <2>2, <2>3 DEF IInv
<1>6. ASSUME AsksDrain
     PROVE  IInv'
  <2>1. TypeOK'
    BY <1>6, InstanceAssumption DEF IInv, TypeOK, AdmissionTypeOK, Record, State, Place,
      Task, Coord, admissionVars, AsksDrain
  <2>2. HandlesApart' /\ CandidateIsPrivate' /\ RequestShape' /\ RegistrationShape' /\
        UnloadShape' /\ RouteShape' /\ EndShape' /\ RunsOnServer'
    BY <1>6, Distinct DEF IInv, HandlesApart, CandidateIsPrivate, RequestShape,
      RegistrationShape, UnloadShape, RouteShape, EndShape, RunsOnServer, Handled,
      Serves, Running, TypeOK, AdmissionTypeOK, Task, Coord, AsksDrain, admissionVars
  <2>3. TaskShape'
    BY <1>6, Distinct DEF IInv, HandlesApart, CandidateIsPrivate, RequestShape, TaskShape,
      RegistrationShape, UnloadShape, RouteShape, EndShape, RunsOnServer, Handled,
      Serves, Running, TypeOK, AdmissionTypeOK, Task, Coord, AsksDrain, admissionVars
  <2> QED  BY <2>1, <2>2, <2>3 DEF IInv
<1>7. ASSUME AckTimesOut
     PROVE  IInv'
  <2>1. TypeOK'
    BY <1>7, InstanceAssumption DEF IInv, TypeOK, AdmissionTypeOK, Record, State, Place,
      Task, Coord, admissionVars, AckTimesOut
  <2>2. HandlesApart' /\ CandidateIsPrivate' /\ RequestShape' /\ RegistrationShape' /\
        UnloadShape' /\ RouteShape' /\ EndShape' /\ RunsOnServer'
    BY <1>7, Distinct DEF IInv, HandlesApart, CandidateIsPrivate, RequestShape,
      RegistrationShape, UnloadShape, RouteShape, EndShape, RunsOnServer, Handled,
      Serves, Running, TypeOK, AdmissionTypeOK, Task, Coord, AckTimesOut, admissionVars
  <2>3. TaskShape'
    BY <1>7, Distinct DEF IInv, HandlesApart, CandidateIsPrivate, RequestShape, TaskShape,
      RegistrationShape, UnloadShape, RouteShape, EndShape, RunsOnServer, Handled,
      Serves, Running, TypeOK, AdmissionTypeOK, Task, Coord, AckTimesOut, admissionVars
  <2> QED  BY <2>1, <2>2, <2>3 DEF IInv
<1>8. ASSUME Replans
     PROVE  IInv'
  <2>1. TypeOK'
    BY <1>8, InstanceAssumption DEF IInv, TypeOK, AdmissionTypeOK, Record, State, Place,
      Task, Coord, admissionVars, Replans
  <2>2. HandlesApart' /\ CandidateIsPrivate' /\ RequestShape' /\ RegistrationShape' /\
        UnloadShape' /\ RouteShape' /\ EndShape' /\ RunsOnServer'
    BY <1>8, Distinct DEF IInv, HandlesApart, CandidateIsPrivate, RequestShape,
      RegistrationShape, UnloadShape, RouteShape, EndShape, RunsOnServer, Handled,
      Serves, Running, TypeOK, AdmissionTypeOK, Task, Coord, Replans, admissionVars
  <2>3. TaskShape'
    BY <1>8, Distinct DEF IInv, HandlesApart, CandidateIsPrivate, RequestShape, TaskShape,
      RegistrationShape, UnloadShape, RouteShape, EndShape, RunsOnServer, Handled,
      Serves, Running, TypeOK, AdmissionTypeOK, Task, Coord, Replans, admissionVars
  <2> QED  BY <2>1, <2>2, <2>3 DEF IInv
<1>9. ASSUME LosesStages
     PROVE  IInv'
  <2>1. TypeOK'
    BY <1>9, InstanceAssumption, ZenonT(40) DEF IInv, TypeOK, AdmissionTypeOK, Record, State, Place,
      Task, Coord, admissionVars, LosesStages
  <2>2. HandlesApart' /\ CandidateIsPrivate' /\ RequestShape' /\ RegistrationShape' /\
        UnloadShape' /\ RouteShape' /\ EndShape' /\ RunsOnServer'
    BY <1>9, Distinct DEF IInv, HandlesApart, CandidateIsPrivate, RequestShape,
      RegistrationShape, UnloadShape, RouteShape, EndShape, RunsOnServer, Handled,
      Serves, Running, TypeOK, AdmissionTypeOK, Task, Coord, LosesStages, admissionVars
  <2>3. TaskShape'
    BY <1>9, Distinct DEF IInv, HandlesApart, CandidateIsPrivate, RequestShape, TaskShape,
      RegistrationShape, UnloadShape, RouteShape, EndShape, RunsOnServer, Handled,
      Serves, Running, TypeOK, AdmissionTypeOK, Task, Coord, LosesStages, admissionVars
  <2> QED  BY <2>1, <2>2, <2>3 DEF IInv
<1> QED  BY <1>1, <1>2, <1>3, <1>4, <1>5, <1>6, <1>7, <1>8, <1>9 DEF CoordStep,
    CoordChoice

\* So does a step of the run loop.
LEMMA RunLoopKeepsInv ==
    ASSUME IInv, UnloadStep \/ UnloadChoice
    PROVE  IInv'
<1>1. ASSUME RegistersRuntime
     PROVE  IInv'
  <2>1. /\ record \in [Instance -> Record] /\ request \in [Request -> Place]
        /\ Managed \in Instance /\ Runtime \in Instance
        /\ {"serving", "loading"} \subseteq State
    BY <1>1, InstanceAssumption DEF IInv, TypeOK, AdmissionTypeOK, State
  <2>2. record' \in [Instance -> Record]
    BY <1>1, <2>1, RecordTypes DEF RegistersRuntime
  <2>3. request' \in [Request -> Place]
    BY <1>1, <2>1, RequestTypes DEF RegistersRuntime
  <2>4. TypeOK'
    BY <1>1, <2>1, <2>2, <2>3 DEF IInv, TypeOK, AdmissionTypeOK, Task, Coord,
      RegistersRuntime
  <2>5. RegistrationShape' /\ UnloadShape' /\ EndShape'
    BY <1>1, Distinct DEF IInv, RegistrationShape, UnloadShape, EndShape, TypeOK,
      AdmissionTypeOK, Task, Coord, RegistersRuntime, Fresh, Uncounted, admissionVars
  <2>6. HandlesApart' /\ RouteShape' /\ RunsOnServer'
    BY <1>1, Distinct DEF IInv, HandlesApart, RouteShape, RunsOnServer, Handled, Serves,
      Running, TypeOK, AdmissionTypeOK, Task, Coord, RegistersRuntime, Fresh, Uncounted,
      admissionVars
  <2>7. TaskShape'
    BY <1>1, Distinct DEF IInv, HandlesApart, CandidateIsPrivate, RequestShape, TaskShape,
      RegistrationShape, UnloadShape, RouteShape, EndShape, RunsOnServer, Handled,
      Serves, Running, TypeOK, AdmissionTypeOK, Task, Coord, RegistersRuntime, Fresh,
      Uncounted, admissionVars
  <2>8. CandidateIsPrivate'
    <3>1. \A r \in Request : request'[r].port = request[r].port
      BY <1>1, <2>1 DEF RegistersRuntime, Uncounted, Place
    <3>2. \A q \in coord.next : registered'[q] = registered[q]
      BY <1>1 DEF IInv, TypeOK, Coord, HandlesApart, RegistersRuntime
    <3> QED  BY <1>1, <3>1, <3>2 DEF IInv, CandidateIsPrivate, RegistersRuntime
  <2>9. RequestShape'
    BY <1>1, InstanceAssumption, Distinct DEF IInv, HandlesApart, CandidateIsPrivate,
      RequestShape, TaskShape, RegistrationShape, UnloadShape, RouteShape, EndShape,
      RunsOnServer, Handled, Serves, Running, TypeOK, AdmissionTypeOK, Record, State,
      Place, Task, Coord, RegistersRuntime, Fresh, Uncounted, admissionVars
  <2> QED  BY <2>1, <2>2, <2>3, <2>4, <2>5, <2>6, <2>7, <2>8, <2>9 DEF IInv
<1>2. ASSUME ShutsRuntime
     PROVE  IInv'
  <2>1. TypeOK'
    BY <1>2, InstanceAssumption, SMTT(30) DEF IInv, TypeOK, AdmissionTypeOK, Record, State, Place,
      Task, Coord, admissionVars, ShutsRuntime, Unloading, Moved, Successors,
      Unregistered, Servers
  <2>2. HandlesApart' /\ CandidateIsPrivate' /\ RequestShape' /\ RegistrationShape' /\
        UnloadShape' /\ EndShape' /\ RunsOnServer'
    BY <1>2, Distinct, SMTT(30) DEF IInv, HandlesApart, CandidateIsPrivate, RequestShape,
      RegistrationShape, UnloadShape, EndShape, RunsOnServer, Handled, Running, TypeOK,
      AdmissionTypeOK, Task, Coord, ShutsRuntime, Unloading, Moved, Successors,
      Unregistered, Servers, admissionVars
  <2>3. TaskShape'
    BY <1>2, Distinct DEF IInv, HandlesApart, CandidateIsPrivate, RequestShape, TaskShape,
      RegistrationShape, UnloadShape, RouteShape, EndShape, RunsOnServer, Handled,
      Serves, Running, TypeOK, AdmissionTypeOK, Task, Coord, ShutsRuntime, Unloading,
      Moved, Successors, Unregistered, Servers, admissionVars
  <2>4. RouteShape'
    BY <1>2, Distinct DEF IInv, HandlesApart, CandidateIsPrivate, RequestShape, TaskShape,
      RegistrationShape, UnloadShape, RouteShape, EndShape, RunsOnServer, Handled,
      Serves, Running, TypeOK, AdmissionTypeOK, Task, Coord, ShutsRuntime, Unloading,
      Moved, Successors, Unregistered, Servers, admissionVars
  <2> QED  BY <2>1, <2>2, <2>3, <2>4 DEF IInv
<1>3. ASSUME ClosesRuntime
     PROVE  IInv'
  <2>1. TypeOK'
    BY <1>3, InstanceAssumption DEF IInv, TypeOK, AdmissionTypeOK, Record, State, Place,
      Task, Coord, admissionVars, ClosesRuntime, NobodyAt, Servers, Moved, Successors,
      NoUnload
  <2>2. HandlesApart' /\ CandidateIsPrivate' /\ RequestShape' /\ UnloadShape' /\
        EndShape' /\ RunsOnServer'
    BY <1>3, Distinct DEF IInv, HandlesApart, CandidateIsPrivate, RequestShape,
      UnloadShape, EndShape, RunsOnServer, Handled, Running, TypeOK, AdmissionTypeOK,
      Task, Coord, ClosesRuntime, NobodyAt, Servers, Moved, Successors, NoUnload,
      admissionVars
  <2>3. TaskShape'
    BY <1>3, Distinct DEF IInv, HandlesApart, CandidateIsPrivate, RequestShape, TaskShape,
      RegistrationShape, UnloadShape, RouteShape, EndShape, RunsOnServer, Handled,
      Serves, Running, TypeOK, AdmissionTypeOK, Task, Coord, ClosesRuntime, NobodyAt,
      Servers, Moved, Successors, NoUnload, admissionVars
  <2>4. RegistrationShape'
    <3>1. \A q \in loaded.port : registered[q] = {}
      BY <1>3 DEF IInv, UnloadShape, ClosesRuntime
    <3>2. \A q \in Port : registered[q] # {Runtime}
      BY <3>1, Distinct DEF IInv, RegistrationShape
    <3>3. loaded'.port = {} /\ registered' = registered /\ task' = task
      BY <1>3 DEF ClosesRuntime
    <3> QED  BY <3>2, <3>3 DEF IInv, RegistrationShape
  <2>5. RouteShape'
    BY <1>3, Distinct DEF IInv, HandlesApart, CandidateIsPrivate, RequestShape, TaskShape,
      RegistrationShape, UnloadShape, RouteShape, EndShape, RunsOnServer, Handled,
      Serves, Running, TypeOK, AdmissionTypeOK, Task, Coord, ClosesRuntime, NobodyAt,
      Servers, Moved, Successors, NoUnload, admissionVars
  <2> QED  BY <2>1, <2>2, <2>3, <2>4, <2>5 DEF IInv
<1>4. ASSUME StopsManaged
     PROVE  IInv'
  <2>1. TypeOK'
    BY <1>4, InstanceAssumption DEF IInv, TypeOK, AdmissionTypeOK, Record, State, Place,
      Task, Coord, admissionVars, StopsManaged, Unloading, Moved, Successors
  <2>2. HandlesApart' /\ CandidateIsPrivate' /\ RequestShape' /\ RegistrationShape' /\
        UnloadShape' /\ RouteShape' /\ EndShape' /\ RunsOnServer'
    BY <1>4, Distinct DEF IInv, HandlesApart, CandidateIsPrivate, RequestShape,
      RegistrationShape, UnloadShape, RouteShape, EndShape, RunsOnServer, Handled,
      Serves, Running, TypeOK, AdmissionTypeOK, Task, Coord, StopsManaged, Unloading,
      Moved, Successors, admissionVars
  <2>3. TaskShape'
    BY <1>4, Distinct DEF IInv, HandlesApart, CandidateIsPrivate, RequestShape, TaskShape,
      RegistrationShape, UnloadShape, RouteShape, EndShape, RunsOnServer, Handled,
      Serves, Running, TypeOK, AdmissionTypeOK, Task, Coord, StopsManaged, Unloading,
      Moved, Successors, admissionVars
  <2> QED  BY <2>1, <2>2, <2>3 DEF IInv
<1>5. ASSUME AbortsManaged
     PROVE  IInv'
  <2>1. /\ record \in [Instance -> Record] /\ request \in [Request -> Place]
        /\ Managed \in Instance /\ Runtime \in Instance
        /\ {"serving", "loading"} \subseteq State
    BY <1>5, InstanceAssumption DEF IInv, TypeOK, AdmissionTypeOK, State
  <2>2. record' \in [Instance -> Record]
    BY <1>5, <2>1, RecordTypes DEF AbortsManaged
  <2>3. request' \in [Request -> Place]
    BY <1>5, <2>1, RequestTypes DEF IInv, TypeOK, AdmissionTypeOK, Task, Coord, Place,
      Nowhere, AbortsManaged
  <2>4. TypeOK'
    BY <1>5, <2>1, <2>2, <2>3 DEF IInv, TypeOK, AdmissionTypeOK, Task, Coord,
      AbortsManaged, Servers
  <2>5. HandlesApart' /\ CandidateIsPrivate' /\ RequestShape' /\ RegistrationShape' /\
        EndShape' /\ RunsOnServer'
    BY <1>5, Distinct DEF IInv, HandlesApart, CandidateIsPrivate, RequestShape,
      RegistrationShape, EndShape, RunsOnServer, Handled, Running, TypeOK,
      AdmissionTypeOK, Task, Coord, AbortsManaged, Servers, CutAt, admissionVars
  <2>6. TaskShape'
    BY <1>5, Distinct DEF IInv, HandlesApart, CandidateIsPrivate, RequestShape, TaskShape,
      RegistrationShape, UnloadShape, RouteShape, EndShape, RunsOnServer, Handled,
      Serves, Running, TypeOK, AdmissionTypeOK, Task, Coord, AbortsManaged, Servers,
      CutAt, admissionVars
  <2>7. UnloadShape'
    BY <1>5, Distinct DEF IInv, HandlesApart, CandidateIsPrivate, RequestShape, TaskShape,
      RegistrationShape, UnloadShape, RouteShape, EndShape, RunsOnServer, Handled,
      Serves, Running, TypeOK, AdmissionTypeOK, Task, Coord, AbortsManaged, Servers,
      CutAt, admissionVars
  <2>8. RouteShape'
    BY <1>5, Distinct DEF IInv, HandlesApart, CandidateIsPrivate, RequestShape, TaskShape,
      RegistrationShape, UnloadShape, RouteShape, EndShape, RunsOnServer, Handled,
      Serves, Running, TypeOK, AdmissionTypeOK, Task, Coord, AbortsManaged, Servers,
      CutAt, admissionVars
  <2> QED  BY <2>1, <2>2, <2>3, <2>4, <2>5, <2>6, <2>7, <2>8 DEF IInv
<1>6. ASSUME UnloadedManaged
     PROVE  IInv'
  <2>1. TypeOK'
    BY <1>6, InstanceAssumption DEF IInv, TypeOK, AdmissionTypeOK, Record, State, Place,
      Task, Coord, admissionVars, UnloadedManaged, Unregistered, Moved, Successors,
      NoUnload
  <2>2. HandlesApart' /\ CandidateIsPrivate' /\ RequestShape' /\ UnloadShape' /\
        RouteShape' /\ EndShape' /\ RunsOnServer'
    BY <1>6, Distinct DEF IInv, HandlesApart, CandidateIsPrivate, RequestShape,
      UnloadShape, RouteShape, EndShape, RunsOnServer, Handled, Serves, Running, TypeOK,
      AdmissionTypeOK, Task, Coord, UnloadedManaged, Unregistered, Moved, Successors,
      NoUnload, admissionVars
  <2>3. TaskShape'
    BY <1>6, Distinct DEF IInv, HandlesApart, CandidateIsPrivate, RequestShape, TaskShape,
      RegistrationShape, UnloadShape, RouteShape, EndShape, RunsOnServer, Handled,
      Serves, Running, TypeOK, AdmissionTypeOK, Task, Coord, UnloadedManaged,
      Unregistered, Moved, Successors, NoUnload, admissionVars
  <2>4. RegistrationShape'
    BY <1>6, Distinct DEF IInv, HandlesApart, CandidateIsPrivate, RequestShape, TaskShape,
      RegistrationShape, UnloadShape, RouteShape, EndShape, RunsOnServer, Handled,
      Serves, Running, TypeOK, AdmissionTypeOK, Task, Coord, UnloadedManaged,
      Unregistered, Moved, Successors, NoUnload, admissionVars
  <2> QED  BY <2>1, <2>2, <2>3, <2>4 DEF IInv
<1>7. ASSUME NEW p \in Port, LoadsRuntime(p)
     PROVE  IInv'
  <2>1. TypeOK'
    BY <1>7, InstanceAssumption DEF IInv, TypeOK, AdmissionTypeOK, Record, State, Place,
      Task, Coord, admissionVars, LoadsRuntime, Free, Servers
  <2>2. HandlesApart' /\ RequestShape' /\ UnloadShape' /\ EndShape' /\ RunsOnServer'
    BY <1>7, Distinct DEF IInv, HandlesApart, RequestShape, UnloadShape, EndShape,
      RunsOnServer, Handled, Running, TypeOK, AdmissionTypeOK, Task, Coord,
      LoadsRuntime, Free, Servers, admissionVars
  <2>3. CandidateIsPrivate'
    BY <1>7, Distinct DEF IInv, HandlesApart, CandidateIsPrivate, RequestShape, TaskShape,
      RegistrationShape, UnloadShape, RouteShape, EndShape, RunsOnServer, Handled,
      Serves, Running, TypeOK, AdmissionTypeOK, Task, Coord, LoadsRuntime, Free,
      Servers, admissionVars
  <2>4. TaskShape'
    BY <1>7, Distinct DEF IInv, HandlesApart, CandidateIsPrivate, RequestShape, TaskShape,
      RegistrationShape, UnloadShape, RouteShape, EndShape, RunsOnServer, Handled,
      Serves, Running, TypeOK, AdmissionTypeOK, Task, Coord, LoadsRuntime, Free,
      Servers, admissionVars
  <2>5. RegistrationShape'
    BY <1>7, Distinct DEF IInv, HandlesApart, CandidateIsPrivate, RequestShape, TaskShape,
      RegistrationShape, UnloadShape, RouteShape, EndShape, RunsOnServer, Handled,
      Serves, Running, TypeOK, AdmissionTypeOK, Task, Coord, LoadsRuntime, Free,
      Servers, admissionVars
  <2>6. RouteShape'
    BY <1>7, Distinct DEF IInv, HandlesApart, CandidateIsPrivate, RequestShape, TaskShape,
      RegistrationShape, UnloadShape, RouteShape, EndShape, RunsOnServer, Handled,
      Serves, Running, TypeOK, AdmissionTypeOK, Task, Coord, LoadsRuntime, Free,
      Servers, admissionVars
  <2> QED  BY <2>1, <2>2, <2>3, <2>4, <2>5, <2>6 DEF IInv
<1>8. ASSUME NEW force \in BOOLEAN, UnloadsRuntime(force)
     PROVE  IInv'
  <2>1. /\ record \in [Instance -> Record] /\ request \in [Request -> Place]
        /\ Managed \in Instance /\ Runtime \in Instance
        /\ {"serving", "loading"} \subseteq State
    BY <1>8, InstanceAssumption DEF IInv, TypeOK, AdmissionTypeOK, State
  <2>2. record' \in [Instance -> Record]
    BY <1>8, <2>1, RecordTypes DEF IInv, TypeOK, AdmissionTypeOK, Limit, UnloadsRuntime
  <2>3. request' \in [Request -> Place]
    BY <1>8, <2>1, RequestTypes DEF UnloadsRuntime
  <2>4. TypeOK'
    <3>1. unload' = [pc |-> "waiting", of |-> {Runtime}, active |-> {}]
      BY <1>8 DEF UnloadsRuntime, NoUnload
    <3> QED  BY <1>8, <2>1, <2>2, <2>3, <3>1 DEF IInv, TypeOK, AdmissionTypeOK, UnloadsRuntime
  <2>5. HandlesApart' /\ CandidateIsPrivate' /\ RequestShape' /\ RegistrationShape' /\
        UnloadShape' /\ RouteShape' /\ EndShape' /\ RunsOnServer'
    BY <1>8, Distinct DEF IInv, HandlesApart, CandidateIsPrivate, RequestShape,
      RegistrationShape, UnloadShape, RouteShape, EndShape, RunsOnServer, Handled,
      Serves, Running, TypeOK, AdmissionTypeOK, Task, Coord, UnloadsRuntime,
      RunLoopFree, NoUnload, MarkDraining, Sooner, Limit, admissionVars
  <2>6. TaskShape'
    BY <1>8, Distinct DEF IInv, HandlesApart, CandidateIsPrivate, RequestShape, TaskShape,
      RegistrationShape, UnloadShape, RouteShape, EndShape, RunsOnServer, Handled,
      Serves, Running, TypeOK, AdmissionTypeOK, Task, Coord, UnloadsRuntime,
      RunLoopFree, NoUnload, MarkDraining, Sooner, Limit, admissionVars
  <2> QED  BY <2>1, <2>2, <2>3, <2>4, <2>5, <2>6 DEF IInv
<1>9. ASSUME NEW force \in BOOLEAN, UnloadsManaged(force)
     PROVE  IInv'
  <2>1. TypeOK'
    BY <1>9, InstanceAssumption DEF IInv, TypeOK, AdmissionTypeOK, Record, State, Place,
      Task, Coord, admissionVars, UnloadsManaged, RunLoopFree, MarkDraining, Sooner,
      Limit
  <2>2. RegistrationShape' /\ EndShape'
    BY <1>9, Distinct DEF IInv, RegistrationShape, EndShape, TypeOK, AdmissionTypeOK,
      Task, Coord, UnloadsManaged, RunLoopFree, MarkDraining, Sooner, Limit,
      admissionVars
  <2>3. HandlesApart'
    BY <1>9, Distinct DEF IInv, HandlesApart, Handled, TypeOK, AdmissionTypeOK, Task,
      Coord, UnloadsManaged, RunLoopFree, MarkDraining, Sooner, Limit, admissionVars
  <2>4. CandidateIsPrivate'
    BY <1>9, Distinct DEF IInv, CandidateIsPrivate, TypeOK, AdmissionTypeOK, Task, Coord,
      UnloadsManaged, RunLoopFree, MarkDraining, Sooner, Limit, admissionVars
  <2>5. RequestShape'
    BY <1>9, Distinct DEF IInv, RequestShape, TypeOK, AdmissionTypeOK, Task, Coord,
      UnloadsManaged, RunLoopFree, MarkDraining, Sooner, Limit, admissionVars
  <2>6. RouteShape'
    BY <1>9, Distinct DEF IInv, RouteShape, Handled, Serves, TypeOK, AdmissionTypeOK,
      Task, Coord, UnloadsManaged, RunLoopFree, MarkDraining, Sooner, Limit,
      admissionVars
  <2>7. RunsOnServer'
    BY <1>9, Distinct DEF IInv, RunsOnServer, Running, TypeOK, AdmissionTypeOK, Task,
      Coord, UnloadsManaged, RunLoopFree, MarkDraining, Sooner, Limit, admissionVars
  <2>8. TaskShape'
    BY <1>9, Distinct DEF IInv, HandlesApart, CandidateIsPrivate, RequestShape, TaskShape,
      RegistrationShape, UnloadShape, RouteShape, EndShape, RunsOnServer, Handled,
      Serves, Running, TypeOK, AdmissionTypeOK, Task, Coord, UnloadsManaged,
      RunLoopFree, MarkDraining, Sooner, Limit, admissionVars
  <2>9. UnloadShape'
    BY <1>9, Distinct DEF IInv, HandlesApart, CandidateIsPrivate, RequestShape, TaskShape,
      RegistrationShape, UnloadShape, RouteShape, EndShape, RunsOnServer, Handled,
      Serves, Running, TypeOK, AdmissionTypeOK, Task, Coord, UnloadsManaged,
      RunLoopFree, MarkDraining, Sooner, Limit, admissionVars
  <2> QED  BY <2>1, <2>2, <2>3, <2>4, <2>5, <2>6, <2>7, <2>8, <2>9 DEF IInv
<1> QED  BY <1>1, <1>2, <1>3, <1>4, <1>5, <1>6, <1>7, <1>8, <1>9 DEF UnloadStep,
    UnloadChoice

\* So does a step of a request, or of time.
LEMMA RequestKeepsInv ==
    ASSUME IInv,
           (\E r \in Request : RequestStep(r)) \/ (\E i \in Instance : TimePasses(i))
    PROVE  IInv'
<1>1. ASSUME NEW r \in Request, NEW p \in Port, IsRouted(r, p),
            UNCHANGED <<task, coord, loaded, listed, unload>>
     PROVE  IInv'
  <2>1. /\ record \in [Instance -> Record] /\ request \in [Request -> Place]
        /\ Managed \in Instance /\ Runtime \in Instance
        /\ {"serving", "loading"} \subseteq State
    BY <1>1, InstanceAssumption DEF IInv, TypeOK, AdmissionTypeOK, State
  <2>2. record' \in [Instance -> Record]
    BY <1>1, <2>1, RecordTypes DEF IsRouted
  <2>3. request' \in [Request -> Place]
    BY <1>1, <2>1, RequestTypes, ZenonT(40) DEF IInv, TypeOK, AdmissionTypeOK, Task, Coord, Place,
      Nowhere, IsRouted
  <2>4. TypeOK'
    BY <1>1, <2>1, <2>2, <2>3 DEF IInv, TypeOK, AdmissionTypeOK, Task, Coord, IsRouted,
      Nowhere
  <2>5. HandlesApart' /\ CandidateIsPrivate' /\ RequestShape' /\ RegistrationShape' /\
        UnloadShape' /\ RouteShape' /\ EndShape' /\ RunsOnServer'
    BY <1>1, Distinct DEF IInv, HandlesApart, CandidateIsPrivate, RequestShape,
      RegistrationShape, UnloadShape, RouteShape, EndShape, RunsOnServer, Handled,
      Serves, Running, TypeOK, AdmissionTypeOK, Task, Coord, IsRouted, Nowhere,
      admissionVars
  <2>6. TaskShape'
    BY <1>1, Distinct DEF IInv, HandlesApart, CandidateIsPrivate, RequestShape, TaskShape,
      RegistrationShape, UnloadShape, RouteShape, EndShape, RunsOnServer, Handled,
      Serves, Running, TypeOK, AdmissionTypeOK, Task, Coord, IsRouted, Nowhere,
      admissionVars
  <2> QED  BY <2>1, <2>2, <2>3, <2>4, <2>5, <2>6 DEF IInv
<1>2. ASSUME NEW r \in Request, IsAdmitted(r),
            UNCHANGED <<task, coord, loaded, listed, unload>>
     PROVE  IInv'
  <2>1. /\ record \in [Instance -> Record] /\ request \in [Request -> Place]
        /\ Managed \in Instance /\ Runtime \in Instance
        /\ {"serving", "loading"} \subseteq State
    BY <1>2, InstanceAssumption DEF IInv, TypeOK, AdmissionTypeOK, State
  <2>2. record' \in [Instance -> Record]
    BY <1>2, <2>1, RecordTypes DEF IsAdmitted
  <2>3. request' \in [Request -> Place]
    <3>1. PICK p \in request[r].port :
            request' = IF \A i \in registered[p] : record[i].state = "serving"
                       THEN [request EXCEPT ![r].phase = "admitted", ![r].count = registered[p]]
                       ELSE [request EXCEPT ![r] = Nowhere]
      BY <1>2 DEF IsAdmitted
    <3>2. registered[p] \in SUBSET Instance /\ request[r] \in Place
      BY <2>1 DEF IInv, TypeOK, AdmissionTypeOK, Place
    <3>3. [request[r] EXCEPT !.phase = "admitted", !.count = registered[p]] \in Place /\ Nowhere \in Place
      BY <3>2 DEF Place, Nowhere
    <3> QED  BY <2>1, <3>1, <3>3
  <2>4. TypeOK'
    BY <1>2, <2>1, <2>2, <2>3 DEF IInv, TypeOK, AdmissionTypeOK, Task, Coord, IsAdmitted,
      Nowhere
  <2>5. HandlesApart' /\ CandidateIsPrivate' /\ RequestShape' /\ RegistrationShape' /\
        UnloadShape' /\ RouteShape' /\ EndShape' /\ RunsOnServer'
    BY <1>2, Distinct DEF IInv, HandlesApart, CandidateIsPrivate, RequestShape,
      RegistrationShape, UnloadShape, RouteShape, EndShape, RunsOnServer, Handled,
      Serves, Running, TypeOK, AdmissionTypeOK, Task, Coord, IsAdmitted, Nowhere,
      admissionVars
  <2>6. TaskShape'
    BY <1>2, Distinct DEF IInv, HandlesApart, CandidateIsPrivate, RequestShape, TaskShape,
      RegistrationShape, UnloadShape, RouteShape, EndShape, RunsOnServer, Handled,
      Serves, Running, TypeOK, AdmissionTypeOK, Task, Coord, IsAdmitted, Nowhere,
      admissionVars
  <2> QED  BY <2>1, <2>2, <2>3, <2>4, <2>5, <2>6 DEF IInv
<1>3. ASSUME NEW r \in Request, Connects(r),
            UNCHANGED <<task, coord, loaded, listed, unload>>
     PROVE  IInv'
  <2>1. TypeOK'
    BY <1>3, InstanceAssumption DEF IInv, TypeOK, AdmissionTypeOK, Record, State, Place,
      Task, Coord, admissionVars, Connects, Nowhere
  <2>2. HandlesApart' /\ CandidateIsPrivate' /\ RequestShape' /\ RegistrationShape' /\
        UnloadShape' /\ RouteShape' /\ EndShape'
    BY <1>3, Distinct DEF IInv, HandlesApart, CandidateIsPrivate, RequestShape,
      RegistrationShape, UnloadShape, RouteShape, EndShape, Handled, Serves, TypeOK,
      AdmissionTypeOK, Task, Coord, Connects, Nowhere, admissionVars
  <2>3. TaskShape'
    BY <1>3, Distinct DEF IInv, HandlesApart, CandidateIsPrivate, RequestShape, TaskShape,
      RegistrationShape, UnloadShape, RouteShape, EndShape, RunsOnServer, Handled,
      Serves, Running, TypeOK, AdmissionTypeOK, Task, Coord, Connects, Nowhere,
      admissionVars
  <2>4. RunsOnServer'
    BY <1>3, Distinct DEF IInv, HandlesApart, CandidateIsPrivate, RequestShape, TaskShape,
      RegistrationShape, UnloadShape, RouteShape, EndShape, RunsOnServer, Handled,
      Serves, Running, TypeOK, AdmissionTypeOK, Task, Coord, Connects, Nowhere,
      admissionVars
  <2> QED  BY <2>1, <2>2, <2>3, <2>4 DEF IInv
<1>4. ASSUME NEW r \in Request, IsAnswered(r),
            UNCHANGED <<task, coord, loaded, listed, unload>>
     PROVE  IInv'
  <2>1. TypeOK'
    BY <1>4, InstanceAssumption DEF IInv, TypeOK, AdmissionTypeOK, Record, State, Place,
      Task, Coord, admissionVars, IsAnswered, Nowhere
  <2>2. HandlesApart' /\ CandidateIsPrivate' /\ RequestShape' /\ RegistrationShape' /\
        UnloadShape' /\ RouteShape' /\ EndShape' /\ RunsOnServer'
    BY <1>4, Distinct DEF IInv, HandlesApart, CandidateIsPrivate, RequestShape,
      RegistrationShape, UnloadShape, RouteShape, EndShape, RunsOnServer, Handled,
      Serves, Running, TypeOK, AdmissionTypeOK, Task, Coord, IsAnswered, Nowhere,
      admissionVars
  <2>3. TaskShape'
    BY <1>4, Distinct DEF IInv, HandlesApart, CandidateIsPrivate, RequestShape, TaskShape,
      RegistrationShape, UnloadShape, RouteShape, EndShape, RunsOnServer, Handled,
      Serves, Running, TypeOK, AdmissionTypeOK, Task, Coord, IsAnswered, Nowhere,
      admissionVars
  <2> QED  BY <2>1, <2>2, <2>3 DEF IInv
<1>5. ASSUME NEW r \in Request, IsReported(r),
            UNCHANGED <<task, coord, loaded, listed, unload>>
     PROVE  IInv'
  <2>1. TypeOK'
    BY <1>5, InstanceAssumption DEF IInv, TypeOK, AdmissionTypeOK, Record, State, Place,
      Task, Coord, admissionVars, IsReported, Nowhere
  <2>2. HandlesApart' /\ CandidateIsPrivate' /\ RequestShape' /\ RegistrationShape' /\
        UnloadShape' /\ RouteShape' /\ EndShape' /\ RunsOnServer'
    BY <1>5, Distinct DEF IInv, HandlesApart, CandidateIsPrivate, RequestShape,
      RegistrationShape, UnloadShape, RouteShape, EndShape, RunsOnServer, Handled,
      Serves, Running, TypeOK, AdmissionTypeOK, Task, Coord, IsReported, Nowhere,
      admissionVars
  <2>3. TaskShape'
    BY <1>5, Distinct DEF IInv, HandlesApart, CandidateIsPrivate, RequestShape, TaskShape,
      RegistrationShape, UnloadShape, RouteShape, EndShape, RunsOnServer, Handled,
      Serves, Running, TypeOK, AdmissionTypeOK, Task, Coord, IsReported, Nowhere,
      admissionVars
  <2> QED  BY <2>1, <2>2, <2>3 DEF IInv
<1>6. ASSUME NEW i \in Instance, DeadlinePasses(i),
            UNCHANGED <<task, coord, loaded, listed, unload>>
     PROVE  IInv'
  <2>1. TypeOK'
    BY <1>6, InstanceAssumption DEF IInv, TypeOK, AdmissionTypeOK, Record, State, Place,
      Task, Coord, admissionVars, DeadlinePasses
  <2>2. HandlesApart' /\ CandidateIsPrivate' /\ RequestShape' /\ RegistrationShape' /\
        UnloadShape' /\ RouteShape' /\ EndShape' /\ RunsOnServer'
    BY <1>6, Distinct DEF IInv, HandlesApart, CandidateIsPrivate, RequestShape,
      RegistrationShape, UnloadShape, RouteShape, EndShape, RunsOnServer, Handled,
      Serves, Running, TypeOK, AdmissionTypeOK, Task, Coord, DeadlinePasses,
      admissionVars
  <2>3. TaskShape'
    BY <1>6, Distinct DEF IInv, HandlesApart, CandidateIsPrivate, RequestShape, TaskShape,
      RegistrationShape, UnloadShape, RouteShape, EndShape, RunsOnServer, Handled,
      Serves, Running, TypeOK, AdmissionTypeOK, Task, Coord, DeadlinePasses,
      admissionVars
  <2> QED  BY <2>1, <2>2, <2>3 DEF IInv
<1> QED  BY <1>1, <1>2, <1>3, <1>4, <1>5, <1>6 DEF RequestStep, TimePasses

-------------------------------------------------------------------------------
(* Theorems *)

\* It holds of a node that starts.
LEMMA InitInv == Init => IInv
<1> QED  BY Distinct, InstanceAssumption
            DEF Init, IInv, TypeOK, AdmissionTypeOK, Record, State, Place,
    Task, Coord, NoCoord, NoUnload, Nowhere, Fresh, HandlesApart, Handled, CandidateIsPrivate,
    RequestShape, TaskShape, Serves, RegistrationShape, UnloadShape, RouteShape, EndShape,
    RunsOnServer, Running

\* Nothing changes, and so it stays.
LEMMA StutterInv == IInv /\ UNCHANGED vars => IInv'
<1> QED  BY DEF vars, admissionVars, IInv, TypeOK, AdmissionTypeOK, HandlesApart, Handled,
    CandidateIsPrivate, RequestShape, TaskShape, Serves, RegistrationShape, UnloadShape,
    RouteShape, EndShape, RunsOnServer, Running

\* It is an invariant of the node: every kind of step keeps it.
LEMMA SpecInv == Spec => []IInv
<1>1. IInv /\ [Next]_vars => IInv'
  BY TaskKeepsInv, CoordKeepsInv, RunLoopKeepsInv, RequestKeepsInv, StutterInv DEF Next
<1> QED  BY InitInv, <1>1, PTL DEF Spec

\* Types: the state of a node's instances is what the module says it is.
THEOREM InstancesTyped == Spec => []TypeOK
<1>1. IInv => TypeOK
  BY DEF IInv
<1> QED  BY SpecInv, <1>1, PTL

\* A server that is off has nobody on it: every way an instance goes down waits
\* for its requests or cuts them.
THEOREM RequestsRunOnServers == Spec => []RunsOnServer
<1>1. IInv => RunsOnServer
  BY DEF IInv
<1> QED  BY SpecInv, <1>1, PTL

\* A routed port is open, and registered for the instance that serves it.
THEOREM RoutesAreGuarded == Spec => []RouteIsGuarded
<1>1. IInv => RouteIsGuarded
  <2> SUFFICES ASSUME IInv, NEW p \in route, task.pc # "aborted"
               PROVE  /\ server[p] = "open"
                      /\ Owner(p) # {}
                      /\ \/ registered[p] = Owner(p)
                         \/ task.pc = "cutting" /\ p \in task.port
                         \/ loaded.pc = "announced" /\ p \in loaded.port
    BY DEF RouteIsGuarded
  <2>1. CASE p \in loaded.port
    <3>1. Owner(p) = {Runtime}
      BY <2>1, InstanceAssumption DEF Owner, Ports, IInv, HandlesApart, Handled
    <3> QED  BY <2>1, <3>1, Distinct DEF IInv, RouteShape, UnloadShape, TypeOK
  <2>2. CASE p \in task.port /\ Serves
    <3>1. Owner(p) = {Managed}
      BY <2>2, InstanceAssumption DEF Owner, Ports, IInv, HandlesApart, Handled
    <3> QED  BY <2>2, <3>1, Distinct DEF IInv, RouteShape, RegistrationShape, TaskShape, Serves
  <2> QED  BY <2>1, <2>2 DEF IInv, RouteShape
<1> QED  BY SpecInv, <1>1, PTL

\* A managed model whose task ended is not routed to, registered or advertised.
THEOREM EndIsClean == Spec => []EndLeavesNothing
<1>1. IInv => EndLeavesNothing
  <2> SUFFICES ASSUME IInv, task.pc = "ended" PROVE EndLeavesNothing
    BY DEF EndLeavesNothing
  <2>1. task.port = {} /\ task.old = {} /\ task.slot = {}
    BY DEF IInv, TaskShape, Serves, TypeOK, Task
  <2>2. \A p \in Port : Owner(p) # {Managed}
    BY <2>1, InstanceAssumption DEF Owner, Ports
  <2>3. \A p \in route : Owner(p) = {Runtime}
    BY <2>1, InstanceAssumption DEF Owner, Ports, IInv, RouteShape
  <2> QED  BY <2>1, <2>2, <2>3 DEF EndLeavesNothing, IInv, EndShape, RegistrationShape
<1> QED  BY SpecInv, <1>1, PTL

-------------------------------------------------------------------------------
(* The drain for a replacement                                             *)

\* A drain that was begun, and what it has made of the record and its requests.
DrainShape ==
    /\ record[Managed].deadline # "none" =>
        record[Managed].state \in {"draining", "unloading", "stopped", "failed"}
    /\ record[Managed].deadline = "ahead" /\ record[Managed].state # "draining" =>
        InFlight(Managed) = {}
    /\ coord.drained => coord.pc \in {"loading", "sending", "publishing"}
    /\ coord.drained \/ coord.pc = "draining" => record[Managed].deadline # "none"
    /\ task.pc = "launching" => record[Managed].deadline = "none"
    /\ task.pc \in {"launching", "closing"} => coord.pc = "off" /\ ~coord.drained
    /\ DrainHolds

\* Every step keeps it: a record that drains, or drained, lets nobody in, and only
\* what ends the coordinator's wait makes it a fresh one.
LEMMA DrainKeeps ==
    ASSUME IInv, DrainShape, [Next]_vars
    PROVE  DrainShape'
<1>0. /\ record \in [Instance -> Record] /\ request \in [Request -> Place]
      /\ task \in Task /\ coord \in Coord
      /\ Managed \in Instance /\ Runtime \in Instance /\ Managed # Runtime
  BY InstanceAssumption DEF IInv, TypeOK, AdmissionTypeOK
<1> USE DEF DrainShape, DrainHolds, InFlight, Record, Place, Task, Coord, NoCoord, Fresh,
    Moved, Successors, Uncounted, admissionVars
<1>1. ASSUME NEW p \in Port, Launches(p)
     PROVE  DrainShape'
  BY <1>0, <1>1 DEF Launches, IInv, TaskShape
<1>2. ASSUME NEW p \in Port, FallbackRegisters(p)
     PROVE  DrainShape'
  BY <1>0, <1>2 DEF FallbackRegisters
<1>3. ASSUME LaunchFails
     PROVE  DrainShape'
  BY <1>0, <1>3 DEF LaunchFails, IInv, TaskShape
<1>4. ASSUME Drains
     PROVE  DrainShape'
  BY <1>0, <1>4 DEF Drains, Drainable, MarkDraining, Sooner
<1>5. ASSUME CutsOver
     PROVE  DrainShape'
  BY <1>0, <1>5 DEF CutsOver
<1>6. ASSUME RegistersReplacement
     PROVE  DrainShape'
  BY <1>0, <1>6 DEF RegistersReplacement, IInv, TaskShape
<1>7. ASSUME RetiresReplaced
     PROVE  DrainShape'
  BY <1>0, <1>7 DEF RetiresReplaced
<1>8. ASSUME FallsBack
     PROVE  DrainShape'
  BY <1>0, <1>8 DEF FallsBack
<1>9. ASSUME SplitIsShut
     PROVE  DrainShape'
  BY <1>0, <1>9 DEF SplitIsShut
<1>10. ASSUME FallbackFails
     PROVE  DrainShape'
  BY <1>0, <1>10 DEF FallbackFails
<1>11. ASSUME Shuts
     PROVE  DrainShape'
  BY <1>0, <1>11 DEF Shuts
<1>12. ASSUME Closes
     PROVE  DrainShape'
  BY <1>0, <1>12 DEF Closes
<1>13. ASSUME NEW p \in Port, LoadsCandidate(p)
     PROVE  DrainShape'
  BY <1>0, <1>13 DEF LoadsCandidate
<1>14. ASSUME Drained
     PROVE  DrainShape'
  BY <1>0, <1>14 DEF Drained, ReadyToUnload, Expired
<1>15. ASSUME SendsReplace
     PROVE  DrainShape'
  BY <1>0, <1>15 DEF SendsReplace
<1>16. ASSUME CandidateFails
     PROVE  DrainShape'
  BY <1>0, <1>16 DEF CandidateFails
<1>17. ASSUME CoordinatorIsAlone
     PROVE  DrainShape'
  BY <1>0, <1>17 DEF CoordinatorIsAlone
<1>18. ASSUME AsksDrain
     PROVE  DrainShape'
  BY <1>0, <1>18 DEF AsksDrain
<1>19. ASSUME AckTimesOut
     PROVE  DrainShape'
  BY <1>0, <1>19 DEF AckTimesOut
<1>20. ASSUME Replans
     PROVE  DrainShape'
  BY <1>0, <1>20 DEF Replans
<1>21. ASSUME LosesStages
     PROVE  DrainShape'
  BY <1>0, <1>21 DEF LosesStages
<1>22. ASSUME RegistersRuntime
     PROVE  DrainShape'
  BY <1>0, <1>22 DEF RegistersRuntime
<1>23. ASSUME ShutsRuntime
     PROVE  DrainShape'
  BY <1>0, <1>23 DEF ShutsRuntime, Unloading
<1>24. ASSUME ClosesRuntime
     PROVE  DrainShape'
  BY <1>0, <1>24 DEF ClosesRuntime
<1>25. ASSUME StopsManaged
     PROVE  DrainShape'
  BY <1>0, <1>25 DEF StopsManaged, ReadyToUnload, Expired, Unloading
<1>26. ASSUME AbortsManaged
     PROVE  DrainShape'
  BY <1>0, <1>26 DEF AbortsManaged, CutAt
<1>27. ASSUME UnloadedManaged
     PROVE  DrainShape'
  BY <1>0, <1>27 DEF UnloadedManaged
<1>28. ASSUME NEW p \in Port, LoadsRuntime(p)
     PROVE  DrainShape'
  BY <1>0, <1>28 DEF LoadsRuntime
<1>29. ASSUME NEW force \in BOOLEAN, UnloadsRuntime(force)
     PROVE  DrainShape'
  BY <1>0, <1>29 DEF UnloadsRuntime, MarkDraining, Sooner, Limit
<1>30. ASSUME NEW force \in BOOLEAN, UnloadsManaged(force)
     PROVE  DrainShape'
  BY <1>0, <1>30 DEF UnloadsManaged, Drainable, MarkDraining, Sooner, Limit, NoUnload,
    IInv, TaskShape
<1>31. ASSUME NEW r \in Request, RequestStep(r)
     PROVE  DrainShape'
  <2>1. UNCHANGED <<record, coord, task>>
    BY <1>31 DEF RequestStep, IsRouted, IsAdmitted, Connects, IsAnswered, IsReported
  <2>2. ASSUME record[Managed].state # "serving"
        PROVE  InFlight(Managed)' \subseteq InFlight(Managed)
    <3>1. CASE IsAdmitted(r)
      BY <1>0, <2>2, <3>1 DEF IsAdmitted, InFlight, Nowhere, Place, IInv, RegistrationShape
    <3>2. CASE ~IsAdmitted(r)
      <4>1. CASE \E p \in Port : IsRouted(r, p)
        BY <1>0, <4>1 DEF IsRouted, InFlight, Nowhere, Place
      <4>2. CASE Connects(r)
        BY <1>0, <4>2 DEF Connects, InFlight, Nowhere, Place
      <4>3. CASE IsAnswered(r) \/ IsReported(r)
        BY <1>0, <4>3 DEF IsAnswered, IsReported, InFlight, Nowhere, Place
      <4> QED BY <1>31, <3>2, <4>1, <4>2, <4>3 DEF RequestStep
    <3> QED BY <3>1, <3>2
  <2>3. record[Managed].deadline = "ahead" => record[Managed].state # "serving"
    BY DEF DrainShape
  <2> HIDE DEF InFlight
  <2> QED BY <2>1, <2>2, <2>3
<1>32. ASSUME NEW i \in Instance, TimePasses(i)
     PROVE  DrainShape'
  BY <1>0, <1>32 DEF TimePasses, DeadlinePasses
<1>33. ASSUME UNCHANGED vars
     PROVE  DrainShape'
  BY <1>0, <1>33 DEF vars
<1> QED BY <1>1, <1>2, <1>3, <1>4, <1>5, <1>6, <1>7, <1>8, <1>9, <1>10, <1>11, <1>12,
  <1>13, <1>14, <1>15, <1>16, <1>17, <1>18, <1>19, <1>20, <1>21, <1>22, <1>23, <1>24,
  <1>25, <1>26, <1>27, <1>28, <1>29, <1>30, <1>31, <1>32, <1>33 DEF Next, TaskStep,
  CoordStep, CoordChoice, UnloadStep, UnloadChoice

\* A drained instance is empty, until its replacement takes over or fails, unless the
\* deadline let requests stay.
THEOREM DrainsHold == Spec => []DrainHolds
<1>1. Init => DrainShape
  BY InstanceAssumption DEF Init, DrainShape, DrainHolds, Fresh, NoCoord
<1>2. IInv /\ DrainShape /\ [Next]_vars => DrainShape'
  BY DrainKeeps
<1>3. DrainShape => DrainHolds
  BY DEF DrainShape
<1> QED  BY SpecInv, <1>1, <1>2, <1>3, PTL DEF Spec
=================================================================================
