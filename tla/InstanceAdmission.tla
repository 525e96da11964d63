--------------------------- MODULE InstanceAdmission ---------------------------
(***************************************************************************)
(* How requests reach the model instances of one node.  A request takes a  *)
(* port from the local routes, asks the lifecycle record registered for    *)
(* that port to be let in, connects to the server behind the port, and is  *)
(* served.  A record that lets a request in counts it until the request is *)
(* over; a port without a registered record lets everybody in, uncounted.  *)
(* The owners of the instances (InstanceLifecycle) drive the rest.         *)
(***************************************************************************)
CONSTANTS
    Instance,   \* model instances of the node
    Port,       \* local ports
    Request     \* requests for the model, each made again and again

VARIABLES
    record,     \* record[i]: the lifecycle record of instance i
    registered, \* registered[p]: the instance whose record admits at p, if any
    route,      \* the ports requests are routed to
    advertised, \* the instances in the node's registry of served models
    server,     \* server[p]: whether the server at p takes connections
    request     \* request[r]: how far request r is

admissionVars == <<record, registered, route, advertised, server, request>>

State == {"planned", "resolving", "loading", "warming", "serving", "draining",
          "unloading", "failed", "stopped"}

\* deadline is relative to now; "none" also stands for a drain never begun.
Record == [state : State, deadline : {"none", "ahead", "passed"}]

\* count: the instance whose present record counts the request.
Place == [phase : {"idle", "routed", "admitted", "running", "cut"},
          port : SUBSET Port, count : SUBSET Instance]

AdmissionTypeOK ==
    /\ record \in [Instance -> Record]
    /\ registered \in [Port -> SUBSET Instance]
    /\ route \subseteq Port
    /\ advertised \subseteq Instance
    /\ server \in [Port -> {"off", "open", "closing"}]
    /\ request \in [Request -> Place]

Nowhere == [phase |-> "idle", port |-> {}, count |-> {}]

-------------------------------------------------------------------------------
(* The lifecycle record.  A record is replaced whole, by a fresh one.      *)

Fresh(state) == [state |-> state, deadline |-> "none"]

Successors(state) ==
    CASE state = "planned"   -> {"resolving", "failed", "stopped"}
      [] state = "resolving" -> {"loading", "failed", "stopped"}
      [] state = "loading"   -> {"warming", "failed", "stopped"}
      [] state = "warming"   -> {"serving", "failed", "stopped"}
      [] state = "serving"   -> {"draining", "failed", "stopped"}
      [] state = "draining"  -> {"unloading", "failed"}
      [] state = "unloading" -> {"stopped", "failed"}
      [] OTHER -> {}

\* A transition that is not allowed leaves the record as it is.
Moved(rec, next) == IF next \in Successors(rec.state) THEN [rec EXCEPT !.state = next] ELSE rec

InFlight(i) == {r \in Request : i \in request[r].count}

\* A drain begun before keeps its state and takes the nearer deadline.
Drainable(rec) == rec.state = "serving" \/ rec.deadline # "none"

Sooner(a, b) == IF "passed" \in {a, b} THEN "passed" ELSE b

MarkDraining(rec, deadline) ==
    IF rec.deadline = "none" THEN [state |-> "draining", deadline |-> deadline]
    ELSE IF rec.state = "draining" THEN [rec EXCEPT !.deadline = Sooner(@, deadline)]
    ELSE rec

\* DrainCoordinator::wait_for_unload_ready returns, and with what.
Expired(i) == record[i].state = "draining" /\ record[i].deadline = "passed" /\ InFlight(i) # {}
ReadyToUnload(i) == record[i].state # "draining" \/ InFlight(i) = {} \/ Expired(i)

Unloading(i) ==
    IF record[i].state = "draining" /\ (InFlight(i) = {} \/ Expired(i))
    THEN Moved(record[i], "unloading") ELSE record[i]

\* A fresh record counts from zero: the requests let in by the previous one
\* hold its counter, which nobody reads any more.
Uncounted(i) == [r \in Request |-> [request[r] EXCEPT !.count = @ \ {i}]]

DeadlinePasses(i) ==
    /\ record[i].state = "draining"
    /\ record[i].deadline = "ahead"
    /\ record' = [record EXCEPT ![i].deadline = "passed"]
    /\ UNCHANGED <<registered, route, advertised, server, request>>

-------------------------------------------------------------------------------
(* A request *)

IsRouted(r, p) ==
    /\ request[r].phase = "idle"
    /\ p \in route
    /\ request' = [request EXCEPT ![r] = [Nowhere EXCEPT !.phase = "routed", !.port = {p}]]
    /\ UNCHANGED <<record, registered, route, advertised, server>>

\* Mutant: whoever is registered lets the request in.
IsAdmittedAlways(r) ==
    /\ request[r].phase = "routed"
    /\ \E p \in request[r].port :
        request' = [request EXCEPT ![r].phase = "admitted", ![r].count = registered[p]]
    /\ UNCHANGED <<record, registered, route, advertised, server>>

\* begin_runtime_instance_request.
IsAdmitted(r) ==
    /\ request[r].phase = "routed"
    /\ \E p \in request[r].port :
        request' = IF \A i \in registered[p] : record[i].state = "serving"
                   THEN [request EXCEPT ![r].phase = "admitted", ![r].count = registered[p]]
                   ELSE [request EXCEPT ![r] = Nowhere]
    /\ UNCHANGED <<record, registered, route, advertised, server>>

Connects(r) ==
    /\ request[r].phase = "admitted"
    /\ request' = IF \E p \in request[r].port : server[p] = "open"
                  THEN [request EXCEPT ![r].phase = "running"]
                  ELSE [request EXCEPT ![r] = Nowhere]
    /\ UNCHANGED <<record, registered, route, advertised, server>>

IsAnswered(r) ==
    /\ request[r].phase = "running"
    /\ request' = [request EXCEPT ![r] = Nowhere]
    /\ UNCHANGED <<record, registered, route, advertised, server>>

\* A request that was cut is reported as failed.
IsReported(r) ==
    /\ request[r].phase = "cut"
    /\ request' = [request EXCEPT ![r] = Nowhere]
    /\ UNCHANGED <<record, registered, route, advertised, server>>

Running(p) == {r \in Request : request[r].phase = "running" /\ p \in request[r].port}

\* The runtime behind the ports ps is dropped with requests on it.
CutAt(ps) ==
    [r \in Request |->
        IF \E p \in ps : r \in Running(p) THEN [request[r] EXCEPT !.phase = "cut"] ELSE request[r]]
===============================================================================
