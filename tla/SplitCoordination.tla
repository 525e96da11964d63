--------------------------- MODULE SplitCoordination ---------------------------
(***************************************************************************)
(* Coordinators and stage nodes of split models together.  A coordinator   *)
(* claims a majority of its planned stages, loads them from the last to    *)
(* the first behind its own, opens stage 0, and has the runtime loop route *)
(* requests to it.  Later it replaces the generation by a better one, or   *)
(* recovers from lost stages, or the model is stopped.  Every coordinator  *)
(* is also a node, and is stage 0 of its own plans: g.plan is the sequence *)
(* of the planned stages' nodes.                                           *)
(*                                                                         *)
(* A coordinator has one call outstanding at a time.  What a node does for *)
(* a call and what the coordinator makes of the answer are one step here:  *)
(* between them the coordinator does nothing.  A call the coordinator gave *)
(* up waiting for may still be handled, or not: it is in late.             *)
(***************************************************************************)
EXTENDS StageControl, Sequences, FiniteSets

CONSTANTS
    LeaseSpan,      \* coordinator lease, in clock ticks
    LocalFits,      \* the coordinators' nodes can hold the whole model
    ShutdownAll,    \* u64::MAX, which every generation number is below
    Faults          \* which of Fault may happen

Fault == {"timeout", "suspicion", "death", "restart", "stop"}

ASSUME SplitAssumption ==
    /\ Coordinator \subseteq Node
    /\ LeaseSpan \in Nat \ {0}
    /\ LocalFits \in BOOLEAN
    /\ Faults \subseteq Fault
    /\ ShutdownAll \in StopGeneration \cap Nat
    /\ \A g \in Generation :
        /\ {g.num, g.num + 1} \subseteq StopGeneration
        /\ g.plan \in Seq(Node)
        /\ Len(g.plan) >= 2
        /\ \A i, j \in DOMAIN g.plan : g.plan[i] = g.plan[j] => i = j
        /\ g.plan[1] = g.coord
        /\ g.num < ShutdownAll

\* A run_id is the nanosecond at which its attempt began, with the generation's
\* number: no two attempts share one.
ASSUME RunAssumption == \A g, h \in Generation : g.run = h.run => g = h

VARIABLES
    job,        \* job[c]: what coordinator c is doing
    active,     \* active[c]: its published generation, if any
    route,      \* route[c]: the generation its runtime loop sends requests to
    meters,     \* stage-0 compute meters registered, by generation
    late,       \* calls given up by their caller that a node may still handle
    made,       \* attempts begun so far
    grants,     \* history: the claim of a run acknowledged by a node
    forsaken    \* history: attempts a crash, an abort or a timeout left behind

splitVars == <<job, active, route, meters, late, made, grants, forsaken>>
vars == <<stageVars, splitVars>>

CallPhase == {"claiming", "loading", "stopping"}
Phase == CallPhase \cup {"idle", "opening", "publishing", "leaving", "ended"}
Request == [kind : CallPhase, gen : Generation, to : Node, num : Nat]

SplitTypeOK ==
    /\ StageTypeOK
    /\ job \in [Coordinator -> [phase : Phase, gen : SUBSET Generation, pos : Nat, accepts : Nat,
                                num : Nat, then : {"resume", "leave", "end"}]]
    /\ active \in [Coordinator -> SUBSET Generation]
    /\ route \in [Coordinator -> SUBSET Generation]
    /\ meters \subseteq Generation
    /\ late \subseteq Request
    /\ made \subseteq Generation
    /\ grants \subseteq Run \X Node
    /\ forsaken \subseteq Generation

\* No generation in hand.
Rest(phase) ==
    [phase |-> phase, gen |-> {}, pos |-> 0, accepts |-> 0, num |-> 0, then |-> "resume"]

SplitInit ==
    /\ StageInit
    /\ job = [c \in Coordinator |-> Rest("idle")]
    /\ active = [c \in Coordinator |-> {}]
    /\ route = [c \in Coordinator |-> {}]
    /\ meters = {}
    /\ late = {}
    /\ made = {}
    /\ grants = {}
    /\ forsaken = {}

-------------------------------------------------------------------------------
(* What a coordinator makes of an answer.  j is its job, g the generation  *)
(* in hand.                                                                *)

\* claim_split_coordinator_lease, then load_split_runtime_generation.
Claiming(g, then) ==
    [phase |-> "claiming", gen |-> {g}, pos |-> 1, accepts |-> 0, num |-> g.num, then |-> then]

\* stop_split_generation: every stage behind stage 0, one after the other.
Stopping(g, num, then) ==
    [phase |-> "stopping", gen |-> {g}, pos |-> 2, accepts |-> 0, num |-> num, then |-> then]

\* Mutant: the outcome itself is taken for the next phase.
FinishAs(then) == Rest(then)

\* What follows an attempt that came to nothing, or the end of a clean-up.
Finish(then) ==
    Rest(CASE then = "resume" -> "idle" [] then = "leave" -> "leaving" [] then = "end" -> "ended")

\* The claims go to all planned stages whatever the first ones answer.  Those
\* accepted by a minority are not released.
AfterClaim(j, g, accepted) ==
    LET accepts == j.accepts + IF accepted THEN 1 ELSE 0
    IN  IF j.pos < Len(g.plan) THEN [j EXCEPT !.pos = @ + 1, !.accepts = accepts]
        ELSE IF accepts >= QuorumRequirement(Len(g.plan))
             THEN [j EXCEPT !.phase = "loading", !.accepts = 0]
             ELSE Finish(j.then)

\* Mutant: the stage right behind stage 0 is left out.
AfterLoadSkipping(j, g, ready) ==
    IF ~ready THEN Stopping(g, g.num, j.then)
    ELSE IF j.pos > 3 THEN [j EXCEPT !.pos = @ - 1]
         ELSE [j EXCEPT !.phase = "opening", !.pos = 0]

\* Mutant: a load the node rejected counts as done.
AfterLoadIgnoring(j, g, ready) ==
    IF j.pos > 2 THEN [j EXCEPT !.pos = @ - 1]
    ELSE [j EXCEPT !.phase = "opening", !.pos = 0]

AfterLoad(j, g, ready) ==
    IF ~ready THEN Stopping(g, g.num, j.then)
    ELSE IF j.pos > 2 THEN [j EXCEPT !.pos = @ - 1]
         ELSE [j EXCEPT !.phase = "opening", !.pos = 0]

\* Mutant: the last stage is not stopped.
AfterStopShort(j, g) ==
    IF j.pos + 1 < Len(g.plan) THEN [j EXCEPT !.pos = @ + 1] ELSE Finish(j.then)

\* A stop that fails is logged.
AfterStop(j, g) ==
    IF j.pos < Len(g.plan) THEN [j EXCEPT !.pos = @ + 1] ELSE Finish(j.then)

After(j, g, ok) ==
    CASE j.phase = "claiming" -> AfterClaim(j, g, ok)
      [] j.phase = "loading"  -> AfterLoad(j, g, ok)
      [] j.phase = "stopping" -> AfterStop(j, g)

-------------------------------------------------------------------------------
(* Calls *)

Req(kind, g, n, num) == [kind |-> kind, gen |-> g, to |-> n, num |-> num]

\* The call coordinator c is waiting for.
Calling(c) ==
    {Req(job[c].phase, g, g.plan[job[c].pos], job[c].num) :
        g \in IF job[c].phase \in CallPhase THEN job[c].gen ELSE {}}

Pending == late \cup UNION {Calling(c) : c \in Coordinator}

\* The caller, if it still waits for m, goes on.
Answered(m, ok) ==
    LET c == m.gen.coord
    IN  job' = [job EXCEPT ![c] = IF m \in Calling(c) THEN After(@, m.gen, ok) ELSE @]

HandlesClaim(m) ==
    /\ m.kind = "claiming"
    /\ \/ /\ ClaimAccepted(m.to, m.gen)
          /\ grants' = grants \cup {<<m.gen.run, m.to>>}
          /\ Answered(m, TRUE)
       \/ /\ ClaimFenceFailed(m.to, m.gen) \/ ClaimRejected(m.to, m.gen)
          /\ Answered(m, FALSE)
          /\ UNCHANGED grants
    /\ late' = late \ {m}
    /\ UNCHANGED <<active, route, meters, made, forsaken>>

HandlesLoad(m) ==
    /\ m.kind = "loading"
    /\ \/ LoadAuthorized(m.to, m.gen) /\ UNCHANGED job
       \/ LoadRejected(m.to, m.gen) /\ Answered(m, FALSE)
    /\ late' = late \ {m}
    /\ UNCHANGED <<active, route, meters, made, grants, forsaken>>

\* The caller refuses a ready stage whose boundary or content does not match.
ProceedsLoad(n, g) ==
    /\ \/ (LoadClearsKey(n, g) \/ LoadStarted(n, g)) /\ UNCHANGED job
       \/ /\ LoadReady(n, g)
          /\ \E matches \in BOOLEAN : Answered(Req("loading", g, n, g.num), matches)
       \/ /\ \/ LoadSourceFailed(n, g) \/ LoadClearFailed(n, g)
             \/ LoadPackageFailed(n, g) \/ LoadProbeFailed(n, g)
          /\ Answered(Req("loading", g, n, g.num), FALSE)
    /\ UNCHANGED <<active, route, meters, late, made, grants, forsaken>>

HandlesStop(m) ==
    /\ m.kind = "stopping"
    /\ HandleStop(m.to, m.gen, m.num)
    /\ Answered(m, TRUE)
    /\ late' = late \ {m}
    /\ UNCHANGED <<active, route, meters, made, grants, forsaken>>

\* Calls that may still be handled although nobody waits for the answer.  A
\* load in progress goes on by itself.
Unanswered(c) == {m \in Calling(c) : ~(m.kind = "loading" /\ \E l \in loading[m.to] : l.gen = m.gen)}

CallTimesOut(c) ==
    /\ "timeout" \in Faults
    /\ \E m \in Calling(c) :
        /\ Answered(m, FALSE)
        /\ forsaken' = IF m.kind = "claiming" THEN forsaken ELSE forsaken \cup {m.gen}
    /\ late' = late \cup Unanswered(c)
    /\ UNCHANGED <<stageVars, active, route, meters, made, grants>>

-------------------------------------------------------------------------------
(* Attempts *)

Downstream(g) == {g.plan[i] : i \in 2..Len(g.plan)}

\* The stages of g that are not there: split_unavailable_active_stage_nodes.
\* A stage that was ready and is missing from its node counts as failed.
Unavailable(g) ==
    {n \in Downstream(g) : [gen |-> g, up |-> TRUE] \notin stages[n]}

\* Mutant: a stage missing from its node passes for a refresh that failed.
LooksLostWhenDead(c) ==
    {n \in UNION {Downstream(g) : g \in active[c]} :
        "suspicion" \in Faults \/ \E s \in stages[n] : s.gen \in active[c] /\ ~s.up}

\* What coordinator c may take for lost: a peer may be thought gone.
MayLookLost(c) ==
    {n \in UNION {Downstream(g) : g \in active[c]} :
        "suspicion" \in Faults \/ \E g \in active[c] : n \in Unavailable(g)}

\* A new run, with a term from the coordinator's wall clock.
Begins(c, g, then) ==
    /\ job[c].phase = "idle"
    /\ g.coord = c
    /\ g \notin made
    /\ g.lease = clock[c] + LeaseSpan
    /\ job' = [job EXCEPT ![c] = Claiming(g, then)]
    /\ made' = made \cup {g}
    /\ UNCHANGED <<stageVars, active, route, meters, late, grants, forsaken>>

\* c takes itself for the canonical coordinator of the model.
StartsUp(c, g) ==
    /\ active[c] = {}
    /\ g.num = 1
    /\ Begins(c, g, "resume")

\* A better candidate (evaluate_replan without losses), or new boundaries.
Replans(c, g) ==
    /\ \E h \in active[c] : g.num = h.num + 1
    /\ Begins(c, g, "resume")

\* A replacement after losses uses none of the lost nodes.
Replaces(c, g) ==
    /\ \E lost \in SUBSET MayLookLost(c) : lost # {} /\ Downstream(g) \cap lost = {}
    /\ \E h \in active[c] : g.num = h.num + 1
    /\ Begins(c, g, "leave")

OpensStage0(c) ==
    /\ job[c].phase = "opening"
    /\ job' = [job EXCEPT ![c].phase = "publishing"]
    /\ meters' = meters \cup job[c].gen
    /\ UNCHANGED <<stageVars, active, route, late, made, grants, forsaken>>

OpenFails(c) ==
    /\ job[c].phase = "opening"
    /\ \E g \in job[c].gen : job' = [job EXCEPT ![c] = Stopping(g, g.num, @.then)]
    /\ UNCHANGED <<stageVars, active, route, meters, late, made, grants, forsaken>>

\* Mutant: the meter of the generation left stays registered.
MetersKept(c) == meters

MetersLeft(c) == meters \ active[c]

\* The runtime loop switches to the new generation; then the previous one is
\* stopped, with the new one's number.
Publishes(c) ==
    /\ job[c].phase = "publishing"
    /\ \E g \in job[c].gen :
        /\ active' = [active EXCEPT ![c] = {g}]
        /\ route' = [route EXCEPT ![c] = {g}]
        /\ \/ active[c] = {} /\ job' = [job EXCEPT ![c] = Rest("idle")]
           \/ \E previous \in active[c] : job' = [job EXCEPT ![c] = Stopping(previous, g.num, "resume")]
    /\ meters' = MetersLeft(c)
    /\ UNCHANGED <<stageVars, late, made, grants, forsaken>>

\* No replacement, or it failed: the route is withdrawn before the stages are
\* stopped.  The model is run locally if it fits; else the split is relaunched.
LeavesActive(c) ==
    /\ \/ job[c].phase = "leaving"
       \/ job[c].phase = "idle" /\ MayLookLost(c) # {}
    /\ \E g \in active[c] :
        job' = [job EXCEPT ![c] = IF LocalFits THEN Stopping(g, g.num + 1, "end")
                                  ELSE Stopping(g, ShutdownAll, "resume")]
    /\ active' = [active EXCEPT ![c] = {}]
    /\ route' = [route EXCEPT ![c] = {}]
    /\ meters' = MetersLeft(c)
    /\ UNCHANGED <<stageVars, late, made, grants, forsaken>>

\* The model is unloaded.  The coordinator task is aborted wherever it is; only
\* the published generation is stopped.  Opening stage 0 runs on a thread of
\* its own, which the abort does not stop.
ModelStops(c) ==
    /\ "stop" \in Faults
    /\ \E g \in active[c] : job' = [job EXCEPT ![c] = Stopping(g, ShutdownAll, "end")]
    /\ active' = [active EXCEPT ![c] = {}]
    /\ route' = [route EXCEPT ![c] = {}]
    /\ late' = late \cup Unanswered(c)
    /\ forsaken' = forsaken \cup job[c].gen
    /\ meters' = MetersLeft(c) \cup (IF job[c].phase = "opening" THEN job[c].gen ELSE {})
    /\ UNCHANGED <<stageVars, made, grants>>

-------------------------------------------------------------------------------
(* The environment *)

StageServerDies(n, s) ==
    /\ "death" \in Faults
    /\ StageDies(n, s)
    /\ UNCHANGED splitVars

\* Calls of others that nobody waits for end with the connection; a call being
\* worked on fails.  A coordinator on the node forgets all it had.
Restarts(n) ==
    /\ "restart" \in Faults
    /\ NodeRestarts(n)
    /\ job' = [c \in Coordinator |->
            IF c = n THEN Rest("idle")
            ELSE IF \E m \in Calling(c) : m.to = n /\ m \notin Unanswered(c)
                 THEN After(job[c], CHOOSE g \in job[c].gen : TRUE, FALSE)
                 ELSE job[c]]
    /\ late' = {m \in late : m.to # n}
               \cup (IF n \in Coordinator THEN {m \in Unanswered(n) : m.to # n} ELSE {})
    /\ active' = [c \in Coordinator |-> IF c = n THEN {} ELSE active[c]]
    /\ route' = [c \in Coordinator |-> IF c = n THEN {} ELSE route[c]]
    /\ meters' = {g \in meters : g.coord # n}
    /\ forsaken' = forsaken \cup {g \in made : g.coord = n}
    /\ UNCHANGED <<made, grants>>

Ticks(n) == ClockTicks(n) /\ UNCHANGED splitVars

-------------------------------------------------------------------------------

\* What the coordinator's tasks keep doing by themselves.
Coordinates(c) ==
    CallTimesOut(c) \/ OpensStage0(c) \/ OpenFails(c) \/ Publishes(c) \/ LeavesActive(c)

SplitNext ==
    \/ \E m \in Pending : HandlesClaim(m) \/ HandlesLoad(m) \/ HandlesStop(m)
    \/ \E n \in Node : \E l \in loading[n] : ProceedsLoad(n, l.gen)
    \/ \E c \in Coordinator :
        \/ \E g \in Generation : StartsUp(c, g) \/ Replans(c, g) \/ Replaces(c, g)
        \/ Coordinates(c)
        \/ ModelStops(c)
    \/ \E n \in Node :
        \/ \E s \in stages[n] : StageServerDies(n, s)
        \/ Restarts(n)
        \/ Ticks(n)

SplitSpec == SplitInit /\ [][SplitNext]_vars

FairSplitSpec == SplitSpec /\ \A c \in Coordinator : WF_vars(Coordinates(c))

-------------------------------------------------------------------------------
(* Properties *)

\* No split without a majority: a node runs a stage only of an attempt whose
\* claim more than half of its planned nodes acknowledged.
QuorumBeforeStage ==
    \A n \in Node : \A s \in stages[n] :
        2 * Cardinality({m \in Node : <<s.gen.run, m>> \in grants}) > Len(s.gen.plan)

\* What requests are routed to was complete, and its coordinator takes no stage
\* away from under it: a stage behind the routed stage 0 is there unless its
\* node stopped holding the claim, by a newer coordinator or a restart.
RouteBackedByStages ==
    \A c \in Coordinator : \A g \in route[c] : \A n \in Downstream(g) :
        \/ \E s \in stages[n] : s.gen = g
        \/ ~HoldsEpoch(claims[n], g)

\* No stage is left behind: every running stage belongs to the attempt its
\* coordinator works on or has published, except those of an attempt that lost
\* its coordinator or a call.
StageHasKeeper ==
    \A n \in Node : \A s \in stages[n] :
        \/ s.gen \in job[s.gen.coord].gen \cup active[s.gen.coord]
        \/ s.gen \in forsaken

\* A route with a stage missing is given up, by a replacement or a withdrawal,
\* however many attempts fail in between.
LostRouteIsLeft ==
    \A c \in Coordinator : \A g \in Generation :
        (g \in route[c] /\ Unavailable(g) # {}) ~> g \notin route[c]

\* coordinator.rs, on a failed cutover: "resuming the current generation".
\* Then the generation that goes on is still whole.
ResumedGenerationServes ==
    \A c \in Coordinator : \A g \in active[c] :
        job[c].phase = "idle" => Unavailable(g) = {}

\* The compute meter of a published generation is registered, and none outlives
\* its generation but those an abort in mid-candidate left behind.
MeterFollowsGeneration ==
    /\ \A c \in Coordinator : active[c] \subseteq meters
    /\ \A g \in meters : g \in job[g.coord].gen \cup active[g.coord] \cup forsaken
===============================================================================
