----------------------------- MODULE StageControl -----------------------------
(***************************************************************************)
(* The stage control loop of every node: the claims its fence holds, the   *)
(* binary stages it runs and the load it is working on.  The loop takes    *)
(* one request at a time, and a load spans several awaits; while it lasts  *)
(* no other request of that node is handled, but clocks run, stage servers *)
(* die and the process may be stopped.  Requests may arrive in any order,  *)
(* late, or more than once: an action for a request has no guard on how    *)
(* the request came about.                                                 *)
(***************************************************************************)
EXTENDS ClaimFence

CONSTANTS
    Node,
    StopGeneration, \* shutdown_generation values a Stop may carry
    MaxTime         \* bound on every node's clock

ASSUME MaxTimeAssumption == MaxTime \in Nat

VARIABLES
    claims,     \* claims[n]: the fence of node n (coordinator_claims)
    stages,     \* stages[n]: its running stages
    loading,    \* loading[n]: the load in progress, as a set of at most one
    clock       \* clock[n]: the node's wall clock

stageVars == <<claims, stages, loading, clock>>

Step == {"resolving", "starting", "probing"}
RunningStage == [gen : Generation, up : BOOLEAN]

StageTypeOK ==
    /\ claims \in [Node -> SUBSET Generation]
    /\ stages \in [Node -> SUBSET RunningStage]
    /\ loading \in [Node -> SUBSET [gen : Generation, step : Step]]
    /\ clock \in [Node -> Nat]

StageInit ==
    /\ claims = [n \in Node |-> {}]
    /\ stages = [n \in Node |-> {}]
    /\ loading = [n \in Node |-> {}]
    /\ clock = [n \in Node |-> 0]

\* Mutant: the lock is not held while a load is resolved and started.
NeverBusy(n) == TRUE

\* No handler is suspended in the middle of a load.
Idle(n) == loading[n] = {}

\* stage_key.  A plan never gives two stages of a run to the same node.
StageOfRun(n, g) == {s \in stages[n] : s.gen.run = g.run}

\* What fence_stale_runtime_for_claim selects.
StaleStages(n, g) == {s \in stages[n] : s.gen.key = g.key /\ s.gen.term < g.term}

-------------------------------------------------------------------------------
(* Claims *)

ClaimAccepted(n, g) ==
    /\ Idle(n)
    /\ AcceptsClaim(claims[n], g, clock[n])
    /\ claims' = [claims EXCEPT ![n] = InstallClaim(@, g)]
    /\ stages' = [stages EXCEPT ![n] =
            IF Supersedes(claims[n], g) THEN @ \ StaleStages(n, g) ELSE @]
    /\ UNCHANGED <<loading, clock>>

\* The claim is in place before the stale stages are shut down; the shutdown
\* of a dead server returns its error, and the stages after it are kept.
ClaimFenceFailed(n, g) ==
    /\ Idle(n)
    /\ AcceptsClaim(claims[n], g, clock[n])
    /\ Supersedes(claims[n], g)
    /\ \E dead \in StaleStages(n, g) : \E before \in SUBSET (StaleStages(n, g) \ {dead}) :
        /\ ~dead.up
        /\ stages' = [stages EXCEPT ![n] = @ \ (before \cup {dead})]
    /\ claims' = [claims EXCEPT ![n] = InstallClaim(@, g)]
    /\ UNCHANGED <<loading, clock>>

ClaimRejected(n, g) ==
    /\ Idle(n)
    /\ ~AcceptsClaim(claims[n], g, clock[n])
    /\ UNCHANGED stageVars

-------------------------------------------------------------------------------
(* Loads.  The claim is validated before the source is resolved (the transport's *)
(* handler does it once more on the way in), never once the stage is started.    *)

LoadRejected(n, g) ==
    /\ Idle(n)
    /\ ~ValidatesLoad(claims[n], g, clock[n])
    /\ UNCHANGED stageVars

LoadAuthorized(n, g) ==
    /\ Idle(n)
    /\ ValidatesLoad(claims[n], g, clock[n])
    /\ loading' = [loading EXCEPT ![n] = {[gen |-> g, step |-> "resolving"]}]
    /\ UNCHANGED <<claims, stages, clock>>

LoadAt(n, g, step) == [gen |-> g, step |-> step] \in loading[n]

\* The local source does not verify: nothing has been touched yet.
LoadSourceFailed(n, g) ==
    /\ LoadAt(n, g, "resolving")
    /\ loading' = [loading EXCEPT ![n] = {}]
    /\ UNCHANGED <<claims, stages, clock>>

\* Mutant: the stage already running under the key is kept.
LoadKeepsKey(n, g) ==
    /\ LoadAt(n, g, "resolving")
    /\ loading' = [loading EXCEPT ![n] = {[gen |-> g, step |-> "starting"]}]
    /\ UNCHANGED <<claims, stages, clock>>

\* A stage already running under the key is shut down first.
LoadClearsKey(n, g) ==
    /\ LoadAt(n, g, "resolving")
    /\ stages' = [stages EXCEPT ![n] = @ \ StageOfRun(n, g)]
    /\ loading' = [loading EXCEPT ![n] = {[gen |-> g, step |-> "starting"]}]
    /\ UNCHANGED <<claims, clock>>

\* Its shutdown returns the error its server died of.
LoadClearFailed(n, g) ==
    /\ LoadAt(n, g, "resolving")
    /\ \E s \in StageOfRun(n, g) : ~s.up
    /\ stages' = [stages EXCEPT ![n] = @ \ StageOfRun(n, g)]
    /\ loading' = [loading EXCEPT ![n] = {}]
    /\ UNCHANGED <<claims, clock>>

\* The package cannot be resolved or the stage cannot be configured.
LoadPackageFailed(n, g) ==
    /\ LoadAt(n, g, "starting")
    /\ loading' = [loading EXCEPT ![n] = {}]
    /\ UNCHANGED <<claims, stages, clock>>

\* Mutant: a started load reports a state of its own.
LoadStartedAsReady(n, g) ==
    /\ LoadAt(n, g, "starting")
    /\ stages' = [stages EXCEPT ![n] = @ \cup {[gen |-> g, up |-> TRUE]}]
    /\ loading' = [loading EXCEPT ![n] = {[gen |-> g, step |-> "ready"]}]
    /\ UNCHANGED <<claims, clock>>

LoadStarted(n, g) ==
    /\ LoadAt(n, g, "starting")
    /\ stages' = [stages EXCEPT ![n] = @ \cup {[gen |-> g, up |-> TRUE]}]
    /\ loading' = [loading EXCEPT ![n] = {[gen |-> g, step |-> "probing"]}]
    /\ UNCHANGED <<claims, clock>>

LoadReady(n, g) ==
    /\ LoadAt(n, g, "probing")
    /\ loading' = [loading EXCEPT ![n] = {}]
    /\ UNCHANGED <<claims, stages, clock>>

LoadProbeFailed(n, g) ==
    /\ LoadAt(n, g, "probing")
    /\ stages' = [stages EXCEPT ![n] = @ \ StageOfRun(n, g)]
    /\ loading' = [loading EXCEPT ![n] = {}]
    /\ UNCHANGED <<claims, clock>>

-------------------------------------------------------------------------------
(* Stops.  num is the shutdown_generation of the request. *)

\* Mutant: a stop of the generation itself counts as stale.
StopNeedsNewer(s, g, num) == g.term >= s.gen.term /\ num > s.gen.num

StopApplies(s, g, num) == g.term >= s.gen.term /\ num >= s.gen.num

StopIgnored(n, g, num) ==
    /\ Idle(n)
    /\ \A s \in StageOfRun(n, g) : ~StopApplies(s, g, num)
    /\ UNCHANGED stageVars

StopApplied(n, g, num) ==
    /\ Idle(n)
    /\ \E s \in StageOfRun(n, g) : StopApplies(s, g, num)
    /\ stages' = [stages EXCEPT ![n] = @ \ StageOfRun(n, g)]
    /\ UNCHANGED <<claims, loading, clock>>

-------------------------------------------------------------------------------
(* The environment *)

\* A stage server ends with an error; its entry stays until it is removed.
StageDies(n, s) ==
    /\ s.up
    /\ stages' = [stages EXCEPT ![n] = (@ \ {s}) \cup {[s EXCEPT !.up = FALSE]}]
    /\ UNCHANGED <<claims, loading, clock>>

\* The process ends, cancelling a load in progress, and starts again: fence
\* and stages are kept in memory only.
NodeRestarts(n) ==
    /\ claims' = [claims EXCEPT ![n] = {}]
    /\ stages' = [stages EXCEPT ![n] = {}]
    /\ loading' = [loading EXCEPT ![n] = {}]
    /\ UNCHANGED clock

ClockTicks(n) ==
    /\ clock[n] < MaxTime
    /\ clock' = [clock EXCEPT ![n] = @ + 1]
    /\ UNCHANGED <<claims, stages, loading>>

-------------------------------------------------------------------------------

HandleClaim(n, g) ==
    ClaimAccepted(n, g) \/ ClaimFenceFailed(n, g) \/ ClaimRejected(n, g)

ProceedLoad(n, g) ==
    \/ LoadSourceFailed(n, g) \/ LoadClearsKey(n, g) \/ LoadClearFailed(n, g)
    \/ LoadPackageFailed(n, g) \/ LoadStarted(n, g)
    \/ LoadReady(n, g) \/ LoadProbeFailed(n, g)

HandleLoad(n, g) == LoadAuthorized(n, g) \/ LoadRejected(n, g) \/ ProceedLoad(n, g)

HandleStop(n, g, num) == StopApplied(n, g, num) \/ StopIgnored(n, g, num)

StageNext ==
    \E n \in Node :
        \/ \E g \in Generation :
            \/ HandleClaim(n, g)
            \/ HandleLoad(n, g)
            \/ \E num \in StopGeneration : HandleStop(n, g, num)
        \/ \E s \in stages[n] : StageDies(n, s)
        \/ NodeRestarts(n)
        \/ ClockTicks(n)

StageSpec == StageInit /\ [][StageNext]_stageVars

-------------------------------------------------------------------------------
(* Properties *)

\* The fence holds the claim g speaks for.
HoldsEpoch(fence, g) ==
    \E held \in HeldFor(fence, g.key) : held.term = g.term /\ SameClaimEpoch(held, g)

\* Every stage a node runs, and the load it is working on, belong to the very
\* claim the node holds for that model: a coordinator that was superseded has
\* nothing running there, although its load was validated before a newer claim
\* could arrive and took many awaits to start the stage.
StagesBelongToClaim ==
    \A n \in Node :
        /\ \A s \in stages[n] : HoldsEpoch(claims[n], s.gen)
        /\ \A l \in loading[n] : HoldsEpoch(claims[n], l.gen)

\* Two coordinators never share a node for the same model: at most one stage
\* per model runs on a node, whatever loads, stops and claims cross.
OneStagePerKey ==
    \A n \in Node : \A s, t \in stages[n] : s.gen.key = t.gen.key => s = t

FenceAdvances ==
    \A n \in Node : claims'[n] # {} =>
        \A c \in claims[n] : \E d \in claims'[n] :
            /\ d.key = c.key
            /\ d.term >= c.term
            /\ d.term = c.term => SameClaimEpoch(c, d)

\* As long as its process lives, a node never goes back to an older
\* coordinator, and never swaps the coordinator within a term - not even when
\* the lease of the claim it holds has run out.
ClaimNeverGoesBack == [][FenceAdvances]_stageVars

\* What a node promises the coordinators, without leases, loads and failures.
EpochOf(g) == [run |-> g.run, key |-> g.key, coord |-> g.coord, plan |-> g.plan, term |-> g.term]
Slot == INSTANCE FencedSlot WITH
    Epoch <- {EpochOf(g) : g \in Generation},
    owner <- [n \in Node |-> {EpochOf(c) : c \in claims[n]}],
    working <- [n \in Node |-> {EpochOf(s.gen) : s \in stages[n]}]
ImplementsFencedSlot == Slot!SlotSpec
===============================================================================
