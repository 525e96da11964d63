-------------------------- MODULE StageControlProofs --------------------------
(***************************************************************************)
(* Safety of the stage control loop for any set of nodes, models,          *)
(* coordinators and attempts.                                              *)
(***************************************************************************)
EXTENDS StageControl, TLAPS

\* What holds of one node's fence, stages and load between two steps.  Beyond
\* the properties: a run has one stage, and a load past "resolving" has cleared
\* the way for the stage it starts.
NodeOK(fence, running, load) ==
    /\ \A c, d \in fence : c.key = d.key => c = d
    /\ \A s \in running : HoldsEpoch(fence, s.gen)
    /\ \A l \in load : HoldsEpoch(fence, l.gen)
    /\ \A s, t \in running : s.gen.run = t.gen.run => s = t
    /\ \A l \in load : l.step = "starting" => \A s \in running : s.gen.run # l.gen.run
    /\ \A l, m \in load : l = m

StageInv ==
    /\ StageTypeOK
    /\ \A n \in Node : NodeOK(claims[n], stages[n], loading[n])

\* The type invariant of stage control: fences, stages and loads hold attempts.
LEMMA TypeInit == StageInit => StageTypeOK
  BY MaxTimeAssumption DEF StageInit, StageTypeOK

\* Every handler of the control loop, and the environment, keeps the types.
LEMMA TypeStep == StageTypeOK /\ [StageNext]_stageVars => StageTypeOK'
<1> SUFFICES ASSUME StageTypeOK, [StageNext]_stageVars PROVE StageTypeOK'
  OBVIOUS
<1> USE DEF StageTypeOK
<1> DEFINE LoadStep == [gen : Generation, step : Step]
<1>0. \A g \in Generation : /\ [gen |-> g, up |-> TRUE] \in RunningStage
                             /\ \A step \in Step : [gen |-> g, step |-> step] \in LoadStep
  BY DEF RunningStage
<1>1. CASE UNCHANGED stageVars
  BY <1>1 DEF stageVars
<1>2. ASSUME NEW n \in Node, NEW g \in Generation, HandleClaim(n, g)
      PROVE  StageTypeOK'
  <2>1. CASE ClaimAccepted(n, g)
    BY <2>1 DEF ClaimAccepted, InstallClaim, StaleStages
  <2>2. CASE ClaimFenceFailed(n, g)
    BY <2>2 DEF ClaimFenceFailed, InstallClaim, StaleStages
  <2>3. CASE ClaimRejected(n, g)
    BY <2>3 DEF ClaimRejected, stageVars
  <2> QED BY <1>2, <2>1, <2>2, <2>3 DEF HandleClaim
<1>3. ASSUME NEW n \in Node, NEW g \in Generation, HandleLoad(n, g)
      PROVE  StageTypeOK'
  <2>1. CASE LoadRejected(n, g)
    BY <2>1 DEF LoadRejected, stageVars
  <2>2. CASE LoadAuthorized(n, g)
    BY <1>0, <2>2 DEF LoadAuthorized, Step
  <2>3. CASE LoadSourceFailed(n, g) \/ LoadPackageFailed(n, g) \/ LoadReady(n, g)
    BY <2>3 DEF LoadSourceFailed, LoadPackageFailed, LoadReady
  <2>4. CASE LoadClearsKey(n, g)
    BY <1>0, <2>4 DEF LoadClearsKey, Step, StageOfRun
  <2>5. CASE LoadClearFailed(n, g) \/ LoadProbeFailed(n, g)
    BY <2>5 DEF LoadClearFailed, LoadProbeFailed, StageOfRun
  <2>6. CASE LoadStarted(n, g)
    <3>1. [gen |-> g, up |-> TRUE] \in RunningStage /\ [gen |-> g, step |-> "probing"] \in LoadStep
      BY <1>0 DEF Step
    <3> QED BY <2>6, <3>1 DEF LoadStarted
  <2> QED BY <1>3, <2>1, <2>2, <2>3, <2>4, <2>5, <2>6 DEF HandleLoad, ProceedLoad
<1>4. ASSUME NEW n \in Node, NEW g \in Generation, NEW num, HandleStop(n, g, num)
      PROVE  StageTypeOK'
  BY <1>4 DEF HandleStop, StopApplied, StopIgnored, StageOfRun, stageVars
<1>5. ASSUME NEW n \in Node, NEW s \in stages[n], StageDies(n, s)
      PROVE  StageTypeOK'
  <2>1. stages[n] \in SUBSET RunningStage
    BY <1>5
  <2>2. s \in RunningStage
    BY <1>5, <2>1
  <2>3. [s EXCEPT !.up = FALSE] \in RunningStage
    BY <2>2 DEF RunningStage
  <2> QED BY <1>5, <2>3 DEF StageDies
<1>6. ASSUME NEW n \in Node, NodeRestarts(n) PROVE StageTypeOK'
  BY <1>6 DEF NodeRestarts
<1>7. ASSUME NEW n \in Node, ClockTicks(n) PROVE StageTypeOK'
  BY <1>7 DEF ClockTicks
<1> QED BY <1>1, <1>2, <1>3, <1>4, <1>5, <1>6, <1>7 DEF StageNext

\* Every reachable state of the control loop is well typed: what the fence, the
\* running stages and the load in progress hold are attempts.
THEOREM StageTypeSafety == StageSpec => []StageTypeOK
  BY TypeInit, TypeStep, PTL DEF StageSpec

-------------------------------------------------------------------------------
(* One node: what its handlers do to NodeOK *)

\* All stages of a model on a node are one stage: they match the same claim,
\* so they are of one run.
LEMMA OneStage ==
  ASSUME NEW fence, NEW running, NEW load, NodeOK(fence, running, load),
         NEW s \in running, NEW t \in running, s.gen.key = t.gen.key
  PROVE  s = t
<1>1. PICK c \in fence : c.key = s.gen.key /\ c.run = s.gen.run
  BY DEF NodeOK, HoldsEpoch, HeldFor, SameClaimEpoch
<1>2. PICK d \in fence : d.key = t.gen.key /\ d.run = t.gen.run
  BY DEF NodeOK, HoldsEpoch, HeldFor, SameClaimEpoch
<1>3. c = d
  BY <1>1, <1>2 DEF NodeOK
<1> QED BY <1>1, <1>2, <1>3 DEF NodeOK

\* An accepted claim, when every stage of the model with another epoch is gone.
LEMMA InstallKeepsNodeOK ==
  ASSUME NEW fence, NEW running, NEW kept \in SUBSET running, NEW g,
         NodeOK(fence, running, {}),
         \A s \in kept : s.gen.key = g.key =>
            /\ s.gen.term = g.term
            /\ SameClaimEpoch(g, s.gen)
  PROVE  NodeOK(InstallClaim(fence, g), kept, {})
<1> DEFINE next == InstallClaim(fence, g)
<1>1. \A c, d \in next : c.key = d.key => c = d
  BY DEF InstallClaim, HeldFor, NodeOK
<1>2. ASSUME NEW s \in kept PROVE HoldsEpoch(next, s.gen)
  <2>1. CASE s.gen.key = g.key
    <3>1. g \in HeldFor(next, s.gen.key)
      BY <2>1 DEF InstallClaim, HeldFor
    <3> QED BY <3>1, <2>1, <1>2 DEF HoldsEpoch
  <2>2. CASE s.gen.key # g.key
    <3>1. HeldFor(next, s.gen.key) = HeldFor(fence, s.gen.key)
      BY <2>2 DEF InstallClaim, HeldFor
    <3> QED BY <3>1, <1>2 DEF HoldsEpoch, NodeOK
  <2> QED BY <2>1, <2>2
<1> QED BY <1>1, <1>2 DEF NodeOK

\* Without a newer term the accepted claim is the held one again.
LEMMA RenewalKeepsNodeOK ==
  ASSUME NEW fence \in SUBSET Generation, NEW running, NEW g \in Generation, NEW now,
         NodeOK(fence, running, {}),
         AcceptsClaim(fence, g, now), ~Supersedes(fence, g)
  PROVE  NodeOK(InstallClaim(fence, g), running, {})
<1>1. ASSUME NEW s \in running, s.gen.key = g.key
      PROVE  s.gen.term = g.term /\ SameClaimEpoch(g, s.gen)
  <2>1. PICK held \in HeldFor(fence, g.key) :
            held.term = s.gen.term /\ SameClaimEpoch(held, s.gen)
    BY <1>1 DEF NodeOK, HoldsEpoch
  <2>2. g.term \in Nat /\ held.term \in Nat
    BY GenerationAssumption DEF HeldFor
  <2>3. g.term = held.term
    BY <2>2 DEF AcceptsClaim, Supersedes
  <2>4. SameClaimEpoch(g, held)
    BY <2>3 DEF AcceptsClaim
  <2> QED BY <2>1, <2>3, <2>4 DEF SameClaimEpoch
<1> QED BY <1>1, InstallKeepsNodeOK

\* A newer term keeps NodeOK once one stage of the model, if any, is gone.
LEMMA SupersedingKeepsNodeOK ==
  ASSUME NEW fence \in SUBSET Generation, NEW running, NEW kept \in SUBSET running,
         NEW g \in Generation, NEW now,
         NodeOK(fence, running, {}),
         AcceptsClaim(fence, g, now), Supersedes(fence, g),
         \A s \in running : s.gen.key = g.key /\ s.gen.term < g.term => s \notin kept
  PROVE  NodeOK(InstallClaim(fence, g), kept, {})
<1>1. ASSUME NEW s \in kept, s.gen.key = g.key PROVE FALSE
  <2>1. PICK held \in HeldFor(fence, g.key) : held.term = s.gen.term
    BY <1>1 DEF NodeOK, HoldsEpoch
  <2>2. PICK old \in HeldFor(fence, g.key) : g.term > old.term
    BY DEF Supersedes
  <2>3. held = old
    BY DEF HeldFor, NodeOK
  <2> QED BY <1>1, <2>1, <2>2, <2>3
<1> QED BY <1>1, InstallKeepsNodeOK

\* A load that was let through speaks for the claim held.
LEMMA ValidatedLoadHeld ==
  ASSUME NEW fence, NEW g, NEW now, ValidatesLoad(fence, g, now)
  PROVE  HoldsEpoch(fence, g)
  BY DEF ValidatesLoad, HoldsEpoch, SameClaimEpoch, HeldFor

\* Steps of a node that only shed stages or end the load keep NodeOK.
LEMMA SheddingKeepsNodeOK ==
  ASSUME NEW fence, NEW running, NEW load, NEW kept \in SUBSET running,
         NEW rest \in SUBSET load, NodeOK(fence, running, load)
  PROVE  NodeOK(fence, kept, rest)
  BY DEF NodeOK

-------------------------------------------------------------------------------
(* The inductive invariant *)

\* The strengthened invariant holds when every node starts.
LEMMA InvInit == StageInit => StageInv
<1> SUFFICES ASSUME StageInit PROVE StageInv
  OBVIOUS
<1>1. StageTypeOK
  BY TypeInit
<1>2. \A n \in Node : NodeOK(claims[n], stages[n], loading[n])
  BY DEF StageInit, NodeOK
<1> QED BY <1>1, <1>2 DEF StageInv

\* Every step keeps it; the handlers of one node leave the others alone.
LEMMA InvStep == StageInv /\ [StageNext]_stageVars => StageInv'
<1> SUFFICES ASSUME StageInv, [StageNext]_stageVars PROVE StageInv'
  OBVIOUS
<1>0. StageTypeOK /\ StageTypeOK'
  BY TypeStep DEF StageInv
<1> DEFINE Ok(n) == NodeOK(claims[n], stages[n], loading[n])
<1>a. \A n \in Node : Ok(n)
  BY DEF StageInv
<1> SUFFICES \A m \in Node : Ok(m)'
  BY <1>0 DEF StageInv
<1>1. CASE UNCHANGED stageVars
  BY <1>1, <1>a DEF stageVars
\* Every other node is left alone.
<1>2. ASSUME NEW n \in Node,
             \A m \in Node \ {n} : /\ claims'[m] = claims[m]
                                   /\ stages'[m] = stages[m]
                                   /\ loading'[m] = loading[m],
             Ok(n)'
      PROVE  \A m \in Node : Ok(m)'
  BY <1>2, <1>a
<1>3. ASSUME NEW n \in Node, NEW g \in Generation, HandleClaim(n, g)
      PROVE  \A m \in Node : Ok(m)'
  <2>0. /\ claims[n] \in SUBSET Generation
        /\ \A m \in Node \ {n} : /\ claims'[m] = claims[m]
                                 /\ stages'[m] = stages[m]
                                 /\ loading'[m] = loading[m]
    BY <1>0, <1>3 DEF StageTypeOK, HandleClaim, ClaimAccepted, ClaimFenceFailed,
                      ClaimRejected, stageVars
  <2>1. CASE ClaimAccepted(n, g)
    <3>1. /\ loading[n] = {} /\ loading'[n] = {}
          /\ claims'[n] = InstallClaim(claims[n], g)
          /\ AcceptsClaim(claims[n], g, clock[n])
      BY <1>0, <2>1 DEF ClaimAccepted, Idle, StageTypeOK
    <3>2. CASE Supersedes(claims[n], g)
      <4>1. stages'[n] = stages[n] \ StaleStages(n, g)
        BY <1>0, <2>1, <3>2 DEF ClaimAccepted, StageTypeOK
      <4>2. NodeOK(InstallClaim(claims[n], g), stages'[n], {})
        BY <1>a, <2>0, <3>1, <3>2, <4>1, SupersedingKeepsNodeOK DEF StaleStages
      <4> QED BY <4>2, <3>1, <2>0, <1>2
    <3>3. CASE ~Supersedes(claims[n], g)
      <4>1. stages'[n] = stages[n]
        BY <1>0, <2>1, <3>3 DEF ClaimAccepted, StageTypeOK
      <4>2. NodeOK(InstallClaim(claims[n], g), stages'[n], {})
        BY <1>a, <2>0, <3>1, <3>3, <4>1, RenewalKeepsNodeOK
      <4> QED BY <4>2, <3>1, <2>0, <1>2
    <3> QED BY <3>2, <3>3
  <2>2. CASE ClaimFenceFailed(n, g)
    <3>1. /\ loading[n] = {} /\ loading'[n] = {}
          /\ claims'[n] = InstallClaim(claims[n], g)
          /\ AcceptsClaim(claims[n], g, clock[n])
          /\ Supersedes(claims[n], g)
      BY <1>0, <2>2 DEF ClaimFenceFailed, Idle, StageTypeOK
    <3>2. PICK dead \in StaleStages(n, g) :
            /\ stages'[n] \in SUBSET stages[n]
            /\ dead \notin stages'[n]
      BY <1>0, <2>2 DEF ClaimFenceFailed, StageTypeOK
    <3>3. \A s \in stages[n] : s.gen.key = g.key => s = dead
      BY <1>a, <3>2, OneStage DEF StaleStages
    <3>4. NodeOK(InstallClaim(claims[n], g), stages'[n], {})
      BY <1>a, <2>0, <3>1, <3>2, <3>3, SupersedingKeepsNodeOK
    <3> QED BY <3>4, <3>1, <2>0, <1>2
  <2>3. CASE ClaimRejected(n, g)
    BY <2>3, <1>1 DEF ClaimRejected
  <2> QED BY <1>3, <2>1, <2>2, <2>3 DEF HandleClaim
<1>4. ASSUME NEW n \in Node, NEW g \in Generation, HandleLoad(n, g)
      PROVE  \A m \in Node : Ok(m)'
  <2>0. \A m \in Node \ {n} : /\ claims'[m] = claims[m]
                              /\ stages'[m] = stages[m]
                              /\ loading'[m] = loading[m]
    BY <1>0, <1>4 DEF StageTypeOK, HandleLoad, LoadRejected, LoadAuthorized, ProceedLoad,
         LoadSourceFailed, LoadPackageFailed, LoadReady, LoadClearsKey, LoadClearFailed,
         LoadProbeFailed, LoadStarted, stageVars
  <2>1. CASE LoadRejected(n, g)
    BY <2>1, <1>1 DEF LoadRejected
  <2>2. CASE LoadAuthorized(n, g)
    <3>1. /\ claims'[n] = claims[n] /\ stages'[n] = stages[n]
          /\ loading'[n] = {[gen |-> g, step |-> "resolving"]}
          /\ HoldsEpoch(claims[n], g)
      BY <1>0, <2>2, ValidatedLoadHeld DEF LoadAuthorized, StageTypeOK
    <3>2. NodeOK(claims[n], stages[n], {[gen |-> g, step |-> "resolving"]})
      BY <1>a, <3>1 DEF NodeOK
    <3> QED BY <3>1, <3>2, <2>0, <1>2
  <2>3. CASE \/ LoadSourceFailed(n, g) \/ LoadPackageFailed(n, g) \/ LoadReady(n, g)
             \/ LoadClearFailed(n, g) \/ LoadProbeFailed(n, g)
    <3>1. claims'[n] = claims[n] /\ stages'[n] \in SUBSET stages[n] /\ loading'[n] = {}
      BY <1>0, <2>3 DEF LoadSourceFailed, LoadPackageFailed, LoadReady, LoadClearFailed,
           LoadProbeFailed, StageTypeOK
    <3>2. NodeOK(claims[n], stages'[n], {})
      BY <1>a, <3>1, SheddingKeepsNodeOK
    <3> QED BY <3>1, <3>2, <2>0, <1>2
  <2>4. CASE LoadClearsKey(n, g)
    <3>1. /\ claims'[n] = claims[n] /\ stages'[n] = stages[n] \ StageOfRun(n, g)
          /\ loading'[n] = {[gen |-> g, step |-> "starting"]}
          /\ [gen |-> g, step |-> "resolving"] \in loading[n]
      BY <1>0, <2>4 DEF LoadClearsKey, LoadAt, StageTypeOK
    <3>2. HoldsEpoch(claims[n], g)
      BY <1>a, <3>1 DEF NodeOK
    <3>3. \A s \in stages'[n] : s.gen.run # g.run
      BY <3>1 DEF StageOfRun
    <3>4. NodeOK(claims[n], stages'[n], {[gen |-> g, step |-> "starting"]})
      BY <1>a, <3>1, <3>2, <3>3 DEF NodeOK
    <3> QED BY <3>1, <3>4, <2>0, <1>2
  <2>5. CASE LoadStarted(n, g)
    <3> DEFINE stage == [gen |-> g, up |-> TRUE]
    <3>1. /\ claims'[n] = claims[n] /\ stages'[n] = stages[n] \cup {stage}
          /\ loading'[n] = {[gen |-> g, step |-> "probing"]}
          /\ [gen |-> g, step |-> "starting"] \in loading[n]
      BY <1>0, <2>5 DEF LoadStarted, LoadAt, StageTypeOK
    <3>2. HoldsEpoch(claims[n], g) /\ \A s \in stages[n] : s.gen.run # g.run
      BY <1>a, <3>1 DEF NodeOK
    <3>a. stage.gen = g
      OBVIOUS
    <3> HIDE DEF stage
    <3>b. \A s \in stages'[n] : HoldsEpoch(claims[n], s.gen)
      BY <1>a, <3>1, <3>2, <3>a DEF NodeOK
    <3>c. \A s, t \in stages'[n] : s.gen.run = t.gen.run => s = t
      BY <1>a, <3>1, <3>2, <3>a DEF NodeOK
    <3>3. NodeOK(claims[n], stages'[n], {[gen |-> g, step |-> "probing"]})
      BY <1>a, <3>2, <3>b, <3>c DEF NodeOK
    <3> QED BY <3>1, <3>3, <2>0, <1>2
  <2> QED BY <1>4, <2>1, <2>2, <2>3, <2>4, <2>5 DEF HandleLoad, ProceedLoad
<1>5. ASSUME NEW n \in Node, NEW g \in Generation, NEW num, HandleStop(n, g, num)
      PROVE  \A m \in Node : Ok(m)'
  <2>1. /\ claims' = claims /\ loading' = loading
        /\ stages'[n] \in SUBSET stages[n]
        /\ \A m \in Node \ {n} : stages'[m] = stages[m]
    BY <1>0, <1>5 DEF HandleStop, StopApplied, StopIgnored, stageVars, StageTypeOK
  <2>2. NodeOK(claims[n], stages'[n], loading[n])
    BY <1>a, <2>1, SheddingKeepsNodeOK
  <2> QED BY <2>1, <2>2, <1>2
<1>6. ASSUME NEW n \in Node, NEW s \in stages[n], StageDies(n, s)
      PROVE  \A m \in Node : Ok(m)'
  <2> DEFINE dead == [s EXCEPT !.up = FALSE]
  <2>1. stages[n] \in SUBSET RunningStage
    BY <1>0 DEF StageTypeOK
  <2>2. /\ claims' = claims /\ loading' = loading
        /\ stages'[n] = (stages[n] \ {s}) \cup {dead}
        /\ \A m \in Node \ {n} : stages'[m] = stages[m]
    BY <1>0, <1>6 DEF StageDies, StageTypeOK
  <2>3. dead.gen = s.gen
    BY <1>6, <2>1 DEF RunningStage
  <2> HIDE DEF dead
  <2>a. \A t \in stages'[n] : HoldsEpoch(claims[n], t.gen)
    BY <1>6, <1>a, <2>2, <2>3 DEF NodeOK
  <2>b. \A t, u \in stages'[n] : t.gen.run = u.gen.run => t = u
    BY <1>6, <1>a, <2>2, <2>3 DEF NodeOK
  <2>c. \A l \in loading[n] :
          l.step = "starting" => \A t \in stages'[n] : t.gen.run # l.gen.run
    BY <1>6, <1>a, <2>2, <2>3 DEF NodeOK
  <2>4. NodeOK(claims[n], stages'[n], loading[n])
    BY <1>a, <2>a, <2>b, <2>c DEF NodeOK
  <2> QED BY <2>2, <2>4, <1>2
<1>7. ASSUME NEW n \in Node, NodeRestarts(n) PROVE \A m \in Node : Ok(m)'
  <2>1. /\ claims'[n] = {} /\ stages'[n] = {} /\ loading'[n] = {}
        /\ \A m \in Node \ {n} : /\ claims'[m] = claims[m]
                                 /\ stages'[m] = stages[m]
                                 /\ loading'[m] = loading[m]
    BY <1>0, <1>7 DEF NodeRestarts, StageTypeOK
  <2>2. NodeOK({}, {}, {})
    BY DEF NodeOK
  <2> QED BY <2>1, <2>2, <1>2
<1>8. ASSUME NEW n \in Node, ClockTicks(n) PROVE \A m \in Node : Ok(m)'
  BY <1>8, <1>a DEF ClockTicks
<1> QED BY <1>1, <1>3, <1>4, <1>5, <1>6, <1>7, <1>8 DEF StageNext

\* So it holds in every reachable state.
LEMMA InvSafety == StageSpec => []StageInv
  BY InvInit, InvStep, PTL DEF StageSpec

-------------------------------------------------------------------------------
(* The theorems *)

\* Every stage and every load in progress belongs to the claim its node holds:
\* fence_stale_runtime_for_claim, validate_load_claim and the one-at-a-time
\* control loop together keep superseded coordinators off the node.
THEOREM StagesAlwaysBelongToClaim == StageSpec => []StagesBelongToClaim
<1>1. StageInv => StagesBelongToClaim
  BY DEF StageInv, NodeOK, StagesBelongToClaim
<1> QED BY <1>1, InvSafety, PTL

\* A node never runs the stages of two coordinators for one model.
THEOREM AlwaysOneStagePerKey == StageSpec => []OneStagePerKey
<1>1. StageInv => OneStagePerKey
  BY OneStage DEF StageInv, OneStagePerKey
<1> QED BY <1>1, InvSafety, PTL
===============================================================================
