--------------------------- MODULE FencedSlotProofs ---------------------------
(***************************************************************************)
(* The stage control loop never goes back to an older claim, and it        *)
(* implements the abstract FencedSlot, for any constants.                  *)
(***************************************************************************)
EXTENDS StageControlProofs

-------------------------------------------------------------------------------
(* Claims only advance *)

\* accept_claim lets a term through only if it is newer, or the same epoch.
LEMMA InstallAdvances ==
  ASSUME NEW fence \in SUBSET Generation, NEW g \in Generation, NEW now,
         AcceptsClaim(fence, g, now), NEW c \in fence
  PROVE  \E d \in InstallClaim(fence, g) :
            /\ d.key = c.key
            /\ d.term >= c.term
            /\ d.term = c.term => SameClaimEpoch(c, d)
<1>1. c.term \in Nat
  BY GenerationAssumption
<1>2. CASE c.key = g.key
  <2>1. g \in InstallClaim(fence, g) /\ c \in HeldFor(fence, g.key)
    BY <1>2 DEF InstallClaim, HeldFor
  <2> QED BY <1>1, <1>2, <2>1 DEF AcceptsClaim, SameClaimEpoch
<1>3. CASE c.key # g.key
  <2>1. c \in InstallClaim(fence, g)
    BY <1>3 DEF InstallClaim, HeldFor
  <2> QED BY <1>1, <2>1 DEF SameClaimEpoch
<1> QED BY <1>2, <1>3

\* The claim handler, and nothing else, changes a fence that survives.
LEMMA FenceStep == StageTypeOK /\ [StageNext]_stageVars => [FenceAdvances]_stageVars
<1> SUFFICES ASSUME StageTypeOK, StageNext PROVE FenceAdvances
  OBVIOUS
<1>1. ASSUME UNCHANGED claims PROVE FenceAdvances
  <2>1. \A n \in Node : \A c \in claims[n] : c.term \in Nat
    BY GenerationAssumption DEF StageTypeOK
  <2> QED BY <1>1, <2>1 DEF FenceAdvances, SameClaimEpoch
<1>2. ASSUME NEW n \in Node, NEW g \in Generation,
             AcceptsClaim(claims[n], g, clock[n]),
             claims' = [claims EXCEPT ![n] = InstallClaim(@, g)]
      PROVE  FenceAdvances
  <2> SUFFICES ASSUME NEW m \in Node, NEW c \in claims[m]
               PROVE  \E d \in claims'[m] :
                        /\ d.key = c.key
                        /\ d.term >= c.term
                        /\ d.term = c.term => SameClaimEpoch(c, d)
    BY DEF FenceAdvances
  <2>1. claims[m] \in SUBSET Generation /\ c.term \in Nat
    BY GenerationAssumption DEF StageTypeOK
  <2>2. CASE m = n
    <3>1. claims'[m] = InstallClaim(claims[n], g)
      BY <1>2, <2>2 DEF StageTypeOK
    <3> QED BY <1>2, <2>1, <2>2, <3>1, InstallAdvances
  <2>3. CASE m # n
    <3>1. claims'[m] = claims[m]
      BY <1>2, <2>3 DEF StageTypeOK
    <3> QED BY <2>1, <3>1 DEF SameClaimEpoch
  <2> QED BY <2>2, <2>3
<1>3. ASSUME NEW n \in Node, NEW g \in Generation, HandleClaim(n, g)
      PROVE  FenceAdvances
  <2>1. CASE ClaimRejected(n, g)
    BY <2>1, <1>1 DEF ClaimRejected, stageVars
  <2>2. CASE ClaimAccepted(n, g) \/ ClaimFenceFailed(n, g)
    BY <2>2, <1>2 DEF ClaimAccepted, ClaimFenceFailed
  <2> QED BY <1>3, <2>1, <2>2 DEF HandleClaim
<1>4. ASSUME NEW n \in Node, NEW g \in Generation, HandleLoad(n, g)
      PROVE  FenceAdvances
  BY <1>1, <1>4 DEF HandleLoad, LoadRejected, LoadAuthorized, ProceedLoad, LoadSourceFailed,
     LoadPackageFailed, LoadReady, LoadClearsKey, LoadClearFailed, LoadProbeFailed,
     LoadStarted, stageVars
<1>5. ASSUME NEW n \in Node, NEW g \in Generation, NEW num, HandleStop(n, g, num)
      PROVE  FenceAdvances
  BY <1>1, <1>5 DEF HandleStop, StopApplied, StopIgnored, stageVars
<1>6. ASSUME NEW n \in Node, NodeRestarts(n) PROVE FenceAdvances
  <2> SUFFICES ASSUME NEW m \in Node, m # n, NEW c \in claims[m]
               PROVE  \E d \in claims'[m] : d = c /\ c.term \in Nat
    BY <1>6 DEF NodeRestarts, FenceAdvances, SameClaimEpoch, StageTypeOK
  <2> QED BY <1>6, GenerationAssumption DEF NodeRestarts, StageTypeOK
<1>7. ASSUME NEW n \in Node, ClockTicks(n) \/ \E s \in stages[n] : StageDies(n, s)
      PROVE  FenceAdvances
  BY <1>1, <1>7 DEF ClockTicks, StageDies
<1> QED BY <1>3, <1>4, <1>5, <1>6, <1>7 DEF StageNext

\* A living node never returns to an older coordinator, nor changes it within a
\* term, whether or not the lease it granted has run out.
THEOREM ClaimsOnlyAdvance == StageSpec => ClaimNeverGoesBack
  BY StageTypeSafety, FenceStep, PTL DEF StageSpec, ClaimNeverGoesBack

-------------------------------------------------------------------------------
(* Refinement of FencedSlot.  Owners and Workers are the abstract state of  *)
(* one node.                                                                *)

Owners(fence) == {EpochOf(c) : c \in fence}
Workers(running) == {EpochOf(s.gen) : s \in running}

\* Equal epochs agree in everything but lease and number.
LEMMA EpochEquality ==
  ASSUME NEW g, NEW h
  PROVE  EpochOf(g) = EpochOf(h) <=> g.term = h.term /\ SameClaimEpoch(g, h)
  BY DEF EpochOf, SameClaimEpoch

\* The key and the term of an attempt are those of its epoch.
LEMMA EpochFields ==
  ASSUME NEW g
  PROVE  EpochOf(g).key = g.key /\ EpochOf(g).term = g.term
  BY DEF EpochOf

\* What a fence vouches for is an owner.
LEMMA HeldOwns ==
  ASSUME NEW fence, NEW g, HoldsEpoch(fence, g)
  PROVE  EpochOf(g) \in Owners(fence)
  BY EpochEquality DEF HoldsEpoch, HeldFor, Owners

\* Installing a claim hands the slot of its model over.
LEMMA InstallOwners ==
  ASSUME NEW fence, NEW g
  PROVE  Owners(InstallClaim(fence, g)) =
            (Owners(fence) \ Slot!SameKey(Owners(fence), EpochOf(g))) \cup {EpochOf(g)}
<1> HIDE DEF EpochOf
<1>1. \A c \in fence : EpochOf(c).key = EpochOf(g).key <=> c.key = g.key
  BY EpochFields
<1> QED BY <1>1 DEF Owners, InstallClaim, HeldFor, Slot!SameKey

\* Taking the stages of a model away empties its slot of work.
LEMMA ClearingWorkers ==
  ASSUME NEW running, NEW kept \in SUBSET running, NEW g,
         \A s \in running : s.gen.key = g.key <=> s \notin kept
  PROVE  Workers(kept) = Workers(running) \ Slot!SameKey(Workers(running), EpochOf(g))
<1>1. \A s \in running : EpochOf(s.gen).key = EpochOf(g).key <=> s.gen.key = g.key
  BY EpochFields
<1> QED BY <1>1 DEF Workers, Slot!SameKey

\* The slot of e's model is handed to e, which is newer.
Grants(held, next, work, rest, e) ==
    /\ \A o \in Slot!SameKey(held, e) : o.term < e.term
    /\ next = (held \ Slot!SameKey(held, e)) \cup {e}
    /\ rest = work \ Slot!SameKey(work, e)

\* An accepted claim is a grant to a newer term, or changes nothing.
LEMMA ClaimGrants ==
  ASSUME NEW fence \in SUBSET Generation, NEW running, NEW g \in Generation, NEW now,
         NodeOK(fence, running, {}), AcceptsClaim(fence, g, now),
         NEW kept \in SUBSET running,
         Supersedes(fence, g) => \A s \in running : s.gen.key = g.key <=> s \notin kept,
         ~Supersedes(fence, g) => kept = running
  PROVE  \/ /\ Owners(InstallClaim(fence, g)) = Owners(fence)
            /\ Workers(kept) = Workers(running)
         \/ Grants(Owners(fence), Owners(InstallClaim(fence, g)),
                   Workers(running), Workers(kept), EpochOf(g))
<1>0. g.term \in Nat /\ \A c \in fence : c.term \in Nat
  BY GenerationAssumption
<1>1. ASSUME NEW held \in HeldFor(fence, g.key), held.term = g.term
      PROVE  Owners(InstallClaim(fence, g)) = Owners(fence) /\ Workers(kept) = Workers(running)
  <2>1. EpochOf(held) = EpochOf(g)
    BY <1>1, EpochEquality DEF AcceptsClaim, SameClaimEpoch
  <2>2. held \in fence /\ held.key = g.key /\ HeldFor(fence, g.key) = {held}
    BY <1>1 DEF HeldFor, NodeOK
  <2>3. Owners(InstallClaim(fence, g)) = Owners(fence)
    BY <2>1, <2>2 DEF Owners, InstallClaim
  <2>4. ~Supersedes(fence, g)
    BY <1>0, <1>1, <2>2 DEF Supersedes
  <2> QED BY <2>3, <2>4
<1>2. ASSUME \A held \in HeldFor(fence, g.key) : held.term # g.term
      PROVE  /\ \A o \in Slot!SameKey(Owners(fence), EpochOf(g)) : o.term < EpochOf(g).term
             /\ Workers(kept) = Workers(running) \ Slot!SameKey(Workers(running), EpochOf(g))
  <2>1. \A c \in HeldFor(fence, g.key) : c.term < g.term
    BY <1>0, <1>2 DEF AcceptsClaim, HeldFor
  <2>2. \A o \in Slot!SameKey(Owners(fence), EpochOf(g)) : o.term < EpochOf(g).term
    BY <2>1, EpochFields DEF Owners, Slot!SameKey, HeldFor
  <2>3. ~Supersedes(fence, g) => HeldFor(fence, g.key) = {}
    BY <1>0, <2>1 DEF Supersedes, HeldFor
  <2>4. HeldFor(fence, g.key) = {} => \A s \in running : s.gen.key # g.key
    BY DEF NodeOK, HoldsEpoch, HeldFor
  <2>5. \A s \in running : s.gen.key = g.key <=> s \notin kept
    BY <2>3, <2>4
  <2> QED BY <2>2, <2>5, ClearingWorkers
<1> QED BY <1>1, <1>2, InstallOwners DEF Grants

\* At most one epoch of those at work leaves.
Leaves(running, kept) ==
    \/ Workers(kept) = Workers(running)
    \/ \E s \in running :
        /\ EpochOf(s.gen) \in Workers(running)
        /\ Workers(kept) = Workers(running) \ {EpochOf(s.gen)}

\* A running stage leaves: its epoch rests, and no other.
LEMMA LeavingRests ==
  ASSUME NEW fence, NEW running, NEW load, NodeOK(fence, running, load), NEW g,
         NEW kept, kept = running \ {s \in running : s.gen.run = g.run}
  PROVE  Leaves(running, kept)
<1>1. CASE \A s \in running : s.gen.run # g.run
  <2>1. kept = running
    BY <1>1
  <2> QED BY <2>1 DEF Leaves
<1>2. ASSUME NEW s \in running, s.gen.run = g.run
      PROVE  /\ EpochOf(s.gen) \in Workers(running)
             /\ Workers(kept) = Workers(running) \ {EpochOf(s.gen)}
  <2>1. kept = running \ {s}
    BY <1>2 DEF NodeOK
  <2>2. \A t \in running : EpochOf(t.gen) = EpochOf(s.gen) => t = s
    BY EpochEquality DEF NodeOK, SameClaimEpoch
  <2> QED BY <2>1, <2>2 DEF Workers
<1> QED BY <1>1, <1>2 DEF Leaves

\* Nodes other than n keep their fences and stages.
OnlyNode(n) ==
    \A m \in Node \ {n} : claims'[m] = claims[m] /\ stages'[m] = stages[m]

\* A step that leaves owners and workers of n as they are is a stutter.
LEMMA SlotStutter ==
  ASSUME NEW n \in Node, OnlyNode(n),
         Owners(claims'[n]) = Owners(claims[n]), Workers(stages'[n]) = Workers(stages[n])
  PROVE  UNCHANGED Slot!slotVars
<1> HIDE DEF EpochOf
<1>1. \A m \in Node : /\ Owners(claims'[m]) = Owners(claims[m])
                      /\ Workers(stages'[m]) = Workers(stages[m])
  BY DEF OnlyNode
<1> QED BY <1>1 DEF Slot!slotVars, Owners, Workers

\* A grant at node n is a Grant of the slot.
LEMMA SlotGrants ==
  ASSUME NEW n \in Node, NEW g \in Generation, OnlyNode(n),
         \A o \in Slot!SameKey(Owners(claims[n]), EpochOf(g)) : o.term < EpochOf(g).term,
         Owners(claims'[n]) =
            (Owners(claims[n]) \ Slot!SameKey(Owners(claims[n]), EpochOf(g))) \cup {EpochOf(g)},
         Workers(stages'[n]) =
            Workers(stages[n]) \ Slot!SameKey(Workers(stages[n]), EpochOf(g))
  PROVE  Slot!SlotNext
<1> HIDE DEF EpochOf
<1>1. Slot!Grant(n, EpochOf(g))
  BY DEF OnlyNode, Slot!Grant, Slot!SameKey, Owners, Workers
<1> QED BY <1>1 DEF Slot!SlotNext

\* A stage started for the owner is a Work step.
LEMMA SlotWorks ==
  ASSUME NEW n \in Node, NEW g \in Generation, claims' = claims, OnlyNode(n),
         EpochOf(g) \in Owners(claims[n]),
         Workers(stages'[n]) = Workers(stages[n]) \cup {EpochOf(g)}
  PROVE  Slot!SlotNext
<1> HIDE DEF EpochOf
<1>1. Slot!Work(n, EpochOf(g))
  BY DEF OnlyNode, Slot!Work, Owners, Workers
<1> QED BY <1>1 DEF Slot!SlotNext

\* The end of a stage is a Rest step.
LEMMA SlotRests ==
  ASSUME NEW n \in Node, NEW g \in Generation, claims' = claims, OnlyNode(n),
         EpochOf(g) \in Workers(stages[n]),
         Workers(stages'[n]) = Workers(stages[n]) \ {EpochOf(g)}
  PROVE  Slot!SlotNext
<1> HIDE DEF EpochOf
<1>1. Slot!Rest(n, EpochOf(g))
  BY DEF OnlyNode, Slot!Rest, Owners, Workers
<1> QED BY <1>1 DEF Slot!SlotNext

\* The restart of a node, whose fence is in memory, is a Forget step.
LEMMA SlotForgets ==
  ASSUME NEW n \in Node, OnlyNode(n), claims'[n] = {}, stages'[n] = {}
  PROVE  Slot!SlotNext
<1> HIDE DEF EpochOf
<1>1. Slot!Forget(n)
  BY DEF OnlyNode, Slot!Forget
<1> QED BY <1>1 DEF Slot!SlotNext

\* Nodes start with free slots.
LEMMA SlotStarts == StageInit => Slot!SlotInit
  BY DEF StageInit, Slot!SlotInit

\* Every step of the control loop is a step of the slot, or changes nothing there.
LEMMA SlotStep ==
  StageInv /\ StageInv' /\ [StageNext]_stageVars => [Slot!SlotNext]_(Slot!slotVars)
<1> SUFFICES ASSUME StageInv, StageInv', [StageNext]_stageVars
             PROVE  [Slot!SlotNext]_(Slot!slotVars)
  OBVIOUS
<1>0. StageTypeOK /\ \A n \in Node : NodeOK(claims[n], stages[n], loading[n])
  BY DEF StageInv
<1>1. ASSUME UNCHANGED <<claims, stages>> PROVE UNCHANGED Slot!slotVars
  BY <1>1 DEF Slot!slotVars
<1>2. ASSUME NEW n \in Node, NEW g \in Generation, HandleClaim(n, g)
      PROVE  [Slot!SlotNext]_(Slot!slotVars)
  <2>1. CASE ClaimRejected(n, g)
    BY <2>1, <1>1 DEF ClaimRejected, stageVars
  <2>2. ASSUME claims'[n] = InstallClaim(claims[n], g), OnlyNode(n), loading[n] = {},
               AcceptsClaim(claims[n], g, clock[n]), stages'[n] \in SUBSET stages[n],
               Supersedes(claims[n], g) =>
                  \A s \in stages[n] : s.gen.key = g.key <=> s \notin stages'[n],
               ~Supersedes(claims[n], g) => stages'[n] = stages[n]
        PROVE  [Slot!SlotNext]_(Slot!slotVars)
    <3>1. claims[n] \in SUBSET Generation /\ NodeOK(claims[n], stages[n], {})
      BY <1>0, <2>2 DEF StageTypeOK
    <3> DEFINE e == EpochOf(g)
               held == Owners(claims[n])
               next == Owners(claims'[n])
               work == Workers(stages[n])
               rest == Workers(stages'[n])
    <3>2. (next = held /\ rest = work) \/ Grants(held, next, work, rest, e)
      BY <2>2, <3>1, ClaimGrants
    <3>3. CASE next = held /\ rest = work
      BY <2>2, <3>3, SlotStutter
    <3>4. CASE Grants(held, next, work, rest, e)
      BY <2>2, <3>4, SlotGrants DEF Grants
    <3> QED BY <3>2, <3>3, <3>4
  <2>3. \A s \in stages[n] : Supersedes(claims[n], g) /\ s.gen.key = g.key
                                => s \in StaleStages(n, g)
    <3> SUFFICES ASSUME NEW s \in stages[n], Supersedes(claims[n], g), s.gen.key = g.key
                 PROVE  s.gen.term < g.term
      BY DEF StaleStages
    <3>1. PICK held \in HeldFor(claims[n], g.key) : held.term = s.gen.term
      BY <1>0 DEF NodeOK, HoldsEpoch
    <3>2. PICK old \in HeldFor(claims[n], g.key) : g.term > old.term
      BY DEF Supersedes
    <3>3. held = old
      BY <1>0 DEF HeldFor, NodeOK
    <3> QED BY <3>1, <3>2, <3>3
  <2>4. CASE ClaimAccepted(n, g)
    <3>1. /\ claims'[n] = InstallClaim(claims[n], g)
          /\ stages'[n] = IF Supersedes(claims[n], g) THEN stages[n] \ StaleStages(n, g)
                          ELSE stages[n]
          /\ OnlyNode(n) /\ loading[n] = {} /\ AcceptsClaim(claims[n], g, clock[n])
      BY <1>0, <2>4 DEF ClaimAccepted, StageTypeOK, OnlyNode, Idle
    <3> QED BY <2>2, <2>3, <3>1 DEF StaleStages
  <2>5. CASE ClaimFenceFailed(n, g)
    <3>1. PICK dead \in StaleStages(n, g) :
            \E before \in SUBSET (StaleStages(n, g) \ {dead}) :
                stages'[n] = stages[n] \ (before \cup {dead})
      BY <1>0, <2>5 DEF ClaimFenceFailed, StageTypeOK
    <3>2. \A s \in stages[n] : s.gen.key = g.key => s = dead
      BY <1>0, <3>1, OneStage DEF StaleStages
    <3>3. \A s \in stages[n] : s.gen.key = g.key <=> s \notin stages'[n]
      BY <3>1, <3>2 DEF StaleStages
    <3>4. /\ claims'[n] = InstallClaim(claims[n], g) /\ Supersedes(claims[n], g)
          /\ OnlyNode(n) /\ loading[n] = {} /\ AcceptsClaim(claims[n], g, clock[n])
      BY <1>0, <2>5 DEF ClaimFenceFailed, StageTypeOK, OnlyNode, Idle
    <3> QED BY <2>2, <3>1, <3>3, <3>4
  <2> QED BY <1>2, <2>1, <2>4, <2>5 DEF HandleClaim
\* A stage key is cleared: by a load, after a failed probe, or by a stop.
<1>3. ASSUME NEW n \in Node, NEW g \in Generation, claims' = claims,
             stages' = [stages EXCEPT ![n] = @ \ StageOfRun(n, g)]
      PROVE  [Slot!SlotNext]_(Slot!slotVars)
  <2>1. OnlyNode(n) /\ stages'[n] = stages[n] \ {s \in stages[n] : s.gen.run = g.run}
    BY <1>0, <1>3 DEF StageTypeOK, OnlyNode, StageOfRun
  <2>2. \A s \in stages[n] : s.gen \in Generation
    BY <1>0 DEF StageTypeOK, RunningStage
  <2>3. Leaves(stages[n], stages'[n])
    BY <1>0, <2>1, LeavingRests
  <2>4. CASE Workers(stages'[n]) = Workers(stages[n])
    BY <1>3, <2>1, <2>4, SlotStutter
  <2>5. ASSUME NEW s \in stages[n],
               EpochOf(s.gen) \in Workers(stages[n]),
               Workers(stages'[n]) = Workers(stages[n]) \ {EpochOf(s.gen)}
        PROVE  Slot!SlotNext
    BY <1>3, <2>1, <2>2, <2>5, SlotRests
  <2> QED BY <2>3, <2>4, <2>5 DEF Leaves
<1>4. ASSUME NEW n \in Node, NEW g \in Generation, HandleLoad(n, g)
      PROVE  [Slot!SlotNext]_(Slot!slotVars)
  <2>1. CASE \/ LoadRejected(n, g) \/ LoadAuthorized(n, g) \/ LoadSourceFailed(n, g)
             \/ LoadPackageFailed(n, g) \/ LoadReady(n, g)
    BY <2>1, <1>1 DEF LoadRejected, LoadAuthorized, LoadSourceFailed, LoadPackageFailed,
       LoadReady, stageVars
  <2>2. CASE LoadClearsKey(n, g) \/ LoadClearFailed(n, g) \/ LoadProbeFailed(n, g)
    BY <2>2, <1>3 DEF LoadClearsKey, LoadClearFailed, LoadProbeFailed
  <2>3. CASE LoadStarted(n, g)
    <3> DEFINE stage == [gen |-> g, up |-> TRUE]
    <3>1. /\ claims' = claims /\ stages'[n] = stages[n] \cup {stage} /\ OnlyNode(n)
          /\ [gen |-> g, step |-> "starting"] \in loading[n]
      BY <1>0, <2>3 DEF LoadStarted, LoadAt, StageTypeOK, OnlyNode
    <3>2. HoldsEpoch(claims[n], g)
      BY <1>0, <3>1 DEF NodeOK
    <3>3. stage.gen = g
      OBVIOUS
    <3> HIDE DEF stage
    <3>4. Workers(stages'[n]) = Workers(stages[n]) \cup {EpochOf(g)}
      BY <3>1, <3>3 DEF Workers
    <3> QED BY <3>1, <3>2, <3>4, HeldOwns, SlotWorks
  <2> QED BY <1>4, <2>1, <2>2, <2>3 DEF HandleLoad, ProceedLoad
<1>5. ASSUME NEW n \in Node, NEW g \in Generation, NEW num, HandleStop(n, g, num)
      PROVE  [Slot!SlotNext]_(Slot!slotVars)
  BY <1>1, <1>3, <1>5 DEF HandleStop, StopApplied, StopIgnored, stageVars
<1>6. ASSUME NEW n \in Node, NEW s \in stages[n], StageDies(n, s)
      PROVE  [Slot!SlotNext]_(Slot!slotVars)
  <2> DEFINE dead == [s EXCEPT !.up = FALSE]
  <2>1. /\ claims' = claims /\ OnlyNode(n)
        /\ stages'[n] = (stages[n] \ {s}) \cup {dead}
    BY <1>0, <1>6 DEF StageDies, StageTypeOK, OnlyNode
  <2>2. dead.gen = s.gen
    BY <1>0, <1>6 DEF StageTypeOK, RunningStage
  <2> HIDE DEF dead
  <2>3. Workers(stages'[n]) = Workers(stages[n])
    BY <1>6, <2>1, <2>2 DEF Workers
  <2> QED BY <2>1, <2>3, SlotStutter
<1>7. ASSUME NEW n \in Node, NodeRestarts(n)
      PROVE  [Slot!SlotNext]_(Slot!slotVars)
  <2>1. OnlyNode(n) /\ claims'[n] = {} /\ stages'[n] = {}
    BY <1>0, <1>7 DEF NodeRestarts, StageTypeOK, OnlyNode
  <2> QED BY <2>1, SlotForgets
<1>8. ASSUME NEW n \in Node, ClockTicks(n)
      PROVE  [Slot!SlotNext]_(Slot!slotVars)
  BY <1>1, <1>8 DEF ClockTicks
<1>9. CASE UNCHANGED stageVars
  BY <1>1, <1>9 DEF stageVars
<1> QED BY <1>2, <1>4, <1>5, <1>6, <1>7, <1>8, <1>9 DEF StageNext

\* The control loop implements the fenced slot: fencing by term, however claims,
\* loads, stops, deaths and restarts cross, comes to one owner per model and
\* work done by the owner only.
THEOREM ControlLoopImplementsSlot == StageSpec => ImplementsFencedSlot
<1>1. StageSpec => Slot!SlotInit
  BY SlotStarts DEF StageSpec
<1> QED BY <1>1, SlotStep, InvSafety, PTL DEF StageSpec, ImplementsFencedSlot, Slot!SlotSpec
===============================================================================
