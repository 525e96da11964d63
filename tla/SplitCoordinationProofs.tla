------------------------ MODULE SplitCoordinationProofs ------------------------
(***************************************************************************)
(* Safety of split coordination for any set of nodes, coordinators and     *)
(* attempts, any plans, and any mix of faults.  BaseInv is the shape of    *)
(* every coordinator's work; on it stand four invariants of their own:     *)
(* QuorumInv (no load without a majority), MeterInv (compute meters),      *)
(* KeeperInv (every stage is in somebody's hands) and RouteInv (what is    *)
(* published or on its way there is touched by nobody else).               *)
(***************************************************************************)
EXTENDS SplitCoordination, FencedSlotProofs, FiniteSetTheorems

-------------------------------------------------------------------------------
(* The shape of a coordinator's work.  Underway is an attempt that may     *)
(* still be published.                                                     *)

\* Phases in which a generation is being made.
Underway == {"claiming", "loading", "opening", "publishing"}

\* What a job is.
JobType == [phase : Phase, gen : SUBSET Generation, pos : Nat, accepts : Nat,
            num : Nat, then : {"resume", "leave", "end"}]

\* What a job c works on, by phase: its generation, node and counters.
JobOK(c, j, published, begun) ==
    /\ j \in JobType
    /\ j.gen \subseteq begun \ published
    /\ \A g, h \in j.gen : g = h
    /\ j.phase \in Underway \cup {"stopping"} <=> j.gen # {}
    /\ \A g \in j.gen :
        /\ g.coord = c
        /\ j.phase = "claiming" => j.pos \in 1..Len(g.plan)
        /\ j.phase \in {"loading", "stopping"} => j.pos \in 2..Len(g.plan)
        /\ j.phase \in Underway => j.num = g.num /\ \A h \in published : g.num = h.num + 1
        /\ j.phase = "stopping" => j.num >= g.num /\ j.num \in StopGeneration

\* A published generation is the own, begun one of its coordinator.
PublishedOK(c, published, begun) ==
    /\ published \subseteq begun
    /\ \A g \in published : g.coord = c
    /\ \A g, h \in published : g = h

\* A call still out is to a node of the plan of a generation begun.
LateOK(m, begun) ==
    /\ m \in Request
    /\ m.gen \in begun
    /\ m.num \in StopGeneration
    /\ m.kind = "claiming" => m.num = m.gen.num

\* The shape of every coordinator's work, on which all else stands.
BaseInv ==
    /\ SplitTypeOK
    /\ \A c \in Coordinator : JobOK(c, job[c], active[c], made) /\ PublishedOK(c, active[c], made)
    /\ \A m \in late : LateOK(m, made)
    /\ route = active
    /\ meters \subseteq made

\* What a generation carries.
LEMMA GenerationFacts ==
  ASSUME NEW g \in Generation
  PROVE  /\ g.coord \in Coordinator /\ g.coord \in Node
         /\ g.num \in Nat /\ g.num < ShutdownAll /\ ShutdownAll \in Nat
         /\ g.num \in StopGeneration /\ g.num + 1 \in StopGeneration /\ ShutdownAll \in StopGeneration
         /\ g.plan \in Seq(Node) /\ Len(g.plan) \in Nat /\ Len(g.plan) >= 2
         /\ \A i \in 1..Len(g.plan) : g.plan[i] \in Node
         /\ \A i, j \in 1..Len(g.plan) : g.plan[i] = g.plan[j] => i = j
<1>1. g \in [run : Run, key : Key, coord : Coordinator, plan : Plan,
             term : Nat, lease : Nat, num : Nat]
  BY GenerationAssumption
<1>2. g.plan \in Seq(Node) /\ DOMAIN g.plan = 1..Len(g.plan)
  BY SplitAssumption
<1>3. /\ Coordinator \subseteq Node
      /\ ShutdownAll \in StopGeneration \cap Nat
      /\ {g.num, g.num + 1} \subseteq StopGeneration
      /\ Len(g.plan) >= 2
      /\ \A i, j \in DOMAIN g.plan : g.plan[i] = g.plan[j] => i = j
      /\ g.num < ShutdownAll
  BY SplitAssumption
<1>4. Len(g.plan) \in Nat /\ \A i \in 1..Len(g.plan) : g.plan[i] \in Node
  BY <1>2
<1>5. \A i, j \in 1..Len(g.plan) : g.plan[i] = g.plan[j] => i = j
  BY <1>2, <1>3
<1>6. g.coord \in Coordinator /\ g.num \in Nat
  BY <1>1
<1> QED BY <1>2, <1>3, <1>4, <1>5, <1>6

\* The fields of a request.
LEMMA ReqFields ==
  ASSUME NEW kind, NEW g, NEW n, NEW num
  PROVE  /\ Req(kind, g, n, num).kind = kind /\ Req(kind, g, n, num).gen = g
         /\ Req(kind, g, n, num).to = n /\ Req(kind, g, n, num).num = num
  BY DEF Req

\* What a coordinator waits for, in terms of its job.
LEMMA CallingFacts ==
  ASSUME NEW c \in Coordinator, JobOK(c, job[c], active[c], made), NEW m \in Calling(c)
  PROVE  /\ m \in Request
         /\ m.gen \in job[c].gen /\ m.gen \in Generation /\ m.gen.coord = c
         /\ job[c].gen = {m.gen}
         /\ m.kind = job[c].phase /\ job[c].phase \in CallPhase
         /\ m.num = job[c].num /\ m.num \in StopGeneration
         /\ job[c].pos \in 1..Len(m.gen.plan)
         /\ m.to = m.gen.plan[job[c].pos]
         /\ m.kind = "claiming" => m.num = m.gen.num
<1>1. PICK g \in job[c].gen : /\ job[c].phase \in CallPhase
                              /\ m = Req(job[c].phase, g, g.plan[job[c].pos], job[c].num)
  BY DEF Calling
<1>2. g \in Generation /\ job[c] \in JobType /\ job[c].num \in Nat /\ job[c].pos \in Nat
  BY <1>1 DEF JobOK, JobType
<1>3. job[c].pos \in 1..Len(g.plan)
  BY <1>1, <1>2, GenerationFacts DEF JobOK, CallPhase
<1>4. m.kind = job[c].phase /\ m.gen = g /\ m.to = g.plan[job[c].pos] /\ m.num = job[c].num
  BY <1>1, ReqFields
<1>5. m \in Request
  BY <1>1, <1>2, <1>3, GenerationFacts DEF Req, Request
<1>6. job[c].num \in StopGeneration
  BY <1>1, <1>2, GenerationFacts DEF JobOK, CallPhase, Underway
<1>7. job[c].phase = "claiming" => job[c].num = g.num
  BY <1>1 DEF JobOK, Underway
<1> QED BY <1>1, <1>2, <1>3, <1>4, <1>5, <1>6, <1>7 DEF JobOK

\* A call in this very phase, to the node it stands at, is the one waited for.
LEMMA IsCalling ==
  ASSUME NEW c \in Coordinator, NEW g \in job[c].gen, job[c].phase \in CallPhase
  PROVE  Req(job[c].phase, g, g.plan[job[c].pos], job[c].num) \in Calling(c)
  BY DEF Calling

\* A call out to a node is one of the three kinds, with its fields.
LEMMA PendingFacts ==
  ASSUME BaseInv, NEW m \in Pending
  PROVE  LateOK(m, made) /\ m.gen \in Generation /\ m.to \in Node /\ m.gen.coord \in Coordinator
<1>1. CASE m \in late
  BY <1>1, GenerationFacts DEF BaseInv, LateOK, Request
<1>2. ASSUME NEW c \in Coordinator, m \in Calling(c) PROVE LateOK(m, made)
  BY <1>2, CallingFacts DEF BaseInv, LateOK, JobOK
<1>3. LateOK(m, made)
  BY <1>1, <1>2 DEF Pending, BaseInv
<1> QED BY <1>3, GenerationFacts DEF LateOK, Request

-------------------------------------------------------------------------------
(* What becomes of a job when its call is answered *)

\* A job at rest holds no generation.
LEMMA RestFacts ==
  ASSUME NEW phase \in {"idle", "leaving", "ended"}
  PROVE  /\ Rest(phase) \in JobType
         /\ Rest(phase).phase = phase /\ Rest(phase).gen = {}
         /\ \A c, published, begun : JobOK(c, Rest(phase), published, begun)
  BY DEF Rest, JobType, Phase, CallPhase, JobOK, Underway

\* A job that stopped a generation goes on as it was told, or rests.
LEMMA FinishFacts ==
  ASSUME NEW then \in {"resume", "leave", "end"}
  PROVE  /\ Finish(then) \in JobType
         /\ Finish(then).phase \in {"idle", "leaving", "ended"} /\ Finish(then).gen = {}
         /\ \A c, published, begun : JobOK(c, Finish(then), published, begun)
<1>1. \E phase \in {"idle", "leaving", "ended"} : Finish(then) = Rest(phase)
  BY DEF Finish
<1> QED BY <1>1, RestFacts

\* A job that stops a generation holds it and starts at its first node.
LEMMA StoppingFacts ==
  ASSUME NEW g \in Generation, NEW num \in Nat, num >= g.num, num \in StopGeneration,
         NEW then \in {"resume", "leave", "end"}
  PROVE  /\ Stopping(g, num, then) \in JobType
         /\ Stopping(g, num, then).phase = "stopping" /\ Stopping(g, num, then).gen = {g}
         /\ Stopping(g, num, then).pos = 2 /\ Stopping(g, num, then).num = num
         /\ \A published, begun :
                g \in begun \ published => JobOK(g.coord, Stopping(g, num, then), published, begun)
<1>1. Stopping(g, num, then) \in JobType
  BY DEF Stopping, JobType, Phase, CallPhase
<1>2. /\ Stopping(g, num, then).phase = "stopping" /\ Stopping(g, num, then).gen = {g}
      /\ Stopping(g, num, then).pos = 2 /\ Stopping(g, num, then).num = num
  BY DEF Stopping
<1>3. 2 \in 2..Len(g.plan)
  BY GenerationFacts
<1> HIDE DEF Stopping
<1> QED BY <1>1, <1>2, <1>3 DEF JobOK, Underway

\* A job that claims holds the new generation and no acceptance yet.
LEMMA ClaimingFacts ==
  ASSUME NEW g \in Generation, NEW then \in {"resume", "leave", "end"}
  PROVE  /\ Claiming(g, then) \in JobType
         /\ Claiming(g, then).phase = "claiming" /\ Claiming(g, then).gen = {g}
         /\ Claiming(g, then).pos = 1 /\ Claiming(g, then).accepts = 0
         /\ Claiming(g, then).num = g.num
         /\ \A published, begun :
                /\ g \in begun \ published
                /\ \A h \in published : g.num = h.num + 1
                => JobOK(g.coord, Claiming(g, then), published, begun)
<1>1. Claiming(g, then) \in JobType
  BY GenerationFacts DEF Claiming, JobType, Phase, CallPhase
<1>2. /\ Claiming(g, then).phase = "claiming" /\ Claiming(g, then).gen = {g}
      /\ Claiming(g, then).pos = 1 /\ Claiming(g, then).accepts = 0
      /\ Claiming(g, then).num = g.num
  BY DEF Claiming
<1>3. 1 \in 1..Len(g.plan)
  BY GenerationFacts
<1> HIDE DEF Claiming
<1> QED BY <1>1, <1>2, <1>3 DEF JobOK, Underway

\* An answered claim: the next one, the loads of a majority's attempt from the
\* last stage, or nothing.
LEMMA AfterClaimFacts ==
  ASSUME NEW j \in JobType, NEW g \in Generation, j.phase = "claiming", NEW ok \in BOOLEAN
  PROVE  LET k == AfterClaim(j, g, ok)
             accepts == j.accepts + IF ok THEN 1 ELSE 0
         IN  /\ k \in JobType
             /\ \/ /\ j.pos < Len(g.plan)
                   /\ k.phase = "claiming" /\ k.gen = j.gen /\ k.pos = j.pos + 1
                   /\ k.num = j.num /\ k.accepts = accepts
                \/ /\ ~(j.pos < Len(g.plan)) /\ accepts >= QuorumRequirement(Len(g.plan))
                   /\ k.phase = "loading" /\ k.gen = j.gen /\ k.pos = j.pos /\ k.num = j.num
                \/ /\ k.phase \in {"idle", "leaving", "ended"} /\ k.gen = {}
                   /\ \A c, published, begun : JobOK(c, k, published, begun)
<1> DEFINE accepts == j.accepts + IF ok THEN 1 ELSE 0
<1>1. j.then \in {"resume", "leave", "end"} /\ j.pos \in Nat /\ accepts \in Nat
  BY DEF JobType
<1>2. CASE j.pos < Len(g.plan)
  <2> DEFINE k == AfterClaim(j, g, ok)
  <2>1. PICK pos \in Nat, votes \in Nat : pos = j.pos + 1 /\ votes = accepts
    BY <1>1
  <2>2. k = [j EXCEPT !.pos = pos, !.accepts = votes]
    BY <1>2, <2>1 DEF AfterClaim
  <2>3. /\ k \in JobType /\ k.phase = j.phase /\ k.gen = j.gen
        /\ k.pos = pos /\ k.num = j.num /\ k.accepts = votes
    BY <2>2 DEF JobType
  <2> HIDE DEF k
  <2> QED BY <1>2, <2>1, <2>3 DEF k
<1>3. CASE ~(j.pos < Len(g.plan)) /\ accepts >= QuorumRequirement(Len(g.plan))
  <2>1. AfterClaim(j, g, ok) = [j EXCEPT !.phase = "loading", !.accepts = 0]
    BY <1>3 DEF AfterClaim
  <2>2. LET k == [j EXCEPT !.phase = "loading", !.accepts = 0]
        IN  /\ k \in JobType /\ k.phase = "loading" /\ k.gen = j.gen
            /\ k.pos = j.pos /\ k.num = j.num
    BY <1>1 DEF JobType, Phase, CallPhase
  <2> QED BY <1>3, <2>1, <2>2
<1>4. CASE ~(j.pos < Len(g.plan)) /\ ~(accepts >= QuorumRequirement(Len(g.plan)))
  <2>1. AfterClaim(j, g, ok) = Finish(j.then)
    BY <1>4 DEF AfterClaim
  <2> QED BY <1>1, <2>1, FinishFacts
<1> QED BY <1>2, <1>3, <1>4

\* An answered load: the one before it, the opening of stage 0, or the clean-up.
LEMMA AfterLoadFacts ==
  ASSUME NEW j \in JobType, NEW g \in Generation, j.phase = "loading", NEW ok \in BOOLEAN
  PROVE  LET k == AfterLoad(j, g, ok)
         IN  \/ /\ ok /\ j.pos > 2 /\ k \in JobType
                /\ k.phase = "loading" /\ k.gen = j.gen /\ k.pos = j.pos - 1 /\ k.num = j.num
             \/ /\ ok /\ ~(j.pos > 2) /\ k \in JobType
                /\ k.phase = "opening" /\ k.gen = j.gen /\ k.num = j.num
             \/ ~ok /\ k = Stopping(g, g.num, j.then)
<1>1. j.pos \in Nat
  BY DEF JobType
<1>2. CASE ok /\ j.pos > 2
  <2>1. AfterLoad(j, g, ok) = [j EXCEPT !.pos = @ - 1]
    BY <1>2 DEF AfterLoad
  <2>2. LET k == [j EXCEPT !.pos = @ - 1]
        IN  /\ k \in JobType /\ k.phase = j.phase /\ k.gen = j.gen
            /\ k.pos = j.pos - 1 /\ k.num = j.num
    BY <1>1, <1>2 DEF JobType
  <2> QED BY <1>2, <2>1, <2>2
<1>3. CASE ok /\ ~(j.pos > 2)
  <2>1. AfterLoad(j, g, ok) = [j EXCEPT !.phase = "opening", !.pos = 0]
    BY <1>3 DEF AfterLoad
  <2>2. LET k == [j EXCEPT !.phase = "opening", !.pos = 0]
        IN  k \in JobType /\ k.phase = "opening" /\ k.gen = j.gen /\ k.num = j.num
    BY <1>1 DEF JobType, Phase, CallPhase
  <2> QED BY <1>3, <2>1, <2>2
<1>4. CASE ~ok
  BY <1>4 DEF AfterLoad
<1> QED BY <1>2, <1>3, <1>4

\* An answered stop: the next one, or nothing.
LEMMA AfterStopFacts ==
  ASSUME NEW j \in JobType, NEW g \in Generation, j.phase = "stopping"
  PROVE  LET k == AfterStop(j, g)
         IN  /\ k \in JobType
             /\ \/ /\ j.pos < Len(g.plan)
                   /\ k.phase = "stopping" /\ k.gen = j.gen /\ k.pos = j.pos + 1 /\ k.num = j.num
                \/ /\ ~(j.pos < Len(g.plan))
                   /\ k.phase \in {"idle", "leaving", "ended"} /\ k.gen = {}
                   /\ \A c, published, begun : JobOK(c, k, published, begun)
<1>1. j.then \in {"resume", "leave", "end"} /\ j.pos \in Nat
  BY DEF JobType
<1>2. CASE j.pos < Len(g.plan)
  <2>1. AfterStop(j, g) = [j EXCEPT !.pos = @ + 1]
    BY <1>2 DEF AfterStop
  <2> QED BY <1>1, <1>2, <2>1 DEF JobType
<1>3. CASE ~(j.pos < Len(g.plan))
  <2>1. AfterStop(j, g) = Finish(j.then)
    BY <1>3 DEF AfterStop
  <2> QED BY <1>1, <1>3, <2>1, FinishFacts
<1> QED BY <1>2, <1>3

\* The call that is answered decides which of the three it is.
LEMMA AfterIs ==
  ASSUME NEW j, NEW g, NEW ok
  PROVE  /\ j.phase = "claiming" => After(j, g, ok) = AfterClaim(j, g, ok)
         /\ j.phase = "loading" => After(j, g, ok) = AfterLoad(j, g, ok)
         /\ j.phase = "stopping" => After(j, g, ok) = AfterStop(j, g)
  BY DEF After

\* Whatever the answer, the job keeps its shape, and its generation or none.
LEMMA AfterKeepsJob ==
  ASSUME NEW c, NEW published, NEW begun, NEW j, JobOK(c, j, published, begun),
         NEW g \in j.gen, j.phase \in CallPhase, NEW ok \in BOOLEAN
  PROVE  /\ JobOK(c, After(j, g, ok), published, begun)
         /\ After(j, g, ok).gen \in {{g}, {}}
         /\ After(j, g, ok).phase # "publishing"
<1>1. /\ j \in JobType /\ g \in Generation /\ j.gen = {g} /\ g.coord = c
      /\ g \in begun \ published /\ j.pos \in Nat /\ j.num \in Nat
      /\ j.then \in {"resume", "leave", "end"}
  BY DEF JobOK, JobType
<1>2. CASE j.phase = "claiming"
  <2> DEFINE k == AfterClaim(j, g, ok)
  <2>1. CASE /\ j.pos < Len(g.plan) /\ k \in JobType
             /\ k.phase = "claiming" /\ k.gen = j.gen /\ k.pos = j.pos + 1
             /\ k.num = j.num
    <3>1. k.pos \in 1..Len(g.plan)
      BY <2>1, <1>1, GenerationFacts
    <3> HIDE DEF k
    <3>2. JobOK(c, k, published, begun)
      BY <3>1, <2>1, <1>1, <1>2 DEF JobOK, Underway
    <3> QED BY <3>2, <2>1, <1>1, <1>2, AfterIs DEF k
  <2>2. CASE /\ ~(j.pos < Len(g.plan)) /\ k \in JobType
             /\ k.phase = "loading" /\ k.gen = j.gen /\ k.pos = j.pos /\ k.num = j.num
    <3>1. j.pos \in 1..Len(g.plan)
      BY <1>2 DEF JobOK
    <3>2. k.pos \in 2..Len(g.plan)
      BY <2>2, <3>1, <1>1, GenerationFacts
    <3> HIDE DEF k
    <3>3. JobOK(c, k, published, begun)
      BY <3>2, <2>2, <1>1, <1>2 DEF JobOK, Underway
    <3> QED BY <3>3, <2>2, <1>1, <1>2, AfterIs DEF k
  <2>3. CASE k.phase \in {"idle", "leaving", "ended"} /\ k.gen = {} /\ JobOK(c, k, published, begun)
    <3> HIDE DEF k
    <3> QED BY <2>3, <1>2, AfterIs DEF k
  <2> HIDE DEF k
  <2> QED BY <2>1, <2>2, <2>3, <1>1, <1>2, AfterClaimFacts DEF k
<1>3. CASE j.phase = "loading"
  <2> DEFINE k == AfterLoad(j, g, ok)
  <2>1. j.pos \in 2..Len(g.plan) /\ j.num = g.num
    BY <1>3 DEF JobOK, Underway
  <2>2. CASE /\ j.pos > 2 /\ k \in JobType
             /\ k.phase = "loading" /\ k.gen = j.gen /\ k.pos = j.pos - 1 /\ k.num = j.num
    <3>1. k.pos \in 2..Len(g.plan)
      BY <2>1, <2>2, <1>1, GenerationFacts
    <3> HIDE DEF k
    <3>2. JobOK(c, k, published, begun)
      BY <3>1, <2>1, <2>2, <1>1, <1>3 DEF JobOK, Underway
    <3> QED BY <3>2, <2>2, <1>1, <1>3, AfterIs DEF k
  <2>3. CASE k \in JobType /\ k.phase = "opening" /\ k.gen = j.gen /\ k.num = j.num
    <3> HIDE DEF k
    <3>1. JobOK(c, k, published, begun)
      BY <2>1, <2>3, <1>1, <1>3 DEF JobOK, Underway
    <3> QED BY <3>1, <2>3, <1>1, <1>3, AfterIs DEF k
  <2>4. CASE k = Stopping(g, g.num, j.then)
    <3> HIDE DEF k
    <3>1. JobOK(c, k, published, begun) /\ k.gen = {g} /\ k.phase = "stopping"
      BY <2>4, <1>1, GenerationFacts, StoppingFacts
    <3> QED BY <3>1, <1>3, AfterIs DEF k
  <2> HIDE DEF k
  <2> QED BY <2>2, <2>3, <2>4, <1>1, <1>3, AfterLoadFacts DEF k
<1>4. CASE j.phase = "stopping"
  <2> DEFINE k == AfterStop(j, g)
  <2>1. CASE /\ j.pos < Len(g.plan) /\ k \in JobType
             /\ k.phase = "stopping" /\ k.gen = j.gen /\ k.pos = j.pos + 1 /\ k.num = j.num
    <3>1. j.pos \in 2..Len(g.plan)
      BY <1>4 DEF JobOK
    <3>2. k.pos \in 2..Len(g.plan)
      BY <2>1, <3>1, <1>1, GenerationFacts
    <3> HIDE DEF k
    <3>3. JobOK(c, k, published, begun)
      BY <3>2, <2>1, <1>1, <1>4 DEF JobOK, Underway
    <3> QED BY <3>3, <2>1, <1>1, <1>4, AfterIs DEF k
  <2>2. CASE k.phase \in {"idle", "leaving", "ended"} /\ k.gen = {} /\ JobOK(c, k, published, begun)
    <3> HIDE DEF k
    <3> QED BY <2>2, <1>4, AfterIs DEF k
  <2> HIDE DEF k
  <2> QED BY <2>1, <2>2, <1>1, <1>4, AfterStopFacts DEF k
<1> QED BY <1>2, <1>3, <1>4 DEF CallPhase

-------------------------------------------------------------------------------
(* Every step of the coordination is one of the control loop, or leaves it *)
(* alone.                                                                  *)

\* Every step is a step of the control loops, or no step of theirs.
LEMMA SplitStepIsStageStep == BaseInv /\ [SplitNext]_vars => [StageNext]_stageVars
<1> SUFFICES ASSUME BaseInv, [SplitNext]_vars PROVE [StageNext]_stageVars
  OBVIOUS
<1>1. CASE UNCHANGED vars
  BY <1>1 DEF vars
<1>2. ASSUME NEW m \in Pending, HandlesClaim(m) \/ HandlesLoad(m) \/ HandlesStop(m)
      PROVE  StageNext
  <2>1. m.to \in Node /\ m.gen \in Generation /\ m.num \in StopGeneration
    BY <1>2, PendingFacts DEF LateOK
  <2>2. CASE HandlesClaim(m)
    BY <2>1, <2>2 DEF HandlesClaim, HandleClaim, StageNext
  <2>3. CASE HandlesLoad(m)
    BY <2>1, <2>3 DEF HandlesLoad, HandleLoad, StageNext
  <2>4. CASE HandlesStop(m)
    BY <2>1, <2>4 DEF HandlesStop, StageNext
  <2> QED BY <1>2, <2>2, <2>3, <2>4
<1>3. ASSUME NEW n \in Node, NEW l \in loading[n], ProceedsLoad(n, l.gen)
      PROVE  StageNext
  <2>1. l.gen \in Generation
    BY <1>3 DEF BaseInv, SplitTypeOK, StageTypeOK
  <2>2. HandleLoad(n, l.gen)
    BY <1>3 DEF ProceedsLoad, HandleLoad, ProceedLoad
  <2> QED BY <2>1, <2>2 DEF StageNext
<1>4. ASSUME NEW c \in Coordinator,
             \/ \E g \in Generation : StartsUp(c, g) \/ Replans(c, g) \/ Replaces(c, g)
             \/ Coordinates(c)
             \/ ModelStops(c)
      PROVE  UNCHANGED stageVars
  BY <1>4 DEF StartsUp, Replans, Replaces, Begins, Coordinates, CallTimesOut, OpensStage0,
              OpenFails, Publishes, LeavesActive, ModelStops
<1>5. ASSUME NEW n \in Node,
             \/ \E s \in stages[n] : StageServerDies(n, s)
             \/ Restarts(n)
             \/ Ticks(n)
      PROVE  StageNext
  BY <1>5 DEF StageServerDies, Restarts, Ticks, StageNext
<1> QED BY <1>1, <1>2, <1>3, <1>4, <1>5 DEF SplitNext

\* What an answer does to the jobs: only the caller that still waits goes on.
LEMMA AnsweredFacts ==
  ASSUME BaseInv, NEW m \in Request, NEW ok \in BOOLEAN, Answered(m, ok)
  PROVE  /\ job' \in [Coordinator -> JobType]
         /\ \A c \in Coordinator : /\ m \notin Calling(c) => job'[c] = job[c]
                                   /\ m \in Calling(c) => job'[c] = After(job[c], m.gen, ok)
                                   /\ JobOK(c, job'[c], active[c], made)
<1>1. m.gen.coord \in Coordinator
  BY GenerationFacts DEF Request
<1>2. \A c \in Coordinator : JobOK(c, job[c], active[c], made) /\ job[c] \in JobType
  BY DEF BaseInv, JobOK
<1>3. \A c \in Coordinator : m \in Calling(c) =>
        /\ c = m.gen.coord /\ m.gen \in job[c].gen /\ job[c].phase \in CallPhase
  BY <1>2, CallingFacts
<1>4. \A c \in Coordinator : m \in Calling(c) =>
        JobOK(c, After(job[c], m.gen, ok), active[c], made)
  BY <1>2, <1>3, AfterKeepsJob
<1>5. job \in [Coordinator -> JobType]
  BY DEF BaseInv, SplitTypeOK, JobType
<1>6. \A c \in Coordinator : /\ m \notin Calling(c) => job'[c] = job[c]
                             /\ m \in Calling(c) => job'[c] = After(job[c], m.gen, ok)
  BY <1>1, <1>3, <1>5 DEF Answered
<1>7. \A c \in Coordinator : JobOK(c, job'[c], active[c], made)
  BY <1>2, <1>4, <1>6
<1>8. job' = [c \in Coordinator |-> job'[c]]
  BY <1>5 DEF Answered
<1> QED BY <1>6, <1>7, <1>8 DEF JobOK

\* What a type-correct next state needs besides the control loop's.
LEMMA BaseOfParts ==
  ASSUME StageTypeOK', job' \in [Coordinator -> JobType],
         \A c \in Coordinator : JobOK(c, job'[c], active'[c], made'),
         \A c \in Coordinator : PublishedOK(c, active'[c], made'),
         active' \in [Coordinator -> SUBSET Generation], route' = active',
         made' \subseteq Generation, meters' \subseteq made', \A m \in late' : LateOK(m, made'),
         grants' \subseteq Run \X Node, forsaken' \subseteq Generation
  PROVE  BaseInv'
<1>1. late' \subseteq Request
  BY DEF LateOK
<1> QED BY <1>1 DEF BaseInv, SplitTypeOK, JobType

\* Where no generation is begun or published, the jobs and the calls decide.
LEMMA BaseOfAnswer ==
  ASSUME BaseInv, StageTypeOK', UNCHANGED <<active, route, meters, made>>,
         job' \in [Coordinator -> JobType],
         \A c \in Coordinator : JobOK(c, job'[c], active[c], made),
         \A m \in late' : LateOK(m, made),
         grants' \subseteq Run \X Node, forsaken' \subseteq Generation
  PROVE  BaseInv'
<1>1. /\ \A c \in Coordinator : PublishedOK(c, active[c], made)
      /\ active \in [Coordinator -> SUBSET Generation] /\ route = active
      /\ made \subseteq Generation /\ meters \subseteq made
  BY DEF BaseInv, SplitTypeOK
<1>2. /\ active' = active /\ route' = active /\ meters' = meters /\ made' = made
  BY <1>1
<1> QED BY <1>1, <1>2, BaseOfParts

\* A call that may outlive its caller is one the caller waits for.
LEMMA UnansweredFacts ==
  ASSUME BaseInv, NEW c \in Coordinator, NEW m \in Unanswered(c)
  PROVE  LateOK(m, made) /\ m \in Calling(c)
<1>1. m \in Calling(c)
  BY DEF Unanswered
<1> QED BY <1>1, PendingFacts DEF Pending

\* Nothing is under way at the start.
LEMMA BaseInit == SplitInit => BaseInv
<1> SUFFICES ASSUME SplitInit PROVE BaseInv
  OBVIOUS
<1>1. StageTypeOK
  BY TypeInit DEF SplitInit
<1>2. Rest("idle") \in JobType /\ \A c : JobOK(c, Rest("idle"), {}, {})
  BY RestFacts
<1>3. \A c : PublishedOK(c, {}, {})
  BY DEF PublishedOK
<1>4. job \in [Coordinator -> JobType] /\ \A c \in Coordinator : job[c] = Rest("idle")
  BY <1>2 DEF SplitInit
<1> QED BY <1>1, <1>2, <1>3, <1>4 DEF SplitInit, BaseInv, SplitTypeOK, JobType

\* A call handled: a claim, a load, a stop, late or not.
LEMMA BaseHandles ==
  ASSUME BaseInv, StageTypeOK', NEW m \in Pending,
         HandlesClaim(m) \/ HandlesLoad(m) \/ HandlesStop(m)
  PROVE  BaseInv'
<1>1. m \in Request /\ m.to \in Node /\ m.gen \in Generation /\ m.gen.run \in Run
  BY PendingFacts, GenerationAssumption DEF LateOK
<1>2. /\ job \in [Coordinator -> JobType]
      /\ \A c \in Coordinator : JobOK(c, job[c], active[c], made)
      /\ \A k \in late : LateOK(k, made)
      /\ grants \subseteq Run \X Node /\ forsaken \subseteq Generation
  BY DEF BaseInv, SplitTypeOK, JobType
<1>3. UNCHANGED <<active, route, meters, made, forsaken>> /\ late' \subseteq late
  BY DEF HandlesClaim, HandlesLoad, HandlesStop
<1>4. grants' \subseteq Run \X Node
  <2>1. grants' = grants \/ grants' = grants \cup {<<m.gen.run, m.to>>}
    BY DEF HandlesClaim, HandlesLoad, HandlesStop
  <2> QED BY <1>1, <1>2, <2>1
<1>5. UNCHANGED job \/ Answered(m, TRUE) \/ Answered(m, FALSE)
  <2>1. HandlesClaim(m) => Answered(m, TRUE) \/ Answered(m, FALSE)
    BY DEF HandlesClaim
  <2>2. HandlesLoad(m) => UNCHANGED job \/ Answered(m, FALSE)
    BY DEF HandlesLoad
  <2>3. HandlesStop(m) => Answered(m, TRUE)
    BY DEF HandlesStop
  <2> QED BY <2>1, <2>2, <2>3
<1>6. /\ job' \in [Coordinator -> JobType]
      /\ \A c \in Coordinator : JobOK(c, job'[c], active[c], made)
  BY <1>1, <1>2, <1>5, AnsweredFacts
<1> QED BY <1>2, <1>3, <1>4, <1>6, BaseOfAnswer

\* A load in progress goes a step further.
LEMMA BaseProceeds ==
  ASSUME BaseInv, StageTypeOK', NEW n \in Node, NEW l \in loading[n], ProceedsLoad(n, l.gen)
  PROVE  BaseInv'
<1> DEFINE m == Req("loading", l.gen, n, l.gen.num)
<1>1. m \in Request
  <2>1. l.gen \in Generation
    BY DEF BaseInv, SplitTypeOK, StageTypeOK
  <2> QED BY <2>1, GenerationFacts DEF Req, Request, CallPhase
<1>2. /\ job \in [Coordinator -> JobType]
      /\ \A c \in Coordinator : JobOK(c, job[c], active[c], made)
      /\ \A k \in late : LateOK(k, made)
      /\ grants \subseteq Run \X Node /\ forsaken \subseteq Generation
  BY DEF BaseInv, SplitTypeOK, JobType
<1>3. UNCHANGED <<active, route, meters, late, made, grants, forsaken>>
  BY DEF ProceedsLoad
<1>5. UNCHANGED job \/ \E ok \in BOOLEAN : Answered(m, ok)
  BY DEF ProceedsLoad
<1>6. /\ job' \in [Coordinator -> JobType]
      /\ \A c \in Coordinator : JobOK(c, job'[c], active[c], made)
  BY <1>1, <1>2, <1>5, AnsweredFacts
<1> QED BY <1>2, <1>3, <1>6, BaseOfAnswer

\* The caller gives up; the node may still handle the call.
LEMMA BaseTimesOut ==
  ASSUME BaseInv, StageTypeOK', NEW c \in Coordinator, CallTimesOut(c)
  PROVE  BaseInv'
<1>1. PICK m \in Calling(c) : Answered(m, FALSE) /\ forsaken' \subseteq forsaken \cup {m.gen}
  BY DEF CallTimesOut
<1>2. m \in Request /\ m.gen \in Generation
  BY PendingFacts DEF Pending, LateOK
<1>3. /\ job' \in [Coordinator -> JobType]
      /\ \A d \in Coordinator : JobOK(d, job'[d], active[d], made)
  BY <1>1, <1>2, AnsweredFacts
<1>4. \A k \in late' : LateOK(k, made)
  <2>1. late' = late \cup Unanswered(c)
    BY DEF CallTimesOut
  <2> QED BY <2>1, UnansweredFacts DEF BaseInv
<1>5. grants' \subseteq Run \X Node /\ forsaken' \subseteq Generation
  BY <1>1, <1>2 DEF CallTimesOut, BaseInv, SplitTypeOK
<1>6. UNCHANGED <<active, route, meters, made>>
  BY DEF CallTimesOut
<1> QED BY <1>3, <1>4, <1>5, <1>6, BaseOfAnswer

\* An attempt is begun under a run nobody has used.
LEMMA BaseBegins ==
  ASSUME BaseInv, StageTypeOK', NEW c \in Coordinator, NEW g \in Generation,
         StartsUp(c, g) \/ Replans(c, g) \/ Replaces(c, g)
  PROVE  BaseInv'
<1>1. PICK then \in {"resume", "leave", "end"} : Begins(c, g, then)
  BY DEF StartsUp, Replans, Replaces
<1>2. \A h \in active[c] : g.num = h.num + 1
  BY DEF StartsUp, Replans, Replaces, BaseInv, PublishedOK
<1>3. /\ job' = [job EXCEPT ![c] = Claiming(g, then)] /\ g \notin made /\ g.coord = c
      /\ made' = made \cup {g}
      /\ UNCHANGED <<active, route, meters, late, grants, forsaken>>
  BY <1>1 DEF Begins
<1>4. Claiming(g, then) \in JobType /\ JobOK(c, Claiming(g, then), active[c], made')
  <2>1. g \in made' \ active[c]
    BY <1>3 DEF BaseInv, PublishedOK
  <2> QED BY <1>1, <1>2, <1>3, <2>1, ClaimingFacts
<1>5. /\ job \in [Coordinator -> JobType]
      /\ \A d \in Coordinator : JobOK(d, job[d], active[d], made) /\ PublishedOK(d, active[d], made)
      /\ \A k \in late : LateOK(k, made)
      /\ active \in [Coordinator -> SUBSET Generation] /\ route = active
      /\ made \subseteq Generation /\ meters \subseteq made
      /\ grants \subseteq Run \X Node /\ forsaken \subseteq Generation
  BY DEF BaseInv, SplitTypeOK, JobType
<1>6. \A d \in Coordinator : JobOK(d, job'[d], active[d], made') /\ PublishedOK(d, active[d], made')
  <2>1. \A d \in Coordinator : JobOK(d, job[d], active[d], made') /\ PublishedOK(d, active[d], made')
    BY <1>3, <1>5 DEF JobOK, PublishedOK
  <2> QED BY <1>3, <1>4, <1>5, <2>1
<1>7. job' \in [Coordinator -> JobType]
  BY <1>3, <1>4, <1>5
<1>8. \A k \in late' : LateOK(k, made')
  BY <1>3, <1>5 DEF LateOK
<1>9. /\ active' = active /\ route' = active' /\ made' \subseteq Generation /\ meters' \subseteq made'
      /\ grants' \subseteq Run \X Node /\ forsaken' \subseteq Generation
  BY <1>3, <1>5
<1> QED BY <1>5, <1>6, <1>7, <1>8, <1>9, BaseOfParts

\* Stage 0 opens, or does not.
LEMMA BaseOpens ==
  ASSUME BaseInv, StageTypeOK', NEW c \in Coordinator, OpensStage0(c) \/ OpenFails(c)
  PROVE  BaseInv'
<1>1. /\ job \in [Coordinator -> JobType]
      /\ \A d \in Coordinator : JobOK(d, job[d], active[d], made) /\ PublishedOK(d, active[d], made)
      /\ \A k \in late : LateOK(k, made)
      /\ active \in [Coordinator -> SUBSET Generation] /\ route = active
      /\ made \subseteq Generation /\ meters \subseteq made
      /\ grants \subseteq Run \X Node /\ forsaken \subseteq Generation
  BY DEF BaseInv, SplitTypeOK, JobType
<1>2. /\ UNCHANGED <<active, route, late, made, grants, forsaken>>
      /\ job[c].phase = "opening"
  BY DEF OpensStage0, OpenFails
<1>3. CASE OpensStage0(c)
  <2> DEFINE k == [job[c] EXCEPT !.phase = "publishing"]
  <2>1. job' = [job EXCEPT ![c] = k] /\ meters' = meters \cup job[c].gen
    BY <1>1, <1>3 DEF OpensStage0
  <2>2. job[c] \in JobType
    BY <1>1
  <2>3. k \in JobType /\ k.phase = "publishing" /\ k.gen = job[c].gen /\ k.num = job[c].num
    BY <2>2 DEF JobType, Phase, CallPhase
  <2> HIDE DEF k
  <2>4. JobOK(c, k, active[c], made)
    BY <1>1, <1>2, <2>3 DEF JobOK, Underway
  <2>5. job' \in [Coordinator -> JobType] /\ \A d \in Coordinator : JobOK(d, job'[d], active[d], made)
    BY <1>1, <2>1, <2>3, <2>4
  <2>6. meters' \subseteq made
    BY <1>1, <2>1 DEF JobOK
  <2> QED BY <1>1, <1>2, <2>5, <2>6, BaseOfParts
<1>4. CASE OpenFails(c)
  <2>1. PICK g \in job[c].gen : job' = [job EXCEPT ![c] = Stopping(g, g.num, @.then)]
    BY <1>4 DEF OpenFails
  <2> DEFINE k == Stopping(g, g.num, job[c].then)
  <2>2. g \in Generation /\ g \in made \ active[c] /\ g.coord = c
        /\ job[c].then \in {"resume", "leave", "end"}
    BY <1>1 DEF JobOK, JobType
  <2>3. k \in JobType /\ JobOK(c, k, active[c], made)
    BY <2>2, GenerationFacts, StoppingFacts
  <2> HIDE DEF k
  <2>4. job' = [job EXCEPT ![c] = k]
    BY <1>1, <2>1 DEF k
  <2>5. job' \in [Coordinator -> JobType] /\ \A d \in Coordinator : JobOK(d, job'[d], active[d], made)
    BY <1>1, <2>3, <2>4
  <2>6. meters' = meters
    BY <1>4 DEF OpenFails
  <2> QED BY <1>1, <1>2, <2>5, <2>6, BaseOfParts
<1> QED BY <1>3, <1>4

\* The new generation is published; the previous one is cleaned up.
LEMMA BasePublishes ==
  ASSUME BaseInv, StageTypeOK', NEW c \in Coordinator, Publishes(c)
  PROVE  BaseInv'
<1>1. /\ job \in [Coordinator -> JobType]
      /\ \A d \in Coordinator : JobOK(d, job[d], active[d], made) /\ PublishedOK(d, active[d], made)
      /\ \A k \in late : LateOK(k, made)
      /\ active \in [Coordinator -> SUBSET Generation] /\ route = active
      /\ made \subseteq Generation /\ meters \subseteq made
      /\ grants \subseteq Run \X Node /\ forsaken \subseteq Generation
  BY DEF BaseInv, SplitTypeOK, JobType
<1>2. /\ UNCHANGED <<late, made, grants, forsaken>> /\ meters' \subseteq meters
      /\ job[c].phase = "publishing"
  BY DEF Publishes, MetersLeft
<1>3. PICK g \in job[c].gen :
        /\ active' = [active EXCEPT ![c] = {g}]
        /\ route' = [route EXCEPT ![c] = {g}]
        /\ \/ active[c] = {} /\ job' = [job EXCEPT ![c] = Rest("idle")]
           \/ \E previous \in active[c] : job' = [job EXCEPT ![c] = Stopping(previous, g.num, "resume")]
  BY DEF Publishes
<1>4. /\ g \in Generation /\ g \in made \ active[c] /\ g.coord = c
      /\ \A h \in active[c] : g.num = h.num + 1
  BY <1>1, <1>2 DEF JobOK, JobType, Underway
<1>5. PICK k \in JobType : job' = [job EXCEPT ![c] = k] /\ JobOK(c, k, {g}, made)
  <2>1. CASE active[c] = {} /\ job' = [job EXCEPT ![c] = Rest("idle")]
    BY <2>1, RestFacts
  <2>2. ASSUME NEW h \in active[c], job' = [job EXCEPT ![c] = Stopping(h, g.num, "resume")]
        PROVE  \E k \in JobType : job' = [job EXCEPT ![c] = k] /\ JobOK(c, k, {g}, made)
    <3>1. h \in Generation /\ h.coord = c /\ h \in made /\ h # g /\ g.num = h.num + 1
      BY <1>1, <1>4, <2>2 DEF PublishedOK
    <3>2. g.num \in Nat /\ g.num >= h.num /\ g.num \in StopGeneration
      BY <1>4, <3>1, GenerationFacts
    <3> QED BY <2>2, <3>1, <3>2, StoppingFacts
  <2> QED BY <1>3, <2>1, <2>2
<1>6. job' \in [Coordinator -> JobType] /\ \A d \in Coordinator : JobOK(d, job'[d], active'[d], made)
  BY <1>1, <1>3, <1>5
<1>7. /\ active' \in [Coordinator -> SUBSET Generation] /\ route' = active'
      /\ \A d \in Coordinator : PublishedOK(d, active'[d], made)
  BY <1>1, <1>3, <1>4 DEF PublishedOK
<1> QED BY <1>1, <1>2, <1>6, <1>7, BaseOfParts

\* The published generation is withdrawn and cleaned up.
LEMMA BaseLeaves ==
  ASSUME BaseInv, StageTypeOK', NEW c \in Coordinator, LeavesActive(c) \/ ModelStops(c)
  PROVE  BaseInv'
<1>1. /\ job \in [Coordinator -> JobType]
      /\ \A d \in Coordinator : JobOK(d, job[d], active[d], made) /\ PublishedOK(d, active[d], made)
      /\ \A k \in late : LateOK(k, made)
      /\ active \in [Coordinator -> SUBSET Generation] /\ route = active
      /\ made \subseteq Generation /\ meters \subseteq made
      /\ grants \subseteq Run \X Node /\ forsaken \subseteq Generation
  BY DEF BaseInv, SplitTypeOK, JobType
<1>2. PICK g \in active[c] : \E num \in {g.num + 1, ShutdownAll}, then \in {"resume", "end"} :
        job' = [job EXCEPT ![c] = Stopping(g, num, then)]
  BY DEF LeavesActive, ModelStops
<1>a. PICK num \in {g.num + 1, ShutdownAll}, then \in {"resume", "end"} :
        job' = [job EXCEPT ![c] = Stopping(g, num, then)]
  BY <1>2
<1>3. /\ active' = [active EXCEPT ![c] = {}] /\ route' = [route EXCEPT ![c] = {}]
      /\ made' = made /\ grants' = grants
  BY DEF LeavesActive, ModelStops
<1>4. job[c].gen \subseteq made /\ job[c].gen \subseteq Generation
  BY <1>1 DEF JobOK, JobType
<1>5. meters' \subseteq made /\ forsaken' \subseteq Generation
  BY <1>1, <1>4 DEF LeavesActive, ModelStops, MetersLeft
<1>6. \A k \in late' : LateOK(k, made)
  <2>1. late' \subseteq late \cup Unanswered(c)
    BY DEF LeavesActive, ModelStops
  <2> QED BY <1>1, <2>1, UnansweredFacts
<1>7. g \in Generation /\ g.coord = c /\ g \in made
  BY <1>1 DEF PublishedOK
<1>8. num \in Nat /\ num >= g.num /\ num \in StopGeneration
  BY <1>a, <1>7, GenerationFacts
<1> DEFINE k == Stopping(g, num, then)
<1>9. k \in JobType /\ JobOK(c, k, {}, made)
  BY <1>a, <1>7, <1>8, StoppingFacts
<1> HIDE DEF k
<1>10. job' \in [Coordinator -> JobType] /\ \A d \in Coordinator : JobOK(d, job'[d], active'[d], made)
  <2>1. job' = [job EXCEPT ![c] = k]
    BY <1>a DEF k
  <2> QED BY <1>1, <1>3, <1>9, <2>1
<1>11. /\ active' \in [Coordinator -> SUBSET Generation] /\ route' = active'
       /\ \A d \in Coordinator : PublishedOK(d, active'[d], made)
  BY <1>1, <1>3 DEF PublishedOK
<1> QED BY <1>1, <1>3, <1>5, <1>6, <1>10, <1>11, BaseOfParts

\* What a restart of node n does to the job of a coordinator elsewhere: a call
\* that n was working on fails.
LEMMA RestartedJob ==
  ASSUME BaseInv, NEW n \in Node, Restarts(n), NEW c \in Coordinator, c # n
  PROVE  \/ job'[c] = job[c] /\ ~\E m \in Calling(c) : m.to = n /\ m \notin Unanswered(c)
         \/ \E m \in Calling(c) :
                /\ m.to = n /\ m \notin Unanswered(c)
                /\ m.gen \in job[c].gen /\ job[c].phase = "loading"
                /\ job'[c] = After(job[c], m.gen, FALSE)
<1>1. JobOK(c, job[c], active[c], made)
  BY DEF BaseInv
<1>2. CASE ~\E m \in Calling(c) : m.to = n /\ m \notin Unanswered(c)
  BY <1>2 DEF Restarts
<1>3. ASSUME NEW m \in Calling(c), m.to = n, m \notin Unanswered(c)
      PROVE  /\ m.gen \in job[c].gen /\ job[c].phase = "loading"
             /\ job'[c] = After(job[c], m.gen, FALSE)
  <2>1. m.kind = "loading" /\ m.kind = job[c].phase /\ job[c].gen = {m.gen}
    BY <1>1, <1>3, CallingFacts DEF Unanswered
  <2>2. job'[c] = After(job[c], CHOOSE g \in job[c].gen : TRUE, FALSE)
    BY <1>3 DEF Restarts
  <2>3. (CHOOSE g \in job[c].gen : TRUE) = m.gen
    BY <2>1
  <2> QED BY <2>1, <2>2, <2>3
<1> QED BY <1>2, <1>3

\* A restart of a node loses its own jobs and keeps the shape of all others.
LEMMA BaseRestarts ==
  ASSUME BaseInv, StageTypeOK', NEW n \in Node, Restarts(n)
  PROVE  BaseInv'
<1>1. /\ job \in [Coordinator -> JobType]
      /\ \A d \in Coordinator : JobOK(d, job[d], active[d], made) /\ PublishedOK(d, active[d], made)
      /\ \A k \in late : LateOK(k, made)
      /\ active \in [Coordinator -> SUBSET Generation] /\ route = active
      /\ made \subseteq Generation /\ meters \subseteq made
      /\ grants \subseteq Run \X Node /\ forsaken \subseteq Generation
  BY DEF BaseInv, SplitTypeOK, JobType
<1>2. ASSUME NEW c \in Coordinator
      PROVE  JobOK(c, job'[c], active'[c], made) /\ PublishedOK(c, active'[c], made)
  <2>1. CASE c = n
    <3>1. job'[c] = Rest("idle") /\ active'[c] = {}
      BY <2>1 DEF Restarts
    <3> QED BY <3>1, RestFacts DEF PublishedOK
  <2>2. CASE c # n
    <3>1. active'[c] = active[c]
      BY <2>2 DEF Restarts
    <3>2. job'[c] = job[c] \/ \E g \in job[c].gen : job[c].phase = "loading"
                                                  /\ job'[c] = After(job[c], g, FALSE)
      BY <2>2, RestartedJob
    <3>3. JobOK(c, job[c], active[c], made) /\ PublishedOK(c, active[c], made)
      BY <1>1
    <3>4. \A g \in job[c].gen :
            job[c].phase = "loading" => JobOK(c, After(job[c], g, FALSE), active[c], made)
      BY <3>3, AfterKeepsJob DEF CallPhase
    <3> QED BY <3>1, <3>2, <3>3, <3>4
  <2> QED BY <2>1, <2>2
<1>3. \A c \in Coordinator : job'[c] \in JobType
  BY <1>2 DEF JobOK
<1>4. job' = [c \in Coordinator |-> job'[c]]
  BY DEF Restarts
<1>5. job' \in [Coordinator -> JobType]
  BY <1>3, <1>4
<1>6. active' \in [Coordinator -> SUBSET Generation] /\ route' = active'
  BY <1>1 DEF Restarts
<1>7. \A k \in late' : LateOK(k, made)
  <2>1. late' = {k \in late : k.to # n}
                \cup (IF n \in Coordinator THEN {k \in Unanswered(n) : k.to # n} ELSE {})
    BY DEF Restarts
  <2> QED BY <1>1, <2>1, UnansweredFacts
<1>8. made' = made /\ grants' = grants /\ meters' \subseteq meters /\ forsaken' \subseteq Generation
  BY <1>1 DEF Restarts
<1> QED BY <1>1, <1>2, <1>5, <1>6, <1>7, <1>8, BaseOfParts

\* Every step keeps the shape of the work.
LEMMA BaseStep == BaseInv /\ [SplitNext]_vars => BaseInv'
<1> SUFFICES ASSUME BaseInv, [SplitNext]_vars PROVE BaseInv'
  OBVIOUS
<1>0. StageTypeOK'
  BY SplitStepIsStageStep, TypeStep DEF BaseInv, SplitTypeOK
<1>1. CASE UNCHANGED splitVars
  BY <1>0, <1>1 DEF splitVars, BaseInv, SplitTypeOK
<1>2. CASE UNCHANGED vars
  BY <1>1, <1>2 DEF vars
<1>3. ASSUME NEW n \in Node, NEW s \in stages[n], StageServerDies(n, s)
      PROVE  UNCHANGED splitVars
  BY <1>3 DEF StageServerDies
<1>4. ASSUME NEW n \in Node, Ticks(n)
      PROVE  UNCHANGED splitVars
  BY <1>4 DEF Ticks
<1> QED BY <1>0, <1>1, <1>2, <1>3, <1>4, BaseHandles, BaseProceeds, BaseTimesOut, BaseBegins,
           BaseOpens, BasePublishes, BaseLeaves, BaseRestarts DEF SplitNext, Coordinates

\* BaseInv holds in every state.
LEMMA BaseSafety == SplitSpec => []BaseInv
  BY BaseInit, BaseStep, PTL DEF SplitSpec

\* The state of coordinators and nodes keeps its types.
THEOREM SplitTyped == SplitSpec => []SplitTypeOK
  BY BaseSafety, PTL DEF BaseInv

\* The nodes of coordinated splits behave as the control loop alone allows:
\* what is proved of it holds of them.
THEOREM SplitsUseControlLoop == SplitSpec => StageSpec
<1>1. SplitInit => StageInit
  BY DEF SplitInit
<1> QED BY <1>1, BaseSafety, SplitStepIsStageStep, PTL DEF SplitSpec, StageSpec

\* Under coordinators that time out, abort, recover and restart, a node still
\* keeps what FencedSlot promises: its stages are of the claim it holds, one a
\* model, and claims only advance.
THEOREM SplitsKeepTheFence ==
    SplitSpec => /\ ImplementsFencedSlot
                 /\ ClaimNeverGoesBack
                 /\ [](StagesBelongToClaim /\ OneStagePerKey)
<1>1. StageSpec => [](StagesBelongToClaim /\ OneStagePerKey)
  BY StagesAlwaysBelongToClaim, AlwaysOneStagePerKey, PTL
<1> QED BY <1>1, SplitsUseControlLoop, ControlLoopImplementsSlot, ClaimsOnlyAdvance

-------------------------------------------------------------------------------
(* A majority before any stage *)

\* The nodes whose fence accepted a claim of g.
Granted(g, acks) == {n \in Node : <<g.run, n>> \in acks}
\* More than half of the plan of g accepted its claim.
HasQuorum(g, acks) == 2 * Cardinality(Granted(g, acks)) > Len(g.plan)

\* The nodes whose claims were answered before position pos.
Asked(g, pos) == {g.plan[i] : i \in 1 .. pos - 1}

\* Acceptances a claiming job counted, and what later phases rest on.
CountOK(j, acks) ==
    \A g \in j.gen :
        /\ j.phase = "claiming" => j.accepts <= Cardinality(Granted(g, acks) \cap Asked(g, j.pos))
        /\ j.phase = "loading" => HasQuorum(g, acks)

\* Claims counted are claims accepted; loads and stages have a majority.
QuorumInv ==
    /\ \A g \in Generation : IsFiniteSet(Granted(g, grants))
    /\ \A c \in Coordinator : CountOK(job[c], grants)
    /\ \A m \in late : m.kind = "loading" => HasQuorum(m.gen, grants)
    /\ \A n \in Node : /\ \A s \in stages[n] : HasQuorum(s.gen, grants)
                       /\ \A l \in loading[n] : HasQuorum(l.gen, grants)

\* Acknowledgements are only added, one at a time.
LEMMA GrantsGrow ==
  ASSUME BaseInv, [SplitNext]_vars
  PROVE  \/ UNCHANGED grants
         \/ \E m \in Pending : grants' = grants \cup {<<m.gen.run, m.to>>}
<1>1. ASSUME NEW m \in Pending, HandlesClaim(m) \/ HandlesLoad(m) \/ HandlesStop(m)
      PROVE  UNCHANGED grants \/ grants' = grants \cup {<<m.gen.run, m.to>>}
  BY <1>1 DEF HandlesClaim, HandlesLoad, HandlesStop
<1>2. CASE UNCHANGED vars
  BY <1>2 DEF vars, splitVars
<1>3. ASSUME NEW n \in Node, NEW l \in loading[n], ProceedsLoad(n, l.gen) PROVE UNCHANGED grants
  BY <1>3 DEF ProceedsLoad
<1>4. ASSUME NEW c \in Coordinator,
             \/ \E g \in Generation : StartsUp(c, g) \/ Replans(c, g) \/ Replaces(c, g)
             \/ Coordinates(c)
             \/ ModelStops(c)
      PROVE  UNCHANGED grants
  BY <1>4 DEF StartsUp, Replans, Replaces, Begins, Coordinates, CallTimesOut, OpensStage0,
              OpenFails, Publishes, LeavesActive, ModelStops
<1>5. ASSUME NEW n \in Node,
             \/ \E s \in stages[n] : StageServerDies(n, s)
             \/ Restarts(n)
             \/ Ticks(n)
      PROVE  UNCHANGED grants
  BY <1>5 DEF StageServerDies, Restarts, Ticks, splitVars
<1> QED BY <1>1, <1>2, <1>3, <1>4, <1>5 DEF SplitNext

\* So what a run was granted only grows, and stays finite.
LEMMA GrantedGrows ==
  ASSUME BaseInv, [SplitNext]_vars, QuorumInv, NEW g \in Generation
  PROVE  /\ Granted(g, grants) \subseteq Granted(g, grants') /\ IsFiniteSet(Granted(g, grants'))
         /\ HasQuorum(g, grants) => HasQuorum(g, grants')
<1>1. IsFiniteSet(Granted(g, grants))
  BY DEF QuorumInv
<1>2. Granted(g, grants') = Granted(g, grants) \/ \E n : Granted(g, grants') = Granted(g, grants) \cup {n}
  <2>1. CASE UNCHANGED grants
    BY <2>1 DEF Granted
  <2>2. ASSUME NEW m \in Pending, grants' = grants \cup {<<m.gen.run, m.to>>}
        PROVE  \/ Granted(g, grants') = Granted(g, grants)
               \/ Granted(g, grants') = Granted(g, grants) \cup {m.to}
    <3>1. m.to \in Node
      BY PendingFacts
    <3>2. \A n \in Node : <<g.run, n>> = <<m.gen.run, m.to>> <=> g.run = m.gen.run /\ n = m.to
      OBVIOUS
    <3>3. CASE g.run = m.gen.run
      BY <2>2, <3>1, <3>2, <3>3 DEF Granted
    <3>4. CASE g.run # m.gen.run
      BY <2>2, <3>2, <3>4 DEF Granted
    <3> QED BY <3>3, <3>4
  <2> QED BY <2>1, <2>2, GrantsGrow
<1>3. Granted(g, grants) \subseteq Granted(g, grants') /\ IsFiniteSet(Granted(g, grants'))
  BY <1>1, <1>2, FS_AddElement
<1>4. Cardinality(Granted(g, grants)) <= Cardinality(Granted(g, grants'))
  BY <1>3, FS_Subset
<1>5. Cardinality(Granted(g, grants)) \in Nat /\ Cardinality(Granted(g, grants')) \in Nat /\ Len(g.plan) \in Nat
  BY <1>1, <1>3, FS_CardinalityType, GenerationFacts
<1> QED BY <1>3, <1>4, <1>5 DEF HasQuorum

\* One more position asked.
LEMMA Counting ==
  ASSUME NEW g \in Generation, NEW pos \in 1..Len(g.plan), NEW before, NEW after,
         IsFiniteSet(after), before \subseteq after, NEW accepts \in Nat, NEW ok \in BOOLEAN,
         accepts <= Cardinality(before \cap Asked(g, pos)),
         ok => g.plan[pos] \in after
  PROVE  accepts + (IF ok THEN 1 ELSE 0) <= Cardinality(after \cap Asked(g, pos + 1))
<1> DEFINE old == before \cap Asked(g, pos)
           new == after \cap Asked(g, pos + 1)
<1>1. Len(g.plan) \in Nat /\ \A i, j \in 1..Len(g.plan) : g.plan[i] = g.plan[j] => i = j
  BY GenerationFacts
<1>2. 1 .. (pos + 1) - 1 = (1 .. pos - 1) \cup {pos} /\ pos \notin 1 .. pos - 1
  BY <1>1
<1>3. \A i \in 1 .. pos - 1 : i \in 1..Len(g.plan) /\ i # pos
  BY <1>1
<1>4. Asked(g, pos + 1) = Asked(g, pos) \cup {g.plan[pos]}
  BY <1>2 DEF Asked
<1>5. g.plan[pos] \notin Asked(g, pos)
  BY <1>1, <1>3 DEF Asked
<1>6. IsFiniteSet(new) /\ Cardinality(new) \in Nat
  BY FS_Intersection, FS_CardinalityType
<1>7. old \subseteq new
  BY <1>4
<1>8. IsFiniteSet(old) /\ Cardinality(old) \in Nat /\ Cardinality(old) <= Cardinality(new)
  BY <1>6, <1>7, FS_Subset, FS_CardinalityType
<1>9. CASE ok
  <2>1. old \cup {g.plan[pos]} \subseteq new /\ g.plan[pos] \notin old
    BY <1>4, <1>5, <1>7, <1>9
  <2>2. Cardinality(old \cup {g.plan[pos]}) = Cardinality(old) + 1
    BY <1>8, <2>1, FS_AddElement
  <2>3. Cardinality(old \cup {g.plan[pos]}) <= Cardinality(new)
    BY <1>6, <2>1, FS_Subset
  <2> HIDE DEF old, new
  <2>4. accepts <= Cardinality(old)
    BY DEF old
  <2>5. accepts + 1 <= Cardinality(new)
    BY <1>6, <1>8, <2>2, <2>3, <2>4
  <2> QED BY <1>9, <2>5 DEF new
<1>10. CASE ~ok
  <2> HIDE DEF old, new
  <2>1. accepts <= Cardinality(old)
    BY DEF old
  <2>2. accepts <= Cardinality(new)
    BY <1>6, <1>8, <2>1
  <2> QED BY <1>10, <2>2 DEF new
<1> QED BY <1>9, <1>10

\* What the count of a majority means, in whole numbers.
LEMMA Half ==
  ASSUME NEW n \in Nat, NEW counted \in Nat, counted >= n \div 2 + 1
  PROVE  2 * counted > n
<1>1. n \div 2 \in Nat /\ n = 2 * (n \div 2) + (n % 2) /\ n % 2 \in 0..1
  OBVIOUS
<1> QED BY <1>1

\* Enough positions make a majority of the plan.
LEMMA Majority ==
  ASSUME NEW g \in Generation, NEW pos \in Nat, NEW granted, IsFiniteSet(granted),
         NEW accepts \in Nat, accepts <= Cardinality(granted \cap Asked(g, pos)),
         accepts >= QuorumRequirement(Len(g.plan))
  PROVE  2 * Cardinality(granted) > Len(g.plan)
<1>1. Len(g.plan) \in Nat
  BY GenerationFacts
<1>2. /\ Cardinality(granted \cap Asked(g, pos)) <= Cardinality(granted)
      /\ Cardinality(granted \cap Asked(g, pos)) \in Nat /\ Cardinality(granted) \in Nat
  BY FS_Intersection, FS_CardinalityType
<1>3. accepts >= Len(g.plan) \div 2 + 1
  BY DEF QuorumRequirement
<1>4. 2 * accepts > Len(g.plan)
  BY <1>1, <1>3, Half
<1> QED BY <1>1, <1>2, <1>4

\* An answer keeps the count, if a granted claim is counted once it is granted.
LEMMA AnswerKeepsCount ==
  ASSUME BaseInv, [SplitNext]_vars, QuorumInv, NEW c \in Coordinator, NEW m \in Calling(c),
         NEW ok \in BOOLEAN,
         ok /\ m.kind = "claiming" => <<m.gen.run, m.to>> \in grants'
  PROVE  CountOK(After(job[c], m.gen, ok), grants')
<1> DEFINE j == job[c]
           g == m.gen
           k == After(j, g, ok)
<1>1. JobOK(c, j, active[c], made) /\ CountOK(j, grants)
  BY DEF BaseInv, QuorumInv
<1>2. /\ m \in Request /\ g \in j.gen /\ g \in Generation /\ j.gen = {g} /\ m.kind = j.phase
      /\ j.phase \in CallPhase /\ j.pos \in 1..Len(g.plan) /\ m.to = g.plan[j.pos]
  BY <1>1, CallingFacts
<1>3. j \in JobType /\ j.accepts \in Nat /\ j.pos \in Nat /\ j.then \in {"resume", "leave", "end"}
  BY <1>1 DEF JobOK, JobType
<1>4. /\ Granted(g, grants) \subseteq Granted(g, grants') /\ IsFiniteSet(Granted(g, grants'))
      /\ HasQuorum(g, grants) => HasQuorum(g, grants')
  BY <1>2, GrantedGrows
<1>5. SUFFICES ASSUME NEW h \in k.gen
               PROVE  /\ k.phase = "claiming" =>
                            k.accepts <= Cardinality(Granted(h, grants') \cap Asked(h, k.pos))
                      /\ k.phase = "loading" => HasQuorum(h, grants')
  BY DEF CountOK, Asked
<1>6. h = g
  BY <1>1, <1>2, <1>5, AfterKeepsJob
<1>7. CASE j.phase = "claiming"
  <2> DEFINE accepts == j.accepts + (IF ok THEN 1 ELSE 0)
  <2>1. k = AfterClaim(j, g, ok)
    BY <1>7, AfterIs
  <2>2. accepts <= Cardinality(Granted(g, grants') \cap Asked(g, j.pos + 1))
    <3>1. j.accepts <= Cardinality(Granted(g, grants) \cap Asked(g, j.pos))
      BY <1>1, <1>2, <1>7 DEF CountOK
    <3>2. ok => g.plan[j.pos] \in Granted(g, grants')
      <4>1. m.to \in Node
        BY <1>2 DEF Request
      <4> QED BY <1>2, <1>7, <4>1 DEF Granted
    <3> HIDE DEF j, g
    <3> QED BY <1>2, <1>3, <1>4, <3>1, <3>2, Counting
  <2>3. accepts \in Nat /\ j.pos + 1 \in Nat
    BY <1>3
  <2>4. accepts >= QuorumRequirement(Len(g.plan)) => HasQuorum(g, grants')
    <3> HIDE DEF accepts
    <3>1. accepts >= QuorumRequirement(Len(g.plan)) => 2 * Cardinality(Granted(g, grants')) > Len(g.plan)
      BY <1>2, <1>4, <2>2, <2>3, Majority
    <3> QED BY <3>1 DEF HasQuorum
  <2> DEFINE K == AfterClaim(j, g, ok)
  <2>5. \/ K.phase = "claiming" /\ K.pos = j.pos + 1 /\ K.accepts = accepts
        \/ K.phase = "loading" /\ accepts >= QuorumRequirement(Len(g.plan))
        \/ K.phase \notin {"claiming", "loading"}
    BY <1>2, <1>3, <1>7, AfterClaimFacts
  <2> HIDE DEF k, K, accepts
  <2> QED BY <1>6, <2>1, <2>2, <2>4, <2>5 DEF K
<1>8. CASE j.phase = "loading"
  <2>1. HasQuorum(g, grants')
    BY <1>1, <1>2, <1>4, <1>8 DEF CountOK
  <2>2. k.phase # "claiming"
    <3>1. k = AfterLoad(j, g, ok)
      BY <1>8, AfterIs
    <3>2. Stopping(g, g.num, j.then).phase = "stopping"
      BY DEF Stopping
    <3> QED BY <1>2, <1>3, <1>8, <3>1, <3>2, AfterLoadFacts
  <2> QED BY <1>6, <2>1, <2>2
<1>9. CASE j.phase = "stopping"
  <2>1. k = AfterStop(j, g)
    BY <1>9, AfterIs
  <2> HIDE DEF k
  <2> QED BY <1>2, <1>3, <1>9, <2>1, AfterStopFacts
<1> QED BY <1>2, <1>7, <1>8, <1>9 DEF CallPhase

\* Where stages and loads come from: a stage from a load that starts it, a load
\* from a call.
LEMMA StageSources ==
  ASSUME BaseInv, [SplitNext]_vars, NEW n \in Node
  PROVE  /\ \A s \in stages'[n] : \/ \E t \in stages[n] : t.gen = s.gen
                                  \/ \E l \in loading[n] : l.gen = s.gen
         /\ \A l \in loading'[n] : \/ \E k \in loading[n] : k.gen = l.gen
                                   \/ \E m \in Pending : m.kind = "loading" /\ m.gen = l.gen /\ m.to = n
<1> DEFINE Sources ==
             /\ \A s \in stages'[n] : \/ \E t \in stages[n] : t.gen = s.gen
                                      \/ \E l \in loading[n] : l.gen = s.gen
             /\ \A l \in loading'[n] : \/ \E k \in loading[n] : k.gen = l.gen
                                       \/ \E m \in Pending : m.kind = "loading" /\ m.gen = l.gen /\ m.to = n
<1>0. /\ stages \in [Node -> SUBSET RunningStage]
      /\ loading \in [Node -> SUBSET [gen : Generation, step : Step]]
  BY DEF BaseInv, SplitTypeOK, StageTypeOK
<1> SUFFICES Sources
  OBVIOUS
<1>a. ASSUME stages'[n] \subseteq stages[n], loading'[n] \subseteq loading[n] PROVE Sources
  BY <1>a
<1>1. CASE UNCHANGED vars
  BY <1>1 DEF vars, stageVars
<1>2. ASSUME NEW m \in Pending, HandlesClaim(m) \/ HandlesStop(m)
      PROVE  Sources
  <2>1. m.to \in Node
    BY PendingFacts
  <2>2. HandlesClaim(m) => stages'[n] \subseteq stages[n] /\ loading' = loading
    BY <1>0, <2>1 DEF HandlesClaim, ClaimAccepted, ClaimFenceFailed, ClaimRejected, stageVars
  <2>3. HandlesStop(m) => stages'[n] \subseteq stages[n] /\ loading' = loading
    BY <1>0, <2>1 DEF HandlesStop, HandleStop, StopApplied, StopIgnored, stageVars
  <2> QED BY <1>a, <1>2, <2>2, <2>3
<1>3. ASSUME NEW m \in Pending, HandlesLoad(m)
      PROVE  Sources
  <2>1. m.kind = "loading"
    BY <1>3 DEF HandlesLoad
  <2>2. CASE LoadAuthorized(m.to, m.gen)
    <3>1. stages' = stages
      BY <2>2 DEF LoadAuthorized
    <3>2. \A l \in loading'[n] : \/ l \in loading[n]
                                 \/ m.to = n /\ l = [gen |-> m.gen, step |-> "resolving"]
      BY <1>0, <2>2 DEF LoadAuthorized
    <3> QED BY <2>1, <3>1, <3>2
  <2>3. CASE LoadRejected(m.to, m.gen)
    BY <2>3 DEF LoadRejected, stageVars
  <2> QED BY <1>3, <2>2, <2>3 DEF HandlesLoad
<1>4. ASSUME NEW o \in Node, NEW l \in loading[o], ProceedsLoad(o, l.gen)
      PROVE  Sources
  <2>1. CASE LoadClearsKey(o, l.gen)
    <3>1. stages'[n] \subseteq stages[n]
      BY <1>0, <2>1 DEF LoadClearsKey
    <3>2. \A k \in loading'[n] : k \in loading[n] \/ (n = o /\ k.gen = l.gen)
      BY <1>0, <2>1 DEF LoadClearsKey
    <3> QED BY <3>1, <3>2
  <2>2. CASE LoadStarted(o, l.gen)
    <3>1. \A s \in stages'[n] : s \in stages[n] \/ (n = o /\ s.gen = l.gen)
      BY <1>0, <2>2 DEF LoadStarted
    <3>2. \A k \in loading'[n] : k \in loading[n] \/ (n = o /\ k.gen = l.gen)
      BY <1>0, <2>2 DEF LoadStarted
    <3> QED BY <3>1, <3>2
  <2>3. CASE \/ LoadReady(o, l.gen) \/ LoadSourceFailed(o, l.gen) \/ LoadClearFailed(o, l.gen)
             \/ LoadPackageFailed(o, l.gen) \/ LoadProbeFailed(o, l.gen)
    <3>1. stages'[n] \subseteq stages[n] /\ loading'[n] \subseteq loading[n]
      BY <1>0, <2>3 DEF LoadReady, LoadSourceFailed, LoadClearFailed, LoadPackageFailed,
                        LoadProbeFailed
    <3> QED BY <1>a, <3>1
  <2> QED BY <1>4, <2>1, <2>2, <2>3 DEF ProceedsLoad
<1>5. ASSUME NEW c \in Coordinator,
             \/ \E g \in Generation : StartsUp(c, g) \/ Replans(c, g) \/ Replaces(c, g)
             \/ Coordinates(c)
             \/ ModelStops(c)
      PROVE  Sources
  <2>1. UNCHANGED stageVars
    BY <1>5 DEF StartsUp, Replans, Replaces, Begins, Coordinates, CallTimesOut, OpensStage0,
                OpenFails, Publishes, LeavesActive, ModelStops
  <2> QED BY <2>1, <1>a DEF stageVars
<1>6. ASSUME NEW o \in Node, NEW s \in stages[o], StageServerDies(o, s)
      PROVE  Sources
  <2>1. \A t \in stages'[n] : t \in stages[n] \/ (n = o /\ t.gen = s.gen)
    <3>1. s \in RunningStage
      BY <1>0
    <3>2. [s EXCEPT !.up = FALSE].gen = s.gen
      BY <3>1 DEF RunningStage
    <3>3. \A t \in stages'[n] : t \in stages[n] \/ (n = o /\ t = [s EXCEPT !.up = FALSE])
      BY <1>0, <1>6 DEF StageServerDies, StageDies
    <3> QED BY <3>2, <3>3
  <2>2. loading' = loading
    BY <1>6 DEF StageServerDies, StageDies
  <2> QED BY <2>1, <2>2
<1>7. ASSUME NEW o \in Node, Restarts(o) \/ Ticks(o)
      PROVE  Sources
  <2>1. stages'[n] \subseteq stages[n] /\ loading'[n] \subseteq loading[n]
    BY <1>0, <1>7 DEF Restarts, Ticks, NodeRestarts, ClockTicks
  <2> QED BY <1>a, <2>1
<1> HIDE DEF Sources
<1> QED BY <1>1, <1>2, <1>3, <1>4, <1>5, <1>6, <1>7 DEF SplitNext

\* What the answer ok to the call m says of the node that gives it, unless the
\* caller gave up and the attempt is forsaken.
Effect(m, ok) ==
    /\ m.kind = "claiming" /\ ok => <<m.gen.run, m.to>> \in grants'
    /\ m.kind = "loading" /\ ok =>
        stages' = stages /\ [gen |-> m.gen, step |-> "probing"] \in loading[m.to]
    /\ m.kind = "loading" => loading'[m.to] = {} \/ m.gen \in forsaken'
    /\ m.kind = "stopping" => m.gen \in forsaken' \/ \A s \in stages'[m.to] : s.gen # m.gen

\* What a step makes of a coordinator's job and of what it has published.
JobStep(c) ==
    \/ job'[c] = job[c] /\ active'[c] = active[c]
    \/ /\ active'[c] = active[c]
       /\ \E m \in Calling(c), ok \in BOOLEAN :
            job'[c] = After(job[c], m.gen, ok) /\ Effect(m, ok)
    \/ /\ active'[c] = active[c]
       /\ job[c].gen = {}
       /\ \E g \in Generation \ made, then \in {"resume", "leave"} : job'[c] = Claiming(g, then)
    \/ /\ active'[c] = active[c]
       /\ job[c].phase = "opening"
       /\ \/ job'[c].phase = "publishing" /\ job'[c].gen = job[c].gen
          \/ \E g \in job[c].gen : job'[c] = Stopping(g, g.num, job[c].then)
    \/ /\ job[c].phase = "publishing"
       /\ \E g \in job[c].gen :
            /\ active'[c] = {g}
            /\ \/ active[c] = {} /\ job'[c] = Rest("idle")
               \/ \E previous \in active[c] : job'[c] = Stopping(previous, g.num, "resume")
    \/ /\ active'[c] = {}
       /\ job[c].gen \subseteq forsaken'
       /\ \E g \in active[c], num \in Nat, then \in {"resume", "end"} : job'[c] = Stopping(g, num, then)
    \/ /\ active'[c] = {}
       /\ job'[c] = Rest("idle")
       /\ \A g \in made : g.coord = c => g \in forsaken'

\* An answer moves its caller, if it still waits, and nobody else.
LEMMA AnswerStep ==
  ASSUME BaseInv, NEW m \in Request, NEW ok \in BOOLEAN, Answered(m, ok), UNCHANGED active,
         \A d \in Coordinator : m \in Calling(d) => Effect(m, ok),
         NEW c \in Coordinator
  PROVE  JobStep(c)
<1>1. CASE m \notin Calling(c)
  BY <1>1, AnsweredFacts DEF JobStep
<1>2. CASE m \in Calling(c)
  <2>1. job'[c] = After(job[c], m.gen, ok) /\ Effect(m, ok) /\ active'[c] = active[c]
    BY <1>2, AnsweredFacts
  <2> QED BY <1>2, <2>1 DEF JobStep
<1> QED BY <1>1, <1>2

\* An answered claim, load or stop.
LEMMA HandledJobs ==
  ASSUME BaseInv, NEW m \in Pending, HandlesClaim(m) \/ HandlesLoad(m) \/ HandlesStop(m),
         NEW c \in Coordinator
  PROVE  JobStep(c)
<1>0. /\ stages \in [Node -> SUBSET RunningStage]
      /\ loading \in [Node -> SUBSET [gen : Generation, step : Step]]
      /\ \A d \in Coordinator : JobOK(d, job[d], active[d], made)
  BY DEF BaseInv, SplitTypeOK, StageTypeOK
<1>1. m \in Request /\ m.to \in Node /\ m.gen \in Generation
  BY PendingFacts DEF LateOK
<1>2. UNCHANGED active
  BY DEF HandlesClaim, HandlesLoad, HandlesStop
<1>3. CASE HandlesClaim(m)
  <2>1. m.kind = "claiming"
    BY <1>3 DEF HandlesClaim
  <2>2. CASE grants' = grants \cup {<<m.gen.run, m.to>>} /\ Answered(m, TRUE)
    <3>1. Effect(m, TRUE)
      BY <2>1, <2>2 DEF Effect
    <3> QED BY <1>1, <1>2, <2>2, <3>1, AnswerStep
  <2>3. CASE Answered(m, FALSE)
    <3>1. Effect(m, FALSE)
      BY <2>1 DEF Effect
    <3> QED BY <1>1, <1>2, <2>3, <3>1, AnswerStep
  <2> QED BY <1>3, <2>2, <2>3 DEF HandlesClaim
<1>4. CASE HandlesLoad(m)
  <2>1. m.kind = "loading"
    BY <1>4 DEF HandlesLoad
  <2>2. CASE UNCHANGED job
    BY <1>2, <2>2 DEF JobStep
  <2>3. CASE LoadRejected(m.to, m.gen) /\ Answered(m, FALSE)
    <3>1. loading'[m.to] = {}
      BY <2>3 DEF LoadRejected, Idle, stageVars
    <3>2. Effect(m, FALSE)
      BY <2>1, <3>1 DEF Effect
    <3> QED BY <1>1, <1>2, <2>3, <3>2, AnswerStep
  <2> QED BY <1>4, <2>2, <2>3 DEF HandlesLoad
<1>5. CASE HandlesStop(m)
  <2>1. m.kind = "stopping" /\ HandleStop(m.to, m.gen, m.num) /\ Answered(m, TRUE)
    BY <1>5 DEF HandlesStop
  <2>2. ASSUME NEW d \in Coordinator, m \in Calling(d) PROVE Effect(m, TRUE)
    <3>1. m.gen \in job[d].gen /\ job[d].phase = "stopping" /\ m.num = job[d].num
      BY <1>0, <2>1, <2>2, CallingFacts
    <3>2. m.num >= m.gen.num /\ m.gen.term \in Nat
      BY <1>0, <1>1, <3>1, GenerationAssumption DEF JobOK
    <3>3. \A s \in stages[m.to] : s.gen = m.gen =>
            s \in StageOfRun(m.to, m.gen) /\ StopApplies(s, m.gen, m.num)
      BY <3>2 DEF StageOfRun, StopApplies
    <3>4. \A s \in stages'[m.to] : s.gen # m.gen
      <4>1. CASE StopApplied(m.to, m.gen, m.num)
        <5>1. stages'[m.to] = stages[m.to] \ StageOfRun(m.to, m.gen)
          BY <1>0, <1>1, <4>1 DEF StopApplied
        <5> QED BY <3>3, <5>1
      <4>2. CASE StopIgnored(m.to, m.gen, m.num)
        BY <3>3, <4>2 DEF StopIgnored, stageVars
      <4> QED BY <2>1, <4>1, <4>2 DEF HandleStop
    <3> QED BY <2>1, <3>4 DEF Effect
  <2>3. TRUE \in BOOLEAN
    OBVIOUS
  <2> QED BY <1>1, <1>2, <2>1, <2>2, <2>3, AnswerStep
<1> QED BY <1>3, <1>4, <1>5

\* A load that goes on answers only at its end.
LEMMA LoadedJobs ==
  ASSUME BaseInv, NEW n \in Node, NEW l \in loading[n], ProceedsLoad(n, l.gen),
         NEW c \in Coordinator
  PROVE  JobStep(c)
<1>0. loading \in [Node -> SUBSET [gen : Generation, step : Step]]
  BY DEF BaseInv, SplitTypeOK, StageTypeOK
<1> DEFINE m == Req("loading", l.gen, n, l.gen.num)
<1>1. l.gen \in Generation
  BY <1>0
<1>2. m \in Request /\ m.kind = "loading" /\ m.gen = l.gen /\ m.to = n
  BY <1>1, GenerationFacts DEF Req, Request, CallPhase
<1>3. UNCHANGED active
  BY DEF ProceedsLoad
<1>4. CASE UNCHANGED job
  BY <1>3, <1>4 DEF JobStep
<1>5. ASSUME LoadReady(n, l.gen), NEW matches \in BOOLEAN, Answered(m, matches)
      PROVE  JobStep(c)
  <2>1. /\ stages' = stages /\ [gen |-> l.gen, step |-> "probing"] \in loading[n]
        /\ loading'[n] = {}
    BY <1>0, <1>5 DEF LoadReady, LoadAt
  <2> HIDE DEF m
  <2>2. Effect(m, matches)
    BY <1>2, <2>1 DEF Effect
  <2> QED BY <1>2, <1>3, <1>5, <2>2, AnswerStep
<1>6. CASE /\ \/ LoadSourceFailed(n, l.gen) \/ LoadClearFailed(n, l.gen)
              \/ LoadPackageFailed(n, l.gen) \/ LoadProbeFailed(n, l.gen)
           /\ Answered(m, FALSE)
  <2>1. loading'[n] = {}
    BY <1>0, <1>6 DEF LoadSourceFailed, LoadClearFailed, LoadPackageFailed, LoadProbeFailed
  <2> HIDE DEF m
  <2>2. Effect(m, FALSE)
    BY <1>2, <2>1 DEF Effect
  <2> QED BY <1>2, <1>3, <1>6, <2>2, AnswerStep
<1> QED BY <1>4, <1>5, <1>6 DEF ProceedsLoad

\* A call given up forsakes what it was about, unless it was a claim.
LEMMA GivenUpJobs ==
  ASSUME BaseInv, NEW d \in Coordinator, CallTimesOut(d), NEW c \in Coordinator
  PROVE  JobStep(c)
<1>1. PICK m \in Calling(d) :
        /\ Answered(m, FALSE)
        /\ forsaken' = IF m.kind = "claiming" THEN forsaken ELSE forsaken \cup {m.gen}
  BY DEF CallTimesOut
<1>2. m \in Request /\ UNCHANGED active
  BY PendingFacts DEF Pending, LateOK, CallTimesOut
<1>3. Effect(m, FALSE)
  BY <1>1 DEF Effect
<1> QED BY <1>1, <1>2, <1>3, AnswerStep

\* What a coordinator does by itself.
LEMMA OwnJobs ==
  ASSUME BaseInv, NEW d \in Coordinator, NEW c \in Coordinator,
         \/ \E g \in Generation : StartsUp(d, g) \/ Replans(d, g) \/ Replaces(d, g)
         \/ OpensStage0(d) \/ OpenFails(d) \/ Publishes(d) \/ LeavesActive(d) \/ ModelStops(d)
  PROVE  JobStep(c)
<1>0. /\ job \in [Coordinator -> JobType] /\ active \in [Coordinator -> SUBSET Generation]
      /\ JobOK(c, job[c], active[c], made)
  BY DEF BaseInv, SplitTypeOK, JobType
<1>1. ASSUME NEW g \in Generation, StartsUp(d, g) \/ Replans(d, g) \/ Replaces(d, g)
      PROVE  JobStep(c)
  <2>1. PICK then \in {"resume", "leave"} : Begins(d, g, then)
    BY <1>1 DEF StartsUp, Replans, Replaces
  <2>2. /\ job[d].phase = "idle" /\ g \notin made /\ active' = active
        /\ job' = [job EXCEPT ![d] = Claiming(g, then)]
    BY <2>1 DEF Begins
  <2>3. CASE d = c
    <3>1. job[c].gen = {} /\ job'[c] = Claiming(g, then)
      BY <1>0, <2>2, <2>3 DEF JobOK, Underway
    <3> QED BY <2>2, <3>1 DEF JobStep
  <2>4. CASE d # c
    BY <1>0, <2>2, <2>4 DEF JobStep
  <2> QED BY <2>3, <2>4
<1>2. CASE OpensStage0(d)
  <2> DEFINE k == [job[d] EXCEPT !.phase = "publishing"]
  <2>1. job[d].phase = "opening" /\ active' = active /\ job' = [job EXCEPT ![d] = k]
    BY <1>0, <1>2 DEF OpensStage0
  <2>2. job[d] \in JobType
    BY <1>0
  <2>3. k.phase = "publishing" /\ k.gen = job[d].gen
    BY <2>2 DEF JobType
  <2> HIDE DEF k
  <2> QED BY <1>0, <2>1, <2>3 DEF JobStep
<1>3. CASE OpenFails(d)
  <2>1. PICK g \in job[d].gen : job' = [job EXCEPT ![d] = Stopping(g, g.num, @.then)]
    BY <1>3 DEF OpenFails
  <2>2. job[d].phase = "opening" /\ active' = active
    BY <1>3 DEF OpenFails
  <2>3. job'[d] = Stopping(g, g.num, job[d].then) /\ (d # c => job'[c] = job[c])
    BY <1>0, <2>1
  <2> QED BY <2>2, <2>3 DEF JobStep
<1>4. CASE Publishes(d)
  <2>1. PICK g \in job[d].gen :
            /\ active' = [active EXCEPT ![d] = {g}]
            /\ \/ active[d] = {} /\ job' = [job EXCEPT ![d] = Rest("idle")]
               \/ \E previous \in active[d] : job' = [job EXCEPT ![d] = Stopping(previous, g.num, "resume")]
    BY <1>4 DEF Publishes
  <2>2. job[d].phase = "publishing"
    BY <1>4 DEF Publishes
  <2>3. /\ d # c => job'[c] = job[c] /\ active'[c] = active[c]
        /\ active'[d] = {g}
        /\ \/ active[d] = {} /\ job'[d] = Rest("idle")
           \/ \E previous \in active[d] : job'[d] = Stopping(previous, g.num, "resume")
    BY <1>0, <2>1
  <2> QED BY <2>2, <2>3 DEF JobStep
<1>5. CASE LeavesActive(d) \/ ModelStops(d)
  <2>1. /\ active' = [active EXCEPT ![d] = {}]
        /\ \E g \in active[d], num \in Nat, then \in {"resume", "end"} :
                job' = [job EXCEPT ![d] = Stopping(g, num, then)]
    <3>1. \A g \in active[d] : g.num + 1 \in Nat /\ ShutdownAll \in Nat
      BY <1>0, GenerationFacts
    <3>2. CASE LeavesActive(d)
      <4>1. PICK g \in active[d] :
              job' = [job EXCEPT ![d] = IF LocalFits THEN Stopping(g, g.num + 1, "end")
                                        ELSE Stopping(g, ShutdownAll, "resume")]
        BY <3>2 DEF LeavesActive
      <4>2. LocalFits \in BOOLEAN
        BY SplitAssumption
      <4> QED BY <3>1, <3>2, <4>1, <4>2 DEF LeavesActive
    <3>3. CASE ModelStops(d)
      BY <3>1, <3>3 DEF ModelStops
    <3> QED BY <1>5, <3>2, <3>3
  <2>2. job[d].gen \subseteq forsaken'
    <3>1. LeavesActive(d) => job[d].phase \in {"leaving", "idle"}
      BY DEF LeavesActive
    <3>2. LeavesActive(d) => job[d].gen = {}
      BY <3>1 DEF BaseInv, JobOK, Underway
    <3>3. ModelStops(d) => job[d].gen \subseteq forsaken'
      BY DEF ModelStops
    <3> QED BY <1>5, <3>2, <3>3
  <2>3. PICK g \in active[d], num \in Nat, then \in {"resume", "end"} :
                job' = [job EXCEPT ![d] = Stopping(g, num, then)]
    BY <2>1
  <2>4. CASE d = c
    <3>1. active'[c] = {} /\ job'[c] = Stopping(g, num, then)
      BY <1>0, <2>1, <2>3, <2>4
    <3> QED BY <2>2, <2>3, <2>4, <3>1 DEF JobStep
  <2>5. CASE d # c
    BY <1>0, <2>1, <2>3, <2>5 DEF JobStep
  <2> QED BY <2>4, <2>5
<1> QED BY <1>1, <1>2, <1>3, <1>4, <1>5

\* A crash: its own jobs are gone, the loads it worked on for others failed.
LEMMA RestartedJobs ==
  ASSUME BaseInv, NEW n \in Node, Restarts(n), NEW c \in Coordinator
  PROVE  JobStep(c)
<1>0. loading \in [Node -> SUBSET [gen : Generation, step : Step]]
  BY DEF BaseInv, SplitTypeOK, StageTypeOK
<1>1. loading'[n] = {}
  BY <1>0 DEF Restarts, NodeRestarts
<1>2. CASE c = n
  <2>1. /\ active'[c] = {} /\ job'[c] = Rest("idle")
        /\ \A g \in made : g.coord = c => g \in forsaken'
    BY <1>2 DEF Restarts
  <2> QED BY <2>1 DEF JobStep
<1>3. CASE c # n
  <2>1. active'[c] = active[c]
    BY <1>3 DEF Restarts
  <2>2. CASE job'[c] = job[c]
    BY <2>1, <2>2 DEF JobStep
  <2>3. ASSUME NEW m \in Calling(c), m.to = n, job[c].phase = "loading",
               job'[c] = After(job[c], m.gen, FALSE)
        PROVE  JobStep(c)
    <3>1. m.kind = "loading"
      BY <2>3, CallingFacts DEF BaseInv
    <3>2. Effect(m, FALSE)
      BY <1>1, <2>3, <3>1 DEF Effect
    <3> QED BY <2>1, <2>3, <3>2 DEF JobStep
  <2> QED BY <1>3, <2>2, <2>3, RestartedJob
<1> QED BY <1>2, <1>3

\* Every step of the system is one of these for each coordinator.
LEMMA JobSteps ==
  ASSUME BaseInv, [SplitNext]_vars, NEW c \in Coordinator
  PROVE  JobStep(c)
<1>1. CASE UNCHANGED splitVars
  BY <1>1 DEF splitVars, JobStep
<1>2. (\E n \in Node : (\E s \in stages[n] : StageServerDies(n, s)) \/ Ticks(n)) \/ UNCHANGED vars
        => UNCHANGED splitVars
  BY DEF StageServerDies, Ticks, vars
<1> QED BY <1>1, <1>2, HandledJobs, LoadedJobs, GivenUpJobs, OwnJobs, RestartedJobs
        DEF SplitNext, Coordinates

\* A call nobody waits for any more was waited for by a coordinator that gave up,
\* was aborted or crashed.
LEMMA LateSources ==
  ASSUME BaseInv, [SplitNext]_vars, NEW m \in late'
  PROVE  \/ m \in late
         \/ \E c \in Coordinator : /\ m \in Calling(c)
                                   /\ CallTimesOut(c) \/ ModelStops(c) \/ Restarts(c)
<1>1. CASE UNCHANGED vars
  BY <1>1 DEF vars, splitVars
<1>2. ASSUME NEW k \in Pending, HandlesClaim(k) \/ HandlesLoad(k) \/ HandlesStop(k)
      PROVE  m \in late
  BY <1>2 DEF HandlesClaim, HandlesLoad, HandlesStop
<1>3. ASSUME NEW n \in Node, NEW l \in loading[n], ProceedsLoad(n, l.gen)
      PROVE  m \in late
  BY <1>3 DEF ProceedsLoad
<1>4. ASSUME NEW c \in Coordinator, CallTimesOut(c) \/ ModelStops(c)
      PROVE  m \in late \/ m \in Calling(c)
  BY <1>4 DEF CallTimesOut, ModelStops, Unanswered
<1>5. ASSUME NEW c \in Coordinator,
             \/ \E g \in Generation : StartsUp(c, g) \/ Replans(c, g) \/ Replaces(c, g)
             \/ OpensStage0(c) \/ OpenFails(c) \/ Publishes(c) \/ LeavesActive(c)
      PROVE  m \in late
  BY <1>5 DEF StartsUp, Replans, Replaces, Begins, OpensStage0, OpenFails, Publishes, LeavesActive
<1>6. ASSUME NEW n \in Node, Restarts(n)
      PROVE  m \in late \/ (n \in Coordinator /\ m \in Calling(n))
  <2>1. late' = {k \in late : k.to # n}
                \cup (IF n \in Coordinator THEN {k \in Unanswered(n) : k.to # n} ELSE {})
    BY <1>6 DEF Restarts
  <2> QED BY <2>1 DEF Unanswered
<1>7. ASSUME NEW n \in Node, (\E s \in stages[n] : StageServerDies(n, s)) \/ Ticks(n)
      PROVE  m \in late
  BY <1>7 DEF StageServerDies, Ticks, splitVars
<1> QED BY <1>1, <1>2, <1>3, <1>4, <1>5, <1>6, <1>7 DEF SplitNext, Coordinates

\* No claim is counted at the start.
LEMMA QuorumInit == SplitInit => QuorumInv
<1> SUFFICES ASSUME SplitInit PROVE QuorumInv
  OBVIOUS
<1>1. \A g \in Generation : IsFiniteSet(Granted(g, grants))
  <2>1. \A g : Granted(g, {}) = {}
    BY DEF Granted
  <2> QED BY <2>1, FS_EmptySet DEF SplitInit
<1>2. \A c \in Coordinator : CountOK(job[c], grants)
  <2>1. \A c \in Coordinator : job[c].gen = {}
    BY DEF SplitInit, Rest
  <2> QED BY <2>1 DEF CountOK
<1>3. late = {} /\ \A n \in Node : stages[n] = {} /\ loading[n] = {}
  BY DEF SplitInit, StageInit
<1> QED BY <1>1, <1>2, <1>3 DEF QuorumInv

\* A coordinator that loads has its majority; what it gave up keeps it.
LEMMA QuorumStep == BaseInv /\ QuorumInv /\ [SplitNext]_vars => QuorumInv'
<1> SUFFICES ASSUME BaseInv, QuorumInv, [SplitNext]_vars PROVE QuorumInv'
  OBVIOUS
<1>1. \A g \in Generation : /\ Granted(g, grants) \subseteq Granted(g, grants')
                            /\ IsFiniteSet(Granted(g, grants'))
                            /\ HasQuorum(g, grants) => HasQuorum(g, grants')
  BY GrantedGrows
<1>2. \A c \in Coordinator : JobOK(c, job[c], active[c], made) /\ CountOK(job[c], grants)
  BY DEF BaseInv, QuorumInv
\* Calls to load, given up or not, are of attempts with a majority.
<1>3. \A m \in Pending : m.kind = "loading" => m.gen \in Generation /\ HasQuorum(m.gen, grants')
  <2>1. ASSUME NEW m \in late, m.kind = "loading" PROVE m.gen \in Generation /\ HasQuorum(m.gen, grants)
    BY <2>1 DEF QuorumInv, BaseInv, LateOK, Request
  <2>2. ASSUME NEW c \in Coordinator, NEW m \in Calling(c), m.kind = "loading"
        PROVE  m.gen \in Generation /\ HasQuorum(m.gen, grants)
    <3>1. m.gen \in job[c].gen /\ job[c].phase = "loading" /\ m.gen \in Generation
      BY <1>2, <2>2, CallingFacts
    <3> QED BY <1>2, <3>1 DEF CountOK
  <2> QED BY <1>1, <2>1, <2>2 DEF Pending
<1>4. ASSUME NEW c \in Coordinator PROVE CountOK(job'[c], grants')
  <2>1. CASE job'[c] = job[c]
    <3>1. ASSUME NEW g \in job[c].gen, job[c].phase = "claiming"
          PROVE  job[c].accepts <= Cardinality(Granted(g, grants') \cap Asked(g, job[c].pos))
      <4>1. g \in Generation /\ job[c].accepts \in Nat
        BY <1>2 DEF JobOK, JobType
      <4> DEFINE old == Granted(g, grants) \cap Asked(g, job[c].pos)
                 new == Granted(g, grants') \cap Asked(g, job[c].pos)
      <4>2. old \subseteq new /\ IsFiniteSet(new)
        BY <1>1, <4>1, FS_Intersection
      <4>3. Cardinality(old) <= Cardinality(new) /\ IsFiniteSet(old)
        BY <4>2, FS_Subset
      <4>4. Cardinality(old) \in Nat /\ Cardinality(new) \in Nat
        BY <4>2, <4>3, FS_CardinalityType
      <4>5. job[c].accepts <= Cardinality(old)
        BY <1>2, <3>1 DEF CountOK
      <4> HIDE DEF old, new
      <4>6. job[c].accepts <= Cardinality(new)
        BY <4>1, <4>3, <4>4, <4>5
      <4> QED BY <4>6 DEF new
    <3>2. ASSUME NEW g \in job[c].gen, job[c].phase = "loading"
          PROVE  HasQuorum(g, grants')
      BY <1>1, <1>2, <3>2 DEF CountOK, JobOK, JobType
    <3> QED BY <2>1, <3>1, <3>2 DEF CountOK
  <2>2. ASSUME NEW m \in Calling(c), NEW ok \in BOOLEAN, job'[c] = After(job[c], m.gen, ok),
               Effect(m, ok)
        PROVE  CountOK(job'[c], grants')
    BY <2>2, AnswerKeepsCount DEF Effect
  <2>3. ASSUME NEW g \in Generation, NEW then \in {"resume", "leave"}, job'[c] = Claiming(g, then)
        PROVE  CountOK(job'[c], grants')
    <3>1. /\ job'[c].phase = "claiming" /\ job'[c].gen = {g}
          /\ job'[c].pos = 1 /\ job'[c].accepts = 0
      BY <2>3, ClaimingFacts
    <3>2. Cardinality(Granted(g, grants') \cap Asked(g, 1)) \in Nat
      BY <1>1, FS_Intersection, FS_CardinalityType
    <3>3. 0 <= Cardinality(Granted(g, grants') \cap Asked(g, 1))
      BY <3>2
    <3> QED BY <3>1, <3>3 DEF CountOK
  <2>4. CASE job'[c].phase \in {"idle", "stopping", "publishing"}
    BY <2>4 DEF CountOK
  <2>5. /\ Rest("idle").phase = "idle"
        /\ \A g, num, then : Stopping(g, num, then).phase = "stopping"
    BY DEF Rest, Stopping
  <2>6. JobStep(c)
    BY JobSteps
  <2> QED BY <2>1, <2>2, <2>3, <2>4, <2>5, <2>6 DEF JobStep
<1>5. \A m \in late' : m.kind = "loading" => HasQuorum(m.gen, grants')
  <2>1. \A m \in late' : m \in late \/ \E c \in Coordinator : m \in Calling(c)
    BY LateSources
  <2> QED BY <1>3, <2>1 DEF Pending
<1>6. ASSUME NEW n \in Node
      PROVE  /\ \A s \in stages'[n] : HasQuorum(s.gen, grants')
             /\ \A l \in loading'[n] : HasQuorum(l.gen, grants')
  <2>1. /\ \A s \in stages[n] : s.gen \in Generation
        /\ \A l \in loading[n] : l.gen \in Generation
    BY DEF BaseInv, SplitTypeOK, StageTypeOK, RunningStage
  <2>2. /\ \A s \in stages[n] : HasQuorum(s.gen, grants')
        /\ \A l \in loading[n] : HasQuorum(l.gen, grants')
    BY <1>1, <2>1 DEF QuorumInv
  <2> QED BY <1>3, <2>2, StageSources
<1> QED BY <1>1, <1>4, <1>5, <1>6 DEF QuorumInv

\* QuorumInv holds in every state.
LEMMA QuorumSafety == SplitSpec => []QuorumInv
  BY BaseSafety, QuorumInit, QuorumStep, PTL DEF SplitSpec

\* No stage of a split is started before a majority of its planned nodes
\* acknowledged the claim.
THEOREM StagesHaveQuorum == SplitSpec => []QuorumBeforeStage
<1>1. QuorumInv => QuorumBeforeStage
  BY DEF QuorumInv, QuorumBeforeStage, HasQuorum, Granted
<1> QED BY <1>1, QuorumSafety, PTL

-------------------------------------------------------------------------------
(* Meters *)

\* What a call can do to the jobs, answered or given up.
AnswerMoves(c) ==
    \/ job'[c] = job[c]
    \/ /\ job[c].phase \in CallPhase
       /\ job'[c].gen \subseteq job[c].gen
       /\ job'[c].phase # "publishing"

\* A step that answers a job moves that one and no other.
LEMMA AnsweredMoves ==
  ASSUME BaseInv, NEW m \in Request, NEW ok \in BOOLEAN, Answered(m, ok), NEW c \in Coordinator
  PROVE  AnswerMoves(c)
<1>1. JobOK(c, job[c], active[c], made)
  BY DEF BaseInv
<1>2. CASE m \notin Calling(c)
  BY <1>2, AnsweredFacts DEF AnswerMoves
<1>3. CASE m \in Calling(c)
  <2>1. job'[c] = After(job[c], m.gen, ok)
    BY <1>3, AnsweredFacts
  <2>2. m.gen \in job[c].gen /\ job[c].phase \in CallPhase
    BY <1>1, <1>3, CallingFacts
  <2>3. job'[c].gen \in {{m.gen}, {}} /\ job'[c].phase # "publishing"
    BY <1>1, <2>1, <2>2, AfterKeepsJob
  <2> QED BY <2>2, <2>3 DEF AnswerMoves
<1> QED BY <1>2, <1>3

\* The steps that answer calls, and those that touch no job.
LEMMA CallSteps ==
  ASSUME BaseInv,
         \/ \E m \in Pending : HandlesClaim(m) \/ HandlesLoad(m) \/ HandlesStop(m)
         \/ \E n \in Node : \E l \in loading[n] : ProceedsLoad(n, l.gen)
         \/ \E c \in Coordinator : CallTimesOut(c)
         \/ \E n \in Node : (\E s \in stages[n] : StageServerDies(n, s)) \/ Ticks(n)
         \/ UNCHANGED vars
  PROVE  /\ UNCHANGED <<active, meters, made>> /\ forsaken \subseteq forsaken'
         /\ \A c \in Coordinator : AnswerMoves(c)
<1>0. ASSUME job' = job PROVE \A c \in Coordinator : AnswerMoves(c)
  BY <1>0 DEF AnswerMoves
<1>1. ASSUME NEW m \in Pending, HandlesClaim(m) \/ HandlesLoad(m) \/ HandlesStop(m)
      PROVE  /\ UNCHANGED <<active, meters, made, forsaken>>
             /\ \A c \in Coordinator : AnswerMoves(c)
  <2>1. m \in Request
    BY PendingFacts DEF LateOK
  <2>2. job' = job \/ Answered(m, TRUE) \/ Answered(m, FALSE)
    <3>1. HandlesClaim(m) => Answered(m, TRUE) \/ Answered(m, FALSE)
      BY DEF HandlesClaim
    <3>2. HandlesLoad(m) => job' = job \/ Answered(m, FALSE)
      BY DEF HandlesLoad
    <3>3. HandlesStop(m) => Answered(m, TRUE)
      BY DEF HandlesStop
    <3> QED BY <1>1, <3>1, <3>2, <3>3
  <2>3. UNCHANGED <<active, meters, made, forsaken>>
    BY <1>1 DEF HandlesClaim, HandlesLoad, HandlesStop
  <2> QED BY <1>0, <2>1, <2>2, <2>3, AnsweredMoves
<1>2. ASSUME NEW n \in Node, NEW l \in loading[n], ProceedsLoad(n, l.gen)
      PROVE  /\ UNCHANGED <<active, meters, made, forsaken>>
             /\ \A c \in Coordinator : AnswerMoves(c)
  <2> DEFINE m == Req("loading", l.gen, n, l.gen.num)
  <2>1. m \in Request
    <3>1. l.gen \in Generation
      BY DEF BaseInv, SplitTypeOK, StageTypeOK
    <3> QED BY <3>1, GenerationFacts DEF Req, Request, CallPhase
  <2>2. job' = job \/ \E ok \in BOOLEAN : Answered(m, ok)
    BY <1>2 DEF ProceedsLoad
  <2>3. UNCHANGED <<active, meters, made, forsaken>>
    BY <1>2 DEF ProceedsLoad
  <2> HIDE DEF m
  <2> QED BY <1>0, <2>1, <2>2, <2>3, AnsweredMoves
<1>3. ASSUME NEW c \in Coordinator, CallTimesOut(c)
      PROVE  /\ UNCHANGED <<active, meters, made>> /\ forsaken \subseteq forsaken'
             /\ \A d \in Coordinator : AnswerMoves(d)
  <2>1. PICK m \in Calling(c) : /\ Answered(m, FALSE)
                                /\ forsaken' = IF m.kind = "claiming" THEN forsaken
                                               ELSE forsaken \cup {m.gen}
    BY <1>3 DEF CallTimesOut
  <2>2. m \in Request
    BY PendingFacts DEF Pending, LateOK
  <2>3. UNCHANGED <<active, meters, made>>
    BY <1>3 DEF CallTimesOut
  <2> QED BY <2>1, <2>2, <2>3, AnsweredMoves
<1>4. ASSUME UNCHANGED splitVars
      PROVE  /\ UNCHANGED <<active, meters, made, forsaken>>
             /\ \A c \in Coordinator : AnswerMoves(c)
  BY <1>0, <1>4 DEF splitVars
<1>5. ASSUME NEW n \in Node, (\E s \in stages[n] : StageServerDies(n, s)) \/ Ticks(n)
      PROVE  UNCHANGED splitVars
  BY <1>5 DEF StageServerDies, Ticks
<1>6. UNCHANGED vars => UNCHANGED splitVars
  BY DEF vars
<1> QED BY <1>1, <1>2, <1>3, <1>4, <1>5, <1>6

\* A compute meter is open exactly for what publishes, serves or was left.
MeterInv ==
    /\ \A c \in Coordinator : active[c] \subseteq meters
    /\ \A c \in Coordinator : \A g \in job[c].gen : g \in meters <=> job[c].phase = "publishing"
    /\ \A g \in meters : g \in job[g.coord].gen \cup active[g.coord] \cup forsaken

\* No meter is open at the start.
LEMMA MeterInit == SplitInit => MeterInv
<1> SUFFICES ASSUME SplitInit PROVE MeterInv
  OBVIOUS
<1>1. \A c \in Coordinator : job[c].gen = {} /\ active[c] = {}
  BY DEF SplitInit, Rest
<1> QED BY <1>1 DEF MeterInv, SplitInit

\* A meter comes with the opening of stage 0 and goes with the generation; only
\* an abort on the way leaves one behind.
LEMMA MeterStep == BaseInv /\ BaseInv' /\ MeterInv /\ [SplitNext]_vars => MeterInv'
<1> SUFFICES ASSUME BaseInv, BaseInv', MeterInv, [SplitNext]_vars PROVE MeterInv'
  OBVIOUS
<1>0. /\ \A c \in Coordinator : JobOK(c, job[c], active[c], made) /\ PublishedOK(c, active[c], made)
      /\ job \in [Coordinator -> JobType]
      /\ active \in [Coordinator -> SUBSET Generation]
      /\ meters \subseteq made /\ made \subseteq Generation
      /\ \A g \in Generation : g.coord \in Coordinator
  BY GenerationFacts DEF BaseInv, SplitTypeOK, JobType
<1>a. /\ \A c \in Coordinator : \A g \in job[c].gen : g.coord = c /\ g \in made /\ g \notin active[c]
      /\ \A c \in Coordinator : \A g \in active[c] : g.coord = c /\ g \in made
      /\ \A g \in meters : g.coord \in Coordinator
  BY <1>0 DEF JobOK, PublishedOK
<1>1. ASSUME UNCHANGED <<active, meters, made>>, forsaken \subseteq forsaken',
             \A c \in Coordinator : AnswerMoves(c)
      PROVE  MeterInv'
  <2>1. \A c \in Coordinator : active'[c] \subseteq meters'
    BY <1>1 DEF MeterInv
  <2>2. \A c \in Coordinator : \A g \in job'[c].gen : g \in meters' <=> job'[c].phase = "publishing"
    BY <1>1 DEF MeterInv, AnswerMoves, CallPhase
  <2>3. \A g \in meters' : g \in job'[g.coord].gen \cup active'[g.coord] \cup forsaken'
    BY <1>1, <1>a DEF MeterInv, AnswerMoves, CallPhase
  <2> QED BY <2>1, <2>2, <2>3 DEF MeterInv
<1>2. ASSUME NEW c \in Coordinator, NEW g \in Generation,
             StartsUp(c, g) \/ Replans(c, g) \/ Replaces(c, g)
      PROVE  MeterInv'
  <2>1. PICK then \in {"resume", "leave", "end"} : Begins(c, g, then)
    BY <1>2 DEF StartsUp, Replans, Replaces
  <2>2. /\ job' = [job EXCEPT ![c] = Claiming(g, then)] /\ g \notin made /\ job[c].phase = "idle"
        /\ UNCHANGED <<active, meters, forsaken>>
    BY <2>1 DEF Begins
  <2>3. Claiming(g, then).phase = "claiming" /\ Claiming(g, then).gen = {g}
    BY <2>1, ClaimingFacts
  <2>4. job[c].gen = {}
    BY <1>0, <2>2 DEF JobOK, Underway
  <2>5. \A d \in Coordinator : \A h \in job'[d].gen : h \in meters <=> job'[d].phase = "publishing"
    BY <1>0, <2>2, <2>3 DEF MeterInv
  <2>6. \A h \in meters : h \in job'[h.coord].gen \cup active[h.coord] \cup forsaken
    BY <1>0, <1>a, <2>2, <2>4 DEF MeterInv
  <2> QED BY <2>2, <2>5, <2>6 DEF MeterInv
<1>3. ASSUME NEW c \in Coordinator, OpensStage0(c)
      PROVE  MeterInv'
  <2> DEFINE k == [job[c] EXCEPT !.phase = "publishing"]
  <2>1. /\ job' = [job EXCEPT ![c] = k] /\ meters' = meters \cup job[c].gen
        /\ UNCHANGED <<active, forsaken>>
    BY <1>0, <1>3 DEF OpensStage0
  <2>2. k.phase = "publishing" /\ k.gen = job[c].gen
    <3>1. job[c] \in JobType
      BY <1>0
    <3> QED BY <3>1 DEF JobType
  <2> HIDE DEF k
  <2>3. \A d \in Coordinator : job'[d].gen = job[d].gen
    BY <1>0, <2>1, <2>2
  <2>4. \A d \in Coordinator : \A h \in job'[d].gen : h \in meters' <=> job'[d].phase = "publishing"
    <3>1. ASSUME NEW d \in Coordinator, d # c, NEW h \in job[d].gen
          PROVE  h \in meters' <=> job'[d].phase = "publishing"
      <4>1. h \notin job[c].gen /\ job'[d] = job[d]
        BY <1>0, <1>a, <2>1, <3>1
      <4> QED BY <2>1, <3>1, <4>1 DEF MeterInv
    <3>2. job'[c].phase = "publishing" /\ \A h \in job[c].gen : h \in meters'
      BY <1>0, <2>1, <2>2
    <3> QED BY <2>3, <3>1, <3>2
  <2>5. \A h \in meters' : h \in job'[h.coord].gen \cup active[h.coord] \cup forsaken
    BY <1>a, <2>1, <2>3 DEF MeterInv
  <2> QED BY <2>1, <2>4, <2>5 DEF MeterInv
<1>4. ASSUME NEW c \in Coordinator, OpenFails(c)
      PROVE  MeterInv'
  <2>1. PICK g \in job[c].gen : job' = [job EXCEPT ![c] = Stopping(g, g.num, @.then)]
    BY <1>4 DEF OpenFails
  <2>2. UNCHANGED <<active, meters, forsaken>> /\ job[c].phase = "opening"
    BY <1>4 DEF OpenFails
  <2>3. job'[c].gen = {g} /\ job'[c].phase = "stopping" /\ job[c].gen = {g}
    BY <1>0, <2>1 DEF Stopping, JobOK
  <2>4. \A d \in Coordinator : d # c => job'[d] = job[d]
    BY <1>0, <2>1
  <2>5. \A d \in Coordinator : \A h \in job'[d].gen : h \in meters <=> job'[d].phase = "publishing"
    BY <2>2, <2>3, <2>4 DEF MeterInv
  <2>6. \A h \in meters : h \in job'[h.coord].gen \cup active[h.coord] \cup forsaken
    BY <1>a, <2>3, <2>4 DEF MeterInv
  <2> QED BY <2>2, <2>5, <2>6 DEF MeterInv
<1>5. ASSUME NEW c \in Coordinator, Publishes(c)
      PROVE  MeterInv'
  <2>1. PICK g \in job[c].gen :
            /\ active' = [active EXCEPT ![c] = {g}]
            /\ \/ active[c] = {} /\ job' = [job EXCEPT ![c] = Rest("idle")]
               \/ \E previous \in active[c] : job' = [job EXCEPT ![c] = Stopping(previous, g.num, "resume")]
    BY <1>5 DEF Publishes
  <2>2. meters' = meters \ active[c] /\ forsaken' = forsaken /\ job[c].phase = "publishing"
    BY <1>5 DEF Publishes, MetersLeft
  <2>3. g \in meters' /\ g.coord = c /\ job[c].gen = {g}
    BY <1>0, <1>a, <2>2 DEF MeterInv, JobOK
  <2>4. job'[c].gen \subseteq active[c] /\ job'[c].phase # "publishing"
    BY <1>0, <2>1 DEF Stopping, Rest
  <2>5. \A d \in Coordinator : d # c => job'[d] = job[d] /\ active'[d] = active[d]
    BY <1>0, <2>1
  <2>6. active'[c] = {g}
    BY <1>0, <2>1
  <2>7. \A d \in Coordinator : active'[d] \subseteq meters'
    BY <1>a, <2>2, <2>3, <2>5, <2>6 DEF MeterInv
  <2>8. \A d \in Coordinator : \A h \in job'[d].gen : h \in meters' <=> job'[d].phase = "publishing"
    BY <1>a, <2>2, <2>4, <2>5 DEF MeterInv
  <2>9. \A h \in meters' : h \in job'[h.coord].gen \cup active'[h.coord] \cup forsaken
    BY <1>a, <2>2, <2>3, <2>5, <2>6 DEF MeterInv
  <2> QED BY <2>2, <2>7, <2>8, <2>9 DEF MeterInv
<1>6. ASSUME NEW c \in Coordinator, LeavesActive(c) \/ ModelStops(c)
      PROVE  MeterInv'
  <2>1. /\ active' = [active EXCEPT ![c] = {}] /\ forsaken \subseteq forsaken'
        /\ \E g \in active[c] : \E num, then : job' = [job EXCEPT ![c] = Stopping(g, num, then)]
    BY <1>6 DEF LeavesActive, ModelStops
  <2>2. job'[c].gen \subseteq active[c] /\ job'[c].phase = "stopping" /\ active'[c] = {}
    BY <1>0, <2>1 DEF Stopping
  <2>3. \A d \in Coordinator : d # c => job'[d] = job[d] /\ active'[d] = active[d]
    BY <1>0, <2>1
  <2>4. \/ meters' = meters \ active[c] /\ (job[c].gen \subseteq forsaken' \/ job[c].gen = {})
        \/ /\ meters' = (meters \ active[c]) \cup job[c].gen
           /\ job[c].gen \subseteq forsaken'
    <3>1. CASE LeavesActive(c)
      <4>1. meters' = meters \ active[c] /\ job[c].phase \in {"leaving", "idle"}
        BY <3>1 DEF LeavesActive, MetersLeft
      <4>2. job[c].gen = {}
        BY <1>0, <4>1 DEF JobOK, Underway
      <4> QED BY <4>1, <4>2
    <3>2. CASE ModelStops(c)
      BY <3>2 DEF ModelStops, MetersLeft
    <3> QED BY <1>6, <3>1, <3>2
  <2>5. \A d \in Coordinator : active'[d] \subseteq meters'
    BY <1>a, <2>2, <2>3, <2>4 DEF MeterInv
  <2>6. \A d \in Coordinator : \A h \in job'[d].gen : h \in meters' <=> job'[d].phase = "publishing"
    BY <1>a, <2>2, <2>3, <2>4 DEF MeterInv
  <2>7. \A h \in meters' : h \in job'[h.coord].gen \cup active'[h.coord] \cup forsaken'
    BY <1>a, <2>1, <2>2, <2>3, <2>4 DEF MeterInv
  <2> QED BY <2>5, <2>6, <2>7 DEF MeterInv
<1>7. ASSUME NEW n \in Node, Restarts(n)
      PROVE  MeterInv'
  <2>1. /\ meters' = {g \in meters : g.coord # n} /\ forsaken \subseteq forsaken'
        /\ \A c \in Coordinator : active'[c] = IF c = n THEN {} ELSE active[c]
    BY <1>7 DEF Restarts
  <2>2. \A c \in Coordinator : c = n => job'[c].gen = {}
    BY <1>7 DEF Restarts, Rest
  <2>3. \A c \in Coordinator : c # n => AnswerMoves(c)
    <3>1. ASSUME NEW c \in Coordinator, c # n PROVE AnswerMoves(c)
      <4>1. \/ job'[c] = job[c]
            \/ \E m \in Calling(c) : /\ m.to = n /\ m \notin Unanswered(c)
                                     /\ m.gen \in job[c].gen /\ job[c].phase = "loading"
                                     /\ job'[c] = After(job[c], m.gen, FALSE)
        BY <1>7, <3>1, RestartedJob
      <4>2. ASSUME NEW g \in job[c].gen, job[c].phase = "loading", job'[c] = After(job[c], g, FALSE)
            PROVE  AnswerMoves(c)
        <5>1. JobOK(c, job[c], active[c], made) /\ job[c].phase \in CallPhase
          BY <1>0, <4>2 DEF CallPhase
        <5>2. PICK no \in BOOLEAN : no = FALSE
          OBVIOUS
        <5>3. After(job[c], g, no).gen \in {{g}, {}} /\ After(job[c], g, no).phase # "publishing"
          BY <4>2, <5>1, AfterKeepsJob
        <5> QED BY <4>2, <5>1, <5>2, <5>3 DEF AnswerMoves
      <4> QED BY <4>1, <4>2 DEF AnswerMoves
    <3> QED BY <3>1
  <2>4. \A c \in Coordinator : active'[c] \subseteq meters'
    BY <1>a, <2>1 DEF MeterInv
  <2>5. \A c \in Coordinator : \A g \in job'[c].gen : g \in meters' <=> job'[c].phase = "publishing"
    BY <1>a, <2>1, <2>2, <2>3 DEF MeterInv, AnswerMoves, CallPhase
  <2>6. \A g \in meters' : g \in job'[g.coord].gen \cup active'[g.coord] \cup forsaken'
    BY <1>a, <2>1, <2>3 DEF MeterInv, AnswerMoves, CallPhase
  <2> QED BY <2>4, <2>5, <2>6 DEF MeterInv
<1> QED BY <1>1, <1>2, <1>3, <1>4, <1>5, <1>6, <1>7, CallSteps DEF SplitNext, Coordinates

\* MeterInv holds in every state.
LEMMA MeterSafety == SplitSpec => []MeterInv
  BY BaseSafety, MeterInit, MeterStep, PTL DEF SplitSpec

\* The compute meter of what is published is registered, and none outlives its
\* generation but those an abort in mid-candidate left.
THEOREM MetersFollow == SplitSpec => []MeterFollowsGeneration
<1>1. MeterInv => MeterFollowsGeneration
  BY DEF MeterInv, MeterFollowsGeneration
<1> QED BY <1>1, MeterSafety, PTL

-------------------------------------------------------------------------------
(* Keepers *)

\* g is in hand, in one of these phases of job j.
OfJob(g, j, phases) == g \in j.gen /\ j.phase \in phases

\* Job j waits for node n to load its stage of g.
CurrentLoad(g, n, j) == OfJob(g, j, {"loading"}) /\ g.plan[j.pos] = n

\* A stage of g on n has somebody to stop it: it was forsaken, or it is one of
\* g's stages, and g is published, or in hand and not past n in its clean-up.
Kept(g, n, j, published, left) ==
    \/ g \in left
    \/ /\ n \in Downstream(g)
       /\ \/ g \in published
          \/ OfJob(g, j, {"loading", "opening", "publishing"})
          \/ OfJob(g, j, {"stopping"}) /\ \E i \in j.pos..Len(g.plan) : g.plan[i] = n

\* Each stage, and each load still out, has somebody who will stop it.
KeeperInv ==
    /\ \A m \in late : m.kind = "loading" => m.gen \in forsaken
    /\ \A n \in Node :
        /\ \A l \in loading[n] :
            /\ l.gen \in made
            /\ l.gen \in forsaken \/ CurrentLoad(l.gen, n, job[l.gen.coord])
        /\ \A s \in stages[n] :
            /\ s.gen \in made
            /\ Kept(s.gen, n, job[s.gen.coord], active[s.gen.coord], forsaken)

\* The nodes behind stage 0, by their places in the plan.
LEMMA DownstreamFacts ==
  ASSUME NEW g \in Generation
  PROVE  \A n : n \in Downstream(g) <=> \E i \in 2..Len(g.plan) : g.plan[i] = n
  BY DEF Downstream

\* What was forsaken stays so.
LEMMA ForsakenGrows ==
  ASSUME [SplitNext]_vars
  PROVE  forsaken \subseteq forsaken' /\ made \subseteq made'
  BY DEF SplitNext, vars, splitVars, HandlesClaim, HandlesLoad, HandlesStop, ProceedsLoad,
         StartsUp, Replans, Replaces, Begins, Coordinates, CallTimesOut, OpensStage0, OpenFails,
         Publishes, LeavesActive, ModelStops, StageServerDies, Restarts, Ticks

\* What a load's answer leaves in hand.
LEMMA LoadAnswered ==
  ASSUME NEW c \in Coordinator, BaseInv, NEW m \in Calling(c), NEW ok \in BOOLEAN,
         job[c].phase = "loading"
  PROVE  LET k == After(job[c], m.gen, ok)
         IN  /\ k.gen = {m.gen}
             /\ \/ ok /\ job[c].pos > 2 /\ k.phase = "loading" /\ k.pos = job[c].pos - 1
                \/ ok /\ job[c].pos = 2 /\ k.phase = "opening"
                \/ ~ok /\ k.phase = "stopping" /\ k.pos = 2
<1>1. /\ job[c] \in JobType /\ m.gen \in Generation /\ job[c].gen = {m.gen}
      /\ job[c].pos \in 2..Len(m.gen.plan)
  BY CallingFacts DEF BaseInv, JobOK
<1>2. job[c].pos \in Nat /\ job[c].pos >= 2
  BY <1>1, GenerationFacts
<1>3. After(job[c], m.gen, ok) = AfterLoad(job[c], m.gen, ok)
  BY AfterIs
<1>4. LET k == Stopping(m.gen, m.gen.num, job[c].then)
      IN  k.gen = {m.gen} /\ k.phase = "stopping" /\ k.pos = 2
  BY DEF Stopping
<1> HIDE DEF Stopping
<1> QED BY <1>1, <1>2, <1>3, <1>4, AfterLoadFacts

\* What a stop's answer leaves in hand.
LEMMA StopAnswered ==
  ASSUME NEW c \in Coordinator, BaseInv, NEW m \in Calling(c), NEW ok \in BOOLEAN,
         job[c].phase = "stopping"
  PROVE  LET k == After(job[c], m.gen, ok)
         IN  \/ /\ job[c].pos < Len(m.gen.plan)
                /\ k.gen = {m.gen} /\ k.phase = "stopping" /\ k.pos = job[c].pos + 1
             \/ /\ ~(job[c].pos < Len(m.gen.plan))
                /\ k.gen = {} /\ k.phase \in {"idle", "leaving", "ended"}
<1>1. job[c] \in JobType /\ m.gen \in Generation /\ job[c].gen = {m.gen}
  BY CallingFacts DEF BaseInv, JobOK
<1>2. After(job[c], m.gen, ok) = AfterStop(job[c], m.gen)
  BY AfterIs
<1> QED BY <1>1, <1>2, AfterStopFacts

\* What a claim's answer leaves in hand.
LEMMA ClaimAnswered ==
  ASSUME NEW c \in Coordinator, BaseInv, NEW m \in Calling(c), NEW ok \in BOOLEAN,
         job[c].phase = "claiming"
  PROVE  LET k == After(job[c], m.gen, ok)
         IN  \/ /\ job[c].pos < Len(m.gen.plan)
                /\ k.gen = {m.gen} /\ k.phase = "claiming" /\ k.pos = job[c].pos + 1
             \/ k.gen = {m.gen} /\ k.phase = "loading" /\ k.pos = Len(m.gen.plan)
             \/ k.gen = {} /\ k.phase \in {"idle", "leaving", "ended"}
<1>1. /\ job[c] \in JobType /\ m.gen \in Generation /\ job[c].gen = {m.gen}
      /\ job[c].pos \in 1..Len(m.gen.plan) /\ job[c].pos \in Nat
  BY CallingFacts DEF BaseInv, JobOK, JobType
<1>2. After(job[c], m.gen, ok) = AfterClaim(job[c], m.gen, ok)
  BY AfterIs
<1>3. ~(job[c].pos < Len(m.gen.plan)) => job[c].pos = Len(m.gen.plan)
  BY <1>1, GenerationFacts
<1> QED BY <1>1, <1>2, <1>3, AfterClaimFacts

\* A stage that is kept stays kept, or goes.
LEMMA KeptMoves ==
  ASSUME BaseInv, [SplitNext]_vars, NEW g \in made, NEW n \in Node,
         Kept(g, n, job[g.coord], active[g.coord], forsaken)
  PROVE  \/ Kept(g, n, job'[g.coord], active'[g.coord], forsaken')
         \/ \A s \in stages'[n] : s.gen # g
<1> DEFINE c == g.coord
           Goal == \/ Kept(g, n, job'[c], active'[c], forsaken')
                   \/ \A s \in stages'[n] : s.gen # g
<1>0. /\ g \in Generation /\ c \in Coordinator
      /\ JobOK(c, job[c], active[c], made) /\ PublishedOK(c, active[c], made)
      /\ Len(g.plan) \in Nat
  BY GenerationFacts DEF BaseInv, SplitTypeOK
<1>1. forsaken \subseteq forsaken'
  BY ForsakenGrows
<1> SUFFICES ASSUME g \notin forsaken' PROVE Goal
  BY DEF Kept
<1>2. /\ n \in Downstream(g)
      /\ \/ g \in active[c]
         \/ OfJob(g, job[c], {"loading", "opening", "publishing"})
         \/ OfJob(g, job[c], {"stopping"}) /\ \E i \in job[c].pos..Len(g.plan) : g.plan[i] = n
  BY <1>1 DEF Kept
<1>3. \A k : OfJob(g, k, {"stopping"}) /\ k.pos = 2 => \E i \in k.pos..Len(g.plan) : g.plan[i] = n
  BY <1>0, <1>2, DownstreamFacts
<1>4. \A h, num, then : LET k == Stopping(h, num, then)
                        IN  k.gen = {h} /\ k.phase = "stopping" /\ k.pos = 2
  BY DEF Stopping
<1>a. ASSUME g \in active'[c] PROVE Goal
  BY <1>2, <1>a DEF Kept
<1>b. ASSUME OfJob(g, job'[c], {"loading", "opening", "publishing"}) PROVE Goal
  BY <1>2, <1>b DEF Kept
<1>c. ASSUME OfJob(g, job'[c], {"stopping"}), job'[c].pos = 2 PROVE Goal
  BY <1>2, <1>3, <1>c DEF Kept
<1> HIDE DEF c
<1>5. CASE job'[c] = job[c] /\ active'[c] = active[c]
  BY <1>2, <1>5 DEF Kept, c
<1>6. ASSUME active'[c] = active[c],
             NEW m \in Calling(c), NEW ok \in BOOLEAN,
             job'[c] = After(job[c], m.gen, ok), Effect(m, ok)
      PROVE  Goal
  <2>1. /\ job[c].phase \in CallPhase /\ job[c].gen = {m.gen} /\ m.kind = job[c].phase
        /\ m.to = m.gen.plan[job[c].pos]
    BY <1>0, <1>6, CallingFacts
  <2>2. CASE g \in active[c]
    BY <1>6, <1>a, <2>2
  <2>3. CASE OfJob(g, job[c], {"loading", "opening", "publishing"})
    <3>1. job[c].phase = "loading" /\ g = m.gen
      BY <2>1, <2>3 DEF OfJob, CallPhase
    <3>2. /\ job'[c].gen = {g}
          /\ \/ job'[c].phase \in {"loading", "opening"}
             \/ job'[c].phase = "stopping" /\ job'[c].pos = 2
      BY <1>0, <1>6, <3>1, LoadAnswered
    <3> QED BY <3>2, <1>b, <1>c DEF OfJob
  <2>4. ASSUME OfJob(g, job[c], {"stopping"}),
               NEW i \in job[c].pos..Len(g.plan), g.plan[i] = n
        PROVE  Goal
    <3>1. job[c].phase = "stopping" /\ g = m.gen
      BY <2>1, <2>4 DEF OfJob
    <3>2. \A s \in stages'[m.to] : s.gen # g
      BY <1>6, <2>1, <3>1 DEF Effect
    <3>3. CASE n = m.to
      BY <3>2, <3>3
    <3>4. CASE n # m.to
      <4>1. job[c].pos \in 2..Len(g.plan) /\ i # job[c].pos
        BY <1>0, <2>1, <2>4, <3>1, <3>4 DEF JobOK
      <4>2. job[c].pos < Len(g.plan) /\ i \in (job[c].pos + 1)..Len(g.plan)
        BY <1>0, <2>4, <4>1
      <4>3. OfJob(g, job'[c], {"stopping"}) /\ job'[c].pos = job[c].pos + 1
        BY <1>0, <1>6, <3>1, <4>2, StopAnswered DEF OfJob
      <4> QED BY <1>2, <2>4, <4>2, <4>3 DEF Kept, c
    <3> QED BY <3>3, <3>4
  <2> QED BY <1>2, <2>2, <2>3, <2>4
<1>7. ASSUME active'[c] = active[c], job[c].gen = {}
      PROVE  Goal
  BY <1>2, <1>7, <1>a DEF OfJob
<1>8. ASSUME active'[c] = active[c], job[c].phase = "opening",
             \/ job'[c].phase = "publishing" /\ job'[c].gen = job[c].gen
             \/ \E h \in job[c].gen : job'[c] = Stopping(h, h.num, job[c].then)
      PROVE  Goal
  <2>1. CASE g \in active[c]
    BY <1>8, <1>a, <2>1
  <2>2. CASE g \notin active[c]
    <3>1. g \in job[c].gen
      BY <1>2, <2>2 DEF OfJob
    <3>2. CASE job'[c].phase = "publishing" /\ job'[c].gen = job[c].gen
      BY <3>1, <3>2, <1>b DEF OfJob
    <3>3. ASSUME NEW h \in job[c].gen, job'[c] = Stopping(h, h.num, job[c].then)
          PROVE  Goal
      <4>1. h = g
        BY <1>0, <3>1, <3>3 DEF JobOK
      <4>2. OfJob(g, job'[c], {"stopping"}) /\ job'[c].pos = 2
        BY <1>4, <3>3, <4>1 DEF OfJob
      <4> QED BY <4>2, <1>c
    <3> QED BY <1>8, <3>2, <3>3
  <2> QED BY <2>1, <2>2
<1>9. ASSUME job[c].phase = "publishing", NEW h \in job[c].gen, active'[c] = {h},
             \/ active[c] = {} /\ job'[c] = Rest("idle")
             \/ \E previous \in active[c] : job'[c] = Stopping(previous, h.num, "resume")
      PROVE  Goal
  <2>1. CASE g \in active[c]
    <3>1. PICK previous \in active[c] : job'[c] = Stopping(previous, h.num, "resume")
      BY <1>9, <2>1
    <3>2. previous = g
      BY <1>0, <2>1 DEF PublishedOK
    <3>3. OfJob(g, job'[c], {"stopping"}) /\ job'[c].pos = 2
      BY <1>4, <3>1, <3>2 DEF OfJob
    <3> QED BY <3>3, <1>c
  <2>2. CASE g \notin active[c]
    <3>1. g = h
      BY <1>0, <1>2, <1>9, <2>2 DEF OfJob, JobOK
    <3> QED BY <1>9, <1>a, <3>1
  <2> QED BY <2>1, <2>2
<1>10. ASSUME active'[c] = {}, job[c].gen \subseteq forsaken',
              NEW h \in active[c], NEW num, NEW then, job'[c] = Stopping(h, num, then)
       PROVE  Goal
  <2>1. g = h
    BY <1>0, <1>2, <1>10 DEF OfJob, PublishedOK
  <2>2. OfJob(g, job'[c], {"stopping"}) /\ job'[c].pos = 2
    BY <1>4, <1>10, <2>1 DEF OfJob
  <2> QED BY <2>2, <1>c
<1>11. CASE \A h \in made : h.coord = c => h \in forsaken'
  BY <1>11 DEF c
<1>12. JobStep(c)
  BY <1>0, JobSteps
<1> HIDE DEF Goal
<1> QED BY <1>5, <1>6, <1>7, <1>8, <1>9, <1>10, <1>11, <1>12 DEF JobStep

\* A load somebody waits for is waited for until it ends, or is forsaken.
LEMMA LoadMoves ==
  ASSUME BaseInv, [SplitNext]_vars, NEW g \in made, NEW n \in Node,
         CurrentLoad(g, n, job[g.coord])
  PROVE  g \in forsaken' \/ CurrentLoad(g, n, job'[g.coord]) \/ loading'[n] = {}
<1> DEFINE c == g.coord
<1>0. /\ g \in Generation /\ c \in Coordinator
      /\ JobOK(c, job[c], active[c], made)
  BY GenerationFacts DEF BaseInv, SplitTypeOK
<1>1. /\ g \in job[c].gen /\ job[c].phase = "loading" /\ g.plan[job[c].pos] = n
      /\ job[c].gen = {g}
  BY <1>0 DEF CurrentLoad, OfJob, JobOK
<1> HIDE DEF c
<1>2. ASSUME NEW m \in Calling(c), NEW ok \in BOOLEAN, Effect(m, ok)
      PROVE  g \in forsaken' \/ loading'[n] = {}
  BY <1>0, <1>1, <1>2, CallingFacts DEF Effect
<1>3. JobStep(c)
  BY <1>0, JobSteps
<1>4. job'[c] = job[c] \/ g \in forsaken' \/ loading'[n] = {}
  BY <1>0, <1>1, <1>2, <1>3 DEF JobStep, c
<1> QED BY <1>4 DEF CurrentLoad, OfJob, c

\* A load given up belongs to an attempt that is forsaken.
LEMMA LateForsaken ==
  ASSUME BaseInv, KeeperInv, [SplitNext]_vars, NEW m \in late', m.kind = "loading"
  PROVE  m.gen \in forsaken'
<1>1. CASE m \in late
  BY <1>1, ForsakenGrows DEF KeeperInv
<1>2. ASSUME NEW c \in Coordinator, m \in Calling(c), CallTimesOut(c)
      PROVE  m.gen \in forsaken'
  <2>1. PICK k \in Calling(c) : forsaken' = IF k.kind = "claiming" THEN forsaken
                                            ELSE forsaken \cup {k.gen}
    BY <1>2 DEF CallTimesOut
  <2>2. k.gen = m.gen /\ k.kind = m.kind
    BY <1>2, <2>1, CallingFacts DEF BaseInv
  <2> QED BY <2>1, <2>2
<1>3. ASSUME NEW c \in Coordinator, m \in Calling(c), ModelStops(c)
      PROVE  m.gen \in forsaken'
  <2>1. m.gen \in job[c].gen
    BY <1>3, CallingFacts DEF BaseInv
  <2> QED BY <1>3, <2>1 DEF ModelStops
<1>4. ASSUME NEW n \in Coordinator, Restarts(n), m \in Calling(n)
      PROVE  m.gen \in forsaken'
  <2>1. m.gen.coord = n /\ m.gen \in made
    BY <1>4, CallingFacts DEF BaseInv, JobOK
  <2> QED BY <1>4, <2>1 DEF Restarts
<1>5. m \in late \/ \E c \in Coordinator : m \in Calling(c) /\ (CallTimesOut(c) \/ ModelStops(c) \/ Restarts(c))
  BY LateSources
<1> QED BY <1>1, <1>2, <1>3, <1>4, <1>5

\* There is no stage at the start.
LEMMA KeeperInit == SplitInit => KeeperInv
  BY DEF SplitInit, StageInit, KeeperInv

\* What a step makes of a stage or a load: it stays with its keeper or is gone.
LEMMA KeeperStep == BaseInv /\ KeeperInv /\ [SplitNext]_vars => KeeperInv'
<1> SUFFICES ASSUME BaseInv, KeeperInv, [SplitNext]_vars PROVE KeeperInv'
  OBVIOUS
<1>1. made \subseteq made' /\ forsaken \subseteq forsaken'
  BY ForsakenGrows
\* A load called for is forsaken or the one its coordinator waits for.
<1>2. ASSUME NEW m \in Pending, m.kind = "loading"
      PROVE  m.gen \in made /\ (m.gen \in forsaken \/ CurrentLoad(m.gen, m.to, job[m.gen.coord]))
  <2>1. m.gen \in made
    BY PendingFacts DEF LateOK
  <2>2. ASSUME NEW c \in Coordinator, m \in Calling(c)
        PROVE  CurrentLoad(m.gen, m.to, job[m.gen.coord])
    BY <1>2, <2>2, CallingFacts DEF BaseInv, CurrentLoad, OfJob
  <2> QED BY <1>2, <2>1, <2>2 DEF Pending, KeeperInv
\* A load somebody waits for has a keeper for the stage it starts.
<1>3. ASSUME NEW g \in made, NEW n \in Node,
             g \in forsaken \/ CurrentLoad(g, n, job[g.coord])
      PROVE  Kept(g, n, job[g.coord], active[g.coord], forsaken)
  <2>1. ASSUME CurrentLoad(g, n, job[g.coord]) PROVE n \in Downstream(g)
    <3>1. g \in Generation /\ g.coord \in Coordinator
      BY GenerationFacts DEF BaseInv, SplitTypeOK
    <3>2. job[g.coord].pos \in 2..Len(g.plan)
      BY <2>1, <3>1 DEF BaseInv, CurrentLoad, OfJob, JobOK
    <3> QED BY <2>1, <3>1, <3>2, DownstreamFacts DEF CurrentLoad
  <2> QED BY <1>3, <2>1 DEF Kept, CurrentLoad, OfJob
<1>4. ASSUME NEW n \in Node, NEW l \in loading'[n]
      PROVE  l.gen \in made' /\ (l.gen \in forsaken' \/ CurrentLoad(l.gen, n, job'[l.gen.coord]))
  <2>1. l.gen \in made /\ (l.gen \in forsaken \/ CurrentLoad(l.gen, n, job[l.gen.coord]))
    BY <1>2, <1>4, StageSources DEF KeeperInv
  <2>2. loading'[n] # {}
    BY <1>4
  <2> QED BY <1>1, <2>1, <2>2, LoadMoves
<1>5. ASSUME NEW n \in Node, NEW s \in stages'[n]
      PROVE  s.gen \in made' /\ Kept(s.gen, n, job'[s.gen.coord], active'[s.gen.coord], forsaken')
  <2>1. s.gen \in made /\ Kept(s.gen, n, job[s.gen.coord], active[s.gen.coord], forsaken)
    BY <1>3, <1>5, StageSources DEF KeeperInv
  <2>2. ~\A t \in stages'[n] : t.gen # s.gen
    BY <1>5
  <2> QED BY <1>1, <2>1, <2>2, KeptMoves
<1> QED BY <1>4, <1>5, LateForsaken DEF KeeperInv

\* KeeperInv holds in every state.
LEMMA KeeperSafety == SplitSpec => []KeeperInv
  BY BaseSafety, KeeperInit, KeeperStep, PTL DEF SplitSpec

\* No stage is left behind without a crash, an abort or a lost call: whatever
\* runs is in its coordinator's hands.
THEOREM StagesHaveKeepers == SplitSpec => []StageHasKeeper
<1>1. KeeperInv => StageHasKeeper
  BY DEF KeeperInv, StageHasKeeper, Kept, OfJob
<1> QED BY <1>1, KeeperSafety, PTL

-------------------------------------------------------------------------------
(* Routes *)

\* g is published, or on its way there.
Live(g, j, published) == g \in published \/ OfJob(g, j, Underway)

\* Its coordinator counts on the stage of g on n.
Loaded(g, n, j, published) ==
    \/ n \in Downstream(g) /\ (g \in published \/ OfJob(g, j, {"opening", "publishing"}))
    \/ OfJob(g, j, {"loading"}) /\ \E i \in (j.pos + 1)..Len(g.plan) : g.plan[i] = n

\* Some node still runs a stage of g.
Runs(running, g) == \E s \in running : s.gen = g

\* m is the claim of g sent to n.
ClaimOf(m, g, n) == m.kind = "claiming" /\ m.gen = g /\ m.to = n

\* Nobody claims n for g a second time: as long as a claim of g for n may come,
\* n has not had it.
ClaimedOnce ==
    /\ \A n \in Node : claims[n] \subseteq made
    /\ \A m \in late : m.kind = "claiming" => m.gen \notin claims[m.to]
    /\ \A c \in Coordinator : \A g \in job[c].gen : job[c].phase = "claiming" =>
        \A i \in job[c].pos..Len(g.plan) :
            /\ g \notin claims[g.plan[i]]
            /\ \A m \in late : ~ClaimOf(m, g, g.plan[i])

\* What was given up does not touch what is live.
LeftAlone ==
    /\ forsaken \subseteq made
    /\ \A g \in forsaken : ~Live(g, job[g.coord], active[g.coord])
    /\ \A m \in late : m.kind = "stopping" => ~Live(m.gen, job[m.gen.coord], active[m.gen.coord])

\* What is published, or being made, is touched by no other generation.
RouteInv ==
    /\ ClaimedOnce
    /\ LeftAlone
    /\ \A n \in Node : \A l \in loading[n] : l.step = "probing" => Runs(stages[n], l.gen)
    /\ \A g \in made, n \in Node : Loaded(g, n, job[g.coord], active[g.coord]) =>
        /\ g \notin claims[n] \/ Runs(stages[n], g)
        /\ \A m \in late : ~ClaimOf(m, g, n)

\* Where the coordinator counts on a stage, it neither claims, loads nor stops.
LEMMA LoadedFacts ==
  ASSUME BaseInv, NEW g \in made, NEW n, Loaded(g, n, job[g.coord], active[g.coord])
  PROVE  /\ Live(g, job[g.coord], active[g.coord])
         /\ ~OfJob(g, job[g.coord], {"claiming", "stopping"})
         /\ ~CurrentLoad(g, n, job[g.coord])
<1> DEFINE c == g.coord
<1>0. /\ g \in Generation /\ c \in Coordinator /\ Len(g.plan) \in Nat
      /\ JobOK(c, job[c], active[c], made)
      /\ \A i, j \in 1..Len(g.plan) : g.plan[i] = g.plan[j] => i = j
  BY GenerationFacts DEF BaseInv, SplitTypeOK
<1> HIDE DEF c
<1>1. g \in active[c] => g \notin job[c].gen
  BY <1>0 DEF JobOK
<1>2. Live(g, job[c], active[c])
  BY DEF Loaded, Live, OfJob, Underway, c
<1>3. ~OfJob(g, job[c], {"claiming", "stopping"})
  BY <1>1 DEF Loaded, OfJob, c
<1>4. ASSUME CurrentLoad(g, n, job[c]) PROVE FALSE
  <2>1. OfJob(g, job[c], {"loading"}) /\ g.plan[job[c].pos] = n
    BY <1>4 DEF CurrentLoad
  <2>2. job[c].pos \in 2..Len(g.plan)
    BY <1>0, <2>1 DEF JobOK, OfJob
  <2>3. PICK i \in (job[c].pos + 1)..Len(g.plan) : g.plan[i] = n
    BY <1>1, <2>1 DEF Loaded, OfJob, c
  <2>4. i \in 1..Len(g.plan) /\ job[c].pos \in 1..Len(g.plan) /\ i # job[c].pos
    BY <1>0, <2>2, <2>3
  <2> QED BY <1>0, <2>1, <2>3, <2>4
<1> QED BY <1>2, <1>3, <1>4 DEF c

\* An attempt that is not live does not come back.
LEMMA LiveMoves ==
  ASSUME BaseInv, [SplitNext]_vars, NEW g \in made,
         ~Live(g, job[g.coord], active[g.coord])
  PROVE  ~Live(g, job'[g.coord], active'[g.coord])
<1> DEFINE c == g.coord
<1>0. /\ g \in Generation /\ c \in Coordinator
      /\ JobOK(c, job[c], active[c], made)
  BY GenerationFacts DEF BaseInv, SplitTypeOK
<1>1. g \notin active[c] /\ (g \in job[c].gen => job[c].phase = "stopping")
  BY <1>0 DEF Live, OfJob, JobOK
<1> HIDE DEF c
<1> SUFFICES g \notin active'[c] /\ (g \in job'[c].gen => job'[c].phase \notin Underway)
  BY DEF Live, OfJob, c
<1>2. ASSUME NEW m \in Calling(c), NEW ok \in BOOLEAN, job'[c] = After(job[c], m.gen, ok),
             g \in job'[c].gen
      PROVE  job'[c].phase \notin Underway
  <2>1. m.gen \in job[c].gen /\ job[c].gen = {m.gen} /\ job[c].phase \in CallPhase
    BY <1>0, <1>2, CallingFacts
  <2>2. job'[c].gen \in {{m.gen}, {}}
    BY <1>0, <1>2, <2>1, AfterKeepsJob
  <2>3. job[c].phase = "stopping"
    BY <1>1, <1>2, <2>1, <2>2
  <2> QED BY <1>0, <1>2, <2>3, StopAnswered DEF Underway
<1>3. \A h, num, then : Stopping(h, num, then).phase \notin Underway
  BY DEF Stopping, Underway
<1>4. ASSUME NEW h \in Generation \ made, NEW then \in {"resume", "leave"},
             job'[c] = Claiming(h, then)
      PROVE  g \notin job'[c].gen
  BY <1>4, ClaimingFacts
<1>5. Rest("idle").gen = {}
  BY DEF Rest
<1>6. ASSUME NEW h, NEW num, NEW then, job'[c] = Stopping(h, num, then)
      PROVE  job'[c].phase \notin Underway
  BY <1>3, <1>6
<1>7. ASSUME job[c].phase = "publishing", NEW h \in job[c].gen, active'[c] = {h},
             \/ active[c] = {} /\ job'[c] = Rest("idle")
             \/ \E previous \in active[c] : job'[c] = Stopping(previous, h.num, "resume")
      PROVE  g \notin active'[c] /\ (g \in job'[c].gen => job'[c].phase \notin Underway)
  <2>1. g # h
    BY <1>1, <1>7
  <2> QED BY <1>5, <1>6, <1>7, <2>1
<1>8. ASSUME active'[c] = active[c], job[c].phase = "opening",
             \/ job'[c].phase = "publishing" /\ job'[c].gen = job[c].gen
             \/ \E h \in job[c].gen : job'[c] = Stopping(h, h.num, job[c].then)
      PROVE  g \notin active'[c] /\ (g \in job'[c].gen => job'[c].phase \notin Underway)
  BY <1>1, <1>6, <1>8
<1>9. JobStep(c)
  BY <1>0, JobSteps
<1> QED BY <1>1, <1>2, <1>4, <1>5, <1>6, <1>7, <1>8, <1>9 DEF JobStep, Underway

\* What a step forsakes is not live any more.
LEMMA ForsakenNotLive ==
  ASSUME BaseInv, LeftAlone, [SplitNext]_vars, NEW g \in forsaken'
  PROVE  g \in made /\ ~Live(g, job'[g.coord], active'[g.coord])
<1>0. /\ \A c \in Coordinator : JobOK(c, job[c], active[c], made)
      /\ job \in [Coordinator -> JobType] /\ active \in [Coordinator -> SUBSET Generation]
  BY DEF BaseInv, SplitTypeOK, JobType
<1>1. CASE g \in forsaken /\ g \in made
  BY <1>1, LiveMoves DEF LeftAlone
<1>2. ASSUME NEW c \in Coordinator, NEW m \in Calling(c), Answered(m, FALSE), g = m.gen,
             m.kind # "claiming", active' = active
      PROVE  ~Live(g, job'[g.coord], active'[g.coord])
  <2>1. /\ m \in Request /\ m.gen \in job[c].gen /\ m.gen.coord = c /\ job[c].phase \in CallPhase
        /\ m.kind = job[c].phase
    BY <1>0, CallingFacts
  <2>2. PICK no \in BOOLEAN : no = FALSE
    OBVIOUS
  <2>3. job'[c] = After(job[c], m.gen, no)
    BY <1>2, <2>1, <2>2, AnsweredFacts
  <2>4. job'[c].gen = {} \/ job'[c].phase = "stopping"
    BY <1>2, <2>1, <2>2, <2>3, LoadAnswered, StopAnswered DEF CallPhase
  <2>5. g \notin active[c]
    BY <1>0, <1>2, <2>1 DEF JobOK
  <2> QED BY <1>2, <2>1, <2>4, <2>5 DEF Live, OfJob, Underway
<1>3. ASSUME NEW c \in Coordinator, g \in job[c].gen, ModelStops(c)
      PROVE  ~Live(g, job'[g.coord], active'[g.coord])
  <2>1. active' = [active EXCEPT ![c] = {}]
        /\ \E h, num, then : job' = [job EXCEPT ![c] = Stopping(h, num, then)]
    BY <1>3 DEF ModelStops
  <2>2. active'[c] = {} /\ job'[c].phase = "stopping"
    BY <1>0, <2>1 DEF Stopping
  <2>3. g.coord = c
    BY <1>0, <1>3 DEF JobOK
  <2> QED BY <2>2, <2>3 DEF Live, OfJob, Underway
<1>4. ASSUME NEW n \in Node, Restarts(n), g \in made, g.coord = n
      PROVE  ~Live(g, job'[g.coord], active'[g.coord])
  <2>1. n \in Coordinator
    BY <1>4, GenerationFacts DEF BaseInv, SplitTypeOK
  <2>2. active'[n] = {} /\ job'[n] = Rest("idle")
    BY <1>4, <2>1 DEF Restarts
  <2> QED BY <1>4, <2>2 DEF Live, OfJob, Rest
<1>5. \/ g \in forsaken
      \/ \E c \in Coordinator : \E m \in Calling(c) :
            Answered(m, FALSE) /\ g = m.gen /\ m.kind # "claiming" /\ active' = active
      \/ \E c \in Coordinator : g \in job[c].gen /\ ModelStops(c)
      \/ \E n \in Node : Restarts(n) /\ g \in made /\ g.coord = n
  <2>1. ASSUME NEW c \in Coordinator, CallTimesOut(c), g \notin forsaken
        PROVE  \E m \in Calling(c) :
                Answered(m, FALSE) /\ g = m.gen /\ m.kind # "claiming" /\ active' = active
    BY <2>1 DEF CallTimesOut
  <2>2. ASSUME NEW c \in Coordinator, ModelStops(c), g \notin forsaken
        PROVE  g \in job[c].gen
    BY <2>2 DEF ModelStops
  <2>3. ASSUME NEW n \in Node, Restarts(n), g \notin forsaken
        PROVE  g \in made /\ g.coord = n
    BY <2>3 DEF Restarts
  <2>4. ASSUME UNCHANGED forsaken PROVE g \in forsaken
    BY <2>4
  <2>5. \/ UNCHANGED forsaken
        \/ \E c \in Coordinator : CallTimesOut(c) \/ ModelStops(c)
        \/ \E n \in Node : Restarts(n)
    BY DEF SplitNext, vars, splitVars, HandlesClaim, HandlesLoad, HandlesStop, ProceedsLoad,
           StartsUp, Replans, Replaces, Begins, Coordinates, OpensStage0, OpenFails,
           Publishes, LeavesActive, StageServerDies, Ticks
  <2> QED BY <2>1, <2>2, <2>3, <2>4, <2>5
<1>6. g \in made
  <2>1. \A c \in Coordinator : \A m \in Calling(c) : m.gen \in job[c].gen
    BY <1>0, CallingFacts
  <2>2. \A c \in Coordinator : \A h \in job[c].gen : h \in made
    BY <1>0 DEF JobOK
  <2>3. forsaken \subseteq made
    BY DEF LeftAlone
  <2> QED BY <1>5, <2>1, <2>2, <2>3
<1> QED BY <1>1, <1>2, <1>3, <1>4, <1>5, <1>6

\* A claim of g for n is one call: its kind, number and node say it all.
LEMMA OneClaim ==
  ASSUME BaseInv, NEW m \in Pending, NEW k \in Pending, NEW g, NEW n,
         ClaimOf(m, g, n), ClaimOf(k, g, n)
  PROVE  m = k
<1>1. LateOK(m, made) /\ LateOK(k, made)
  BY PendingFacts
<1> QED BY <1>1 DEF LateOK, Request, ClaimOf

\* Once a claim is answered or given up the coordinator does not make it again.
LEMMA ClaimLeft ==
  ASSUME BaseInv, NEW c \in Coordinator, NEW m \in Calling(c), m.kind = "claiming",
         HandlesClaim(m) \/ CallTimesOut(c) \/ ModelStops(c) \/ Restarts(c)
  PROVE  job'[c].phase = "claiming" => job'[c].pos # job[c].pos
<1>0. /\ job \in [Coordinator -> JobType] /\ job[c].pos \in Nat
      /\ m \in Request /\ m.kind = job[c].phase
  BY CallingFacts DEF BaseInv, SplitTypeOK, JobType
<1>1. ASSUME NEW k \in Calling(c), NEW ok \in BOOLEAN, Answered(k, ok)
      PROVE  job'[c].phase = "claiming" => job'[c].pos # job[c].pos
  <2>1. k \in Request
    BY <1>1, CallingFacts DEF BaseInv
  <2>2. job'[c] = After(job[c], k.gen, ok)
    BY <1>1, <2>1, AnsweredFacts
  <2> QED BY <1>0, <2>2, ClaimAnswered
<1>2. CASE HandlesClaim(m)
  <2>1. PICK ok \in BOOLEAN : Answered(m, ok)
    BY <1>2 DEF HandlesClaim
  <2> QED BY <1>1, <2>1
<1>3. CASE CallTimesOut(c)
  <2>1. PICK k \in Calling(c) : \E ok \in BOOLEAN : Answered(k, ok)
    BY <1>3 DEF CallTimesOut
  <2> QED BY <1>1, <2>1
<1>4. CASE ModelStops(c)
  <2>1. \E g, num, then : job' = [job EXCEPT ![c] = Stopping(g, num, then)]
    BY <1>4 DEF ModelStops
  <2> QED BY <1>0, <2>1 DEF Stopping
<1>5. CASE Restarts(c)
  BY <1>5 DEF Restarts, Rest
<1> QED BY <1>2, <1>3, <1>4, <1>5

\* A fence gets a claim from a call only, which is then over.
LEMMA FenceMoves ==
  ASSUME BaseInv, [SplitNext]_vars, NEW n \in Node, NEW g \in claims'[n]
  PROVE  \/ g \in claims[n]
         \/ \E m \in Pending : ClaimOf(m, g, n) /\ m \notin late' /\ HandlesClaim(m)
<1>0. claims \in [Node -> SUBSET Generation]
  BY DEF BaseInv, SplitTypeOK, StageTypeOK
<1>1. ASSUME NEW m \in Pending, HandlesClaim(m)
      PROVE  \/ g \in claims[n]
             \/ ClaimOf(m, g, n) /\ m \notin late'
  <2>1. m.to \in Node /\ m.kind = "claiming" /\ late' = late \ {m}
    BY <1>1, PendingFacts DEF HandlesClaim
  <2>2. \/ claims' = claims
        \/ claims' = [claims EXCEPT ![m.to] = InstallClaim(@, m.gen)]
    BY <1>1 DEF HandlesClaim, ClaimAccepted, ClaimFenceFailed, ClaimRejected, stageVars
  <2>3. CASE claims' = claims
    BY <2>3
  <2>4. CASE claims' = [claims EXCEPT ![m.to] = InstallClaim(@, m.gen)]
    BY <1>0, <2>1, <2>4 DEF InstallClaim, ClaimOf
  <2> QED BY <2>2, <2>3, <2>4
<1>2. ASSUME NEW m \in Pending, HandlesLoad(m) \/ HandlesStop(m) PROVE claims' = claims
  BY <1>2 DEF HandlesLoad, LoadAuthorized, LoadRejected, HandlesStop, HandleStop, StopApplied,
              StopIgnored, stageVars
<1>3. ASSUME NEW o \in Node, NEW l \in loading[o], ProceedsLoad(o, l.gen) PROVE claims' = claims
  BY <1>3 DEF ProceedsLoad, LoadClearsKey, LoadStarted, LoadReady, LoadSourceFailed,
              LoadClearFailed, LoadPackageFailed, LoadProbeFailed
<1>4. ASSUME NEW c \in Coordinator,
             \/ \E h \in Generation : StartsUp(c, h) \/ Replans(c, h) \/ Replaces(c, h)
             \/ Coordinates(c)
             \/ ModelStops(c)
      PROVE  claims' = claims
  BY <1>4 DEF StartsUp, Replans, Replaces, Begins, Coordinates, CallTimesOut, OpensStage0,
              OpenFails, Publishes, LeavesActive, ModelStops, stageVars
<1>5. ASSUME NEW o \in Node, (\E s \in stages[o] : StageServerDies(o, s)) \/ Restarts(o) \/ Ticks(o)
      PROVE  claims'[n] \subseteq claims[n]
  BY <1>0, <1>5 DEF StageServerDies, StageDies, Restarts, NodeRestarts, Ticks, ClockTicks
<1>6. UNCHANGED vars => claims' = claims
  BY DEF vars, stageVars
<1>7. claims' = claims \/ claims'[n] \subseteq claims[n] => g \in claims[n]
  OBVIOUS
<1> QED BY <1>1, <1>2, <1>3, <1>4, <1>5, <1>6, <1>7 DEF SplitNext

\* Late claims are claims a coordinator waited for.
LEMMA ClaimLateSources ==
  ASSUME BaseInv, [SplitNext]_vars, NEW m \in late', m.kind = "claiming"
  PROVE  \/ m \in late
         \/ \E c \in Coordinator :
                m \in Calling(c) /\ (job'[c].phase = "claiming" => job'[c].pos # job[c].pos)
  BY LateSources, ClaimLeft

\* What is in hand, waiting for claims, is as before, a place further, or new.
LEMMA AskedMoves ==
  ASSUME BaseInv, [SplitNext]_vars, NEW c \in Coordinator, NEW g \in job'[c].gen,
         job'[c].phase = "claiming"
  PROVE  \/ g \notin made
         \/ /\ g \in job[c].gen /\ job[c].phase = "claiming"
            /\ job'[c].pos \in {job[c].pos, job[c].pos + 1}
<1>0. JobOK(c, job[c], active[c], made)
  BY DEF BaseInv
<1>1. ASSUME NEW m \in Calling(c), NEW ok \in BOOLEAN, job'[c] = After(job[c], m.gen, ok)
      PROVE  /\ g \in job[c].gen /\ job[c].phase = "claiming"
             /\ job'[c].pos \in {job[c].pos, job[c].pos + 1}
  <2>1. m.gen \in job[c].gen /\ job[c].gen = {m.gen} /\ job[c].phase \in CallPhase
    BY <1>0, <1>1, CallingFacts
  <2>2. job[c].phase = "claiming"
    BY <1>1, <2>1, LoadAnswered, StopAnswered DEF CallPhase
  <2>3. g = m.gen /\ job'[c].pos = job[c].pos + 1
    BY <1>1, <2>2, ClaimAnswered
  <2> QED BY <2>1, <2>2, <2>3
<1>2. ASSUME NEW h \in Generation \ made, NEW then \in {"resume", "leave"},
             job'[c] = Claiming(h, then)
      PROVE  g \notin made
  BY <1>2, ClaimingFacts
<1>3. \A h, num, then : Stopping(h, num, then).phase = "stopping"
  BY DEF Stopping
<1>4. Rest("idle").phase = "idle"
  BY DEF Rest
<1>5. JobStep(c)
  BY JobSteps
<1>6. \/ job'[c] = job[c]
      \/ \E m \in Calling(c), ok \in BOOLEAN : job'[c] = After(job[c], m.gen, ok)
      \/ \E h \in Generation \ made, then \in {"resume", "leave"} : job'[c] = Claiming(h, then)
  BY <1>3, <1>4, <1>5 DEF JobStep
<1> QED BY <1>1, <1>2, <1>6

\* Claims are made once.
LEMMA ClaimedOnceMoves ==
  ASSUME BaseInv, ClaimedOnce, [SplitNext]_vars
  PROVE  ClaimedOnce'
<1>0. /\ \A c \in Coordinator : JobOK(c, job[c], active[c], made)
      /\ \A m \in Pending : m.gen \in made /\ m.to \in Node
      /\ made \subseteq made'
      /\ late \subseteq Pending /\ \A c \in Coordinator : Calling(c) \subseteq Pending
  BY PendingFacts, ForsakenGrows DEF BaseInv, LateOK, Pending
<1>1. ASSUME NEW n \in Node PROVE claims'[n] \subseteq made'
  <2>1. \A g \in claims[n] : g \in made
    BY DEF ClaimedOnce
  <2> QED BY <1>0, <2>1, FenceMoves DEF ClaimOf
\* A call the coordinator waits for is for a node that has not had the claim.
<1>2. ASSUME NEW c \in Coordinator, NEW m \in Calling(c), m.kind = "claiming"
      PROVE  /\ m.gen \in job[c].gen /\ m.to = m.gen.plan[job[c].pos]
             /\ job[c].phase = "claiming" /\ m.gen \notin claims[m.to]
  <2>1. /\ m.gen \in job[c].gen /\ job[c].phase = "claiming"
        /\ job[c].pos \in 1..Len(m.gen.plan) /\ m.to = m.gen.plan[job[c].pos]
    BY <1>0, <1>2, CallingFacts
  <2>2. job[c].pos \in job[c].pos..Len(m.gen.plan)
    BY <1>0, <2>1 DEF JobOK, JobType
  <2> QED BY <2>1, <2>2 DEF ClaimedOnce
<1>3. ASSUME NEW m \in late', m.kind = "claiming" PROVE m.gen \notin claims'[m.to]
  <2>1. m \in Pending /\ m.gen \notin claims[m.to]
    BY <1>0, <1>2, <1>3, ClaimLateSources DEF ClaimedOnce
  <2>2. ASSUME NEW k \in Pending, ClaimOf(k, m.gen, m.to), k \notin late' PROVE FALSE
    <3>1. ClaimOf(m, m.gen, m.to)
      BY <1>3 DEF ClaimOf
    <3> QED BY <1>3, <2>1, <2>2, <3>1, OneClaim
  <2> QED BY <1>0, <2>1, <2>2, FenceMoves
<1>4. ASSUME NEW c \in Coordinator, NEW g \in job'[c].gen, job'[c].phase = "claiming",
             NEW i \in job'[c].pos..Len(g.plan)
      PROVE  g \notin claims'[g.plan[i]] /\ \A m \in late' : ~ClaimOf(m, g, g.plan[i])
  <2> DEFINE n == g.plan[i]
  <2>1. n \in Node /\ g \in Generation /\ job'[c].pos \in Nat /\ Len(g.plan) \in Nat
        /\ job'[c].pos >= 1
    <3>1. PICK f \in [Coordinator -> JobType] : f = job'
      BY BaseStep DEF BaseInv, SplitTypeOK, JobType
    <3>2. JobOK(c, job'[c], active'[c], made')
      BY BaseStep DEF BaseInv
    <3>3. g \in Generation /\ job'[c].pos \in 1..Len(g.plan)
      BY <1>4, <3>1, <3>2 DEF JobOK, JobType
    <3>4. Len(g.plan) \in Nat /\ \A j \in 1..Len(g.plan) : g.plan[j] \in Node
      BY <3>3, GenerationFacts
    <3> QED BY <1>4, <3>3, <3>4
  <2> HIDE DEF n
  <2>2. CASE g \notin made
    <3>1. g \notin claims[n] /\ \A m \in Pending : ~ClaimOf(m, g, n)
      BY <1>0, <2>1, <2>2 DEF ClaimedOnce, ClaimOf
    <3>2. g \notin claims'[n]
      BY <2>1, <3>1, FenceMoves
    <3>3. \A m \in late' : ~ClaimOf(m, g, n)
      <4>1. \A m \in late' : m \in Pending
        BY LateSources DEF Pending
      <4> QED BY <3>1, <4>1
    <3> QED BY <3>2, <3>3 DEF n
  <2>3. CASE /\ g \in job[c].gen /\ job[c].phase = "claiming"
             /\ job'[c].pos \in {job[c].pos, job[c].pos + 1}
    <3>1. /\ job[c].pos \in 1..Len(g.plan) /\ job[c].pos \in Nat /\ g.coord = c
          /\ i \in job[c].pos..Len(g.plan) /\ i \in 1..Len(g.plan)
      BY <1>0, <1>4, <2>1, <2>3 DEF JobOK, JobType
    <3>2. g \notin claims[n] /\ \A m \in late : ~ClaimOf(m, g, n)
      BY <2>3, <3>1 DEF ClaimedOnce, n
    \* Only the call waited for could be for n, and it is over.
    <3>3. ASSUME NEW d \in Coordinator, NEW m \in Calling(d), ClaimOf(m, g, n)
          PROVE  d = c /\ job'[c].pos = job[c].pos
      <4>1. d = c /\ n = g.plan[job[c].pos]
        BY <1>0, <1>2, <3>1, <3>3, CallingFacts DEF ClaimOf
      <4>2. i = job[c].pos
        BY <2>1, <3>1, <4>1, GenerationFacts DEF n
      <4> QED BY <1>4, <2>3, <3>1, <4>1, <4>2
    <3>4. g \notin claims'[n]
      <4>1. ASSUME NEW m \in Pending, ClaimOf(m, g, n), HandlesClaim(m) PROVE FALSE
        <5>1. PICK d \in Coordinator : m \in Calling(d)
          BY <3>2, <4>1 DEF Pending
        <5>2. d = c /\ job'[c].pos = job[c].pos /\ m.kind = "claiming"
          BY <3>3, <4>1, <5>1 DEF ClaimOf
        <5> QED BY <1>4, <4>1, <5>1, <5>2, ClaimLeft
      <4> QED BY <2>1, <3>2, <4>1, FenceMoves
    <3>5. ASSUME NEW m \in late', ClaimOf(m, g, n) PROVE FALSE
      <4>1. m.kind = "claiming" /\ m \notin late
        BY <3>2, <3>5 DEF ClaimOf
      <4>2. PICK d \in Coordinator :
              m \in Calling(d) /\ (job'[d].phase = "claiming" => job'[d].pos # job[d].pos)
        BY <4>1, ClaimLateSources
      <4> QED BY <1>4, <3>3, <3>5, <4>2
    <3> QED BY <3>4, <3>5 DEF n
  <2> QED BY <1>4, <2>2, <2>3, AskedMoves
<1> QED BY <1>1, <1>3, <1>4 DEF ClaimedOnce

\* A stage comes to be counted on when its load answers that it is ready.
LEMMA LoadedMoves ==
  ASSUME BaseInv, [SplitNext]_vars, NEW g \in made, NEW n \in Node,
         Loaded(g, n, job'[g.coord], active'[g.coord])
  PROVE  \/ Loaded(g, n, job[g.coord], active[g.coord])
         \/ /\ OfJob(g, job[g.coord], {"loading"})
            /\ stages' = stages
            /\ [gen |-> g, step |-> "probing"] \in loading[n]
<1> DEFINE c == g.coord
           Goal == \/ Loaded(g, n, job[c], active[c])
                   \/ /\ OfJob(g, job[c], {"loading"})
                      /\ stages' = stages
                      /\ [gen |-> g, step |-> "probing"] \in loading[n]
<1>0. /\ g \in Generation /\ c \in Coordinator /\ Len(g.plan) \in Nat
      /\ JobOK(c, job[c], active[c], made)
  BY GenerationFacts DEF BaseInv, SplitTypeOK
<1> SUFFICES Goal
  OBVIOUS
<1> HIDE DEF c
<1>1. \/ n \in Downstream(g) /\ (g \in active'[c] \/ OfJob(g, job'[c], {"opening", "publishing"}))
      \/ OfJob(g, job'[c], {"loading"}) /\ \E i \in (job'[c].pos + 1)..Len(g.plan) : g.plan[i] = n
  BY DEF Loaded, c
<1>a. CASE n \in Downstream(g) /\ (g \in active[c] \/ OfJob(g, job[c], {"opening", "publishing"}))
  BY <1>a DEF Loaded, c
<1>b. ASSUME OfJob(g, job[c], {"loading"}),
             NEW i \in (job[c].pos + 1)..Len(g.plan), g.plan[i] = n
      PROVE  Goal
  BY <1>b DEF Loaded, c
<1>c. /\ Rest("idle").phase = "idle"
      /\ \A h, num, then : Stopping(h, num, then).phase = "stopping"
  BY DEF Rest, Stopping
<1>2. CASE job'[c] = job[c] /\ active'[c] = active[c]
  BY <1>1, <1>2, <1>a, <1>b
<1>3. ASSUME active'[c] = active[c],
             NEW m \in Calling(c), NEW ok \in BOOLEAN,
             job'[c] = After(job[c], m.gen, ok), Effect(m, ok)
      PROVE  Goal
  <2>1. /\ job[c].phase \in CallPhase /\ job[c].gen = {m.gen} /\ m.kind = job[c].phase
        /\ m.to = m.gen.plan[job[c].pos] /\ job[c] \in JobType
        /\ job'[c].gen \in {{m.gen}, {}}
    <3>1. job[c].phase \in CallPhase /\ m.gen \in job[c].gen
      BY <1>0, <1>3, CallingFacts
    <3>2. job'[c].gen \in {{m.gen}, {}}
      BY <1>0, <1>3, <3>1, AfterKeepsJob
    <3> QED BY <1>0, <1>3, <3>1, <3>2, CallingFacts DEF JobOK
  <2>2. CASE n \in Downstream(g) /\ g \in active[c]
    BY <1>a, <2>2
  <2>3. CASE g \in job'[c].gen /\ job'[c].phase \in {"loading", "opening", "publishing"}
             /\ g \notin active[c]
    <3>1. g = m.gen
      BY <2>1, <2>3
    \* Claims done: no stage is loaded yet.
    <3>2. CASE job[c].phase = "claiming"
      <4>1. job'[c].phase = "loading" /\ job'[c].pos = Len(g.plan)
        BY <1>0, <1>3, <2>3, <3>1, <3>2, ClaimAnswered
      <4> QED BY <1>0, <1>1, <1>3, <2>3, <4>1 DEF OfJob
    <3>3. CASE job[c].phase = "loading"
      <4>1. job[c].pos \in 2..Len(g.plan) /\ OfJob(g, job[c], {"loading"})
        BY <1>0, <2>1, <3>1, <3>3 DEF JobOK, OfJob
      <4>2. /\ ok
            /\ \/ job[c].pos > 2 /\ job'[c].phase = "loading" /\ job'[c].pos = job[c].pos - 1
               \/ job[c].pos = 2 /\ job'[c].phase = "opening"
        BY <1>0, <1>3, <2>3, <3>3, LoadAnswered
      <4>3. PICK i \in job[c].pos..Len(g.plan) : g.plan[i] = n
        <5>1. CASE job[c].pos > 2 /\ job'[c].phase = "loading" /\ job'[c].pos = job[c].pos - 1
          <6>1. (job[c].pos - 1) + 1 = job[c].pos
            BY <1>0, <4>1
          <6>2. PICK i \in (job'[c].pos + 1)..Len(g.plan) : g.plan[i] = n
            BY <1>1, <1>3, <2>3, <5>1 DEF OfJob
          <6> QED BY <5>1, <6>1, <6>2
        <5>2. CASE job[c].pos = 2 /\ job'[c].phase = "opening"
          BY <1>0, <1>1, <1>3, <2>3, <5>2, DownstreamFacts DEF OfJob
        <5> QED BY <4>2, <5>1, <5>2
      <4>4. CASE i = job[c].pos
        <5>1. m.to = n
          BY <2>1, <3>1, <4>3, <4>4
        <5>2. stages' = stages /\ [gen |-> g, step |-> "probing"] \in loading[n]
          BY <1>3, <2>1, <3>1, <3>3, <4>2, <5>1 DEF Effect
        <5> QED BY <4>1, <5>2
      <4>5. CASE i # job[c].pos
        <5>1. i \in (job[c].pos + 1)..Len(g.plan)
          BY <1>0, <4>1, <4>3, <4>5
        <5> QED BY <1>b, <4>1, <4>3, <5>1
      <4> QED BY <4>4, <4>5
    <3>4. CASE job[c].phase = "stopping"
      BY <1>0, <1>3, <2>3, <3>4, StopAnswered
    <3> QED BY <2>1, <3>2, <3>3, <3>4 DEF CallPhase
  <2>4. g \in job'[c].gen => g \notin active[c]
    BY <1>0, <2>1 DEF JobOK
  <2> QED BY <1>1, <1>3, <2>2, <2>3, <2>4 DEF OfJob
<1>4. ASSUME active'[c] = active[c], job[c].gen = {},
             NEW h \in Generation \ made, NEW then \in {"resume", "leave"}, job'[c] = Claiming(h, then)
      PROVE  Goal
  <2>1. job'[c].gen = {h} /\ h # g
    BY <1>4, ClaimingFacts
  <2> QED BY <1>1, <1>4, <1>a, <2>1 DEF OfJob
<1>5. ASSUME active'[c] = active[c], job[c].phase = "opening",
             \/ job'[c].phase = "publishing" /\ job'[c].gen = job[c].gen
             \/ \E h \in job[c].gen : job'[c] = Stopping(h, h.num, job[c].then)
      PROVE  Goal
  <2>1. \/ job'[c].phase = "publishing" /\ job'[c].gen = job[c].gen
        \/ job'[c].phase = "stopping"
    BY <1>5, <1>c
  <2> QED BY <1>1, <1>5, <1>a, <2>1 DEF OfJob
<1>6. ASSUME job[c].phase = "publishing", NEW h \in job[c].gen, active'[c] = {h},
             \/ active[c] = {} /\ job'[c] = Rest("idle")
             \/ \E previous \in active[c] : job'[c] = Stopping(previous, h.num, "resume")
      PROVE  Goal
  <2>1. job'[c].phase \in {"idle", "stopping"}
    BY <1>6, <1>c
  <2> QED BY <1>1, <1>6, <1>a, <2>1 DEF OfJob
<1>7. ASSUME active'[c] = {},
             \/ job'[c] = Rest("idle")
             \/ \E h, num, then : job'[c] = Stopping(h, num, then)
      PROVE  Goal
  <2>1. job'[c].phase \in {"idle", "stopping"}
    BY <1>7, <1>c
  <2> QED BY <1>1, <1>7, <2>1 DEF OfJob
<1>8. JobStep(c)
  BY <1>0, JobSteps
<1> HIDE DEF Goal
<1> QED BY <1>2, <1>3, <1>4, <1>5, <1>6, <1>7, <1>8 DEF JobStep

\* A stage that is counted on goes only with the claim.
LEMMA StageLoss ==
  ASSUME BaseInv, StageInv, RouteInv, KeeperInv, [SplitNext]_vars, NEW g \in made, NEW n \in Node,
         Loaded(g, n, job[g.coord], active[g.coord]), Runs(stages[n], g)
  PROVE  Runs(stages'[n], g) \/ g \notin claims'[n]
<1> DEFINE Goal == Runs(stages'[n], g) \/ g \notin claims'[n]
<1>0. /\ claims \in [Node -> SUBSET Generation]
      /\ stages \in [Node -> SUBSET RunningStage]
      /\ loading \in [Node -> SUBSET [gen : Generation, step : Step]]
      /\ g \in Generation /\ g.coord \in Coordinator /\ g.term \in Nat
      /\ \A c \in Coordinator : JobOK(c, job[c], active[c], made)
  BY GenerationFacts, GenerationAssumption DEF BaseInv, SplitTypeOK, StageTypeOK
<1>1. PICK s \in stages[n] : s.gen = g
  BY DEF Runs
<1> SUFFICES Goal
  OBVIOUS
<1>a. ASSUME s \in stages'[n] PROVE Goal
  BY <1>1, <1>a DEF Runs
<1>2. ASSUME NEW m \in Pending, HandlesClaim(m) PROVE Goal
  <2>1. m.to \in Node /\ m.gen \in Generation /\ m.gen.term \in Nat
    BY PendingFacts, GenerationAssumption
  <2>2. CASE UNCHANGED stages
    BY <1>1, <1>a, <2>2
  <2>3. CASE /\ claims' = [claims EXCEPT ![m.to] = InstallClaim(@, m.gen)]
             /\ \E gone \in SUBSET StaleStages(m.to, m.gen) :
                    stages' = [stages EXCEPT ![m.to] = @ \ gone]
    <3>1. CASE m.to = n /\ s \in StaleStages(n, m.gen)
      <4>1. g.key = m.gen.key /\ g # m.gen
        BY <1>0, <1>1, <2>1, <3>1 DEF StaleStages
      <4>2. claims'[n] = InstallClaim(claims[n], m.gen)
        BY <1>0, <2>3, <3>1
      <4> QED BY <4>1, <4>2 DEF InstallClaim, HeldFor
    <3>2. CASE m.to # n \/ s \notin StaleStages(n, m.gen)
      BY <1>0, <1>1, <1>a, <2>1, <2>3, <3>2
    <3> QED BY <3>1, <3>2
  <2>4. CASE ClaimAccepted(m.to, m.gen)
    <3>1. CASE Supersedes(claims[m.to], m.gen)
      BY <1>0, <2>3, <2>4, <3>1 DEF ClaimAccepted
    <3>2. CASE ~Supersedes(claims[m.to], m.gen)
      BY <1>0, <1>1, <1>a, <2>1, <2>4, <3>2 DEF ClaimAccepted
    <3> QED BY <3>1, <3>2
  <2>5. CASE ClaimFenceFailed(m.to, m.gen)
    <3>1. PICK dead \in StaleStages(m.to, m.gen) :
            \E before \in SUBSET (StaleStages(m.to, m.gen) \ {dead}) :
                stages' = [stages EXCEPT ![m.to] = @ \ (before \cup {dead})]
      BY <2>5 DEF ClaimFenceFailed
    <3>2. \A before \in SUBSET (StaleStages(m.to, m.gen) \ {dead}) :
            before \cup {dead} \in SUBSET StaleStages(m.to, m.gen)
      BY <3>1
    <3> QED BY <2>3, <2>5, <3>1, <3>2 DEF ClaimFenceFailed
  <2>6. CASE ClaimRejected(m.to, m.gen)
    BY <2>2, <2>6 DEF ClaimRejected, stageVars
  <2> HIDE DEF Goal
  <2> QED BY <1>2, <2>4, <2>5, <2>6 DEF HandlesClaim
<1>3. ASSUME NEW m \in Pending, HandlesLoad(m) PROVE Goal
  <2>1. stages' = stages
    BY <1>3 DEF HandlesLoad, LoadAuthorized, LoadRejected, stageVars
  <2> QED BY <1>1, <1>a, <2>1
\* No load and no stop in progress is about g.
<1>4. ASSUME NEW l \in loading[n] PROVE l.gen # g
  <2>1. l.gen \in forsaken \/ CurrentLoad(l.gen, n, job[l.gen.coord])
    BY DEF KeeperInv
  <2> QED BY <2>1, LoadedFacts DEF RouteInv, LeftAlone
<1>5. ASSUME NEW o \in Node, NEW l \in loading[o], ProceedsLoad(o, l.gen) PROVE Goal
  <2>1. CASE o # n
    <3>1. stages'[n] = stages[n]
      BY <1>0, <1>5, <2>1 DEF ProceedsLoad, LoadClearsKey, LoadStarted, LoadReady,
           LoadSourceFailed, LoadClearFailed, LoadPackageFailed, LoadProbeFailed
    <3> QED BY <1>1, <1>a, <3>1
  <2>2. CASE o = n
    <3>1. l.gen # g /\ l.gen \in Generation
      BY <1>0, <1>4, <2>2
    <3>2. s \notin StageOfRun(n, l.gen)
      BY <1>0, <1>1, <3>1, RunAssumption DEF StageOfRun
    <3>3. \/ stages[n] \subseteq stages'[n]
          \/ stages'[n] = stages[n] \ StageOfRun(n, l.gen)
      BY <1>0, <1>5, <2>2 DEF ProceedsLoad, LoadClearsKey, LoadStarted, LoadReady,
           LoadSourceFailed, LoadClearFailed, LoadPackageFailed, LoadProbeFailed
    <3> QED BY <1>1, <1>a, <3>2, <3>3
  <2> QED BY <2>1, <2>2
<1>6. ASSUME NEW m \in Pending, HandlesStop(m) PROVE Goal
  <2>1. m.kind = "stopping" /\ m.to \in Node /\ m.gen \in Generation
    BY <1>6, PendingFacts DEF HandlesStop
  <2>2. m.gen # g
    <3>1. CASE m \in late
      BY <2>1, <3>1, LoadedFacts DEF RouteInv, LeftAlone
    <3>2. ASSUME NEW c \in Coordinator, m \in Calling(c), m.gen = g PROVE FALSE
      <4>1. g.coord = c /\ OfJob(g, job[c], {"stopping"})
        BY <1>0, <2>1, <3>2, CallingFacts DEF OfJob
      <4>2. ~OfJob(g, job[g.coord], {"claiming", "stopping"})
        BY LoadedFacts
      <4> QED BY <4>1, <4>2 DEF OfJob
    <3> QED BY <3>1, <3>2 DEF Pending
  <2>3. s \notin StageOfRun(n, m.gen)
    BY <1>0, <1>1, <2>1, <2>2, RunAssumption DEF StageOfRun
  <2>4. \/ stages' = stages
        \/ stages' = [stages EXCEPT ![m.to] = @ \ StageOfRun(m.to, m.gen)]
    BY <1>6 DEF HandlesStop, HandleStop, StopApplied, StopIgnored, stageVars
  <2>5. s \in stages'[n]
    BY <1>0, <1>1, <2>1, <2>3, <2>4
  <2> QED BY <1>a, <2>5
<1>7. ASSUME NEW c \in Coordinator,
             \/ \E h \in Generation : StartsUp(c, h) \/ Replans(c, h) \/ Replaces(c, h)
             \/ Coordinates(c)
             \/ ModelStops(c)
      PROVE  Goal
  <2>1. stages' = stages
    BY <1>7 DEF StartsUp, Replans, Replaces, Begins, Coordinates, CallTimesOut, OpensStage0,
                OpenFails, Publishes, LeavesActive, ModelStops, stageVars
  <2> QED BY <1>1, <1>a, <2>1
<1>8. ASSUME NEW o \in Node, NEW t \in stages[o], StageServerDies(o, t) PROVE Goal
  <2> DEFINE dead == [t EXCEPT !.up = FALSE]
  <2>1. t \in RunningStage
    BY <1>0, <1>8
  <2>2. dead.gen = t.gen
    BY <2>1 DEF RunningStage
  <2>3. stages' = [stages EXCEPT ![o] = (@ \ {t}) \cup {dead}]
    BY <1>8 DEF StageServerDies, StageDies
  <2> HIDE DEF dead
  <2>4. s \in stages'[n] \/ (s = t /\ dead \in stages'[n])
    BY <1>0, <1>1, <2>3
  <2> QED BY <1>1, <1>a, <2>2, <2>4 DEF Runs
<1>9. ASSUME NEW o \in Node, Restarts(o) \/ Ticks(o) PROVE Goal
  <2>1. CASE Ticks(o)
    BY <1>1, <1>a, <2>1 DEF Ticks, ClockTicks
  <2>2. CASE Restarts(o)
    <3>1. CASE o = n
      <4>1. claims'[n] = {}
        BY <1>0, <2>2, <3>1 DEF Restarts, NodeRestarts
      <4> QED BY <4>1
    <3>2. CASE o # n
      <4>1. stages'[n] = stages[n]
        BY <1>0, <2>2, <3>2 DEF Restarts, NodeRestarts
      <4> QED BY <1>1, <1>a, <4>1
    <3> QED BY <3>1, <3>2
  <2> QED BY <1>9, <2>1, <2>2
<1>10. UNCHANGED vars => Goal
  BY <1>1, <1>a DEF vars, stageVars
<1> HIDE DEF Goal
<1> QED BY <1>2, <1>3, <1>5, <1>6, <1>7, <1>8, <1>9, <1>10 DEF SplitNext

\* A load that waits for its stage to answer has started it.
LEMMA ProbingRuns ==
  ASSUME BaseInv, StageInv, [SplitNext]_vars,
         \A o \in Node : \A k \in loading[o] : k.step = "probing" => Runs(stages[o], k.gen),
         NEW n \in Node, NEW l \in loading'[n], l.step = "probing"
  PROVE  Runs(stages'[n], l.gen)
<1> DEFINE Goal == Runs(stages'[n], l.gen)
<1>0. /\ stages \in [Node -> SUBSET RunningStage]
      /\ loading \in [Node -> SUBSET [gen : Generation, step : Step]]
  BY DEF BaseInv, SplitTypeOK, StageTypeOK
<1> SUFFICES Goal
  OBVIOUS
<1>a. ASSUME l \in loading[n], \A s \in stages[n] : Runs(stages'[n], s.gen)
      PROVE  Goal
  BY <1>a DEF Runs
<1>b. ASSUME stages'[n] = stages[n], l \in loading[n] PROVE Goal
  BY <1>b
<1>1. ASSUME NEW m \in Pending, HandlesClaim(m) \/ HandlesLoad(m) \/ HandlesStop(m)
      PROVE  Goal
  <2>1. m.to \in Node
    BY PendingFacts
  <2>2. CASE HandlesClaim(m)
    <3>1. loading' = loading /\ loading[m.to] = {} /\ (m.to # n => stages'[n] = stages[n])
      BY <1>0, <2>1, <2>2 DEF HandlesClaim, ClaimAccepted, ClaimFenceFailed, ClaimRejected,
                              Idle, stageVars
    <3> QED BY <1>b, <3>1
  <2>3. CASE HandlesLoad(m)
    <3>1. CASE LoadAuthorized(m.to, m.gen)
      <4>1. l \in loading[n] \/ l = [gen |-> m.gen, step |-> "resolving"]
        BY <1>0, <2>1, <3>1 DEF LoadAuthorized
      <4>2. [gen |-> m.gen, step |-> "resolving"].step = "resolving" /\ stages' = stages
        BY <3>1 DEF LoadAuthorized
      <4> QED BY <1>b, <4>1, <4>2
    <3>2. CASE LoadRejected(m.to, m.gen)
      BY <1>b, <3>2 DEF LoadRejected, stageVars
    <3> HIDE DEF Goal
    <3> QED BY <2>3, <3>1, <3>2 DEF HandlesLoad
  <2>4. CASE HandlesStop(m)
    <3>1. loading' = loading /\ loading[m.to] = {} /\ (m.to # n => stages'[n] = stages[n])
      BY <1>0, <2>1, <2>4 DEF HandlesStop, HandleStop, StopApplied, StopIgnored, Idle, stageVars
    <3> QED BY <1>b, <3>1
  <2> HIDE DEF Goal
  <2> QED BY <1>1, <2>2, <2>3, <2>4
<1>2. ASSUME NEW o \in Node, NEW k \in loading[o], ProceedsLoad(o, k.gen)
      PROVE  Goal
  <2>1. CASE o # n
    <3>1. stages'[n] = stages[n] /\ loading'[n] = loading[n]
      BY <1>0, <1>2, <2>1 DEF ProceedsLoad, LoadClearsKey, LoadStarted, LoadReady,
           LoadSourceFailed, LoadClearFailed, LoadPackageFailed, LoadProbeFailed
    <3> QED BY <1>b, <3>1
  <2>2. CASE LoadStarted(n, k.gen)
    <3>1. [gen |-> k.gen, up |-> TRUE] \in stages'[n]
      BY <1>0, <2>2 DEF LoadStarted
    <3>2. l = [gen |-> k.gen, step |-> "probing"]
      BY <1>0, <2>2 DEF LoadStarted
    <3>3. l.gen = k.gen /\ [gen |-> k.gen, up |-> TRUE].gen = k.gen
      BY <3>2
    <3> QED BY <3>1, <3>3 DEF Runs
  <2>3. CASE LoadClearsKey(n, k.gen)
    <3>1. l = [gen |-> k.gen, step |-> "starting"]
      BY <1>0, <2>3 DEF LoadClearsKey
    <3> QED BY <3>1
  <2>4. CASE \/ LoadReady(n, k.gen) \/ LoadSourceFailed(n, k.gen) \/ LoadClearFailed(n, k.gen)
             \/ LoadPackageFailed(n, k.gen) \/ LoadProbeFailed(n, k.gen)
    <3>1. loading'[n] = {}
      BY <1>0, <2>4 DEF LoadReady, LoadSourceFailed, LoadClearFailed, LoadPackageFailed,
                        LoadProbeFailed
    <3> QED BY <3>1
  <2> HIDE DEF Goal
  <2> QED BY <1>2, <2>1, <2>2, <2>3, <2>4 DEF ProceedsLoad
<1>3. ASSUME NEW c \in Coordinator,
             \/ \E h \in Generation : StartsUp(c, h) \/ Replans(c, h) \/ Replaces(c, h)
             \/ Coordinates(c)
             \/ ModelStops(c)
      PROVE  Goal
  <2>1. UNCHANGED <<stages, loading>>
    BY <1>3 DEF StartsUp, Replans, Replaces, Begins, Coordinates, CallTimesOut, OpensStage0,
                OpenFails, Publishes, LeavesActive, ModelStops, stageVars
  <2> QED BY <1>b, <2>1
<1>4. ASSUME NEW o \in Node, NEW t \in stages[o], StageServerDies(o, t) PROVE Goal
  <2> DEFINE dead == [t EXCEPT !.up = FALSE]
  <2>1. t \in RunningStage
    BY <1>0, <1>4
  <2>2. dead.gen = t.gen
    BY <2>1 DEF RunningStage
  <2>3. stages' = [stages EXCEPT ![o] = (@ \ {t}) \cup {dead}] /\ loading' = loading
    BY <1>4 DEF StageServerDies, StageDies
  <2> HIDE DEF dead
  <2>4. \A s \in stages[n] : s \in stages'[n] \/ (s = t /\ dead \in stages'[n])
    BY <1>0, <2>3
  <2>5. \A s \in stages[n] : Runs(stages'[n], s.gen)
    BY <2>2, <2>4 DEF Runs
  <2> QED BY <1>a, <2>3, <2>5
<1>5. ASSUME NEW o \in Node, Restarts(o) \/ Ticks(o) PROVE Goal
  <2>1. \/ loading'[n] = {}
        \/ stages'[n] = stages[n] /\ loading'[n] = loading[n]
    BY <1>0, <1>5 DEF Restarts, NodeRestarts, Ticks, ClockTicks
  <2> QED BY <1>b, <2>1
<1>6. UNCHANGED vars => Goal
  BY <1>b DEF vars, stageVars
<1> HIDE DEF Goal
<1> QED BY <1>1, <1>2, <1>3, <1>4, <1>5, <1>6 DEF SplitNext

\* A node that works on g, or runs it, holds the very claim of g: a run has one.
LEMMA HeldClaim ==
  ASSUME BaseInv, NEW n \in Node, NEW g \in Generation, HoldsEpoch(claims[n], g)
  PROVE  g \in claims[n]
<1>1. claims[n] \subseteq Generation
  BY DEF BaseInv, SplitTypeOK, StageTypeOK
<1> QED BY <1>1, RunAssumption DEF HoldsEpoch, HeldFor, SameClaimEpoch

\* An attempt that is begun is not loaded in the same step.
LEMMA FreshNotLoaded ==
  ASSUME BaseInv, [SplitNext]_vars, NEW g, g \notin made, g.coord \in Coordinator, NEW n
  PROVE  ~Loaded(g, n, job'[g.coord], active'[g.coord])
<1> DEFINE c == g.coord
<1>0. JobOK(c, job[c], active[c], made) /\ PublishedOK(c, active[c], made)
  BY DEF BaseInv
<1>1. g \notin job[c].gen /\ g \notin active[c]
  BY <1>0 DEF JobOK, PublishedOK
<1> HIDE DEF c
<1> SUFFICES g \notin active'[c] /\ (g \in job'[c].gen => job'[c].phase = "claiming")
  BY DEF Loaded, OfJob, c
<1>2. ASSUME NEW m \in Calling(c), NEW ok \in BOOLEAN, job'[c] = After(job[c], m.gen, ok)
      PROVE  g \notin job'[c].gen
  <2>1. m.gen \in job[c].gen /\ job[c].phase \in CallPhase
    BY <1>0, <1>2, CallingFacts DEF c
  <2>2. job'[c].gen \in {{m.gen}, {}}
    BY <1>0, <1>2, <2>1, AfterKeepsJob
  <2> QED BY <1>1, <2>1, <2>2
<1>3. ASSUME NEW h \in active[c] \cup job[c].gen, NEW num, NEW then, job'[c] = Stopping(h, num, then)
      PROVE  g \notin job'[c].gen
  <2>1. Stopping(h, num, then).gen = {h}
    BY DEF Stopping
  <2> QED BY <1>1, <1>3, <2>1
<1>4. ASSUME NEW h \in Generation, NEW then \in {"resume", "leave"}, job'[c] = Claiming(h, then)
      PROVE  job'[c].phase = "claiming"
  BY <1>4, ClaimingFacts
<1>5. Rest("idle").gen = {}
  BY DEF Rest
<1>6. JobStep(c)
  BY JobSteps DEF c
<1> QED BY <1>1, <1>2, <1>3, <1>4, <1>5, <1>6 DEF JobStep

\* Nothing is published at the start.
LEMMA RouteInit == SplitInit => RouteInv
<1> SUFFICES ASSUME SplitInit PROVE RouteInv
  OBVIOUS
<1>1. \A c \in Coordinator : job[c].gen = {} /\ job[c].phase = "idle" /\ active[c] = {}
  BY DEF SplitInit, Rest
<1>2. /\ late = {} /\ forsaken = {} /\ made = {}
      /\ \A n \in Node : claims[n] = {} /\ loading[n] = {}
  BY DEF SplitInit, StageInit
<1> QED BY <1>1, <1>2 DEF RouteInv, ClaimedOnce, LeftAlone

\* What a coordinator counts on is there as long as the node holds its claim.
LEMMA RouteStep ==
  BaseInv /\ StageInv /\ KeeperInv /\ KeeperInv' /\ RouteInv /\ [SplitNext]_vars => RouteInv'
<1> SUFFICES ASSUME BaseInv, StageInv, KeeperInv, KeeperInv', RouteInv, [SplitNext]_vars
             PROVE  RouteInv'
  OBVIOUS
<1>0. /\ \A c \in Coordinator : JobOK(c, job[c], active[c], made)
      /\ made \subseteq made' /\ made \subseteq Generation
      /\ \A m \in late : m.gen \in made
  BY ForsakenGrows DEF BaseInv, SplitTypeOK, LateOK
<1>1. ClaimedOnce'
  BY ClaimedOnceMoves DEF RouteInv
<1>2. LeftAlone'
  <2>1. forsaken' \subseteq made' /\ \A g \in forsaken' : ~Live(g, job'[g.coord], active'[g.coord])
    BY <1>0, ForsakenNotLive DEF RouteInv
  <2>2. ASSUME NEW m \in late', m.kind = "stopping"
        PROVE  ~Live(m.gen, job'[m.gen.coord], active'[m.gen.coord])
    <3>1. m.gen \in made /\ ~Live(m.gen, job[m.gen.coord], active[m.gen.coord])
      <4>1. CASE m \in late
        BY <1>0, <2>2, <4>1 DEF RouteInv, LeftAlone
      <4>2. ASSUME NEW c \in Coordinator, m \in Calling(c)
            PROVE  m.gen \in made /\ ~Live(m.gen, job[m.gen.coord], active[m.gen.coord])
        <5>1. m.gen \in job[c].gen /\ m.gen.coord = c /\ job[c].phase = "stopping"
          BY <1>0, <2>2, <4>2, CallingFacts
        <5>2. m.gen \in made /\ m.gen \notin active[c]
          BY <1>0, <5>1 DEF JobOK
        <5> QED BY <5>1, <5>2 DEF Live, OfJob, Underway
      <4> QED BY <4>1, <4>2, LateSources
    <3> QED BY <3>1, LiveMoves
  <2> QED BY <2>1, <2>2 DEF LeftAlone
<1>3. \A n \in Node : \A l \in loading'[n] : l.step = "probing" => Runs(stages'[n], l.gen)
  BY ProbingRuns DEF RouteInv
<1>4. ASSUME NEW g \in made', NEW n \in Node, Loaded(g, n, job'[g.coord], active'[g.coord])
      PROVE  /\ g \notin claims'[n] \/ Runs(stages'[n], g)
             /\ \A m \in late' : ~ClaimOf(m, g, n)
  \* What was just begun is not loaded.
  <2>1. g \in made
    <3>1. g \in Generation /\ g.coord \in Coordinator
      <4>1. made' \subseteq Generation
        BY BaseStep DEF BaseInv, SplitTypeOK
      <4> QED BY <4>1, GenerationFacts
    <3> QED BY <1>4, <3>1, FreshNotLoaded
  <2>2. g \in Generation
    BY <1>0, <2>1
  <2>3. CASE Loaded(g, n, job[g.coord], active[g.coord])
    <3>1. /\ g \notin claims[n] \/ Runs(stages[n], g)
          /\ \A m \in late : ~ClaimOf(m, g, n)
      BY <2>1, <2>3 DEF RouteInv
    <3>2. ASSUME NEW c \in Coordinator, NEW m \in Calling(c), ClaimOf(m, g, n) PROVE FALSE
      <4>1. g.coord = c /\ OfJob(g, job[c], {"claiming"})
        BY <1>0, <3>2, CallingFacts DEF ClaimOf, OfJob
      <4>2. ~OfJob(g, job[g.coord], {"claiming", "stopping"})
        BY <2>1, <2>3, LoadedFacts
      <4> QED BY <4>1, <4>2 DEF OfJob
    <3>3. \A m \in Pending : ~ClaimOf(m, g, n)
      BY <3>1, <3>2 DEF Pending
    <3>4. g \in claims'[n] => g \in claims[n]
      BY <3>3, FenceMoves
    <3>5. g \notin claims'[n] \/ Runs(stages'[n], g)
      BY <2>1, <2>3, <3>1, <3>4, StageLoss
    <3>6. \A m \in late' : m \in Pending
      BY LateSources DEF Pending
    <3> QED BY <3>3, <3>5, <3>6
  <2>4. CASE /\ OfJob(g, job[g.coord], {"loading"})
             /\ stages' = stages
             /\ [gen |-> g, step |-> "probing"] \in loading[n]
    <3>1. Runs(stages[n], g)
      BY <2>4 DEF RouteInv
    <3>2. g \in claims[n]
      <4>1. HoldsEpoch(claims[n], g)
        BY <2>4 DEF StageInv, NodeOK
      <4> QED BY <2>2, <4>1, HeldClaim
    <3>3. ASSUME NEW m \in late', ClaimOf(m, g, n) PROVE FALSE
      <4>1. CASE m \in late
        BY <3>2, <3>3, <4>1 DEF RouteInv, ClaimedOnce, ClaimOf
      <4>2. ASSUME NEW c \in Coordinator, m \in Calling(c) PROVE FALSE
        BY <1>0, <2>4, <3>3, <4>2, CallingFacts DEF ClaimOf, OfJob
      <4> QED BY <4>1, <4>2, LateSources
    <3> QED BY <2>4, <3>1, <3>3
  <2> QED BY <1>4, <2>1, <2>3, <2>4, LoadedMoves
<1> QED BY <1>1, <1>2, <1>3, <1>4 DEF RouteInv

\* RouteInv holds in every state.
LEMMA RouteSafety == SplitSpec => []RouteInv
  BY BaseSafety, SplitsUseControlLoop, InvSafety, KeeperSafety, RouteInit, RouteStep, PTL
     DEF SplitSpec

\* No request is sent to a split whose stages its coordinator took away: behind
\* a routed stage 0 every planned node runs its stage, or stopped holding the
\* claim.
THEOREM RoutesHaveStages == SplitSpec => []RouteBackedByStages
<1>1. BaseInv /\ RouteInv => RouteBackedByStages
  <2> SUFFICES ASSUME BaseInv, RouteInv, NEW c \in Coordinator, NEW g \in route[c],
                      NEW n \in Downstream(g)
               PROVE  (\E s \in stages[n] : s.gen = g) \/ ~HoldsEpoch(claims[n], g)
    BY DEF RouteBackedByStages
  <2>1. g \in active[c] /\ g \in made /\ g.coord = c /\ g \in Generation
    BY DEF BaseInv, PublishedOK, SplitTypeOK
  <2>2. n \in Node
    BY <2>1, DownstreamFacts, GenerationFacts
  <2>3. Loaded(g, n, job[g.coord], active[g.coord])
    BY <2>1 DEF Loaded
  <2>4. g \notin claims[n] \/ Runs(stages[n], g)
    BY <2>1, <2>2, <2>3 DEF RouteInv
  <2> QED BY <2>1, <2>2, <2>4, HeldClaim DEF Runs
<1> QED BY <1>1, BaseSafety, RouteSafety, PTL
===============================================================================
