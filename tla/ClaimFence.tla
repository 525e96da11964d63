------------------------------ MODULE ClaimFence ------------------------------
(***************************************************************************)
(* The pure coordination rules of crates/skippy-coordinator: when a stage  *)
(* node accepts a coordinator's claim, when it lets a load through, and    *)
(* how many planned stages have to accept before a coordinator may load.   *)
(*                                                                         *)
(* A generation is one attempt of a coordinator to run a split topology.   *)
(* The claim, the loads and the stops of an attempt all carry its fields:  *)
(*   run   topology_id and run_id (the code derives one from the other)    *)
(*   key   model_id, package_ref and manifest_sha256: what is fenced       *)
(*   coord coordinator_id                                                  *)
(*   plan  participant_set_hash and topology_hash                          *)
(*   term  coordinator_term                                                *)
(*   lease lease_until_unix_ms                                             *)
(*   num   the attempt's generation number (shutdown_generation)           *)
(* so a message is modelled by the generation it speaks for.  A fence is   *)
(* the set of claims it holds, the values of the code's HashMap.           *)
(***************************************************************************)
EXTENDS Integers

CONSTANTS
    Run, Key, Coordinator, Plan,
    Generation      \* the attempts coordinators may make

ASSUME GenerationAssumption ==
    Generation \subseteq [run : Run, key : Key, coord : Coordinator, plan : Plan,
                          term : Nat, lease : Nat, num : Nat]

\* validate_claim_shape.  The names and hashes a coordinator sends are never
\* empty; the term and the lease are what can be wrong.
WellFormedClaim(g, now) ==
    /\ g.term # 0
    /\ g.lease > now

SameClaimEpoch(g, h) ==
    /\ g.key = h.key
    /\ g.run = h.run
    /\ g.coord = h.coord
    /\ g.plan = h.plan

\* The claim a fence holds for a key, as a set of at most one element.
HeldFor(fence, key) == {held \in fence : held.key = key}

\* Mutant: a claim whose lease has run out is forgotten.
AcceptsOverExpired(fence, g, now) ==
    /\ WellFormedClaim(g, now)
    /\ \A held \in HeldFor(fence, g.key) :
        held.lease >= now =>
            /\ g.term >= held.term
            /\ g.term = held.term => SameClaimEpoch(g, held)

\* accept_claim: neither StaleTerm nor ConflictingSameTerm.  A claim whose
\* lease has run out still counts as held.
AcceptsClaim(fence, g, now) ==
    /\ WellFormedClaim(g, now)
    /\ \A held \in HeldFor(fence, g.key) :
        /\ g.term >= held.term
        /\ g.term = held.term => SameClaimEpoch(g, held)

\* The supersedes_term of an accepted claim is Some.
Supersedes(fence, g) ==
    \E held \in HeldFor(fence, g.key) : g.term > held.term

\* HashMap::insert: the same epoch again renews the lease.
InstallClaim(fence, g) == (fence \ HeldFor(fence, g.key)) \cup {g}

\* Mutant: only the term tells the coordinator apart.
ValidatesTerm(fence, g, now) ==
    /\ g.term # 0
    /\ \E held \in HeldFor(fence, g.key) : held.term = g.term /\ held.lease >= now

\* validate_load.  The lease may end exactly now, which a new claim's may not.
ValidatesLoad(fence, g, now) ==
    /\ g.term # 0
    /\ \E held \in HeldFor(fence, g.key) :
        /\ held.term = g.term
        /\ held.coord = g.coord
        /\ held.run = g.run
        /\ held.plan = g.plan
        /\ held.lease >= now

\* Mutant: half is enough.
HalfRequirement(stageCount) == stageCount \div 2

QuorumRequirement(stageCount) == stageCount \div 2 + 1
===============================================================================
