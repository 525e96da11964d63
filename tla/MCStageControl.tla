---------------------------- MODULE MCStageControl ----------------------------
(* Two coordinators and one stage node: older, newer and equal terms, a      *)
(* renewed lease, a claim that is expired from the start, and a second model. *)
EXTENDS StageControl

CONSTANTS n1, c1, c2, k1, k2, p1, p2, r1, r2, r3, r4

Attempt(run, key, coord, plan, term, lease, num) ==
    [run |-> run, key |-> key, coord |-> coord, plan |-> plan,
     term |-> term, lease |-> lease, num |-> num]

MCGeneration ==
    { Attempt(r1, k1, c1, p1, 1, 1, 1),
      Attempt(r1, k1, c1, p1, 1, 3, 1),
      Attempt(r2, k1, c2, p2, 2, 1, 1),
      Attempt(r3, k1, c1, p1, 2, 2, 2),
      Attempt(r4, k2, c2, p1, 1, 2, 1) }
===============================================================================
