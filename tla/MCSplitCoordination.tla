-------------------------- MODULE MCSplitCoordination --------------------------
(* Three nodes; nodeA and nodeB coordinate splits of one model.              *)
EXTENDS SplitCoordination

CONSTANTS nodeA, nodeB, nodeC, key, r1, r2, r3, r4

Attempt(run, plan, term, lease, num) ==
    [run |-> run, key |-> key, coord |-> plan[1], plan |-> plan,
     term |-> term, lease |-> lease, num |-> num]

Plans == {<<nodeA, nodeC>>, <<nodeA, nodeB, nodeC>>, <<nodeA, nodeB>>, <<nodeB, nodeC>>}

\* A split of nodeA, its successor over more nodes, and a rival of nodeB with the
\* term in between.
Rivals ==
    { Attempt(r1, <<nodeA, nodeC>>, 1, 1, 1),
      Attempt(r2, <<nodeA, nodeB, nodeC>>, 3, 1, 2),
      Attempt(r3, <<nodeB, nodeC>>, 2, 1, 1) }

\* One coordinator: a split, a wider one, and one that avoids nodeC.
Recoveries ==
    { Attempt(r1, <<nodeA, nodeC>>, 1, 1, 1),
      Attempt(r2, <<nodeA, nodeB, nodeC>>, 2, 1, 2),
      Attempt(r3, <<nodeA, nodeB>>, 3, 1, 2) }

\* Attempts begun at different times: leases end while they are being made.
Leases ==
    { Attempt(r1, <<nodeA, nodeC>>, 1, 1, 1),
      Attempt(r2, <<nodeA, nodeC>>, 2, 1, 2),
      Attempt(r3, <<nodeA, nodeC>>, 3, 2, 2) }
===============================================================================
