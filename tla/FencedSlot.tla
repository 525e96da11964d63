------------------------------ MODULE FencedSlot ------------------------------
(***************************************************************************)
(* What a stage node promises the coordinators of split topologies, as     *)
(* crates/skippy-coordinator/README.md states it: a node has one slot per  *)
(* model; the slot is handed only to newer terms; and only the epoch that  *)
(* holds the slot works on the node.  A restart forgets everything.        *)
(***************************************************************************)
CONSTANTS Node, Epoch

LOCAL INSTANCE Integers

VARIABLES
    owner,      \* owner[n]: the epochs holding a slot of node n
    working     \* working[n]: the epochs with a stage running there

slotVars == <<owner, working>>

SlotInit ==
    /\ owner = [n \in Node |-> {}]
    /\ working = [n \in Node |-> {}]

SameKey(epochs, e) == {o \in epochs : o.key = e.key}

\* A newer term takes the slot; what worked under the older one stops.
Grant(n, e) ==
    /\ \A o \in SameKey(owner[n], e) : o.term < e.term
    /\ owner' = [owner EXCEPT ![n] = (@ \ SameKey(@, e)) \cup {e}]
    /\ working' = [working EXCEPT ![n] = @ \ SameKey(@, e)]

Work(n, e) ==
    /\ e \in owner[n]
    /\ working' = [working EXCEPT ![n] = @ \cup {e}]
    /\ UNCHANGED owner

Rest(n, e) ==
    /\ e \in working[n]
    /\ working' = [working EXCEPT ![n] = @ \ {e}]
    /\ UNCHANGED owner

Forget(n) ==
    /\ owner' = [owner EXCEPT ![n] = {}]
    /\ working' = [working EXCEPT ![n] = {}]

SlotNext ==
    \E n \in Node :
        \/ Forget(n)
        \/ \E e \in Epoch : Grant(n, e) \/ Work(n, e) \/ Rest(n, e)

SlotSpec == SlotInit /\ [][SlotNext]_slotVars
===============================================================================
