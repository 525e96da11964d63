---------------------------- MODULE PaymentMandate ----------------------------
(***************************************************************************)
(* What the buyer's payment service promises: money moves for a request    *)
(* only while the request is mandated, an invoice is paid once and out of  *)
(* one mandate, and a mandate ends only when nothing moves under it.       *)
(***************************************************************************)
CONSTANTS Payer, Bill

VARIABLES
    mandate,    \* mandate[p]: none, open or closed
    moving,     \* the pairs of a request and an invoice money moves for
    settled     \* those paid and recorded

mandateVars == <<mandate, moving, settled>>

MandateInit ==
    /\ mandate = [p \in Payer |-> "none"]
    /\ moving = {}
    /\ settled = {}

Open(p) ==
    /\ mandate[p] = "none"
    /\ mandate' = [mandate EXCEPT ![p] = "open"]
    /\ UNCHANGED <<moving, settled>>

\* Mandates end, in a step of their own or with what moved last.
Closes ==
    \E ended \in SUBSET Payer :
        /\ mandate' = [p \in Payer |-> IF p \in ended THEN "closed" ELSE mandate[p]]
        /\ \A m \in moving' : m[1] \notin ended

Close == Closes /\ UNCHANGED <<moving, settled>>

Move(p, b) ==
    /\ mandate[p] = "open"
    /\ \A q \in Payer : <<q, b>> \notin moving \cup settled
    /\ moving' = moving \cup {<<p, b>>}
    /\ UNCHANGED <<mandate, settled>>

\* A payment fails, or its invoice expires before it began.
Stop(p, b) ==
    /\ <<p, b>> \in moving
    /\ moving' = moving \ {<<p, b>>}
    /\ Closes
    /\ UNCHANGED settled

Settle(p, b) ==
    /\ <<p, b>> \in moving
    /\ moving' = moving \ {<<p, b>>}
    /\ settled' = settled \cup {<<p, b>>}
    /\ Closes

MandateNext ==
    \/ Close
    \/ \E p \in Payer :
        \/ Open(p)
        \/ \E b \in Bill : Move(p, b) \/ Stop(p, b) \/ Settle(p, b)

MandateSpec == MandateInit /\ [][MandateNext]_mandateVars
===============================================================================
