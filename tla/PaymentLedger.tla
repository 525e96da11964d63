----------------------------- MODULE PaymentLedger -----------------------------
(***************************************************************************)
(* The buyer's side of crates/mesh-llm-payments/src/ledger.rs: the tables  *)
(* "requests" and "charges", and the transactions on them.  Each action is *)
(* one transaction; SQLite serializes them, and they survive a crash.      *)
(*                                                                         *)
(* A request is an authorization to spend up to a cap; a charge pays one   *)
(* invoice out of it, segment 0 for the input and segment 1 for the        *)
(* output.  A send request ("wallet-send") pays the operator's invoice.    *)
(* An invoice stands for its payment hash.  The policy is Automatic with   *)
(* one daily budget.                                                       *)
(***************************************************************************)
EXTENDS Integers, FiniteSets, Functions

CONSTANTS
    Invoice, Request,
    NoRequest,
    Terms,      \* Terms[r]: the request's spending cap, its input invoice, whether it is a send
    Amount,     \* Amount[i]: what invoice i asks for
    Charge,     \* the charges callers ask for
    Budget,     \* the policy's daily_budget_msat
    LastDay     \* bound: the days of a run

ASSUME LedgerAssumption ==
    /\ IsFiniteSet(Invoice) /\ IsFiniteSet(Request)
    /\ NoRequest \notin Request
    /\ Terms \in [Request -> [cap : Nat \ {0}, invoice : Invoice, send : BOOLEAN]]
    /\ Amount \in [Invoice -> Nat \ {0}]
    /\ Charge \subseteq [invoice : Invoice, request : Request, segment : {0, 1}, limit : Nat]
    /\ \A c \in Charge : c.limit >= Amount[c.invoice]
    /\ Budget \in Nat
    /\ LastDay \in Nat

VARIABLES
    requests,   \* requests[r]: state and spent
    charges,    \* charges[i]: the row of hash i
    expired,    \* the invoices past their expiry
    today       \* now_ms / DAY_MS

ledgerTables == <<requests, charges>>
time == <<expired, today>>

RequestState == {"none", "pending", "approved", "rejected", "failed", "completed"}
ChargeState == {"none", "prepared", "pending", "succeeded", "failed"}
Unsettled == {"prepared", "pending"}

NoCharge == [state |-> "none", request |-> NoRequest, segment |-> 0, limit |-> 0,
             total |-> 0, day |-> 0]

RequestRow == [state : RequestState, spent : Nat]
ChargeRow == [state : ChargeState, request : Request \cup {NoRequest},
              segment : {0, 1}, limit : Nat, total : Nat, day : Nat]

LedgerTypeOK ==
    /\ requests \in [Request -> RequestRow]
    /\ charges \in [Invoice -> ChargeRow]
    /\ expired \subseteq Invoice
    /\ today \in Nat

LedgerInit ==
    /\ requests = [r \in Request |-> [state |-> "none", spent |-> 0]]
    /\ charges = [i \in Invoice |-> NoCharge]
    /\ expired = {}
    /\ today = 0

-------------------------------------------------------------------------------
(* Queries *)

ChargesOf(rows, r, states) == {i \in Invoice : rows[i].request = r /\ rows[i].state \in states}

HasCharge(rows, r, states) == ChargesOf(rows, r, states) # {}

Approved(r) == requests[r].state = "approved"

\* SUM(MAX(cap-spent,0)) over the approved requests.
Reserved ==
    SumFunctionOnSet([r \in Request |-> Terms[r].cap - requests[r].spent],
                     {r \in Request : Approved(r) /\ Terms[r].cap > requests[r].spent})

SpentOn(day) ==
    SumFunctionOnSet([i \in Invoice |-> charges[i].total],
                     {i \in Invoice : charges[i].state = "succeeded" /\ charges[i].day = day})

\* Mutant: what is not settled yet is not counted.
RoomUnreserved(r) == Terms[r].cap - requests[r].spent

\* The room a request has left for a new charge.
Room(r) ==
    Terms[r].cap - requests[r].spent
        - SumFunctionOnSet([i \in Invoice |-> charges[i].limit], ChargesOf(charges, r, Unsettled))

-------------------------------------------------------------------------------
(* finalize_terminal_requests *)

\* A failed charge fails the prepared charges of its request.
Swept(rows) ==
    [i \in Invoice |->
        IF rows[i].state = "prepared" /\ HasCharge(rows, rows[i].request, {"failed"})
        THEN [rows[i] EXCEPT !.state = "failed"]
        ELSE rows[i]]

\* Mutant: an uncertain sibling does not hold the request open.
ConcludesEarly(rows, r) == HasCharge(rows, r, {"failed"})

\* A request with a failed charge, or a send with a paid one, is over once none
\* of its charges is uncertain.
Concludes(rows, r) ==
    /\ ~HasCharge(rows, r, Unsettled)
    /\ \/ HasCharge(rows, r, {"failed"})
       \/ Terms[r].send /\ HasCharge(rows, r, {"succeeded"})

Concluded(rows, reqs) ==
    [r \in Request |->
        IF reqs[r].state = "approved" /\ Concludes(rows, r)
        THEN [reqs[r] EXCEPT !.state =
                 IF HasCharge(rows, r, {"failed"}) THEN "failed" ELSE "completed"]
        ELSE reqs[r]]

\* The end of a transaction that finalizes.
Finalize(rows, reqs) ==
    /\ charges' = Swept(rows)
    /\ requests' = Concluded(Swept(rows), reqs)

-------------------------------------------------------------------------------
(* Transactions *)

SetRequest(r, state) ==
    /\ requests' = [requests EXCEPT ![r].state = state]
    /\ UNCHANGED charges

Propose(r) ==
    /\ requests[r].state = "none"
    /\ SetRequest(r, "pending")

\* Mutant: what other requests have reserved is available again.
FitsAlone(r, balance) ==
    /\ Terms[r].cap <= balance
    /\ Terms[r].cap <= Budget - SpentOn(today)

Fits(r, balance) ==
    /\ Terms[r].cap <= balance - Reserved
    /\ Terms[r].cap <= Budget - SpentOn(today) - Reserved

\* approve, with the balance the caller read before.
Approve(r, balance) ==
    /\ requests[r].state = "pending"
    /\ Terms[r].invoice \notin expired
    /\ Fits(r, balance)
    /\ SetRequest(r, "approved")

CancelUnstarted(r) ==
    /\ requests[r].state \in {"pending", "approved"}
    /\ ~HasCharge(charges, r, ChargeState)
    /\ SetRequest(r, "rejected")

Reject(r) ==
    /\ requests[r].state = "pending"
    /\ SetRequest(r, "rejected")

Idle(r) == ~HasCharge(charges, r, Unsettled)

FailAuthorizationIfIdle(r) ==
    /\ Approved(r)
    /\ Idle(r)
    /\ SetRequest(r, "failed")

Finish(r) ==
    /\ Approved(r)
    /\ Idle(r)
    /\ SetRequest(r, "completed")

\* prepare_charge of a new charge.  For a segment that has one, the call either
\* finds the same charge or fails, and changes nothing; an invoice that pays
\* another request cannot be inserted again.
PrepareCharge(c) ==
    /\ \A i \in ChargesOf(charges, c.request, ChargeState) : charges[i].segment # c.segment
    /\ charges[c.invoice].state = "none"
    /\ c.invoice \notin expired
    /\ Approved(c.request)
    /\ ~HasCharge(charges, c.request, {"failed"})
    /\ c.limit <= Room(c.request)
    /\ charges' = [charges EXCEPT ![c.invoice] =
            [state |-> "prepared", request |-> c.request, segment |-> c.segment,
             limit |-> c.limit, total |-> 0, day |-> 0]]
    /\ UNCHANGED requests

BeginSubmission(i) ==
    /\ charges[i].state = "prepared"
    /\ charges' = [charges EXCEPT ![i].state = "pending"]
    /\ UNCHANGED requests

\* Mutant: the charge gets a state of requests.
RejectUnsubmitted(i) ==
    Finalize(IF charges[i].state \in Unsettled THEN [charges EXCEPT ![i].state = "rejected"]
                                               ELSE charges,
             requests)

FailUnsubmitted(i) ==
    Finalize(IF charges[i].state \in Unsettled THEN [charges EXCEPT ![i].state = "failed"]
                                               ELSE charges,
             requests)

\* reconcile with a terminal payment; one already recorded changes nothing.
RecordPayment(i, paid, total, day) ==
    /\ charges[i].state \in Unsettled
    /\ LET debit == IF paid THEN total ELSE 0
       IN  Finalize([charges EXCEPT ![i].state = IF paid THEN "succeeded" ELSE "failed",
                                    ![i].total = debit,
                                    ![i].day = day],
                    [requests EXCEPT ![charges[i].request].spent = @ + debit])

-------------------------------------------------------------------------------
(* Transactions of a start *)

CloseAbandonedApprovals ==
    /\ requests' = [r \in Request |->
            IF Approved(r) /\ ~HasCharge(charges, r, ChargeState)
            THEN [requests[r] EXCEPT !.state = "failed"]
            ELSE requests[r]]
    /\ UNCHANGED charges

\* An input charge that was never submitted; a send's is kept.
UnsubmittedInputCharge(i) ==
    /\ charges[i].state = "prepared"
    /\ charges[i].segment = 0
    /\ ~Terms[charges[i].request].send

FailUnsubmittedInputCharges ==
    Finalize([i \in Invoice |->
                IF UnsubmittedInputCharge(i) THEN [charges[i] EXCEPT !.state = "failed"]
                                             ELSE charges[i]],
             requests)

FinalizeTerminalRequests == Finalize(charges, requests)
===============================================================================
