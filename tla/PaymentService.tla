---------------------------- MODULE PaymentService ----------------------------
(***************************************************************************)
(* crates/mesh-llm-payments/src/service.rs on the buyer's side: tasks that *)
(* authorize requests and settle charges, the recovery loop, crashes and   *)
(* starts, over the ledger and an external wallet.                         *)
(*                                                                         *)
(* A charge is submitted, or looked up, under payment_lock: visit is the   *)
(* call of start_or_observe_charge that holds it.  What the call returns,  *)
(* and what wait_for_payment returns, is recorded later without the lock:  *)
(* an answer is an invoice whose terminal payment some task knows.  A call *)
(* to pay is on the wire until the wallet takes it up or it is lost, also  *)
(* when the service stopped waiting for it.                                *)
(*                                                                         *)
(* The wallet is modelled from the contract in mesh-llm-wallet's           *)
(* provider.rs: it pays an invoice at most once, within the limit of the   *)
(* call, starts no payment of an expired invoice, and never changes the    *)
(* status of a payment that succeeded or failed.                           *)
(***************************************************************************)
EXTENDS PaymentLedger

CONSTANTS
    Funds,          \* what the wallet holds at first
    LookupsLinger,  \* an invoice may expire between a lookup and its evaluation
    MaxCrashes      \* bound

ASSUME ServiceAssumption ==
    /\ Funds \in Nat
    /\ LookupsLinger \in BOOLEAN
    /\ MaxCrashes \in Nat

VARIABLES
    phase,      \* of the service: up, or how far it got opening
    visit,      \* the visits holding payment_lock, one at most
    answers,    \* the invoices whose terminal payment a task is about to record
    quotes,     \* quotes[r]: the balance read for the authorization of r
    wire,       \* calls to pay that the wallet has not taken up
    payments,   \* payments[i]: the wallet's own record
    crashes

serviceVars == <<phase, visit, answers, quotes>>
walletVars == <<wire, payments>>
vars == <<ledgerTables, time, serviceVars, walletVars, crashes>>

Opening == {"closing", "failing", "finalizing"}
Place == {"preparing", "looking", "missed", "paying", "calling"}
Terminal == {"succeeded", "failed"}
NoPayment == [status |-> "none", debit |-> 0, day |-> 0]

TypeOK ==
    /\ LedgerTypeOK
    /\ phase \in Opening \cup {"up"}
    /\ visit \subseteq [invoice : Invoice, at : Place, first : BOOLEAN]
    /\ answers \subseteq Invoice
    /\ quotes \in [Request -> SUBSET Nat]
    /\ wire \subseteq Invoice
    /\ payments \in [Invoice -> [status : {"none", "pending"} \cup Terminal,
                                 debit : Nat, day : Nat]]
    /\ crashes \in Nat

Init ==
    /\ LedgerInit
    /\ phase = "closing"
    /\ visit = {}
    /\ answers = {}
    /\ quotes = [r \in Request |-> {}]
    /\ wire = {}
    /\ payments = [i \in Invoice |-> NoPayment]
    /\ crashes = 0

\* The invoices money is on its way for, or has arrived.
Paying == {i \in Invoice : payments[i].status \in {"pending", "succeeded"}}

\* balance: spendable_msat, without what payments in flight hold.
Debit == [i \in Invoice |-> payments[i].debit]
Balance == Funds - SumFunctionOnSet(Debit, Paying)

Up == phase = "up"

-------------------------------------------------------------------------------
(* Authorizing a request *)

\* prefetch_balance, or the balance read of authorize and approve.
ReadsBalance(r) ==
    /\ Up
    /\ requests[r].state \in {"none", "pending"}
    /\ quotes' = [quotes EXCEPT ![r] = {Balance}]
    /\ UNCHANGED <<ledgerTables, time, phase, visit, answers, walletVars, crashes>>

Proposes(r) ==
    /\ Up
    /\ Propose(r)
    /\ UNCHANGED <<time, serviceVars, walletVars, crashes>>

Approves(r) ==
    /\ Up
    /\ \E balance \in quotes[r] : Approve(r, balance)
    /\ quotes' = [quotes EXCEPT ![r] = {}]
    /\ UNCHANGED <<time, phase, visit, answers, walletVars, crashes>>

\* cancel before the input is paid; send rejects what is already paid.
Cancels(r) ==
    /\ Up
    /\ \/ ~Terms[r].send /\ CancelUnstarted(r)
       \/ Terms[r].send /\ Reject(r)
    /\ UNCHANGED <<time, serviceVars, walletVars, crashes>>

\* cancel of an authorization; pay_charge after a refused charge.
RevokesAuthorization(r) ==
    /\ Up
    /\ FailAuthorizationIfIdle(r)
    /\ UNCHANGED <<time, serviceVars, walletVars, crashes>>

Finishes(r) ==
    /\ Up
    /\ Finish(r)
    /\ UNCHANGED <<time, serviceVars, walletVars, crashes>>

-------------------------------------------------------------------------------
(* Settling a charge *)

PreparesCharge(c) ==
    /\ Up
    /\ PrepareCharge(c)
    /\ UNCHANGED <<time, serviceVars, walletVars, crashes>>

\* The rest of a visit.
Stay(v, at) == visit' = {[v EXCEPT !.at = at]}
Leave == visit' = {}

\* Any task may come back to a charge that did not fail, the recovery loop to
\* those of its list, which may have been settled since.
Enters(i) ==
    /\ Up
    /\ visit = {}
    /\ charges[i].state \in {"prepared", "pending", "succeeded"}
    /\ visit' = {[invoice |-> i, first |-> charges[i].state = "prepared",
                  at |-> IF charges[i].state = "prepared" THEN "preparing" ELSE "looking"]}
    /\ UNCHANGED <<ledgerTables, time, phase, answers, quotes, walletVars, crashes>>

\* A prepared charge is submitted without a lookup.
StartsSubmission(v) ==
    /\ v.at = "preparing"
    /\ \/ /\ v.invoice \in expired
          /\ FailUnsubmitted(v.invoice)
          /\ Leave
       \/ /\ v.invoice \notin expired
          /\ BeginSubmission(v.invoice)
          /\ Stay(v, "paying")
       \/ /\ v.invoice \notin expired
          /\ charges[v.invoice].state # "prepared"
          /\ Leave
          /\ UNCHANGED ledgerTables
    /\ UNCHANGED <<time, phase, answers, quotes, walletVars, crashes>>

\* lookup: the wallet's record as it is now.
LooksUp(v) ==
    /\ v.at = "looking"
    /\ \/ /\ payments[v.invoice].status = "none"
          /\ Stay(v, "missed")
          /\ UNCHANGED answers
       \/ /\ payments[v.invoice].status = "pending"
          /\ Leave
          /\ UNCHANGED answers
       \/ /\ payments[v.invoice].status \in Terminal
          /\ Leave
          /\ answers' = answers \cup {v.invoice}
    /\ UNCHANGED <<ledgerTables, time, phase, quotes, walletVars, crashes>>

LookupFails(v) ==
    /\ v.at = "looking"
    /\ Leave
    /\ UNCHANGED <<ledgerTables, time, phase, answers, quotes, walletVars, crashes>>

\* Mutant: a charge the wallet does not know stays as it is.
LeavesMiss(v) ==
    /\ v.at = "missed"
    /\ \/ /\ v.invoice \in expired
          /\ Leave
       \/ /\ v.invoice \notin expired
          /\ Stay(v, "paying")
    /\ UNCHANGED <<ledgerTables, time, phase, answers, quotes, walletVars, crashes>>

\* The wallet has no payment: nothing was paid if the invoice has expired, else
\* it is submitted again.
EvaluatesMiss(v) ==
    /\ v.at = "missed"
    /\ \/ /\ v.invoice \in expired
          /\ FailUnsubmitted(v.invoice)
          /\ Leave
       \/ /\ v.invoice \notin expired
          /\ Stay(v, "paying")
          /\ UNCHANGED ledgerTables
    /\ UNCHANGED <<time, phase, answers, quotes, walletVars, crashes>>

Pays(v) ==
    /\ v.at = "paying"
    /\ Stay(v, "calling")
    /\ wire' = wire \cup {v.invoice}
    /\ UNCHANGED <<ledgerTables, time, phase, answers, quotes, payments, crashes>>

\* pay returns a payment: of this call, or one it found.
PayReturns(v) ==
    /\ v.at = "calling"
    /\ payments[v.invoice].status # "none"
    /\ Leave
    /\ answers' = IF payments[v.invoice].status \in Terminal
                  THEN answers \cup {v.invoice} ELSE answers
    /\ UNCHANGED <<ledgerTables, time, phase, quotes, walletVars, crashes>>

\* PayError::Uncertain: the call may be done, lost, or still on the wire.
PayUncertain(v) ==
    /\ v.at = "calling"
    /\ Leave
    /\ UNCHANGED <<ledgerTables, time, phase, answers, quotes, walletVars, crashes>>

\* Mutant: a refused resubmission fails the charge like a refused submission.
RefusalFails(v) ==
    /\ v.at = "calling"
    /\ payments[v.invoice].status = "none"
    /\ FailUnsubmitted(v.invoice)
    /\ Leave
    /\ IF v.first THEN wire' = wire \ {v.invoice} ELSE UNCHANGED wire
    /\ UNCHANGED <<time, phase, answers, quotes, payments, crashes>>

\* PayError::NotSubmitted: this call paid nothing.  When it was the first, no
\* other did; else an earlier one may still be on the wire.
PayRefused(v) ==
    /\ v.at = "calling"
    /\ payments[v.invoice].status = "none"
    /\ Leave
    /\ IF v.first
       THEN /\ FailUnsubmitted(v.invoice)
            /\ wire' = wire \ {v.invoice}
       ELSE UNCHANGED <<ledgerTables, wire>>
    /\ UNCHANGED <<time, phase, answers, quotes, payments, crashes>>

\* wait_for_payment of a task that settles the charge, and the lookup of a send.
WaitReturns(i) ==
    /\ Up
    /\ charges[i].state # "none"
    /\ payments[i].status \in Terminal
    /\ answers' = answers \cup {i}
    /\ UNCHANGED <<ledgerTables, time, phase, visit, quotes, walletVars, crashes>>

\* Several tasks may know the same payment, so the answer remains.  A payment
\* the wallet has no time for is settled today.
Reconciles(i) ==
    /\ Up
    /\ i \in answers
    /\ \E day \in {payments[i].day, today} :
        RecordPayment(i, payments[i].status = "succeeded", payments[i].debit, day)
    /\ UNCHANGED <<time, serviceVars, walletVars, crashes>>

-------------------------------------------------------------------------------
(* Crashes and starts *)

Crashes ==
    /\ crashes < MaxCrashes
    /\ crashes' = crashes + 1
    /\ phase' = "closing"
    /\ visit' = {}
    /\ answers' = {}
    /\ quotes' = [r \in Request |-> {}]
    /\ UNCHANGED <<ledgerTables, time, walletVars>>

\* with_factory, one transaction after another.
Opens ==
    /\ \/ /\ phase = "closing"
          /\ CloseAbandonedApprovals
          /\ phase' = "failing"
       \/ /\ phase = "failing"
          /\ FailUnsubmittedInputCharges
          /\ phase' = "finalizing"
       \/ /\ phase = "finalizing"
          /\ FinalizeTerminalRequests
          /\ phase' = "up"
    /\ UNCHANGED <<time, visit, answers, quotes, walletVars, crashes>>

\* reconcile_pending begins with finalize_terminal_requests.
Finalizes ==
    /\ Up
    /\ FinalizeTerminalRequests
    /\ UNCHANGED <<time, serviceVars, walletVars, crashes>>

-------------------------------------------------------------------------------
(* The wallet and the clock *)

\* The wallet takes up a call.
WalletTakes(i) ==
    /\ i \in wire
    /\ i \notin expired
    /\ payments[i].status = "none"
    /\ wire' = wire \ {i}
    /\ \E debit \in Amount[i]..charges[i].limit :
        /\ debit <= Balance
        /\ payments' = [payments EXCEPT ![i] =
                [status |-> "pending", debit |-> debit, day |-> 0]]
    /\ UNCHANGED <<ledgerTables, time, serviceVars, crashes>>

\* A call comes to nothing: lost, refused, or repeating a payment.
WalletDrops(i) ==
    /\ i \in wire
    /\ wire' = wire \ {i}
    /\ UNCHANGED <<ledgerTables, time, serviceVars, payments, crashes>>

WalletSettles(i) ==
    /\ payments[i].status = "pending"
    /\ \E status \in Terminal :
        payments' = [payments EXCEPT ![i].status = status, ![i].day = today]
    /\ UNCHANGED <<ledgerTables, time, serviceVars, wire, crashes>>

Expires(i) ==
    /\ i \notin expired
    /\ LookupsLinger \/ \A v \in visit : v.at # "missed" \/ v.invoice # i
    /\ expired' = expired \cup {i}
    /\ UNCHANGED <<ledgerTables, today, serviceVars, walletVars, crashes>>

NextDay ==
    /\ today < LastDay
    /\ today' = today + 1
    /\ UNCHANGED <<ledgerTables, expired, serviceVars, walletVars, crashes>>

-------------------------------------------------------------------------------

\* What a visit does by itself once it holds the lock.
Answered(v) == PayReturns(v) \/ PayUncertain(v) \/ PayRefused(v)

Next ==
    \/ \E r \in Request :
        \/ ReadsBalance(r) \/ Proposes(r) \/ Approves(r)
        \/ Cancels(r) \/ RevokesAuthorization(r) \/ Finishes(r)
    \/ \E c \in Charge : PreparesCharge(c)
    \/ \E i \in Invoice : Enters(i) \/ WaitReturns(i) \/ Reconciles(i)
    \/ \E v \in visit :
        \/ StartsSubmission(v) \/ LooksUp(v) \/ LookupFails(v) \/ EvaluatesMiss(v)
        \/ Pays(v) \/ Answered(v)
    \/ Crashes \/ Opens \/ Finalizes
    \/ \E i \in Invoice :
        WalletTakes(i) \/ WalletDrops(i) \/ WalletSettles(i) \/ Expires(i)
    \/ NextDay

Spec == Init /\ [][Next]_vars

\* The recovery loop comes back to every unsettled charge and some lookup
\* answers; invoices expire and payments settle; what runs goes on.
VisitsGoOn(i) ==
    /\ SF_vars(Enters(i))
    /\ SF_vars(\E v \in visit : v.invoice = i /\ LooksUp(v))
    /\ WF_vars(Reconciles(i))
    /\ WF_vars(Expires(i))
    /\ WF_vars(WalletSettles(i))

FairSpec ==
    /\ Spec
    /\ WF_vars(Opens)
    /\ WF_vars(\E v \in visit :
                    StartsSubmission(v) \/ EvaluatesMiss(v) \/ Pays(v) \/ Answered(v))
    /\ \A i \in Invoice : VisitsGoOn(i)

-------------------------------------------------------------------------------
(* Properties *)

\* Money is, or may yet be, on its way for invoice i, or has arrived without
\* being recorded.
InMotion(i) ==
    \/ i \in wire \ expired /\ payments[i].status = "none"
    \/ payments[i].status = "pending"
    \/ payments[i].status = "succeeded" /\ charges[i].state # "succeeded"

\* ledger.rs and service.rs: errors leave the reservation held until the charge
\* is reconciled.  Whatever crashes, refusals and lost answers came before,
\* money in motion has a pending charge of a request still approved.
MotionIsReserved ==
    \A i \in Invoice : InMotion(i) =>
        /\ charges[i].state = "pending"
        /\ Approved(charges[i].request)

\* What leaves the wallet for a request, recorded or not, never exceeds the cap
\* it was approved with.
PaidWithinCap ==
    \A r \in Request :
        SumFunctionOnSet(Debit, {i \in Paying : charges[i].request = r}) <= Terms[r].cap

\* What the wallet pays on a day never exceeds the daily budget, also when it is
\* approved a day before or recorded a day after.
DailyBudgetHeld ==
    \A day \in 0..today :
        SumFunctionOnSet(Debit, {i \in Invoice : /\ payments[i].status = "succeeded"
                                                 /\ payments[i].day = day}) <= Budget

\* What the promise of PaymentMandate is about: approvals, money in motion and
\* payments recorded.
MandateOf(r) ==
    IF requests[r].state \in {"none", "pending"} THEN "none"
    ELSE IF Approved(r) THEN "open" ELSE "closed"

Recorded(i) == payments[i].status = "succeeded" /\ charges[i].state = "succeeded"

Moving == {m \in Request \X Invoice : m[1] = charges[m[2]].request /\ InMotion(m[2])}

Settled == {m \in Request \X Invoice : m[1] = charges[m[2]].request /\ Recorded(m[2])}

Mandate == INSTANCE PaymentMandate WITH
    Payer <- Request,
    Bill <- Invoice,
    mandate <- [r \in Request |-> MandateOf(r)],
    moving <- Moving,
    settled <- Settled

\* The service keeps that promise: the ledger opens and closes mandates, the
\* wallet moves money, and no step of either breaks it.
MandateKept == Mandate!MandateSpec

\* reconcile_pending: a charge is settled in the end, whatever became of its
\* submissions.
ChargesSettle ==
    \A i \in Invoice : charges[i].state \in Unsettled ~> charges[i].state \in Terminal

\* service.rs, on an expired invoice the wallet has no record of: "an attempt
\* the wallet never recorded paid nothing".
FailedPaidNothing ==
    \A i \in Invoice : charges[i].state = "failed" => i \notin Paying
===============================================================================
