------------------------- MODULE PaymentMandateProofs -------------------------
(***************************************************************************)
(* Proof that PaymentService implements PaymentMandate: every step of the  *)
(* service, the wallet and the clock opens or closes mandates, moves money *)
(* under an open one, or changes nothing the promise is about.             *)
(***************************************************************************)
EXTENDS PaymentProofs

-------------------------------------------------------------------------------
(* Mandates and motion *)

\* A charge in motion, or recorded as paid, is of a request, and what moves is
\* not recorded.
LEMMA MotionHasPayer ==
    ASSUME IInv, NEW i \in Invoice, InMotion(i) \/ Recorded(i)
    PROVE  /\ charges[i].state # "none"
           /\ charges[i].request \in Request
           /\ ~(InMotion(i) /\ Recorded(i))
           /\ InMotion(i) => requests[charges[i].request].state = "approved"
<1> QED  BY DEF IInv, Types, TablesOK, LedgerMatchesWallet, InMotion, Recorded, Unsettled

\* Requests close only when none of their charges is in motion: IInv' says so.
LEMMA ClosesMandates ==
    ASSUME IInv',
           \A r \in Request : \/ requests'[r].state = requests[r].state
                              \/ requests[r].state = "none" /\ requests'[r].state = "pending"
                              \/ requests'[r].state \in {"rejected", "failed", "completed"}
    PROVE  Mandate!Closes
<1> DEFINE ended == {r \in Request : MandateOf(r)' = "closed" /\ MandateOf(r) # "closed"}
<1>1. \A r \in Request : MandateOf(r)' = IF r \in ended THEN "closed" ELSE MandateOf(r)
  BY DEF MandateOf, Approved
<1>2. \A m \in Moving' : m[1] \notin ended
  <2> SUFFICES ASSUME NEW m \in Moving' PROVE MandateOf(m[1])' # "closed"
    OBVIOUS
  <2>1. m[2] \in Invoice /\ m[1] = charges'[m[2]].request /\ InMotion(m[2])'
    BY DEF Moving
  <2>2. requests'[m[1]].state = "approved"
    BY <2>1 DEF IInv, Types, TablesOK, LedgerMatchesWallet, Unsettled
  <2> QED  BY <2>2 DEF MandateOf, Approved
<1>3. [r \in Request |-> MandateOf(r)]' =
          [p \in Request |-> IF p \in ended THEN "closed" ELSE [r \in Request |-> MandateOf(r)][p]]
  BY <1>1
<1>4. ended \in SUBSET Request
  OBVIOUS
<1> HIDE DEF ended
<1> QED  BY <1>2, <1>3, <1>4 DEF Mandate!Closes

\* The charge of j is in motion, and recorded, as before.
SameMotion(j) == (InMotion(j)' <=> InMotion(j)) /\ (Recorded(j)' <=> Recorded(j))

\* Where charges keep their requests, motion is all that tells the sets apart.
LEMMA MotionSets ==
    ASSUME IInv, IInv', Kept
    PROVE  /\ \A m \in Request \X Invoice :
                SameMotion(m[2]) => /\ m \in Moving' <=> m \in Moving
                                    /\ m \in Settled' <=> m \in Settled
           /\ Moving \subseteq Request \X Invoice /\ Moving' \subseteq Request \X Invoice
           /\ Settled \subseteq Request \X Invoice /\ Settled' \subseteq Request \X Invoice
<1> SUFFICES ASSUME NEW m \in Request \X Invoice, SameMotion(m[2])
             PROVE  /\ m \in Moving' <=> m \in Moving
                    /\ m \in Settled' <=> m \in Settled
  BY DEF Moving, Settled
<1>1. m[2] \in Invoice
  OBVIOUS
<1>2. InMotion(m[2]) \/ Recorded(m[2]) => charges'[m[2]].request = charges[m[2]].request
  BY <1>1, MotionHasPayer DEF Kept
<1> QED  BY <1>1, <1>2 DEF SameMotion, Moving, Settled

\* A step after which everything moves as before closes mandates, if any.
LEMMA StillMoves ==
    ASSUME IInv, IInv', Kept, \A j \in Invoice : SameMotion(j)
    PROVE  Mandate!Close
<1>1. Moving' = Moving /\ Settled' = Settled
  <2>1. \A m \in Request \X Invoice : SameMotion(m[2])
    OBVIOUS
  <2> QED  BY <2>1, MotionSets
<1>2. Mandate!Closes
  BY ClosesMandates DEF Kept
<1> QED  BY <1>1, <1>2 DEF Mandate!Close

\* A step after which one charge no longer moves, paid or not.
LEMMA StopsMoving ==
    ASSUME IInv, IInv', Kept, NEW i \in Invoice,
           \A j \in Invoice \ {i} : SameMotion(j),
           InMotion(i), ~InMotion(i)'
    PROVE  Mandate!MandateNext
<1> DEFINE p == charges[i].request
<1>1. p \in Request /\ ~Recorded(i) /\ charges'[i].request = p
  BY MotionHasPayer DEF Kept
<1>2. Mandate!Closes
  BY ClosesMandates DEF Kept
<1>3. \A m \in Request \X Invoice : m # <<p, i>> =>
          /\ m \in Moving' <=> m \in Moving
          /\ m \in Settled' <=> m \in Settled
  <2> SUFFICES ASSUME NEW m \in Request \X Invoice, m # <<p, i>>
               PROVE  /\ m \in Moving' <=> m \in Moving
                      /\ m \in Settled' <=> m \in Settled
    OBVIOUS
  <2>1. CASE m[2] # i
    BY <2>1, MotionSets
  <2>2. CASE m[2] = i
    <3>1. m[1] # p
      BY <2>2
    <3> QED  BY <1>1, <2>2, <3>1 DEF Moving, Settled
  <2> QED  BY <2>1, <2>2
<1>4. <<p, i>> \in Moving /\ <<p, i>> \notin Moving' /\ <<p, i>> \notin Settled
  BY <1>1 DEF Moving, Settled
<1>5. Moving' = Moving \ {<<p, i>>}
  BY <1>3, <1>4, MotionSets
<1>6. <<p, i>> \in Settled' <=> Recorded(i)'
  BY <1>1 DEF Settled
<1> HIDE DEF p
<1>7. CASE Recorded(i)'
  <2>1. Settled' = Settled \cup {<<p, i>>}
    BY <1>1, <1>3, <1>6, <1>7, MotionSets
  <2>2. Mandate!Settle(p, i)
    BY <1>2, <1>4, <1>5, <2>1 DEF Mandate!Settle
  <2> QED  BY <1>1, <2>2 DEF Mandate!MandateNext
<1>8. CASE ~Recorded(i)'
  <2>1. Settled' = Settled
    BY <1>3, <1>4, <1>6, <1>8, MotionSets
  <2>2. Mandate!Stop(p, i)
    BY <1>2, <1>4, <1>5, <2>1 DEF Mandate!Stop
  <2> QED  BY <1>1, <2>2 DEF Mandate!MandateNext
<1> QED  BY <1>7, <1>8

\* A step that writes no table keeps requests.
LEMMA UntouchedKept ==
    ASSUME UNCHANGED ledgerTables
    PROVE  Kept
<1> QED  BY DEF Kept, ledgerTables

\* Steps at the ledger alone change no motion, unless they record a payment.
LEMMA LedgerStep ==
    ASSUME IInv, IInv', Kept, UNCHANGED <<expired, walletVars>>,
           \A j \in Invoice : charges'[j].state = "succeeded" <=> charges[j].state = "succeeded"
    PROVE  Mandate!MandateNext
<1>1. \A j \in Invoice : SameMotion(j)
  BY DEF SameMotion, InMotion, Recorded, walletVars
<1> QED  BY <1>1, StillMoves DEF Mandate!MandateNext

\* Charges that are not disturbed are not paid by the step.
LEMMA UndisturbedStep ==
    ASSUME IInv, IInv', Kept, UNCHANGED <<expired, walletVars>>,
           \A j \in Invoice : Undisturbed(j)
    PROVE  Mandate!MandateNext
<1>1. \A j \in Invoice : charges'[j].state = "succeeded" <=> charges[j].state = "succeeded"
  BY DEF Undisturbed
<1> QED  BY <1>1, LedgerStep

-------------------------------------------------------------------------------
(* The actions *)

\* Setting the state of a request moves nothing.
LEMMA SetRequestStep ==
    ASSUME Types, NEW r \in Request, NEW s \in RequestState, SetRequest(r, s),
           UNCHANGED <<expired, walletVars>>
    PROVE  /\ Moving' = Moving /\ Settled' = Settled
           /\ requests'[r].state = s
           /\ \A q \in Request \ {r} : requests'[q].state = requests[q].state
<1>1. charges' = charges
  BY DEF SetRequest
<1>2. Moving' = Moving /\ Settled' = Settled
  BY <1>1 DEF Moving, Settled, InMotion, Recorded, walletVars
<1>3. requests' = [requests EXCEPT ![r].state = s]
  BY DEF SetRequest
<1> QED  BY <1>2, <1>3 DEF Types, TablesOK, RequestRow

\* Approval opens a mandate; whatever else is done to requests closes some.
LEMMA RequestStep ==
    ASSUME IInv, IInv', NEW r \in Request,
           \/ ReadsBalance(r) \/ Proposes(r) \/ Approves(r)
           \/ Cancels(r) \/ RevokesAuthorization(r) \/ Finishes(r)
    PROVE  Mandate!MandateNext
<1>0. /\ Types
      /\ {"pending", "approved", "rejected", "failed", "completed"} \subseteq RequestState
  BY DEF IInv, RequestState
<1>1. CASE ReadsBalance(r)
  BY <1>1, UntouchedKept, LedgerStep DEF ReadsBalance, time, ledgerTables
<1>2. CASE Approves(r)
  <2>1. /\ requests[r].state = "pending" /\ SetRequest(r, "approved")
        /\ UNCHANGED <<expired, walletVars>>
    BY <1>2 DEF Approves, Approve, time
  <2>2. /\ Moving' = Moving /\ Settled' = Settled
        /\ requests'[r].state = "approved"
        /\ \A q \in Request \ {r} : requests'[q].state = requests[q].state
    BY <1>0, <2>1, SetRequestStep
  <2>3. MandateOf(r) = "none" /\ \A q \in Request :
            MandateOf(q)' = IF q = r THEN "open" ELSE MandateOf(q)
    BY <2>1, <2>2 DEF MandateOf, Approved
  <2>4. Mandate!Open(r)
    BY <2>2, <2>3 DEF Mandate!Open
  <2> QED  BY <2>4 DEF Mandate!MandateNext
<1>3. CASE Proposes(r) \/ Cancels(r) \/ RevokesAuthorization(r) \/ Finishes(r)
  <2>1. /\ UNCHANGED <<expired, walletVars>>
        /\ \E s \in {"pending", "rejected", "failed", "completed"} :
              SetRequest(r, s) /\ (s = "pending" => requests[r].state = "none")
    BY <1>3 DEF Proposes, Propose, Cancels, CancelUnstarted, Reject,
                RevokesAuthorization, FailAuthorizationIfIdle, Finishes, Finish, time
  <2>2. PICK s \in {"pending", "rejected", "failed", "completed"} :
              SetRequest(r, s) /\ (s = "pending" => requests[r].state = "none")
    BY <2>1
  <2>3. /\ Moving' = Moving /\ Settled' = Settled
        /\ requests'[r].state = s
        /\ \A q \in Request \ {r} : requests'[q].state = requests[q].state
    BY <1>0, <2>1, <2>2, SetRequestStep
  <2>4. Mandate!Closes
    BY <2>2, <2>3, ClosesMandates
  <2> QED  BY <2>3, <2>4 DEF Mandate!Close, Mandate!MandateNext
<1> QED  BY <1>1, <1>2, <1>3

\* Preparing, starting and finalizing.
LEMMA TransactionStep ==
    ASSUME IInv, IInv', (\E c \in Charge : PreparesCharge(c)) \/ Opens \/ Finalizes
    PROVE  Mandate!MandateNext
<1>0. Types
  BY DEF IInv
<1>1. ASSUME NEW c \in Charge, PreparesCharge(c)
      PROVE  Mandate!MandateNext
  BY <1>0, <1>1, PrepareKeepsTables, UndisturbedStep DEF PreparesCharge, time
<1>2. CASE Opens
  BY <1>0, <1>2, OpensKeepsTables, UndisturbedStep DEF Opens, time
<1>3. CASE Finalizes
  BY <1>0, <1>3, FinalizeKeepsTables, UndisturbedStep DEF Finalizes, time
<1> QED  BY <1>1, <1>2, <1>3

\* A failed charge was not paid, so nothing else moves than did.
LEMMA FailureStep ==
    ASSUME IInv, IInv', NEW i \in Invoice, FailUnsubmitted(i), UNCHANGED <<expired, walletVars>>
    PROVE  Mandate!MandateNext
<1>1. /\ \A j \in Invoice \ {i} : Undisturbed(j)
      /\ Kept
      /\ charges'[i].state = IF charges[i].state \in Unsettled THEN "failed"
                             ELSE charges[i].state
  BY FailUnsubmittedTables DEF IInv
<1>2. \A j \in Invoice : charges'[j].state = "succeeded" <=> charges[j].state = "succeeded"
  BY <1>1 DEF Undisturbed, Unsettled
<1> QED  BY <1>1, <1>2, LedgerStep

\* The steps of a visit: the call to pay moves money, its refusal stops it.
LEMMA VisitStep ==
    ASSUME IInv, IInv', NEW v \in visit,
           \/ StartsSubmission(v) \/ LooksUp(v) \/ LookupFails(v) \/ EvaluatesMiss(v)
           \/ Pays(v) \/ Answered(v)
    PROVE  Mandate!MandateNext
<1> DEFINE i == v.invoice
<1>0. Types /\ VisitKnows(v) /\ i \in Invoice
  BY DEF IInv, Types, VisitOK
<1>1. CASE UNCHANGED <<ledgerTables, expired, walletVars>>
  BY <1>1, UntouchedKept, LedgerStep DEF ledgerTables
<1>2. CASE StartsSubmission(v)
  <2>1. UNCHANGED <<expired, walletVars>>
    BY <1>2 DEF StartsSubmission, time
  <2>2. CASE FailUnsubmitted(i)
    BY <1>0, <2>1, <2>2, FailureStep
  <2>3. CASE BeginSubmission(i)
    <3>1. /\ charges[i].state = "prepared"
          /\ charges' = [charges EXCEPT ![i] = [charges[i] EXCEPT !.state = "pending"]]
          /\ requests' = requests
      BY <1>0, <2>3 DEF BeginSubmission, Types, TablesOK
    <3>2. /\ [charges[i] EXCEPT !.state = "pending"].state = "pending"
          /\ [charges[i] EXCEPT !.state = "pending"].request = charges[i].request
      BY <1>0, ChargeRowState DEF Types, TablesOK, ChargeState
    <3>3. /\ \A j \in Invoice \ {i} : charges'[j] = charges[j]
          /\ charges'[i].state = "pending" /\ charges'[i].request = charges[i].request
      BY <1>0, <3>1, <3>2 DEF Types, TablesOK
    <3>4. Kept
      BY <3>1, <3>3 DEF Kept
    <3>5. \A j \in Invoice : charges'[j].state = "succeeded" <=> charges[j].state = "succeeded"
      BY <3>1, <3>3
    <3> QED  BY <2>1, <3>4, <3>5, LedgerStep
  <2>4. CASE UNCHANGED ledgerTables
    BY <1>1, <2>1, <2>4
  <2> QED  BY <1>2, <2>2, <2>3, <2>4 DEF StartsSubmission
<1>3. CASE LooksUp(v) \/ LookupFails(v) \/ PayReturns(v) \/ PayUncertain(v)
  BY <1>1, <1>3 DEF LooksUp, LookupFails, PayReturns, PayUncertain, time
<1>4. CASE EvaluatesMiss(v)
  BY <1>0, <1>1, <1>4, FailureStep DEF EvaluatesMiss, time
<1>5. CASE Pays(v)
  <2>1. /\ v.at = "paying" /\ wire' = wire \cup {i}
        /\ UNCHANGED <<ledgerTables, expired, payments>>
    BY <1>5 DEF Pays, time
  <2>2. Kept
    BY <2>1, UntouchedKept
  <2>3. \A j \in Invoice \ {i} : SameMotion(j)
    BY <2>1 DEF SameMotion, InMotion, Recorded, ledgerTables
  <2>4. CASE SameMotion(i)
    BY <2>2, <2>3, <2>4, StillMoves DEF Mandate!MandateNext
  <2>5. CASE ~SameMotion(i)
    <3>1. ~InMotion(i) /\ InMotion(i)' /\ payments[i].status = "none"
      BY <2>1, <2>5 DEF SameMotion, InMotion, Recorded, ledgerTables
    <3> DEFINE p == charges[i].request
    <3>2. charges[i].state = "pending"
      BY <1>0, <2>1, <3>1 DEF VisitKnows
    <3>3. p \in Request /\ requests[p].state = "approved"
      BY <1>0, <3>2 DEF Types, TablesOK, Unsettled
    <3>4. \A q \in Request : <<q, i>> \notin Moving \cup Settled
      BY <3>1 DEF Moving, Settled, Recorded
    <3>5. Moving' = Moving \cup {<<p, i>>}
      <4>1. \A m \in Request \X Invoice : m[2] # i => (m \in Moving' <=> m \in Moving)
        BY <2>2, <2>3, MotionSets
      <4>2. \A m \in Request \X Invoice : m[2] = i => (m \in Moving' <=> m = <<p, i>>)
        BY <2>1, <3>1 DEF Moving, ledgerTables
      <4> HIDE DEF p
      <4> QED  BY <1>0, <2>2, <3>3, <3>4, <4>1, <4>2, MotionSets
    <3>6. Settled' = Settled /\ [r \in Request |-> MandateOf(r)]' = [r \in Request |-> MandateOf(r)]
      BY <2>1 DEF Settled, Recorded, MandateOf, Approved, ledgerTables
    <3>7. Mandate!Move(p, i)
      BY <3>3, <3>4, <3>5, <3>6 DEF Mandate!Move, MandateOf, Approved
    <3> QED  BY <1>0, <3>3, <3>7 DEF Mandate!MandateNext
  <2> QED  BY <2>4, <2>5
<1>6. CASE PayRefused(v)
  <2>1. UNCHANGED <<expired, payments>> /\ payments[i].status = "none"
    BY <1>6 DEF PayRefused, time
  <2>2. CASE v.first
    <3>1. FailUnsubmitted(i) /\ wire' = wire \ {i}
      BY <1>6, <2>2 DEF PayRefused
    <3>2. /\ \A j \in Invoice \ {i} : Undisturbed(j)
          /\ Kept
      BY <1>0, <3>1, FailUnsubmittedTables
    <3>3. \A j \in Invoice \ {i} : SameMotion(j)
      BY <2>1, <3>1, <3>2 DEF SameMotion, InMotion, Recorded, Undisturbed
    <3>4. ~InMotion(i)' /\ ~Recorded(i) /\ ~Recorded(i)'
      BY <2>1, <3>1 DEF InMotion, Recorded
    <3>5. CASE InMotion(i)
      BY <1>0, <3>2, <3>3, <3>4, <3>5, StopsMoving
    <3>6. CASE ~InMotion(i)
      BY <3>2, <3>3, <3>4, <3>6, StillMoves DEF SameMotion, Mandate!MandateNext
    <3> QED  BY <3>5, <3>6
  <2>3. CASE ~v.first
    BY <1>1, <1>6, <2>1, <2>3 DEF PayRefused, walletVars
  <2> QED  BY <2>2, <2>3
<1> QED  BY <1>2, <1>3, <1>4, <1>5, <1>6 DEF Answered

\* Entering, waiting and crashing move nothing; recording settles what was paid.
LEMMA TaskStep ==
    ASSUME IInv, IInv',
           (\E i \in Invoice : Enters(i) \/ WaitReturns(i) \/ Reconciles(i)) \/ Crashes
    PROVE  Mandate!MandateNext
<1>1. ASSUME NEW i \in Invoice, Enters(i) \/ WaitReturns(i)
      PROVE  Mandate!MandateNext
  BY <1>1, UntouchedKept, LedgerStep DEF Enters, WaitReturns, time, ledgerTables
<1>2. CASE Crashes
  BY <1>2, UntouchedKept, LedgerStep DEF Crashes, time, ledgerTables
<1>3. ASSUME NEW i \in Invoice, Reconciles(i)
      PROVE  Mandate!MandateNext
  <2>0. Types /\ LedgerMatchesWallet /\ AnswersOK
    BY DEF IInv
  <2>1. PICK day \in Nat :
          RecordPayment(i, payments[i].status = "succeeded", payments[i].debit, day)
    BY <1>3, <2>0 DEF Reconciles, Types
  <2>2. UNCHANGED <<expired, wire, payments>> /\ payments[i].status \in Terminal
    BY <1>3, <2>0 DEF Reconciles, time, walletVars, AnswersOK
  <2>3. payments[i].debit \in Nat /\ (payments[i].status = "succeeded") \in BOOLEAN
    BY <2>0 DEF Types
  <2>4. /\ charges[i].state \in Unsettled
        /\ \A j \in Invoice \ {i} : Undisturbed(j)
        /\ Kept
        /\ charges'[i].state = IF payments[i].status = "succeeded" THEN "succeeded" ELSE "failed"
    BY <2>0, <2>1, <2>3, RecordPaymentTables
  <2>5. \A j \in Invoice \ {i} : SameMotion(j)
    BY <2>2, <2>4 DEF SameMotion, InMotion, Recorded, Undisturbed
  <2>6. CASE payments[i].status = "succeeded"
    <3>1. InMotion(i) /\ ~InMotion(i)'
      BY <2>2, <2>4, <2>6 DEF InMotion, Unsettled
    <3> QED  BY <2>4, <2>5, <3>1, StopsMoving
  <2>7. CASE payments[i].status = "failed"
    <3>1. SameMotion(i)
      BY <2>2, <2>4, <2>7 DEF SameMotion, InMotion, Recorded, Unsettled
    <3> QED  BY <2>4, <2>5, <3>1, StillMoves DEF Mandate!MandateNext
  <2> QED  BY <2>2, <2>6, <2>7 DEF Terminal
<1> QED  BY <1>1, <1>2, <1>3

\* The wallet and the clock: taking a call up keeps it in motion, a lost call, a
\* failed payment and an expired invoice end it, success waits for its record.
LEMMA WalletStep ==
    ASSUME IInv, IInv',
           \/ \E i \in Invoice :
                WalletTakes(i) \/ WalletDrops(i) \/ WalletSettles(i) \/ Expires(i)
           \/ NextDay
    PROVE  Mandate!MandateNext
<1>0. Types /\ LedgerMatchesWallet
  BY DEF IInv
<1>1. CASE NextDay
  BY <1>1, UntouchedKept, LedgerStep DEF NextDay, ledgerTables
<1>2. ASSUME NEW i \in Invoice, UNCHANGED ledgerTables,
             \A j \in Invoice \ {i} : SameMotion(j),
             InMotion(i)' => InMotion(i), Recorded(i)' <=> Recorded(i)
      PROVE  Mandate!MandateNext
  <2>1. Kept
    BY <1>2, UntouchedKept
  <2>2. CASE InMotion(i)' <=> InMotion(i)
    BY <1>2, <2>1, <2>2, StillMoves DEF SameMotion, Mandate!MandateNext
  <2>3. CASE InMotion(i) /\ ~InMotion(i)'
    BY <1>2, <2>1, <2>3, StopsMoving
  <2> QED  BY <1>2, <2>2, <2>3
<1>3. ASSUME NEW i \in Invoice, WalletTakes(i)
      PROVE  Mandate!MandateNext
  <2>1. PICK debit \in Amount[i]..charges[i].limit :
          payments' = [payments EXCEPT ![i] = [status |-> "pending", debit |-> debit, day |-> 0]]
    BY <1>3 DEF WalletTakes
  <2>2. /\ i \in wire /\ i \notin expired /\ payments[i].status = "none"
        /\ wire' = wire \ {i} /\ UNCHANGED <<ledgerTables, expired>>
    BY <1>3 DEF WalletTakes, time
  <2>3. /\ payments'[i].status = "pending"
        /\ \A j \in Invoice \ {i} : payments'[j] = payments[j]
    BY <1>0, <2>1 DEF Types
  <2>4. \A j \in Invoice \ {i} : SameMotion(j)
    BY <2>2, <2>3 DEF SameMotion, InMotion, Recorded, ledgerTables
  <2>5. InMotion(i) /\ (Recorded(i)' <=> Recorded(i))
    BY <2>2, <2>3 DEF InMotion, Recorded
  <2> QED  BY <1>2, <2>2, <2>4, <2>5
<1>4. ASSUME NEW i \in Invoice, WalletDrops(i)
      PROVE  Mandate!MandateNext
  <2>1. wire' = wire \ {i} /\ UNCHANGED <<ledgerTables, expired, payments>>
    BY <1>4 DEF WalletDrops, time
  <2>2. \A j \in Invoice \ {i} : SameMotion(j)
    BY <2>1 DEF SameMotion, InMotion, Recorded, ledgerTables
  <2>3. (InMotion(i)' => InMotion(i)) /\ (Recorded(i)' <=> Recorded(i))
    BY <2>1 DEF InMotion, Recorded, ledgerTables
  <2> QED  BY <1>2, <2>1, <2>2, <2>3
<1>5. ASSUME NEW i \in Invoice, WalletSettles(i)
      PROVE  Mandate!MandateNext
  <2>1. PICK status \in Terminal :
          payments' = [payments EXCEPT ![i].status = status, ![i].day = today]
    BY <1>5 DEF WalletSettles
  <2>2. payments[i].status = "pending" /\ UNCHANGED <<ledgerTables, expired, wire>>
    BY <1>5 DEF WalletSettles, time
  <2>3. \A j \in Invoice \ {i} : payments'[j] = payments[j]
    BY <1>0, <2>1 DEF Types
  <2>4. \A j \in Invoice \ {i} : SameMotion(j)
    BY <2>2, <2>3 DEF SameMotion, InMotion, Recorded, ledgerTables
  <2>5. InMotion(i)
    BY <2>2 DEF InMotion
  <2>6. charges'[i].state = "pending" /\ ~Recorded(i) /\ ~Recorded(i)'
    BY <1>0, <2>2, <2>5 DEF LedgerMatchesWallet, Recorded, ledgerTables
  <2> QED  BY <1>2, <2>2, <2>4, <2>5, <2>6
<1>6. ASSUME NEW i \in Invoice, Expires(i)
      PROVE  Mandate!MandateNext
  <2>1. expired' = expired \cup {i} /\ UNCHANGED <<ledgerTables, wire, payments>>
    BY <1>6 DEF Expires, walletVars
  <2>2. \A j \in Invoice \ {i} : SameMotion(j)
    BY <2>1 DEF SameMotion, InMotion, Recorded, ledgerTables
  <2>3. (InMotion(i)' => InMotion(i)) /\ (Recorded(i)' <=> Recorded(i))
    BY <2>1 DEF InMotion, Recorded, ledgerTables
  <2> QED  BY <1>2, <2>1, <2>2, <2>3
<1> QED  BY <1>1, <1>3, <1>4, <1>5, <1>6

-------------------------------------------------------------------------------
(* The theorem *)

\* Nothing is mandated, moves or is settled at first.
LEMMA InitMandate ==
    ASSUME Init
    PROVE  Mandate!MandateInit
<1> QED  BY DEF Init, LedgerInit, Mandate!MandateInit, MandateOf, Moving, Settled, InMotion,
                Recorded, NoCharge, NoPayment

\* Every step is a step of the mandate, or changes nothing it is about.
LEMMA NextMandate ==
    ASSUME IInv, IInv', [Next]_vars
    PROVE  [Mandate!MandateNext]_(Mandate!mandateVars)
<1>1. CASE UNCHANGED vars
  <2>1. UNCHANGED <<ledgerTables, expired, walletVars>>
    BY <1>1 DEF vars, time
  <2> QED  BY <2>1, UntouchedKept, LedgerStep DEF ledgerTables
<1>2. CASE Next
  BY <1>2, RequestStep, TransactionStep, VisitStep, TaskStep, WalletStep DEF Next
<1> QED  BY <1>1, <1>2

\* The service, with its ledger and whatever the wallet and the network do,
\* implements PaymentMandate: money moves only under an open mandate, each
\* invoice for one, and no mandate closes under money that moves.
\* Assumed: no invoice expires between a lookup and its evaluation.
THEOREM ServiceKeepsMandate == ~LookupsLinger /\ Spec => MandateKept
<1>1. ~LookupsLinger /\ Init => IInv
  BY InitIInv
<1>2. IInv /\ [Next]_vars => IInv'
  BY NextIInv
<1>3. Init => Mandate!MandateInit
  BY InitMandate
<1>4. IInv /\ IInv' /\ [Next]_vars => [Mandate!MandateNext]_(Mandate!mandateVars)
  BY NextMandate
<1> QED  BY <1>1, <1>2, <1>3, <1>4, PTL DEF Spec, MandateKept, Mandate!MandateSpec
===============================================================================
