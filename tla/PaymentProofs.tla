----------------------------- MODULE PaymentProofs -----------------------------
(***************************************************************************)
(* Proofs about PaymentService.  IInv, for which money in motion is        *)
(* reserved; then Books, which adds the sums: what a request has spent and *)
(* holds stays within its cap, what a day has settled and what approved    *)
(* requests have left stays within the budget.                             *)
(***************************************************************************)
EXTENDS PaymentService, Sums, TLAPS

-------------------------------------------------------------------------------
(* The inductive invariant *)

\* Rows and requests are well formed, and an unsettled charge has an approved
\* request.  It is stated of any tables: transactions finalize what they wrote.
TablesOK(rows, reqs) ==
    /\ reqs \in [Request -> RequestRow]
    /\ rows \in [Invoice -> ChargeRow]
    /\ \A i \in Invoice : rows[i].state # "none" => rows[i].request \in Request
    /\ \A i \in Invoice : rows[i].state \in Unsettled => reqs[rows[i].request].state = "approved"

Types ==
    /\ TablesOK(charges, requests)
    /\ expired \subseteq Invoice
    /\ today \in Nat
    /\ visit \subseteq [invoice : Invoice, at : Place, first : BOOLEAN]
    /\ answers \subseteq Invoice
    /\ wire \subseteq Invoice
    /\ payments \in [Invoice -> [status : {"none", "pending"} \cup Terminal,
                                 debit : Nat, day : Nat]]

\* A charge that was not submitted has no trace outside the ledger, and one
\* recorded as paid is paid.
LedgerMatchesWallet ==
    \A i \in Invoice :
        /\ charges[i].state \in {"none", "prepared"} =>
               i \notin wire /\ payments[i].status = "none"
        /\ charges[i].state = "succeeded" => payments[i].status = "succeeded"
        /\ InMotion(i) => charges[i].state = "pending"

\* What a visit knows of its charge, though others write the ledger.
VisitKnows(v) ==
    /\ v.at = "preparing" => charges[v.invoice].state \in {"prepared", "failed"}
    /\ v.at = "looking" =>
           \/ charges[v.invoice].state \in {"pending", "succeeded"}
           \/ payments[v.invoice].status # "none"
    /\ v.at \in {"missed", "paying", "calling"} =>
           \/ charges[v.invoice].state = "pending"
           \/ payments[v.invoice].status # "none"
    /\ v.at = "missed" /\ v.invoice \in expired => payments[v.invoice].status = "none"

VisitOK == \A v \in visit : VisitKnows(v)

AnswersOK == \A i \in answers : payments[i].status \in Terminal

IInv ==
    /\ ~LookupsLinger
    /\ Types
    /\ LedgerMatchesWallet
    /\ VisitOK
    /\ AnswersOK

-------------------------------------------------------------------------------
(* Transactions *)

\* What a transaction does to the rows it is not about: a charge is prepared, or
\* fails before it is submitted.
Undisturbed(i) ==
    \/ charges'[i].state = charges[i].state
    \/ charges[i].state = "none" /\ charges'[i].state = "prepared"
    \/ charges[i].state = "prepared" /\ charges'[i].state = "failed"

\* What it does to requests: charges keep theirs, and a request only closes.
Kept ==
    /\ \A i \in Invoice : charges[i].state # "none" => charges'[i].request = charges[i].request
    /\ \A r \in Request : \/ requests'[r].state = requests[r].state
                          \/ requests'[r].state \in {"rejected", "failed", "completed"}

\* Setting the state of a row leaves a row, and the rest of it.
LEMMA ChargeRowState ==
    ASSUME NEW row \in ChargeRow, NEW s \in ChargeState
    PROVE  /\ [row EXCEPT !.state = s] \in ChargeRow
           /\ [row EXCEPT !.state = s].state = s
           /\ [row EXCEPT !.state = s].request = row.request
<1> QED  BY DEF ChargeRow

\* The same of a request.
LEMMA RequestRowState ==
    ASSUME NEW row \in RequestRow, NEW s \in RequestState
    PROVE  /\ [row EXCEPT !.state = s] \in RequestRow
           /\ [row EXCEPT !.state = s].state = s
<1> QED  BY DEF RequestRow

\* finalize_terminal_requests fails prepared charges only, and ends no request
\* that has an unsettled one.
LEMMA FinalizeTables ==
    ASSUME NEW rows, NEW reqs, TablesOK(rows, reqs), Finalize(rows, reqs)
    PROVE  /\ TablesOK(charges', requests')
           /\ \A i \in Invoice :
                /\ charges'[i].request = rows[i].request
                /\ \/ charges'[i] = rows[i]
                   \/ rows[i].state = "prepared" /\ charges'[i].state = "failed"
           /\ \A r \in Request :
                \/ requests'[r].state = reqs[r].state
                \/ /\ reqs[r].state = "approved"
                   /\ requests'[r].state \in {"failed", "completed"}
<1>0. /\ \A i \in Invoice : rows[i] \in ChargeRow
      /\ \A r \in Request : reqs[r] \in RequestRow
      /\ {"failed"} \subseteq ChargeState /\ {"failed", "completed"} \subseteq RequestState
  BY DEF TablesOK, ChargeState, RequestState
<1>1. \A i \in Invoice :
        /\ charges'[i] \in ChargeRow
        /\ charges'[i].request = rows[i].request
        /\ \/ charges'[i] = rows[i]
           \/ rows[i].state = "prepared" /\ charges'[i].state = "failed"
  <2> TAKE i \in Invoice
  <2>1. \/ charges'[i] = rows[i]
        \/ rows[i].state = "prepared" /\ charges'[i] = [rows[i] EXCEPT !.state = "failed"]
    BY DEF Finalize, Swept
  <2>2. /\ [rows[i] EXCEPT !.state = "failed"] \in ChargeRow
        /\ [rows[i] EXCEPT !.state = "failed"].state = "failed"
        /\ [rows[i] EXCEPT !.state = "failed"].request = rows[i].request
    BY <1>0, ChargeRowState
  <2> QED  BY <1>0, <2>1, <2>2
<1>2. \A r \in Request :
        /\ requests'[r] \in RequestRow
        /\ \/ requests'[r].state = reqs[r].state
           \/ /\ reqs[r].state = "approved"
              /\ Concludes(charges', r)
              /\ requests'[r].state \in {"failed", "completed"}
  <2> TAKE r \in Request
  <2>1. requests' = Concluded(charges', reqs)
    BY DEF Finalize
  <2>2. CASE ~(reqs[r].state = "approved" /\ Concludes(charges', r))
    <3>1. requests'[r] = reqs[r]
      BY <2>1, <2>2 DEF Concluded
    <3> QED  BY <1>0, <3>1
  <2>3. CASE reqs[r].state = "approved" /\ Concludes(charges', r)
    <3> DEFINE s == IF HasCharge(charges', r, {"failed"}) THEN "failed" ELSE "completed"
    <3>1. requests'[r] = [reqs[r] EXCEPT !.state = s]
      BY <2>1, <2>3 DEF Concluded
    <3>2. s \in {"failed", "completed"}
      OBVIOUS
    <3> HIDE DEF s
    <3>3. [reqs[r] EXCEPT !.state = s] \in RequestRow /\ [reqs[r] EXCEPT !.state = s].state = s
      BY <1>0, <3>2, RequestRowState
    <3> QED  BY <2>3, <3>1, <3>2, <3>3
  <2> QED  BY <2>2, <2>3
<1>3. charges' \in [Invoice -> ChargeRow]
  BY <1>1 DEF Finalize, Swept
<1>4. requests' \in [Request -> RequestRow]
  BY <1>2 DEF Finalize, Concluded
<1>5. \A i \in Invoice : charges'[i].state # "none" => charges'[i].request \in Request
  BY <1>1 DEF TablesOK
<1>6. ASSUME NEW i \in Invoice, charges'[i].state \in Unsettled
      PROVE  requests'[charges'[i].request].state = "approved"
  <2>1. rows[i].state \in Unsettled /\ charges'[i].request = rows[i].request
    BY <1>1, <1>6 DEF Unsettled
  <2>2. rows[i].request \in Request /\ reqs[rows[i].request].state = "approved"
    BY <2>1 DEF TablesOK, Unsettled
  <2>3. HasCharge(charges', rows[i].request, Unsettled)
    BY <1>6, <2>1 DEF HasCharge, ChargesOf
  <2> QED  BY <1>2, <2>1, <2>2, <2>3 DEF Concludes
<1> QED  BY <1>1, <1>2, <1>3, <1>4, <1>5, <1>6 DEF TablesOK

\* A transaction that disturbs no submitted charge keeps the invariant.
LEMMA TransactionKeepsIInv ==
    ASSUME IInv, TablesOK(charges', requests'),
           \A i \in Invoice : Undisturbed(i),
           UNCHANGED <<time, visit, answers, walletVars>>
    PROVE  IInv'
<1> USE DEF IInv, time, walletVars
<1>1. Types'
  BY DEF Types
<1>2. LedgerMatchesWallet'
  BY DEF LedgerMatchesWallet, Undisturbed, InMotion
<1>3. VisitOK'
  <2> SUFFICES ASSUME NEW v \in visit
               PROVE  VisitKnows(v)'
    BY DEF VisitOK
  <2>1. v.invoice \in Invoice
    BY DEF Types
  <2>2. Undisturbed(v.invoice)
    BY <2>1
  <2> QED  BY <2>2 DEF VisitOK, VisitKnows, Undisturbed
<1>4. AnswersOK'
  BY DEF AnswersOK
<1> QED  BY <1>1, <1>2, <1>3, <1>4

-------------------------------------------------------------------------------
(* The actions *)

\* The ledger's own transactions disturb no submitted charge.
LEMMA SetRequestKeepsTables ==
    ASSUME Types, NEW r \in Request, NEW s \in RequestState, SetRequest(r, s),
           s = "approved" \/ ~HasCharge(charges, r, Unsettled)
    PROVE  TablesOK(charges', requests') /\ \A i \in Invoice : Undisturbed(i)
<1>1. charges' = charges
  BY DEF SetRequest
<1>2. requests' = [requests EXCEPT ![r].state = s]
  BY DEF SetRequest
<1>3. requests' \in [Request -> RequestRow]
  BY <1>2 DEF Types, TablesOK, RequestRow
<1>4. ASSUME NEW i \in Invoice, charges[i].state \in Unsettled
      PROVE  requests'[charges[i].request].state = "approved"
  <2>1. charges[i].request \in Request /\ requests[charges[i].request].state = "approved"
    BY <1>4 DEF Types, TablesOK, Unsettled
  <2>2. CASE charges[i].request = r
    <3>1. HasCharge(charges, r, Unsettled)
      BY <1>4, <2>2 DEF HasCharge, ChargesOf
    <3> QED  BY <1>2, <2>1, <2>2, <3>1 DEF Types, TablesOK
  <2>3. CASE charges[i].request # r
    BY <1>2, <2>1, <2>3 DEF Types, TablesOK
  <2> QED  BY <2>2, <2>3
<1> QED  BY <1>1, <1>3, <1>4 DEF Types, TablesOK, Undisturbed

\* A new charge gets an approved request.
LEMMA PrepareKeepsTables ==
    ASSUME Types, NEW c \in Charge, PrepareCharge(c)
    PROVE  TablesOK(charges', requests') /\ (\A i \in Invoice : Undisturbed(i)) /\ Kept
<1>1. c \in [invoice : Invoice, request : Request, segment : {0, 1}, limit : Nat]
  BY LedgerAssumption
<1> DEFINE row == [state |-> "prepared", request |-> c.request, segment |-> c.segment,
                   limit |-> c.limit, total |-> 0, day |-> 0]
<1>2. /\ charges[c.invoice].state = "none"
      /\ requests[c.request].state = "approved"
      /\ charges' = [charges EXCEPT ![c.invoice] = row]
      /\ requests' = requests
  BY DEF PrepareCharge, Approved
<1>3. row \in ChargeRow
  BY <1>1 DEF ChargeRow, ChargeState
<1>4. \A i \in Invoice : charges'[i] = IF i = c.invoice THEN row ELSE charges[i]
  BY <1>2 DEF Types, TablesOK
<1>5. charges' \in [Invoice -> ChargeRow]
  BY <1>2, <1>3 DEF Types, TablesOK
<1>6. row.state = "prepared" /\ row.request = c.request /\ c.request \in Request
  BY <1>1
<1> HIDE DEF row
<1>7. \A i \in Invoice : Undisturbed(i)
  BY <1>2, <1>4, <1>6 DEF Undisturbed
<1>8. Kept
  BY <1>2, <1>4 DEF Kept
<1>9. TablesOK(charges', requests')
  BY <1>2, <1>4, <1>5, <1>6 DEF Types, TablesOK
<1> QED  BY <1>7, <1>8, <1>9

\* A transaction that only finalizes.
LEMMA FinalizeKeepsTables ==
    ASSUME Types, FinalizeTerminalRequests
    PROVE  TablesOK(charges', requests') /\ (\A i \in Invoice : Undisturbed(i)) /\ Kept
<1>1. TablesOK(charges, requests) /\ Finalize(charges, requests)
  BY DEF FinalizeTerminalRequests, Types
<1> QED  BY <1>1, FinalizeTables DEF Undisturbed, Kept

\* fail_unsubmitted settles its own charge, if that was unsettled.
LEMMA FailUnsubmittedTables ==
    ASSUME Types, NEW i \in Invoice, FailUnsubmitted(i)
    PROVE  /\ TablesOK(charges', requests')
           /\ \A j \in Invoice \ {i} : Undisturbed(j)
           /\ Kept
           /\ charges'[i].state = IF charges[i].state \in Unsettled THEN "failed"
                                  ELSE charges[i].state
<1> DEFINE rows == IF charges[i].state \in Unsettled
                   THEN [charges EXCEPT ![i].state = "failed"] ELSE charges
<1>1. Finalize(rows, requests)
  BY DEF FailUnsubmitted
<1>2. \A j \in Invoice :
        /\ rows[j].request = charges[j].request
        /\ rows[j].state = IF j = i /\ charges[i].state \in Unsettled
                           THEN "failed" ELSE charges[j].state
  BY ChargeRowState DEF Types, TablesOK, ChargeState
<1>3. rows \in [Invoice -> ChargeRow]
  <2>1. [charges EXCEPT ![i] = [charges[i] EXCEPT !.state = "failed"]] \in [Invoice -> ChargeRow]
    BY ChargeRowState DEF Types, TablesOK, ChargeState
  <2> QED  BY <2>1 DEF Types, TablesOK
<1> HIDE DEF rows
<1>4. TablesOK(rows, requests)
  BY <1>2, <1>3 DEF Types, TablesOK, Unsettled
<1>5. /\ TablesOK(charges', requests')
      /\ \A j \in Invoice :
            \/ charges'[j] = rows[j]
            \/ rows[j].state = "prepared" /\ charges'[j].state = "failed"
      /\ \A j \in Invoice : charges'[j].request = rows[j].request
      /\ \A r \in Request : \/ requests'[r].state = requests[r].state
                            \/ requests'[r].state \in {"failed", "completed"}
  BY <1>1, <1>4, FinalizeTables
<1>6. Kept
  BY <1>2, <1>5 DEF Kept
<1> QED  BY <1>2, <1>5, <1>6 DEF Undisturbed, Unsettled

\* The row and the request that record an answer, before they are finalized.
LEMMA RecordedTables ==
    ASSUME Types, NEW i \in Invoice, NEW paid \in BOOLEAN, NEW total \in Nat, NEW day \in Nat,
           RecordPayment(i, paid, total, day)
    PROVE  \E rows, reqs :
            /\ Finalize(rows, reqs)
            /\ TablesOK(rows, reqs)
            /\ rows[i].state = IF paid THEN "succeeded" ELSE "failed"
            /\ rows[i].total = IF paid THEN total ELSE 0
            /\ rows[i].day = day
            /\ rows[i].request = charges[i].request
            /\ rows[i].limit = charges[i].limit
            /\ \A j \in Invoice \ {i} : rows[j] = charges[j]
            /\ \A r \in Request : /\ reqs[r].state = requests[r].state
                                  /\ reqs[r].spent = IF r = charges[i].request
                                                     THEN requests[r].spent + IF paid THEN total ELSE 0
                                                     ELSE requests[r].spent
<1> DEFINE debit == IF paid THEN total ELSE 0
           verdict == IF paid THEN "succeeded" ELSE "failed"
           row == [charges[i] EXCEPT !.state = verdict, !.total = debit, !.day = day]
           payer == charges[i].request
           rows == [charges EXCEPT ![i].state = verdict, ![i].total = debit, ![i].day = day]
           reqs == [requests EXCEPT ![payer].spent = @ + debit]
<1>1. charges[i].state \in Unsettled /\ Finalize(rows, reqs)
  BY DEF RecordPayment
<1>2. debit \in Nat /\ verdict \in {"succeeded", "failed"}
  OBVIOUS
<1> HIDE DEF debit, verdict
<1>3. charges[i] \in ChargeRow /\ payer \in Request /\ requests[payer] \in RequestRow
  BY <1>1 DEF Types, TablesOK, Unsettled
<1>4. /\ row \in ChargeRow /\ row.state = verdict /\ row.request = payer
      /\ row.total = debit /\ row.day = day /\ row.limit = charges[i].limit
  BY <1>2, <1>3 DEF ChargeRow, ChargeState
<1>5. rows = [charges EXCEPT ![i] = row]
  BY DEF Types, TablesOK
<1>6. /\ [requests[payer] EXCEPT !.spent = @ + debit] \in RequestRow
      /\ [requests[payer] EXCEPT !.spent = @ + debit].state = requests[payer].state
      /\ [requests[payer] EXCEPT !.spent = @ + debit].spent = requests[payer].spent + debit
  BY <1>2, <1>3 DEF RequestRow
<1>7. reqs = [requests EXCEPT ![payer] = [requests[payer] EXCEPT !.spent = @ + debit]]
  BY DEF Types, TablesOK
<1> HIDE DEF row, rows, reqs
<1>8. /\ rows \in [Invoice -> ChargeRow]
      /\ \A j \in Invoice : rows[j] = IF j = i THEN row ELSE charges[j]
  BY <1>4, <1>5 DEF Types, TablesOK
<1>9. /\ reqs \in [Request -> RequestRow]
      /\ \A r \in Request : /\ reqs[r].state = requests[r].state
                            /\ reqs[r].spent = IF r = payer THEN requests[r].spent + debit
                                               ELSE requests[r].spent
  BY <1>3, <1>6, <1>7 DEF Types, TablesOK
<1>10. TablesOK(rows, reqs)
  <2>1. \A j \in Invoice :
          /\ rows[j].state # "none" => rows[j].request \in Request
          /\ rows[j].state \in Unsettled =>
                 charges[j].state \in Unsettled /\ rows[j].request = charges[j].request
    BY <1>2, <1>3, <1>4, <1>8 DEF Types, TablesOK, Unsettled
  <2>2. \A j \in Invoice :
          charges[j].state \in Unsettled =>
              /\ charges[j].request \in Request
              /\ requests[charges[j].request].state = "approved"
    BY DEF Types, TablesOK, Unsettled
  <2> QED  BY <1>8, <1>9, <2>1, <2>2 DEF TablesOK
<1> WITNESS rows, reqs
<1>11. /\ rows[i].state = verdict /\ rows[i].total = debit /\ rows[i].day = day
       /\ rows[i].request = payer /\ rows[i].limit = charges[i].limit
       /\ \A j \in Invoice \ {i} : rows[j] = charges[j]
  BY <1>4, <1>8
<1> QED  BY <1>1, <1>9, <1>10, <1>11 DEF debit, verdict

\* The answer recorded settles its own charge.
LEMMA RecordPaymentTables ==
    ASSUME Types, NEW i \in Invoice, NEW paid \in BOOLEAN, NEW total \in Nat, NEW day \in Nat,
           RecordPayment(i, paid, total, day)
    PROVE  /\ charges[i].state \in Unsettled
           /\ TablesOK(charges', requests')
           /\ \A j \in Invoice \ {i} : Undisturbed(j)
           /\ Kept
           /\ charges'[i].state = IF paid THEN "succeeded" ELSE "failed"
<1>1. charges[i].state \in Unsettled
  BY DEF RecordPayment
<1>2. PICK rows, reqs :
        /\ Finalize(rows, reqs)
        /\ TablesOK(rows, reqs)
        /\ rows[i].state = IF paid THEN "succeeded" ELSE "failed"
        /\ rows[i].total = IF paid THEN total ELSE 0
        /\ rows[i].day = day
        /\ rows[i].request = charges[i].request
        /\ rows[i].limit = charges[i].limit
        /\ \A j \in Invoice \ {i} : rows[j] = charges[j]
        /\ \A r \in Request : /\ reqs[r].state = requests[r].state
                              /\ reqs[r].spent = IF r = charges[i].request
                                                 THEN requests[r].spent + IF paid THEN total ELSE 0
                                                 ELSE requests[r].spent
  BY RecordedTables
<1>3. /\ TablesOK(charges', requests')
      /\ \A j \in Invoice :
            \/ charges'[j] = rows[j]
            \/ rows[j].state = "prepared" /\ charges'[j].state = "failed"
      /\ \A j \in Invoice : charges'[j].request = rows[j].request
      /\ \A r \in Request : \/ requests'[r].state = reqs[r].state
                            \/ requests'[r].state \in {"failed", "completed"}
  BY <1>2, FinalizeTables
<1>4. Kept
  BY <1>2, <1>3 DEF Kept
<1> QED  BY <1>1, <1>2, <1>3, <1>4 DEF Undisturbed

\* A start: what may have been submitted is left alone.
LEMMA OpensKeepsTables ==
    ASSUME Types, Opens
    PROVE  TablesOK(charges', requests') /\ (\A i \in Invoice : Undisturbed(i)) /\ Kept
<1>1. CASE CloseAbandonedApprovals
  <2>1. charges' = charges
    BY <1>1 DEF CloseAbandonedApprovals
  <2>2. \A r \in Request :
          /\ requests'[r] \in RequestRow
          /\ HasCharge(charges, r, ChargeState) => requests'[r] = requests[r]
          /\ requests'[r].state \in {requests[r].state, "failed"}
    <3> TAKE r \in Request
    <3>1. requests'[r] = requests[r]
             \/ /\ ~HasCharge(charges, r, ChargeState)
                /\ requests'[r] = [requests[r] EXCEPT !.state = "failed"]
      BY <1>1 DEF CloseAbandonedApprovals
    <3>2. /\ requests[r] \in RequestRow
          /\ [requests[r] EXCEPT !.state = "failed"] \in RequestRow
          /\ [requests[r] EXCEPT !.state = "failed"].state = "failed"
      BY RequestRowState DEF Types, TablesOK, RequestState
    <3> QED  BY <3>1, <3>2
  <2>3. requests' \in [Request -> RequestRow]
    BY <1>1, <2>2 DEF CloseAbandonedApprovals
  <2>4. \A i \in Invoice : charges[i].state \in Unsettled =>
            HasCharge(charges, charges[i].request, ChargeState)
    BY DEF HasCharge, ChargesOf, Unsettled, ChargeState
  <2>5. Kept
    BY <2>1, <2>2 DEF Kept
  <2> QED  BY <2>1, <2>2, <2>3, <2>4, <2>5 DEF Types, TablesOK, Undisturbed, Unsettled
<1>2. CASE FailUnsubmittedInputCharges
  <2> DEFINE rows == [i \in Invoice |->
                IF UnsubmittedInputCharge(i) THEN [charges[i] EXCEPT !.state = "failed"]
                                             ELSE charges[i]]
  <2>1. Finalize(rows, requests)
    BY <1>2 DEF FailUnsubmittedInputCharges
  <2>2. \A i \in Invoice :
          /\ rows[i] \in ChargeRow
          /\ rows[i].request = charges[i].request
          /\ \/ rows[i].state = charges[i].state
             \/ charges[i].state = "prepared" /\ rows[i].state = "failed"
    BY ChargeRowState DEF UnsubmittedInputCharge, Types, TablesOK, ChargeState
  <2>3. rows \in [Invoice -> ChargeRow]
    BY <2>2
  <2> HIDE DEF rows
  <2>4. TablesOK(rows, requests)
    BY <2>2, <2>3 DEF Types, TablesOK, Unsettled
  <2>5. /\ TablesOK(charges', requests')
        /\ \A j \in Invoice :
            \/ charges'[j] = rows[j]
            \/ rows[j].state = "prepared" /\ charges'[j].state = "failed"
        /\ \A j \in Invoice : charges'[j].request = rows[j].request
        /\ \A r \in Request : \/ requests'[r].state = requests[r].state
                              \/ requests'[r].state \in {"failed", "completed"}
    BY <2>1, <2>4, FinalizeTables
  <2>6. Kept
    BY <2>2, <2>5 DEF Kept
  <2> QED  BY <2>2, <2>5, <2>6 DEF Undisturbed
<1>3. CASE FinalizeTerminalRequests
  BY <1>3, FinalizeKeepsTables
<1> QED  BY <1>1, <1>2, <1>3 DEF Opens

\* Requests that are not approved have no unsettled charge.
LEMMA OnlyApprovedUnsettled ==
    ASSUME Types, NEW r \in Request, requests[r].state # "approved"
    PROVE  ~HasCharge(charges, r, Unsettled)
<1> QED  BY DEF Types, TablesOK, HasCharge, ChargesOf, Unsettled

\* The actions of authorization, preparation and starts are transactions that
\* disturb no submitted charge.
LEMMA TransactionsKeepTables ==
    ASSUME Types,
           \/ \E r \in Request :
                \/ ReadsBalance(r) \/ Proposes(r) \/ Approves(r)
                \/ Cancels(r) \/ RevokesAuthorization(r) \/ Finishes(r)
           \/ \E c \in Charge : PreparesCharge(c)
           \/ Opens \/ Finalizes
    PROVE  /\ TablesOK(charges', requests')
           /\ \A i \in Invoice : Undisturbed(i)
           /\ UNCHANGED <<time, visit, answers, walletVars>>
<1>0. UNCHANGED <<time, visit, answers, walletVars>>
  BY DEF ReadsBalance, Proposes, Approves, Cancels, RevokesAuthorization, Finishes,
         PreparesCharge, Opens, Finalizes, serviceVars, walletVars
<1>1. ASSUME NEW r \in Request, ReadsBalance(r)
      PROVE  TablesOK(charges', requests') /\ \A i \in Invoice : Undisturbed(i)
  BY <1>1 DEF ReadsBalance, ledgerTables, Types, Undisturbed
<1>2. ASSUME NEW r \in Request,
             Proposes(r) \/ Approves(r) \/ Cancels(r) \/ RevokesAuthorization(r) \/ Finishes(r)
      PROVE  TablesOK(charges', requests') /\ \A i \in Invoice : Undisturbed(i)
  <2>1. ASSUME NEW states \in SUBSET ChargeState, Unsettled \subseteq states,
               ~HasCharge(charges, r, states)
        PROVE  ~HasCharge(charges, r, Unsettled)
    BY <2>1 DEF HasCharge, ChargesOf
  <2>2. /\ {"pending", "approved", "rejected", "failed", "completed"} \subseteq RequestState
        /\ Unsettled \subseteq ChargeState
    BY DEF RequestState, Unsettled, ChargeState
  <2>3. CASE Proposes(r)
    <3>1. SetRequest(r, "pending") /\ requests[r].state = "none"
      BY <2>3 DEF Proposes, Propose
    <3> QED  BY <2>2, <3>1, OnlyApprovedUnsettled, SetRequestKeepsTables
  <2>4. CASE Approves(r)
    <3>1. SetRequest(r, "approved")
      BY <2>4 DEF Approves, Approve
    <3> QED  BY <2>2, <3>1, SetRequestKeepsTables
  <2>5. CASE Cancels(r)
    <3>1. SetRequest(r, "rejected")
      BY <2>5 DEF Cancels, CancelUnstarted, Reject
    <3>2. CASE CancelUnstarted(r)
      BY <2>1, <2>2, <3>1, <3>2, SetRequestKeepsTables DEF CancelUnstarted
    <3>3. CASE Reject(r)
      <4>1. requests[r].state # "approved"
        BY <3>3 DEF Reject
      <4> QED  BY <2>2, <3>1, <4>1, OnlyApprovedUnsettled, SetRequestKeepsTables
    <3> QED  BY <2>5, <3>2, <3>3 DEF Cancels
  <2>6. CASE RevokesAuthorization(r)
    BY <2>2, <2>6, SetRequestKeepsTables DEF RevokesAuthorization, FailAuthorizationIfIdle, Idle
  <2>7. CASE Finishes(r)
    BY <2>2, <2>7, SetRequestKeepsTables DEF Finishes, Finish, Idle
  <2> QED  BY <1>2, <2>3, <2>4, <2>5, <2>6, <2>7
<1>3. ASSUME NEW c \in Charge, PreparesCharge(c)
      PROVE  TablesOK(charges', requests') /\ \A i \in Invoice : Undisturbed(i)
  BY <1>3, PrepareKeepsTables DEF PreparesCharge
<1>4. CASE Opens
  BY <1>0, <1>4, OpensKeepsTables DEF Opens
<1>5. CASE Finalizes
  BY <1>0, <1>5, FinalizeKeepsTables DEF Finalizes
<1> QED  BY <1>0, <1>1, <1>2, <1>3, <1>4, <1>5

\* So they keep the invariant.
LEMMA TransactionsKeepIInv ==
    ASSUME IInv,
           \/ \E r \in Request :
                \/ ReadsBalance(r) \/ Proposes(r) \/ Approves(r)
                \/ Cancels(r) \/ RevokesAuthorization(r) \/ Finishes(r)
           \/ \E c \in Charge : PreparesCharge(c)
           \/ Opens \/ Finalizes
    PROVE  IInv'
<1>1. Types
  BY DEF IInv
<1> QED  BY <1>1, TransactionsKeepTables, TransactionKeepsIInv

\* A charge is submitted.
LEMMA SubmissionTables ==
    ASSUME Types, NEW i \in Invoice, BeginSubmission(i)
    PROVE  /\ charges[i].state = "prepared" /\ requests' = requests
           /\ charges'[i].state = "pending" /\ charges'[i].request = charges[i].request
           /\ \A j \in Invoice \ {i} : charges'[j] = charges[j]
           /\ TablesOK(charges', requests')
<1> DEFINE row == [charges[i] EXCEPT !.state = "pending"]
<1>1. /\ charges[i].state = "prepared"
      /\ charges' = [charges EXCEPT ![i] = row]
      /\ requests' = requests
  BY DEF BeginSubmission, Types, TablesOK
<1>2. row \in ChargeRow /\ row.state = "pending" /\ row.request = charges[i].request
  BY ChargeRowState DEF Types, TablesOK, ChargeState
<1> HIDE DEF row
<1>3. /\ charges' \in [Invoice -> ChargeRow]
      /\ \A j \in Invoice : charges'[j] = IF j = i THEN row ELSE charges[j]
  BY <1>1, <1>2 DEF Types, TablesOK
<1>4. TablesOK(charges', requests')
  BY <1>1, <1>2, <1>3 DEF Types, TablesOK, Unsettled
<1> QED  BY <1>1, <1>2, <1>3, <1>4

\* A visit may fail its charge when no call can take effect any more.
LEMMA FailureKeepsIInv ==
    ASSUME IInv, NEW i \in Invoice, FailUnsubmitted(i), Leave,
           wire' \subseteq wire, wire \ wire' \subseteq {i},
           UNCHANGED <<time, answers, payments>>,
           charges[i].state # "failed" =>
               payments[i].status = "none" /\ (i \notin wire' \/ i \in expired)
    PROVE  IInv'
<1> USE DEF IInv, time
<1>1. /\ TablesOK(charges', requests')
      /\ \A j \in Invoice \ {i} : Undisturbed(j)
      /\ charges'[i].state = IF charges[i].state \in Unsettled THEN "failed"
                             ELSE charges[i].state
  BY FailUnsubmittedTables
<1>2. Types'
  BY <1>1 DEF Types, Leave
<1>3. LedgerMatchesWallet'
  BY <1>1 DEF LedgerMatchesWallet, Undisturbed, InMotion, Unsettled
<1>4. VisitOK' /\ AnswersOK'
  BY DEF VisitOK, AnswersOK, Leave
<1> QED  BY <1>2, <1>3, <1>4

\* A call may be made for a submitted charge.
Submitted(i) ==
    \/ charges[i].state = "pending"
    \/ payments[i].status # "none" /\ charges[i].state \notin {"none", "prepared"}

\* A step that touches no table and no payment.
LEMMA VisitKeepsIInv ==
    ASSUME IInv, UNCHANGED <<ledgerTables, time, payments>>,
           answers' \subseteq Invoice,
           \A i \in answers' \ answers : payments[i].status \in Terminal,
           wire' \subseteq Invoice,
           \A i \in wire' \ wire : Submitted(i),
           visit' \subseteq [invoice : Invoice, at : Place, first : BOOLEAN],
           \A v \in visit' \ visit : VisitKnows(v)
    PROVE  IInv'
<1> USE DEF IInv, ledgerTables, time
<1>1. Types'
  BY DEF Types
<1>2. LedgerMatchesWallet'
  BY DEF LedgerMatchesWallet, InMotion, Submitted
<1>3. VisitOK'
  <2>1. \A v \in visit' : VisitKnows(v)
    BY DEF VisitOK
  <2> QED  BY <2>1 DEF VisitOK, VisitKnows
<1>4. AnswersOK'
  BY DEF AnswersOK
<1> QED  BY <1>1, <1>2, <1>3, <1>4

\* The steps of a visit.
LEMMA VisitsKeepIInv ==
    ASSUME IInv, NEW v \in visit,
           \/ StartsSubmission(v) \/ LooksUp(v) \/ LookupFails(v) \/ EvaluatesMiss(v)
           \/ Pays(v) \/ Answered(v)
    PROVE  IInv'
<1>0. /\ Types /\ LedgerMatchesWallet /\ VisitOK
      /\ VisitKnows(v)
      /\ v \in [invoice : Invoice, at : Place, first : BOOLEAN]
      /\ v.invoice \in Invoice
      /\ \A at \in Place : /\ [v EXCEPT !.at = at] \in [invoice : Invoice, at : Place, first : BOOLEAN]
                           /\ [v EXCEPT !.at = at].at = at
                           /\ [v EXCEPT !.at = at].invoice = v.invoice
      /\ {"preparing", "looking", "missed", "paying", "calling"} \subseteq Place
  BY DEF IInv, Types, Place, VisitOK
<1>1. CASE StartsSubmission(v)
  <2>1. v.at = "preparing" /\ charges[v.invoice].state \in {"prepared", "failed"}
    BY <1>0, <1>1 DEF StartsSubmission, VisitOK, VisitKnows
  <2>2. UNCHANGED <<time, answers, wire, payments>>
    BY <1>1 DEF StartsSubmission, walletVars
  <2>3. CASE FailUnsubmitted(v.invoice) /\ Leave
    BY <1>0, <2>1, <2>2, <2>3, FailureKeepsIInv DEF LedgerMatchesWallet
  <2>4. CASE BeginSubmission(v.invoice) /\ Stay(v, "paying") /\ v.invoice \notin expired
    <3>1. /\ charges[v.invoice].state = "prepared" /\ requests' = requests
          /\ charges'[v.invoice].state = "pending"
          /\ charges'[v.invoice].request = charges[v.invoice].request
          /\ \A j \in Invoice \ {v.invoice} : charges'[j] = charges[j]
          /\ TablesOK(charges', requests')
      BY <1>0, <2>4, SubmissionTables
    <3>2. visit' = {[v EXCEPT !.at = "paying"]}
      BY <2>4 DEF Stay
    <3>3. Types'
      BY <1>0, <2>2, <3>1, <3>2 DEF Types, time
    <3>4. LedgerMatchesWallet'
      BY <1>0, <2>2, <3>1 DEF LedgerMatchesWallet, InMotion, time
    <3>5. VisitOK'
      BY <1>0, <3>1, <3>2 DEF VisitOK, VisitKnows
    <3> QED  BY <2>2, <3>3, <3>4, <3>5 DEF IInv, AnswersOK, time
  <2>5. CASE Leave /\ UNCHANGED ledgerTables
    BY <1>0, <2>2, <2>5, VisitKeepsIInv DEF Leave, Types
  <2> QED  BY <1>1, <2>3, <2>4, <2>5 DEF StartsSubmission
<1>2. CASE LooksUp(v)
  <2>1. /\ UNCHANGED <<ledgerTables, time, wire, payments>>
        /\ v.at = "looking"
    BY <1>2 DEF LooksUp, walletVars
  <2>2. CASE Leave
    BY <1>0, <1>2, <2>1, <2>2, VisitKeepsIInv DEF Leave, LooksUp, Types
  <2>3. CASE Stay(v, "missed") /\ UNCHANGED answers /\ payments[v.invoice].status = "none"
    <3>1. charges[v.invoice].state = "pending"
      BY <1>0, <2>1, <2>3 DEF VisitOK, VisitKnows, LedgerMatchesWallet
    <3>2. visit' = {[v EXCEPT !.at = "missed"]}
      BY <2>3 DEF Stay
    <3>3. VisitKnows([v EXCEPT !.at = "missed"])
      BY <1>0, <2>3, <3>1 DEF VisitKnows
    <3> QED  BY <1>0, <2>1, <2>3, <3>2, <3>3, VisitKeepsIInv DEF Types
  <2> QED  BY <1>2, <2>2, <2>3 DEF LooksUp
<1>3. CASE LookupFails(v)
  BY <1>0, <1>3, VisitKeepsIInv DEF LookupFails, Leave, walletVars, Types
<1>4. CASE EvaluatesMiss(v)
  <2>1. v.at = "missed" /\ UNCHANGED <<time, answers, wire, payments>>
    BY <1>4 DEF EvaluatesMiss, walletVars
  <2>2. CASE v.invoice \in expired /\ FailUnsubmitted(v.invoice) /\ Leave
    BY <1>0, <2>1, <2>2, FailureKeepsIInv DEF VisitOK, VisitKnows
  <2>3. CASE Stay(v, "paying") /\ UNCHANGED ledgerTables
    <3>1. visit' = {[v EXCEPT !.at = "paying"]}
      BY <2>3 DEF Stay
    <3> QED  BY <1>0, <2>1, <2>3, <3>1, VisitKeepsIInv DEF VisitOK, VisitKnows, Types
  <2> QED  BY <1>4, <2>2, <2>3 DEF EvaluatesMiss
<1>5. CASE Pays(v)
  <2>1. /\ v.at = "paying" /\ UNCHANGED <<ledgerTables, time, answers, payments>>
        /\ wire' = wire \cup {v.invoice}
        /\ visit' = {[v EXCEPT !.at = "calling"]}
    BY <1>5 DEF Pays, Stay
  <2>2. \/ charges[v.invoice].state = "pending"
        \/ /\ payments[v.invoice].status # "none"
           /\ charges[v.invoice].state \notin {"none", "prepared"}
    BY <1>0, <2>1 DEF VisitOK, VisitKnows, LedgerMatchesWallet
  <2> QED  BY <1>0, <2>1, <2>2, VisitKeepsIInv DEF VisitOK, VisitKnows, Submitted, Types
<1>6. CASE PayReturns(v)
  BY <1>0, <1>6, VisitKeepsIInv DEF PayReturns, Leave, walletVars, Types
<1>7. CASE PayUncertain(v)
  BY <1>0, <1>7, VisitKeepsIInv DEF PayUncertain, Leave, walletVars, Types
<1>8. CASE PayRefused(v)
  <2>1. UNCHANGED <<time, answers, payments>> /\ payments[v.invoice].status = "none" /\ Leave
    BY <1>8 DEF PayRefused
  <2>2. CASE v.first
    BY <1>0, <1>8, <2>1, <2>2, FailureKeepsIInv DEF PayRefused
  <2>3. CASE ~v.first
    BY <1>0, <1>8, <2>1, <2>3, VisitKeepsIInv DEF PayRefused, Leave, Types
  <2> QED  BY <2>2, <2>3
<1> QED  BY <1>1, <1>2, <1>3, <1>4, <1>5, <1>6, <1>7, <1>8 DEF Answered

\* The other actions of the service.
LEMMA TasksKeepIInv ==
    ASSUME IInv, NEW i \in Invoice, Enters(i) \/ WaitReturns(i) \/ Reconciles(i)
    PROVE  IInv'
<1>0. Types /\ LedgerMatchesWallet /\ VisitOK /\ AnswersOK
  BY DEF IInv
<1>1. CASE Enters(i)
  <2> DEFINE v == [invoice |-> i, first |-> charges[i].state = "prepared",
                   at |-> IF charges[i].state = "prepared" THEN "preparing" ELSE "looking"]
  <2>1. v \in [invoice : Invoice, at : Place, first : BOOLEAN] /\ visit' = {v}
    BY <1>1 DEF Enters, Place
  <2>2. VisitKnows(v)
    BY <1>1 DEF Enters, VisitKnows
  <2> QED  BY <1>0, <1>1, <2>1, <2>2, VisitKeepsIInv DEF Enters, walletVars, Types
<1>2. CASE WaitReturns(i)
  BY <1>0, <1>2, VisitKeepsIInv DEF WaitReturns, walletVars, Types
<1>3. CASE Reconciles(i)
  <2>1. PICK day \in Nat :
          RecordPayment(i, payments[i].status = "succeeded", payments[i].debit, day)
    BY <1>0, <1>3 DEF Reconciles, Types
  <2>2. UNCHANGED <<time, visit, answers, walletVars>> /\ payments[i].status \in Terminal
    BY <1>0, <1>3 DEF Reconciles, serviceVars, AnswersOK
  <2>3. payments[i].debit \in Nat /\ (payments[i].status = "succeeded") \in BOOLEAN
    BY <1>0 DEF Types
  <2>4. /\ charges[i].state \in Unsettled
        /\ TablesOK(charges', requests')
        /\ \A j \in Invoice \ {i} : Undisturbed(j)
        /\ charges'[i].state = IF payments[i].status = "succeeded" THEN "succeeded" ELSE "failed"
    BY <1>0, <2>1, <2>3, RecordPaymentTables
  <2>5. Types'
    BY <1>0, <2>2, <2>4 DEF Types, time, walletVars
  <2>6. LedgerMatchesWallet'
    BY <1>0, <2>2, <2>4
    DEF LedgerMatchesWallet, InMotion, Undisturbed, Terminal, Unsettled, time, walletVars
  <2>7. VisitOK'
    <3> SUFFICES ASSUME NEW v \in visit PROVE VisitKnows(v)'
      BY <2>2 DEF VisitOK
    <3>1. v.invoice \in Invoice /\ VisitKnows(v)
      BY <1>0 DEF Types, VisitOK
    <3>2. CASE v.invoice = i
      <4>1. payments[i].status # "none" /\ UNCHANGED <<payments, expired>>
        BY <2>2 DEF Terminal, time, walletVars
      <4>2. charges[i].state = "pending"
        BY <1>0, <2>4, <4>1 DEF LedgerMatchesWallet, Unsettled
      <4>3. v.at # "preparing" /\ ~(v.at = "missed" /\ v.invoice \in expired)
        BY <3>1, <3>2, <4>1, <4>2 DEF VisitKnows
      <4> QED  BY <3>2, <4>1, <4>3 DEF VisitKnows
    <3>3. CASE v.invoice # i
      BY <2>2, <2>4, <3>1, <3>3 DEF VisitKnows, Undisturbed, time, walletVars
    <3> QED  BY <3>2, <3>3
  <2>8. AnswersOK'
    BY <1>0, <2>2 DEF AnswersOK, walletVars
  <2> QED  BY <2>5, <2>6, <2>7, <2>8 DEF IInv
<1> QED  BY <1>1, <1>2, <1>3

\* A crash forgets visits and answers, and neither tables nor calls on the wire.
LEMMA CrashKeepsIInv ==
    ASSUME IInv, Crashes
    PROVE  IInv'
<1> QED  BY VisitKeepsIInv DEF Crashes, walletVars, IInv, Types

\* The wallet and the clock.  An invoice does not expire while its visit makes
\* up its mind about a lookup that found nothing.
LEMMA WalletKeepsIInv ==
    ASSUME IInv,
           \/ \E i \in Invoice :
                WalletTakes(i) \/ WalletDrops(i) \/ WalletSettles(i) \/ Expires(i)
           \/ NextDay
    PROVE  IInv'
<1>0. Types /\ LedgerMatchesWallet /\ VisitOK /\ AnswersOK /\ ~LookupsLinger
  BY DEF IInv
<1>1. ASSUME NEW i \in Invoice, WalletDrops(i)
      PROVE  IInv'
  BY <1>0, <1>1, VisitKeepsIInv DEF WalletDrops, serviceVars, Types
<1>2. ASSUME NEW i \in Invoice, NEW status \in {"pending"} \cup Terminal,
             NEW debit \in Nat, NEW day \in Nat,
             payments' = [payments EXCEPT ![i] = [status |-> status, debit |-> debit, day |-> day]],
             charges[i].state = "pending" \/ payments[i].status = status,
             payments[i].status \in {"none", "pending"},
             i \notin expired \/ payments[i].status = "pending",
             wire' \subseteq wire,
             UNCHANGED <<ledgerTables, time, serviceVars>>
      PROVE  IInv'
  <2> DEFINE payment == [status |-> status, debit |-> debit, day |-> day]
  <2>1. /\ payment \in [status : {"none", "pending"} \cup Terminal, debit : Nat, day : Nat]
        /\ payment.status = status
    OBVIOUS
  <2> HIDE DEF payment
  <2>2. \A j \in Invoice : payments'[j] = IF j = i THEN payment ELSE payments[j]
    BY <1>0, <1>2 DEF Types, payment
  <2>3. payments' \in [Invoice -> [status : {"none", "pending"} \cup Terminal,
                                   debit : Nat, day : Nat]]
    BY <1>0, <1>2, <2>1 DEF Types, payment
  <2>4. Types'
    BY <1>0, <1>2, <2>3 DEF Types, ledgerTables, time, serviceVars
  <2>5. LedgerMatchesWallet'
    BY <1>0, <1>2, <2>1, <2>2
    DEF LedgerMatchesWallet, InMotion, Terminal, ledgerTables, time
  <2>6. VisitOK'
    <3> SUFFICES ASSUME NEW v \in visit PROVE VisitKnows(v)'
      BY <1>2 DEF VisitOK, serviceVars
    <3>1. v.invoice \in Invoice /\ VisitKnows(v)
      BY <1>0 DEF Types, VisitOK
    <3> QED  BY <1>0, <1>2, <2>1, <2>2, <3>1 DEF VisitKnows, Terminal, ledgerTables, time
  <2>7. AnswersOK'
    BY <1>0, <1>2, <2>1, <2>2 DEF AnswersOK, Types, Terminal, serviceVars
  <2> QED  BY <1>0, <2>4, <2>5, <2>6, <2>7 DEF IInv
<1>3. ASSUME NEW i \in Invoice, WalletTakes(i)
      PROVE  IInv'
  <2>1. PICK debit \in Amount[i]..charges[i].limit :
          payments' = [payments EXCEPT ![i] = [status |-> "pending", debit |-> debit, day |-> 0]]
    BY <1>3 DEF WalletTakes
  <2>2. debit \in Nat
    BY <1>0, LedgerAssumption DEF Types, TablesOK, ChargeRow
  <2>3. /\ i \in wire /\ i \notin expired /\ payments[i].status = "none"
        /\ wire' \subseteq wire /\ UNCHANGED <<ledgerTables, time, serviceVars>>
    BY <1>3 DEF WalletTakes
  <2>4. charges[i].state = "pending"
    BY <1>0, <2>3 DEF LedgerMatchesWallet, InMotion
  <2> QED  BY <1>2, <2>1, <2>2, <2>3, <2>4
<1>4. ASSUME NEW i \in Invoice, WalletSettles(i)
      PROVE  IInv'
  <2>1. PICK status \in Terminal :
          payments' = [payments EXCEPT ![i].status = status, ![i].day = today]
    BY <1>4 DEF WalletSettles
  <2>2. payments[i] \in [status : {"none", "pending"} \cup Terminal, debit : Nat, day : Nat]
    BY <1>0 DEF Types
  <2> DEFINE payment == [status |-> status, debit |-> payments[i].debit, day |-> today]
  <2>3. payments' = [payments EXCEPT ![i] = payment]
    <3>1. [[payments[i] EXCEPT !.status = status] EXCEPT !.day = today] = payment
      <4> DEFINE old == payments[i]
                 mid == [old EXCEPT !.status = status]
      <4>1. mid = [status |-> status, debit |-> old.debit, day |-> old.day]
        <5> HIDE DEF old
        <5>1. old \in [status : {"none", "pending"} \cup Terminal, debit : Nat, day : Nat]
          BY <2>2 DEF old
        <5> QED  BY <5>1
      <4>2. [mid EXCEPT !.day = today] = [status |-> status, debit |-> old.debit, day |-> today]
        <5> HIDE DEF mid, old
        <5> QED  BY <4>1
      <4> QED  BY <4>2
    <3>2. /\ DOMAIN payments' = Invoice
          /\ \A j \in Invoice \ {i} : payments'[j] = payments[j]
          /\ payments'[i] = [[payments[i] EXCEPT !.status = status] EXCEPT !.day = today]
          /\ payments' = [j \in Invoice |-> payments'[j]]
      BY <1>0, <2>1 DEF Types
    <3> HIDE DEF payment
    <3> QED  BY <1>0, <3>1, <3>2 DEF Types
  <2>4. /\ payments[i].status = "pending" /\ payments[i].debit \in Nat /\ today \in Nat
        /\ wire' \subseteq wire /\ UNCHANGED <<ledgerTables, time, serviceVars>>
    BY <1>0, <1>4, <2>2 DEF WalletSettles, Types
  <2>5. charges[i].state = "pending"
    BY <1>0, <2>4 DEF LedgerMatchesWallet, InMotion
  <2> QED  BY <1>2, <2>3, <2>4, <2>5
<1>5. ASSUME NEW i \in Invoice, Expires(i)
      PROVE  IInv'
  <2>1. /\ expired' = expired \cup {i}
        /\ \A v \in visit : v.at # "missed" \/ v.invoice # i
        /\ UNCHANGED <<ledgerTables, today, serviceVars, walletVars>>
    BY <1>0, <1>5 DEF Expires
  <2>2. Types'
    BY <1>0, <2>1 DEF Types, ledgerTables, serviceVars, walletVars
  <2>3. LedgerMatchesWallet'
    BY <1>0, <2>1 DEF LedgerMatchesWallet, InMotion, ledgerTables, walletVars
  <2>4. VisitOK'
    <3> SUFFICES ASSUME NEW v \in visit PROVE VisitKnows(v)'
      BY <2>1 DEF VisitOK, serviceVars
    <3>1. VisitKnows(v)
      BY <1>0 DEF VisitOK
    <3> QED  BY <2>1, <3>1 DEF VisitKnows, ledgerTables, walletVars
  <2> QED  BY <1>0, <2>1, <2>2, <2>3, <2>4 DEF IInv, AnswersOK, serviceVars, walletVars
<1>6. CASE NextDay
  <2>1. /\ today' \in Nat
        /\ UNCHANGED <<ledgerTables, expired, serviceVars, walletVars>>
    BY <1>0, <1>6 DEF NextDay, Types
  <2> QED  BY <1>0, <2>1 DEF IInv, Types, LedgerMatchesWallet, InMotion, VisitOK, VisitKnows,
                             AnswersOK, ledgerTables, serviceVars, walletVars
<1> QED  BY <1>1, <1>3, <1>4, <1>5, <1>6

-------------------------------------------------------------------------------
(* The theorems *)

\* An empty ledger and a wallet without payments.
LEMMA InitTypes ==
    ASSUME Init
    PROVE  Types
<1> QED  BY LedgerAssumption
         DEF Init, LedgerInit, Types, TablesOK, RequestRow, RequestState, ChargeRow, ChargeState,
             NoCharge, NoPayment, Unsettled

\* Nothing is in motion.
LEMMA InitIInv ==
    ASSUME ~LookupsLinger, Init
    PROVE  IInv
<1> USE DEF Init, LedgerInit
<1>1. Types
  BY InitTypes
<1>2. LedgerMatchesWallet
  BY DEF LedgerMatchesWallet, InMotion, NoCharge, NoPayment
<1> QED  BY <1>1, <1>2 DEF IInv, VisitOK, AnswersOK

\* Every step of the service, the wallet and the clock keeps the invariant.
LEMMA NextIInv ==
    ASSUME IInv, [Next]_vars
    PROVE  IInv'
<1>1. CASE UNCHANGED vars
  BY <1>1, VisitKeepsIInv DEF vars, walletVars, serviceVars, IInv, Types
<1>2. CASE Next
  BY <1>2, TransactionsKeepIInv, VisitsKeepIInv, TasksKeepIInv, CrashKeepsIInv, WalletKeepsIInv
  DEF Next
<1> QED  BY <1>1, <1>2

\* start_or_observe_charge, pay_charge and reconcile: whatever crashes,
\* refusals, lost answers and concurrent tasks came before, money in motion has
\* a pending charge of a request still approved, so its reservation is held.
\* Assumed: no invoice expires between a lookup and its evaluation.
THEOREM MotionReserved == ~LookupsLinger /\ Spec => []MotionIsReserved
<1>1. ~LookupsLinger /\ Init => IInv
  BY InitIInv
<1>2. IInv /\ [Next]_vars => IInv'
  BY NextIInv
<1>3. IInv => MotionIsReserved
  BY DEF IInv, LedgerMatchesWallet, Types, TablesOK, MotionIsReserved, Approved, Unsettled
<1> QED  BY <1>1, <1>2, <1>3, PTL DEF Spec

-------------------------------------------------------------------------------
(* The books: what the ledger holds, spends and has left                   *)

InvoiceSum(f) == SumFunctionOnSet(f, Invoice)

\* What request r holds for its unsettled charges, and has paid.
HeldBy(rows, r) ==
    [i \in Invoice |->
        IF rows[i].request = r /\ rows[i].state \in Unsettled THEN rows[i].limit ELSE 0]

SpentBy(rows, r) ==
    [i \in Invoice |->
        IF rows[i].request = r /\ rows[i].state = "succeeded" THEN rows[i].total ELSE 0]

\* A request's spent is what its charges paid, and leaves room for what it holds.
BooksOK(rows, reqs) ==
    \A r \in Request :
        /\ reqs[r].spent = InvoiceSum(SpentBy(rows, r))
        /\ reqs[r].spent + InvoiceSum(HeldBy(rows, r)) <= Terms[r].cap

\* What a day has settled, and what approved requests have left to spend.
SettledOn(rows, day) ==
    [i \in Invoice |->
        IF rows[i].state = "succeeded" /\ rows[i].day = day THEN rows[i].total ELSE 0]

LeftOf(reqs) ==
    [r \in Request |->
        IF reqs[r].state = "approved" THEN Terms[r].cap - reqs[r].spent ELSE 0]

BudgetOK(rows, reqs, day) ==
    InvoiceSum(SettledOn(rows, day)) + SumFunctionOnSet(LeftOf(reqs), Request) <= Budget

\* The wallet pays no more than the charge allows, the ledger records what it
\* paid, and no earlier than it was paid.
AmountOK(i) ==
    /\ i \in Paying => payments[i].debit <= charges[i].limit
    /\ charges[i].state = "succeeded" =>
           /\ charges[i].total = payments[i].debit
           /\ payments[i].day <= charges[i].day
           /\ charges[i].day <= today
    /\ payments[i].status = "succeeded" => payments[i].day <= today

AmountsOK == \A i \in Invoice : AmountOK(i)

\* What the wallet paid on a day.
PaidOn(day) ==
    [i \in Invoice |->
        IF payments[i].status = "succeeded" /\ payments[i].day = day
        THEN payments[i].debit ELSE 0]

PastOK == \A day \in 0..today : day < today => InvoiceSum(PaidOn(day)) <= Budget

Books ==
    /\ IInv
    /\ BooksOK(charges, requests)
    /\ BudgetOK(charges, requests, today)
    /\ AmountsOK
    /\ PastOK

-------------------------------------------------------------------------------
(* Sums over tables                                                        *)

\* Amounts are natural numbers.
LEMMA AmountsAreNat ==
    ASSUME NEW rows, NEW reqs, TablesOK(rows, reqs)
    PROVE  /\ \A r : \A i \in Invoice :
                HeldBy(rows, r)[i] \in Nat /\ SpentBy(rows, r)[i] \in Nat
           /\ \A day : \A i \in Invoice : SettledOn(rows, day)[i] \in Nat
           /\ \A r \in Request : LeftOf(reqs)[r] \in Int
<1>1. \A i \in Invoice : rows[i].limit \in Nat /\ rows[i].total \in Nat
  BY DEF TablesOK, ChargeRow
<1>2. \A r \in Request : reqs[r].spent \in Nat /\ Terms[r].cap \in Nat
  BY LedgerAssumption DEF TablesOK, RequestRow
<1> QED  BY <1>1, <1>2 DEF HeldBy, SpentBy, SettledOn, LeftOf

\* So are their sums.
LEMMA BooksAreNat ==
    ASSUME NEW rows, NEW reqs, TablesOK(rows, reqs)
    PROVE  /\ \A r : InvoiceSum(HeldBy(rows, r)) \in Nat /\ InvoiceSum(SpentBy(rows, r)) \in Nat
           /\ \A day : InvoiceSum(SettledOn(rows, day)) \in Nat
           /\ SumFunctionOnSet(LeftOf(reqs), Request) \in Int
<1>1. IsFiniteSet(Invoice) /\ IsFiniteSet(Request)
  BY LedgerAssumption
<1>2. ASSUME NEW f, \A i \in Invoice : f[i] \in Nat
      PROVE  InvoiceSum(f) \in Nat
  BY <1>1, <1>2, SumIsNat DEF InvoiceSum
<1>3. \A r : InvoiceSum(HeldBy(rows, r)) \in Nat
  <2> TAKE r
  <2>1. \A i \in Invoice : HeldBy(rows, r)[i] \in Nat
    BY AmountsAreNat
  <2> QED BY <1>2, <2>1
<1>4. \A r : InvoiceSum(SpentBy(rows, r)) \in Nat
  <2> TAKE r
  <2>1. \A i \in Invoice : SpentBy(rows, r)[i] \in Nat
    BY AmountsAreNat
  <2> QED BY <1>2, <2>1
<1>5. \A day : InvoiceSum(SettledOn(rows, day)) \in Nat
  <2> TAKE day
  <2>1. \A i \in Invoice : SettledOn(rows, day)[i] \in Nat
    BY AmountsAreNat
  <2> QED BY <1>2, <2>1
<1>6. SumFunctionOnSet(LeftOf(reqs), Request) \in Int
  BY <1>1, AmountsAreNat, SumIsInt
<1> QED  BY <1>3, <1>4, <1>5, <1>6

-------------------------------------------------------------------------------
(* Transactions that spend nothing                                         *)

\* Charges keep their amounts, none is paid, none held anew, and no request is
\* approved.
Relaxed(rows, reqs, rows2, reqs2) ==
    /\ \A i \in Invoice :
        /\ rows2[i].request = rows[i].request
        /\ rows2[i].limit = rows[i].limit
        /\ rows2[i].total = rows[i].total
        /\ rows2[i].day = rows[i].day
        /\ rows2[i].state = "succeeded" <=> rows[i].state = "succeeded"
        /\ rows2[i].state \in Unsettled => rows[i].state \in Unsettled
    /\ \A r \in Request :
        /\ reqs2[r].spent = reqs[r].spent
        /\ reqs2[r].state = "approved" => reqs[r].state = "approved"

\* They keep the books.
LEMMA RelaxedBooks ==
    ASSUME NEW rows, NEW reqs, NEW rows2, NEW reqs2,
           TablesOK(rows, reqs), TablesOK(rows2, reqs2), Relaxed(rows, reqs, rows2, reqs2),
           BooksOK(rows, reqs), NEW day, BudgetOK(rows, reqs, day)
    PROVE  BooksOK(rows2, reqs2) /\ BudgetOK(rows2, reqs2, day)
<1>1. IsFiniteSet(Invoice) /\ IsFiniteSet(Request) /\ Budget \in Nat
      /\ \A r \in Request : Terms[r].cap \in Nat
  BY LedgerAssumption
<1>2. \A i \in Invoice : rows[i].limit \in Nat /\ rows[i].total \in Nat
  BY DEF TablesOK, ChargeRow
<1>3. ASSUME NEW r \in Request
      PROVE  /\ reqs2[r].spent = InvoiceSum(SpentBy(rows2, r))
             /\ reqs2[r].spent + InvoiceSum(HeldBy(rows2, r)) <= Terms[r].cap
  <2>1. InvoiceSum(SpentBy(rows2, r)) = InvoiceSum(SpentBy(rows, r))
    <3>1. \A i \in Invoice : SpentBy(rows2, r)[i] = SpentBy(rows, r)[i]
      BY DEF SpentBy, Relaxed
    <3> QED BY <1>1, <3>1, SumSame DEF InvoiceSum
  <2>2. InvoiceSum(HeldBy(rows2, r)) <= InvoiceSum(HeldBy(rows, r))
    <3>1. \A i \in Invoice : /\ HeldBy(rows2, r)[i] \in Int /\ HeldBy(rows, r)[i] \in Int
                             /\ HeldBy(rows2, r)[i] <= HeldBy(rows, r)[i]
      BY <1>2 DEF HeldBy, Relaxed
    <3> QED BY <1>1, <3>1, SumAtMost DEF InvoiceSum
  <2>3. InvoiceSum(HeldBy(rows2, r)) \in Nat /\ InvoiceSum(HeldBy(rows, r)) \in Nat
    BY BooksAreNat
  <2>4. reqs[r].spent \in Nat /\ reqs2[r].spent = reqs[r].spent /\ Terms[r].cap \in Nat
    BY <1>1 DEF TablesOK, RequestRow, Relaxed
  <2>5. /\ reqs[r].spent = InvoiceSum(SpentBy(rows, r))
        /\ reqs[r].spent + InvoiceSum(HeldBy(rows, r)) <= Terms[r].cap
    BY DEF BooksOK
  <2> QED BY <2>1, <2>2, <2>3, <2>4, <2>5
<1>4. InvoiceSum(SettledOn(rows2, day)) = InvoiceSum(SettledOn(rows, day))
  <2>1. \A i \in Invoice : SettledOn(rows2, day)[i] = SettledOn(rows, day)[i]
    BY DEF SettledOn, Relaxed
  <2> QED BY <1>1, <2>1, SumSame DEF InvoiceSum
<1>5. SumFunctionOnSet(LeftOf(reqs2), Request) <= SumFunctionOnSet(LeftOf(reqs), Request)
  <2>1. ASSUME NEW r \in Request
        PROVE  /\ LeftOf(reqs2)[r] \in Int /\ LeftOf(reqs)[r] \in Int
               /\ LeftOf(reqs2)[r] <= LeftOf(reqs)[r]
    <3>1. reqs[r].spent \in Nat /\ reqs2[r].spent = reqs[r].spent /\ Terms[r].cap \in Nat
      BY <1>1 DEF TablesOK, RequestRow, Relaxed
    <3>2. reqs[r].spent <= Terms[r].cap
      <4>1. InvoiceSum(HeldBy(rows, r)) \in Nat
        BY BooksAreNat
      <4>2. reqs[r].spent + InvoiceSum(HeldBy(rows, r)) <= Terms[r].cap
        BY DEF BooksOK
      <4> QED BY <3>1, <4>1, <4>2
    <3> QED BY <3>1, <3>2 DEF LeftOf, Relaxed
  <2> QED BY <1>1, <2>1, SumAtMost
<1>6. /\ InvoiceSum(SettledOn(rows, day)) \in Nat
      /\ SumFunctionOnSet(LeftOf(reqs2), Request) \in Int
      /\ SumFunctionOnSet(LeftOf(reqs), Request) \in Int
  BY BooksAreNat
<1>7. BudgetOK(rows2, reqs2, day)
  BY <1>1, <1>4, <1>5, <1>6 DEF BudgetOK
<1> QED  BY <1>3, <1>7 DEF BooksOK

\* Finalizing is one of them.
LEMMA FinalizeRelaxes ==
    ASSUME NEW rows, NEW reqs, TablesOK(rows, reqs), Finalize(rows, reqs)
    PROVE  TablesOK(charges', requests') /\ Relaxed(rows, reqs, charges', requests')
<1>1. TablesOK(charges', requests')
  BY FinalizeTables
<1>2. ASSUME NEW i \in Invoice
      PROVE  \/ charges'[i] = rows[i]
             \/ /\ rows[i].state = "prepared" /\ charges'[i].state = "failed"
                /\ charges'[i].request = rows[i].request
                /\ charges'[i].limit = rows[i].limit
                /\ charges'[i].total = rows[i].total
                /\ charges'[i].day = rows[i].day
  <2>1. \/ charges'[i] = rows[i]
        \/ rows[i].state = "prepared" /\ charges'[i] = [rows[i] EXCEPT !.state = "failed"]
    BY DEF Finalize, Swept
  <2>2. rows[i] \in ChargeRow
    BY DEF TablesOK
  <2>3. ASSUME NEW row \in ChargeRow, NEW row2, row2 = [row EXCEPT !.state = "failed"]
        PROVE  /\ row2.state = "failed" /\ row2.request = row.request /\ row2.limit = row.limit
               /\ row2.total = row.total /\ row2.day = row.day
    BY <2>3 DEF ChargeRow
  <2> QED  BY <2>1, <2>2, <2>3
<1>3. ASSUME NEW r \in Request
      PROVE  /\ requests'[r].spent = reqs[r].spent
             /\ requests'[r].state = "approved" => reqs[r].state = "approved"
  <2>1. \/ requests'[r] = reqs[r]
        \/ \E s \in {"failed", "completed"} : requests'[r] = [reqs[r] EXCEPT !.state = s]
    BY DEF Finalize, Concluded
  <2>2. reqs[r] \in RequestRow
    BY DEF TablesOK
  <2>3. ASSUME NEW row \in RequestRow, NEW s \in {"failed", "completed"},
               NEW row2, row2 = [row EXCEPT !.state = s]
        PROVE  row2.spent = row.spent /\ row2.state = s
    BY <2>3 DEF RequestRow
  <2> QED  BY <2>1, <2>2, <2>3
<1>4. ASSUME NEW i \in Invoice
      PROVE  /\ charges'[i].state = "succeeded" <=> rows[i].state = "succeeded"
             /\ charges'[i].state \in Unsettled => rows[i].state \in Unsettled
  BY <1>2 DEF Unsettled
<1> QED  BY <1>1, <1>2, <1>3, <1>4 DEF Relaxed

\* So is failing charges, alone or before finalizing.
LEMMA FailingRelaxes ==
    ASSUME Types, NEW gone \in SUBSET Invoice,
           \A i \in gone : charges[i].state \in Unsettled,
           NEW rows, rows = [i \in Invoice |-> IF i \in gone THEN [charges[i] EXCEPT !.state = "failed"]
                                               ELSE charges[i]]
    PROVE  TablesOK(rows, requests) /\ Relaxed(charges, requests, rows, requests)
<1>1. ASSUME NEW i \in Invoice
      PROVE  /\ rows[i] \in ChargeRow
             /\ \/ rows[i] = charges[i]
                \/ /\ charges[i].state \in Unsettled /\ rows[i].state = "failed"
                   /\ rows[i].request = charges[i].request
                   /\ rows[i].limit = charges[i].limit
                   /\ rows[i].total = charges[i].total
                   /\ rows[i].day = charges[i].day
  <2>1. charges[i] \in ChargeRow
    BY DEF Types, TablesOK
  <2>2. \/ rows[i] = charges[i]
        \/ charges[i].state \in Unsettled /\ rows[i] = [charges[i] EXCEPT !.state = "failed"]
    OBVIOUS
  <2>3. ASSUME NEW row \in ChargeRow, NEW row2, row2 = [row EXCEPT !.state = "failed"]
        PROVE  /\ row2 \in ChargeRow
               /\ row2.state = "failed" /\ row2.request = row.request /\ row2.limit = row.limit
               /\ row2.total = row.total /\ row2.day = row.day
    BY <2>3 DEF ChargeRow, ChargeState
  <2> QED  BY <2>1, <2>2, <2>3
<1>2. ASSUME NEW i \in Invoice
      PROVE  /\ rows[i].state = "succeeded" <=> charges[i].state = "succeeded"
             /\ rows[i].state \in Unsettled => charges[i].state \in Unsettled
             /\ rows[i].state # "none" => charges[i].state # "none"
             /\ rows[i].request = charges[i].request
  BY <1>1 DEF Unsettled
<1>3. Relaxed(charges, requests, rows, requests)
  BY <1>1, <1>2 DEF Relaxed
<1>4. rows \in [Invoice -> ChargeRow]
  BY <1>1
<1>5. TablesOK(rows, requests)
  BY <1>2, <1>4 DEF Types, TablesOK
<1> QED  BY <1>3, <1>5

\* One after the other.
LEMMA RelaxedTwice ==
    ASSUME NEW rows, NEW reqs, NEW rows2, NEW reqs2, NEW rows3, NEW reqs3,
           Relaxed(rows, reqs, rows2, reqs2), Relaxed(rows2, reqs2, rows3, reqs3)
    PROVE  Relaxed(rows, reqs, rows3, reqs3)
<1> QED  BY DEF Relaxed

\* Closing requests, if any, and nothing else.
LEMMA ClosingRelaxes ==
    ASSUME Types, UNCHANGED charges,
           \A r \in Request :
              \/ requests'[r] = requests[r]
              \/ \E s \in RequestState \ {"approved"} :
                    requests'[r] = [requests[r] EXCEPT !.state = s]
    PROVE  Relaxed(charges, requests, charges', requests')
<1>1. ASSUME NEW r \in Request
      PROVE  /\ requests'[r].spent = requests[r].spent
             /\ requests'[r].state = "approved" => requests[r].state = "approved"
  <2>1. requests[r] \in RequestRow
    BY DEF Types, TablesOK
  <2>2. ASSUME NEW row \in RequestRow, NEW s \in RequestState \ {"approved"},
               NEW row2, row2 = [row EXCEPT !.state = s]
        PROVE  row2.spent = row.spent /\ row2.state # "approved"
    BY <2>2 DEF RequestRow
  <2>3. CASE requests'[r] = requests[r]
    BY <2>3
  <2>4. CASE \E s \in RequestState \ {"approved"} : requests'[r] = [requests[r] EXCEPT !.state = s]
    <3>1. PICK s \in RequestState \ {"approved"} : requests'[r] = [requests[r] EXCEPT !.state = s]
      BY <2>4
    <3> QED  BY <2>1, <2>2, <3>1
  <2> QED  BY <2>3, <2>4
<1> QED  BY <1>1 DEF Relaxed

-------------------------------------------------------------------------------
(* Steps that touch no payment                                             *)

\* What remains when the tables are accounted for.
LEMMA TableStepKeepsBooks ==
    ASSUME Books, IInv', BooksOK(charges', requests'), BudgetOK(charges', requests', today),
           AmountsOK', UNCHANGED <<today, payments>>
    PROVE  Books'
<1>1. BooksOK(charges, requests)'
  OBVIOUS
<1>2. BudgetOK(charges, requests, today)'
  <2>1. today' = today
    OBVIOUS
  <2> QED  BY <2>1 DEF BudgetOK
<1>3. PastOK'
  BY DEF Books, PastOK, PaidOn, InvoiceSum
<1> QED  BY <1>1, <1>2, <1>3 DEF Books

\* Spending nothing keeps the books.
LEMMA RelaxingKeepsBooks ==
    ASSUME Books, IInv', Relaxed(charges, requests, charges', requests'),
           UNCHANGED <<today, payments>>
    PROVE  Books'
<1>1. TablesOK(charges, requests) /\ TablesOK(charges', requests')
  BY DEF Books, IInv, Types
<1>2. BooksOK(charges', requests') /\ BudgetOK(charges', requests', today)
  BY <1>1, RelaxedBooks DEF Books
<1>3. AmountsOK'
  BY DEF Books, AmountsOK, AmountOK, Relaxed, Paying
<1> QED  BY <1>2, <1>3, TableStepKeepsBooks

\* Reading and writing nothing is a case of it.
LEMMA UntouchedRelaxes ==
    ASSUME UNCHANGED ledgerTables
    PROVE  Relaxed(charges, requests, charges', requests')
<1> QED  BY DEF ledgerTables, Relaxed

\* fail_unsubmitted and its like.
LEMMA FailUnsubmittedRelaxes ==
    ASSUME Types, NEW i \in Invoice, FailUnsubmitted(i)
    PROVE  Relaxed(charges, requests, charges', requests')
<1> DEFINE gone == IF charges[i].state \in Unsettled THEN {i} ELSE {}
           rows == [j \in Invoice |-> IF j \in gone THEN [charges[j] EXCEPT !.state = "failed"]
                                      ELSE charges[j]]
<1>1. rows = IF charges[i].state \in Unsettled THEN [charges EXCEPT ![i].state = "failed"]
             ELSE charges
  <2>1. charges = [j \in Invoice |-> charges[j]]
    BY DEF Types, TablesOK
  <2> QED  BY <2>1
<1>2. Finalize(rows, requests)
  BY <1>1 DEF FailUnsubmitted
<1>3. gone \in SUBSET Invoice /\ \A j \in gone : charges[j].state \in Unsettled
  OBVIOUS
<1> HIDE DEF gone
<1>4. TablesOK(rows, requests) /\ Relaxed(charges, requests, rows, requests)
  BY <1>3, FailingRelaxes
<1> HIDE DEF rows
<1>5. Relaxed(rows, requests, charges', requests')
  BY <1>2, <1>4, FinalizeRelaxes
<1> QED  BY <1>4, <1>5, RelaxedTwice

\* A start spends nothing.
LEMMA OpensRelaxes ==
    ASSUME Types, Opens
    PROVE  Relaxed(charges, requests, charges', requests')
<1>1. CASE CloseAbandonedApprovals
  <2>1. "failed" \in RequestState \ {"approved"}
    BY DEF RequestState
  <2>2. \A r \in Request :
          requests'[r] = requests[r] \/ requests'[r] = [requests[r] EXCEPT !.state = "failed"]
    BY <1>1 DEF CloseAbandonedApprovals
  <2>3. charges' = charges
    BY <1>1 DEF CloseAbandonedApprovals
  <2> QED  BY <2>1, <2>2, <2>3, ClosingRelaxes
<1>2. CASE FailUnsubmittedInputCharges
  <2> DEFINE gone == {i \in Invoice : UnsubmittedInputCharge(i)}
             rows == [j \in Invoice |-> IF j \in gone THEN [charges[j] EXCEPT !.state = "failed"]
                                        ELSE charges[j]]
  <2>1. rows = [i \in Invoice |->
                IF UnsubmittedInputCharge(i) THEN [charges[i] EXCEPT !.state = "failed"]
                                             ELSE charges[i]]
    OBVIOUS
  <2>2. Finalize(rows, requests)
    BY <1>2, <2>1 DEF FailUnsubmittedInputCharges
  <2>3. gone \in SUBSET Invoice /\ \A j \in gone : charges[j].state \in Unsettled
    BY DEF UnsubmittedInputCharge, Unsettled
  <2> HIDE DEF gone
  <2>4. TablesOK(rows, requests) /\ Relaxed(charges, requests, rows, requests)
    BY <2>3, FailingRelaxes
  <2> HIDE DEF rows
  <2>5. Relaxed(rows, requests, charges', requests')
    BY <2>2, <2>4, FinalizeRelaxes
  <2> QED  BY <2>4, <2>5, RelaxedTwice
<1>3. CASE FinalizeTerminalRequests
  BY <1>3, FinalizeRelaxes DEF FinalizeTerminalRequests, Types
<1> QED  BY <1>1, <1>2, <1>3 DEF Opens

\* Submitting a prepared charge holds what it held.
LEMMA SubmissionRelaxes ==
    ASSUME Types, NEW i \in Invoice, BeginSubmission(i)
    PROVE  Relaxed(charges, requests, charges', requests')
<1>1. charges[i] \in ChargeRow /\ charges[i].state = "prepared"
  BY DEF Types, TablesOK, BeginSubmission
<1>2. charges'[i] = [charges[i] EXCEPT !.state = "pending"]
  BY DEF BeginSubmission, Types, TablesOK
<1>3. \A j \in Invoice \ {i} : charges'[j] = charges[j]
  BY DEF BeginSubmission, Types, TablesOK
<1>4. ASSUME NEW row \in ChargeRow, NEW row2, row2 = [row EXCEPT !.state = "pending"]
      PROVE  /\ row2.state = "pending" /\ row2.request = row.request /\ row2.limit = row.limit
             /\ row2.total = row.total /\ row2.day = row.day
  BY <1>4 DEF ChargeRow
<1>5. /\ charges'[i].state = "pending" /\ charges'[i].request = charges[i].request
      /\ charges'[i].limit = charges[i].limit
      /\ charges'[i].total = charges[i].total /\ charges'[i].day = charges[i].day
  BY <1>1, <1>2, <1>4
<1>6. requests' = requests
  BY DEF BeginSubmission
<1> QED  BY <1>1, <1>3, <1>5, <1>6 DEF Relaxed, Unsettled

\* A request's state changes, and it is not approved.
LEMMA SetRequestRelaxes ==
    ASSUME Types, NEW r \in Request, NEW s \in RequestState \ {"approved"}, SetRequest(r, s)
    PROVE  Relaxed(charges, requests, charges', requests')
<1>1. /\ charges' = charges
      /\ requests'[r] = [requests[r] EXCEPT !.state = s]
      /\ \A q \in Request \ {r} : requests'[q] = requests[q]
  BY DEF SetRequest, Types, TablesOK
<1> QED  BY <1>1, ClosingRelaxes

-------------------------------------------------------------------------------
(* Steps that spend                                                        *)

\* No request has spent more than its cap.
LEMMA SpentWithinCap ==
    ASSUME NEW rows, NEW reqs, TablesOK(rows, reqs), BooksOK(rows, reqs), NEW r \in Request
    PROVE  /\ reqs[r].spent \in Nat /\ Terms[r].cap \in Nat
           /\ reqs[r].spent <= Terms[r].cap
<1>1. reqs[r].spent \in Nat /\ Terms[r].cap \in Nat
  BY LedgerAssumption DEF TablesOK, RequestRow
<1>2. InvoiceSum(HeldBy(rows, r)) \in Nat
  BY BooksAreNat
<1>3. reqs[r].spent + InvoiceSum(HeldBy(rows, r)) <= Terms[r].cap
  BY DEF BooksOK
<1> QED  BY <1>1, <1>2, <1>3

\* What the queries of ledger.rs return.
LEMMA QueriesSum ==
    ASSUME TablesOK(charges, requests), BooksOK(charges, requests)
    PROVE  /\ Reserved = SumFunctionOnSet(LeftOf(requests), Request)
           /\ \A day : SpentOn(day) = InvoiceSum(SettledOn(charges, day))
           /\ \A r : Room(r) = Terms[r].cap - requests[r].spent - InvoiceSum(HeldBy(charges, r))
<1>1. IsFiniteSet(Invoice) /\ IsFiniteSet(Request)
  BY LedgerAssumption
<1>2. \A i \in Invoice : charges[i].limit \in Nat /\ charges[i].total \in Nat
  BY DEF TablesOK, ChargeRow
<1>3. Reserved = SumFunctionOnSet(LeftOf(requests), Request)
  <2> DEFINE T == {r \in Request : Approved(r) /\ Terms[r].cap > requests[r].spent}
             f == [r \in Request |-> Terms[r].cap - requests[r].spent]
  <2>1. \A r \in Request : /\ requests[r].spent \in Nat /\ Terms[r].cap \in Nat
                           /\ requests[r].spent <= Terms[r].cap
    BY SpentWithinCap
  <2>2. \A r \in T : f[r] \in Int /\ LeftOf(requests)[r] = f[r]
    BY <2>1 DEF LeftOf, Approved
  <2>3. \A r \in Request \ T : LeftOf(requests)[r] = 0
    BY <2>1 DEF LeftOf, Approved
  <2>4. T \in SUBSET Request /\ Reserved = SumFunctionOnSet(f, T)
    BY DEF Reserved
  <2> HIDE DEF T, f
  <2> QED  BY <1>1, <2>2, <2>3, <2>4, SumWhere
<1>4. ASSUME NEW day
      PROVE  SpentOn(day) = InvoiceSum(SettledOn(charges, day))
  <2> DEFINE T == {i \in Invoice : charges[i].state = "succeeded" /\ charges[i].day = day}
             f == [i \in Invoice |-> charges[i].total]
  <2>1. \A i \in T : f[i] \in Int /\ SettledOn(charges, day)[i] = f[i]
    BY <1>2 DEF SettledOn
  <2>2. \A i \in Invoice \ T : SettledOn(charges, day)[i] = 0
    BY DEF SettledOn
  <2>3. T \in SUBSET Invoice /\ SpentOn(day) = SumFunctionOnSet(f, T)
    BY DEF SpentOn
  <2> HIDE DEF T, f
  <2> QED  BY <1>1, <2>1, <2>2, <2>3, SumWhere DEF InvoiceSum
<1>5. ASSUME NEW r
      PROVE  Room(r) = Terms[r].cap - requests[r].spent - InvoiceSum(HeldBy(charges, r))
  <2> DEFINE T == ChargesOf(charges, r, Unsettled)
             f == [i \in Invoice |-> charges[i].limit]
  <2>1. \A i \in T : f[i] \in Int /\ HeldBy(charges, r)[i] = f[i]
    BY <1>2 DEF HeldBy, ChargesOf
  <2>2. \A i \in Invoice \ T : HeldBy(charges, r)[i] = 0
    BY DEF HeldBy, ChargesOf
  <2>3. T \in SUBSET Invoice
    BY DEF ChargesOf
  <2>4. Room(r) = Terms[r].cap - requests[r].spent - SumFunctionOnSet(f, T)
    BY DEF Room
  <2> HIDE DEF T, f
  <2>5. SumFunctionOnSet(f, T) = SumFunctionOnSet(HeldBy(charges, r), Invoice)
    BY <1>1, <2>1, <2>2, <2>3, SumWhere
  <2> QED  BY <2>4, <2>5 DEF InvoiceSum
<1> QED  BY <1>3, <1>4, <1>5

\* An approval reserves what fits the budget of the day.
LEMMA ApprovalKeepsBooks ==
    ASSUME Books, IInv', NEW r \in Request, Approves(r)
    PROVE  Books'
<1>1. /\ charges' = charges
      /\ requests' = [requests EXCEPT ![r].state = "approved"]
      /\ UNCHANGED <<today, payments, phase, crashes>>
      /\ quotes' = [quotes EXCEPT ![r] = {}]
      /\ requests[r].state = "pending"
      /\ Terms[r].cap <= Budget - SpentOn(today) - Reserved
  BY DEF Approves, Approve, SetRequest, Fits, time, walletVars
<1>2. /\ TablesOK(charges, requests) /\ BooksOK(charges, requests)
      /\ BudgetOK(charges, requests, today) /\ TablesOK(charges', requests')
  BY DEF Books, IInv, Types
<1>3. /\ requests'[r].spent = requests[r].spent /\ requests'[r].state = "approved"
      /\ \A q \in Request \ {r} : requests'[q] = requests[q]
  BY <1>1, <1>2 DEF TablesOK, RequestRow
<1>4. BooksOK(charges', requests')
  BY <1>1, <1>2, <1>3 DEF BooksOK
<1>5. /\ requests[r].spent \in Nat /\ Terms[r].cap \in Nat
      /\ requests[r].spent <= Terms[r].cap
  BY <1>2, SpentWithinCap
<1>6. SumFunctionOnSet(LeftOf(requests'), Request) =
          SumFunctionOnSet(LeftOf(requests), Request) + (Terms[r].cap - requests[r].spent)
  <2> DEFINE f == LeftOf(requests)
             g == LeftOf(requests')
  <2>1. \A q \in Request : f[q] \in Int /\ g[q] \in Int
    BY <1>2, AmountsAreNat
  <2>2. \A q \in Request \ {r} : g[q] = f[q]
    BY <1>3 DEF LeftOf
  <2>3. f[r] = 0 /\ g[r] = Terms[r].cap - requests[r].spent
    BY <1>1, <1>3 DEF LeftOf
  <2>4. SumFunctionOnSet(f, Request) \in Int
    BY <1>2, BooksAreNat
  <2> HIDE DEF f, g
  <2>5. SumFunctionOnSet(g, Request) = SumFunctionOnSet(f, Request) - f[r] + g[r]
    BY <2>1, <2>2, LedgerAssumption, SumUpdate
  <2>6. SumFunctionOnSet(g, Request)
            = SumFunctionOnSet(f, Request) + (Terms[r].cap - requests[r].spent)
    BY <1>5, <2>3, <2>4, <2>5
  <2> QED  BY <2>6 DEF f, g
<1>7. SpentOn(today) = InvoiceSum(SettledOn(charges, today))
      /\ Reserved = SumFunctionOnSet(LeftOf(requests), Request)
  BY <1>2, QueriesSum
<1>8. /\ InvoiceSum(SettledOn(charges, today)) \in Nat
      /\ SumFunctionOnSet(LeftOf(requests), Request) \in Int
      /\ Budget \in Nat
  BY <1>2, BooksAreNat, LedgerAssumption
<1>9. BudgetOK(charges', requests', today)
  BY <1>1, <1>5, <1>6, <1>7, <1>8 DEF BudgetOK
<1>10. AmountsOK'
  BY <1>1 DEF Books, AmountsOK, AmountOK, Paying
<1> QED  BY <1>1, <1>4, <1>9, <1>10, TableStepKeepsBooks

\* A new charge holds what the room allows.
LEMMA PreparingKeepsBooks ==
    ASSUME Books, IInv', NEW c \in Charge, PreparesCharge(c)
    PROVE  Books'
<1> DEFINE i == c.invoice
           q == c.request
           row == [state |-> "prepared", request |-> q, segment |-> c.segment,
                   limit |-> c.limit, total |-> 0, day |-> 0]
<1>1. i \in Invoice /\ q \in Request /\ c.limit \in Nat
  BY LedgerAssumption
<1>2. /\ charges[i].state = "none" /\ c.limit <= Room(q)
      /\ charges' = [charges EXCEPT ![i] = row]
      /\ requests' = requests
      /\ UNCHANGED <<today, payments, quotes, phase, crashes>>
  BY DEF PreparesCharge, PrepareCharge, time, serviceVars, walletVars
<1>3. /\ TablesOK(charges, requests) /\ TablesOK(charges', requests')
      /\ BooksOK(charges, requests) /\ BudgetOK(charges, requests, today)
  BY DEF Books, IInv, Types
<1>4. charges'[i] = row /\ \A j \in Invoice \ {i} : charges'[j] = charges[j]
  BY <1>1, <1>2, <1>3 DEF TablesOK
<1>5. /\ row.state = "prepared" /\ row.request = q /\ row.limit = c.limit
  OBVIOUS
<1> HIDE DEF row, i, q
<1>6. ASSUME NEW r \in Request
      PROVE  InvoiceSum(SpentBy(charges', r)) = InvoiceSum(SpentBy(charges, r))
  <2>1. \A j \in Invoice : SpentBy(charges', r)[j] = SpentBy(charges, r)[j]
    BY <1>1, <1>2, <1>4, <1>5 DEF SpentBy
  <2> QED  BY <2>1, SumSame, LedgerAssumption DEF InvoiceSum
<1>7. ASSUME NEW r \in Request, r # q
      PROVE  InvoiceSum(HeldBy(charges', r)) = InvoiceSum(HeldBy(charges, r))
  <2>1. \A j \in Invoice : HeldBy(charges', r)[j] = HeldBy(charges, r)[j]
    BY <1>1, <1>2, <1>4, <1>5, <1>7 DEF HeldBy, Unsettled
  <2> QED  BY <2>1, SumSame, LedgerAssumption DEF InvoiceSum
<1>8. InvoiceSum(HeldBy(charges', q)) = InvoiceSum(HeldBy(charges, q)) + c.limit
  <2> DEFINE f == HeldBy(charges, q)
             g == HeldBy(charges', q)
  <2>1. \A j \in Invoice : f[j] \in Int /\ g[j] \in Int
    <3>1. \A j \in Invoice : f[j] \in Nat
      BY <1>3, AmountsAreNat
    <3>2. \A j \in Invoice : g[j] \in Nat
      BY <1>3, AmountsAreNat
    <3> QED BY <3>1, <3>2
  <2>2. \A j \in Invoice \ {i} : g[j] = f[j]
    BY <1>4 DEF HeldBy
  <2>3. f[i] = 0 /\ g[i] = c.limit
    BY <1>1, <1>2, <1>4, <1>5 DEF HeldBy, Unsettled
  <2>4. InvoiceSum(f) \in Nat
    BY <1>3, BooksAreNat
  <2> HIDE DEF f, g
  <2>5. InvoiceSum(g) = InvoiceSum(f) - f[i] + g[i]
    BY <1>1, <2>1, <2>2, LedgerAssumption, SumUpdate DEF InvoiceSum
  <2>6. InvoiceSum(g) = InvoiceSum(f) + c.limit
    BY <1>1, <2>3, <2>4, <2>5
  <2> QED  BY <2>6 DEF f, g
<1>9. BooksOK(charges', requests')
  <2> SUFFICES ASSUME NEW r \in Request
               PROVE  /\ requests'[r].spent = InvoiceSum(SpentBy(charges', r))
                      /\ requests'[r].spent + InvoiceSum(HeldBy(charges', r)) <= Terms[r].cap
    BY DEF BooksOK
  <2>1. /\ requests[r].spent = InvoiceSum(SpentBy(charges, r))
        /\ requests[r].spent + InvoiceSum(HeldBy(charges, r)) <= Terms[r].cap
    BY <1>3 DEF BooksOK
  <2>2. requests[r].spent \in Nat /\ Terms[r].cap \in Nat
    BY <1>3, SpentWithinCap
  <2>3. InvoiceSum(HeldBy(charges, r)) \in Nat
    BY <1>3, BooksAreNat
  <2>4. Room(q) = Terms[q].cap - requests[q].spent - InvoiceSum(HeldBy(charges, q))
    BY <1>3, QueriesSum
  <2>5. CASE r # q
    BY <1>2, <1>6, <1>7, <2>1, <2>5
  <2>6. CASE r = q
    <3>1. requests[r].spent + (InvoiceSum(HeldBy(charges, r)) + c.limit) <= Terms[r].cap
      BY <1>1, <1>2, <2>2, <2>3, <2>4, <2>6
    <3>2. InvoiceSum(HeldBy(charges', r)) = InvoiceSum(HeldBy(charges, r)) + c.limit
      BY <1>8, <2>6
    <3> QED  BY <1>2, <1>6, <2>1, <3>1, <3>2
  <2> QED  BY <2>5, <2>6
<1>10. InvoiceSum(SettledOn(charges', today)) = InvoiceSum(SettledOn(charges, today))
  <2>1. \A j \in Invoice : SettledOn(charges', today)[j] = SettledOn(charges, today)[j]
    BY <1>1, <1>2, <1>4, <1>5 DEF SettledOn
  <2> QED  BY <2>1, SumSame, LedgerAssumption DEF InvoiceSum
<1>11. BudgetOK(charges', requests', today)
  BY <1>2, <1>3, <1>10 DEF BudgetOK
<1>12. AmountsOK'
  <2>1. payments[i].status = "none"
    BY <1>1, <1>2 DEF Books, IInv, LedgerMatchesWallet
  <2> QED  BY <1>1, <1>2, <1>4, <1>5, <2>1 DEF Books, AmountsOK, AmountOK, Paying
<1> QED  BY <1>2, <1>9, <1>11, <1>12, TableStepKeepsBooks

\* An answer recorded spends what its charge held.
LEMMA RecordingKeepsBooks ==
    ASSUME Books, IInv', NEW i \in Invoice, Reconciles(i)
    PROVE  Books'
<1>0. /\ Types /\ AmountsOK /\ AnswersOK /\ LedgerMatchesWallet
      /\ TablesOK(charges, requests) /\ TablesOK(charges', requests')
      /\ BooksOK(charges, requests) /\ BudgetOK(charges, requests, today)
  BY DEF Books, IInv, Types
<1> DEFINE paid == payments[i].status = "succeeded"
           total == payments[i].debit
           debit == IF paid THEN total ELSE 0
           p == charges[i].request
<1>1. total \in Nat /\ paid \in BOOLEAN /\ today \in Nat /\ payments[i].day \in Nat
  BY <1>0 DEF Types
<1>2. PICK day \in {payments[i].day, today} : RecordPayment(i, paid, total, day)
  BY DEF Reconciles
<1>3. /\ day \in Nat
      /\ i \in answers
      /\ UNCHANGED <<today, payments, quotes, phase, crashes>>
  BY <1>1 DEF Reconciles, time, serviceVars, walletVars
<1>4. paid => payments[i].day <= day /\ day <= today
  BY <1>0, <1>1, <1>2 DEF AmountsOK, AmountOK
<1>5. charges[i].state \in Unsettled
  BY <1>2 DEF RecordPayment
<1>6. p \in Request /\ requests[p].state = "approved"
  BY <1>0, <1>5 DEF TablesOK, Unsettled
<1>7. debit \in Nat /\ charges[i].limit \in Nat /\ debit <= charges[i].limit
  <2>1. charges[i].limit \in Nat
    BY <1>0 DEF TablesOK, ChargeRow
  <2>2. paid => total <= charges[i].limit
    BY <1>0 DEF AmountsOK, AmountOK, Paying
  <2> QED  BY <1>1, <2>1, <2>2
<1> HIDE DEF paid, total, p
<1>8. PICK rows, reqs :
        /\ Finalize(rows, reqs)
        /\ TablesOK(rows, reqs)
        /\ rows[i].state = IF paid THEN "succeeded" ELSE "failed"
        /\ rows[i].total = IF paid THEN total ELSE 0
        /\ rows[i].day = day
        /\ rows[i].request = charges[i].request
        /\ rows[i].limit = charges[i].limit
        /\ \A j \in Invoice \ {i} : rows[j] = charges[j]
        /\ \A r \in Request : /\ reqs[r].state = requests[r].state
                              /\ reqs[r].spent = IF r = charges[i].request
                                                 THEN requests[r].spent + IF paid THEN total ELSE 0
                                                 ELSE requests[r].spent
  BY <1>0, <1>1, <1>2, <1>3, RecordedTables
<1>9. Relaxed(rows, reqs, charges', requests')
  BY <1>8, FinalizeRelaxes
<1>10. /\ rows[i].state = (IF paid THEN "succeeded" ELSE "failed")
       /\ rows[i].total = debit /\ rows[i].day = day /\ rows[i].request = p
       /\ \A j \in Invoice \ {i} : rows[j] = charges[j]
       /\ \A r \in Request : reqs[r].state = requests[r].state
       /\ \A r \in Request \ {p} : reqs[r].spent = requests[r].spent
       /\ reqs[p].spent = requests[p].spent + debit
  BY <1>6, <1>8 DEF p
<1>11. charges[i].request = p
  BY DEF p
<1> HIDE DEF debit
<1>12. ASSUME NEW r \in Request, r # p
       PROVE  /\ InvoiceSum(SpentBy(rows, r)) = InvoiceSum(SpentBy(charges, r))
              /\ InvoiceSum(HeldBy(rows, r)) = InvoiceSum(HeldBy(charges, r))
  <2>1. \A j \in Invoice : SpentBy(rows, r)[j] = SpentBy(charges, r)[j]
    BY <1>10, <1>11, <1>12 DEF SpentBy
  <2>2. \A j \in Invoice : HeldBy(rows, r)[j] = HeldBy(charges, r)[j]
    BY <1>10, <1>11, <1>12 DEF HeldBy
  <2>3. SumFunctionOnSet(SpentBy(rows, r), Invoice) = SumFunctionOnSet(SpentBy(charges, r), Invoice)
    BY <2>1, SumSame, LedgerAssumption
  <2>4. SumFunctionOnSet(HeldBy(rows, r), Invoice) = SumFunctionOnSet(HeldBy(charges, r), Invoice)
    BY <2>2, SumSame, LedgerAssumption
  <2> QED  BY <2>3, <2>4 DEF InvoiceSum
<1>13. InvoiceSum(SpentBy(rows, p)) = InvoiceSum(SpentBy(charges, p)) + debit
  <2> DEFINE f == SpentBy(charges, p)
             g == SpentBy(rows, p)
  <2>1. \A j \in Invoice : f[j] \in Nat
    BY <1>0, AmountsAreNat
  <2>2. \A j \in Invoice : g[j] \in Nat
    BY <1>8, AmountsAreNat
  <2>3. \A j \in Invoice \ {i} : g[j] = f[j]
    BY <1>10 DEF SpentBy
  <2>4. f[i] = 0
    BY <1>5 DEF SpentBy, Unsettled
  <2>5. g[i] = debit
    BY <1>10 DEF SpentBy, debit
  <2>6. InvoiceSum(f) \in Nat
    BY <1>0, BooksAreNat
  <2> HIDE DEF f, g
  <2>7. \A j \in Invoice : f[j] \in Int /\ g[j] \in Int
    BY <2>1, <2>2
  <2>8. InvoiceSum(g) = InvoiceSum(f) - f[i] + g[i]
    BY <2>3, <2>7, LedgerAssumption, SumUpdate DEF InvoiceSum
  <2>9. InvoiceSum(g) = InvoiceSum(f) + debit
    BY <1>7, <2>4, <2>5, <2>6, <2>8
  <2> QED  BY <2>9 DEF f, g
<1>14. InvoiceSum(HeldBy(rows, p)) = InvoiceSum(HeldBy(charges, p)) - charges[i].limit
  <2> DEFINE f == HeldBy(charges, p)
             g == HeldBy(rows, p)
  <2>1. \A j \in Invoice : f[j] \in Nat
    BY <1>0, AmountsAreNat
  <2>2. \A j \in Invoice : g[j] \in Nat
    BY <1>8, AmountsAreNat
  <2>3. \A j \in Invoice \ {i} : g[j] = f[j]
    BY <1>10 DEF HeldBy
  <2>4. f[i] = charges[i].limit
    BY <1>5, <1>11 DEF HeldBy
  <2>5. g[i] = 0
    BY <1>10 DEF HeldBy, Unsettled
  <2>6. InvoiceSum(f) \in Nat
    BY <1>0, BooksAreNat
  <2> HIDE DEF f, g
  <2>7. \A j \in Invoice : f[j] \in Int /\ g[j] \in Int
    BY <2>1, <2>2
  <2>8. InvoiceSum(g) = InvoiceSum(f) - f[i] + g[i]
    BY <2>3, <2>7, LedgerAssumption, SumUpdate DEF InvoiceSum
  <2>9. InvoiceSum(g) = InvoiceSum(f) - charges[i].limit
    BY <1>7, <2>4, <2>5, <2>6, <2>8
  <2> QED  BY <2>9 DEF f, g
<1>15. BooksOK(rows, reqs)
  <2> SUFFICES ASSUME NEW r \in Request
               PROVE  /\ reqs[r].spent = InvoiceSum(SpentBy(rows, r))
                      /\ reqs[r].spent + InvoiceSum(HeldBy(rows, r)) <= Terms[r].cap
    BY DEF BooksOK
  <2>1. /\ requests[r].spent = InvoiceSum(SpentBy(charges, r))
        /\ requests[r].spent + InvoiceSum(HeldBy(charges, r)) <= Terms[r].cap
    BY <1>0 DEF BooksOK
  <2>2. requests[r].spent \in Nat /\ Terms[r].cap \in Nat
    BY <1>0, SpentWithinCap
  <2>3. InvoiceSum(HeldBy(charges, r)) \in Nat
    BY <1>0, BooksAreNat
  <2>4. CASE r # p
    BY <1>10, <1>12, <2>1, <2>4
  <2>5. CASE r = p
    <3>1. reqs[r].spent = requests[r].spent + debit
      BY <1>10, <2>5
    <3>2. InvoiceSum(HeldBy(rows, r)) = InvoiceSum(HeldBy(charges, r)) - charges[i].limit
      BY <1>14, <2>5
    <3>3. InvoiceSum(SpentBy(rows, r)) = InvoiceSum(SpentBy(charges, r)) + debit
      BY <1>13, <2>5
    <3>4. reqs[r].spent + InvoiceSum(HeldBy(rows, r)) <= Terms[r].cap
      BY <1>7, <2>1, <2>2, <2>3, <3>1, <3>2
    <3> QED  BY <2>1, <3>1, <3>3, <3>4
  <2> QED  BY <2>4, <2>5
<1>16. InvoiceSum(SettledOn(rows, today)) <= InvoiceSum(SettledOn(charges, today)) + debit
  <2> DEFINE f == SettledOn(charges, today)
             g == SettledOn(rows, today)
  <2>1. \A j \in Invoice : f[j] \in Nat
    BY <1>0, AmountsAreNat
  <2>2. \A j \in Invoice : g[j] \in Nat
    BY <1>8, AmountsAreNat
  <2>3. \A j \in Invoice \ {i} : g[j] = f[j]
    BY <1>10 DEF SettledOn
  <2>4. f[i] = 0
    BY <1>5 DEF SettledOn, Unsettled
  <2>5. g[i] <= debit
    BY <1>7, <1>10 DEF SettledOn
  <2>6. InvoiceSum(f) \in Nat
    BY <1>0, BooksAreNat
  <2> HIDE DEF f, g
  <2>7. \A j \in Invoice : f[j] \in Int /\ g[j] \in Int
    BY <2>1, <2>2
  <2>8. InvoiceSum(g) = InvoiceSum(f) - f[i] + g[i]
    BY <2>3, <2>7, LedgerAssumption, SumUpdate DEF InvoiceSum
  <2>9. g[i] \in Nat
    BY <2>2
  <2>10. InvoiceSum(g) <= InvoiceSum(f) + debit
    BY <1>7, <2>4, <2>5, <2>6, <2>8, <2>9
  <2> QED  BY <2>10 DEF f, g
<1>17. SumFunctionOnSet(LeftOf(reqs), Request) = SumFunctionOnSet(LeftOf(requests), Request) - debit
  <2> DEFINE f == LeftOf(requests)
             g == LeftOf(reqs)
  <2>1. \A r \in Request : f[r] \in Int
    BY <1>0, AmountsAreNat
  <2>2. \A r \in Request : g[r] \in Int
    BY <1>8, AmountsAreNat
  <2>3. \A r \in Request \ {p} : g[r] = f[r]
    BY <1>10 DEF LeftOf
  <2>4. f[p] = Terms[p].cap - requests[p].spent
    BY <1>6 DEF LeftOf
  <2>5. g[p] = Terms[p].cap - (requests[p].spent + debit)
    BY <1>6, <1>10 DEF LeftOf
  <2>6. SumFunctionOnSet(f, Request) \in Int
    BY <1>0, BooksAreNat
  <2>7. requests[p].spent \in Nat /\ Terms[p].cap \in Nat
    BY <1>0, <1>6, SpentWithinCap
  <2> HIDE DEF f, g
  <2>8. SumFunctionOnSet(g, Request) = SumFunctionOnSet(f, Request) - f[p] + g[p]
    BY <1>6, <2>1, <2>2, <2>3, LedgerAssumption, SumUpdate
  <2>9. SumFunctionOnSet(g, Request) = SumFunctionOnSet(f, Request) - debit
    BY <1>7, <2>4, <2>5, <2>6, <2>7, <2>8
  <2> QED  BY <2>9 DEF f, g
<1>18. BudgetOK(rows, reqs, today)
  <2>1. InvoiceSum(SettledOn(charges, today)) \in Nat
    BY <1>0, BooksAreNat
  <2>2. InvoiceSum(SettledOn(rows, today)) \in Nat
    BY <1>8, BooksAreNat
  <2>3. SumFunctionOnSet(LeftOf(requests), Request) \in Int
    BY <1>0, BooksAreNat
  <2>4. InvoiceSum(SettledOn(charges, today)) + SumFunctionOnSet(LeftOf(requests), Request) <= Budget
    BY <1>0 DEF BudgetOK
  <2>5. Budget \in Nat
    BY LedgerAssumption
  <2>6. InvoiceSum(SettledOn(rows, today)) + SumFunctionOnSet(LeftOf(reqs), Request) <= Budget
    BY <1>7, <1>16, <1>17, <2>1, <2>2, <2>3, <2>4, <2>5
  <2> QED  BY <2>6 DEF BudgetOK
<1>19. BooksOK(charges', requests') /\ BudgetOK(charges', requests', today)
  BY <1>0, <1>8, <1>9, <1>15, <1>18, RelaxedBooks
<1>20. AmountsOK'
  <2> SUFFICES ASSUME NEW j \in Invoice PROVE AmountOK(j)'
    BY DEF AmountsOK
  <2>1. /\ charges'[j].limit = rows[j].limit /\ charges'[j].total = rows[j].total
        /\ charges'[j].day = rows[j].day
        /\ charges'[j].state = "succeeded" <=> rows[j].state = "succeeded"
    BY <1>9 DEF Relaxed
  <2>2. AmountOK(j) /\ UNCHANGED <<payments, today>>
    BY <1>0, <1>3 DEF AmountsOK
  <2>3. CASE j # i
    <3>1. rows[j] = charges[j]
      BY <1>10, <2>3
    <3> QED  BY <2>1, <2>2, <3>1 DEF AmountOK, Paying
  <2>4. CASE j = i
    <3>1. rows[j].limit = charges[j].limit
      BY <1>8, <2>4
    <3>2. rows[j].state = "succeeded" => paid /\ rows[j].total = payments[j].debit
      BY <1>10, <2>4 DEF debit, total
    <3>3. rows[j].state = "succeeded" => payments[j].day <= rows[j].day /\ rows[j].day <= today
      BY <1>4, <1>10, <2>4, <3>2
    <3> QED  BY <2>1, <2>2, <3>1, <3>2, <3>3 DEF AmountOK, Paying
  <2> QED  BY <2>3, <2>4
<1> QED  BY <1>3, <1>19, <1>20, TableStepKeepsBooks

-------------------------------------------------------------------------------
(* The wallet and the clock                                                *)

\* What the wallet paid today is settled today, or held by approved requests.
LEMMA TodayWithinBudget ==
    ASSUME Books
    PROVE  InvoiceSum(PaidOn(today)) <= Budget
<1>0. /\ Types /\ LedgerMatchesWallet /\ AmountsOK
      /\ TablesOK(charges, requests) /\ BooksOK(charges, requests)
      /\ BudgetOK(charges, requests, today)
      /\ IsFiniteSet(Invoice) /\ IsFiniteSet(Request) /\ Budget \in Nat
  BY LedgerAssumption DEF Books, IInv, Types
<1> DEFINE settled == SettledOn(charges, today)
           held == [i \in Invoice |-> IF charges[i].state \in Unsettled THEN charges[i].limit ELSE 0]
           both == [i \in Invoice |-> settled[i] + held[i]]
           payer == [i \in Invoice |-> charges[i].request]
           left == LeftOf(requests)
           paid == PaidOn(today)
<1>1. \A i \in Invoice : /\ charges[i].limit \in Nat /\ charges[i].total \in Nat
                         /\ charges[i].day \in Nat /\ payments[i].debit \in Nat
                         /\ payments[i].day \in Nat /\ today \in Nat
  BY <1>0 DEF TablesOK, ChargeRow, Types
<1>2. \A i \in Invoice : settled[i] \in Nat /\ held[i] \in Nat /\ paid[i] \in Nat
  BY <1>1 DEF SettledOn, PaidOn
<1>3. \A i \in Invoice : paid[i] <= both[i]
  <2> SUFFICES ASSUME NEW i \in Invoice PROVE paid[i] <= settled[i] + held[i]
    OBVIOUS
  <2>1. CASE ~(payments[i].status = "succeeded" /\ payments[i].day = today)
    <3>1. paid[i] = 0
      BY <2>1 DEF PaidOn
    <3> HIDE DEF paid, settled, held
    <3> QED  BY <1>2, <3>1
  <2>2. CASE payments[i].status = "succeeded" /\ payments[i].day = today
    <3>1. paid[i] = payments[i].debit
      BY <2>2 DEF PaidOn
    <3>2. CASE charges[i].state = "succeeded"
      <4>1. charges[i].total = payments[i].debit /\ charges[i].day = today
        BY <1>0, <1>1, <2>2, <3>2 DEF AmountsOK, AmountOK
      <4>2. settled[i] = payments[i].debit
        BY <3>2, <4>1 DEF SettledOn
      <4> HIDE DEF paid, settled, held
      <4> QED  BY <1>2, <3>1, <4>2
    <3>3. CASE charges[i].state # "succeeded"
      <4>1. charges[i].state = "pending"
        BY <1>0, <2>2, <3>3 DEF LedgerMatchesWallet, InMotion
      <4>2. payments[i].debit <= charges[i].limit
        BY <1>0, <2>2 DEF AmountsOK, AmountOK, Paying
      <4>3. held[i] = charges[i].limit
        BY <4>1 DEF Unsettled
      <4> HIDE DEF paid, settled, held
      <4> QED  BY <1>1, <1>2, <3>1, <4>2, <4>3
    <3> QED  BY <3>2, <3>3
  <2> QED  BY <2>1, <2>2
<1>4. ASSUME NEW r \in Request
      PROVE  InvoiceSum([i \in Invoice |-> IF payer[i] = r THEN held[i] ELSE 0]) <= left[r]
  <2> DEFINE mine == [i \in Invoice |-> IF payer[i] = r THEN held[i] ELSE 0]
  <2> SUFFICES InvoiceSum(mine) <= left[r]
    OBVIOUS
  <2>1. \A i \in Invoice : mine[i] = HeldBy(charges, r)[i]
    BY DEF HeldBy
  <2>2. InvoiceSum(mine) = InvoiceSum(HeldBy(charges, r))
    <3> HIDE DEF mine
    <3> QED  BY <1>0, <2>1, SumSame DEF InvoiceSum
  <2>3. CASE requests[r].state = "approved"
    <3>1. requests[r].spent + InvoiceSum(HeldBy(charges, r)) <= Terms[r].cap
      BY <1>0 DEF BooksOK
    <3>2. InvoiceSum(HeldBy(charges, r)) \in Nat
      BY <1>0, BooksAreNat
    <3>3. requests[r].spent \in Nat /\ Terms[r].cap \in Nat
      BY <1>0, SpentWithinCap
    <3>4. left[r] = Terms[r].cap - requests[r].spent
      BY <2>3 DEF LeftOf
    <3> HIDE DEF left, mine
    <3> QED  BY <2>2, <3>1, <3>2, <3>3, <3>4
  <2>4. CASE requests[r].state # "approved"
    <3>1. \A i \in Invoice : HeldBy(charges, r)[i] = 0
      BY <1>0, <2>4 DEF HeldBy, TablesOK
    <3>2. InvoiceSum(HeldBy(charges, r)) = 0
      BY <1>0, <3>1, SumZero DEF InvoiceSum
    <3>3. left[r] = 0
      BY <2>4 DEF LeftOf
    <3> HIDE DEF left, mine
    <3> QED  BY <2>2, <3>2, <3>3
  <2> QED  BY <2>3, <2>4
<1>5. \A r \in Request : left[r] \in Int
  BY <1>0, AmountsAreNat
<1>6. \A i \in Invoice : payer[i] \in Request \/ held[i] = 0
  BY <1>0 DEF TablesOK, Unsettled
<1>7. \A i \in Invoice : both[i] = settled[i] + held[i]
  OBVIOUS
<1>8. InvoiceSum(settled) \in Nat /\ SumFunctionOnSet(left, Request) \in Int
  BY <1>0, BooksAreNat
<1>9. InvoiceSum(settled) + SumFunctionOnSet(left, Request) <= Budget
  BY <1>0 DEF BudgetOK
<1> HIDE DEF settled, held, both, payer, left, paid
<1>10. InvoiceSum(held) <= SumFunctionOnSet(left, Request)
  <2>1. \A i \in Invoice : held[i] \in Int /\ (payer[i] \in Request \/ held[i] = 0)
    BY <1>2, <1>6
  <2>2. \A r \in Request :
          SumFunctionOnSet([i \in Invoice |-> IF payer[i] = r THEN held[i] ELSE 0], Invoice) <= left[r]
    BY <1>4 DEF InvoiceSum
  <2> QED  BY <1>0, <1>5, <2>1, <2>2, SumGrouped DEF InvoiceSum
<1>11. InvoiceSum(both) = InvoiceSum(settled) + InvoiceSum(held)
  <2>1. \A i \in Invoice : settled[i] \in Int /\ held[i] \in Int /\ both[i] = settled[i] + held[i]
    BY <1>2, <1>7
  <2> QED  BY <1>0, <2>1, SumPlus DEF InvoiceSum
<1>12. InvoiceSum(paid) <= InvoiceSum(both)
  <2>1. \A i \in Invoice : paid[i] \in Int /\ both[i] \in Int /\ paid[i] <= both[i]
    BY <1>2, <1>3, <1>7
  <2> QED  BY <1>0, <2>1, SumAtMost DEF InvoiceSum
<1>13. InvoiceSum(paid) \in Nat /\ InvoiceSum(held) \in Nat
  <2>1. InvoiceSum(paid) \in Nat
    BY <1>0, <1>2, SumIsNat DEF InvoiceSum
  <2>2. InvoiceSum(held) \in Nat
    BY <1>0, <1>2, SumIsNat DEF InvoiceSum
  <2> QED  BY <2>1, <2>2
<1>14. InvoiceSum(paid) <= Budget
  BY <1>0, <1>8, <1>9, <1>10, <1>11, <1>12, <1>13
<1> QED  BY <1>14 DEF paid

\* The wallet takes up a call: no more than the charge allows, and it has.
LEMMA TakingKeepsBooks ==
    ASSUME Books, IInv', NEW i \in Invoice, WalletTakes(i)
    PROVE  Books'
<1>0. /\ Types /\ Types' /\ LedgerMatchesWallet /\ AmountsOK
      /\ BooksOK(charges, requests) /\ BudgetOK(charges, requests, today)
      /\ IsFiniteSet(Invoice)
  BY LedgerAssumption DEF Books, IInv
<1>1. PICK debit \in Amount[i]..charges[i].limit :
        payments' = [payments EXCEPT ![i] = [status |-> "pending", debit |-> debit, day |-> 0]]
  BY DEF WalletTakes
<1>2. /\ payments[i].status = "none" /\ i \in wire /\ i \notin expired
      /\ UNCHANGED <<charges, requests, today>>
  BY DEF WalletTakes, ledgerTables, time
<1>3. debit \in Nat /\ debit <= charges[i].limit
  BY <1>0, LedgerAssumption DEF Types, TablesOK, ChargeRow
<1>4. /\ payments'[i].status = "pending" /\ payments'[i].debit = debit
      /\ \A j \in Invoice \ {i} : payments'[j] = payments[j]
  BY <1>0, <1>1 DEF Types
<1>5. charges[i].state = "pending"
  BY <1>0, <1>2 DEF LedgerMatchesWallet, InMotion
<1>6. AmountsOK'
  <2> SUFFICES ASSUME NEW j \in Invoice PROVE AmountOK(j)'
    BY DEF AmountsOK
  <2>1. CASE j = i
    BY <1>2, <1>3, <1>4, <1>5, <2>1 DEF AmountOK, Paying
  <2>2. CASE j # i
    BY <1>0, <1>2, <1>4, <2>2 DEF AmountsOK, AmountOK, Paying
  <2> QED  BY <2>1, <2>2
<1>7. PastOK'
  <2> SUFFICES ASSUME NEW day \in 0..today, day < today PROVE InvoiceSum(PaidOn(day)') <= Budget
    BY <1>2 DEF PastOK, InvoiceSum
  <2>1. \A j \in Invoice : PaidOn(day)'[j] = PaidOn(day)[j]
    BY <1>2, <1>4 DEF PaidOn
  <2>2. InvoiceSum(PaidOn(day)') = InvoiceSum(PaidOn(day))
    BY <1>0, <2>1, SumSame DEF InvoiceSum
  <2> QED  BY <2>2 DEF Books, PastOK
<1>8. BooksOK(charges, requests)' /\ BudgetOK(charges, requests, today)'
  <2>1. charges' = charges /\ requests' = requests /\ today' = today
    BY <1>2
  <2>2. BooksOK(charges', requests') /\ BudgetOK(charges', requests', today')
    BY <1>0, <2>1
  <2> QED  BY <2>2
<1> QED  BY <1>6, <1>7, <1>8 DEF Books

\* A payment ends today, and no day before.
LEMMA SettlingKeepsBooks ==
    ASSUME Books, IInv', NEW i \in Invoice, WalletSettles(i)
    PROVE  Books'
<1>0. /\ Types /\ Types' /\ LedgerMatchesWallet /\ AmountsOK
      /\ BooksOK(charges, requests) /\ BudgetOK(charges, requests, today)
      /\ IsFiniteSet(Invoice)
  BY LedgerAssumption DEF Books, IInv
<1>1. PICK status \in Terminal :
        payments' = [payments EXCEPT ![i].status = status, ![i].day = today]
  BY DEF WalletSettles
<1>2. /\ payments[i].status = "pending"
      /\ UNCHANGED <<charges, requests, today>>
  BY DEF WalletSettles, ledgerTables, time
<1>3. payments[i] \in [status : {"none", "pending"} \cup Terminal, debit : Nat, day : Nat]
      /\ today \in Nat
  BY <1>0 DEF Types
<1>4. /\ payments'[i].debit = payments[i].debit /\ payments'[i].day = today
      /\ \A j \in Invoice \ {i} : payments'[j] = payments[j]
  BY <1>0, <1>1, <1>3 DEF Types
<1>5. charges[i].state = "pending"
  BY <1>0, <1>2 DEF LedgerMatchesWallet, InMotion
<1>6. AmountsOK'
  <2> SUFFICES ASSUME NEW j \in Invoice PROVE AmountOK(j)'
    BY DEF AmountsOK
  <2>1. CASE j = i
    <3>1. payments[i].debit <= charges[i].limit
      BY <1>0, <1>2 DEF AmountsOK, AmountOK, Paying
    <3> QED  BY <1>2, <1>3, <1>4, <1>5, <2>1, <3>1 DEF AmountOK, Paying
  <2>2. CASE j # i
    BY <1>0, <1>2, <1>4, <2>2 DEF AmountsOK, AmountOK, Paying
  <2> QED  BY <2>1, <2>2
<1>7. PastOK'
  <2> SUFFICES ASSUME NEW day \in 0..today, day < today PROVE InvoiceSum(PaidOn(day)') <= Budget
    BY <1>2 DEF PastOK, InvoiceSum
  <2>1. day # today
    BY <1>3
  <2>2. \A j \in Invoice : PaidOn(day)'[j] = PaidOn(day)[j]
    BY <1>2, <1>4, <2>1 DEF PaidOn
  <2>3. InvoiceSum(PaidOn(day)') = InvoiceSum(PaidOn(day))
    BY <1>0, <2>2, SumSame DEF InvoiceSum
  <2> QED  BY <2>3 DEF Books, PastOK
<1>8. BooksOK(charges, requests)' /\ BudgetOK(charges, requests, today)'
  <2>1. charges' = charges /\ requests' = requests /\ today' = today
    BY <1>2
  <2>2. BooksOK(charges', requests') /\ BudgetOK(charges', requests', today')
    BY <1>0, <2>1
  <2> QED  BY <2>2
<1> QED  BY <1>6, <1>7, <1>8 DEF Books

\* A day ends within its budget, and the next one starts with nothing settled.
LEMMA DaysKeepBooks ==
    ASSUME Books, IInv', NextDay
    PROVE  Books'
<1>0. /\ Types /\ AmountsOK /\ today \in Nat
      /\ TablesOK(charges, requests)
      /\ BooksOK(charges, requests) /\ BudgetOK(charges, requests, today)
      /\ IsFiniteSet(Invoice) /\ Budget \in Nat
  BY LedgerAssumption DEF Books, IInv, Types
<1>1. /\ today' = today + 1
      /\ charges' = charges /\ requests' = requests /\ payments' = payments
  BY DEF NextDay, ledgerTables, walletVars
<1>2. \A i \in Invoice : charges[i].day \in Nat /\ payments[i].day \in Nat
  BY <1>0 DEF TablesOK, ChargeRow, Types
<1>3. AmountsOK'
  BY <1>0, <1>1, <1>2 DEF AmountsOK, AmountOK, Paying
<1>4. PastOK'
  <2> SUFFICES ASSUME NEW day \in 0..today PROVE InvoiceSum(PaidOn(day)) <= Budget
    BY <1>0, <1>1 DEF PastOK, PaidOn, InvoiceSum
  <2>1. CASE day = today
    BY <2>1, TodayWithinBudget
  <2>2. CASE day < today
    BY <2>2 DEF Books, PastOK
  <2> QED  BY <1>0, <2>1, <2>2
<1>5. InvoiceSum(SettledOn(charges, today + 1)) = 0
  <2>1. \A i \in Invoice : SettledOn(charges, today + 1)[i] = 0
    BY <1>0, <1>2 DEF SettledOn, AmountsOK, AmountOK
  <2> QED  BY <1>0, <2>1, SumZero DEF InvoiceSum
<1>6. BudgetOK(charges, requests, today + 1)
  <2>1. InvoiceSum(SettledOn(charges, today)) \in Nat
    BY <1>0, BooksAreNat
  <2>2. SumFunctionOnSet(LeftOf(requests), Request) \in Int
    BY <1>0, BooksAreNat
  <2>3. InvoiceSum(SettledOn(charges, today)) + SumFunctionOnSet(LeftOf(requests), Request) <= Budget
    BY <1>0 DEF BudgetOK
  <2> QED  BY <1>0, <1>5, <2>1, <2>2, <2>3 DEF BudgetOK
<1>7. BooksOK(charges', requests') /\ BudgetOK(charges', requests', today')
  BY <1>0, <1>1, <1>6
<1> QED  BY <1>3, <1>4, <1>7 DEF Books

-------------------------------------------------------------------------------
(* The theorems about the books                                            *)

\* The other actions touch no payment and spend nothing.
LEMMA OthersRelax ==
    ASSUME Types,
           \/ \E r \in Request :
                ReadsBalance(r) \/ Proposes(r) \/ Cancels(r) \/ RevokesAuthorization(r) \/ Finishes(r)
           \/ \E i \in Invoice :
                Enters(i) \/ WaitReturns(i) \/ WalletDrops(i) \/ Expires(i)
           \/ \E v \in visit :
                \/ StartsSubmission(v) \/ LooksUp(v) \/ LookupFails(v) \/ EvaluatesMiss(v)
                \/ Pays(v) \/ Answered(v)
           \/ Crashes \/ Opens \/ Finalizes
           \/ UNCHANGED vars
    PROVE  Relaxed(charges, requests, charges', requests') /\ UNCHANGED <<today, payments>>
<1>1. UNCHANGED <<today, payments>>
  BY DEF ReadsBalance, Proposes, Cancels, RevokesAuthorization, Finishes, Enters, WaitReturns,
         WalletDrops, Expires, StartsSubmission, LooksUp, LookupFails, EvaluatesMiss, Pays,
         Answered, PayReturns, PayUncertain, PayRefused, Crashes, Opens, Finalizes,
         vars, time, walletVars
<1>2. ASSUME NEW r \in Request,
             Proposes(r) \/ Cancels(r) \/ RevokesAuthorization(r) \/ Finishes(r)
      PROVE  Relaxed(charges, requests, charges', requests')
  <2>1. \E s \in {"pending", "rejected", "failed", "completed"} : SetRequest(r, s)
    BY <1>2 DEF Proposes, Propose, Cancels, CancelUnstarted, Reject, RevokesAuthorization,
                FailAuthorizationIfIdle, Finishes, Finish
  <2>2. {"pending", "rejected", "failed", "completed"} \subseteq RequestState \ {"approved"}
    BY DEF RequestState
  <2> QED  BY <2>1, <2>2, SetRequestRelaxes
<1>3. ASSUME NEW v \in visit,
             \/ StartsSubmission(v) \/ LooksUp(v) \/ LookupFails(v) \/ EvaluatesMiss(v)
             \/ Pays(v) \/ Answered(v)
      PROVE  Relaxed(charges, requests, charges', requests')
  <2>1. v.invoice \in Invoice
    BY DEF Types
  <2>2. \/ UNCHANGED ledgerTables
        \/ FailUnsubmitted(v.invoice)
        \/ BeginSubmission(v.invoice)
    BY <1>3 DEF StartsSubmission, LooksUp, LookupFails, EvaluatesMiss, Pays, Answered,
                PayReturns, PayUncertain, PayRefused
  <2> QED  BY <2>1, <2>2, UntouchedRelaxes, FailUnsubmittedRelaxes, SubmissionRelaxes
<1>4. CASE Finalizes
  <2>1. TablesOK(charges, requests) /\ Finalize(charges, requests)
    BY <1>4 DEF Finalizes, FinalizeTerminalRequests, Types
  <2> QED  BY <1>1, <2>1, FinalizeRelaxes
<1>5. CASE \/ \E r \in Request : ReadsBalance(r)
           \/ \E i \in Invoice : Enters(i) \/ WaitReturns(i) \/ WalletDrops(i) \/ Expires(i)
           \/ Crashes \/ UNCHANGED vars
  <2>1. UNCHANGED ledgerTables
    BY <1>5 DEF ReadsBalance, Enters, WaitReturns, WalletDrops, Expires, Crashes, vars
  <2> QED  BY <1>1, <2>1, UntouchedRelaxes
<1> QED  BY <1>1, <1>2, <1>3, <1>4, <1>5, OpensRelaxes

\* Every step keeps the books.
LEMMA NextBooks ==
    ASSUME Books, [Next]_vars
    PROVE  Books'
<1>1. IInv'
  BY NextIInv DEF Books
<1>2. ASSUME NEW r \in Request, Approves(r) PROVE Books'
  BY <1>1, <1>2, ApprovalKeepsBooks
<1>3. ASSUME NEW c \in Charge, PreparesCharge(c) PROVE Books'
  BY <1>1, <1>3, PreparingKeepsBooks
<1>4. ASSUME NEW i \in Invoice, Reconciles(i) PROVE Books'
  BY <1>1, <1>4, RecordingKeepsBooks
<1>5. ASSUME NEW i \in Invoice, WalletTakes(i) PROVE Books'
  BY <1>1, <1>5, TakingKeepsBooks
<1>6. ASSUME NEW i \in Invoice, WalletSettles(i) PROVE Books'
  BY <1>1, <1>6, SettlingKeepsBooks
<1>7. CASE NextDay
  BY <1>1, <1>7, DaysKeepBooks
<1>8. ASSUME \/ \E r \in Request :
                ReadsBalance(r) \/ Proposes(r) \/ Cancels(r) \/ RevokesAuthorization(r) \/ Finishes(r)
             \/ \E i \in Invoice :
                Enters(i) \/ WaitReturns(i) \/ WalletDrops(i) \/ Expires(i)
             \/ \E v \in visit :
                \/ StartsSubmission(v) \/ LooksUp(v) \/ LookupFails(v) \/ EvaluatesMiss(v)
                \/ Pays(v) \/ Answered(v)
             \/ Crashes \/ Opens \/ Finalizes
             \/ UNCHANGED vars
      PROVE  Books'
  <2>1. Relaxed(charges, requests, charges', requests') /\ UNCHANGED <<today, payments>>
    BY <1>8, OthersRelax DEF Books, IInv
  <2> QED  BY <1>1, <2>1, RelaxingKeepsBooks
<1> QED  BY <1>2, <1>3, <1>4, <1>5, <1>6, <1>7, <1>8 DEF Next

\* Nothing is spent, held or paid at first.
LEMMA InitBooks ==
    ASSUME ~LookupsLinger, Init
    PROVE  Books
<1>0. /\ IInv /\ IsFiniteSet(Invoice) /\ IsFiniteSet(Request)
      /\ Budget \in Nat /\ \A r \in Request : Terms[r].cap \in Nat
  BY InitIInv, LedgerAssumption
<1> USE DEF Init, LedgerInit, NoCharge, NoPayment
<1>1. ASSUME NEW f, \A i \in Invoice : f[i] = 0
      PROVE  InvoiceSum(f) = 0
  BY <1>0, <1>1, SumZero DEF InvoiceSum
<1>2. \A i \in Invoice : charges[i].state = "none" /\ payments[i].status = "none"
  OBVIOUS
<1>3. \A r \in Request : requests[r].spent = 0 /\ requests[r].state = "none"
  OBVIOUS
<1>4. BooksOK(charges, requests)
  <2> SUFFICES ASSUME NEW r \in Request
               PROVE  /\ requests[r].spent = InvoiceSum(SpentBy(charges, r))
                      /\ requests[r].spent + InvoiceSum(HeldBy(charges, r)) <= Terms[r].cap
    BY DEF BooksOK
  <2>1. InvoiceSum(SpentBy(charges, r)) = 0
    <3>1. \A i \in Invoice : SpentBy(charges, r)[i] = 0
      BY <1>2 DEF SpentBy
    <3> QED  BY <1>1, <3>1
  <2>2. InvoiceSum(HeldBy(charges, r)) = 0
    <3>1. \A i \in Invoice : HeldBy(charges, r)[i] = 0
      BY <1>2 DEF HeldBy, Unsettled
    <3> QED  BY <1>1, <3>1
  <2> QED  BY <1>0, <1>3, <2>1, <2>2
<1>5. BudgetOK(charges, requests, today)
  <2>1. InvoiceSum(SettledOn(charges, today)) = 0
    <3>1. \A i \in Invoice : SettledOn(charges, today)[i] = 0
      BY <1>2 DEF SettledOn
    <3> QED  BY <1>1, <3>1
  <2>2. SumFunctionOnSet(LeftOf(requests), Request) = 0
    <3>1. \A r \in Request : LeftOf(requests)[r] = 0
      BY <1>3 DEF LeftOf
    <3> QED  BY <1>0, <3>1, SumZero
  <2> QED  BY <1>0, <2>1, <2>2 DEF BudgetOK
<1>6. AmountsOK
  BY <1>2 DEF AmountsOK, AmountOK, Paying
<1>7. PastOK
  BY DEF PastOK
<1> QED  BY <1>0, <1>4, <1>5, <1>6, <1>7 DEF Books

\* What a request's payments take is what it has spent, or holds.
LEMMA BooksCapPayments ==
    ASSUME Books, NEW r \in Request
    PROVE  SumFunctionOnSet(Debit, {i \in Paying : charges[i].request = r}) <= Terms[r].cap
<1>0. /\ Types /\ LedgerMatchesWallet /\ AmountsOK
      /\ TablesOK(charges, requests) /\ BooksOK(charges, requests) /\ IsFiniteSet(Invoice)
  BY LedgerAssumption DEF Books, IInv, Types
<1> DEFINE T == {i \in Paying : charges[i].request = r}
           paid == [i \in Invoice |-> IF i \in T THEN payments[i].debit ELSE 0]
           spent == SpentBy(charges, r)
           held == HeldBy(charges, r)
           both == [i \in Invoice |-> spent[i] + held[i]]
<1>1. \A i \in Invoice : payments[i].debit \in Nat /\ spent[i] \in Nat /\ held[i] \in Nat
  BY <1>0, AmountsAreNat DEF Types
<1>2. T \in SUBSET Invoice
  BY DEF Paying
<1>3. \A i \in T : Debit[i] \in Int /\ paid[i] = Debit[i]
  BY <1>1, <1>2 DEF Debit
<1>4. \A i \in Invoice \ T : paid[i] = 0
  OBVIOUS
<1>5. \A i \in Invoice : paid[i] <= both[i]
  <2> SUFFICES ASSUME NEW i \in T PROVE payments[i].debit <= spent[i] + held[i]
    BY <1>1
  <2>1. /\ i \in Invoice /\ charges[i].request = r
        /\ payments[i].debit \in Nat /\ payments[i].debit <= charges[i].limit
    BY <1>0, <1>1, <1>2 DEF AmountsOK, AmountOK
  <2>2. CASE charges[i].state = "succeeded"
    <3>1. spent[i] = payments[i].debit
      BY <1>0, <2>1, <2>2 DEF SpentBy, AmountsOK, AmountOK
    <3> HIDE DEF spent, held
    <3> QED  BY <1>1, <2>1, <3>1
  <2>3. CASE charges[i].state # "succeeded"
    <3>1. charges[i].state = "pending"
      BY <1>0, <2>1, <2>3 DEF LedgerMatchesWallet, InMotion, Paying
    <3>2. held[i] = charges[i].limit
      BY <2>1, <3>1 DEF HeldBy, Unsettled
    <3> HIDE DEF spent, held
    <3> QED  BY <1>1, <2>1, <3>2
  <2> QED  BY <2>2, <2>3
<1>6. \A i \in Invoice : both[i] = spent[i] + held[i]
  OBVIOUS
<1>7. /\ requests[r].spent = InvoiceSum(spent)
      /\ requests[r].spent + InvoiceSum(held) <= Terms[r].cap
  BY <1>0 DEF BooksOK
<1>8. InvoiceSum(spent) \in Nat /\ InvoiceSum(held) \in Nat /\ Terms[r].cap \in Nat
  BY <1>0, BooksAreNat, LedgerAssumption
<1>9. \A i \in Invoice : paid[i] \in Nat
  BY <1>1
<1> SUFFICES SumFunctionOnSet(Debit, T) <= Terms[r].cap
  OBVIOUS
<1> HIDE DEF T, paid, spent, held, both
<1>10. SumFunctionOnSet(Debit, T) = InvoiceSum(paid)
  BY <1>0, <1>2, <1>3, <1>4, SumWhere DEF InvoiceSum
<1>11. InvoiceSum(both) = InvoiceSum(spent) + InvoiceSum(held)
  <2>1. \A i \in Invoice : spent[i] \in Int /\ held[i] \in Int /\ both[i] = spent[i] + held[i]
    BY <1>1, <1>6
  <2> QED  BY <1>0, <2>1, SumPlus DEF InvoiceSum
<1>12. InvoiceSum(paid) <= InvoiceSum(both)
  <2>1. \A i \in Invoice : paid[i] \in Int /\ both[i] \in Int /\ paid[i] <= both[i]
    BY <1>1, <1>5, <1>6, <1>9
  <2> QED  BY <1>0, <2>1, SumAtMost DEF InvoiceSum
<1>13. InvoiceSum(paid) \in Nat
  BY <1>0, <1>9, SumIsNat DEF InvoiceSum
<1> QED  BY <1>7, <1>8, <1>10, <1>11, <1>12, <1>13

\* prepare_charge and reconcile: whatever crashes, lost answers and concurrent
\* tasks came before, the wallet never parts with more for a request than the
\* cap it was approved with.
\* Assumed: no invoice expires between a lookup and its evaluation.
THEOREM PaymentsWithinCap == ~LookupsLinger /\ Spec => []PaidWithinCap
<1>1. ~LookupsLinger /\ Init => Books
  BY InitBooks
<1>2. Books /\ [Next]_vars => Books'
  BY NextBooks
<1>3. Books => PaidWithinCap
  BY BooksCapPayments DEF PaidWithinCap
<1> QED  BY <1>1, <1>2, <1>3, PTL DEF Spec

\* What the wallet paid on a day, as a sum over all invoices.
LEMMA DaySum ==
    ASSUME Types, NEW day
    PROVE  SumFunctionOnSet(Debit, {i \in Invoice : /\ payments[i].status = "succeeded"
                                                    /\ payments[i].day = day})
               = InvoiceSum(PaidOn(day))
<1> DEFINE T == {i \in Invoice : payments[i].status = "succeeded" /\ payments[i].day = day}
<1>1. \A i \in T : Debit[i] \in Int /\ PaidOn(day)[i] = Debit[i]
  BY DEF Types, Debit, PaidOn
<1>2. \A i \in Invoice \ T : PaidOn(day)[i] = 0
  BY DEF PaidOn
<1>3. T \in SUBSET Invoice /\ IsFiniteSet(Invoice)
  BY LedgerAssumption
<1> SUFFICES SumFunctionOnSet(Debit, T) = InvoiceSum(PaidOn(day))
  OBVIOUS
<1> HIDE DEF T
<1> QED  BY <1>1, <1>2, <1>3, SumWhere DEF InvoiceSum

\* approve: what the wallet pays on a day stays within the daily budget, also
\* when it was approved a day before or is recorded a day after.
\* Assumed: no invoice expires between a lookup and its evaluation.
THEOREM BudgetHolds == ~LookupsLinger /\ Spec => []DailyBudgetHeld
<1>1. ~LookupsLinger /\ Init => Books
  BY InitBooks
<1>2. Books /\ [Next]_vars => Books'
  BY NextBooks
<1>3. ASSUME Books PROVE DailyBudgetHeld
  <2>1. ASSUME NEW day \in 0..today
        PROVE  InvoiceSum(PaidOn(day)) <= Budget
    <3>1. CASE day = today
      BY <3>1, TodayWithinBudget, <1>3
    <3>2. CASE day < today
      BY <1>3, <3>2 DEF Books, PastOK
    <3>3. today \in Nat
      BY <1>3 DEF Books, IInv, Types
    <3> QED  BY <3>1, <3>2, <3>3
  <2>2. Types
    BY <1>3 DEF Books, IInv
  <2> QED  BY <2>1, <2>2, DaySum DEF DailyBudgetHeld
<1> QED  BY <1>1, <1>2, <1>3, PTL DEF Spec

-------------------------------------------------------------------------------
(* Types, also when invoices expire at any time                            *)

Parting == [i \in Invoice |-> IF i \in Paying THEN payments[i].debit ELSE 0]

\* The wallet is never overdrawn, so the balances read are amounts.
FundsOK ==
    /\ InvoiceSum(Parting) <= Funds
    /\ quotes \in [Request -> SUBSET Nat]

Typed ==
    /\ Types
    /\ FundsOK
    /\ phase \in Opening \cup {"up"}
    /\ crashes \in Nat

\* The balance is what the wallet does not part with.
LEMMA BalanceIsNat ==
    ASSUME Types, FundsOK
    PROVE  /\ Balance = Funds - InvoiceSum(Parting)
           /\ InvoiceSum(Parting) \in Nat
           /\ Balance \in Nat
<1>1. IsFiniteSet(Invoice) /\ Funds \in Nat
  BY LedgerAssumption, ServiceAssumption
<1>2. \A i \in Invoice : payments[i].debit \in Nat
  BY DEF Types
<1>3. InvoiceSum(Parting) \in Nat
  <2>1. \A i \in Invoice : Parting[i] \in Nat
    BY <1>2 DEF Parting
  <2> QED  BY <1>1, <2>1, SumIsNat DEF InvoiceSum
<1>4. SumFunctionOnSet(Debit, Paying) = InvoiceSum(Parting)
  <2>1. Paying \in SUBSET Invoice
    BY DEF Paying
  <2>2. \A i \in Paying : Debit[i] \in Int /\ Parting[i] = Debit[i]
    BY <1>2, <2>1 DEF Parting, Debit
  <2>3. \A i \in Invoice \ Paying : Parting[i] = 0
    BY DEF Parting
  <2> QED  BY <1>1, <2>1, <2>2, <2>3, SumWhere DEF InvoiceSum
<1>5. InvoiceSum(Parting) <= Funds
  BY DEF FundsOK
<1>6. Balance = Funds - InvoiceSum(Parting)
  BY <1>4 DEF Balance
<1> QED  BY <1>1, <1>3, <1>5, <1>6

\* Every action leaves the tables well formed.
LEMMA NextTables ==
    ASSUME Types, [Next]_vars
    PROVE  TablesOK(charges', requests')
<1>1. ASSUME UNCHANGED ledgerTables
      PROVE  TablesOK(charges', requests')
  BY <1>1 DEF Types, ledgerTables
<1>2. ASSUME NEW v \in visit,
             \/ StartsSubmission(v) \/ LooksUp(v) \/ LookupFails(v) \/ EvaluatesMiss(v)
             \/ Pays(v) \/ Answered(v)
      PROVE  TablesOK(charges', requests')
  <2>1. v.invoice \in Invoice
    BY DEF Types
  <2>2. \/ UNCHANGED ledgerTables
        \/ FailUnsubmitted(v.invoice)
        \/ BeginSubmission(v.invoice)
    BY <1>2 DEF StartsSubmission, LooksUp, LookupFails, EvaluatesMiss, Pays, Answered,
                PayReturns, PayUncertain, PayRefused
  <2> QED  BY <1>1, <2>1, <2>2, FailUnsubmittedTables, SubmissionTables
<1>3. ASSUME NEW i \in Invoice, Reconciles(i)
      PROVE  TablesOK(charges', requests')
  <2>1. payments[i].debit \in Nat /\ (payments[i].status = "succeeded") \in BOOLEAN
        /\ payments[i].day \in Nat /\ today \in Nat
    BY DEF Types
  <2>2. PICK day \in {payments[i].day, today} :
          RecordPayment(i, payments[i].status = "succeeded", payments[i].debit, day)
    BY <1>3 DEF Reconciles
  <2> QED  BY <2>1, <2>2, RecordPaymentTables
<1>4. CASE \/ \E i \in Invoice :
                \/ Enters(i) \/ WaitReturns(i)
                \/ WalletTakes(i) \/ WalletDrops(i) \/ WalletSettles(i) \/ Expires(i)
           \/ Crashes \/ NextDay \/ UNCHANGED vars
  BY <1>1, <1>4 DEF Enters, WaitReturns, WalletTakes, WalletDrops, WalletSettles, Expires,
                    Crashes, NextDay, vars
<1> QED  BY <1>2, <1>3, <1>4, TransactionsKeepTables DEF Next

\* The wallet's record of a payment stays one, and only grows within the funds.
LEMMA WalletTyped ==
    ASSUME Typed, NEW i \in Invoice, WalletTakes(i) \/ WalletSettles(i)
    PROVE  /\ payments' \in [Invoice -> [status : {"none", "pending"} \cup Terminal,
                                         debit : Nat, day : Nat]]
           /\ InvoiceSum(Parting') <= Funds
<1> DEFINE Payment == [status : {"none", "pending"} \cup Terminal, debit : Nat, day : Nat]
<1>0. /\ payments \in [Invoice -> Payment] /\ today \in Nat /\ IsFiniteSet(Invoice)
      /\ Funds \in Nat /\ InvoiceSum(Parting) <= Funds
      /\ charges[i].limit \in Nat
  BY LedgerAssumption, ServiceAssumption DEF Typed, FundsOK, Types, TablesOK, ChargeRow
<1>1. \A j \in Invoice : Parting[j] \in Nat
  BY <1>0 DEF Parting
<1>2. InvoiceSum(Parting) \in Nat
  BY <1>0, <1>1, SumIsNat DEF InvoiceSum
<1>3. ASSUME payments' \in [Invoice -> Payment], \A j \in Invoice \ {i} : payments'[j] = payments[j],
             NEW taken \in Nat, Parting'[i] <= Parting[i] + taken,
             InvoiceSum(Parting) + taken <= Funds
      PROVE  InvoiceSum(Parting') <= Funds
  <2> DEFINE f == Parting
             g == Parting'
  <2>1. \A j \in Invoice : f[j] \in Int /\ g[j] \in Int
    <3>1. \A j \in Invoice : payments[j].debit \in Nat /\ payments'[j].debit \in Nat
      BY <1>0, <1>3
    <3> QED  BY <3>1 DEF Parting
  <2>2. \A j \in Invoice \ {i} : g[j] = f[j]
    BY <1>3 DEF Parting, Paying
  <2>3. InvoiceSum(f) \in Nat /\ g[i] <= f[i] + taken /\ InvoiceSum(f) + taken <= Funds
    BY <1>2, <1>3
  <2>4. \A h : InvoiceSum(h) = SumFunctionOnSet(h, Invoice)
    BY DEF InvoiceSum
  <2> HIDE DEF f, g
  <2>5. SumFunctionOnSet(g, Invoice) = SumFunctionOnSet(f, Invoice) - f[i] + g[i]
    BY <1>0, <2>1, <2>2, SumUpdate
  <2>6. f[i] \in Int /\ g[i] \in Int
    BY <2>1
  <2>7. InvoiceSum(g) <= Funds
    BY <1>0, <2>3, <2>4, <2>5, <2>6
  <2> QED  BY <2>7 DEF g
<1>4. CASE WalletTakes(i)
  <2>1. PICK debit \in Amount[i]..charges[i].limit :
          /\ debit <= Balance
          /\ payments' = [payments EXCEPT ![i] = [status |-> "pending", debit |-> debit, day |-> 0]]
    BY <1>4 DEF WalletTakes
  <2>2. debit \in Nat
    BY <1>0, LedgerAssumption
  <2>3. [status |-> "pending", debit |-> debit, day |-> 0] \in Payment
    BY <2>2
  <2>4. payments' \in [Invoice -> Payment]
    BY <1>0, <2>1, <2>3
  <2>5. /\ payments'[i].debit = debit
        /\ \A j \in Invoice \ {i} : payments'[j] = payments[j]
    BY <1>0, <2>1
  <2>6. Parting'[i] <= Parting[i] + debit
    <3>1. Parting'[i] = 0 \/ Parting'[i] = debit
      BY <2>5 DEF Parting
    <3> QED  BY <1>1, <2>2, <3>1
  <2>7. Balance = Funds - InvoiceSum(Parting)
    BY BalanceIsNat DEF Typed
  <2>8. InvoiceSum(Parting) + debit <= Funds
    BY <1>0, <1>2, <2>1, <2>2, <2>7
  <2> QED  BY <1>3, <2>2, <2>4, <2>5, <2>6, <2>8
<1>5. CASE WalletSettles(i)
  <2>1. PICK status \in Terminal :
          payments' = [payments EXCEPT ![i].status = status, ![i].day = today]
    BY <1>5 DEF WalletSettles
  <2>2. payments[i].status = "pending" /\ payments[i] \in Payment
    BY <1>0, <1>5 DEF WalletSettles
  <2>3. /\ payments'[i] \in Payment /\ payments'[i].debit = payments[i].debit
        /\ \A j \in Invoice \ {i} : payments'[j] = payments[j]
        /\ DOMAIN payments' = Invoice
    BY <1>0, <2>1, <2>2 DEF Terminal
  <2>4. payments' \in [Invoice -> Payment]
    <3>1. payments' = [j \in Invoice |-> payments'[j]]
      BY <1>0, <2>1
    <3>2. \A j \in Invoice : payments'[j] \in Payment
      BY <1>0, <2>3
    <3> HIDE DEF Payment
    <3> QED  BY <3>1, <3>2
  <2>5. Parting'[i] <= Parting[i] + 0
    <3>1. Parting[i] = payments[i].debit
      BY <2>2 DEF Parting, Paying
    <3>2. Parting'[i] = 0 \/ Parting'[i] = payments[i].debit
      BY <2>3 DEF Parting
    <3> QED  BY <1>1, <3>1, <3>2
  <2>6. InvoiceSum(Parting) + 0 <= Funds /\ 0 \in Nat
    BY <1>0, <1>2
  <2> QED  BY <1>3, <2>3, <2>4, <2>5, <2>6
<1> QED  BY <1>4, <1>5

\* Every step keeps the types.
LEMMA NextTyped ==
    ASSUME Typed, [Next]_vars
    PROVE  Typed'
<1>0. /\ Types /\ FundsOK /\ phase \in Opening \cup {"up"} /\ crashes \in Nat
      /\ TablesOK(charges', requests')
  BY NextTables DEF Typed
<1> DEFINE Visit == [invoice : Invoice, at : Place, first : BOOLEAN]
           Payment == [status : {"none", "pending"} \cup Terminal, debit : Nat, day : Nat]
<1>1. expired' \subseteq Invoice /\ today' \in Nat
  <2>1. \/ UNCHANGED time
        \/ NextDay
        \/ \E i \in Invoice : Expires(i)
    BY DEF Next, ReadsBalance, Proposes, Approves, Cancels, RevokesAuthorization, Finishes,
           PreparesCharge, Enters, WaitReturns, Reconciles, StartsSubmission, LooksUp,
           LookupFails, EvaluatesMiss, Pays, Answered, PayReturns, PayUncertain, PayRefused,
           Crashes, Opens, Finalizes, WalletTakes, WalletDrops, WalletSettles, vars
  <2> QED  BY <1>0, <2>1 DEF Types, time, NextDay, Expires
<1>2. visit' \subseteq Visit
  <2>1. \/ UNCHANGED visit
        \/ visit' = {}
        \/ \E i \in Invoice : Enters(i)
        \/ \E v \in visit, at \in Place : Stay(v, at)
    BY DEF Next, ReadsBalance, Proposes, Approves, Cancels, RevokesAuthorization, Finishes,
           PreparesCharge, WaitReturns, Reconciles, StartsSubmission, LooksUp,
           LookupFails, EvaluatesMiss, Pays, Answered, PayReturns, PayUncertain, PayRefused,
           Crashes, Opens, Finalizes, WalletTakes, WalletDrops, WalletSettles, Expires, NextDay,
           vars, serviceVars, Leave, Place
  <2>2. ASSUME NEW i \in Invoice, Enters(i) PROVE visit' \subseteq Visit
    <3> DEFINE v == [invoice |-> i, first |-> charges[i].state = "prepared",
                     at |-> IF charges[i].state = "prepared" THEN "preparing" ELSE "looking"]
    <3>1. visit' = {v} /\ v \in Visit
      BY <2>2 DEF Enters, Place
    <3> HIDE DEF v
    <3> QED  BY <3>1
  <2>3. ASSUME NEW v \in visit, NEW at \in Place, Stay(v, at) PROVE visit' \subseteq Visit
    <3>1. v \in Visit
      BY <1>0 DEF Types
    <3>2. visit' = {[v EXCEPT !.at = at]}
      BY <2>3 DEF Stay
    <3> QED  BY <3>1, <3>2
  <2> QED  BY <1>0, <2>1, <2>2, <2>3 DEF Types
<1>3. answers' \subseteq Invoice /\ wire' \subseteq Invoice
  <2>1. \A v \in visit : v.invoice \in Invoice
    BY <1>0 DEF Types
  <2>2. \/ UNCHANGED answers
        \/ answers' = {}
        \/ \E i \in Invoice : answers' = answers \cup {i}
    BY <2>1
    DEF Next, ReadsBalance, Proposes, Approves, Cancels, RevokesAuthorization, Finishes,
        PreparesCharge, Enters, WaitReturns, Reconciles, StartsSubmission, LooksUp,
        LookupFails, EvaluatesMiss, Pays, Answered, PayReturns, PayUncertain, PayRefused,
        Crashes, Opens, Finalizes, WalletTakes, WalletDrops, WalletSettles, Expires, NextDay,
        vars, serviceVars
  <2>3. \/ wire' \subseteq wire
        \/ \E i \in Invoice : wire' = wire \cup {i}
    BY <2>1
    DEF Next, ReadsBalance, Proposes, Approves, Cancels, RevokesAuthorization, Finishes,
        PreparesCharge, Enters, WaitReturns, Reconciles, StartsSubmission, LooksUp,
        LookupFails, EvaluatesMiss, Pays, Answered, PayReturns, PayUncertain, PayRefused,
        Crashes, Opens, Finalizes, WalletTakes, WalletDrops, WalletSettles, Expires, NextDay,
        vars, walletVars
  <2> QED  BY <1>0, <2>2, <2>3 DEF Types
<1>4. payments' \in [Invoice -> Payment] /\ InvoiceSum(Parting') <= Funds
  <2>1. \/ UNCHANGED payments
        \/ \E i \in Invoice : WalletTakes(i) \/ WalletSettles(i)
    BY DEF Next, ReadsBalance, Proposes, Approves, Cancels, RevokesAuthorization, Finishes,
           PreparesCharge, Enters, WaitReturns, Reconciles, StartsSubmission, LooksUp,
           LookupFails, EvaluatesMiss, Pays, Answered, PayReturns, PayUncertain, PayRefused,
           Crashes, Opens, Finalizes, WalletDrops, Expires, NextDay, vars, walletVars
  <2>2. CASE UNCHANGED payments
    BY <1>0, <2>2 DEF Types, FundsOK, Parting, Paying, InvoiceSum
  <2>3. CASE \E i \in Invoice : WalletTakes(i) \/ WalletSettles(i)
    BY <2>3, WalletTyped
  <2> QED  BY <2>1, <2>2, <2>3
<1>5. quotes' \in [Request -> SUBSET Nat]
  <2>1. \/ UNCHANGED quotes
        \/ quotes' = [r \in Request |-> {}]
        \/ \E r \in Request : quotes' = [quotes EXCEPT ![r] = {}]
        \/ \E r \in Request : quotes' = [quotes EXCEPT ![r] = {Balance}]
    BY DEF Next, ReadsBalance, Proposes, Approves, Cancels, RevokesAuthorization, Finishes,
           PreparesCharge, Enters, WaitReturns, Reconciles, StartsSubmission, LooksUp,
           LookupFails, EvaluatesMiss, Pays, Answered, PayReturns, PayUncertain, PayRefused,
           Crashes, Opens, Finalizes, WalletTakes, WalletDrops, WalletSettles, Expires, NextDay,
           vars, serviceVars
  <2>2. Balance \in Nat
    BY <1>0, BalanceIsNat
  <2> QED  BY <1>0, <2>1, <2>2 DEF FundsOK
<1>6. phase' \in Opening \cup {"up"} /\ crashes' \in Nat
  <2>1. \/ UNCHANGED phase
        \/ phase' \in {"closing", "failing", "finalizing", "up"}
    BY DEF Next, ReadsBalance, Proposes, Approves, Cancels, RevokesAuthorization, Finishes,
           PreparesCharge, Enters, WaitReturns, Reconciles, StartsSubmission, LooksUp,
           LookupFails, EvaluatesMiss, Pays, Answered, PayReturns, PayUncertain, PayRefused,
           Crashes, Opens, Finalizes, WalletTakes, WalletDrops, WalletSettles, Expires, NextDay,
           vars, serviceVars
  <2>2. UNCHANGED crashes \/ crashes' = crashes + 1
    BY DEF Next, ReadsBalance, Proposes, Approves, Cancels, RevokesAuthorization, Finishes,
           PreparesCharge, Enters, WaitReturns, Reconciles, StartsSubmission, LooksUp,
           LookupFails, EvaluatesMiss, Pays, Answered, PayReturns, PayUncertain, PayRefused,
           Crashes, Opens, Finalizes, WalletTakes, WalletDrops, WalletSettles, Expires, NextDay,
           vars
  <2> QED  BY <1>0, <2>1, <2>2 DEF Opening
<1> HIDE DEF Visit, Payment
<1>7. Types'
  BY <1>0, <1>1, <1>2, <1>3, <1>4 DEF Types, Visit, Payment
<1>8. FundsOK'
  BY <1>4, <1>5 DEF FundsOK, InvoiceSum
<1> QED  BY <1>6, <1>7, <1>8 DEF Typed

\* The tables, the visits, the balances and the wallet's record are well formed,
\* whatever expires when.
THEOREM ServiceTyped == Spec => []TypeOK
<1>1. ASSUME Init PROVE Typed
  <2> USE DEF Init, LedgerInit
  <2>1. Types
    BY <1>1, InitTypes
  <2>2. InvoiceSum(Parting) = 0
    <3>1. \A i \in Invoice : Parting[i] = 0
      BY <1>1 DEF Parting, Paying, NoPayment
    <3>2. IsFiniteSet(Invoice)
      BY LedgerAssumption
    <3> QED  BY <3>1, <3>2, SumZero DEF InvoiceSum
  <2> QED  BY <1>1, <2>1, <2>2, ServiceAssumption DEF Typed, FundsOK, Opening
<1>2. Typed /\ [Next]_vars => Typed'
  BY NextTyped
<1>3. Typed => TypeOK
  BY DEF Typed, Types, TablesOK, FundsOK, TypeOK, LedgerTypeOK
<1> QED  BY <1>1, <1>2, <1>3, PTL DEF Spec
===============================================================================
