--------------------------- MODULE PaymentProofs ---------------------------
(***************************************************************************)
(* Proofs about payments.  For every workload and every value of the bounds *)
(* an invoice is marked PAYMENT RECEIVED only when a payment for it moved  *)
(* its price.  When clients keep one request open at a time, the globals of *)
(* pizzaCoinClient.js are as good as local variables.                      *)
(***************************************************************************)
EXTENDS TokenProofs, FiniteSetTheorems

-----------------------------------------------------------------------------
(* The inductive invariant                                                 *)

\* A receipt is there once the transfer was mined, and not before.
Unsent == PaymentLabels \ {"sent", "newBalance", "paid"}

PayAt(r) ==
    LET p == payment[r]
    IN  /\ pc[r] \in PaymentLabels => p.invoiceId \in KnownInvoices \cup {0}
        /\ pc[r] \in PaymentLabels \ {"payInvoice"} => p.price = invoices[p.invoiceId].price
        /\ pc[r] \in {"idle"} \cup Unsent => p.receipt = NoReceipt
        /\ pc[r] \in {"sent", "newBalance", "paid"} =>
             p.receipt # NoReceipt /\ p.receipt.value = p.price

PaymentInv == /\ \A r \in Requests : PayAt(r)
              /\ PaidMeansMoved

-----------------------------------------------------------------------------
(* The price and the receipt of a payment                                  *)

LEMMA PaymentPrice ==
    ASSUME TypeInv, NEW r \in Requests, PaymentMove(r)
    PROVE  /\ pc'[r] # "payInvoice"
           /\ \/ /\ pc[r] = "payInvoice"
                 /\ payment'[r].price = invoices[payment[r].invoiceId].price
              \/ /\ pc[r] # "payInvoice"
                 /\ payment'[r].price = payment[r].price
<1>1. payment[r] \in Payment /\ payment \in [Requests -> Payment]
      BY StringTypes
<1>2. CASE PayInvoice(r)
      BY ZenonT(60), <1>1, <1>2, StringTypes DEF PayInvoice, Payment, Step
<1>3. CASE PayeeAccount(r) \/ GotPayeeBalance(r) \/ ToppedUp(r)
      BY ZenonT(200), <1>1, <1>3, StringTypes DEF PayeeAccount, GotPayeeBalance, ToppedUp,
         Payment, Step
<1>4. CASE PayerBalance(r) \/ PayeeBalance(r) \/ TxCount(r)
      BY ZenonT(200), <1>1, <1>4, StringTypes DEF PayerBalance, PayeeBalance, TxCount, Payment,
         Step
<1>5. CASE GotPayerBalance(r) \/ Sent(r)
      BY ZenonT(60), <1>1, <1>5, StringTypes DEF GotPayerBalance, Sent, Payment, Step
<1>6. CASE SendTx(r)
      BY ZenonT(60), <1>1, <1>6, StringTypes DEF SendTx, Payment, Step
<1>7. CASE PayerAccount(r) \/ TopUp(r) \/ NewBalance(r) \/ Paid(r)
      BY ZenonT(60), <1>7, StringTypes DEF PayerAccount, TopUp, NewBalance, Paid, Step
<1>. QED  BY ZenonT(60), <1>2, <1>3, <1>4, <1>5, <1>6, <1>7 DEF PaymentMove, PaymentStep

LEMMA PaymentReceipt ==
    ASSUME TypeInv, NEW r \in Requests, PaymentMove(r)
    PROVE  \/ /\ pc[r] = "sendTx" /\ pc'[r] = "sent"
              /\ payment'[r].receipt = [from |-> payment[r].callFrom, to |-> payment[r].callTo,
                                        value |-> payment[r].price]
           \/ /\ payment'[r].receipt = payment[r].receipt
              /\ pc'[r] \in {"sent", "newBalance", "paid"} =>
                   pc[r] \in {"sent", "newBalance", "paid"}
              /\ pc'[r] \in Unsent => pc[r] \in Unsent
<1>1. payment[r] \in Payment /\ payment \in [Requests -> Payment]
      BY StringTypes
<1>2. ASSUME ~SendTx(r) PROVE payment'[r].receipt = payment[r].receipt
  <2>1. CASE PayInvoice(r)
        BY ZenonT(60), <1>1, <2>1 DEF PayInvoice, Payment
  <2>2. CASE PayeeAccount(r) \/ GotPayeeBalance(r) \/ ToppedUp(r)
        BY ZenonT(60), <1>1, <2>2 DEF PayeeAccount, GotPayeeBalance, ToppedUp, Payment
  <2>3. CASE PayerBalance(r) \/ PayeeBalance(r) \/ TxCount(r)
        BY ZenonT(60), <1>1, <2>3 DEF PayerBalance, PayeeBalance, TxCount, Payment
  <2>4. CASE GotPayerBalance(r) \/ Sent(r)
        BY ZenonT(60), <1>1, <2>4 DEF GotPayerBalance, Sent, Payment
  <2>5. CASE PayerAccount(r) \/ TopUp(r) \/ NewBalance(r) \/ Paid(r)
        BY ZenonT(60), <2>5 DEF PayerAccount, TopUp, NewBalance, Paid
  <2>. QED  BY ZenonT(60), <1>2, <2>1, <2>2, <2>3, <2>4, <2>5 DEF PaymentMove, PaymentStep
<1>3. ASSUME ~SendTx(r)
      PROVE  \/ pc[r] \in Unsent /\ pc'[r] \notin {"sent", "newBalance", "paid"}
             \/ pc[r] \in {"sent", "newBalance", "paid"} /\ pc'[r] \notin Unsent
  <2>1. CASE Sent(r) \/ NewBalance(r) \/ Paid(r)
        BY ZenonT(60), <2>1, StringTypes DEF Sent, NewBalance, Paid, Step, Unsent, PaymentLabels
  <2>2. CASE PayInvoice(r) \/ PayerAccount(r) \/ PayeeAccount(r) \/ PayerBalance(r)
             \/ GotPayerBalance(r) \/ PayeeBalance(r)
        BY ZenonT(60), <2>2, StringTypes DEF PayInvoice, PayerAccount, PayeeAccount,
           PayerBalance, GotPayerBalance, PayeeBalance, Step, Unsent, PaymentLabels
  <2>3. CASE GotPayeeBalance(r) \/ TopUp(r) \/ ToppedUp(r) \/ TxCount(r)
        BY ZenonT(60), <2>3, StringTypes DEF GotPayeeBalance, TopUp, ToppedUp, TxCount, Step,
           Unsent, PaymentLabels
  <2>. QED  BY ZenonT(60), <1>3, <2>1, <2>2, <2>3 DEF PaymentMove, PaymentStep
<1>4. CASE SendTx(r)
  <2>1. \/ /\ pc[r] = "sendTx" /\ pc'[r] = "sent"
           /\ payment'[r].receipt = [from |-> payment[r].callFrom, to |-> payment[r].callTo,
                                     value |-> payment[r].price]
        \/ pc'[r] = "failed" /\ payment' = payment
        BY ZenonT(60), <1>1, <1>4, StringTypes DEF SendTx, Payment, Step
  <2>. QED  BY ZenonT(60), <2>1 DEF Unsent, PaymentLabels
<1>. QED  BY ZenonT(60), <1>2, <1>3, <1>4

LEMMA PaymentStepPay ==
    ASSUME TypeInv, RowsInv, ChainGrows, NEW r \in Requests, PayAt(r), PaymentMove(r)
    PROVE  PayAt(r)'
<1>. DEFINE i == payment[r].invoiceId
<1>1. /\ pc[r] \in PaymentLabels /\ pc'[r] \in PaymentLabels \cup Answered
      /\ payment'[r].invoiceId = i
      BY ZenonT(60), PaymentFrame, PaymentArgs DEF RunsIn
<1>2. i \in KnownInvoices \cup {0} /\ KnownInvoices \subseteq KnownInvoices'
      BY ZenonT(60), <1>1 DEF PayAt, ChainGrows
<1>3. invoices'[i].price = invoices[i].price
      BY ZenonT(60), <1>2 DEF ChainGrows, InvoiceStays
<1>4. payment'[r].price = invoices[i].price /\ pc'[r] # "idle"
      BY ZenonT(60), <1>1, PaymentPrice DEF PayAt, PaymentLabels, Answered
<1>5. CASE pc'[r] = "sent" /\ pc[r] = "sendTx"
  <2>1. pc'[r] \notin {"idle"} \cup Unsent
        BY ZenonT(60), <1>5 DEF Unsent
  <2>2. /\ payment'[r].receipt = [from |-> payment[r].callFrom, to |-> payment[r].callTo,
                                  value |-> payment[r].price]
        BY ZenonT(60), <1>5, PaymentReceipt
  <2>3. payment[r].callFrom # Undefined
    <3>1. payment[r].callFrom \in Accounts
          BY ZenonT(60), <1>5 DEF TypeInv, LocalsOK, LocalsAt
    <3>. QED  BY <3>1 DEF Accounts, Undefined
  <2>4. payment'[r].receipt.from # NoReceipt.from /\ payment'[r].receipt.value = payment[r].price
    <3>1. NoReceipt.from = Undefined
          BY ZenonT(60) DEF NoReceipt
    <3>2. \A x, f, t, v : x = [from |-> f, to |-> t, value |-> v] => x.from = f /\ x.value = v
          OBVIOUS
    <3>3. /\ payment'[r].receipt.from = payment[r].callFrom
          /\ payment'[r].receipt.value = payment[r].price
          BY ZenonT(60), <2>2, <3>2
    <3>. QED  BY ZenonT(60), <2>3, <3>1, <3>3
  <2>5. payment'[r].price = payment[r].price
        BY ZenonT(60), <1>5, PaymentPrice
  <2>. QED  BY ZenonT(60), <1>1, <1>2, <1>3, <1>4, <2>1, <2>4, <2>5 DEF PayAt
<1>6. CASE ~(pc'[r] = "sent" /\ pc[r] = "sendTx")
  <2>1. /\ payment'[r].receipt = payment[r].receipt
        /\ pc'[r] \in {"sent", "newBalance", "paid"} => pc[r] \in {"sent", "newBalance", "paid"}
        /\ pc'[r] \in Unsent => pc[r] \in Unsent
        BY ZenonT(60), <1>6, PaymentReceipt
  <2>2. pc[r] \in {"sent", "newBalance", "paid"} => pc[r] # "payInvoice"
        BY ZenonT(60)
  <2>3. pc[r] \in {"sent", "newBalance", "paid"} => payment'[r].price = payment[r].price
        BY ZenonT(60), <2>2, PaymentPrice
  <2>. QED  BY ZenonT(60), <1>1, <1>2, <1>3, <1>4, <2>1, <2>3 DEF PayAt
<1>. QED  BY <1>5, <1>6

LEMMA NextPay ==
    ASSUME TypeInv, RowsInv, TokenInv, PaymentInv, [Next]_vars, NEW q \in Requests
    PROVE  PayAt(q)'
<1>1. ChainGrows
      BY StepGrows
<1>2. PayAt(q)
      BY DEF PaymentInv
<1>3. ASSUME payment'[q] = payment[q], pc'[q] \in {pc[q], "failed"} PROVE PayAt(q)'
  <2>1. CASE pc'[q] \in PaymentLabels
    <3>1. pc'[q] = pc[q]
          BY ZenonT(60), <1>3, <2>1 DEF PaymentLabels
    <3>2. payment[q].invoiceId \in KnownInvoices \cup {0}
          BY ZenonT(60), <1>2, <2>1, <3>1 DEF PayAt
    <3>3. /\ invoices'[payment[q].invoiceId].price = invoices[payment[q].invoiceId].price
          /\ payment[q].invoiceId \in KnownInvoices' \cup {0}
          BY ZenonT(60), <1>1, <3>2 DEF ChainGrows, InvoiceStays
    <3>. QED  BY ZenonT(60), <1>2, <1>3, <2>1, <3>1, <3>3 DEF PayAt
  <2>2. CASE pc'[q] \notin PaymentLabels
    <3>1. pc'[q] \notin {"sent", "newBalance", "paid"} /\ pc'[q] \notin Unsent
          BY ZenonT(60), <2>2 DEF PaymentLabels, Unsent
    <3>. QED  BY ZenonT(60), <1>2, <1>3, <2>2, <3>1 DEF PayAt
  <2>. QED  BY <2>1, <2>2
<1>4. ASSUME pc'[q] \notin PaymentLabels, pc'[q] # "idle" PROVE PayAt(q)'
  <2>1. pc'[q] \notin {"sent", "newBalance", "paid"} /\ pc'[q] \notin {"idle"} \cup Unsent
        BY ZenonT(60), <1>4 DEF PaymentLabels, Unsent
  <2>. QED  BY ZenonT(60), <1>4, <2>1 DEF PayAt
<1>5. ASSUME IssueMove(q) \/ InvoiceMove(q) \/ MakingMove(q) \/ DeliveryMove(q) PROVE PayAt(q)'
  <2>1. pc'[q] \notin PaymentLabels /\ pc'[q] # "idle"
        BY ZenonT(200), <1>5, IssueFrame, InvoiceFrame, MakingFrame, DeliveryFrame DEF RunsIn,
           Answered, IssueLabels, InvoiceLabels, MakingLabels, DeliveryLabels, PaymentLabels
  <2>. QED  BY <1>4, <2>1
<1>6. ASSUME PaymentMove(q) PROVE PayAt(q)'
      BY ZenonT(60), <1>1, <1>2, <1>6, PaymentStepPay
<1>7. ASSUME Send(q) PROVE PayAt(q)'
  <2>1. ASSUME NEW i \in KnownInvoices \cup {0}, NEW p, PostPaySupplier(q, i, p),
               pc'[q] = "payInvoice"
        PROVE  PayAt(q)'
    <3>1. payment'[q].invoiceId = i /\ payment'[q].receipt = payment[q].receipt
          BY ZenonT(60), <2>1, StringTypes DEF PostPaySupplier, Payment
    <3>2. payment[q].receipt = NoReceipt
          BY ZenonT(60), <1>2, <1>7, SendFrame DEF PayAt
    <3>. QED  BY ZenonT(60), <1>1, <2>1, <3>1, <3>2 DEF ChainGrows, PayAt
  <2>2. ASSUME pc'[q] \in {"createPO", "readPO", "readInvoice", "findRow"} \cup Answered
        PROVE  pc'[q] \notin PaymentLabels /\ pc'[q] # "idle"
        BY ZenonT(60), <2>2 DEF Answered, PaymentLabels
  <2>. QED  BY ZenonT(60), <1>4, <1>7, <2>1, <2>2, SendCases
<1>8. ASSUME NEW r \in Requests, r # q,
             \/ Send(r) \/ IssueMove(r) \/ InvoiceMove(r) \/ MakingMove(r) \/ DeliveryMove(r)
             \/ PaymentMove(r)
      PROVE  PayAt(q)'
  <2>1. OnlyMoves(r)
        BY ZenonT(60), <1>8, SendFrame, IssueFrame, InvoiceFrame, MakingFrame, DeliveryFrame,
           PaymentFrame
  <2>. QED  BY ZenonT(60), <1>3, <1>8, <2>1 DEF OnlyMoves
<1>9. ASSUME Fault \/ UNCHANGED vars PROVE PayAt(q)'
  <2>1. payment'[q] = payment[q] /\ pc'[q] \in {pc[q], "failed"}
        BY ZenonT(60), <1>9, FaultFrame DEF vars, serverVars
  <2>. QED  BY <1>3, <2>1
<1>. QED  BY ZenonT(60), <1>5, <1>6, <1>7, <1>8, <1>9, StepCases

-----------------------------------------------------------------------------
(* An invoice that is marked as paid                                       *)

\* Only issueInvoice and the end of a payment set the status of an invoice.
LEMMA StepPaid ==
    ASSUME TypeInv, RowsInv, [Next]_vars, NEW i \in KnownInvoices',
           invoices'[i].status = "PAYMENT RECEIVED"
    PROVE  /\ i \in KnownInvoices
           /\ \/ invoices[i].status = "PAYMENT RECEIVED"
              \/ \E r \in Requests : /\ PaymentMove(r) /\ pc[r] = "paid" /\ pc'[r] = "ok"
                                     /\ UNCHANGED payment
                                     /\ i = payment[r].invoiceId
<1>1. invoices \in [Ids -> Invoice]
      BY ZenonT(60) DEF TypeInv, TypeOK, ProcurementTypeOK
<1>2. ASSUME NEW r \in Requests, CreateInvoice(r)
      PROVE  /\ i # purchase[r].processId
             /\ i \in KnownInvoices => invoices'[i] = invoices[i]
  <2>1. purchase[r].processId \in Ids
        BY ZenonT(60), StringTypes DEF Purchase
  <2>2. invoices'[purchase[r].processId].status = "ISSUED"
        BY ZenonT(60), <1>1, <1>2, <2>1 DEF CreateInvoice, issueInvoice
  <2>3. i # purchase[r].processId
        BY ZenonT(60), <2>2
  <2>4. i \in KnownInvoices => i \in Ids
        BY ZenonT(60), KnownIds
  <2>. QED  BY ZenonT(60), <1>1, <1>2, <2>1, <2>3, <2>4 DEF CreateInvoice, issueInvoice
<1>3. i \in KnownInvoices
      BY ZenonT(60), <1>2, StepKnown
<1>4. i \in Ids
      BY ZenonT(60), <1>3, KnownIds
<1>5. CASE UNCHANGED invoices
      BY ZenonT(60), <1>3, <1>5
<1>6. ASSUME NEW r \in Requests, InvoiceMove(r)
      PROVE  invoices'[i] = invoices[i]
      BY ZenonT(60), <1>2, <1>3, <1>6 DEF InvoiceMove, ReadPO, Acknowledge, RecordInvoice,
         updatePOStatus, procurementVars
<1>7. ASSUME NEW r \in Requests, Paid(r), PaymentMove(r)
      PROVE  \/ invoices[i].status = "PAYMENT RECEIVED"
             \/ /\ pc[r] = "paid" /\ pc'[r] = "ok" /\ UNCHANGED payment
                /\ i = payment[r].invoiceId
  <2>1. pc[r] = "paid" /\ pc'[r] = "ok" /\ UNCHANGED payment
        BY ZenonT(60), <1>7, StringTypes DEF Paid, Step
  <2>2. payment[r].invoiceId \in Ids
        BY ZenonT(60), StringTypes DEF Payment
  <2>3. i # payment[r].invoiceId => invoices'[i] = invoices[i]
        BY ZenonT(60), <1>1, <1>4, <1>7, <2>2 DEF Paid, updateInvoiceStatus
  <2>. QED  BY ZenonT(60), <2>1, <2>3
<1>8. ASSUME NEW r \in Requests, PaymentMove(r) PROVE Paid(r) \/ UNCHANGED invoices
      BY ZenonT(60), <1>8 DEF PaymentMove, PaymentStep, PayInvoice, PayerAccount, PayeeAccount,
         PayerBalance, GotPayerBalance, PayeeBalance, GotPayeeBalance, TopUp, ToppedUp, TxCount,
         SendTx, Sent, NewBalance, chainVars, procurementVars
<1>9. ASSUME NEW r \in Requests, Send(r) \/ IssueMove(r) \/ MakingMove(r) \/ DeliveryMove(r)
      PROVE  UNCHANGED invoices
      BY ZenonT(60), <1>9, SendFrame, IssueFrame, MakingFrame, DeliveryFrame
<1>10. ASSUME Fault \/ UNCHANGED vars PROVE UNCHANGED invoices
      BY ZenonT(60), <1>10, FaultFrame DEF vars, procurementVars
<1>. QED  BY ZenonT(60), <1>3, <1>5, <1>6, <1>7, <1>8, <1>9, <1>10, StepCases

\* A receipt is never lost.
LEMMA ReceiptStays ==
    ASSUME TypeInv, PaymentInv, [Next]_vars, NEW q \in Requests,
           payment[q].receipt # NoReceipt
    PROVE  /\ payment'[q].invoiceId = payment[q].invoiceId
           /\ payment'[q].receipt = payment[q].receipt
<1>1. pc[q] \notin {"idle"} \cup Unsent
      BY ZenonT(60) DEF PaymentInv, PayAt
<1>2. pc[q] # "idle" /\ pc[q] # "sendTx"
      BY ZenonT(60), <1>1 DEF Unsent, PaymentLabels
<1>3. CASE PaymentMove(q)
      BY ZenonT(60), <1>2, <1>3, PaymentArgs, PaymentReceipt
<1>4. CASE IssueMove(q) \/ InvoiceMove(q) \/ MakingMove(q) \/ DeliveryMove(q)
      BY ZenonT(60), <1>4, IssueFrame, InvoiceFrame, MakingFrame, DeliveryFrame
<1>5. ASSUME Send(q) PROVE FALSE
      BY ZenonT(60), <1>2, <1>5, SendFrame
<1>6. ASSUME NEW r \in Requests, r # q,
             \/ Send(r) \/ IssueMove(r) \/ InvoiceMove(r) \/ MakingMove(r) \/ DeliveryMove(r)
             \/ PaymentMove(r)
      PROVE  payment'[q] = payment[q]
  <2>1. OnlyMoves(r)
        BY ZenonT(60), <1>6, SendFrame, IssueFrame, InvoiceFrame, MakingFrame, DeliveryFrame,
           PaymentFrame
  <2>. QED  BY ZenonT(60), <1>6, <2>1 DEF OnlyMoves
<1>7. CASE Fault \/ UNCHANGED vars
      BY ZenonT(60), <1>7, FaultFrame DEF vars
<1>. QED  BY ZenonT(60), <1>3, <1>4, <1>5, <1>6, <1>7, StepCases

LEMMA NextPaid ==
    ASSUME TypeInv, RowsInv, TokenInv, PaymentInv, [Next]_vars
    PROVE  PaidMeansMoved'
<1>. SUFFICES ASSUME NEW i \in KnownInvoices', invoices'[i].status = "PAYMENT RECEIVED"
              PROVE  \E r \in Requests : /\ payment'[r].invoiceId = i
                                         /\ payment'[r].receipt # NoReceipt
                                         /\ payment'[r].receipt.value = invoices'[i].price
     BY ZenonT(60) DEF PaidMeansMoved
<1>1. i \in KnownInvoices
      BY ZenonT(60), StepPaid
<1>2. invoices'[i].price = invoices[i].price
      BY ZenonT(60), <1>1, StepIssued DEF InvoiceStays
<1>3. CASE invoices[i].status = "PAYMENT RECEIVED"
  <2>1. PICK r \in Requests : /\ payment[r].invoiceId = i
                              /\ payment[r].receipt # NoReceipt
                              /\ payment[r].receipt.value = invoices[i].price
        BY ZenonT(60), <1>1, <1>3 DEF PaymentInv, PaidMeansMoved
  <2>. QED  BY ZenonT(60), <1>2, <2>1, ReceiptStays
<1>4. ASSUME NEW r \in Requests, pc[r] = "paid", UNCHANGED payment, i = payment[r].invoiceId
      PROVE  /\ payment'[r].invoiceId = i
             /\ payment'[r].receipt # NoReceipt
             /\ payment'[r].receipt.value = invoices'[i].price
  <2>1. /\ payment[r].price = invoices[i].price
        /\ payment[r].receipt # NoReceipt /\ payment[r].receipt.value = payment[r].price
        BY ZenonT(60), <1>4 DEF PaymentInv, PayAt, PaymentLabels
  <2>. QED  BY ZenonT(60), <1>2, <1>4, <2>1
<1>. QED  BY ZenonT(60), <1>3, <1>4, StepPaid

LEMMA InitPayment == Init => PaymentInv
<1>. SUFFICES ASSUME Init PROVE PaymentInv
     OBVIOUS
<1>1. \A r \in Requests : pc[r] = "idle" /\ payment[r].receipt = NoReceipt
      BY ZenonT(60) DEF Init, ServerInit, PaymentInit, NoPayment
<1>2. KnownInvoices = {}
      BY DEF Init, ProcurementInit, KnownInvoices
<1>3. \A r \in Requests : PayAt(r)
      BY ZenonT(60), <1>1 DEF PayAt, PaymentLabels
<1>. QED  BY ZenonT(60), <1>2, <1>3 DEF PaymentInv, PaidMeansMoved

LEMMA NextPayment ==
    TypeInv /\ RowsInv /\ TokenInv /\ PaymentInv /\ [Next]_vars => PaymentInv'
BY NextPay, NextPaid DEF PaymentInv

\* However payments overlap and take each other's addresses, calls fail or the
\* server crashes, an invoice is PAYMENT RECEIVED only after a payment request
\* for it moved exactly its price.
THEOREM PaidInvoicesWerePaid == Spec => []PaidMeansMoved
<1>1. PaymentInv => PaidMeansMoved
      BY DEF PaymentInv
<1>. QED  BY InitType, NextType, InitRows, NextRows, InitTokens, NextTokens, InitPayment,
             NextPayment, <1>1, PTL DEF Spec

-----------------------------------------------------------------------------
(* One request at a time                                                   *)

OneOpen == \A r, s \in Requests : (pc[r] \in Awaiting /\ pc[s] \in Awaiting) => r = s

\* From these labels on, the globals name the parties of the payment.
UserSet == PaymentLabels \ {"payInvoice", "payerAccount"}
MerchantSet == UserSet \ {"payeeAccount"}

SerialAt(r) ==
    LET p == payment[r]
    IN  /\ pc[r] \in UserSet => userAcc = p.fromId
        /\ pc[r] \in MerchantSet => merchantAcct = p.toId
        /\ pc[r] \in {"payerBalance", "topUp", "txCount", "sendTx"} => p.callFrom = p.fromId
        /\ pc[r] \in {"payeeBalance", "topUp", "txCount", "sendTx", "newBalance"} =>
             p.callTo = p.toId
        /\ p.receipt # NoReceipt => p.receipt.from = p.fromId /\ p.receipt.to = p.toId

SerialInv == OneOpen /\ \A r \in Requests : SerialAt(r)

-----------------------------------------------------------------------------
(* The coins, when the roles are apart and nothing fails                   *)

\* The payer holds the price only between the top-up and the transfer.
Funded == {"toppedUp", "txCount", "sendTx"}

Holdings ==
    \A a \in Payers :
        balance[a] # 0 => \E r \in Requests : pc[r] \in Funded /\ payment[r].fromId = a

CoinsAt(r) ==
    LET p == payment[r]
    IN  /\ pc[r] \in {"gotPayerBalance", "payeeBalance", "gotPayeeBalance"} =>
             p.payerBalance = 0
        /\ pc[r] \in Funded => balance[p.fromId] = p.price
        /\ pc[r] \in {"gotPayeeBalance", "topUp"} \cup Funded =>
             p.initialBalance = balance[p.toId]
        /\ pc[r] = "sendTx" => p.count = nonce[p.callFrom]
        /\ pc[r] \in {"sent", "newBalance"} => balance[p.toId] = p.initialBalance + p.price
        /\ (Route[r] = "paySupplier" /\ pc[r] = "ok") => p.receipt # NoReceipt
        /\ (Route[r] = "paySupplier" /\ pc[r] \in {"refused", "failed"}) =>
             p.receipt = NoReceipt

CoinsInv == Holdings /\ \A r \in Requests : CoinsAt(r)

-----------------------------------------------------------------------------
(* Requests do not overlap                                                 *)

LEMMA LabelsAwait ==
    /\ IssueLabels \subseteq Awaiting /\ InvoiceLabels \subseteq Awaiting
    /\ MakingLabels \subseteq Awaiting /\ DeliveryLabels \subseteq Awaiting
    /\ PaymentLabels \subseteq Awaiting
    /\ Answered \cap Awaiting = {} /\ "idle" \notin Awaiting
BY ZenonT(60) DEF Awaiting, Answered, IssueLabels, InvoiceLabels, MakingLabels, DeliveryLabels,
   PaymentLabels

\* A request is sent only when none is open.
LEMMA SentAlone ==
    ASSUME MaxInFlight = 1, OneOpen, NEW r \in Requests, Send(r)
    PROVE  \A q \in Requests : pc[q] \notin Awaiting
<1>1. Cardinality(InFlight) < 1
      BY ZenonT(60) DEF Send, PurchaseRequest, PostPurchaseOrder, PostInvoice, TokenRequest,
         PostMakeTokens, PostTransferToken, PaymentRequest, PostPaySupplier, Arrive
<1>2. ASSUME NEW q \in Requests, pc[q] \in Awaiting PROVE FALSE
  <2>1. InFlight = {q}
        BY ZenonT(60), <1>2 DEF OneOpen, InFlight
  <2>2. Cardinality(InFlight) = 1
        BY ZenonT(60), <2>1, FS_Singleton
  <2>. QED  BY <1>1, <2>2
<1>. QED  BY ZenonT(60), <1>2

\* While one handler runs, no other request is open.
LEMMA RunsAlone ==
    ASSUME MaxInFlight = 1, TypeInv, OneOpen, NEW r \in Requests,
           \/ Send(r) \/ IssueMove(r) \/ InvoiceMove(r) \/ MakingMove(r) \/ DeliveryMove(r)
           \/ PaymentMove(r)
    PROVE  OnlyMoves(r) /\ \A q \in Requests \ {r} : pc[q] \notin Awaiting
<1>1. OnlyMoves(r)
      BY ZenonT(60), SendFrame, IssueFrame, InvoiceFrame, MakingFrame, DeliveryFrame,
         PaymentFrame
<1>2. Send(r) \/ pc[r] \in Awaiting
      BY ZenonT(60), LabelsAwait, IssueFrame, InvoiceFrame, MakingFrame, DeliveryFrame,
         PaymentFrame DEF RunsIn
<1>3. \A q \in Requests \ {r} : pc[q] \notin Awaiting
      BY ZenonT(60), <1>2, SentAlone DEF OneOpen
<1>. QED  BY ZenonT(60), <1>1, <1>3

LEMMA NextOneOpen ==
    ASSUME MaxInFlight = 1, TypeInv, OneOpen, [Next]_vars
    PROVE  OneOpen'
<1>1. ASSUME NEW r \in Requests,
             \/ Send(r) \/ IssueMove(r) \/ InvoiceMove(r) \/ MakingMove(r) \/ DeliveryMove(r)
             \/ PaymentMove(r)
      PROVE  OneOpen'
      BY ZenonT(60), <1>1, RunsAlone DEF OneOpen, OnlyMoves
<1>2. ASSUME Fault \/ UNCHANGED vars PROVE OneOpen'
  <2>1. \A q \in Requests : pc'[q] = pc[q] \/ pc'[q] = "failed"
        BY ZenonT(60), <1>2, FaultFrame DEF vars, serverVars
  <2>2. \A q \in Requests : pc'[q] \in Awaiting => pc[q] \in Awaiting
        BY ZenonT(60), <2>1, LabelsAwait DEF Answered
  <2>. QED  BY ZenonT(60), <2>2 DEF OneOpen
<1>. QED  BY ZenonT(60), <1>1, <1>2, StepCases

-----------------------------------------------------------------------------
(* The globals belong to the payment that runs                             *)

\* What a step of a payment does to the globals and to the addresses of its
\* calls.
LEMMA PaymentGlobals ==
    ASSUME TypeInv, NEW r \in Requests, PaymentMove(r)
    PROVE  /\ userAcc' = IF pc[r] = "payerAccount" THEN payment[r].fromId ELSE userAcc
           /\ merchantAcct' = IF pc[r] = "payeeAccount" THEN payment[r].toId ELSE merchantAcct
           /\ payment'[r].callFrom =
                IF pc[r] \in {"payeeAccount", "gotPayeeBalance", "toppedUp"}
                THEN userAcc ELSE payment[r].callFrom
           /\ payment'[r].callTo =
                IF pc[r] \in {"gotPayerBalance", "gotPayeeBalance", "toppedUp", "sent"}
                THEN merchantAcct ELSE payment[r].callTo
<1>1. payment[r] \in Payment /\ payment \in [Requests -> Payment]
      BY StringTypes
<1>2. CASE PayInvoice(r)
      BY ZenonT(60), <1>1, <1>2 DEF PayInvoice, Payment, Step, globals
<1>3. CASE PayeeAccount(r)
      BY ZenonT(60), <1>1, <1>3 DEF PayeeAccount, Payment, Step
<1>4. CASE GotPayeeBalance(r)
      BY ZenonT(60), <1>1, <1>4 DEF GotPayeeBalance, Payment, Step, globals
<1>5. CASE ToppedUp(r)
      BY ZenonT(60), <1>1, <1>5 DEF ToppedUp, Payment, Step, globals
<1>6. CASE PayerBalance(r) \/ PayeeBalance(r)
      BY ZenonT(60), <1>1, <1>6 DEF PayerBalance, PayeeBalance, Payment, Step, globals
<1>7. CASE TxCount(r)
      BY ZenonT(60), <1>1, <1>7 DEF TxCount, Payment, Step, globals
<1>8. CASE GotPayerBalance(r)
      BY ZenonT(60), <1>1, <1>8 DEF GotPayerBalance, Payment, Step, globals
<1>9. CASE Sent(r)
      BY ZenonT(60), <1>1, <1>9 DEF Sent, Payment, Step, globals
<1>10. CASE SendTx(r)
      BY ZenonT(60), <1>1, <1>10 DEF SendTx, Payment, Step, globals
<1>11. CASE PayerAccount(r)
      BY ZenonT(60), <1>11 DEF PayerAccount, Step
<1>12. CASE TopUp(r) \/ NewBalance(r) \/ Paid(r)
      BY ZenonT(60), <1>12 DEF TopUp, NewBalance, Paid, Step, globals
<1>. QED  BY ZenonT(60), <1>2, <1>3, <1>4, <1>5, <1>6, <1>7, <1>8, <1>9, <1>10, <1>11, <1>12
             DEF PaymentMove, PaymentStep

\* The order of the steps of a payment.
LEMMA PaymentOrder ==
    ASSUME TypeInv, NEW r \in Requests, PaymentMove(r)
    PROVE  /\ pc'[r] # "payInvoice"
           /\ pc'[r] = "payerAccount" => pc[r] = "payInvoice"
           /\ pc'[r] = "payeeAccount" => pc[r] = "payerAccount"
           /\ pc'[r] = "payerBalance" => pc[r] = "payeeAccount"
           /\ pc'[r] = "gotPayerBalance" => pc[r] = "payerBalance"
           /\ pc'[r] = "payeeBalance" => pc[r] = "gotPayerBalance"
           /\ pc'[r] = "gotPayeeBalance" => pc[r] = "payeeBalance"
           /\ pc'[r] = "topUp" => pc[r] = "gotPayeeBalance"
           /\ pc'[r] = "toppedUp" => pc[r] = "topUp"
           /\ pc'[r] = "txCount" => pc[r] \in {"gotPayeeBalance", "toppedUp"}
           /\ pc'[r] = "sendTx" => pc[r] = "txCount"
           /\ pc'[r] = "sent" => pc[r] = "sendTx"
           /\ pc'[r] = "newBalance" => pc[r] = "sent"
           /\ pc'[r] = "paid" => pc[r] = "newBalance"
           /\ pc'[r] = "ok" => pc[r] = "paid"
           /\ pc'[r] = "refused" => pc[r] = "newBalance"
           /\ pc'[r] = "failed" => pc[r] \in {"topUp", "sendTx"}
<1>1. pc \in [Requests -> {"idle"} \cup Awaiting \cup Answered]
      BY StringTypes
<1>2. CASE PayInvoice(r) \/ PayerAccount(r) \/ PayeeAccount(r) \/ PayerBalance(r)
      BY ZenonT(60), <1>1, <1>2 DEF PayInvoice, PayerAccount, PayeeAccount, PayerBalance, Step
<1>3. CASE GotPayerBalance(r) \/ PayeeBalance(r) \/ GotPayeeBalance(r)
      BY ZenonT(60), <1>1, <1>3 DEF GotPayerBalance, PayeeBalance, GotPayeeBalance, Step
<1>4. CASE TopUp(r) \/ ToppedUp(r) \/ TxCount(r) \/ SendTx(r)
      BY ZenonT(60), <1>1, <1>4 DEF TopUp, ToppedUp, TxCount, SendTx, Step
<1>5. CASE Sent(r) \/ NewBalance(r) \/ Paid(r)
      BY ZenonT(60), <1>1, <1>5 DEF Sent, NewBalance, Paid, Step
<1>. QED  BY ZenonT(60), <1>2, <1>3, <1>4, <1>5 DEF PaymentMove, PaymentStep

LEMMA PaymentStepSerial ==
    ASSUME TypeInv, NEW r \in Requests, SerialAt(r), PaymentMove(r)
    PROVE  SerialAt(r)'
<1>. DEFINE p == payment[r]
            q == payment'[r]
<1>1. q.fromId = p.fromId /\ q.toId = p.toId
      BY ZenonT(60), PaymentArgs
<1>2. pc'[r] \in UserSet => userAcc' = q.fromId
  <2>1. pc'[r] \in UserSet => pc[r] = "payerAccount" \/ pc[r] \in UserSet
        BY ZenonT(60), PaymentOrder DEF UserSet, PaymentLabels
  <2>. QED  BY ZenonT(60), <1>1, <2>1, PaymentGlobals DEF SerialAt
<1>3. pc'[r] \in MerchantSet => merchantAcct' = q.toId
  <2>1. pc'[r] \in MerchantSet => pc[r] = "payeeAccount" \/ pc[r] \in MerchantSet
        BY ZenonT(60), PaymentOrder DEF MerchantSet, UserSet, PaymentLabels
  <2>. QED  BY ZenonT(60), <1>1, <2>1, PaymentGlobals DEF SerialAt
<1>4. pc'[r] \in {"payerBalance", "topUp", "txCount", "sendTx"} => q.callFrom = q.fromId
  <2>1. pc'[r] \in {"payerBalance", "topUp", "txCount", "sendTx"} =>
          pc[r] \in {"payeeAccount", "gotPayeeBalance", "toppedUp"} \/ pc[r] = "txCount"
        BY ZenonT(60), PaymentOrder
  <2>2. ASSUME pc[r] \in {"payeeAccount", "gotPayeeBalance", "toppedUp"}
        PROVE  q.callFrom = p.fromId
    <3>1. pc[r] \in UserSet
          BY ZenonT(60), <2>2 DEF UserSet, PaymentLabels
    <3>. QED  BY ZenonT(60), <2>2, <3>1, PaymentGlobals DEF SerialAt
  <2>3. ASSUME pc[r] = "txCount" PROVE q.callFrom = p.fromId
    <3>1. pc[r] \notin {"payeeAccount", "gotPayeeBalance", "toppedUp"}
          BY ZenonT(60), <2>3
    <3>. QED  BY ZenonT(60), <2>3, <3>1, PaymentGlobals DEF SerialAt
  <2>. QED  BY ZenonT(60), <1>1, <2>1, <2>2, <2>3
<1>5. pc'[r] \in {"payeeBalance", "topUp", "txCount", "sendTx", "newBalance"} =>
        q.callTo = q.toId
  <2>1. pc'[r] \in {"payeeBalance", "topUp", "txCount", "sendTx", "newBalance"} =>
          pc[r] \in {"gotPayerBalance", "gotPayeeBalance", "toppedUp", "sent"}
          \/ pc[r] = "txCount"
        BY ZenonT(60), PaymentOrder
  <2>2. ASSUME pc[r] \in {"gotPayerBalance", "gotPayeeBalance", "toppedUp", "sent"}
        PROVE  q.callTo = p.toId
    <3>1. pc[r] \in MerchantSet
          BY ZenonT(60), <2>2 DEF MerchantSet, UserSet, PaymentLabels
    <3>. QED  BY ZenonT(60), <2>2, <3>1, PaymentGlobals DEF SerialAt
  <2>3. ASSUME pc[r] = "txCount" PROVE q.callTo = p.toId
    <3>1. pc[r] \notin {"gotPayerBalance", "gotPayeeBalance", "toppedUp", "sent"}
          BY ZenonT(60), <2>3
    <3>. QED  BY ZenonT(60), <2>3, <3>1, PaymentGlobals DEF SerialAt
  <2>. QED  BY ZenonT(60), <1>1, <2>1, <2>2, <2>3
<1>6. q.receipt # NoReceipt => q.receipt.from = q.fromId /\ q.receipt.to = q.toId
  <2>1. CASE q.receipt = p.receipt
        BY ZenonT(60), <1>1, <2>1 DEF SerialAt
  <2>2. CASE /\ pc[r] = "sendTx"
             /\ q.receipt = [from |-> p.callFrom, to |-> p.callTo, value |-> p.price]
    <3>1. \A x, f, t, v : x = [from |-> f, to |-> t, value |-> v] => x.from = f /\ x.to = t
          OBVIOUS
    <3>2. q.receipt.from = p.callFrom /\ q.receipt.to = p.callTo
          BY SMTT(60), <2>2, <3>1
    <3>3. p.callFrom = p.fromId /\ p.callTo = p.toId
          BY ZenonT(60), <2>2 DEF SerialAt
    <3>. QED  BY ZenonT(60), <1>1, <3>2, <3>3
  <2>. QED  BY ZenonT(60), <2>1, <2>2, PaymentReceipt
<1>. QED  BY ZenonT(60), <1>2, <1>3, <1>4, <1>5, <1>6 DEF SerialAt

LEMMA NextSerialAt ==
    ASSUME MaxInFlight = 1, TypeInv, PaymentInv, SerialInv, [Next]_vars, NEW q \in Requests
    PROVE  SerialAt(q)'
<1>1. SerialAt(q) /\ PayAt(q) /\ OneOpen
      BY DEF SerialInv, PaymentInv
<1>2. ASSUME pc'[q] \notin UserSet, payment'[q] = payment[q] PROVE SerialAt(q)'
  <2>1. /\ pc'[q] \notin MerchantSet
        /\ pc'[q] \notin {"payerBalance", "topUp", "txCount", "sendTx"}
        /\ pc'[q] \notin {"payeeBalance", "topUp", "txCount", "sendTx", "newBalance"}
        BY ZenonT(60), <1>2 DEF MerchantSet, UserSet, PaymentLabels
  <2>. QED  BY ZenonT(60), <1>1, <1>2, <2>1 DEF SerialAt
<1>3. UserSet \subseteq Awaiting
      BY ZenonT(60), LabelsAwait DEF UserSet
<1>4. CASE IssueMove(q) \/ InvoiceMove(q) \/ MakingMove(q) \/ DeliveryMove(q)
  <2>1. pc'[q] \notin UserSet /\ payment'[q] = payment[q]
        BY ZenonT(60), <1>4, IssueFrame, InvoiceFrame, MakingFrame, DeliveryFrame DEF RunsIn,
           Answered, IssueLabels, InvoiceLabels, MakingLabels, DeliveryLabels, PaymentLabels,
           UserSet
  <2>. QED  BY ZenonT(60), <1>2, <2>1
<1>5. CASE PaymentMove(q)
      BY ZenonT(60), <1>1, <1>5, PaymentStepSerial
<1>6. CASE Send(q)
  <2>1. ASSUME NEW i, NEW p, PostPaySupplier(q, i, p), pc'[q] = "payInvoice"
        PROVE  SerialAt(q)'
    <3>1. payment'[q].receipt = payment[q].receipt
          BY ZenonT(60), <2>1, StringTypes DEF PostPaySupplier, Payment
    <3>2. payment[q].receipt = NoReceipt
          BY ZenonT(60), <1>1, <1>6, SendFrame DEF PayAt
    <3>3. /\ pc'[q] \notin UserSet /\ pc'[q] \notin MerchantSet
          /\ pc'[q] \notin {"payerBalance", "topUp", "txCount", "sendTx"}
          /\ pc'[q] \notin {"payeeBalance", "topUp", "txCount", "sendTx", "newBalance"}
          BY ZenonT(60), <2>1 DEF MerchantSet, UserSet, PaymentLabels
    <3>. QED  BY ZenonT(60), <3>1, <3>2, <3>3 DEF SerialAt
  <2>2. ASSUME pc'[q] \in {"createPO", "readPO", "readInvoice", "findRow"} \cup Answered
        PROVE  pc'[q] \notin UserSet
        BY ZenonT(60), <2>2 DEF Answered, UserSet, PaymentLabels
  <2>. QED  BY ZenonT(60), <1>2, <1>6, <2>1, <2>2, SendCases
<1>7. ASSUME NEW r \in Requests, r # q,
             \/ Send(r) \/ IssueMove(r) \/ InvoiceMove(r) \/ MakingMove(r) \/ DeliveryMove(r)
             \/ PaymentMove(r)
      PROVE  SerialAt(q)'
  <2>1. OnlyMoves(r) /\ pc[q] \notin Awaiting
        BY ZenonT(60), <1>1, <1>7, RunsAlone
  <2>. QED  BY ZenonT(60), <1>2, <1>3, <1>7, <2>1 DEF OnlyMoves
<1>8. CASE Fault
  <2>1. payment'[q] = payment[q]
        BY ZenonT(60), <1>8, FaultFrame
  <2>2. pc'[q] \notin UserSet \/ (pc'[q] = pc[q] /\ userAcc' = userAcc
                                   /\ merchantAcct' = merchantAcct)
    <3>1. "failed" \notin UserSet
          BY ZenonT(60) DEF UserSet, PaymentLabels
    <3>2. CASE CallFails
          BY ZenonT(60), <3>1, <3>2, StringTypes DEF CallFails, globals
    <3>3. CASE Crash
          BY ZenonT(60), <1>3, <3>1, <3>3, StringTypes DEF Crash, InFlight
    <3>. QED  BY ZenonT(60), <1>8, <3>2, <3>3 DEF Fault
  <2>. QED  BY ZenonT(60), <1>1, <1>2, <2>1, <2>2 DEF SerialAt
<1>9. CASE UNCHANGED vars
      BY ZenonT(60), <1>1, <1>9 DEF vars, serverVars, globals, SerialAt
<1>. QED  BY ZenonT(60), <1>4, <1>5, <1>6, <1>7, <1>8, <1>9, StepCases

LEMMA InitSerial == Init => SerialInv
<1>. SUFFICES ASSUME Init PROVE SerialInv
     OBVIOUS
<1>1. \A r \in Requests : pc[r] = "idle" /\ payment[r].receipt = NoReceipt
      BY ZenonT(60) DEF Init, ServerInit, PaymentInit, NoPayment
<1>2. OneOpen
      BY ZenonT(60), <1>1, LabelsAwait DEF OneOpen
<1>3. \A r \in Requests : SerialAt(r)
      BY ZenonT(60), <1>1 DEF SerialAt, MerchantSet, UserSet, PaymentLabels
<1>. QED  BY ZenonT(60), <1>2, <1>3 DEF SerialInv

LEMMA NextSerial ==
    ASSUME MaxInFlight = 1
    PROVE  TypeInv /\ PaymentInv /\ SerialInv /\ [Next]_vars => SerialInv'
BY ZenonT(60), NextOneOpen, NextSerialAt DEF SerialInv

\* When clients wait for one answer before they send the next request, the
\* coins of every payment go from the payer to the supplier that its request
\* names, also when calls fail and the server crashes: the globals that
\* transferAmount uses are those of the payment itself.
THEOREM SerialPaymentsReachSupplier ==
    ASSUME MaxInFlight = 1
    PROVE  Spec => []PaymentReachesSupplier
<1>1. SerialInv => PaymentReachesSupplier
      BY ZenonT(60) DEF SerialInv, SerialAt, PaymentReachesSupplier
<1>. QED  BY InitType, NextType, InitRows, NextRows, InitTokens, NextTokens, InitPayment,
             NextPayment, InitSerial, NextSerial, <1>1, PTL DEF Spec

-----------------------------------------------------------------------------
(* The balances that a payment reads and moves                             *)

LEMMA PaymentReads ==
    ASSUME TypeInv, NEW r \in Requests, PaymentMove(r)
    PROVE  /\ payment'[r].payerBalance =
                IF pc[r] = "payerBalance" THEN balance[payment[r].callFrom]
                ELSE payment[r].payerBalance
           /\ payment'[r].initialBalance =
                IF pc[r] = "payeeBalance" THEN balance[payment[r].callTo]
                ELSE payment[r].initialBalance
           /\ payment'[r].count =
                IF pc[r] = "txCount" THEN nonce[payment[r].callFrom] ELSE payment[r].count
           /\ pc[r] \notin {"topUp", "sendTx"} => balance' = balance
           /\ pc[r] # "sendTx" => nonce' = nonce
<1>1. payment[r] \in Payment /\ payment \in [Requests -> Payment]
      BY StringTypes
<1>2. CASE PayInvoice(r) \/ GotPayerBalance(r)
      BY ZenonT(60), <1>1, <1>2 DEF PayInvoice, GotPayerBalance, Payment, Step, chainVars,
         coinVars
<1>3. CASE PayeeAccount(r) \/ GotPayeeBalance(r)
      BY ZenonT(200), <1>1, <1>3 DEF PayeeAccount, GotPayeeBalance, Payment, Step, chainVars,
         coinVars
<1>4. CASE PayerBalance(r)
      BY ZenonT(60), <1>1, <1>4 DEF PayerBalance, Payment, Step, chainVars, coinVars
<1>5. CASE PayeeBalance(r)
      BY ZenonT(60), <1>1, <1>5 DEF PayeeBalance, Payment, Step, chainVars, coinVars
<1>6. CASE TxCount(r)
      BY ZenonT(60), <1>1, <1>6 DEF TxCount, Payment, Step, chainVars, coinVars
<1>7. CASE ToppedUp(r) \/ Sent(r)
      BY ZenonT(60), <1>1, <1>7 DEF ToppedUp, Sent, Payment, Step, chainVars, coinVars
<1>8. CASE SendTx(r)
      BY ZenonT(60), <1>1, <1>8 DEF SendTx, Payment, Step
<1>9. CASE PayerAccount(r) \/ TopUp(r) \/ NewBalance(r) \/ Paid(r)
      BY ZenonT(60), <1>9 DEF PayerAccount, TopUp, NewBalance, Paid, Step, chainVars, coinVars
<1>. QED  BY ZenonT(60), <1>2, <1>3, <1>4, <1>5, <1>6, <1>7, <1>8, <1>9
             DEF PaymentMove, PaymentStep

\* A transfer between two accounts takes the coins from the one, gives them to
\* the other, and leaves the rest alone.
LEMMA TransferMoves ==
    ASSUME CoinTypeOK, NEW from \in Accounts, NEW to \in Accounts, from # to,
           NEW value \in Nat, transfer(from, to, value)
    PROVE  /\ balance'[from] = balance[from] - value
           /\ balance'[to] = balance[to] + value
           /\ \A a \in Accounts \ {from, to} : balance'[a] = balance[a]
BY DEF CoinTypeOK, transfer

-----------------------------------------------------------------------------
(* A payment that nothing disturbs                                         *)

\* What the proofs below assume of the clients and of the calls.
Undisturbed == MaxInFlight = 1 /\ MaxFaults = 0 /\ RolesApart

\* The parties of a payment are two accounts of the demonstration.
LEMMA PaymentRoles ==
    ASSUME Undisturbed, TypeInv, PartiesOK, NEW r \in Requests, pc[r] \in PaymentLabels
    PROVE  LET p == payment[r]
           IN  /\ p.fromId \in Accounts /\ p.toId \in Accounts
               /\ p.fromId \in Payers /\ p.toId \in Payees
               /\ p.fromId # ADMIN /\ p.fromId # p.toId /\ p.toId # ADMIN
<1>1. payment[r].fromId \in Accounts /\ payment[r].toId \in Accounts
      BY ZenonT(60) DEF TypeInv, LocalsOK, LocalsAt
<1>2. Undefined \notin Accounts
      BY DEF Undefined, Accounts
<1>3. payment[r].fromId \in Payers /\ payment[r].toId \in Payees
      BY ZenonT(60), <1>1, <1>2 DEF PartiesOK, PartiesAt
<1>. QED  BY ZenonT(60), <1>1, <1>3 DEF Undisturbed, RolesApart

\* Nothing fails.
LEMMA NoFaults ==
    ASSUME Undisturbed, TypeInv, Fault
    PROVE  FALSE
<1>1. faults < MaxFaults /\ faults \in 0..MaxFaults
      BY ZenonT(60), FaultFrame DEF TypeInv, TypeOK, ServerTypeOK
<1>. QED  BY <1>1 DEF Undisturbed

\* A payer whose request holds no coins has none.
LEMMA PayerIsEmpty ==
    ASSUME Undisturbed, TypeInv, PartiesOK, OneOpen, Holdings, NEW r \in Requests,
           pc[r] \in PaymentLabels \ Funded
    PROVE  balance[payment[r].fromId] = 0
<1>1. ASSUME NEW s \in Requests, pc[s] \in Funded PROVE FALSE
  <2>1. pc[s] \in Awaiting /\ pc[r] \in Awaiting
        BY ZenonT(60), <1>1 DEF Funded, Awaiting, PaymentLabels
  <2>. QED  BY ZenonT(60), <1>1, <2>1 DEF OneOpen
<1>. QED  BY ZenonT(60), <1>1, PaymentRoles DEF Holdings

\* The steps that move coins or compare balances, when nothing disturbs them.
LEMMA TopUpFunds ==
    ASSUME Undisturbed, TypeInv, PartiesOK, SerialInv, Holdings, NEW r \in Requests, TopUp(r)
    PROVE  \/ pc'[r] = "failed" /\ balance' = balance
           \/ /\ pc'[r] = "toppedUp"
              /\ balance'[payment[r].fromId] = payment[r].price
              /\ \A a \in Accounts \ {ADMIN, payment[r].fromId} : balance'[a] = balance[a]
<1>. DEFINE p == payment[r]
<1>1. pc[r] = "topUp" /\ pc[r] \in PaymentLabels \ Funded
      BY ZenonT(60) DEF TopUp, PaymentLabels, Funded
<1>2. CASE ~CanPay(ADMIN, p.price)
      BY ZenonT(60), <1>2, StringTypes DEF TopUp, Step
<1>3. CASE CanPay(ADMIN, p.price)
  <2>1. pc'[r] = "toppedUp" /\ transfer(ADMIN, p.callFrom, p.price)
        BY ZenonT(60), <1>3, StringTypes DEF TopUp, Step
  <2>2. p.callFrom = p.fromId
        BY ZenonT(60), <1>1 DEF SerialInv, SerialAt
  <2>3. balance[p.fromId] = 0
        BY ZenonT(60), <1>1, PayerIsEmpty DEF SerialInv
  <2>4. p.fromId \in Accounts /\ p.fromId # ADMIN /\ ADMIN \in Accounts /\ p.price \in Nat
        BY ZenonT(60), <1>1, PaymentRoles, AccountAddress, StringTypes DEF Payment
  <2>5. CoinTypeOK
        BY DEF TypeInv, TypeOK
  <2>6. /\ balance'[p.fromId] = balance[p.fromId] + p.price
        /\ \A a \in Accounts \ {ADMIN, p.fromId} : balance'[a] = balance[a]
        BY ZenonT(60), <2>1, <2>2, <2>4, <2>5, TransferMoves
  <2>7. balance'[p.fromId] = p.price
        BY SMTT(60), <2>3, <2>4, <2>6
  <2>. QED  BY ZenonT(60), <2>1, <2>6, <2>7
<1>. QED  BY ZenonT(60), <1>2, <1>3

LEMMA SendTxMoves ==
    ASSUME Undisturbed, TypeInv, PartiesOK, SerialInv, NEW r \in Requests, CoinsAt(r), SendTx(r)
    PROVE  /\ pc'[r] = "sent"
           /\ balance'[payment[r].fromId] = 0
           /\ balance'[payment[r].toId] = payment[r].initialBalance + payment[r].price
           /\ \A a \in Accounts \ {payment[r].fromId, payment[r].toId} : balance'[a] = balance[a]
<1>. DEFINE p == payment[r]
<1>1. pc[r] = "sendTx" /\ pc[r] \in PaymentLabels /\ pc[r] \in Funded
      BY ZenonT(60) DEF SendTx, PaymentLabels, Funded, Step
<1>2. p.callFrom = p.fromId /\ p.callTo = p.toId
      BY ZenonT(60), <1>1 DEF SerialInv, SerialAt
<1>3. p.count = nonce[p.callFrom] /\ balance[p.fromId] = p.price
      /\ p.initialBalance = balance[p.toId]
      BY ZenonT(60), <1>1 DEF CoinsAt
<1>4. /\ p.fromId \in Accounts /\ p.toId \in Accounts /\ p.fromId # p.toId
      /\ p.price \in Nat
      BY ZenonT(60), <1>1, PaymentRoles, StringTypes DEF Payment
<1>5. CanPay(p.callFrom, p.price)
      BY SMTT(60), <1>2, <1>3, <1>4 DEF CanPay
<1>6. pc'[r] = "sent" /\ transfer(p.callFrom, p.callTo, p.price)
      BY ZenonT(60), <1>3, <1>5, StringTypes DEF SendTx, Step
<1>7. CoinTypeOK
      BY DEF TypeInv, TypeOK
<1>8. /\ balance'[p.fromId] = balance[p.fromId] - p.price
      /\ balance'[p.toId] = balance[p.toId] + p.price
      /\ \A a \in Accounts \ {p.fromId, p.toId} : balance'[a] = balance[a]
      BY ZenonT(60), <1>2, <1>4, <1>6, <1>7, TransferMoves
<1>9. balance'[p.fromId] = 0
      BY SMTT(60), <1>3, <1>4, <1>8
<1>. QED  BY ZenonT(60), <1>3, <1>6, <1>8, <1>9

LEMMA NewBalanceAgrees ==
    ASSUME TypeInv, SerialInv, NEW r \in Requests, CoinsAt(r), NewBalance(r)
    PROVE  pc'[r] = "paid"
<1>1. pc[r] = "newBalance"
      BY ZenonT(60) DEF NewBalance, Step
<1>2. /\ balance[payment[r].toId] = payment[r].initialBalance + payment[r].price
      /\ payment[r].callTo = payment[r].toId
      BY ZenonT(60), <1>1 DEF CoinsAt, SerialInv, SerialAt
<1>. QED  BY ZenonT(60), <1>2, StringTypes DEF NewBalance, Step

LEMMA PaymentActs ==
    ASSUME NEW r \in Requests, PaymentMove(r)
    PROVE  /\ pc[r] = "topUp" => TopUp(r)
           /\ pc[r] = "sendTx" => SendTx(r)
           /\ pc[r] = "newBalance" => NewBalance(r)
           /\ pc[r] = "gotPayeeBalance" => GotPayeeBalance(r)
BY ZenonT(60) DEF PaymentMove, PaymentStep, PayInvoice, PayerAccount, PayeeAccount, PayerBalance,
   GotPayerBalance, PayeeBalance, GotPayeeBalance, TopUp, ToppedUp, TxCount, SendTx, Sent,
   NewBalance, Paid, Step

\* A payment that nothing disturbs always tops the payer up, sends what it
\* topped up, and finds the balance it expects.
LEMMA PaymentCourse ==
    ASSUME Undisturbed, TypeInv, PartiesOK, SerialInv, CoinsInv, NEW r \in Requests,
           PaymentMove(r)
    PROVE  /\ pc'[r] = "txCount" => pc[r] = "toppedUp"
           /\ pc'[r] # "refused"
           /\ pc'[r] = "failed" => pc[r] = "topUp"
<1>1. CoinsAt(r)
      BY DEF CoinsInv
<1>2. pc[r] = "gotPayeeBalance" => pc'[r] = "topUp"
      BY ZenonT(60), <1>1, PaymentActs, StringTypes DEF CoinsAt, GotPayeeBalance, Step
<1>3. pc[r] = "newBalance" => pc'[r] = "paid"
      BY ZenonT(60), <1>1, PaymentActs, NewBalanceAgrees
<1>4. pc[r] = "sendTx" => pc'[r] = "sent"
      BY ZenonT(60), <1>1, PaymentActs, SendTxMoves
<1>. QED  BY ZenonT(60), <1>2, <1>3, <1>4, PaymentOrder

LEMMA PaymentStepCoins ==
    ASSUME Undisturbed, TypeInv, PartiesOK, PaymentInv, SerialInv, CoinsInv,
           NEW r \in Requests, PaymentMove(r)
    PROVE  CoinsAt(r)'
<1>. DEFINE p == payment[r]
            q == payment'[r]
<1>1. CoinsAt(r) /\ SerialAt(r) /\ PayAt(r) /\ OneOpen /\ Holdings
      BY DEF CoinsInv, SerialInv, PaymentInv
<1>2. pc[r] \in PaymentLabels /\ q.fromId = p.fromId /\ q.toId = p.toId
      BY ZenonT(60), PaymentFrame, PaymentArgs DEF RunsIn
<1>3. /\ p.fromId \in Accounts /\ p.toId \in Accounts
      /\ p.toId # ADMIN /\ p.fromId # p.toId
      BY ZenonT(60), <1>2, PaymentRoles
<1>4. pc[r] # "payInvoice" => q.price = p.price
      BY ZenonT(60), PaymentPrice
<1>5. pc'[r] \in {"gotPayerBalance", "payeeBalance", "gotPayeeBalance"} => q.payerBalance = 0
  <2>1. CASE pc[r] = "payerBalance"
    <3>1. pc[r] \in PaymentLabels \ Funded
          BY ZenonT(60), <2>1 DEF PaymentLabels, Funded
    <3>2. balance[p.fromId] = 0 /\ p.callFrom = p.fromId
          BY ZenonT(60), <1>1, <2>1, <3>1, PayerIsEmpty DEF SerialAt
    <3>. QED  BY ZenonT(60), <2>1, <3>2, PaymentReads
  <2>2. CASE pc[r] \in {"gotPayerBalance", "payeeBalance"}
    <3>1. p.payerBalance = 0 /\ pc[r] # "payerBalance"
          BY ZenonT(60), <1>1, <2>2 DEF CoinsAt
    <3>. QED  BY ZenonT(60), <3>1, PaymentReads
  <2>. QED  BY ZenonT(60), <2>1, <2>2, PaymentOrder
<1>6. pc'[r] \in Funded => balance'[q.fromId] = q.price
  <2>1. CASE pc[r] = "topUp" /\ pc'[r] = "toppedUp"
        BY ZenonT(60), <1>1, <1>2, <1>4, <2>1, PaymentActs, TopUpFunds
  <2>2. CASE pc[r] \in {"toppedUp", "txCount"}
    <3>1. pc[r] \in Funded /\ pc[r] \notin {"topUp", "sendTx"} /\ pc[r] # "payInvoice"
          BY ZenonT(60), <2>2 DEF Funded
    <3>. QED  BY ZenonT(60), <1>1, <1>2, <1>4, <3>1, PaymentReads DEF CoinsAt
  <2>. QED  BY ZenonT(60), <2>1, <2>2, PaymentOrder, PaymentCourse DEF Funded
<1>7. pc'[r] \in {"gotPayeeBalance", "topUp"} \cup Funded =>
        q.initialBalance = balance'[q.toId]
  <2>1. CASE pc[r] = "payeeBalance"
    <3>1. p.callTo = p.toId
          BY ZenonT(60), <1>1, <2>1 DEF SerialAt
    <3>2. q.initialBalance = balance[p.callTo] /\ balance' = balance
          BY ZenonT(60), <2>1, PaymentReads
    <3>. QED  BY ZenonT(60), <1>2, <3>1, <3>2
  <2>2. CASE pc[r] = "topUp" /\ pc'[r] = "toppedUp"
    <3>1. balance'[p.toId] = balance[p.toId]
          BY ZenonT(60), <1>1, <1>3, <2>2, PaymentActs, TopUpFunds
    <3>2. q.initialBalance = p.initialBalance
          BY ZenonT(60), <2>2, PaymentReads
    <3>3. p.initialBalance = balance[p.toId]
          BY ZenonT(60), <1>1, <2>2 DEF CoinsAt
    <3>. QED  BY ZenonT(60), <1>2, <3>1, <3>2, <3>3
  <2>3. CASE pc[r] \in {"gotPayeeBalance", "toppedUp", "txCount"}
    <3>1. /\ pc[r] \in {"gotPayeeBalance", "topUp"} \cup Funded
          /\ pc[r] \notin {"topUp", "sendTx"} /\ pc[r] # "payeeBalance"
          BY ZenonT(60), <2>3 DEF Funded
    <3>2. q.initialBalance = p.initialBalance /\ balance' = balance
          BY ZenonT(60), <3>1, PaymentReads
    <3>3. p.initialBalance = balance[p.toId]
          BY ZenonT(60), <1>1, <3>1 DEF CoinsAt
    <3>. QED  BY ZenonT(60), <1>2, <3>2, <3>3
  <2>. QED  BY ZenonT(60), <2>1, <2>2, <2>3, PaymentOrder DEF Funded
<1>8. pc'[r] = "sendTx" => q.count = nonce'[q.callFrom]
      BY ZenonT(60), PaymentOrder, PaymentReads, PaymentGlobals
<1>9. pc'[r] \in {"sent", "newBalance"} => balance'[q.toId] = q.initialBalance + q.price
  <2>1. CASE pc[r] = "sendTx"
    <3>1. balance'[p.toId] = p.initialBalance + p.price
          BY ZenonT(60), <1>1, <2>1, PaymentActs, SendTxMoves
    <3>2. q.initialBalance = p.initialBalance /\ q.price = p.price
          BY ZenonT(60), <1>4, <2>1, PaymentReads
    <3>. QED  BY ZenonT(60), <1>2, <3>1, <3>2
  <2>2. CASE pc[r] = "sent"
    <3>1. balance[p.toId] = p.initialBalance + p.price
          BY ZenonT(60), <1>1, <2>2 DEF CoinsAt
    <3>2. q.initialBalance = p.initialBalance /\ q.price = p.price /\ balance' = balance
          BY ZenonT(60), <1>4, <2>2, PaymentReads
    <3>. QED  BY ZenonT(60), <1>2, <3>1, <3>2
  <2>. QED  BY ZenonT(60), <2>1, <2>2, PaymentOrder
<1>10. pc'[r] = "ok" => q.receipt # NoReceipt
      BY ZenonT(60), <1>1, PaymentOrder, PaymentReceipt DEF PayAt
<1>11. pc'[r] \in {"refused", "failed"} => q.receipt = NoReceipt
  <2>1. pc'[r] \in {"refused", "failed"} => pc[r] = "topUp" /\ q.receipt = p.receipt
        BY ZenonT(60), PaymentCourse, PaymentReceipt
  <2>2. pc[r] = "topUp" => p.receipt = NoReceipt
        BY ZenonT(60), <1>1 DEF PayAt, Unsent, PaymentLabels
  <2>. QED  BY ZenonT(60), <2>1, <2>2
<1>. QED  BY ZenonT(60), <1>5, <1>6, <1>7, <1>8, <1>9, <1>10, <1>11 DEF CoinsAt

LEMMA PaymentStepHoldings ==
    ASSUME Undisturbed, TypeInv, PartiesOK, SerialInv, CoinsInv, NEW r \in Requests,
           PaymentMove(r)
    PROVE  Holdings'
<1>. DEFINE f == payment[r].fromId
<1>1. CoinsAt(r) /\ OneOpen /\ Holdings
      BY DEF CoinsInv, SerialInv
<1>2. pc[r] \in PaymentLabels /\ payment'[r].fromId = f
      BY ZenonT(60), PaymentFrame, PaymentArgs DEF RunsIn
<1>3. ASSUME NEW s \in Requests, pc[s] \in Funded PROVE s = r
  <2>1. pc[s] \in Awaiting /\ pc[r] \in Awaiting
        BY ZenonT(60), <1>2, <1>3 DEF Funded, Awaiting, PaymentLabels
  <2>. QED  BY ZenonT(60), <1>1, <2>1 DEF OneOpen
<1>4. ASSUME NEW a \in Payers, a # f PROVE balance[a] = 0
      BY ZenonT(60), <1>1, <1>3, <1>4 DEF Holdings
<1>5. ASSUME NEW a \in Payers PROVE a \in Accounts /\ a # ADMIN /\ a # payment[r].toId
  <2>1. a \in Accounts
        BY ZenonT(60), TransferAssumption, PaymentAssumption DEF Payers
  <2>2. payment[r].toId \in Payees
        BY ZenonT(60), <1>2, PaymentRoles
  <2>. QED  BY ZenonT(60), <2>1, <2>2 DEF Undisturbed, RolesApart
<1>6. CASE pc[r] = "topUp"
  <2>1. \/ balance' = balance
        \/ pc'[r] = "toppedUp" /\ \A a \in Accounts \ {ADMIN, f} : balance'[a] = balance[a]
        BY ZenonT(60), <1>1, <1>6, PaymentActs, TopUpFunds
  <2>2. \A a \in Payers \ {f} : balance'[a] = 0
        BY ZenonT(60), <1>4, <1>5, <2>1
  <2>3. pc'[r] \in Funded \/ balance'[f] = 0
    <3>1. pc[r] \in PaymentLabels \ Funded
          BY ZenonT(60), <1>2, <1>6 DEF Funded
    <3>2. balance[f] = 0
          BY ZenonT(60), <1>1, <3>1, PayerIsEmpty
    <3>. QED  BY ZenonT(60), <2>1, <3>2 DEF Funded
  <2>. QED  BY ZenonT(60), <1>2, <2>2, <2>3 DEF Holdings
<1>7. CASE pc[r] = "sendTx"
  <2>1. /\ balance'[f] = 0
        /\ \A a \in Accounts \ {f, payment[r].toId} : balance'[a] = balance[a]
        BY ZenonT(60), <1>1, <1>7, PaymentActs, SendTxMoves
  <2>2. \A a \in Payers : balance'[a] = 0
        BY ZenonT(60), <1>4, <1>5, <2>1
  <2>. QED  BY ZenonT(60), <2>2 DEF Holdings
<1>8. CASE pc[r] \notin {"topUp", "sendTx"}
  <2>1. balance' = balance
        BY ZenonT(60), <1>8, PaymentReads
  <2>2. CASE pc[r] \in Funded
    <3>1. pc'[r] \in Funded
      <4>1. pc[r] \in {"toppedUp", "txCount"}
            BY ZenonT(60), <1>8, <2>2 DEF Funded
      <4>. QED  BY ZenonT(60), <4>1, StringTypes DEF PaymentMove, PaymentStep, PayInvoice,
                   PayerAccount, PayeeAccount, PayerBalance, GotPayerBalance, PayeeBalance,
                   GotPayeeBalance, TopUp, ToppedUp, TxCount, SendTx, Sent, NewBalance, Paid,
                   Step, Funded
    <3>. QED  BY ZenonT(60), <1>2, <1>4, <2>1, <3>1 DEF Holdings
  <2>3. CASE pc[r] \notin Funded
        BY ZenonT(60), <1>1, <1>3, <2>1, <2>3 DEF Holdings
  <2>. QED  BY ZenonT(60), <2>2, <2>3
<1>. QED  BY ZenonT(60), <1>6, <1>7, <1>8

LEMMA NextCoins ==
    ASSUME Undisturbed
    PROVE  TypeInv /\ TokenInv /\ PaymentInv /\ SerialInv /\ CoinsInv /\ [Next]_vars => CoinsInv'
<1>. SUFFICES ASSUME TypeInv, TokenInv, PaymentInv, SerialInv, CoinsInv, [Next]_vars
              PROVE  CoinsInv'
     OBVIOUS
<1>. DEFINE PayLabels == {"gotPayerBalance", "payeeBalance", "gotPayeeBalance", "topUp",
                          "toppedUp", "txCount", "sendTx", "sent", "newBalance"}
<1>1. /\ MaxInFlight = 1 /\ OneOpen /\ Holdings /\ PartiesOK /\ RoutesOK
      /\ \A q \in Requests : CoinsAt(q)
      BY ZenonT(60) DEF Undisturbed, SerialInv, CoinsInv, TokenInv
<1>2. ASSUME NEW q \in Requests, pc'[q] \notin PayLabels, pc'[q] = pc[q],
             payment'[q] = payment[q]
      PROVE  CoinsAt(q)'
      BY ZenonT(60), <1>1, <1>2 DEF CoinsAt, Funded
<1>3. ASSUME NEW q \in Requests, pc'[q] \notin PayLabels,
             Route[q] # "paySupplier" \/ pc'[q] \notin Answered
      PROVE  CoinsAt(q)'
      BY ZenonT(60), <1>3 DEF CoinsAt, Funded, Answered
<1>4. ASSUME NEW q \in Requests, pc[q] \notin Awaiting
      PROVE  pc[q] \notin PayLabels /\ pc[q] \notin Funded
      BY ZenonT(60), <1>4 DEF Awaiting, Funded
<1>5. ASSUME NEW r \in Requests, PaymentMove(r) PROVE CoinsInv'
  <2>1. CoinsAt(r)' /\ Holdings'
        BY ZenonT(60), <1>1, <1>5, PaymentStepCoins, PaymentStepHoldings
  <2>2. ASSUME NEW q \in Requests, q # r PROVE CoinsAt(q)'
        BY ZenonT(60), <1>1, <1>2, <1>4, <1>5, <2>2, RunsAlone DEF OnlyMoves
  <2>. QED  BY ZenonT(60), <2>1, <2>2 DEF CoinsInv
<1>6. ASSUME NEW r \in Requests,
             Send(r) \/ IssueMove(r) \/ InvoiceMove(r) \/ MakingMove(r) \/ DeliveryMove(r)
      PROVE  CoinsInv'
  <2>1. CoinsAt(r)'
    <3>1. CASE Send(r)
      <4>1. \/ pc'[r] = "payInvoice"
            \/ Route[r] # "paySupplier"
               /\ pc'[r] \in {"createPO", "readPO", "readInvoice", "findRow"} \cup Answered
            BY ZenonT(60), <3>1, SendCases
      <4>2. pc'[r] \notin PayLabels /\ (Route[r] # "paySupplier" \/ pc'[r] \notin Answered)
            BY ZenonT(60), <4>1 DEF Answered
      <4>. QED  BY ZenonT(60), <1>3, <4>2
    <3>2. CASE IssueMove(r) \/ InvoiceMove(r) \/ MakingMove(r) \/ DeliveryMove(r)
      <4>1. Route[r] # "paySupplier"
            BY ZenonT(60), <1>1, <3>2, IssueFrame, InvoiceFrame, MakingFrame, DeliveryFrame
               DEF RunsIn, RoutesOK, RouteAt
      <4>2. pc'[r] \notin PayLabels
            BY ZenonT(60), <3>2, IssueFrame, InvoiceFrame, MakingFrame, DeliveryFrame
               DEF RunsIn, Answered, IssueLabels, InvoiceLabels, MakingLabels, DeliveryLabels
      <4>. QED  BY ZenonT(60), <1>3, <4>1, <4>2
    <3>. QED  BY ZenonT(60), <1>6, <3>1, <3>2
  <2>2. ASSUME NEW q \in Requests, q # r PROVE CoinsAt(q)'
        BY ZenonT(60), <1>1, <1>2, <1>4, <1>6, <2>2, RunsAlone DEF OnlyMoves
  <2>3. Holdings'
    <3>1. balance' = balance
          BY ZenonT(60), <1>6, SendFrame, IssueFrame, InvoiceFrame, MakingFrame, DeliveryFrame
    <3>2. pc[r] \notin Funded
          BY ZenonT(60), <1>6, SendFrame, IssueFrame, InvoiceFrame, MakingFrame, DeliveryFrame
             DEF RunsIn, Funded, IssueLabels, InvoiceLabels, MakingLabels, DeliveryLabels
    <3>3. \A s \in Requests : pc[s] \notin Funded
          BY ZenonT(60), <1>1, <1>4, <1>6, <3>2, RunsAlone
    <3>. QED  BY ZenonT(60), <1>1, <3>1, <3>3 DEF Holdings
  <2>. QED  BY ZenonT(60), <2>1, <2>2, <2>3 DEF CoinsInv
<1>7. CASE UNCHANGED vars
      BY ZenonT(60), <1>7 DEF vars, serverVars, coinVars, CoinsInv, Holdings, CoinsAt
<1>. QED  BY ZenonT(60), <1>5, <1>6, <1>7, NoFaults, StepCases

LEMMA InitCoins ==
    ASSUME Undisturbed
    PROVE  Init => CoinsInv
<1>. SUFFICES ASSUME Init PROVE CoinsInv
     OBVIOUS
<1>1. \A r \in Requests : pc[r] = "idle"
      BY ZenonT(60) DEF Init, ServerInit
<1>2. \A a \in Payers : a \in Accounts /\ a # ADMIN
      BY TransferAssumption, PaymentAssumption DEF Payers, Undisturbed, RolesApart
<1>3. Holdings
      BY ZenonT(60), <1>2 DEF Init, CoinInit, Holdings
<1>4. \A r \in Requests : CoinsAt(r)
      BY ZenonT(60), <1>1 DEF CoinsAt, Funded
<1>. QED  BY <1>3, <1>4 DEF CoinsInv

\* When clients wait for one answer before they send the next request and no
\* call fails, a payment is answered 200 exactly when its coins moved: the
\* balance that transferAmount compares at the end is the one it expects.
THEOREM SerialAnswersAreTrue ==
    ASSUME MaxInFlight = 1, MaxFaults = 0, RolesApart
    PROVE  Spec => []PaymentAnswerIsTrue
<1>1. Undisturbed
      BY DEF Undisturbed
<1>2. CoinsInv => PaymentAnswerIsTrue
      BY ZenonT(60) DEF CoinsInv, CoinsAt, PaymentAnswerIsTrue, Answered
<1>3. /\ Init => CoinsInv
      /\ TypeInv /\ TokenInv /\ PaymentInv /\ SerialInv /\ CoinsInv /\ [Next]_vars => CoinsInv'
      BY ZenonT(60), <1>1, InitCoins, NextCoins
<1>. QED  BY InitType, NextType, InitRows, NextRows, InitTokens, NextTokens, InitPayment,
             NextPayment, InitSerial, NextSerial, <1>2, <1>3, PTL DEF Spec

\* Under the same conditions the payer holds nothing between two payments, so
\* the next one is topped up again: a top-up is spent whole.
THEOREM SerialTopUpsAreSpent ==
    ASSUME MaxInFlight = 1, MaxFaults = 0, RolesApart
    PROVE  Spec => []NoRemainder
<1>1. Undisturbed
      BY DEF Undisturbed
<1>2. CoinsInv => NoRemainder
  <2>. SUFFICES ASSUME CoinsInv, InFlight = {}, NEW p \in PaymentParties
                PROVE  balance[p[1]] = 0
       BY ZenonT(60) DEF NoRemainder
  <2>1. p[1] \in Payers
        BY ZenonT(60) DEF Payers
  <2>2. \A r \in Requests : pc[r] \notin Funded
        BY ZenonT(60) DEF InFlight, Funded, Awaiting
  <2>. QED  BY ZenonT(60), <2>1, <2>2 DEF CoinsInv, Holdings
<1>3. /\ Init => CoinsInv
      /\ TypeInv /\ TokenInv /\ PaymentInv /\ SerialInv /\ CoinsInv /\ [Next]_vars => CoinsInv'
      BY <1>1, InitCoins, NextCoins
<1>. QED  BY InitType, NextType, InitRows, NextRows, InitTokens, NextTokens, InitPayment,
             NextPayment, InitSerial, NextSerial, <1>2, <1>3, PTL DEF Spec
=============================================================================
