--------------------------- MODULE PaymentRoutes ---------------------------
(***************************************************************************)
(* POST /paySupplier/:invoiceId/:payerId/:supplierId: controller.payment   *)
(* over pizzaCoinClient.transferAmount.  A call takes its arguments from   *)
(* the globals userAcc and merchantAcct when the handler issues it and is  *)
(* executed by the node later: the two are separate steps.                 *)
(***************************************************************************)
EXTENDS ApiServer, Procurement, PizzaCoin

CONSTANT PaymentParties    \* the <<payerId, supplierId>> that clients send

ASSUME PaymentAssumption ==
    PaymentParties \subseteq (Accounts \ {ADMIN}) \X Accounts

VARIABLE payment    \* the local variables of the handlers

NoReceipt == [from |-> Undefined, to |-> Undefined, value |-> 0]

Receipt == [from : Addresses, to : Addresses, value : Nat]

NoPayment == [invoiceId |-> 0, fromId |-> Undefined, toId |-> Undefined, price |-> 0,
              callFrom |-> Undefined, callTo |-> Undefined,
              payerBalance |-> 0, initialBalance |-> 0,
              count |-> 0, receipt |-> NoReceipt]

Payment == [invoiceId : Ids, fromId : Addresses, toId : Addresses, price : Nat,
            callFrom : Addresses, callTo : Addresses,
            payerBalance : Nat, initialBalance : Nat,
            count : Nat, receipt : Receipt]

PaymentTypeOK == payment \in [Requests -> Payment]

PaymentInit == payment = [r \in Requests |-> NoPayment]

chainVars == <<procurementVars, coinVars>>

PostPaySupplier(r, invoiceId, parties) ==
    /\ Arrive(r, "paySupplier", "payInvoice")
    /\ payment' = [payment EXCEPT ![r].invoiceId = invoiceId, ![r].fromId = parties[1],
                                  ![r].toId = parties[2]]
    /\ UNCHANGED <<nextId, globals, chainVars>>

\* The price of an invoice that does not exist is 0, and no status is
\* checked.
PayInvoice(r) ==
    /\ Step(r, "payInvoice", "payerAccount")
    /\ payment' = [payment EXCEPT ![r].price = invoices[payment[r].invoiceId].price]
    /\ UNCHANGED <<nextId, globals, chainVars>>

PayerAccount(r) ==
    /\ Step(r, "payerAccount", "payeeAccount")
    /\ userAcc' = payment[r].fromId
    /\ UNCHANGED <<nextId, merchantAcct, fromAddress, toAddress, chainVars, payment>>

\* Mutant: the payee is taken from the wrong parameter.
PayeeAccount_payer(r) ==
    /\ Step(r, "payeeAccount", "payerBalance")
    /\ merchantAcct' = payment[r].fromId
    /\ payment' = [payment EXCEPT ![r].callFrom = userAcc]
    /\ UNCHANGED <<nextId, userAcc, fromAddress, toAddress, chainVars>>

\* merchantAcct is assigned and balanceOf(userAcc) is issued.
PayeeAccount(r) ==
    /\ Step(r, "payeeAccount", "payerBalance")
    /\ merchantAcct' = payment[r].toId
    /\ payment' = [payment EXCEPT ![r].callFrom = userAcc]
    /\ UNCHANGED <<nextId, userAcc, fromAddress, toAddress, chainVars>>

PayerBalance(r) ==
    /\ Step(r, "payerBalance", "gotPayerBalance")
    /\ payment' = [payment EXCEPT ![r].payerBalance = balance[payment[r].callFrom]]
    /\ UNCHANGED <<nextId, globals, chainVars>>

GotPayerBalance(r) ==
    /\ Step(r, "gotPayerBalance", "payeeBalance")
    /\ payment' = [payment EXCEPT ![r].callTo = merchantAcct]
    /\ UNCHANGED <<nextId, globals, chainVars>>

PayeeBalance(r) ==
    /\ Step(r, "payeeBalance", "gotPayeeBalance")
    /\ payment' = [payment EXCEPT ![r].initialBalance = balance[payment[r].callTo]]
    /\ UNCHANGED <<nextId, globals, chainVars>>

\* Mutant: the invoice is marked as paid before the transfer.
GotPayeeBalance_markFirst(r) ==
    /\ Step(r, "gotPayeeBalance", IF payment[r].payerBalance = 0 THEN "topUp" ELSE "txCount")
    /\ payment' = [payment EXCEPT ![r].callFrom = userAcc, ![r].callTo = merchantAcct]
    /\ updateInvoiceStatus(payment[r].invoiceId, "PAYMENT RECEIVED")
    /\ UNCHANGED <<nextId, globals, coinVars>>

\* An empty payer account is topped up with the price; otherwise the
\* transfer of the price from userAcc to merchantAcct is started.
GotPayeeBalance(r) ==
    /\ Step(r, "gotPayeeBalance", IF payment[r].payerBalance = 0 THEN "topUp" ELSE "txCount")
    /\ payment' = [payment EXCEPT ![r].callFrom = userAcc, ![r].callTo = merchantAcct]
    /\ UNCHANGED <<nextId, globals, chainVars>>

\* Mutant: one coin too many.
TopUp_offByOne(r) ==
    LET p == payment[r]
    IN  /\ pc[r] = "topUp"
        /\ IF CanPay(ADMIN, p.price + 1)
           THEN transfer(ADMIN, p.callFrom, p.price + 1) /\ Step(r, "topUp", "toppedUp")
           ELSE UNCHANGED balance /\ Step(r, "topUp", "failed")
        /\ UNCHANGED <<nextId, globals, procurementVars, nonce, payment>>

TopUp(r) ==
    LET p == payment[r]
    IN  /\ pc[r] = "topUp"
        /\ IF CanPay(ADMIN, p.price)
           THEN transfer(ADMIN, p.callFrom, p.price) /\ Step(r, "topUp", "toppedUp")
           ELSE UNCHANGED balance /\ Step(r, "topUp", "failed")
        /\ UNCHANGED <<nextId, globals, procurementVars, nonce, payment>>

ToppedUp(r) ==
    /\ Step(r, "toppedUp", "txCount")
    /\ payment' = [payment EXCEPT ![r].callFrom = userAcc, ![r].callTo = merchantAcct]
    /\ UNCHANGED <<nextId, globals, chainVars>>

TxCount(r) ==
    /\ Step(r, "txCount", "sendTx")
    /\ payment' = [payment EXCEPT ![r].count = nonce[payment[r].callFrom]]
    /\ UNCHANGED <<nextId, globals, chainVars>>

\* The node refuses a transaction whose nonce is not the account's count; a
\* transfer of more than the balance is mined and reverts.
SendTx(r) ==
    LET p == payment[r]
        accepted == p.count = nonce[p.callFrom]
        moved == accepted /\ CanPay(p.callFrom, p.price)
    IN  /\ Step(r, "sendTx", IF moved THEN "sent" ELSE "failed")
        /\ IF moved THEN transfer(p.callFrom, p.callTo, p.price) ELSE UNCHANGED balance
        /\ IF accepted THEN Mined(p.callFrom) ELSE UNCHANGED nonce
        /\ payment' = IF moved
                      THEN [payment EXCEPT ![r].receipt =
                              [from |-> p.callFrom, to |-> p.callTo, value |-> p.price]]
                      ELSE payment
        /\ UNCHANGED <<nextId, globals, procurementVars>>

Sent(r) ==
    /\ Step(r, "sent", "newBalance")
    /\ payment' = [payment EXCEPT ![r].callTo = merchantAcct]
    /\ UNCHANGED <<nextId, globals, chainVars>>

\* Mutant: the price is left out of the comparison.
NewBalance_noPrice(r) ==
    LET p == payment[r]
    IN  /\ Step(r, "newBalance",
                IF p.initialBalance = balance[p.callTo] THEN "paid" ELSE "refused")
        /\ UNCHANGED <<nextId, globals, chainVars, payment>>

\* The payment counts as done when the balance grew by exactly the price.
NewBalance(r) ==
    LET p == payment[r]
    IN  /\ Step(r, "newBalance",
                IF p.initialBalance + p.price = balance[p.callTo] THEN "paid" ELSE "refused")
        /\ UNCHANGED <<nextId, globals, chainVars, payment>>

Paid(r) ==
    /\ Step(r, "paid", "ok")
    /\ updateInvoiceStatus(payment[r].invoiceId, "PAYMENT RECEIVED")
    /\ UNCHANGED <<nextId, globals, coinVars, payment>>

PaymentStep(r) ==
    \/ PayInvoice(r)
    \/ PayerAccount(r)
    \/ PayeeAccount(r)
    \/ PayerBalance(r)
    \/ GotPayerBalance(r)
    \/ PayeeBalance(r)
    \/ GotPayeeBalance(r)
    \/ TopUp(r)
    \/ ToppedUp(r)
    \/ TxCount(r)
    \/ SendTx(r)
    \/ Sent(r)
    \/ NewBalance(r)
    \/ Paid(r)

PaymentRequest(r) ==
    \E invoiceId \in KnownInvoices \cup {0}, parties \in PaymentParties :
         PostPaySupplier(r, invoiceId, parties)
=============================================================================
