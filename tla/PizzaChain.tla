----------------------------- MODULE PizzaChain -----------------------------
(***************************************************************************)
(* The whole back end: the routes of the API server over the contracts,    *)
(* the procurement collection and Swarm.                                   *)
(***************************************************************************)
EXTENDS PurchaseRoutes, TokenRoutes, PaymentRoutes

vars == <<serverVars, procurementVars, itemTokenVars, rows, coinVars,
          purchase, tokenRouteVars, payment>>

TypeOK ==
    /\ ServerTypeOK
    /\ ProcurementTypeOK
    /\ ItemTokenTypeOK
    /\ RowsTypeOK
    /\ CoinTypeOK
    /\ PurchaseTypeOK
    /\ TokenRoutesTypeOK
    /\ PaymentTypeOK

Init ==
    /\ ServerInit
    /\ ProcurementInit
    /\ ItemTokenInit
    /\ RowsInit
    /\ CoinInit
    /\ PurchaseInit
    /\ TokenRoutesInit
    /\ PaymentInit

\* A handler runs on.
Handle(r) ==
    \/ PurchaseStep(r) /\ UNCHANGED <<itemTokenVars, coinVars, tokenRouteVars, payment>>
    \/ TokenStep(r) /\ UNCHANGED <<purchase, payment>>
    \/ PaymentStep(r) /\ UNCHANGED <<itemTokenVars, rows, purchase, tokenRouteVars>>

\* A client sends a request.
Send(r) ==
    \/ PurchaseRequest(r) /\ UNCHANGED <<itemTokenVars, coinVars, tokenRouteVars, payment>>
    \/ TokenRequest(r) /\ UNCHANGED <<purchase, payment>>
    \/ PaymentRequest(r) /\ UNCHANGED <<itemTokenVars, rows, purchase, tokenRouteVars>>

Fault ==
    /\ CallFails \/ Crash
    /\ UNCHANGED <<procurementVars, itemTokenVars, rows, coinVars,
                   purchase, tokenRouteVars, payment>>

\* No request is open: the server waits.
Waiting == InFlight = {} /\ UNCHANGED vars

Next ==
    \/ \E r \in Requests : (Send(r) \/ Handle(r)) /\ UNCHANGED faults
    \/ Fault
    \/ Waiting

Spec == Init /\ [][Next]_vars

\* Node runs every handler whose call has returned.
Fairness == \A r \in Requests : WF_vars(Handle(r) /\ UNCHANGED faults)

-----------------------------------------------------------------------------
(* Safety                                                                  *)

\* The accounts that a request names as payer, and as supplier.  transferToken
\* and transferAmount share the globals userAcc and merchantAcct, so either may
\* supply them.
Payers == {p[2] : p \in TransferParties} \cup {p[1] : p \in PaymentParties}
Payees == {p[1] : p \in TransferParties} \cup {p[2] : p \in PaymentParties}

\* The roles of the demonstration: ADMIN mints and pays out and trades with
\* nobody, and an account that pays is never paid (the scanner names PIZZACO
\* as payer and the account of the supplier, ui QrScan.js).
RolesApart ==
    /\ "ADMIN" \notin Suppliers
    /\ ADMIN \notin Payers \cup Payees
    /\ Payers \cap Payees = {}

\* The order that a token was made for.
OrderOf(t) == invoices[t.hash.invoiceId].poId

\* The order, the invoice and the token that a document names are on chain
\* and belong to each other.
RowMatchesChain(row) ==
    /\ pos[row.po_id].supplierId = row.supplier_id
    /\ row.invoice_id # 0 =>
         /\ invoices[row.invoice_id].poId = row.po_id
         /\ invoices[row.invoice_id].price = row.item_price
         /\ invoices[row.invoice_id].supplierId = row.supplier_id
    /\ row.token_id # NoToken =>
         /\ row.token_id \in DOMAIN owner
         /\ OrderOf(row.token_id) = row.po_id

\* The procurement collection never runs ahead of the chain: the order, the
\* invoice and the token that a document names are on chain and belong to
\* each other, whatever requests overlap and wherever a handler dies (issuePO,
\* issueInvoice and makeTokens write the chain first and the document after).
RowsReferToChain == \A i \in DOMAIN rows : RowMatchesChain(rows[i])

\* What the Procurement contract lists stays listed and never changes but for
\* its status: issuePO and issueInvoice overwrite whatever stands under their
\* id, so no two requests may ever pass the same one (fnGetUniqueID).
IssuedStays ==
    /\ KnownPOs \subseteq KnownPOs' /\ KnownInvoices \subseteq KnownInvoices'
    /\ \A p \in KnownPOs : /\ pos'[p].supplierId = pos[p].supplierId
                           /\ pos'[p].itemType = pos[p].itemType
    /\ \A i \in KnownInvoices : /\ invoices'[i].poId = invoices[i].poId
                                /\ invoices'[i].supplierId = invoices[i].supplierId
                                /\ invoices'[i].itemType = invoices[i].itemType
                                /\ invoices'[i].price = invoices[i].price

IssuedIsFinal == [][IssuedStays]_vars

\* A token outside ADMIN stands for an invoice on chain, has its metadata in
\* Swarm, and is held by the supplier of that invoice or by a payer: makeTokens
\* never hands a token to another supplier although its handlers share the
\* globals fromAddress and toAddress.
TokensAreBacked ==
    \A t \in DOMAIN owner :
        LET invoice == invoices[t.hash.invoiceId]
        IN  /\ t.hash \in swarm
            /\ owner[t] # ADMIN =>
                 /\ invoice.itemType = t.hash.itemType
                 /\ invoice.price = t.hash.price
                 /\ owner[t] \in {AccountId(invoice.supplierId)} \cup Payers

\* Requests of makeTokens for one invoice, repeated or at the same time, hand
\* at most one token to the supplier: the second mint of the same content hash
\* reverts.
TokensMadeOnce ==
    \A r, s \in Requests :
        (/\ r # s
         /\ making[r].invoiceId = making[s].invoiceId
         /\ {Route[r], Route[s]} = {"makeTokens"})
        => ~({pc[r], pc[s]} \subseteq {"pendingDelivery", "recordToken", "ok"})

\* The status of an order never claims more than the tokens show: PENDING
\* DELIVERY only with a token that left ADMIN, DELIVERED only with a token of
\* that order in the hands of a payer (transferToken checks the new owner
\* before it writes DELIVERED).
StatusBackedByToken ==
    \A p \in Ids :
        /\ pos[p].status = "PENDING DELIVERY" =>
             \E t \in DOMAIN owner : OrderOf(t) = p /\ owner[t] # ADMIN
        /\ pos[p].status = "DELIVERED" =>
             \E t \in DOMAIN owner : OrderOf(t) = p /\ owner[t] \in Payers

\* Scanning the QR code of one token again and again, or in parallel, reports
\* the delivery at most once: only the request whose transferFrom moved the
\* token goes on to write DELIVERED.
HandedOver(r) ==
    /\ Route[r] = "transferToken"
    /\ delivery[r].callFrom # Undefined
    /\ pc[r] \in {"newOwnerOf", "gotNewOwner", "delivered", "completed", "ok"}

DeliveredOnce ==
    \A r, s \in Requests :
        (HandedOver(r) /\ HandedOver(s) /\ delivery[r].tokenId = delivery[s].tokenId)
        => r = s

\* The status of an order that was invoiced once only moves forward: a late
\* or repeated makeTokens never takes DELIVERED back to PENDING DELIVERY, since
\* the token id is recorded, and the delivery can be matched to its order,
\* only after PENDING DELIVERY was written.
Rank(status) == CASE status = "ISSUED" -> 1
                  [] status = "ACKNOWLEDGED" -> 2
                  [] status = "PENDING DELIVERY" -> 3
                  [] status = "DELIVERED" -> 4
                  [] OTHER -> 0

InvoiceRequests(p) ==
    {r \in Requests : Route[r] = "invoice" /\ pc[r] # "idle" /\ purchase[r].poId = p}

InvoicedOnce(p) == \A r, s \in InvoiceRequests(p) : r = s

StatusForward ==
    \A p \in KnownPOs :
        InvoicedOnce(p) => Rank(pos[p].status) <= Rank(pos'[p].status)

StatusMovesForward == [][StatusForward]_vars

\* An invoice is marked PAYMENT RECEIVED only when a payment request for it
\* moved exactly its price, whatever other payments were under way.
PaidMeansMoved ==
    \A i \in KnownInvoices :
        invoices[i].status = "PAYMENT RECEIVED" =>
            \E r \in Requests : /\ payment[r].invoiceId = i
                                /\ payment[r].receipt # NoReceipt
                                /\ payment[r].receipt.value = invoices[i].price

\* The coins of a payment go from the payer to the supplier that the request
\* names (transferAmount).
PaymentReachesSupplier ==
    \A r \in Requests :
        payment[r].receipt # NoReceipt =>
            /\ payment[r].receipt.from = payment[r].fromId
            /\ payment[r].receipt.to = payment[r].toId

\* The answer tells what happened: a payment is answered 200 exactly when its
\* coins moved.
PaymentAnswerIsTrue ==
    \A r \in Requests :
        (Route[r] = "paySupplier" /\ pc[r] \in Answered)
        => (pc[r] = "ok" <=> payment[r].receipt # NoReceipt)

\* Between payments the payer holds nothing: the top-up is spent whole.  A
\* remainder would switch the top-up off and block a dearer invoice for good.
NoRemainder ==
    InFlight = {} => \A p \in PaymentParties : balance[p[1]] = 0

\* A finished delivery completes its invoice (transferToken).
InvoiceCompleted ==
    \A r \in Requests :
        (HandedOver(r) /\ pc[r] = "ok" /\ delivery[r].tokenOwner = delivery[r].to)
        => invoices[delivery[r].invoice_id].status = "COMPLETED"

-----------------------------------------------------------------------------
(* Liveness                                                                *)

\* When a scan that found its procurement has moved the token, the order
\* becomes DELIVERED, whatever other scans and payments run at the same time.
HandOverIsRecorded ==
    \A r \in Requests :
        (pc[r] = "newOwnerOf" /\ delivery[r].row # 0)
        ~> (pos[delivery[r].po_id].status = "DELIVERED")
=============================================================================
