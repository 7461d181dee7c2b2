--------------------------- MODULE PurchaseRoutes ---------------------------
(***************************************************************************)
(* POST /purchase-order and POST /invoice/:poId.  Both write the contract  *)
(* first and the procurement collection after it, in separate calls.       *)
(***************************************************************************)
EXTENDS ApiServer, Procurement, ProcurementDB

CONSTANT Bodies    \* bodies of POST /purchase-order: sequences of order lines

OrderLine == [supplierId : Suppliers, itemType : ItemTypes \cup {NoType}]

ASSUME BodiesAssumption == Bodies \subseteq Seq(OrderLine)

VARIABLE purchase    \* the local variables of the handlers of these routes

NoPurchase == [lines |-> << >>, poId |-> 0, processId |-> 0,
               supplierId |-> "", itemType |-> NoType, itemPrice |-> 0]

Purchase == [lines : Seq(OrderLine), poId : Ids, processId : Ids,
             supplierId : Suppliers \cup {""}, itemType : ItemTypes \cup {NoType},
             itemPrice : Prices \cup {0}]

PurchaseTypeOK == purchase \in [Requests -> Purchase]

PurchaseInit == purchase = [r \in Requests |-> NoPurchase]

-----------------------------------------------------------------------------
(* POST /purchase-order: one contract call and one insert per order line.  *)

\* The loop reaches its next line, or ends.  createPO rejects an item type
\* that is not in the table before anything is sent.
NextLine(r, from, lines) ==
    IF lines = << >>
    THEN /\ Step(r, from, "ok")
         /\ purchase' = [purchase EXCEPT ![r].lines = lines]
         /\ UNCHANGED nextId
    ELSE \E id \in Ids :
         /\ fnGetUniqueID(id)
         /\ purchase' = [purchase EXCEPT ![r].lines = lines, ![r].processId = id]
         /\ Step(r, from, IF Head(lines).itemType = NoType THEN "failed" ELSE "createPO")

PostPurchaseOrder(r, body) ==
    /\ Route[r] = "purchase-order"
    /\ Cardinality(InFlight) < MaxInFlight
    /\ NextLine(r, "idle", body)
    /\ UNCHANGED <<globals, procurementVars, rows>>

CreatePO(r) ==
    LET p == purchase[r]
    IN  /\ Step(r, "createPO", "saveRow")
        /\ issuePO(p.processId, Head(p.lines).supplierId, Head(p.lines).itemType, "ISSUED")
        /\ UNCHANGED <<nextId, globals, rows, purchase>>

SaveRow(r) ==
    LET p == purchase[r]
    IN  /\ pc[r] = "saveRow"
        /\ createProcurement(r, Head(p.lines).supplierId, p.processId)
        /\ NextLine(r, "saveRow", Tail(p.lines))
        /\ UNCHANGED <<globals, procurementVars>>

-----------------------------------------------------------------------------
(* POST /invoice/:poId: ackPO, then issueInvoice.                          *)

PostInvoice(r, poId, itemPrice) ==
    /\ Arrive(r, "invoice", "readPO")
    /\ purchase' = [purchase EXCEPT ![r].poId = poId, ![r].itemPrice = itemPrice]
    /\ UNCHANGED <<nextId, globals, procurementVars, rows>>

ReadPO(r) ==
    LET po == pos[purchase[r].poId]
    IN  /\ Step(r, "readPO", "acknowledge")
        /\ purchase' = [purchase EXCEPT ![r].supplierId = po.supplierId,
                                        ![r].itemType = po.itemType]
        /\ UNCHANGED <<nextId, globals, procurementVars, rows>>

\* The acknowledgement is written whatever the order's status, also for an
\* id that was never issued; only then does an unset item type reject.
Acknowledge(r) ==
    /\ Step(r, "acknowledge",
            IF purchase[r].itemType = NoType THEN "failed" ELSE "createInvoice")
    /\ updatePOStatus(purchase[r].poId, "ACKNOWLEDGED")
    /\ \E id \in Ids :
         /\ fnGetUniqueID(id)
         /\ purchase' = [purchase EXCEPT ![r].processId = id]
    /\ UNCHANGED <<globals, rows>>

CreateInvoice(r) ==
    LET p == purchase[r]
    IN  /\ Step(r, "createInvoice", "recordInvoice")
        /\ issueInvoice(p.processId, p.poId, p.supplierId, p.itemType, p.itemPrice, "ISSUED")
        /\ UNCHANGED <<nextId, globals, rows, purchase>>

RecordInvoice(r) ==
    LET p == purchase[r]
    IN  /\ Step(r, "recordInvoice", "ok")
        /\ updateInvoice(p.poId, p.processId, p.itemPrice)
        /\ UNCHANGED <<nextId, globals, procurementVars, purchase>>

PurchaseStep(r) ==
    \/ CreatePO(r)
    \/ SaveRow(r)
    \/ ReadPO(r)
    \/ Acknowledge(r)
    \/ CreateInvoice(r)
    \/ RecordInvoice(r)

PurchaseRequest(r) ==
    \/ \E body \in Bodies : PostPurchaseOrder(r, body)
    \/ \E poId \in KnownPOs \cup {0}, itemPrice \in Prices : PostInvoice(r, poId, itemPrice)
=============================================================================
