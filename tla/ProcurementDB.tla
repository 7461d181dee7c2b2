--------------------------- MODULE ProcurementDB ---------------------------
(***************************************************************************)
(* The procurement collection in MongoDB: procurementService.js over       *)
(* dao/mongo/index.js.  Documents keep insertion order and an update       *)
(* changes the first document that matches.                                *)
(***************************************************************************)
EXTENDS ItemToken

VARIABLE rows

Row == [transaction_id : Nat, supplier_id : Suppliers, po_id : Ids,
        invoice_id : Ids, item_price : Prices \cup {0}, token_id : TokenIds \cup {NoToken}]

RowsTypeOK == rows \in Seq(Row)

RowsInit == rows = << >>

\* model.find(query)[0]: the position of the first match, 0 when none matches.
FirstMatch(S) == IF S = {} THEN 0 ELSE CHOOSE i \in S : \A j \in S : i <= j

RowsOfPO(poId) == {i \in DOMAIN rows : rows[i].po_id = poId}
RowsOfInvoice(invoiceId) == {i \in DOMAIN rows : rows[i].invoice_id = invoiceId}
RowsOfToken(t) == {i \in DOMAIN rows : rows[i].token_id = t}

createProcurement(transactionId, supplierId, poId) ==
    rows' = Append(rows, [transaction_id |-> transactionId, supplier_id |-> supplierId,
                          po_id |-> poId, invoice_id |-> 0, item_price |-> 0,
                          token_id |-> NoToken])

\* Mutant: the update forgets its query.
updateInvoice_noQuery(poId, invoiceId, itemPrice) ==
    rows' = IF rows = << >> THEN rows
            ELSE [rows EXCEPT ![1].invoice_id = invoiceId, ![1].item_price = itemPrice]

updateInvoice(poId, invoiceId, itemPrice) ==
    LET i == FirstMatch(RowsOfPO(poId))
    IN  rows' = IF i = 0 THEN rows
                ELSE [rows EXCEPT ![i].invoice_id = invoiceId,
                                  ![i].item_price = itemPrice]

updateTokenId(invoiceId, t) ==
    LET i == FirstMatch(RowsOfInvoice(invoiceId))
    IN  rows' = IF i = 0 THEN rows ELSE [rows EXCEPT ![i].token_id = t]
=============================================================================
