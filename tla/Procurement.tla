---------------------------- MODULE Procurement ----------------------------
(***************************************************************************)
(* The Procurement contract (truffle/contracts/Procurement.sol).  A        *)
(* Solidity mapping is a total function whose unset entries are zero.  One *)
(* transaction is one atomic step.  Quantity and unit are left out: no     *)
(* branch of the program depends on them.                                  *)
(***************************************************************************)
EXTENDS PizzaChainConstants

VARIABLES pos, invoices, poArray, invoiceArray

procurementVars == <<pos, invoices, poArray, invoiceArray>>

PO == [supplierId : Suppliers \cup {""}, itemType : ItemTypes \cup {NoType},
       status : POStatus \cup InvoiceStatus \cup {""}]

Invoice == [poId : Ids, supplierId : Suppliers \cup {""},
            itemType : ItemTypes \cup {NoType}, price : Prices \cup {0},
            status : InvoiceStatus \cup {""}]

EmptyPO == [supplierId |-> "", itemType |-> NoType, status |-> ""]
EmptyInvoice == [poId |-> 0, supplierId |-> "", itemType |-> NoType,
                 price |-> 0, status |-> ""]

ProcurementTypeOK ==
    /\ pos \in [Ids -> PO]
    /\ invoices \in [Ids -> Invoice]
    /\ poArray \in Seq(Ids)
    /\ invoiceArray \in Seq(Ids)

ProcurementInit ==
    /\ pos = [i \in Ids |-> EmptyPO]
    /\ invoices = [i \in Ids |-> EmptyInvoice]
    /\ poArray = << >>
    /\ invoiceArray = << >>

issuePO(poId, supplierId, itemType, status) ==
    /\ pos' = [pos EXCEPT ![poId] =
         [supplierId |-> supplierId, itemType |-> itemType, status |-> status]]
    /\ poArray' = Append(poArray, poId)
    /\ UNCHANGED <<invoices, invoiceArray>>

issueInvoice(invoiceId, poId, supplierId, itemType, price, status) ==
    /\ invoices' = [invoices EXCEPT ![invoiceId] =
         [poId |-> poId, supplierId |-> supplierId, itemType |-> itemType,
          price |-> price, status |-> status]]
    /\ invoiceArray' = Append(invoiceArray, invoiceId)
    /\ UNCHANGED <<pos, poArray>>

\* No check that the id was ever issued: an unknown id gets a status and
\* nothing else.
updatePOStatus(poId, status) ==
    /\ pos' = [pos EXCEPT ![poId].status = status]
    /\ UNCHANGED <<invoices, poArray, invoiceArray>>

updateInvoiceStatus(invoiceId, status) ==
    /\ invoices' = [invoices EXCEPT ![invoiceId].status = status]
    /\ UNCHANGED <<pos, poArray, invoiceArray>>

\* getPOList and getInvoiceList, as sets: the ids that clients can learn.
KnownPOs == {poArray[i] : i \in DOMAIN poArray}
KnownInvoices == {invoiceArray[i] : i \in DOMAIN invoiceArray}
=============================================================================
