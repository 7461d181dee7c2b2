---------------------------- MODULE MCPizzaChain ----------------------------
(***************************************************************************)
(* Small instances of PizzaChain.  A workload is the route of each request *)
(* that clients may send; the model checker chooses when each one arrives, *)
(* with which arguments, and how the handlers interleave.                  *)
(***************************************************************************)
EXTENDS PizzaChain

\* Every run keeps the roles of the demonstration apart.
ASSUME RolesAssumption == RolesApart

Cheese == [supplierId |-> "CHEESECO", itemType |-> 1]
Dough == [supplierId |-> "DOUGHCO", itemType |-> 2]
UnknownType == [supplierId |-> "CHEESECO", itemType |-> NoType]

OneOrder == {<<Cheese>>}
TwoOrders == {<<Cheese, Dough>>}
OddOrders == {<<Cheese, UnknownType>>, <<Cheese, Dough>>, << >>}

PIZZACO == accounts["PIZZACO"]
CHEESECO == accounts["CHEESECO"]
DOUGHCO == accounts["DOUGHCO"]

PurchasingWorkload == <<"purchase-order", "invoice", "invoice", "invoice">>
MintingWorkload == <<"makeTokens", "makeTokens", "invoice">>
ScanWorkload == <<"makeTokens", "makeTokens", "transferToken", "transferToken">>
DeliveryWorkload == <<"transferToken", "transferToken", "paySupplier">>
PaymentWorkload == <<"paySupplier", "paySupplier">>
SerialWorkload == <<"paySupplier", "paySupplier", "paySupplier">>

ScanParties == {<<CHEESECO, PIZZACO>>}
ScanTwoParties == {<<CHEESECO, PIZZACO>>, <<DOUGHCO, PIZZACO>>}
PayOne == {<<PIZZACO, CHEESECO>>}
PayTwo == {<<PIZZACO, CHEESECO>>, <<PIZZACO, DOUGHCO>>}

-----------------------------------------------------------------------------
(* Runs that start with an order for cheese (id 1, invoice 3, price 1) and *)
(* one for dough (id 2, invoice 4, price 2), both invoiced: the state that *)
(* one purchase-order request and two invoice requests leave behind.       *)

Seeded(i) == IF i = 1 THEN Cheese ELSE Dough

InvoicedOrders ==
    /\ nextId = 5
    /\ poArray = <<1, 2>>
    /\ invoiceArray = <<3, 4>>
    /\ invoices = [i \in Ids |->
         IF i \in {3, 4}
         THEN [poId |-> i - 2, supplierId |-> Seeded(i - 2).supplierId,
               itemType |-> Seeded(i - 2).itemType, price |-> i - 2, status |-> "ISSUED"]
         ELSE EmptyInvoice]

OrdersWith(status) ==
    pos = [i \in Ids |->
        IF i \in {1, 2}
        THEN [supplierId |-> Seeded(i).supplierId, itemType |-> Seeded(i).itemType,
              status |-> status]
        ELSE EmptyPO]

RowsWith(token(_)) ==
    rows = [i \in {1, 2} |->
        [transaction_id |-> 0, supplier_id |-> Seeded(i).supplierId, po_id |-> i,
         invoice_id |-> i + 2, item_price |-> i, token_id |-> token(i)]]

RestInit ==
    /\ pc = [r \in Requests |-> "idle"]
    /\ faults = 0
    /\ userAcc = Undefined /\ merchantAcct = Undefined
    /\ fromAddress = Undefined /\ toAddress = Undefined
    /\ CoinInit /\ PurchaseInit /\ TokenRoutesInit /\ PaymentInit

InvoicedInit ==
    /\ RestInit
    /\ InvoicedOrders
    /\ OrdersWith("ACKNOWLEDGED")
    /\ RowsWith(LAMBDA i : NoToken)
    /\ ItemTokenInit

InvoicedSpec == InvoicedInit /\ [][Next]_vars

\* The same orders after a makeTokens request for each.
SeededMetadata(i) == [invoiceId |-> i + 2, itemType |-> Seeded(i).itemType, price |-> i]

TokensMadeInit ==
    /\ RestInit
    /\ InvoicedOrders
    /\ OrdersWith("PENDING DELIVERY")
    /\ RowsWith(LAMBDA i : rootHash(SeededMetadata(i)))
    /\ swarm = {SeededMetadata(i) : i \in {1, 2}}
    /\ owner = [t \in {rootHash(m) : m \in swarm} |->
                  AccountId(invoices[t.hash.invoiceId].supplierId)]

TokensMadeSpec == TokensMadeInit /\ [][Next]_vars

TokensMadeFairSpec == TokensMadeInit /\ [][Next]_vars /\ Fairness
=============================================================================
