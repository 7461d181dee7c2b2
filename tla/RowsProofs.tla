----------------------------- MODULE RowsProofs -----------------------------
(*****************************************************************************)
(* Proofs, for every workload and every value of the bounds, that the back   *)
(* end is type correct (no account is overdrawn, no call is sent with an     *)
(* undefined address), and that the procurement collection never runs ahead  *)
(* of the chain, whatever requests overlap and wherever a handler dies.      *)
(*****************************************************************************)
EXTENDS PizzaChain, WellFoundedInduction, SequenceTheorems, TLAPS

-----------------------------------------------------------------------------
(* Types: the inductive invariant                                          *)

PaymentLabels ==
    {"payInvoice", "payerAccount", "payeeAccount", "payerBalance",
     "gotPayerBalance", "payeeBalance", "gotPayeeBalance", "topUp",
     "toppedUp", "txCount", "sendTx", "sent", "newBalance", "paid"}

DeliveryLabels ==
    {"findRow", "userAccount", "merchantAccount", "ownerOf", "gotOwner",
     "transferFrom", "newOwnerOf", "gotNewOwner", "delivered", "completed"}

\* Where a handler has assigned userAcc, and merchantAcct.
UserLabels == (PaymentLabels \ {"payInvoice", "payerAccount"})
              \cup (DeliveryLabels \ {"findRow", "userAccount"})
MerchantLabels == UserLabels \ {"payeeAccount", "merchantAccount"}

\* The steps of a handler that rely on what its earlier steps assigned: the
\* loop of issuePO has a line, a token has a real id, the parties of a request
\* are accounts, the globals are set, and so are the arguments of a call.
LocalsAt(r) ==
    /\ pc[r] \in {"createPO", "saveRow"} => purchase[r].lines # << >>
    /\ pc[r] = "mint" => making[r].tokenId \in TokenIds
    /\ pc[r] \in PaymentLabels =>
         payment[r].fromId \in Accounts /\ payment[r].toId \in Accounts
    /\ pc[r] \in DeliveryLabels =>
         delivery[r].from \in Accounts /\ delivery[r].to \in Accounts
    /\ pc[r] \in UserLabels => userAcc \in Accounts
    /\ pc[r] \in MerchantLabels => merchantAcct \in Accounts
    /\ pc[r] = "transferFrom" => delivery[r].callFrom \in Accounts
    /\ pc[r] \in {"payerBalance", "topUp", "txCount", "sendTx"} =>
         payment[r].callFrom \in Accounts
    /\ pc[r] \in {"payeeBalance", "txCount", "sendTx", "newBalance"} =>
         payment[r].callTo \in Accounts

LocalsOK == \A r \in Requests : LocalsAt(r)

TypeInv == TypeOK /\ LocalsOK

-----------------------------------------------------------------------------
(* Facts about the operators                                               *)

LEMMA BoundsAreNat == MaxId \in Nat /\ Prices \subseteq Nat
 BY ZenonT(60), ConstantsAssumption

LEMMA FaultsAreNat == MaxFaults \in Nat
BY ApiServerAssumption

\* A set of naturals that is not empty has a least element.
LEMMA MinExists ==
    ASSUME NEW S, S \subseteq Nat, S # {}
    PROVE  \E i \in S : \A j \in S : i <= j
<1>1. PICK i \in S : \A j \in S : ~(<<j, i>> \in OpToRel(<, Nat))
      BY ZenonT(60), NatLessThanWellFounded, WFMin
<1>2. \A j \in S : ~(j < i)
      BY ZenonT(60), <1>1 DEF OpToRel
<1>. QED  BY <1>2

\* The first match of a query (updateData, find(query)[0]) is one of the
\* documents that match it, and 0 only stands for no match.
LEMMA FirstMatchInSet ==
    ASSUME NEW S, S \subseteq Nat, 0 \notin S
    PROVE  /\ FirstMatch(S) \in S \cup {0}
           /\ FirstMatch(S) # 0 => FirstMatch(S) \in S
<1>1. CASE S = {}
      BY <1>1 DEF FirstMatch
<1>2. CASE S # {}
      BY <1>2, MinExists DEF FirstMatch
<1>. QED  BY <1>1, <1>2

LEMMA FirstRow ==
    ASSUME RowsTypeOK, NEW S, S \subseteq DOMAIN rows, FirstMatch(S) # 0
    PROVE  FirstMatch(S) \in S
<1>1. DOMAIN rows = 1..Len(rows) /\ Len(rows) \in Nat
      BY LenProperties DEF RowsTypeOK
<1>2. S \subseteq Nat /\ 0 \notin S
      BY <1>1
<1>. QED  BY <1>2, FirstMatchInSet

\* getAccount answers the address of an account, or undefined.
LEMMA AccountAddress ==
    /\ ADMIN \in Accounts
    /\ \A name : AccountId(name) \in Addresses
BY DEF ADMIN, AccountId, Addresses, accounts, Accounts

\* The other handlers stay where they are, and find the globals set.
OthersKeep(r) ==
    /\ \A q \in Requests \ {r} :
         /\ pc'[q] = pc[q]
         /\ purchase'[q] = purchase[q]
         /\ making'[q] = making[q]
         /\ delivery'[q] = delivery[q]
         /\ payment'[q] = payment[q]
    /\ userAcc' = userAcc /\ merchantAcct' = merchantAcct

LEMMA LocalsKept ==
    ASSUME LocalsOK, NEW r \in Requests, OthersKeep(r), LocalsAt(r)'
    PROVE  LocalsOK'
<1>1. ASSUME NEW q \in Requests \ {r} PROVE LocalsAt(q)'
      BY DEF LocalsOK, LocalsAt, OthersKeep
<1>. QED  BY <1>1 DEF LocalsOK

\* The contract operations keep the types of its mappings and arrays.
LEMMA IssuePOType ==
    ASSUME ProcurementTypeOK, NEW id \in Ids, NEW supplier \in Suppliers,
           NEW type \in ItemTypes \cup {NoType}, issuePO(id, supplier, type, "ISSUED")
    PROVE  ProcurementTypeOK'
<1>1. [supplierId |-> supplier, itemType |-> type, status |-> "ISSUED"] \in PO
      BY ZenonT(60) DEF PO, POStatus
<1>2. pos' \in [Ids -> PO]
      BY <1>1 DEF issuePO, ProcurementTypeOK
<1>3. poArray' \in Seq(Ids)
      BY AppendProperties DEF issuePO, ProcurementTypeOK
<1>. QED  BY <1>2, <1>3 DEF issuePO, ProcurementTypeOK

LEMMA IssueInvoiceType ==
    ASSUME ProcurementTypeOK, NEW id \in Ids, NEW poId \in Ids,
           NEW supplier \in Suppliers \cup {""}, NEW type \in ItemTypes \cup {NoType},
           NEW price \in Prices \cup {0},
           issueInvoice(id, poId, supplier, type, price, "ISSUED")
    PROVE  ProcurementTypeOK'
<1>1. [poId |-> poId, supplierId |-> supplier, itemType |-> type, price |-> price,
       status |-> "ISSUED"] \in Invoice
      BY ZenonT(60) DEF Invoice, InvoiceStatus
<1>2. invoices' \in [Ids -> Invoice]
      BY ZenonT(60), <1>1 DEF issueInvoice, ProcurementTypeOK
<1>3. invoiceArray' \in Seq(Ids)
      BY ZenonT(60), AppendProperties DEF issueInvoice, ProcurementTypeOK
<1>. QED  BY ZenonT(60), <1>2, <1>3 DEF issueInvoice, ProcurementTypeOK

LEMMA UpdatePOStatusType ==
    ASSUME ProcurementTypeOK, NEW id \in Ids, NEW s \in POStatus \cup InvoiceStatus,
           updatePOStatus(id, s)
    PROVE  ProcurementTypeOK'
<1>1. [pos[id] EXCEPT !.status = s] \in PO
      BY ZenonT(60) DEF PO, ProcurementTypeOK
<1>2. pos' \in [Ids -> PO]
      BY <1>1 DEF ProcurementTypeOK, updatePOStatus
<1>. QED  BY <1>2 DEF ProcurementTypeOK, updatePOStatus

LEMMA UpdateInvoiceStatusType ==
    ASSUME ProcurementTypeOK, NEW id \in Ids, NEW s \in InvoiceStatus,
           updateInvoiceStatus(id, s)
    PROVE  ProcurementTypeOK'
<1>1. invoices[id] \in Invoice
      BY DEF ProcurementTypeOK
<1>2. [invoices[id] EXCEPT !.status = s] \in Invoice
      BY ZenonT(60), <1>1 DEF Invoice
<1>3. invoices' \in [Ids -> Invoice]
      BY <1>2 DEF ProcurementTypeOK, updateInvoiceStatus
<1>. QED  BY <1>3 DEF ProcurementTypeOK, updateInvoiceStatus

\* The price of an invoice is a natural number, 0 for an unknown one.
LEMMA PriceIsNat ==
    ASSUME ProcurementTypeOK, NEW id \in Ids
    PROVE  invoices[id].price \in Nat
<1>1. invoices[id] \in Invoice
      BY DEF ProcurementTypeOK
<1>2. invoices[id].price \in Prices \cup {0}
      BY ZenonT(60), <1>1 DEF Invoice
<1>3. \A x \in Prices \cup {0} : x \in Nat
      BY BoundsAreNat
<1>. QED  BY <1>2, <1>3

\* A transfer that the balance covers overdraws no account, also when payer
\* and payee are the same.
LEMMA TransferType ==
    ASSUME CoinTypeOK, NEW from \in Accounts, NEW to \in Accounts, NEW value \in Nat,
           CanPay(from, value), transfer(from, to, value)
    PROVE  balance' \in [Accounts -> Nat]
<1>1. balance[from] - value \in Nat
      BY DEF CoinTypeOK, CanPay
<1>. QED  BY <1>1 DEF transfer, CoinTypeOK

\* The ids that the contract lists are ids.
LEMMA KnownAreIds ==
    ASSUME ProcurementTypeOK
    PROVE  KnownPOs \subseteq Ids /\ KnownInvoices \subseteq Ids
BY ElementOfSeq, LenProperties DEF ProcurementTypeOK, KnownPOs, KnownInvoices

-----------------------------------------------------------------------------
(* Type correctness                                                        *)

\* The handlers of paySupplier keep the types.
LEMMA PaymentStepType ==
    ASSUME TypeInv, NEW r \in Requests, PaymentStep(r),
           UNCHANGED <<itemTokenVars, rows, purchase, tokenRouteVars, faults>>
    PROVE  TypeInv'
<1>. USE DEF TypeInv, TypeOK, globals, chainVars, coinVars, tokenRouteVars
<1>1. ItemTokenTypeOK' /\ RowsTypeOK' /\ PurchaseTypeOK' /\ TokenRoutesTypeOK'
      BY DEF itemTokenVars, ItemTokenTypeOK, RowsTypeOK, PurchaseTypeOK, TokenRoutesTypeOK
<1>2. SUFFICES /\ ServerTypeOK' /\ ProcurementTypeOK' /\ CoinTypeOK'
               /\ PaymentTypeOK' /\ LocalsOK'
      BY <1>1
<1>3. CASE PayInvoice(r)
  <2>1. ServerTypeOK'
        BY <1>3 DEF PayInvoice, Step, ServerTypeOK, Awaiting, Answered, Addresses
  <2>2. ProcurementTypeOK' /\ CoinTypeOK'
        BY <1>3 DEF PayInvoice, procurementVars, ProcurementTypeOK, CoinTypeOK
  <2>3. PaymentTypeOK'
    <3>1. payment[r].invoiceId \in Ids
          BY <1>3 DEF PayInvoice, PaymentTypeOK, Payment
    <3>2. invoices[payment[r].invoiceId].price \in Nat
          BY <1>3, <3>1, PriceIsNat DEF PayInvoice, Step
    <3>3. [payment[r] EXCEPT !.price = invoices[payment[r].invoiceId].price] \in Payment
          BY <1>3, <3>2 DEF PayInvoice, PaymentTypeOK, Payment
    <3>. QED  BY <1>3, <3>1, <3>2, <3>3 DEF PayInvoice, PaymentTypeOK
  <2>4. LocalsOK'
        BY <1>3 DEF PayInvoice, Step, LocalsOK, LocalsAt, ServerTypeOK, PaymentLabels,
           DeliveryLabels, UserLabels, MerchantLabels, PaymentTypeOK, Payment
  <2>. QED  BY <2>1, <2>2, <2>3, <2>4
<1>4. CASE PayerAccount(r)
  <2>1. ServerTypeOK'
        BY <1>4 DEF PayerAccount, Step, ServerTypeOK, Awaiting, Answered, Addresses,
           PaymentTypeOK, Payment
  <2>2. ProcurementTypeOK' /\ CoinTypeOK'
        BY <1>4 DEF PayerAccount, procurementVars, ProcurementTypeOK, CoinTypeOK
  <2>3. PaymentTypeOK'
        BY <1>4 DEF PayerAccount, PaymentTypeOK
  <2>4. LocalsOK'
        BY ZenonT(60), <1>4 DEF PayerAccount, Step, LocalsOK, LocalsAt, ServerTypeOK,
           PaymentLabels, DeliveryLabels, UserLabels, MerchantLabels, PaymentTypeOK, Payment
  <2>. QED  BY <2>1, <2>2, <2>3, <2>4
<1>5. CASE PayeeAccount(r)
  <2>1. ServerTypeOK'
        BY <1>5 DEF PayeeAccount, Step, ServerTypeOK, Awaiting, Answered, Addresses,
           PaymentTypeOK, Payment
  <2>2. ProcurementTypeOK' /\ CoinTypeOK'
        BY <1>5 DEF PayeeAccount, procurementVars, ProcurementTypeOK, CoinTypeOK
  <2>3. PaymentTypeOK'
    <3>1. [payment[r] EXCEPT !.callFrom = userAcc] \in Payment
          BY <1>5 DEF PayeeAccount, Step, PaymentTypeOK, Payment, ServerTypeOK
    <3>. QED  BY <1>5, <3>1 DEF PayeeAccount, PaymentTypeOK
  <2>4. LocalsOK'
        BY <1>5 DEF PayeeAccount, Step, LocalsOK, LocalsAt, ServerTypeOK, PaymentLabels,
           DeliveryLabels, UserLabels, MerchantLabels, PaymentTypeOK, Payment
  <2>. QED  BY <2>1, <2>2, <2>3, <2>4
<1>6. CASE PayerBalance(r)
  <2>1. ServerTypeOK'
        BY <1>6 DEF PayerBalance, Step, ServerTypeOK, Awaiting, Answered, Addresses
  <2>2. ProcurementTypeOK' /\ CoinTypeOK'
        BY <1>6 DEF PayerBalance, procurementVars, ProcurementTypeOK, CoinTypeOK
  <2>3. PaymentTypeOK'
    <3>1. [payment[r] EXCEPT !.payerBalance = balance[payment[r].callFrom]] \in Payment
          BY ZenonT(60), <1>6 DEF PayerBalance, Step, PaymentTypeOK, Payment, LocalsOK,
             LocalsAt, CoinTypeOK
    <3>. QED  BY <1>6, <3>1 DEF PayerBalance, PaymentTypeOK
  <2>4. LocalsOK'
        BY <1>6 DEF PayerBalance, Step, LocalsOK, LocalsAt, ServerTypeOK, PaymentLabels,
           DeliveryLabels, UserLabels, MerchantLabels, PaymentTypeOK, Payment
  <2>. QED  BY <2>1, <2>2, <2>3, <2>4
<1>7. CASE GotPayerBalance(r)
  <2>1. ServerTypeOK'
        BY <1>7 DEF GotPayerBalance, Step, ServerTypeOK, Awaiting, Answered, Addresses
  <2>2. ProcurementTypeOK' /\ CoinTypeOK'
        BY <1>7 DEF GotPayerBalance, procurementVars, ProcurementTypeOK, CoinTypeOK
  <2>3. PaymentTypeOK'
    <3>1. [payment[r] EXCEPT !.callTo = merchantAcct] \in Payment
          BY <1>7 DEF GotPayerBalance, Step, PaymentTypeOK, Payment, ServerTypeOK
    <3>. QED  BY <1>7, <3>1 DEF GotPayerBalance, PaymentTypeOK
  <2>4. LocalsOK'
        BY <1>7 DEF GotPayerBalance, Step, LocalsOK, LocalsAt, ServerTypeOK, PaymentLabels,
           DeliveryLabels, UserLabels, MerchantLabels, PaymentTypeOK, Payment
  <2>. QED  BY <2>1, <2>2, <2>3, <2>4
<1>8. CASE PayeeBalance(r)
  <2>1. ServerTypeOK'
        BY <1>8 DEF PayeeBalance, Step, ServerTypeOK, Awaiting, Answered, Addresses
  <2>2. ProcurementTypeOK' /\ CoinTypeOK'
        BY <1>8 DEF PayeeBalance, procurementVars, ProcurementTypeOK, CoinTypeOK
  <2>3. PaymentTypeOK'
    <3>1. [payment[r] EXCEPT !.initialBalance = balance[payment[r].callTo]] \in Payment
          BY ZenonT(60), <1>8 DEF PayeeBalance, Step, PaymentTypeOK, Payment, LocalsOK,
             LocalsAt, CoinTypeOK
    <3>. QED  BY <1>8, <3>1 DEF PayeeBalance, PaymentTypeOK
  <2>4. LocalsOK'
        BY <1>8 DEF PayeeBalance, Step, LocalsOK, LocalsAt, ServerTypeOK, PaymentLabels,
           DeliveryLabels, UserLabels, MerchantLabels, PaymentTypeOK, Payment
  <2>. QED  BY <2>1, <2>2, <2>3, <2>4
<1>9. CASE GotPayeeBalance(r)
  <2>1. ServerTypeOK'
        BY <1>9 DEF GotPayeeBalance, Step, ServerTypeOK, Awaiting, Answered, Addresses
  <2>2. ProcurementTypeOK' /\ CoinTypeOK'
        BY <1>9 DEF GotPayeeBalance, procurementVars, ProcurementTypeOK, CoinTypeOK
  <2>3. PaymentTypeOK'
    <3>1. [payment[r] EXCEPT !.callFrom = userAcc, !.callTo = merchantAcct] \in Payment
          BY ZenonT(60), <1>9 DEF GotPayeeBalance, Step, PaymentTypeOK, Payment,
             ServerTypeOK
    <3>. QED  BY <1>9, <3>1 DEF GotPayeeBalance, PaymentTypeOK
  <2>4. LocalsOK'
        BY SMTT(60), <1>9 DEF GotPayeeBalance, Step, LocalsOK, LocalsAt, ServerTypeOK,
           PaymentLabels, DeliveryLabels, UserLabels, MerchantLabels, PaymentTypeOK, Payment
  <2>. QED  BY <2>1, <2>2, <2>3, <2>4
<1>10. CASE TopUp(r)
  <2>1. ServerTypeOK'
        BY <1>10 DEF TopUp, Step, ServerTypeOK, Awaiting, Answered, Addresses
  <2>2. ProcurementTypeOK'
        BY <1>10 DEF TopUp, procurementVars, ProcurementTypeOK
  <2>3. CoinTypeOK'
    <3>1. payment[r].callFrom \in Accounts /\ payment[r].price \in Nat /\ ADMIN \in Accounts
          BY <1>10, AccountAddress DEF TopUp, LocalsOK, LocalsAt, PaymentTypeOK, Payment
    <3>. QED  BY <1>10, <3>1, TransferType DEF TopUp, CoinTypeOK
  <2>4. PaymentTypeOK'
        BY <1>10 DEF TopUp, PaymentTypeOK
  <2>5. LocalsOK'
    <3>1. /\ pc[r] = "topUp" /\ pc'[r] \in {"toppedUp", "failed"}
          /\ OthersKeep(r) /\ payment'[r] = payment[r]
          BY ZenonT(60), <1>10 DEF TopUp, Step, OthersKeep, ServerTypeOK, PaymentTypeOK,
             Payment
    <3>2. LocalsAt(r)'
          BY ZenonT(60), <1>10, <3>1 DEF TopUp, LocalsOK, LocalsAt, PaymentLabels,
             DeliveryLabels, UserLabels, MerchantLabels
    <3>. QED  BY <3>1, <3>2, LocalsKept
  <2>. QED  BY <2>1, <2>2, <2>3, <2>4, <2>5
<1>11. CASE ToppedUp(r)
  <2>1. ServerTypeOK'
        BY <1>11 DEF ToppedUp, Step, ServerTypeOK, Awaiting, Answered, Addresses
  <2>2. ProcurementTypeOK' /\ CoinTypeOK'
        BY <1>11 DEF ToppedUp, procurementVars, ProcurementTypeOK, CoinTypeOK
  <2>3. PaymentTypeOK'
    <3>1. [payment[r] EXCEPT !.callFrom = userAcc, !.callTo = merchantAcct] \in Payment
          BY ZenonT(60), <1>11 DEF ToppedUp, Step, PaymentTypeOK, Payment, ServerTypeOK
    <3>. QED  BY <1>11, <3>1 DEF ToppedUp, PaymentTypeOK
  <2>4. LocalsOK'
        BY SMTT(60), <1>11 DEF ToppedUp, Step, LocalsOK, LocalsAt, ServerTypeOK,
           PaymentLabels, DeliveryLabels, UserLabels, MerchantLabels, PaymentTypeOK, Payment
  <2>. QED  BY <2>1, <2>2, <2>3, <2>4
<1>12. CASE TxCount(r)
  <2>1. ServerTypeOK'
        BY <1>12 DEF TxCount, Step, ServerTypeOK, Awaiting, Answered, Addresses
  <2>2. ProcurementTypeOK' /\ CoinTypeOK'
        BY <1>12 DEF TxCount, procurementVars, ProcurementTypeOK, CoinTypeOK
  <2>3. PaymentTypeOK'
    <3>1. [payment[r] EXCEPT !.count = nonce[payment[r].callFrom]] \in Payment
          BY ZenonT(60), <1>12 DEF TxCount, Step, PaymentTypeOK, Payment, LocalsOK,
             LocalsAt, CoinTypeOK
    <3>. QED  BY <1>12, <3>1 DEF TxCount, PaymentTypeOK
  <2>4. LocalsOK'
        BY <1>12 DEF TxCount, Step, LocalsOK, LocalsAt, ServerTypeOK, PaymentLabels,
           DeliveryLabels, UserLabels, MerchantLabels, PaymentTypeOK, Payment
  <2>. QED  BY <2>1, <2>2, <2>3, <2>4
<1>13. CASE SendTx(r)
  <2>1. ServerTypeOK'
        BY <1>13 DEF SendTx, Step, ServerTypeOK, Awaiting, Answered, Addresses
  <2>2. ProcurementTypeOK'
        BY <1>13 DEF SendTx, procurementVars, ProcurementTypeOK
  <2>3. CoinTypeOK'
    <3>1. /\ payment[r].callFrom \in Accounts /\ payment[r].callTo \in Accounts
          /\ payment[r].price \in Nat
          BY <1>13 DEF SendTx, Step, LocalsOK, LocalsAt, PaymentTypeOK, Payment
    <3>. QED  BY <1>13, <3>1, TransferType DEF SendTx, CoinTypeOK, Mined
  <2>4. PaymentTypeOK'
    <3>1. [from |-> payment[r].callFrom, to |-> payment[r].callTo,
           value |-> payment[r].price] \in Receipt
          BY <1>13 DEF SendTx, PaymentTypeOK, Payment, Receipt
    <3>2. \A q \in Receipt : [payment[r] EXCEPT !.receipt = q] \in Payment
          BY <1>13 DEF SendTx, PaymentTypeOK, Payment
    <3>. QED  BY <1>13, <3>1, <3>2 DEF SendTx, PaymentTypeOK
  <2>5. LocalsOK'
        BY SMTT(60), <1>13 DEF SendTx, Step, LocalsOK, LocalsAt, ServerTypeOK,
           PaymentLabels, DeliveryLabels, UserLabels, MerchantLabels, PaymentTypeOK, Payment
  <2>. QED  BY <2>1, <2>2, <2>3, <2>4, <2>5
<1>14. CASE Sent(r)
  <2>1. ServerTypeOK'
        BY <1>14 DEF Sent, Step, ServerTypeOK, Awaiting, Answered, Addresses
  <2>2. ProcurementTypeOK' /\ CoinTypeOK'
        BY <1>14 DEF Sent, procurementVars, ProcurementTypeOK, CoinTypeOK
  <2>3. PaymentTypeOK'
    <3>1. [payment[r] EXCEPT !.callTo = merchantAcct] \in Payment
          BY <1>14 DEF Sent, Step, PaymentTypeOK, Payment, ServerTypeOK
    <3>. QED  BY <1>14, <3>1 DEF Sent, PaymentTypeOK
  <2>4. LocalsOK'
        BY <1>14 DEF Sent, Step, LocalsOK, LocalsAt, ServerTypeOK, PaymentLabels,
           DeliveryLabels, UserLabels, MerchantLabels, PaymentTypeOK, Payment
  <2>. QED  BY <2>1, <2>2, <2>3, <2>4
<1>15. CASE NewBalance(r)
  <2>1. ServerTypeOK'
        BY <1>15 DEF NewBalance, Step, ServerTypeOK, Awaiting, Answered, Addresses
  <2>2. ProcurementTypeOK' /\ CoinTypeOK'
        BY ZenonT(60), <1>15 DEF NewBalance, procurementVars, ProcurementTypeOK, CoinTypeOK
  <2>3. PaymentTypeOK'
        BY ZenonT(60), <1>15 DEF NewBalance, PaymentTypeOK
  <2>4. LocalsOK'
        BY ZenonT(60), <1>15 DEF NewBalance, Step, LocalsOK, LocalsAt, ServerTypeOK,
           PaymentLabels, DeliveryLabels, UserLabels, MerchantLabels, PaymentTypeOK, Payment
  <2>. QED  BY <2>1, <2>2, <2>3, <2>4
<1>16. CASE Paid(r)
  <2>1. ServerTypeOK'
        BY ZenonT(60), <1>16 DEF Paid, Step, ServerTypeOK, Awaiting, Answered, Addresses
  <2>2. CoinTypeOK'
        BY ZenonT(60), <1>16 DEF Paid, CoinTypeOK
  <2>3. ProcurementTypeOK'
    <3>1. payment[r].invoiceId \in Ids
          BY ZenonT(60), <1>16 DEF Paid, PaymentTypeOK, Payment
    <3>. QED  BY ZenonT(60), <1>16, <3>1, UpdateInvoiceStatusType DEF Paid, InvoiceStatus
  <2>4. PaymentTypeOK'
        BY ZenonT(60), <1>16 DEF Paid, PaymentTypeOK
  <2>5. LocalsOK'
        BY ZenonT(60), <1>16 DEF Paid, Step, LocalsOK, LocalsAt, ServerTypeOK,
           PaymentLabels, DeliveryLabels, UserLabels, MerchantLabels, PaymentTypeOK, Payment
  <2>. QED  BY <2>1, <2>2, <2>3, <2>4, <2>5
<1>. QED  BY ZenonT(60), <1>3, <1>4, <1>5, <1>6, <1>7, <1>8, <1>9, <1>10, <1>11, <1>12, <1>13, <1>14,
             <1>15, <1>16 DEF PaymentStep

\* The loop of issuePO keeps the types: it goes on only while a line is left.
LEMMA NextLineType ==
    ASSUME TypeInv, NEW r \in Requests, NEW from, NEW lines \in Seq(OrderLine),
           NextLine(r, from, lines),
           UNCHANGED <<faults, globals, tokenRouteVars, payment>>
    PROVE  ServerTypeOK' /\ PurchaseTypeOK' /\ LocalsOK'
<1>. USE DEF TypeInv, TypeOK, globals, tokenRouteVars, Step
<1>0. purchase[r] \in Purchase
      BY DEF PurchaseTypeOK
<1>1. CASE lines = << >>
  <2>1. [purchase[r] EXCEPT !.lines = lines] \in Purchase
        BY ZenonT(60), <1>0 DEF Purchase
  <2>2. PurchaseTypeOK'
        BY <1>1, <2>1 DEF NextLine, PurchaseTypeOK
  <2>3. ServerTypeOK'
        BY <1>1 DEF NextLine, ServerTypeOK, Answered
  <2>4. LocalsOK'
        BY <1>1 DEF NextLine, LocalsOK, LocalsAt, ServerTypeOK, PurchaseTypeOK,
           PaymentLabels, DeliveryLabels, UserLabels, MerchantLabels
  <2>. QED  BY <2>2, <2>3, <2>4
<1>2. CASE lines # << >>
  <2>1. PICK id \in Ids :
          /\ fnGetUniqueID(id)
          /\ purchase' = [purchase EXCEPT ![r].lines = lines, ![r].processId = id]
          /\ Step(r, from, IF Head(lines).itemType = NoType THEN "failed" ELSE "createPO")
        BY <1>2 DEF NextLine
  <2>2. [purchase[r] EXCEPT !.lines = lines, !.processId = id] \in Purchase
        BY ZenonT(60), <1>0 DEF Purchase
  <2>3. PurchaseTypeOK'
        BY <2>1, <2>2 DEF PurchaseTypeOK
  <2>4. ServerTypeOK'
        BY <2>1, BoundsAreNat DEF ServerTypeOK, Answered, Awaiting, fnGetUniqueID
  <2>5. LocalsOK'
    <3>1. purchase'[r].lines # << >>
          BY ZenonT(60), <1>2, <1>0, <2>1 DEF PurchaseTypeOK, Purchase
    <3>. QED  BY <2>1, <3>1 DEF LocalsOK, LocalsAt, ServerTypeOK, PurchaseTypeOK,
                 PaymentLabels, DeliveryLabels, UserLabels, MerchantLabels
  <2>. QED  BY <2>3, <2>4, <2>5
<1>. QED  BY <1>1, <1>2

\* The document of createProcurement, and the updates of a document.
LEMMA UpdateRowType ==
    ASSUME RowsTypeOK, NEW i \in DOMAIN rows, NEW row \in Row
    PROVE  [rows EXCEPT ![i] = row] \in Seq(Row)
BY ExceptSeq DEF RowsTypeOK

LEMMA UpdateInvoiceType ==
    ASSUME RowsTypeOK, NEW poId \in Ids, NEW invoiceId \in Ids,
           NEW price \in Prices \cup {0}, updateInvoice(poId, invoiceId, price)
    PROVE  RowsTypeOK'
<1>. DEFINE i == FirstMatch(RowsOfPO(poId))
<1>1. DOMAIN rows = 1..Len(rows)
      BY LenProperties DEF RowsTypeOK
<1>2. i # 0 => i \in DOMAIN rows
      BY FirstRow DEF RowsOfPO
<1>3. CASE i = 0
      BY <1>3 DEF updateInvoice, RowsTypeOK
<1>4. CASE i # 0
  <2>1. rows[i] \in Row
        BY <1>2, <1>4, ElementOfSeq, <1>1 DEF RowsTypeOK
  <2>2. [rows[i] EXCEPT !.invoice_id = invoiceId, !.item_price = price] \in Row
        BY ZenonT(60), <2>1 DEF Row
  <2>3. rows' = [rows EXCEPT ![i] = [rows[i] EXCEPT !.invoice_id = invoiceId,
                                                    !.item_price = price]]
        BY ZenonT(60), <1>2, <1>4 DEF updateInvoice
  <2>. QED  BY <1>2, <1>4, <2>2, <2>3, UpdateRowType DEF RowsTypeOK
<1>. QED  BY <1>3, <1>4

LEMMA UpdateTokenIdType ==
    ASSUME RowsTypeOK, NEW invoiceId \in Ids, NEW t \in TokenIds \cup {NoToken},
           updateTokenId(invoiceId, t)
    PROVE  RowsTypeOK'
<1>. DEFINE i == FirstMatch(RowsOfInvoice(invoiceId))
<1>1. DOMAIN rows = 1..Len(rows)
      BY LenProperties DEF RowsTypeOK
<1>2. i # 0 => i \in DOMAIN rows
      BY FirstRow DEF RowsOfInvoice
<1>3. CASE i = 0
      BY <1>3 DEF updateTokenId, RowsTypeOK
<1>4. CASE i # 0
  <2>1. rows[i] \in Row
        BY <1>2, <1>4, ElementOfSeq, <1>1 DEF RowsTypeOK
  <2>2. [rows[i] EXCEPT !.token_id = t] \in Row
        BY <2>1 DEF Row
  <2>3. rows' = [rows EXCEPT ![i] = [rows[i] EXCEPT !.token_id = t]]
        BY <1>2, <1>4 DEF updateTokenId
  <2>. QED  BY <1>2, <1>4, <2>2, <2>3, UpdateRowType DEF RowsTypeOK
<1>. QED  BY <1>3, <1>4

\* The handlers of purchase-order and invoice keep the types.
LEMMA PurchaseStepType ==
    ASSUME TypeInv, NEW r \in Requests, PurchaseStep(r),
           UNCHANGED <<itemTokenVars, coinVars, tokenRouteVars, payment, faults>>
    PROVE  TypeInv'
<1>. USE DEF TypeInv, TypeOK, globals, coinVars, tokenRouteVars
<1>1. ItemTokenTypeOK' /\ CoinTypeOK' /\ TokenRoutesTypeOK' /\ PaymentTypeOK'
      BY DEF itemTokenVars, ItemTokenTypeOK, CoinTypeOK, TokenRoutesTypeOK, PaymentTypeOK
<1>2. SUFFICES /\ ServerTypeOK' /\ ProcurementTypeOK' /\ RowsTypeOK'
               /\ PurchaseTypeOK' /\ LocalsOK'
      BY <1>1
<1>3. CASE CreatePO(r)
  <2>1. ServerTypeOK'
        BY <1>3 DEF CreatePO, Step, ServerTypeOK, Awaiting, Answered, Addresses
  <2>2. RowsTypeOK' /\ PurchaseTypeOK'
        BY <1>3 DEF CreatePO, RowsTypeOK, PurchaseTypeOK
  <2>3. ProcurementTypeOK'
    <3>1. purchase[r].lines \in Seq(OrderLine) /\ purchase[r].lines # << >>
          BY ZenonT(60), <1>3 DEF CreatePO, Step, LocalsOK, LocalsAt, PurchaseTypeOK,
             Purchase
    <3>2. Head(purchase[r].lines) \in OrderLine
          BY ZenonT(60), <1>3, <3>1, HeadTailProperties DEF CreatePO, Step
    <3>3. purchase[r].processId \in Ids
          BY ZenonT(60), <1>3 DEF CreatePO, PurchaseTypeOK, Purchase
    <3>. QED  BY ZenonT(60), <1>3, <3>1, <3>2, <3>3, IssuePOType DEF CreatePO, OrderLine
  <2>4. LocalsOK'
        BY ZenonT(60), <1>3 DEF CreatePO, Step, LocalsOK, LocalsAt, ServerTypeOK,
           PaymentLabels, DeliveryLabels, UserLabels, MerchantLabels, PurchaseTypeOK,
           Purchase
  <2>. QED  BY <2>1, <2>2, <2>3, <2>4
<1>4. CASE SaveRow(r)
  <2>1. purchase[r].lines \in Seq(OrderLine) /\ purchase[r].lines # << >>
        BY ZenonT(60), <1>4 DEF SaveRow, LocalsOK, LocalsAt, PurchaseTypeOK, Purchase
  <2>2. /\ Head(purchase[r].lines) \in OrderLine
        /\ Tail(purchase[r].lines) \in Seq(OrderLine)
        BY ZenonT(60), <2>1, HeadTailProperties
  <2>3. ServerTypeOK' /\ PurchaseTypeOK' /\ LocalsOK'
        BY ZenonT(60), <1>4, <2>2, NextLineType DEF SaveRow
  <2>4. RowsTypeOK'
    <3>1. purchase[r].processId \in Ids /\ r \in Nat
          BY ZenonT(60), ApiServerAssumption DEF PurchaseTypeOK, Purchase
    <3>2. [transaction_id |-> r, supplier_id |-> Head(purchase[r].lines).supplierId,
           po_id |-> purchase[r].processId, invoice_id |-> 0, item_price |-> 0,
           token_id |-> NoToken] \in Row
      <4>1. 0 \in Ids
            BY BoundsAreNat DEF Ids
      <4>2. Head(purchase[r].lines).supplierId \in Suppliers
            BY <2>2 DEF OrderLine
      <4>. QED  BY ZenonT(60), <3>1, <4>1, <4>2 DEF Row
    <3>. QED  BY ZenonT(60), <1>4, <3>2, AppendProperties DEF SaveRow, createProcurement,
                 RowsTypeOK
  <2>5. ProcurementTypeOK'
        BY ZenonT(60), <1>4 DEF SaveRow, procurementVars, ProcurementTypeOK
  <2>. QED  BY <2>3, <2>4, <2>5
<1>5. CASE ReadPO(r)
  <2>1. ServerTypeOK'
        BY <1>5 DEF ReadPO, Step, ServerTypeOK, Awaiting, Answered, Addresses
  <2>2. ProcurementTypeOK' /\ RowsTypeOK'
        BY <1>5 DEF ReadPO, procurementVars, ProcurementTypeOK, RowsTypeOK
  <2>3. PurchaseTypeOK'
    <3>1. purchase[r] \in Purchase
          BY <1>5 DEF ReadPO, PurchaseTypeOK
    <3>2. pos[purchase[r].poId] \in PO
          BY ZenonT(60), <1>5, <3>1 DEF ReadPO, Purchase, ProcurementTypeOK
    <3>3. [purchase[r] EXCEPT !.supplierId = pos[purchase[r].poId].supplierId,
                                 !.itemType = pos[purchase[r].poId].itemType] \in Purchase
          BY ZenonT(60), <1>5, <3>1, <3>2 DEF ReadPO, Purchase, PO
    <3>. QED  BY <1>5, <3>1, <3>2, <3>3 DEF ReadPO, PurchaseTypeOK
  <2>4. LocalsOK'
        BY ZenonT(60), <1>5 DEF ReadPO, Step, LocalsOK, LocalsAt, ServerTypeOK,
           PaymentLabels, DeliveryLabels, UserLabels, MerchantLabels, PurchaseTypeOK,
           Purchase
  <2>. QED  BY <2>1, <2>2, <2>3, <2>4
<1>6. CASE Acknowledge(r)
  <2>1. PICK id \in Ids :
          fnGetUniqueID(id) /\ purchase' = [purchase EXCEPT ![r].processId = id]
        BY ZenonT(60), <1>6 DEF Acknowledge
  <2>2. purchase[r] \in Purchase
        BY DEF PurchaseTypeOK
  <2>3. [purchase[r] EXCEPT !.processId = id] \in Purchase
        BY ZenonT(60), <2>2 DEF Purchase
  <2>4. PurchaseTypeOK'
        BY <2>1, <2>3 DEF PurchaseTypeOK
  <2>5. ServerTypeOK'
        BY <1>6, <2>1, BoundsAreNat
        DEF Acknowledge, Step, ServerTypeOK, Answered, Awaiting, fnGetUniqueID
  <2>6. ProcurementTypeOK'
        BY ZenonT(60), <1>6, <2>2, UpdatePOStatusType DEF Acknowledge, Purchase, POStatus
  <2>7. RowsTypeOK'
        BY <1>6 DEF Acknowledge, RowsTypeOK
  <2>8. LocalsOK'
        BY <1>6, <2>1 DEF Acknowledge, Step, LocalsOK, LocalsAt, ServerTypeOK,
           PurchaseTypeOK, PaymentLabels, DeliveryLabels, UserLabels, MerchantLabels
  <2>. QED  BY <2>4, <2>5, <2>6, <2>7, <2>8
<1>7. CASE CreateInvoice(r)
  <2>1. ServerTypeOK'
        BY <1>7 DEF CreateInvoice, Step, ServerTypeOK, Awaiting, Answered, Addresses
  <2>2. RowsTypeOK' /\ PurchaseTypeOK'
        BY <1>7 DEF CreateInvoice, RowsTypeOK, PurchaseTypeOK
  <2>3. ProcurementTypeOK'
    <3>1. purchase[r] \in Purchase
          BY <1>7 DEF CreateInvoice, PurchaseTypeOK
    <3>. QED  BY ZenonT(60), <1>7, <3>1, IssueInvoiceType DEF CreateInvoice, Purchase
  <2>4. LocalsOK'
        BY ZenonT(60), <1>7 DEF CreateInvoice, Step, LocalsOK, LocalsAt, ServerTypeOK,
           PaymentLabels, DeliveryLabels, UserLabels, MerchantLabels, PurchaseTypeOK,
           Purchase
  <2>. QED  BY <2>1, <2>2, <2>3, <2>4
<1>8. CASE RecordInvoice(r)
  <2>1. ServerTypeOK'
        BY ZenonT(60), <1>8 DEF RecordInvoice, Step, ServerTypeOK, Awaiting, Answered,
           Addresses
  <2>2. ProcurementTypeOK' /\ PurchaseTypeOK'
        BY <1>8 DEF RecordInvoice, procurementVars, ProcurementTypeOK, PurchaseTypeOK
  <2>3. RowsTypeOK'
    <3>1. purchase[r] \in Purchase
          BY <1>8 DEF RecordInvoice, PurchaseTypeOK
    <3>. QED  BY ZenonT(60), <1>8, <3>1, UpdateInvoiceType DEF RecordInvoice, Purchase
  <2>4. LocalsOK'
        BY ZenonT(60), <1>8 DEF RecordInvoice, Step, LocalsOK, LocalsAt, ServerTypeOK,
           PaymentLabels, DeliveryLabels, UserLabels, MerchantLabels, PurchaseTypeOK,
           Purchase
  <2>. QED  BY <2>1, <2>2, <2>3, <2>4
<1>. QED  BY <1>3, <1>4, <1>5, <1>6, <1>7, <1>8 DEF PurchaseStep

\* The handlers of makeTokens and transferToken keep the types.
LEMMA TokenStepType ==
    ASSUME TypeInv, NEW r \in Requests, TokenStep(r),
           UNCHANGED <<purchase, payment, faults>>
    PROVE  TypeInv'
<1>. USE DEF TypeInv, TypeOK, globals, itemTokenVars, coinVars, tokenRouteVars
<1>1. PurchaseTypeOK' /\ PaymentTypeOK'
      BY DEF PurchaseTypeOK, PaymentTypeOK
<1>2. SUFFICES /\ ServerTypeOK' /\ ProcurementTypeOK' /\ ItemTokenTypeOK'
               /\ RowsTypeOK' /\ CoinTypeOK' /\ TokenRoutesTypeOK' /\ LocalsOK'
      BY <1>1
<1>3. CASE ReadInvoice(r)
  <2>1. ServerTypeOK'
        BY <1>3 DEF ReadInvoice, Step, ServerTypeOK, Awaiting, Answered, Addresses
  <2>2. /\ ProcurementTypeOK' /\ ItemTokenTypeOK'
        /\ RowsTypeOK' /\ CoinTypeOK'
        BY <1>3 DEF ReadInvoice, procurementVars, ProcurementTypeOK, ItemTokenTypeOK,
           RowsTypeOK, CoinTypeOK
  <2>3. TokenRoutesTypeOK'
    <3>1. making[r] \in Making
          BY <1>3 DEF ReadInvoice, TokenRoutesTypeOK
    <3>2. [making[r] EXCEPT !.invoice = invoices[making[r].invoiceId]] \in Making
          BY ZenonT(60), <1>3, <3>1 DEF ReadInvoice, Making, ProcurementTypeOK
    <3>. QED  BY <1>3, <3>1, <3>2 DEF ReadInvoice, TokenRoutesTypeOK
  <2>4. LocalsOK'
        BY <1>3 DEF ReadInvoice, Step, LocalsOK, LocalsAt, ServerTypeOK, PaymentLabels,
           DeliveryLabels, UserLabels, MerchantLabels, TokenRoutesTypeOK, Making
  <2>. QED  BY <2>1, <2>2, <2>3, <2>4
<1>4. CASE StoreMetadata(r)
  <2>1. ServerTypeOK'
        BY <1>4 DEF StoreMetadata, Step, ServerTypeOK, Awaiting, Answered, Addresses
  <2>2. ProcurementTypeOK' /\ RowsTypeOK' /\ CoinTypeOK'
        BY <1>4 DEF StoreMetadata, procurementVars, ProcurementTypeOK, RowsTypeOK,
           CoinTypeOK
  <2>3. ItemTokenTypeOK' /\ TokenRoutesTypeOK'
    <3>1. making[r] \in Making
          BY <1>4 DEF StoreMetadata, TokenRoutesTypeOK
    <3>2. [invoiceId |-> making[r].invoiceId, itemType |-> making[r].invoice.itemType,
           price |-> making[r].invoice.price] \in Metadata
          BY ZenonT(60), <1>4, <3>1 DEF StoreMetadata, Making, Invoice, Metadata
    <3>3. \A m \in Metadata : [making[r] EXCEPT !.tokenId = rootHash(m)] \in Making
          BY <1>4, <3>1 DEF StoreMetadata, Making, rootHash, TokenIds
    <3>. QED  BY ZenonT(60), <1>4, <3>1, <3>2, <3>3 DEF StoreMetadata, ItemTokenTypeOK,
                 TokenRoutesTypeOK
  <2>4. making'[r].tokenId \in TokenIds
    <3>1. making[r] \in Making
          BY <1>4 DEF StoreMetadata, TokenRoutesTypeOK
    <3>2. [invoiceId |-> making[r].invoiceId, itemType |-> making[r].invoice.itemType,
           price |-> making[r].invoice.price] \in Metadata
          BY ZenonT(60), <1>4, <3>1 DEF StoreMetadata, Making, Invoice, Metadata
    <3>3. \A m \in Metadata : rootHash(m) \in TokenIds
          BY <1>4 DEF StoreMetadata, rootHash, TokenIds
    <3>. QED  BY SMTT(60), <1>4, <3>1, <3>2, <3>3 DEF StoreMetadata, TokenRoutesTypeOK
  <2>5. LocalsOK'
        BY <1>4, <2>4 DEF StoreMetadata, Step, LocalsOK, LocalsAt, ServerTypeOK,
           PaymentLabels, DeliveryLabels, UserLabels, MerchantLabels, TokenRoutesTypeOK,
           Making
  <2>. QED  BY <2>1, <2>2, <2>3, <2>4, <2>5
<1>5. CASE MintToken(r)
  <2>1. ServerTypeOK'
        BY ZenonT(60), <1>5 DEF MintToken, Step, ServerTypeOK, Awaiting, Answered, Addresses
  <2>2. ProcurementTypeOK' /\ RowsTypeOK' /\ CoinTypeOK'
        BY ZenonT(60), <1>5 DEF MintToken, procurementVars, ProcurementTypeOK, RowsTypeOK,
           CoinTypeOK
  <2>3. ItemTokenTypeOK'
    <3>1. making[r].tokenId \in TokenIds
          BY ZenonT(60), <1>5 DEF MintToken, LocalsOK, LocalsAt
    <3>. QED  BY <1>5, <3>1, AccountAddress DEF MintToken, mint, ItemTokenTypeOK
  <2>4. TokenRoutesTypeOK'
        BY <1>5 DEF MintToken, TokenRoutesTypeOK
  <2>5. LocalsOK'
    <3>1. /\ pc'[r] \in {"fromAccount", "failed"} /\ OthersKeep(r)
          BY ZenonT(60), <1>5 DEF MintToken, Step, OthersKeep, ServerTypeOK,
             TokenRoutesTypeOK, Making
    <3>2. LocalsAt(r)'
          BY ZenonT(60), <1>5, <3>1 DEF MintToken, LocalsOK, LocalsAt, PaymentLabels,
             DeliveryLabels, UserLabels, MerchantLabels
    <3>. QED  BY <3>1, <3>2, LocalsKept
  <2>. QED  BY <2>1, <2>2, <2>3, <2>4, <2>5
<1>6. CASE FromAccount(r)
  <2>1. ServerTypeOK'
        BY ZenonT(60), <1>6, AccountAddress DEF FromAccount, Step, ServerTypeOK, Awaiting,
           Answered, Addresses
  <2>2. /\ ProcurementTypeOK' /\ ItemTokenTypeOK'
        /\ RowsTypeOK' /\ CoinTypeOK'
        BY ZenonT(60), <1>6 DEF FromAccount, procurementVars, ProcurementTypeOK,
           ItemTokenTypeOK, RowsTypeOK, CoinTypeOK
  <2>3. TokenRoutesTypeOK'
        BY <1>6 DEF FromAccount, TokenRoutesTypeOK
  <2>4. LocalsOK'
        BY ZenonT(60), <1>6 DEF FromAccount, Step, LocalsOK, LocalsAt, ServerTypeOK,
           PaymentLabels, DeliveryLabels, UserLabels, MerchantLabels, TokenRoutesTypeOK,
           Making
  <2>. QED  BY <2>1, <2>2, <2>3, <2>4
<1>7. CASE ToAccount(r)
  <2>1. ServerTypeOK'
        BY <1>7, AccountAddress DEF ToAccount, Step, ServerTypeOK, Awaiting, Answered,
           Addresses
  <2>2. /\ ProcurementTypeOK' /\ ItemTokenTypeOK'
        /\ RowsTypeOK' /\ CoinTypeOK'
        BY <1>7 DEF ToAccount, procurementVars, ProcurementTypeOK, ItemTokenTypeOK,
           RowsTypeOK, CoinTypeOK
  <2>3. TokenRoutesTypeOK'
    <3>1. making[r] \in Making
          BY <1>7 DEF ToAccount, TokenRoutesTypeOK
    <3>2. [making[r] EXCEPT !.callTo = AccountId(making[r].invoice.supplierId)] \in Making
          BY <1>7, <3>1, AccountAddress DEF ToAccount, Making
    <3>. QED  BY <1>7, <3>1, <3>2 DEF ToAccount, TokenRoutesTypeOK
  <2>4. LocalsOK'
        BY ZenonT(60), <1>7 DEF ToAccount, Step, LocalsOK, LocalsAt, ServerTypeOK,
           PaymentLabels, DeliveryLabels, UserLabels, MerchantLabels, TokenRoutesTypeOK,
           Making
  <2>. QED  BY <2>1, <2>2, <2>3, <2>4
<1>8. CASE ToSupplier(r)
  <2>1. ServerTypeOK'
        BY ZenonT(60), <1>8 DEF ToSupplier, Step, ServerTypeOK, Awaiting, Answered, Addresses
  <2>2. ProcurementTypeOK' /\ RowsTypeOK' /\ CoinTypeOK'
        BY ZenonT(60), <1>8 DEF ToSupplier, procurementVars, ProcurementTypeOK, RowsTypeOK,
           CoinTypeOK
  <2>3. ItemTokenTypeOK'
    <3>1. making[r].callTo \in Addresses
          BY <1>8 DEF ToSupplier, TokenRoutesTypeOK, Making
    <3>. QED  BY <1>8, <3>1 DEF ToSupplier, CanTransfer, transferFrom, ItemTokenTypeOK,
                 Addresses
  <2>4. TokenRoutesTypeOK'
        BY <1>8 DEF ToSupplier, TokenRoutesTypeOK
  <2>5. LocalsOK'
    <3>1. /\ pc'[r] \in {"pendingDelivery", "failed"} /\ OthersKeep(r)
          BY ZenonT(60), <1>8 DEF ToSupplier, Step, OthersKeep, ServerTypeOK,
             TokenRoutesTypeOK, Making
    <3>2. LocalsAt(r)'
          BY ZenonT(60), <1>8, <3>1 DEF ToSupplier, LocalsOK, LocalsAt, PaymentLabels,
             DeliveryLabels, UserLabels, MerchantLabels
    <3>. QED  BY <3>1, <3>2, LocalsKept
  <2>. QED  BY <2>1, <2>2, <2>3, <2>4, <2>5
<1>9. CASE PendingDelivery(r)
  <2>1. ServerTypeOK'
        BY ZenonT(60), <1>9 DEF PendingDelivery, Step, ServerTypeOK, Awaiting, Answered,
           Addresses
  <2>2. ItemTokenTypeOK' /\ RowsTypeOK' /\ CoinTypeOK'
        BY ZenonT(60), <1>9 DEF PendingDelivery, ItemTokenTypeOK, RowsTypeOK, CoinTypeOK
  <2>3. ProcurementTypeOK'
    <3>1. making[r].invoice.poId \in Ids
          BY ZenonT(60), <1>9 DEF PendingDelivery, TokenRoutesTypeOK, Making, Invoice
    <3>. QED  BY ZenonT(60), <1>9, <3>1, UpdatePOStatusType DEF PendingDelivery, POStatus
  <2>4. TokenRoutesTypeOK'
        BY ZenonT(60), <1>9 DEF PendingDelivery, TokenRoutesTypeOK
  <2>5. LocalsOK'
        BY ZenonT(60), <1>9 DEF PendingDelivery, Step, LocalsOK, LocalsAt, ServerTypeOK,
           PaymentLabels, DeliveryLabels, UserLabels, MerchantLabels, TokenRoutesTypeOK,
           Making
  <2>. QED  BY <2>1, <2>2, <2>3, <2>4, <2>5
<1>10. CASE RecordToken(r)
  <2>1. ServerTypeOK'
        BY ZenonT(60), <1>10 DEF RecordToken, Step, ServerTypeOK, Awaiting, Answered,
           Addresses
  <2>2. ProcurementTypeOK' /\ ItemTokenTypeOK' /\ CoinTypeOK'
        BY <1>10 DEF RecordToken, procurementVars, ProcurementTypeOK, ItemTokenTypeOK,
           CoinTypeOK
  <2>3. RowsTypeOK'
    <3>1. making[r].invoiceId \in Ids /\ making[r].tokenId \in TokenIds \cup {NoToken}
          BY <1>10 DEF RecordToken, TokenRoutesTypeOK, Making
    <3>. QED  BY ZenonT(60), <1>10, <3>1, UpdateTokenIdType DEF RecordToken, Step
  <2>4. TokenRoutesTypeOK'
        BY <1>10 DEF RecordToken, TokenRoutesTypeOK
  <2>5. LocalsOK'
        BY ZenonT(60), <1>10 DEF RecordToken, Step, LocalsOK, LocalsAt, ServerTypeOK,
           PaymentLabels, DeliveryLabels, UserLabels, MerchantLabels, TokenRoutesTypeOK,
           Making
  <2>. QED  BY <2>1, <2>2, <2>3, <2>4, <2>5
<1>11. CASE FindRow(r)
  <2>. DEFINE i == FirstMatch(RowsOfToken(delivery[r].tokenId))
  <2>1. DOMAIN rows = 1..Len(rows)
        BY ZenonT(60), LenProperties DEF RowsTypeOK
  <2>2. i \in Nat /\ (i # 0 => i \in DOMAIN rows)
        BY SMTT(60), <2>1, FirstRow DEF RowsOfToken
  <2>3. i # 0 => rows[i] \in Row
        BY <2>1, <2>2, ElementOfSeq DEF RowsTypeOK
  <2>4. /\ (IF i = 0 THEN 0 ELSE rows[i].po_id) \in Ids
        /\ (IF i = 0 THEN 0 ELSE rows[i].invoice_id) \in Ids
    <3>1. 0 \in Ids
          BY BoundsAreNat DEF Ids
    <3>2. \A x \in Row : x.po_id \in Ids /\ x.invoice_id \in Ids
          BY DEF Row
    <3>. QED  BY ZenonT(60), <2>3, <3>1, <3>2
  <2>5. delivery[r] \in Delivery
        BY DEF TokenRoutesTypeOK
  <2>6. \A p, v \in Ids :
          [delivery[r] EXCEPT !.row = i, !.po_id = p, !.invoice_id = v] \in Delivery
        BY ZenonT(60), <2>2, <2>5 DEF Delivery
  <2>7. TokenRoutesTypeOK'
    <3>. HIDE DEF i
    <3>1. delivery' = [delivery EXCEPT ![r] = [delivery[r] EXCEPT
            !.row = i, !.po_id = IF i = 0 THEN 0 ELSE rows[i].po_id,
            !.invoice_id = IF i = 0 THEN 0 ELSE rows[i].invoice_id]]
          BY ZenonT(60), <1>11 DEF FindRow, i
    <3>2. delivery'  \in [Requests -> Delivery]
          BY ZenonT(60), <2>4, <2>6, <3>1 DEF TokenRoutesTypeOK
    <3>. QED  BY <1>11, <3>2 DEF FindRow, TokenRoutesTypeOK
  <2>8. /\ ProcurementTypeOK' /\ ItemTokenTypeOK'
        /\ RowsTypeOK' /\ CoinTypeOK'
        BY <1>11 DEF FindRow, procurementVars, ProcurementTypeOK, ItemTokenTypeOK,
           RowsTypeOK, CoinTypeOK
  <2>9. ServerTypeOK'
        BY <1>11 DEF FindRow, Step, ServerTypeOK, Awaiting
  <2>10. LocalsOK'
    <3>1. /\ pc[r] = "findRow" /\ pc'[r] = "userAccount" /\ OthersKeep(r)
          /\ delivery'[r].from = delivery[r].from /\ delivery'[r].to = delivery[r].to
          BY <1>11, <2>5 DEF FindRow, Step, OthersKeep, ServerTypeOK, TokenRoutesTypeOK,
             Delivery
    <3>2. LocalsAt(r)'
          BY ZenonT(60), <3>1 DEF LocalsOK, LocalsAt, PaymentLabels, DeliveryLabels,
             UserLabels, MerchantLabels
    <3>. QED  BY ZenonT(60), <3>1, <3>2, LocalsKept
  <2>. QED  BY <2>7, <2>8, <2>9, <2>10
<1>12. CASE UserAccount(r)
  <2>1. ServerTypeOK'
        BY ZenonT(60), <1>12 DEF UserAccount, Step, ServerTypeOK, Awaiting, Answered,
           Addresses, TokenRoutesTypeOK, Delivery
  <2>2. /\ ProcurementTypeOK' /\ ItemTokenTypeOK'
        /\ RowsTypeOK' /\ CoinTypeOK'
        BY <1>12 DEF UserAccount, procurementVars, ProcurementTypeOK, ItemTokenTypeOK,
           RowsTypeOK, CoinTypeOK
  <2>3. TokenRoutesTypeOK'
        BY <1>12 DEF UserAccount, TokenRoutesTypeOK
  <2>4. LocalsOK'
        BY ZenonT(60), <1>12 DEF UserAccount, Step, LocalsOK, LocalsAt, ServerTypeOK,
           PaymentLabels, DeliveryLabels, UserLabels, MerchantLabels, TokenRoutesTypeOK,
           Delivery
  <2>. QED  BY <2>1, <2>2, <2>3, <2>4
<1>13. CASE MerchantAccount(r)
  <2>1. ServerTypeOK'
        BY ZenonT(60), <1>13 DEF MerchantAccount, Step, ServerTypeOK, Awaiting, Answered,
           Addresses, TokenRoutesTypeOK, Delivery
  <2>2. /\ ProcurementTypeOK' /\ ItemTokenTypeOK'
        /\ RowsTypeOK' /\ CoinTypeOK'
        BY <1>13 DEF MerchantAccount, procurementVars, ProcurementTypeOK, ItemTokenTypeOK,
           RowsTypeOK, CoinTypeOK
  <2>3. TokenRoutesTypeOK'
        BY <1>13 DEF MerchantAccount, TokenRoutesTypeOK
  <2>4. LocalsOK'
        BY ZenonT(60), <1>13 DEF MerchantAccount, Step, LocalsOK, LocalsAt, ServerTypeOK,
           PaymentLabels, DeliveryLabels, UserLabels, MerchantLabels, TokenRoutesTypeOK,
           Delivery
  <2>. QED  BY <2>1, <2>2, <2>3, <2>4
<1>14. CASE OwnerOf(r, "ownerOf", "gotOwner")
  <2>1. ServerTypeOK'
        BY <1>14 DEF OwnerOf, Step, ServerTypeOK, Awaiting, Answered, Addresses
  <2>2. /\ ProcurementTypeOK' /\ ItemTokenTypeOK'
        /\ RowsTypeOK' /\ CoinTypeOK'
        BY <1>14 DEF OwnerOf, procurementVars, ProcurementTypeOK, ItemTokenTypeOK,
           RowsTypeOK, CoinTypeOK
  <2>3. TokenRoutesTypeOK'
    <3>1. delivery[r] \in Delivery
          BY <1>14 DEF OwnerOf, TokenRoutesTypeOK
    <3>2. \A a \in Addresses : [delivery[r] EXCEPT !.tokenOwner = a] \in Delivery
          BY <1>14, <3>1 DEF OwnerOf, Delivery
    <3>3. (IF delivery[r].tokenId \in DOMAIN owner THEN owner[delivery[r].tokenId]
           ELSE delivery[r].tokenOwner) \in Addresses
          BY <1>14, <3>1 DEF OwnerOf, Delivery, ItemTokenTypeOK, Addresses
    <3>. QED  BY <1>14, <3>1, <3>2, <3>3 DEF OwnerOf, TokenRoutesTypeOK
  <2>4. LocalsOK'
        BY <1>14 DEF OwnerOf, Step, LocalsOK, LocalsAt, ServerTypeOK, PaymentLabels,
           DeliveryLabels, UserLabels, MerchantLabels, TokenRoutesTypeOK, Delivery
  <2>. QED  BY <2>1, <2>2, <2>3, <2>4
<1>15. CASE GotOwner(r)
  <2>1. ServerTypeOK'
        BY <1>15 DEF GotOwner, Step, ServerTypeOK, Awaiting, Answered, Addresses
  <2>2. /\ ProcurementTypeOK' /\ ItemTokenTypeOK'
        /\ RowsTypeOK' /\ CoinTypeOK'
        BY <1>15 DEF GotOwner, procurementVars, ProcurementTypeOK, ItemTokenTypeOK,
           RowsTypeOK, CoinTypeOK
  <2>3. TokenRoutesTypeOK'
    <3>1. delivery[r] \in Delivery
          BY <1>15 DEF GotOwner, TokenRoutesTypeOK
    <3>2. [delivery[r] EXCEPT !.callFrom = merchantAcct, !.callTo = userAcc] \in Delivery
          BY ZenonT(60), <1>15, <3>1 DEF GotOwner, Delivery, ServerTypeOK
    <3>. QED  BY <1>15, <3>1, <3>2 DEF GotOwner, TokenRoutesTypeOK
  <2>4. LocalsOK'
        BY SMTT(60), <1>15 DEF GotOwner, Step, LocalsOK, LocalsAt, ServerTypeOK,
           PaymentLabels, DeliveryLabels, UserLabels, MerchantLabels, TokenRoutesTypeOK,
           Delivery
  <2>. QED  BY <2>1, <2>2, <2>3, <2>4
<1>16. CASE TransferFrom(r)
  <2>1. ServerTypeOK'
        BY ZenonT(60), <1>16 DEF TransferFrom, Step, ServerTypeOK, Awaiting, Answered,
           Addresses
  <2>2. ProcurementTypeOK' /\ RowsTypeOK'
        BY ZenonT(60), <1>16 DEF TransferFrom, procurementVars, ProcurementTypeOK,
           RowsTypeOK
  <2>3. ItemTokenTypeOK'
    <3>1. delivery[r].callTo \in Addresses
          BY ZenonT(60), <1>16 DEF TransferFrom, TokenRoutesTypeOK, Delivery
    <3>. QED  BY ZenonT(60), <1>16, <3>1 DEF TransferFrom, CanTransfer, transferFrom,
                 ItemTokenTypeOK, Addresses
  <2>4. CoinTypeOK'
    <3>1. pc[r] = "transferFrom" /\ Mined(delivery[r].callFrom) /\ balance' = balance
          BY ZenonT(60), <1>16 DEF TransferFrom, Step
    <3>2. delivery[r].callFrom \in Accounts
          BY ZenonT(60), <1>16, <3>1 DEF TransferFrom, LocalsOK, LocalsAt
    <3>. QED  BY SMTT(60), <1>16, <3>1, <3>2 DEF Mined, CoinTypeOK
  <2>5. TokenRoutesTypeOK'
        BY ZenonT(60), <1>16 DEF TransferFrom, TokenRoutesTypeOK
  <2>6. LocalsOK'
    <3>1. /\ pc[r] = "transferFrom" /\ pc'[r] \in {"newOwnerOf", "failed"}
          /\ OthersKeep(r) /\ delivery'[r] = delivery[r]
          BY ZenonT(60), <1>16 DEF TransferFrom, Step, OthersKeep, ServerTypeOK,
             TokenRoutesTypeOK, Delivery
    <3>2. LocalsAt(r)'
          BY ZenonT(60), <1>16, <3>1 DEF TransferFrom, LocalsOK, LocalsAt, PaymentLabels,
             DeliveryLabels, UserLabels, MerchantLabels
    <3>. QED  BY ZenonT(60), <3>1, <3>2, LocalsKept
  <2>. QED  BY <2>1, <2>2, <2>3, <2>4, <2>5, <2>6
<1>17. CASE OwnerOf(r, "newOwnerOf", "gotNewOwner")
  <2>1. ServerTypeOK'
        BY <1>17 DEF OwnerOf, Step, ServerTypeOK, Awaiting, Answered, Addresses
  <2>2. /\ ProcurementTypeOK' /\ ItemTokenTypeOK'
        /\ RowsTypeOK' /\ CoinTypeOK'
        BY <1>17 DEF OwnerOf, procurementVars, ProcurementTypeOK, ItemTokenTypeOK,
           RowsTypeOK, CoinTypeOK
  <2>3. TokenRoutesTypeOK'
    <3>1. delivery[r] \in Delivery
          BY <1>17 DEF OwnerOf, TokenRoutesTypeOK
    <3>2. \A a \in Addresses : [delivery[r] EXCEPT !.tokenOwner = a] \in Delivery
          BY <1>17, <3>1 DEF OwnerOf, Delivery
    <3>3. (IF delivery[r].tokenId \in DOMAIN owner THEN owner[delivery[r].tokenId]
           ELSE delivery[r].tokenOwner) \in Addresses
          BY <1>17, <3>1 DEF OwnerOf, Delivery, ItemTokenTypeOK, Addresses
    <3>. QED  BY <1>17, <3>1, <3>2, <3>3 DEF OwnerOf, TokenRoutesTypeOK
  <2>4. LocalsOK'
    <3>1. /\ pc[r] = "newOwnerOf" /\ pc'[r] \in {"gotNewOwner", "failed"}
          /\ OthersKeep(r)
          /\ delivery'[r].from = delivery[r].from /\ delivery'[r].to = delivery[r].to
          BY ZenonT(60), <1>17 DEF OwnerOf, Step, OthersKeep, ServerTypeOK,
             TokenRoutesTypeOK, Delivery
    <3>2. LocalsAt(r)'
          BY ZenonT(60), <3>1 DEF LocalsOK, LocalsAt, PaymentLabels, DeliveryLabels,
             OthersKeep, UserLabels, MerchantLabels
    <3>. QED  BY ZenonT(60), <3>1, <3>2, LocalsKept
  <2>. QED  BY <2>1, <2>2, <2>3, <2>4
<1>18. CASE GotNewOwner(r)
  <2>1. ServerTypeOK'
        BY <1>18 DEF GotNewOwner, Step, ServerTypeOK, Awaiting, Answered, Addresses
  <2>2. /\ ProcurementTypeOK' /\ ItemTokenTypeOK'
        /\ RowsTypeOK' /\ CoinTypeOK'
        BY <1>18 DEF GotNewOwner, procurementVars, ProcurementTypeOK, ItemTokenTypeOK,
           RowsTypeOK, CoinTypeOK
  <2>3. TokenRoutesTypeOK'
        BY <1>18 DEF GotNewOwner, TokenRoutesTypeOK
  <2>4. LocalsOK'
    <3>1. /\ pc[r] = "gotNewOwner" /\ pc'[r] \in {"ok", "failed", "delivered"}
          /\ OthersKeep(r) /\ delivery'[r] = delivery[r]
          BY ZenonT(60), <1>18 DEF GotNewOwner, Step, OthersKeep, ServerTypeOK
    <3>2. LocalsAt(r)'
          BY ZenonT(60), <3>1 DEF LocalsOK, LocalsAt, PaymentLabels, DeliveryLabels,
             OthersKeep, UserLabels, MerchantLabels
    <3>. QED  BY ZenonT(60), <3>1, <3>2, LocalsKept
  <2>. QED  BY <2>1, <2>2, <2>3, <2>4
<1>19. CASE Delivered(r)
  <2>1. ServerTypeOK'
        BY ZenonT(60), <1>19 DEF Delivered, Step, ServerTypeOK, Awaiting, Answered, Addresses
  <2>2. ItemTokenTypeOK' /\ RowsTypeOK' /\ CoinTypeOK'
        BY ZenonT(60), <1>19 DEF Delivered, ItemTokenTypeOK, RowsTypeOK, CoinTypeOK
  <2>3. ProcurementTypeOK'
    <3>1. delivery[r].po_id \in Ids
          BY <1>19 DEF Delivered, TokenRoutesTypeOK, Delivery
    <3>. QED  BY ZenonT(60), <1>19, <3>1, UpdatePOStatusType DEF Delivered, POStatus
  <2>4. TokenRoutesTypeOK'
        BY <1>19 DEF Delivered, TokenRoutesTypeOK
  <2>5. LocalsOK'
        BY ZenonT(60), <1>19 DEF Delivered, Step, LocalsOK, LocalsAt, ServerTypeOK,
           PaymentLabels, DeliveryLabels, UserLabels, MerchantLabels, TokenRoutesTypeOK,
           Delivery
  <2>. QED  BY <2>1, <2>2, <2>3, <2>4, <2>5
<1>20. CASE Completed(r)
  <2>1. ServerTypeOK'
        BY ZenonT(60), <1>20 DEF Completed, Step, ServerTypeOK, Awaiting, Answered, Addresses
  <2>2. ItemTokenTypeOK' /\ RowsTypeOK' /\ CoinTypeOK'
        BY ZenonT(60), <1>20 DEF Completed, ItemTokenTypeOK, RowsTypeOK, CoinTypeOK
  <2>3. ProcurementTypeOK'
    <3>1. delivery[r].invoice_id \in Ids
          BY ZenonT(60), <1>20 DEF Completed, TokenRoutesTypeOK, Delivery
    <3>. QED  BY ZenonT(60), <1>20, <3>1, UpdatePOStatusType DEF Completed, InvoiceStatus
  <2>4. TokenRoutesTypeOK'
        BY ZenonT(60), <1>20 DEF Completed, TokenRoutesTypeOK
  <2>5. LocalsOK'
        BY ZenonT(60), <1>20 DEF Completed, Step, LocalsOK, LocalsAt, ServerTypeOK,
           PaymentLabels, DeliveryLabels, UserLabels, MerchantLabels, TokenRoutesTypeOK,
           Delivery
  <2>. QED  BY <2>1, <2>2, <2>3, <2>4, <2>5
<1>. QED  BY ZenonT(60), <1>3, <1>4, <1>5, <1>6, <1>7, <1>8, <1>9, <1>10, <1>11, <1>12, <1>13,
             <1>14, <1>15, <1>16, <1>17, <1>18, <1>19, <1>20 DEF TokenStep

\* The first run of a handler, from the arrival of its request, keeps the
\* types.
LEMMA SendType ==
    ASSUME TypeInv, NEW r \in Requests, Send(r), UNCHANGED faults
    PROVE  TypeInv'
<1>. USE DEF TypeInv, TypeOK, globals, coinVars, tokenRouteVars
<1>1. ASSUME NEW body \in Bodies, PostPurchaseOrder(r, body),
             UNCHANGED <<itemTokenVars, coinVars, tokenRouteVars, payment>>
      PROVE  TypeInv'
  <2>1. body \in Seq(OrderLine)
        BY BodiesAssumption
  <2>2. ServerTypeOK' /\ PurchaseTypeOK' /\ LocalsOK'
        BY <1>1, <2>1, NextLineType DEF PostPurchaseOrder
  <2>3. /\ ProcurementTypeOK' /\ ItemTokenTypeOK' /\ RowsTypeOK' /\ CoinTypeOK'
        /\ TokenRoutesTypeOK' /\ PaymentTypeOK'
        BY ZenonT(60), <1>1 DEF PostPurchaseOrder, procurementVars, itemTokenVars,
           ProcurementTypeOK, ItemTokenTypeOK, RowsTypeOK, CoinTypeOK, TokenRoutesTypeOK,
           PaymentTypeOK
  <2>. QED  BY <2>2, <2>3
<1>2. ASSUME NEW poId \in KnownPOs \cup {0}, NEW itemPrice \in Prices,
             PostInvoice(r, poId, itemPrice),
             UNCHANGED <<itemTokenVars, coinVars, tokenRouteVars, payment>>
      PROVE  TypeInv'
  <2>1. poId \in Ids
        BY KnownAreIds, BoundsAreNat DEF Ids
  <2>2. purchase[r] \in Purchase
        BY DEF PurchaseTypeOK
  <2>3. [purchase[r] EXCEPT !.poId = poId, !.itemPrice = itemPrice] \in Purchase
        BY ZenonT(60), <2>1, <2>2 DEF Purchase
  <2>4. PurchaseTypeOK'
        BY <1>2, <2>3 DEF PostInvoice, PurchaseTypeOK
  <2>5. ServerTypeOK'
        BY <1>2 DEF PostInvoice, Arrive, ServerTypeOK, Awaiting
  <2>6. LocalsOK'
        BY ZenonT(60), <1>2 DEF PostInvoice, Arrive, LocalsOK, LocalsAt, ServerTypeOK,
           PurchaseTypeOK, Purchase, PaymentLabels, DeliveryLabels, UserLabels,
           MerchantLabels
  <2>7. /\ ProcurementTypeOK' /\ ItemTokenTypeOK' /\ RowsTypeOK' /\ CoinTypeOK'
        /\ TokenRoutesTypeOK' /\ PaymentTypeOK'
        BY <1>2 DEF PostInvoice, procurementVars, itemTokenVars, ProcurementTypeOK,
           ItemTokenTypeOK, RowsTypeOK, CoinTypeOK, TokenRoutesTypeOK, PaymentTypeOK
  <2>. QED  BY <2>4, <2>5, <2>6, <2>7
<1>3. ASSUME NEW invoiceId \in KnownInvoices \cup {0}, PostMakeTokens(r, invoiceId),
             UNCHANGED <<purchase, payment>>
      PROVE  TypeInv'
  <2>1. invoiceId \in Ids
        BY KnownAreIds, BoundsAreNat DEF Ids
  <2>2. making[r] \in Making
        BY DEF TokenRoutesTypeOK
  <2>3. [making[r] EXCEPT !.invoiceId = invoiceId] \in Making
        BY <2>1, <2>2 DEF Making
  <2>4. TokenRoutesTypeOK'
        BY <1>3, <2>3 DEF PostMakeTokens, TokenRoutesTypeOK
  <2>5. ServerTypeOK'
        BY <1>3 DEF PostMakeTokens, Arrive, ServerTypeOK, Awaiting
  <2>6. LocalsOK'
        BY <1>3 DEF PostMakeTokens, Arrive, LocalsOK, LocalsAt, ServerTypeOK,
           TokenRoutesTypeOK, Making, PaymentLabels, DeliveryLabels, UserLabels,
           MerchantLabels
  <2>7. /\ ProcurementTypeOK' /\ ItemTokenTypeOK' /\ RowsTypeOK' /\ CoinTypeOK'
        /\ PurchaseTypeOK' /\ PaymentTypeOK'
        BY <1>3 DEF PostMakeTokens, procurementVars, itemTokenVars, ProcurementTypeOK,
           ItemTokenTypeOK, RowsTypeOK, CoinTypeOK, PurchaseTypeOK, PaymentTypeOK
  <2>. QED  BY <2>4, <2>5, <2>6, <2>7
<1>4. ASSUME NEW t \in DOMAIN owner, NEW parties \in TransferParties,
             PostTransferToken(r, t, parties), UNCHANGED <<purchase, payment>>
      PROVE  TypeInv'
  <2>1. parties[1] \in Accounts /\ parties[2] \in Accounts
        BY TransferAssumption
  <2>2. t \in TokenIds
        BY DEF ItemTokenTypeOK
  <2>3. delivery[r] \in Delivery
        BY DEF TokenRoutesTypeOK
  <2>4. [delivery[r] EXCEPT !.tokenId = t, !.from = parties[1], !.to = parties[2]] \in Delivery
        BY ZenonT(60), <2>1, <2>2, <2>3 DEF Delivery, Addresses
  <2>5. TokenRoutesTypeOK'
        BY <1>4, <2>4 DEF PostTransferToken, TokenRoutesTypeOK
  <2>6. ServerTypeOK'
        BY <1>4 DEF PostTransferToken, Arrive, ServerTypeOK, Awaiting
  <2>7. LocalsOK'
        BY <1>4, <2>1, <2>3
        DEF PostTransferToken, Arrive, LocalsOK, LocalsAt, ServerTypeOK, TokenRoutesTypeOK, Delivery,
            PaymentLabels, DeliveryLabels, UserLabels, MerchantLabels
  <2>8. /\ ProcurementTypeOK' /\ ItemTokenTypeOK' /\ RowsTypeOK' /\ CoinTypeOK'
        /\ PurchaseTypeOK' /\ PaymentTypeOK'
        BY <1>4 DEF PostTransferToken, procurementVars, itemTokenVars, ProcurementTypeOK,
           ItemTokenTypeOK, RowsTypeOK, CoinTypeOK, PurchaseTypeOK, PaymentTypeOK
  <2>. QED  BY <2>5, <2>6, <2>7, <2>8
<1>5. ASSUME NEW invoiceId \in KnownInvoices \cup {0}, NEW parties \in PaymentParties,
             PostPaySupplier(r, invoiceId, parties),
             UNCHANGED <<itemTokenVars, rows, purchase, tokenRouteVars>>
      PROVE  TypeInv'
  <2>1. parties[1] \in Accounts /\ parties[2] \in Accounts
        BY PaymentAssumption
  <2>2. invoiceId \in Ids
        BY KnownAreIds, BoundsAreNat DEF Ids
  <2>3. payment[r] \in Payment
        BY DEF PaymentTypeOK
  <2>4. [payment[r] EXCEPT !.invoiceId = invoiceId, !.fromId = parties[1],
                           !.toId = parties[2]] \in Payment
        BY ZenonT(60), <2>1, <2>2, <2>3 DEF Payment, Addresses
  <2>5. PaymentTypeOK'
        BY <1>5, <2>4 DEF PostPaySupplier, PaymentTypeOK
  <2>6. ServerTypeOK'
        BY <1>5 DEF PostPaySupplier, Arrive, ServerTypeOK, Awaiting
  <2>7. LocalsOK'
        BY ZenonT(60), <1>5, <2>1, <2>3 DEF PostPaySupplier, Arrive, LocalsOK, LocalsAt,
           ServerTypeOK, PaymentTypeOK, Payment, PaymentLabels, DeliveryLabels, UserLabels,
           MerchantLabels
  <2>8. /\ ProcurementTypeOK' /\ ItemTokenTypeOK' /\ RowsTypeOK' /\ CoinTypeOK'
        /\ PurchaseTypeOK' /\ TokenRoutesTypeOK'
        BY <1>5 DEF PostPaySupplier, chainVars, procurementVars, itemTokenVars,
           ProcurementTypeOK, ItemTokenTypeOK, RowsTypeOK, CoinTypeOK, PurchaseTypeOK,
           TokenRoutesTypeOK
  <2>. QED  BY <2>5, <2>6, <2>7, <2>8
<1>. QED  BY ZenonT(60), <1>1, <1>2, <1>3, <1>4, <1>5 DEF Send, PurchaseRequest, TokenRequest,
             PaymentRequest

\* A failed call and a crash keep the types: the globals lose their values
\* only together with the handlers that rely on them.
LEMMA FaultType ==
    ASSUME TypeInv, Fault
    PROVE  TypeInv'
<1>. USE DEF TypeInv, TypeOK, Fault, globals, coinVars, tokenRouteVars
<1>1. /\ ProcurementTypeOK' /\ ItemTokenTypeOK' /\ RowsTypeOK' /\ CoinTypeOK'
      /\ PurchaseTypeOK' /\ TokenRoutesTypeOK' /\ PaymentTypeOK'
      BY ZenonT(60) DEF procurementVars, itemTokenVars, ProcurementTypeOK, ItemTokenTypeOK,
         RowsTypeOK, CoinTypeOK, PurchaseTypeOK, TokenRoutesTypeOK, PaymentTypeOK
<1>2. CASE CallFails
  <2>1. ServerTypeOK'
        BY SMTT(60), <1>2, FaultsAreNat DEF CallFails, ServerTypeOK, Answered, InFlight
  <2>2. LocalsOK'
    <3>1. \A q \in Requests : pc'[q] = pc[q] \/ pc'[q] = "failed"
          BY ZenonT(60), <1>2 DEF CallFails, ServerTypeOK, InFlight
    <3>2. ASSUME NEW q \in Requests PROVE LocalsAt(q)'
          BY ZenonT(60), <1>2, <3>1 DEF CallFails, LocalsOK, LocalsAt, PaymentLabels,
             DeliveryLabels, UserLabels, MerchantLabels
    <3>. QED  BY <3>2 DEF LocalsOK
  <2>. QED  BY <1>1, <2>1, <2>2
<1>3. CASE Crash
  <2>1. ServerTypeOK'
        BY SMTT(60), <1>3, FaultsAreNat DEF Crash, ServerTypeOK, Answered, Addresses
  <2>2. \A q \in Requests : pc'[q] \notin Awaiting
        BY ZenonT(60), <1>3 DEF Crash, InFlight, ServerTypeOK, Awaiting
  <2>3. LocalsOK'
    <3>1. ASSUME NEW q \in Requests PROVE LocalsAt(q)'
          BY ZenonT(60), <2>2 DEF LocalsAt, Awaiting, PaymentLabels, DeliveryLabels,
             UserLabels, MerchantLabels
    <3>. QED  BY <3>1 DEF LocalsOK
  <2>. QED  BY <1>1, <2>1, <2>3
<1>. QED  BY ZenonT(60), <1>2, <1>3

LEMMA InitType == Init => TypeInv
<1>. SUFFICES ASSUME Init PROVE TypeInv
     OBVIOUS
<1>. USE DEF Init
<1>1. ServerTypeOK
      BY SMTT(60), BoundsAreNat, ApiServerAssumption DEF ServerInit, ServerTypeOK, Addresses
<1>2. 0 \in Ids
      BY BoundsAreNat DEF Ids
<1>3. EmptyPO \in PO /\ EmptyInvoice \in Invoice
      BY ZenonT(60), <1>2 DEF EmptyPO, PO, EmptyInvoice, Invoice
<1>4. ProcurementTypeOK
      BY <1>3, EmptySeq DEF ProcurementInit, ProcurementTypeOK
<1>5. ItemTokenTypeOK
      BY DEF ItemTokenInit, ItemTokenTypeOK
<1>6. RowsTypeOK
      BY EmptySeq DEF RowsInit, RowsTypeOK
<1>7. CoinTypeOK
      BY SupplyAssumption DEF CoinInit, CoinTypeOK
<1>8. PurchaseTypeOK
      BY ZenonT(60), <1>2, EmptySeq DEF PurchaseInit, NoPurchase, PurchaseTypeOK, Purchase
<1>9. TokenRoutesTypeOK
      BY ZenonT(60), <1>2, <1>3 DEF TokenRoutesInit, NoMaking, NoDelivery, TokenRoutesTypeOK,
         Making, Delivery, Addresses
<1>10. PaymentTypeOK
      BY ZenonT(60), <1>2 DEF PaymentInit, NoPayment, NoReceipt, PaymentTypeOK, Payment,
         Receipt, Addresses
<1>11. LocalsOK
      BY ZenonT(60) DEF ServerInit, LocalsOK, LocalsAt, PaymentLabels, DeliveryLabels,
         UserLabels, MerchantLabels
<1>. QED  BY <1>1, <1>4, <1>5, <1>6, <1>7, <1>8, <1>9, <1>10, <1>11 DEF TypeInv, TypeOK

LEMMA NextType == TypeInv /\ [Next]_vars => TypeInv'
<1>. SUFFICES ASSUME TypeInv, [Next]_vars PROVE TypeInv'
     OBVIOUS
<1>1. CASE UNCHANGED vars
      BY ZenonT(60), <1>1 DEF vars, serverVars, globals, procurementVars, itemTokenVars,
         coinVars, tokenRouteVars, TypeInv, TypeOK, LocalsOK, LocalsAt, ServerTypeOK,
         ProcurementTypeOK, ItemTokenTypeOK, RowsTypeOK, CoinTypeOK, PurchaseTypeOK,
         TokenRoutesTypeOK, PaymentTypeOK
<1>2. ASSUME NEW r \in Requests, Handle(r), UNCHANGED faults PROVE TypeInv'
      BY ZenonT(60), <1>2, PurchaseStepType, TokenStepType, PaymentStepType DEF Handle
<1>. QED  BY <1>1, <1>2, SendType, FaultType DEF Next, Waiting

\* The back end keeps its types: every id, price and status that reaches the
\* contracts and the collection is one they hold, no account is ever
\* overdrawn by the top-up and the transfer of transferAmount, and no request
\* indexes a balance with an address that a crash unset.
THEOREM TypeCorrect == Spec => []TypeOK
<1>1. TypeInv => TypeOK
      BY DEF TypeInv
<1>. QED  BY InitType, NextType, <1>1, PTL DEF Spec

-----------------------------------------------------------------------------
(* The collection: the inductive invariant                                 *)

\* Ids are handed out in order, and what is on chain was handed out.  An id
\* that a handler still has to put on chain is not there yet, and no other
\* handler holds it.
IdsOK ==
    /\ KnownPOs \subseteq 1..(nextId - 1)
    /\ KnownInvoices \subseteq 1..(nextId - 1)
    /\ \A r \in Requests :
         pc[r] \in {"createPO", "createInvoice"} =>
             /\ purchase[r].processId \in 1..(nextId - 1)
             /\ purchase[r].processId \notin KnownPOs \cup KnownInvoices
    /\ \A r, s \in Requests :
         (/\ pc[r] \in {"createPO", "createInvoice"}
          /\ pc[s] \in {"createPO", "createInvoice"}
          /\ purchase[r].processId = purchase[s].processId) => r = s

\* What nothing was issued under is empty, except for its status.
UnissuedOK ==
    /\ \A p \in Ids : pos[p].itemType # NoType => p \in KnownPOs
    /\ invoices[0].supplierId = ""

\* What the handlers of issuePO and issueInvoice hold agrees with the chain.
PurchaseAt(r) ==
    LET p == purchase[r]
    IN  /\ pc[r] = "saveRow" =>
             /\ p.processId \in KnownPOs
             /\ pos[p.processId].supplierId = Head(p.lines).supplierId
        /\ (pc[r] = "acknowledge" /\ p.itemType # NoType)
           \/ pc[r] \in {"createInvoice", "recordInvoice"} =>
             /\ p.poId \in KnownPOs
             /\ pos[p.poId].supplierId = p.supplierId
        /\ pc[r] = "recordInvoice" =>
             /\ p.processId \in KnownInvoices
             /\ invoices[p.processId].poId = p.poId
             /\ invoices[p.processId].price = p.itemPrice
             /\ invoices[p.processId].supplierId = p.supplierId

PurchaseOK == \A r \in Requests : PurchaseAt(r)

\* What the handlers of makeTokens hold agrees with the chain.
MakingAt(r) ==
    LET m == making[r]
    IN  /\ pc[r] \in {"readInvoice", "store", "mint"} =>
             m.invoiceId \in KnownInvoices \cup {0}
        /\ pc[r] \in {"store", "mint", "fromAccount", "toAccount"} =>
             m.invoice.supplierId = invoices[m.invoiceId].supplierId
        /\ pc[r] \in {"mint", "fromAccount", "toAccount", "toSupplier",
                      "pendingDelivery", "recordToken"} =>
             m.tokenId \in TokenIds /\ m.tokenId.hash.invoiceId = m.invoiceId
        /\ pc[r] \in {"fromAccount", "toAccount", "toSupplier",
                      "pendingDelivery", "recordToken"} =>
             m.tokenId \in DOMAIN owner
        /\ pc[r] \in {"toSupplier", "pendingDelivery", "recordToken"} =>
             m.invoiceId # 0

MakingOK == \A r \in Requests : MakingAt(r)

\* The documents and the tokens name ids that are on chain.
RowsOK ==
    /\ \A i \in DOMAIN rows :
         /\ rows[i].po_id \in KnownPOs
         /\ rows[i].invoice_id \in KnownInvoices \cup {0}
    /\ \A t \in DOMAIN owner : t.hash.invoiceId \in KnownInvoices \cup {0}

RowsInv == /\ IdsOK
           /\ UnissuedOK
           /\ PurchaseOK
           /\ MakingOK
           /\ RowsOK
           /\ RowsReferToChain

-----------------------------------------------------------------------------
(* What a step keeps when it leaves a part of the state alone              *)

\* No order, and no invoice, is issued; only the status may change.
POsKept ==
    /\ \A p \in Ids : /\ pos'[p].supplierId = pos[p].supplierId
                      /\ pos'[p].itemType = pos[p].itemType
    /\ UNCHANGED poArray

InvoicesKept ==
    /\ \A i \in Ids : /\ invoices'[i].poId = invoices[i].poId
                      /\ invoices'[i].itemType = invoices[i].itemType
                      /\ invoices'[i].price = invoices[i].price
                      /\ invoices'[i].supplierId = invoices[i].supplierId
    /\ UNCHANGED invoiceArray

ChainKept == POsKept /\ InvoicesKept

\* No handler moves to one of these labels.
NoneEnters(labels) == \A q \in Requests : pc'[q] \in labels => pc'[q] = pc[q]

PurchaseLabels == {"createPO", "saveRow", "acknowledge", "createInvoice", "recordInvoice"}
MakingLabels == {"readInvoice", "store", "mint", "fromAccount", "toAccount", "toSupplier",
                 "pendingDelivery", "recordToken"}

LEMMA SameChain ==
    ASSUME UNCHANGED procurementVars
    PROVE  ChainKept
BY DEF procurementVars, ChainKept, POsKept, InvoicesKept

LEMMA StatusUpdate ==
    ASSUME ProcurementTypeOK, NEW id \in Ids, NEW s,
           updatePOStatus(id, s) \/ updateInvoiceStatus(id, s)
    PROVE  ChainKept
<1>1. CASE updatePOStatus(id, s)
      BY ZenonT(60), <1>1 DEF updatePOStatus, ChainKept, POsKept, InvoicesKept,
         ProcurementTypeOK, PO
<1>2. CASE updateInvoiceStatus(id, s)
  <2>1. \A i \in Ids : invoices[i] \in Invoice
        BY DEF ProcurementTypeOK
  <2>2. \A i \in Ids : invoices'[i] = IF i = id THEN [invoices[i] EXCEPT !.status = s]
                                                ELSE invoices[i]
        BY <1>2 DEF updateInvoiceStatus, ProcurementTypeOK
  <2>3. \A v \in Invoice : LET w == [v EXCEPT !.status = s]
                           IN  w.poId = v.poId /\ w.itemType = v.itemType
                               /\ w.price = v.price /\ w.supplierId = v.supplierId
        BY ZenonT(60) DEF Invoice
  <2>. QED  BY <1>2, <2>1, <2>2, <2>3 DEF updateInvoiceStatus, ChainKept, POsKept,
               InvoicesKept
<1>. QED  BY <1>1, <1>2

LEMMA KnownKept ==
    ASSUME ChainKept
    PROVE  KnownPOs' = KnownPOs /\ KnownInvoices' = KnownInvoices
BY DEF ChainKept, POsKept, InvoicesKept, KnownPOs, KnownInvoices

LEMMA UnissuedKept ==
    ASSUME UnissuedOK, ChainKept
    PROVE  UnissuedOK'
<1>1. 0 \in Ids
      BY BoundsAreNat DEF Ids
<1>. QED  BY ZenonT(60), <1>1, KnownKept DEF UnissuedOK, ChainKept, POsKept, InvoicesKept

LEMMA RowsKept ==
    ASSUME TypeInv, RowsOK, RowsReferToChain, ChainKept, UNCHANGED rows,
           DOMAIN owner' = DOMAIN owner
    PROVE  RowsOK' /\ RowsReferToChain'
<1>1. RowsOK'
      BY KnownKept DEF RowsOK
<1>2. \A t \in DOMAIN owner : OrderOf(t)' = OrderOf(t)
      BY DEF OrderOf, ChainKept, POsKept, InvoicesKept, TypeInv, TypeOK, ItemTokenTypeOK,
         TokenIds, Metadata
<1>3. \A i \in DOMAIN rows : rows[i] \in Row
      BY ZenonT(60), ElementOfSeq, LenProperties DEF TypeInv, TypeOK, RowsTypeOK
<1>4. ASSUME NEW i \in DOMAIN rows
      PROVE  /\ pos'[rows[i].po_id].supplierId = pos[rows[i].po_id].supplierId
             /\ invoices'[rows[i].invoice_id].poId = invoices[rows[i].invoice_id].poId
             /\ invoices'[rows[i].invoice_id].price = invoices[rows[i].invoice_id].price
             /\ invoices'[rows[i].invoice_id].supplierId
                  = invoices[rows[i].invoice_id].supplierId
      BY ZenonT(60), <1>3 DEF Row, ChainKept, POsKept, InvoicesKept
<1>5. RowsReferToChain'
      BY <1>2, <1>4 DEF RowsReferToChain, RowMatchesChain
<1>. QED  BY <1>1, <1>5

\* A handler that does not move holds what it held.
LEMMA PurchaseAtKept ==
    ASSUME TypeInv, PurchaseOK, ChainKept, NEW q \in Requests,
           pc'[q] = pc[q], purchase'[q] = purchase[q]
    PROVE  PurchaseAt(q)'
<1>1. purchase[q].poId \in Ids /\ purchase[q].processId \in Ids
      BY ZenonT(60) DEF TypeInv, TypeOK, PurchaseTypeOK, Purchase
<1>2. PurchaseAt(q)
      BY DEF PurchaseOK
<1>. QED  BY ZenonT(60), <1>1, <1>2, KnownKept DEF PurchaseAt, ChainKept, POsKept,
             InvoicesKept

LEMMA PurchaseKept ==
    ASSUME TypeInv, IdsOK, PurchaseOK, ChainKept, UNCHANGED <<nextId, purchase>>,
           NoneEnters(PurchaseLabels)
    PROVE  IdsOK' /\ PurchaseOK'
<1>1. \A q \in Requests : purchase[q].poId \in Ids /\ purchase[q].processId \in Ids
      BY ZenonT(60) DEF TypeInv, TypeOK, PurchaseTypeOK, Purchase
<1>2. IdsOK'
      BY ZenonT(60), KnownKept DEF IdsOK, NoneEnters, PurchaseLabels
<1>3. ASSUME NEW q \in Requests PROVE PurchaseAt(q)'
  <2>1. PurchaseAt(q)
        BY ZenonT(60) DEF PurchaseOK
  <2>2. purchase'[q] = purchase[q] /\ (pc'[q] \in PurchaseLabels => pc'[q] = pc[q])
        BY ZenonT(60) DEF NoneEnters
  <2>. QED  BY ZenonT(60), <1>1, <2>1, <2>2, KnownKept DEF PurchaseAt, ChainKept, POsKept,
               InvoicesKept, PurchaseLabels
<1>4. PurchaseOK'
      BY ZenonT(60), <1>3 DEF PurchaseOK
<1>. QED  BY <1>2, <1>4

LEMMA MakingKept ==
    ASSUME TypeInv, MakingOK, InvoicesKept, DOMAIN owner \subseteq DOMAIN owner',
           UNCHANGED making, NoneEnters(MakingLabels)
    PROVE  MakingOK'
<1>1. \A q \in Requests : making[q].invoiceId \in Ids
      BY ZenonT(60) DEF TypeInv, TypeOK, TokenRoutesTypeOK, Making
<1>. QED  BY <1>1 DEF MakingOK, MakingAt, InvoicesKept, KnownInvoices, NoneEnters,
             MakingLabels

\* Payments, deliveries, failures and crashes issue nothing and touch neither
\* the collection nor what the other handlers hold.
LEMMA QuietStep ==
    ASSUME TypeInv, RowsInv, ChainKept, DOMAIN owner' = DOMAIN owner,
           UNCHANGED <<rows, nextId, purchase, making>>,
           NoneEnters(PurchaseLabels), NoneEnters(MakingLabels)
    PROVE  RowsInv'
BY UnissuedKept, RowsKept, PurchaseKept, MakingKept DEF RowsInv, ChainKept

-----------------------------------------------------------------------------
(* Payments and deliveries                                                 *)

LEMMA PaymentStepRows ==
    ASSUME TypeInv, RowsInv, NEW r \in Requests, PaymentStep(r),
           UNCHANGED <<itemTokenVars, rows, purchase, tokenRouteVars>>
    PROVE  RowsInv'
<1>. USE DEF PaymentStep, PayInvoice, PayerAccount, PayeeAccount, PayerBalance,
             GotPayerBalance, PayeeBalance, GotPayeeBalance, TopUp, ToppedUp, TxCount,
             SendTx, Sent, NewBalance, Paid
<1>1. ChainKept
  <2>1. CASE UNCHANGED procurementVars
        BY ZenonT(60), <2>1, SameChain
  <2>2. CASE Paid(r)
        BY ZenonT(60), <2>2, StatusUpdate DEF TypeInv, TypeOK, PaymentTypeOK, Payment
  <2>. QED  BY ZenonT(60), <2>1, <2>2 DEF chainVars
<1>2. UNCHANGED nextId
      BY Zenon
<1>3. \E label \in PaymentLabels \cup Answered : pc' = [pc EXCEPT ![r] = label]
      BY ZenonT(60) DEF Step, PaymentLabels, Answered
<1>4. NoneEnters(PurchaseLabels) /\ NoneEnters(MakingLabels)
      BY ZenonT(60), <1>3 DEF NoneEnters, PurchaseLabels, MakingLabels, PaymentLabels,
         Answered, TypeInv, TypeOK, ServerTypeOK
<1>. QED  BY ZenonT(60), <1>1, <1>2, <1>4, QuietStep DEF itemTokenVars, tokenRouteVars

DeliveryStep(r) ==
    \/ FindRow(r)
    \/ UserAccount(r)
    \/ MerchantAccount(r)
    \/ OwnerOf(r, "ownerOf", "gotOwner")
    \/ GotOwner(r)
    \/ TransferFrom(r)
    \/ OwnerOf(r, "newOwnerOf", "gotNewOwner")
    \/ GotNewOwner(r)
    \/ Delivered(r)
    \/ Completed(r)

LEMMA DeliveryStepRows ==
    ASSUME TypeInv, RowsInv, NEW r \in Requests, DeliveryStep(r), UNCHANGED purchase
    PROVE  RowsInv'
<1>. USE DEF DeliveryStep, FindRow, UserAccount, MerchantAccount, OwnerOf, GotOwner,
             TransferFrom, GotNewOwner, Delivered, Completed
<1>1. ChainKept
  <2>1. CASE UNCHANGED procurementVars
        BY ZenonT(60), <2>1, SameChain
  <2>2. CASE Delivered(r) \/ Completed(r)
        BY ZenonT(60), <2>2, StatusUpdate DEF TypeInv, TypeOK, TokenRoutesTypeOK, Delivery
  <2>. QED  BY ZenonT(60), <2>1, <2>2
<1>2. UNCHANGED <<nextId, rows, making>>
      BY ZenonT(60) DEF tokenRouteVars
<1>3. DOMAIN owner' = DOMAIN owner
      BY ZenonT(60) DEF itemTokenVars, transferFrom, TypeInv, TypeOK, ItemTokenTypeOK
<1>4. \E label \in DeliveryLabels \cup Answered : pc' = [pc EXCEPT ![r] = label]
      BY ZenonT(60) DEF Step, DeliveryLabels, Answered
<1>5. NoneEnters(PurchaseLabels) /\ NoneEnters(MakingLabels)
      BY ZenonT(60), <1>4 DEF NoneEnters, PurchaseLabels, MakingLabels, DeliveryLabels,
         Answered, TypeInv, TypeOK, ServerTypeOK
<1>. QED  BY ZenonT(60), <1>1, <1>2, <1>3, <1>5, QuietStep

LEMMA FaultRows ==
    ASSUME TypeInv, RowsInv, Fault
    PROVE  RowsInv'
<1>1. ChainKept
      BY SameChain DEF Fault
<1>2. UNCHANGED <<rows, nextId, purchase, making, owner>>
      BY DEF Fault, CallFails, Crash, itemTokenVars, tokenRouteVars
<1>3. \A q \in Requests : pc'[q] = pc[q] \/ pc'[q] = "failed"
      BY DEF Fault, CallFails, Crash, TypeInv, TypeOK, ServerTypeOK, InFlight
<1>4. NoneEnters(PurchaseLabels) /\ NoneEnters(MakingLabels)
      BY <1>3 DEF NoneEnters, PurchaseLabels, MakingLabels
<1>. QED  BY <1>1, <1>2, <1>4, QuietStep

-----------------------------------------------------------------------------
(* Orders and invoices                                                     *)

\* Appending an id to a list of the contract adds it to the known ids.
LEMMA IssuedIds ==
    ASSUME NEW id, NEW a \in Seq(Ids), NEW b, b = Append(a, id), id \in Ids
    PROVE  {b[i] : i \in DOMAIN b} = {a[i] : i \in DOMAIN a} \cup {id}
<1>1. /\ DOMAIN a = 1..Len(a) /\ Len(a) \in Nat
      /\ DOMAIN b = 1..(Len(a) + 1)
      /\ \A i \in 1..Len(a) : b[i] = a[i]
      /\ b[Len(a) + 1] = id
      BY AppendProperties, LenProperties
<1>. QED  BY <1>1

\* The loop of issuePO draws an id that nobody has.
LEMMA NextLineRows ==
    ASSUME TypeInv, RowsInv, NEW r \in Requests, NEW from, NEW lines,
           NextLine(r, from, lines), ChainKept
    PROVE  IdsOK' /\ PurchaseOK'
<1>. USE DEF Step
<1>1. /\ pc \in [Requests -> {"idle"} \cup Awaiting \cup Answered]
      /\ purchase \in [Requests -> Purchase]
      /\ nextId \in Nat
      BY DEF TypeInv, TypeOK, ServerTypeOK, PurchaseTypeOK
<1>2. \A q \in Requests \ {r} : pc'[q] = pc[q] /\ purchase'[q] = purchase[q]
      BY <1>1 DEF NextLine
<1>3. pc'[r] \notin {"saveRow", "acknowledge", "createInvoice", "recordInvoice"}
      BY ZenonT(60), <1>1 DEF NextLine
<1>4. PurchaseOK'
  <2>1. PurchaseAt(r)'
        BY <1>3 DEF PurchaseAt
  <2>. QED  BY ZenonT(60), <1>2, <2>1, PurchaseAtKept DEF RowsInv, PurchaseOK
<1>5. CASE lines = << >>
  <2>1. pc'[r] = "ok" /\ nextId' = nextId
        BY <1>1, <1>5 DEF NextLine
  <2>2. IdsOK'
        BY ZenonT(60), <1>2, <2>1, KnownKept DEF RowsInv, IdsOK
  <2>. QED  BY <1>4, <2>2
<1>6. CASE lines # << >>
  <2>1. PICK id \in Ids :
          /\ fnGetUniqueID(id)
          /\ purchase' = [purchase EXCEPT ![r].lines = lines, ![r].processId = id]
        BY <1>6 DEF NextLine
  <2>2. id = nextId /\ nextId' = nextId + 1 /\ id >= 1
        BY <2>1 DEF fnGetUniqueID, TypeInv, TypeOK, ServerTypeOK
  <2>3. purchase'[r].processId = id
        BY ZenonT(60), <1>1, <2>1 DEF Purchase
  <2>4. id \notin KnownPOs \cup KnownInvoices
        BY SMTT(60), <1>1, <2>2 DEF RowsInv, IdsOK
  <2>5. IdsOK'
    <3>1. KnownPOs' \subseteq 1..(nextId' - 1) /\ KnownInvoices' \subseteq 1..(nextId' - 1)
      <4>1. \A x \in 1..(nextId - 1) : x \in 1..(nextId' - 1)
            BY SMTT(60), <1>1, <2>2
      <4>2. KnownPOs \subseteq 1..(nextId - 1) /\ KnownInvoices \subseteq 1..(nextId - 1)
            BY ZenonT(60) DEF RowsInv, IdsOK
      <4>. QED  BY ZenonT(60), <4>1, <4>2, KnownKept
    <3>2. ASSUME NEW q \in Requests, pc'[q] \in {"createPO", "createInvoice"}
          PROVE  /\ purchase'[q].processId \in 1..(nextId' - 1)
                 /\ purchase'[q].processId \notin KnownPOs' \cup KnownInvoices'
                 /\ q # r => purchase'[q].processId # id
      <4>1. CASE q = r
            BY SMTT(60), <1>1, <2>2, <2>3, <2>4, <4>1, KnownKept
      <4>2. CASE q # r
            BY SMTT(60), <1>1, <1>2, <2>2, <3>2, <4>2, KnownKept DEF RowsInv, IdsOK
      <4>. QED  BY ZenonT(60), <4>1, <4>2
    <3>3. ASSUME NEW p \in Requests, NEW q \in Requests,
                 pc'[p] \in {"createPO", "createInvoice"},
                 pc'[q] \in {"createPO", "createInvoice"},
                 purchase'[p].processId = purchase'[q].processId
          PROVE  p = q
          BY <1>2, <2>3, <3>2, <3>3 DEF RowsInv, IdsOK
    <3>. QED  BY <3>1, <3>2, <3>3 DEF IdsOK
  <2>. QED  BY <1>4, <2>5
<1>. QED  BY <1>5, <1>6

LEMMA CreatePORows ==
    ASSUME TypeInv, RowsInv, NEW r \in Requests, CreatePO(r),
           UNCHANGED <<itemTokenVars, tokenRouteVars>>
    PROVE  RowsInv'
<1>. DEFINE id == purchase[r].processId
            line == Head(purchase[r].lines)
<1>. USE DEF RowsInv
<1>1. /\ id \in Ids
      /\ \A q \in Requests : purchase[q].poId \in Ids /\ purchase[q].processId \in Ids
      BY ZenonT(60) DEF TypeInv, TypeOK, PurchaseTypeOK, Purchase
<1>2. KnownPOs' = KnownPOs \cup {id} /\ KnownInvoices' = KnownInvoices
  <2>1. poArray \in Seq(Ids) /\ poArray' = Append(poArray, id)
        BY DEF CreatePO, issuePO, TypeInv, TypeOK, ProcurementTypeOK
  <2>2. {poArray'[i] : i \in DOMAIN poArray'} = {poArray[i] : i \in DOMAIN poArray} \cup {id}
        BY SMTT(60), <1>1, <2>1, IssuedIds
  <2>. QED  BY ZenonT(60), <2>2 DEF KnownPOs, KnownInvoices, CreatePO, issuePO
<1>3. /\ id \in 1..(nextId - 1)
      /\ id \notin KnownPOs \cup KnownInvoices
      BY DEF CreatePO, Step, IdsOK
<1>4. /\ \A p \in Ids \ {id} : pos'[p] = pos[p]
      /\ pos'[id].supplierId = line.supplierId
      BY ZenonT(60), <1>1 DEF CreatePO, issuePO, TypeInv, TypeOK, ProcurementTypeOK
<1>5. UNCHANGED <<invoices, invoiceArray, nextId, purchase, rows, owner, making>>
      BY DEF CreatePO, issuePO, itemTokenVars, tokenRouteVars
<1>6. /\ pc[r] = "createPO" /\ pc'[r] = "saveRow"
      /\ \A q \in Requests \ {r} : pc'[q] = pc[q]
      BY DEF CreatePO, Step, TypeInv, TypeOK, ServerTypeOK
<1>. HIDE DEF id, line
<1>7. IdsOK'
      BY ZenonT(60), <1>2, <1>3, <1>5, <1>6 DEF IdsOK, id
<1>8. UnissuedOK'
      BY ZenonT(60), <1>2, <1>4, <1>5 DEF UnissuedOK
<1>9. PurchaseOK'
  <2>1. ASSUME NEW q \in Requests, q # r
        PROVE  /\ pc'[q] = pc[q]
               /\ purchase[q].processId \in KnownPOs =>
                    pos'[purchase[q].processId] = pos[purchase[q].processId]
               /\ purchase[q].poId \in KnownPOs =>
                    pos'[purchase[q].poId] = pos[purchase[q].poId]
        BY ZenonT(60), <1>1, <1>3, <1>4, <1>6, <2>1
  <2>2. purchase[r].processId = id /\ Head(purchase[r].lines) = line
        BY DEF id, line
  <2>3. PurchaseAt(r)'
        BY ZenonT(60), <1>2, <1>4, <1>5, <1>6, <2>2 DEF PurchaseAt
  <2>4. ASSUME NEW q \in Requests, q # r PROVE PurchaseAt(q)'
    <3>1. PurchaseAt(q)
          BY DEF PurchaseOK
    <3>. QED  BY ZenonT(60), <1>2, <1>5, <2>1, <2>4, <3>1 DEF PurchaseAt
  <2>. QED  BY <2>3, <2>4 DEF PurchaseOK
<1>10. MakingOK'
  <2>1. InvoicesKept
        BY <1>5 DEF InvoicesKept
  <2>2. NoneEnters(MakingLabels)
        BY <1>6 DEF NoneEnters, MakingLabels
  <2>. QED  BY <1>5, <2>1, <2>2, MakingKept
<1>11. RowsOK'
      BY ZenonT(60), <1>2, <1>5 DEF RowsOK
<1>12. RowsReferToChain'
  <2>1. \A i \in DOMAIN rows : rows[i] \in Row
        BY ElementOfSeq, LenProperties DEF TypeInv, TypeOK, RowsTypeOK
  <2>2. \A i \in DOMAIN rows : pos'[rows[i].po_id] = pos[rows[i].po_id]
        BY ZenonT(60), <1>3, <1>4, <2>1 DEF RowsOK, Row
  <2>. QED  BY ZenonT(60), <1>5, <2>2 DEF RowsReferToChain, RowMatchesChain, OrderOf
<1>. QED  BY <1>7, <1>8, <1>9, <1>10, <1>11, <1>12

LEMMA SaveRowRows ==
    ASSUME TypeInv, RowsInv, NEW r \in Requests, SaveRow(r),
           UNCHANGED <<itemTokenVars, tokenRouteVars>>
    PROVE  RowsInv'
<1>. DEFINE id == purchase[r].processId
            supplier == Head(purchase[r].lines).supplierId
            row == [transaction_id |-> r, supplier_id |-> supplier, po_id |-> id,
                    invoice_id |-> 0, item_price |-> 0, token_id |-> NoToken]
<1>. USE DEF RowsInv
<1>1. ChainKept
      BY SameChain DEF SaveRow
<1>2. IdsOK' /\ PurchaseOK'
      BY ZenonT(60), <1>1, NextLineRows DEF SaveRow
<1>3. UNCHANGED <<pos, invoices, owner, making>>
      BY DEF SaveRow, procurementVars, itemTokenVars, tokenRouteVars
<1>4. MakingOK'
  <2>1. NoneEnters(MakingLabels)
        BY ZenonT(60) DEF SaveRow, NextLine, Step, NoneEnters, MakingLabels, TypeInv, TypeOK,
           ServerTypeOK
  <2>. QED  BY <1>1, <1>3, <2>1, MakingKept DEF ChainKept
<1>5. id \in KnownPOs /\ pos[id].supplierId = supplier
      BY ZenonT(60) DEF SaveRow, PurchaseOK, PurchaseAt
<1>6. /\ DOMAIN rows = 1..Len(rows) /\ Len(rows) \in Nat
      /\ DOMAIN rows' = 1..(Len(rows) + 1)
      /\ \A i \in 1..Len(rows) : rows'[i] = rows[i]
      /\ rows'[Len(rows) + 1] = row
  <2>1. rows' = Append(rows, row)
        BY DEF SaveRow, createProcurement
  <2>2. rows \in Seq(Row)
        BY DEF TypeInv, TypeOK, RowsTypeOK
  <2>. HIDE DEF row
  <2>3. rows \in Seq(Row \cup {row})
        BY <2>2, SeqMonotonic
  <2>4. row \in Row \cup {row}
        BY ZenonT(60)
  <2>. QED  BY SMTT(60), <2>1, <2>3, <2>4, AppendProperties, LenProperties
<1>7. row.po_id = id /\ row.supplier_id = supplier /\ row.invoice_id = 0 /\ row.token_id = NoToken
      OBVIOUS
<1>. HIDE DEF id, supplier, row
<1>8. \A i \in DOMAIN rows' : i \in DOMAIN rows \/ rows'[i] = row
      BY <1>6
<1>9. RowsOK'
      BY ZenonT(60), <1>1, <1>3, <1>5, <1>6, <1>7, <1>8, KnownKept DEF RowsOK
<1>10. RowsReferToChain'
  <2>1. ASSUME NEW i \in DOMAIN rows, rows'[i] = rows[i] PROVE RowMatchesChain(rows[i])'
        BY ZenonT(60), <1>3, <2>1 DEF RowsReferToChain, RowMatchesChain, OrderOf
  <2>2. ASSUME NEW i \in DOMAIN rows', rows'[i] = row PROVE RowMatchesChain(rows[i])'
        BY ZenonT(60), <1>3, <1>5, <1>7, <2>2 DEF RowMatchesChain
  <2>. QED  BY ZenonT(60), <1>6, <1>8, <2>1, <2>2 DEF RowsReferToChain
<1>. QED  BY ZenonT(60), <1>1, <1>2, <1>4, <1>9, <1>10, UnissuedKept

\* The other steps of the invoice route before the invoice is issued.
LEMMA ReadPORows ==
    ASSUME TypeInv, RowsInv, NEW r \in Requests, ReadPO(r),
           UNCHANGED <<itemTokenVars, tokenRouteVars>>
    PROVE  RowsInv'
<1>. USE DEF RowsInv
<1>1. ChainKept
      BY SameChain DEF ReadPO
<1>2. UNCHANGED <<rows, nextId, owner, making, pos, invoices>>
      BY DEF ReadPO, itemTokenVars, tokenRouteVars, procurementVars
<1>3. /\ pc'[r] = "acknowledge"
      /\ \A q \in Requests \ {r} : pc'[q] = pc[q] /\ purchase'[q] = purchase[q]
      BY DEF ReadPO, Step, TypeInv, TypeOK, ServerTypeOK, PurchaseTypeOK
<1>4. purchase[r] \in Purchase
      BY DEF TypeInv, TypeOK, PurchaseTypeOK
<1>5. /\ purchase'[r].poId = purchase[r].poId
      /\ purchase'[r].supplierId = pos[purchase[r].poId].supplierId
      /\ purchase'[r].itemType = pos[purchase[r].poId].itemType
      BY ZenonT(60), <1>4 DEF ReadPO, TypeInv, TypeOK, PurchaseTypeOK, Purchase
<1>6. IdsOK'
      BY ZenonT(60), <1>1, <1>2, <1>3, KnownKept DEF IdsOK
<1>7. purchase[r].poId \in Ids
      BY ZenonT(60), <1>4 DEF Purchase
<1>8. PurchaseOK'
  <2>1. PurchaseAt(r)'
        BY ZenonT(60), <1>1, <1>2, <1>3, <1>5, <1>7, KnownKept DEF PurchaseAt, UnissuedOK
  <2>. QED  BY <1>1, <1>3, <2>1, PurchaseAtKept DEF PurchaseOK
<1>9. NoneEnters(MakingLabels)
      BY <1>3 DEF NoneEnters, MakingLabels
<1>. QED  BY ZenonT(60), <1>1, <1>2, <1>6, <1>8, <1>9, UnissuedKept, RowsKept, MakingKept DEF ChainKept

LEMMA AcknowledgeRows ==
    ASSUME TypeInv, RowsInv, NEW r \in Requests, Acknowledge(r),
           UNCHANGED <<itemTokenVars, tokenRouteVars>>
    PROVE  RowsInv'
<1>. USE DEF RowsInv
<1>1. purchase[r] \in Purchase /\ nextId \in Nat \ {0}
      BY DEF TypeInv, TypeOK, PurchaseTypeOK, ServerTypeOK
<1>2. ChainKept
  <2>1. purchase[r].poId \in Ids
        BY ZenonT(60), <1>1 DEF Purchase
  <2>. QED  BY <2>1, StatusUpdate DEF Acknowledge, TypeInv, TypeOK
<1>3. UNCHANGED <<rows, owner, making>>
      BY DEF Acknowledge, itemTokenVars, tokenRouteVars
<1>4. PICK id \in Ids : fnGetUniqueID(id) /\ purchase' = [purchase EXCEPT ![r].processId = id]
      BY ZenonT(60) DEF Acknowledge
<1>5. id = nextId /\ nextId' = nextId + 1
      BY <1>4 DEF fnGetUniqueID
<1>6. /\ pc[r] = "acknowledge"
      /\ pc'[r] = IF purchase[r].itemType = NoType THEN "failed" ELSE "createInvoice"
      /\ \A q \in Requests \ {r} : pc'[q] = pc[q] /\ purchase'[q] = purchase[q]
      BY <1>4 DEF Acknowledge, Step, TypeInv, TypeOK, ServerTypeOK, PurchaseTypeOK
<1>7. /\ purchase'[r].processId = id
      /\ purchase'[r].poId = purchase[r].poId
      /\ purchase'[r].supplierId = purchase[r].supplierId
      BY ZenonT(60), <1>1, <1>4 DEF TypeInv, TypeOK, PurchaseTypeOK, Purchase
<1>8. IdsOK'
  <2>1. \A x \in 1..(nextId - 1) : x \in 1..(nextId' - 1) /\ x # id
        BY <1>1, <1>5
  <2>2. KnownPOs \subseteq 1..(nextId - 1) /\ KnownInvoices \subseteq 1..(nextId - 1)
        BY ZenonT(60) DEF IdsOK
  <2>3. id \in 1..(nextId' - 1) /\ id \notin KnownPOs \cup KnownInvoices
        BY <1>1, <1>5, <2>1, <2>2
  <2>4. ASSUME NEW q \in Requests, q # r, pc'[q] \in {"createPO", "createInvoice"}
        PROVE  /\ purchase'[q].processId \in 1..(nextId' - 1)
               /\ purchase'[q].processId \notin KnownPOs \cup KnownInvoices
               /\ purchase'[q].processId # id
        BY ZenonT(60), <1>6, <2>1, <2>4 DEF IdsOK
  <2>5. ASSUME NEW p \in Requests, NEW q \in Requests,
               pc'[p] \in {"createPO", "createInvoice"},
               pc'[q] \in {"createPO", "createInvoice"},
               purchase'[p].processId = purchase'[q].processId
        PROVE  p = q
        BY ZenonT(60), <1>6, <1>7, <2>4, <2>5 DEF IdsOK
  <2>6. KnownPOs' \subseteq 1..(nextId' - 1) /\ KnownInvoices' \subseteq 1..(nextId' - 1)
        BY ZenonT(60), <1>2, <2>1, <2>2, KnownKept
  <2>7. ASSUME NEW q \in Requests, pc'[q] \in {"createPO", "createInvoice"}
        PROVE  /\ purchase'[q].processId \in 1..(nextId' - 1)
               /\ purchase'[q].processId \notin KnownPOs' \cup KnownInvoices'
        BY ZenonT(60), <1>2, <1>7, <2>3, <2>4, <2>7, KnownKept
  <2>. QED  BY ZenonT(60), <2>5, <2>6, <2>7 DEF IdsOK
<1>9. PurchaseOK'
  <2>1. PurchaseAt(r) /\ purchase[r].poId \in Ids
        BY ZenonT(60), <1>1 DEF PurchaseOK, Purchase
  <2>2. PurchaseAt(r)'
        BY ZenonT(60), <1>2, <1>6, <1>7, <2>1, KnownKept DEF PurchaseAt, ChainKept, POsKept
  <2>. QED  BY ZenonT(60), <1>2, <1>6, <2>2, PurchaseAtKept DEF PurchaseOK
<1>10. NoneEnters(MakingLabels)
      BY ZenonT(60), <1>6 DEF NoneEnters, MakingLabels
<1>. QED  BY ZenonT(60), <1>2, <1>3, <1>8, <1>9, <1>10, UnissuedKept, RowsKept, MakingKept
             DEF ChainKept

LEMMA CreateInvoiceRows ==
    ASSUME TypeInv, RowsInv, NEW r \in Requests, CreateInvoice(r),
           UNCHANGED <<itemTokenVars, tokenRouteVars>>
    PROVE  RowsInv'
<1>. DEFINE p == purchase[r]
            id == purchase[r].processId
<1>. USE DEF RowsInv
<1>1. /\ id \in Ids
      /\ \A q \in Requests : purchase[q].poId \in Ids /\ purchase[q].processId \in Ids
      BY ZenonT(60) DEF TypeInv, TypeOK, PurchaseTypeOK, Purchase
<1>2. KnownInvoices' = KnownInvoices \cup {id} /\ KnownPOs' = KnownPOs
  <2>1. invoiceArray \in Seq(Ids) /\ invoiceArray' = Append(invoiceArray, id)
        BY DEF CreateInvoice, issueInvoice, TypeInv, TypeOK, ProcurementTypeOK
  <2>2. {invoiceArray'[i] : i \in DOMAIN invoiceArray'}
          = {invoiceArray[i] : i \in DOMAIN invoiceArray} \cup {id}
        BY <1>1, <2>1, IssuedIds
  <2>. QED  BY ZenonT(60), <2>2 DEF KnownPOs, KnownInvoices, CreateInvoice, issueInvoice
<1>3. /\ id \in 1..(nextId - 1)
      /\ id \notin KnownPOs \cup KnownInvoices
      BY ZenonT(60) DEF CreateInvoice, Step, IdsOK
<1>4. /\ \A i \in Ids \ {id} : invoices'[i] = invoices[i]
      /\ invoices'[id].poId = p.poId
      /\ invoices'[id].price = p.itemPrice
      /\ invoices'[id].supplierId = p.supplierId
      BY ZenonT(60), <1>1 DEF CreateInvoice, issueInvoice, TypeInv, TypeOK, ProcurementTypeOK
<1>5. UNCHANGED <<pos, poArray, nextId, purchase, rows, owner, making>>
      BY ZenonT(60) DEF CreateInvoice, issueInvoice, itemTokenVars, tokenRouteVars
<1>6. /\ pc[r] = "createInvoice" /\ pc'[r] = "recordInvoice"
      /\ \A q \in Requests \ {r} : pc'[q] = pc[q]
      BY DEF CreateInvoice, Step, TypeInv, TypeOK, ServerTypeOK
<1>7. id # 0 /\ 0 \in Ids
  <2>1. nextId \in Nat
        BY BoundsAreNat DEF TypeInv, TypeOK, ServerTypeOK
  <2>2. 0 \in Ids
        BY BoundsAreNat DEF Ids
  <2>. HIDE DEF id
  <2>. QED  BY SMTT(60), <1>3, <2>1, <2>2
<1>. HIDE DEF id
<1>8. IdsOK'
      BY ZenonT(60), <1>2, <1>3, <1>5, <1>6 DEF IdsOK, id
<1>9. UnissuedOK'
      BY ZenonT(60), <1>2, <1>4, <1>5, <1>7 DEF UnissuedOK
<1>10. PurchaseOK'
  <2>1. ASSUME NEW q \in Requests, q # r
        PROVE  /\ pc'[q] = pc[q]
               /\ purchase[q].processId \in KnownInvoices =>
                    invoices'[purchase[q].processId] = invoices[purchase[q].processId]
        BY ZenonT(60), <1>1, <1>3, <1>4, <1>6, <2>1
  <2>2. purchase[r].processId = id
        BY DEF id
  <2>3. PurchaseAt(r)'
    <3>1. PurchaseAt(r)
          BY DEF PurchaseOK
    <3>. QED  BY ZenonT(60), <1>2, <1>4, <1>5, <1>6, <2>2, <3>1 DEF PurchaseAt
  <2>4. ASSUME NEW q \in Requests, q # r PROVE PurchaseAt(q)'
    <3>1. PurchaseAt(q)
          BY DEF PurchaseOK
    <3>. QED  BY ZenonT(60), <1>2, <1>5, <2>1, <2>4, <3>1 DEF PurchaseAt
  <2>. QED  BY <2>3, <2>4 DEF PurchaseOK
<1>11. MakingOK'
  <2>1. ASSUME NEW q \in Requests,
               pc[q] \in {"store", "mint", "fromAccount", "toAccount"}
        PROVE  invoices'[making[q].invoiceId] = invoices[making[q].invoiceId]
    <3>1. making[q].invoiceId \in Ids
          BY DEF TypeInv, TypeOK, TokenRoutesTypeOK, Making
    <3>2. making[q].invoiceId \in KnownInvoices \cup {0}
          BY ZenonT(60), <2>1 DEF MakingOK, MakingAt, RowsOK
    <3>. QED  BY ZenonT(60), <1>3, <1>4, <1>7, <3>1, <3>2
  <2>2. \A q \in Requests : pc'[q] \in MakingLabels => pc'[q] = pc[q]
        BY <1>6 DEF MakingLabels
  <2>. QED  BY ZenonT(60), <1>2, <1>5, <2>1, <2>2 DEF MakingOK, MakingAt, MakingLabels
<1>12. RowsOK'
      BY ZenonT(60), <1>2, <1>5 DEF RowsOK
<1>13. RowsReferToChain'
  <2>1. \A i \in DOMAIN rows : rows[i] \in Row
        BY ElementOfSeq, LenProperties DEF TypeInv, TypeOK, RowsTypeOK
  <2>2. \A i \in DOMAIN rows : invoices'[rows[i].invoice_id] = invoices[rows[i].invoice_id]
        BY ZenonT(60), <1>3, <1>4, <1>7, <2>1 DEF RowsOK, Row
  <2>3. \A t \in DOMAIN owner : t.hash.invoiceId \in Ids
        BY DEF TypeInv, TypeOK, ItemTokenTypeOK, TokenIds, Metadata
  <2>4. \A t \in DOMAIN owner : OrderOf(t)' = OrderOf(t)
        BY ZenonT(60), <1>3, <1>4, <1>7, <2>3 DEF RowsOK, OrderOf
  <2>. QED  BY ZenonT(60), <1>5, <2>2, <2>4 DEF RowsReferToChain, RowMatchesChain
<1>. QED  BY <1>8, <1>9, <1>10, <1>11, <1>12, <1>13

LEMMA RecordInvoiceRows ==
    ASSUME TypeInv, RowsInv, NEW r \in Requests, RecordInvoice(r),
           UNCHANGED <<itemTokenVars, tokenRouteVars>>
    PROVE  RowsInv'
<1>. DEFINE p == purchase[r]
            i == FirstMatch(RowsOfPO(p.poId))
<1>. USE DEF RowsInv
<1>1. ChainKept
      BY SameChain DEF RecordInvoice
<1>2. UNCHANGED <<pos, invoices, nextId, purchase, owner, making>>
      BY DEF RecordInvoice, itemTokenVars, tokenRouteVars, procurementVars
<1>3. pc[r] = "recordInvoice" /\ pc' = [pc EXCEPT ![r] = "ok"]
      BY DEF RecordInvoice, Step
<1>4. NoneEnters(PurchaseLabels) /\ NoneEnters(MakingLabels)
      BY <1>3 DEF NoneEnters, PurchaseLabels, MakingLabels, TypeInv, TypeOK, ServerTypeOK
<1>5. /\ p.processId \in KnownInvoices
      /\ invoices[p.processId].poId = p.poId
      /\ invoices[p.processId].price = p.itemPrice
      /\ invoices[p.processId].supplierId = p.supplierId
      /\ pos[p.poId].supplierId = p.supplierId
      BY ZenonT(60), <1>3 DEF PurchaseOK, PurchaseAt
<1>6. DOMAIN rows = 1..Len(rows) /\ Len(rows) \in Nat /\ \A j \in DOMAIN rows : rows[j] \in Row
      BY ElementOfSeq, LenProperties DEF TypeInv, TypeOK, RowsTypeOK
<1>7. RowsOK' /\ RowsReferToChain'
  <2>1. CASE i = 0
    <3>1. rows' = rows
          BY <2>1 DEF RecordInvoice, updateInvoice
    <3>. QED  BY <1>1, <1>2, <3>1, RowsKept
  <2>2. CASE i # 0
    <3>1. PICK k \in DOMAIN rows : k = i /\ rows[k].po_id = p.poId
          BY ZenonT(60), <2>2, FirstRow DEF RowsOfPO, TypeInv, TypeOK
    <3>2. rows' = [rows EXCEPT ![k] = [rows[k] EXCEPT !.invoice_id = p.processId,
                                                      !.item_price = p.itemPrice]]
          BY ZenonT(60), <2>2, <3>1 DEF RecordInvoice, updateInvoice
    <3>. HIDE DEF i, p
    <3>3. /\ DOMAIN rows' = DOMAIN rows
          /\ \A j \in DOMAIN rows : j # k => rows'[j] = rows[j]
          /\ rows'[k].po_id = rows[k].po_id
          /\ rows'[k].supplier_id = rows[k].supplier_id
          /\ rows'[k].invoice_id = p.processId
          /\ rows'[k].item_price = p.itemPrice
          /\ rows'[k].token_id = rows[k].token_id
          BY <1>6, <3>2 DEF Row
    <3>4. RowsOK'
          BY ZenonT(60), <1>1, <1>2, <1>5, <3>3, KnownKept DEF RowsOK
    <3>5. ASSUME NEW j \in DOMAIN rows PROVE RowMatchesChain(rows[j])'
      <4>1. RowMatchesChain(rows[j])
            BY DEF RowsReferToChain
      <4>2. CASE j = k
        <5>1. /\ pos'[rows'[k].po_id].supplierId = rows'[k].supplier_id
              /\ rows[k].supplier_id = p.supplierId
              BY ZenonT(60), <1>2, <1>5, <3>1, <3>3, <4>1, <4>2 DEF RowMatchesChain
        <5>2. /\ invoices'[rows'[k].invoice_id].poId = rows'[k].po_id
              /\ invoices'[rows'[k].invoice_id].price = rows'[k].item_price
              /\ invoices'[rows'[k].invoice_id].supplierId = rows'[k].supplier_id
              BY ZenonT(60), <1>2, <1>5, <3>1, <3>3, <5>1
        <5>. QED  BY ZenonT(60), <1>2, <3>3, <4>1, <4>2, <5>1, <5>2 DEF RowMatchesChain,
                     OrderOf
      <4>3. CASE j # k
            BY ZenonT(60), <1>2, <3>3, <4>1, <4>3 DEF RowMatchesChain, OrderOf
      <4>. QED  BY <4>2, <4>3
    <3>. QED  BY ZenonT(60), <3>3, <3>4, <3>5 DEF RowsReferToChain
  <2>. QED  BY <2>1, <2>2
<1>. QED  BY ZenonT(60), <1>1, <1>2, <1>4, <1>7, UnissuedKept, PurchaseKept, MakingKept DEF ChainKept

-----------------------------------------------------------------------------
(* Tokens                                                                  *)

MakingStep(r) ==
    \/ ReadInvoice(r)
    \/ StoreMetadata(r)
    \/ MintToken(r)
    \/ FromAccount(r)
    \/ ToAccount(r)
    \/ ToSupplier(r)
    \/ PendingDelivery(r)
    \/ RecordToken(r)

\* A name without an account has no address: the token of an unknown invoice
\* never gets past ToAccount.
LEMMA NoAccount == AccountId("") = Undefined
 BY ZenonT(60) DEF AccountId, accounts

LEMMA MakingStepMaking ==
    ASSUME TypeInv, RowsInv, NEW r \in Requests, MakingStep(r), ChainKept
    PROVE  MakingOK'
<1>. USE DEF RowsInv
<1>1. /\ making[r] \in Making
      /\ \A q \in Requests : making[q].invoiceId \in Ids
      BY DEF TypeInv, TypeOK, TokenRoutesTypeOK, Making
<1>2. \A q \in Requests \ {r} : pc'[q] = pc[q] /\ making'[q] = making[q]
      BY ZenonT(60) DEF MakingStep, ReadInvoice, StoreMetadata, MintToken, FromAccount,
         ToAccount, ToSupplier, PendingDelivery, RecordToken, Step, TypeInv, TypeOK,
         ServerTypeOK, TokenRoutesTypeOK
<1>3. DOMAIN owner \subseteq DOMAIN owner'
      BY ZenonT(60) DEF MakingStep, ReadInvoice, StoreMetadata, MintToken, FromAccount,
         ToAccount, ToSupplier, PendingDelivery, RecordToken, itemTokenVars, mint,
         transferFrom, TypeInv, TypeOK, ItemTokenTypeOK
<1>4. KnownInvoices' = KnownInvoices
      BY KnownKept
<1>5. \A i \in Ids : invoices'[i].supplierId = invoices[i].supplierId
      BY DEF ChainKept, InvoicesKept
<1>6. SUFFICES MakingAt(r)'
  <2>1. ASSUME NEW q \in Requests \ {r} PROVE MakingAt(q)'
    <3>1. MakingAt(q)
          BY DEF MakingOK
    <3>2. pc'[q] = pc[q] /\ making'[q] = making[q] /\ making[q].invoiceId \in Ids
          BY ZenonT(60), <1>1, <1>2
    <3>. QED  BY ZenonT(60), <1>3, <1>4, <1>5, <3>1, <3>2 DEF MakingAt
  <2>. QED  BY <2>1 DEF MakingOK
<1>0. MakingAt(r)
      BY DEF MakingOK
<1>. USE DEF Step
<1>7. pc \in [Requests -> {"idle"} \cup Awaiting \cup Answered] /\ making \in [Requests -> Making]
      BY DEF TypeInv, TypeOK, ServerTypeOK, TokenRoutesTypeOK
<1>8. CASE ReadInvoice(r)
  <2>1. /\ pc[r] = "readInvoice" /\ pc'[r] = "store"
        /\ making'[r].invoiceId = making[r].invoiceId
        /\ making'[r].invoice = invoices[making[r].invoiceId]
        BY <1>1, <1>7, <1>8 DEF ReadInvoice, Making
  <2>. QED  BY ZenonT(60), <1>0, <1>1, <1>4, <1>5, <2>1 DEF MakingAt
<1>9. CASE StoreMetadata(r)
  <2>. DEFINE m == making[r]
              metadata == [invoiceId |-> m.invoiceId, itemType |-> m.invoice.itemType,
                           price |-> m.invoice.price]
  <2>1. metadata \in Metadata
        BY ZenonT(60), <1>1 DEF Making, Invoice, Metadata
  <2>2. metadata.invoiceId = m.invoiceId
        OBVIOUS
  <2>3. /\ pc[r] = "store" /\ pc'[r] = "mint"
        /\ making'[r].invoiceId = m.invoiceId
        /\ making'[r].invoice = m.invoice
        /\ making'[r].tokenId = rootHash(metadata)
        BY <1>1, <1>7, <1>9 DEF StoreMetadata, Making
  <2>. HIDE DEF metadata
  <2>4. rootHash(metadata) \in TokenIds /\ rootHash(metadata).hash = metadata
        BY <2>1 DEF rootHash, TokenIds
  <2>. QED  BY ZenonT(60), <1>0, <1>1, <1>4, <1>5, <2>2, <2>3, <2>4 DEF MakingAt
<1>10. CASE MintToken(r)
  <2>1. pc[r] = "mint" /\ making' = making
        BY <1>10 DEF MintToken
  <2>2. CASE pc'[r] = "fromAccount"
    <3>1. making[r].tokenId \in DOMAIN owner'
          BY ZenonT(60), <1>7, <1>10, <2>2 DEF MintToken, mint
    <3>. QED  BY ZenonT(60), <1>0, <1>1, <1>5, <2>1, <2>2, <3>1 DEF MakingAt
  <2>3. CASE pc'[r] = "failed"
        BY ZenonT(60), <1>0, <2>3 DEF MakingAt
  <2>. QED  BY <1>7, <1>10, <2>2, <2>3 DEF MintToken
<1>11. CASE FromAccount(r)
  <2>1. pc[r] = "fromAccount" /\ pc'[r] = "toAccount" /\ making' = making
        BY <1>7, <1>11 DEF FromAccount
  <2>. QED  BY ZenonT(60), <1>0, <1>1, <1>3, <1>5, <2>1 DEF MakingAt
<1>12. CASE ToAccount(r)
  <2>1. /\ pc[r] = "toAccount"
        /\ making'[r].invoiceId = making[r].invoiceId
        /\ making'[r].tokenId = making[r].tokenId
        /\ pc'[r] = IF AccountId(making[r].invoice.supplierId) = Undefined
                    THEN "failed" ELSE "toSupplier"
        BY <1>1, <1>7, <1>12 DEF ToAccount, Making
  <2>2. pc'[r] = "toSupplier" => making[r].invoiceId # 0
        BY ZenonT(60), <1>0, <2>1, NoAccount DEF MakingAt, UnissuedOK
  <2>. QED  BY ZenonT(60), <1>0, <1>1, <1>3, <2>1, <2>2 DEF MakingAt
<1>13. CASE ToSupplier(r)
  <2>1. pc[r] = "toSupplier" /\ pc'[r] \in {"pendingDelivery", "failed"} /\ making' = making
        BY <1>7, <1>13 DEF ToSupplier
  <2>. QED  BY ZenonT(60), <1>0, <1>3, <2>1 DEF MakingAt
<1>14. CASE PendingDelivery(r)
  <2>1. pc[r] = "pendingDelivery" /\ pc'[r] = "recordToken" /\ making' = making
        BY ZenonT(60), <1>7, <1>14 DEF PendingDelivery
  <2>. QED  BY ZenonT(60), <1>0, <1>3, <2>1 DEF MakingAt
<1>15. CASE RecordToken(r)
  <2>1. pc'[r] = "ok"
        BY <1>7, <1>15 DEF RecordToken
  <2>. QED  BY ZenonT(60), <1>0, <2>1 DEF MakingAt
<1>. QED  BY ZenonT(60), <1>8, <1>9, <1>10, <1>11, <1>12, <1>13, <1>14, <1>15 DEF MakingStep

LEMMA RecordTokenRows ==
    ASSUME TypeInv, RowsInv, NEW r \in Requests, RecordToken(r)
    PROVE  RowsOK' /\ RowsReferToChain'
<1>. DEFINE m == making[r]
            i == FirstMatch(RowsOfInvoice(m.invoiceId))
<1>. USE DEF RowsInv
<1>1. ChainKept
      BY SameChain DEF RecordToken
<1>2. UNCHANGED <<pos, invoices, owner>>
      BY DEF RecordToken, itemTokenVars, procurementVars
<1>3. /\ m.tokenId \in DOMAIN owner
      /\ m.tokenId.hash.invoiceId = m.invoiceId
      /\ m.invoiceId # 0
      BY ZenonT(60) DEF RecordToken, Step, MakingOK, MakingAt
<1>4. DOMAIN rows = 1..Len(rows) /\ Len(rows) \in Nat /\ \A j \in DOMAIN rows : rows[j] \in Row
      BY ElementOfSeq, LenProperties DEF TypeInv, TypeOK, RowsTypeOK
<1>5. CASE i = 0
  <2>1. rows' = rows
        BY <1>5 DEF RecordToken, updateTokenId
  <2>. QED  BY <1>1, <1>2, <2>1, RowsKept
<1>6. CASE i # 0
  <2>1. PICK k \in DOMAIN rows : k = i /\ rows[k].invoice_id = m.invoiceId
        BY ZenonT(60), <1>6, FirstRow DEF RowsOfInvoice, TypeInv, TypeOK
  <2>2. rows' = [rows EXCEPT ![k] = [rows[k] EXCEPT !.token_id = m.tokenId]]
        BY <1>6, <2>1 DEF RecordToken, updateTokenId
  <2>. HIDE DEF i, m
  <2>3. /\ DOMAIN rows' = DOMAIN rows
        /\ \A j \in DOMAIN rows : j # k => rows'[j] = rows[j]
        /\ rows'[k].po_id = rows[k].po_id
        /\ rows'[k].supplier_id = rows[k].supplier_id
        /\ rows'[k].invoice_id = rows[k].invoice_id
        /\ rows'[k].item_price = rows[k].item_price
        /\ rows'[k].token_id = m.tokenId
        BY <1>4, <2>2 DEF Row
  <2>4. RowsOK'
        BY ZenonT(60), <1>1, <1>2, <2>3, KnownKept DEF RowsOK
  <2>5. ASSUME NEW j \in DOMAIN rows PROVE RowMatchesChain(rows[j])'
    <3>1. RowMatchesChain(rows[j])
          BY DEF RowsReferToChain
    <3>2. CASE j = k
          BY ZenonT(60), <1>2, <1>3, <2>1, <2>3, <3>1, <3>2 DEF RowMatchesChain, OrderOf
    <3>3. CASE j # k
          BY ZenonT(60), <1>2, <2>3, <3>1, <3>3 DEF RowMatchesChain, OrderOf
    <3>. QED  BY <3>2, <3>3
  <2>. QED  BY ZenonT(60), <2>3, <2>4, <2>5 DEF RowsReferToChain
<1>. QED  BY <1>5, <1>6

LEMMA MintTokenRows ==
    ASSUME TypeInv, RowsInv, NEW r \in Requests, MintToken(r)
    PROVE  RowsOK' /\ RowsReferToChain'
<1>. USE DEF RowsInv
<1>1. UNCHANGED <<procurementVars, rows>>
      BY ZenonT(60) DEF MintToken
<1>2. /\ DOMAIN owner \subseteq DOMAIN owner'
      /\ DOMAIN owner' \subseteq DOMAIN owner \cup {making[r].tokenId}
      BY DEF MintToken, mint, itemTokenVars
<1>3. making[r].tokenId.hash.invoiceId \in KnownInvoices \cup {0}
      BY ZenonT(60) DEF MintToken, MakingOK, MakingAt
<1>4. RowsOK'
      BY ZenonT(60), <1>1, <1>2, <1>3 DEF RowsOK, procurementVars, KnownPOs, KnownInvoices
<1>5. RowsReferToChain'
      BY ZenonT(60), <1>1, <1>2 DEF RowsReferToChain, RowMatchesChain, OrderOf,
         procurementVars
<1>. QED  BY <1>4, <1>5

LEMMA MakingStepRows ==
    ASSUME TypeInv, RowsInv, NEW r \in Requests, MakingStep(r), UNCHANGED purchase
    PROVE  RowsInv'
<1>. USE DEF MakingStep
<1>1. ChainKept
  <2>1. CASE PendingDelivery(r)
    <3>1. making[r].invoice.poId \in Ids
          BY ZenonT(60) DEF TypeInv, TypeOK, TokenRoutesTypeOK, Making, Invoice
    <3>. QED  BY ZenonT(60), <2>1, <3>1, StatusUpdate DEF PendingDelivery, TypeInv, TypeOK
  <2>2. CASE UNCHANGED procurementVars
        BY <2>2, SameChain
  <2>. QED  BY <2>1, <2>2 DEF ReadInvoice, StoreMetadata, MintToken, FromAccount, ToAccount,
            ToSupplier, RecordToken
<1>2. UNCHANGED nextId
      BY ZenonT(60) DEF ReadInvoice, StoreMetadata, MintToken, FromAccount, ToAccount,
         ToSupplier, PendingDelivery, RecordToken
<1>3. NoneEnters(PurchaseLabels)
  <2>1. \E label \in MakingLabels \cup Answered : pc' = [pc EXCEPT ![r] = label]
        BY ZenonT(60) DEF ReadInvoice, StoreMetadata, MintToken, FromAccount, ToAccount,
           ToSupplier, PendingDelivery, RecordToken, Step, MakingLabels, Answered
  <2>. QED  BY ZenonT(60), <2>1 DEF NoneEnters, PurchaseLabels, MakingLabels, Answered,
               TypeInv, TypeOK, ServerTypeOK
<1>4. RowsOK' /\ RowsReferToChain'
  <2>1. CASE MintToken(r) \/ RecordToken(r)
        BY <2>1, MintTokenRows, RecordTokenRows
  <2>2. CASE ~(MintToken(r) \/ RecordToken(r))
    <3>1. UNCHANGED rows /\ DOMAIN owner' = DOMAIN owner
          BY ZenonT(60), <2>2 DEF ReadInvoice, StoreMetadata, FromAccount, ToAccount,
             ToSupplier, PendingDelivery, itemTokenVars, transferFrom, TypeInv, TypeOK,
             ItemTokenTypeOK
    <3>. QED  BY ZenonT(60), <1>1, <3>1, RowsKept DEF RowsInv
  <2>. QED  BY <2>1, <2>2
<1>. QED  BY ZenonT(60), <1>1, <1>2, <1>3, <1>4, UnissuedKept, PurchaseKept, MakingStepMaking
             DEF RowsInv

-----------------------------------------------------------------------------
(* Arriving requests, and the theorem                                      *)

LEMMA SendRows ==
    ASSUME TypeInv, RowsInv, NEW r \in Requests, Send(r)
    PROVE  RowsInv'
<1>. USE DEF RowsInv
<1>1. /\ UNCHANGED <<pos, invoices, poArray, invoiceArray, rows, owner>>
      /\ ChainKept
  <2>1. UNCHANGED <<procurementVars, rows, owner>>
        BY ZenonT(60) DEF Send, PurchaseRequest, PostPurchaseOrder, PostInvoice,
           TokenRequest, PostMakeTokens, PostTransferToken, PaymentRequest, PostPaySupplier,
           chainVars, itemTokenVars
  <2>. QED  BY <2>1, SameChain DEF procurementVars
<1>2. UnissuedOK' /\ RowsOK' /\ RowsReferToChain'
      BY <1>1, UnissuedKept, RowsKept
<1>. USE DEF TypeInv, TypeOK, ServerTypeOK
<1>3. ASSUME NEW body, PostPurchaseOrder(r, body), UNCHANGED tokenRouteVars
      PROVE  IdsOK' /\ PurchaseOK' /\ MakingOK'
  <2>1. IdsOK' /\ PurchaseOK'
        BY ZenonT(60), <1>1, <1>3, NextLineRows DEF PostPurchaseOrder
  <2>2. NoneEnters(MakingLabels)
        BY <1>3 DEF PostPurchaseOrder, NextLine, Step, NoneEnters, MakingLabels
  <2>. QED  BY ZenonT(60), <1>1, <1>3, <2>1, <2>2, MakingKept DEF ChainKept, tokenRouteVars
<1>4. ASSUME NEW poId, NEW itemPrice, PostInvoice(r, poId, itemPrice), UNCHANGED tokenRouteVars
      PROVE  IdsOK' /\ PurchaseOK' /\ MakingOK'
  <2>1. /\ pc'[r] = "readPO" /\ nextId' = nextId
        /\ \A q \in Requests \ {r} : pc'[q] = pc[q] /\ purchase'[q] = purchase[q]
        BY <1>4 DEF PostInvoice, Arrive, PurchaseTypeOK
  <2>2. IdsOK'
        BY ZenonT(60), <1>1, <2>1, KnownKept DEF IdsOK
  <2>3. PurchaseOK'
    <3>1. PurchaseAt(r)'
          BY ZenonT(60), <2>1 DEF PurchaseAt
    <3>. QED  BY ZenonT(60), <1>1, <2>1, <3>1, PurchaseAtKept DEF PurchaseOK
  <2>4. NoneEnters(MakingLabels)
        BY ZenonT(60), <2>1 DEF NoneEnters, MakingLabels
  <2>. QED  BY ZenonT(60), <1>1, <1>4, <2>2, <2>3, <2>4, MakingKept DEF ChainKept,
               tokenRouteVars
<1>5. ASSUME NEW invoiceId \in KnownInvoices \cup {0}, PostMakeTokens(r, invoiceId),
             UNCHANGED purchase
      PROVE  IdsOK' /\ PurchaseOK' /\ MakingOK'
  <2>1. /\ pc'[r] = "readInvoice" /\ nextId' = nextId
        /\ making'[r].invoiceId = invoiceId
        /\ \A q \in Requests \ {r} : pc'[q] = pc[q] /\ making'[q] = making[q]
        BY <1>5 DEF PostMakeTokens, Arrive, TokenRoutesTypeOK, Making
  <2>2. NoneEnters(PurchaseLabels)
        BY ZenonT(60), <2>1 DEF NoneEnters, PurchaseLabels
  <2>3. MakingOK'
        BY ZenonT(60), <1>1, <2>1, KnownKept DEF MakingOK, MakingAt
  <2>. QED  BY ZenonT(60), <1>1, <1>5, <2>1, <2>2, <2>3, PurchaseKept
<1>6. ASSUME NEW label \in {"findRow", "payInvoice"}, pc' = [pc EXCEPT ![r] = label],
             UNCHANGED <<nextId, purchase, making>>
      PROVE  IdsOK' /\ PurchaseOK' /\ MakingOK'
  <2>1. NoneEnters(PurchaseLabels) /\ NoneEnters(MakingLabels)
        BY <1>6 DEF NoneEnters, PurchaseLabels, MakingLabels
  <2>. QED  BY ZenonT(60), <1>1, <1>6, <2>1, PurchaseKept, MakingKept DEF ChainKept
<1>7. CASE PurchaseRequest(r) /\ UNCHANGED <<itemTokenVars, coinVars, tokenRouteVars, payment>>
      BY ZenonT(60), <1>2, <1>3, <1>4, <1>7 DEF PurchaseRequest
<1>8. CASE TokenRequest(r) /\ UNCHANGED <<purchase, payment>>
      BY ZenonT(60), <1>2, <1>5, <1>6, <1>8 DEF TokenRequest, PostTransferToken, Arrive
<1>9. CASE PaymentRequest(r) /\ UNCHANGED <<itemTokenVars, rows, purchase, tokenRouteVars>>
      BY ZenonT(60), <1>2, <1>6, <1>9 DEF PaymentRequest, PostPaySupplier, Arrive, tokenRouteVars
<1>. QED  BY ZenonT(60), <1>7, <1>8, <1>9 DEF Send

LEMMA InitRows == Init => RowsInv
<1>. SUFFICES ASSUME Init PROVE RowsInv
     OBVIOUS
<1>. USE DEF Init, ServerInit, ProcurementInit, RowsInit, ItemTokenInit
<1>1. KnownPOs = {} /\ KnownInvoices = {} /\ DOMAIN rows = {} /\ DOMAIN owner = {}
      BY DEF KnownPOs, KnownInvoices
<1>2. IdsOK /\ PurchaseOK /\ MakingOK /\ RowsOK
      BY ZenonT(60), <1>1 DEF IdsOK, PurchaseOK, PurchaseAt, MakingOK, MakingAt, RowsOK
<1>3. UnissuedOK
  <2>1. 0 \in Ids
        BY BoundsAreNat DEF Ids
  <2>2. EmptyPO.itemType = NoType /\ EmptyInvoice.supplierId = ""
        BY ZenonT(60) DEF EmptyPO, EmptyInvoice
  <2>. QED  BY ZenonT(60), <2>1, <2>2 DEF UnissuedOK
<1>4. RowsReferToChain
      BY ZenonT(60), <1>1 DEF RowsReferToChain, RowMatchesChain
<1>. QED  BY ZenonT(60), <1>2, <1>3, <1>4 DEF RowsInv

LEMMA NextRows == TypeInv /\ RowsInv /\ [Next]_vars => RowsInv'
<1>. SUFFICES ASSUME TypeInv, RowsInv, [Next]_vars PROVE RowsInv'
     OBVIOUS
<1>1. CASE UNCHANGED vars
  <2>1. /\ UNCHANGED <<pc, rows, nextId, purchase, making, owner>>
        /\ UNCHANGED procurementVars
        BY <1>1 DEF vars, serverVars, itemTokenVars, tokenRouteVars
  <2>2. NoneEnters(PurchaseLabels) /\ NoneEnters(MakingLabels)
        BY ZenonT(60), <2>1 DEF NoneEnters
  <2>. QED  BY ZenonT(60), <2>1, <2>2, SameChain, QuietStep
<1>2. ASSUME NEW r \in Requests, Handle(r) PROVE RowsInv'
  <2>1. CASE PurchaseStep(r) /\ UNCHANGED <<itemTokenVars, coinVars, tokenRouteVars, payment>>
        BY ZenonT(60), <2>1, CreatePORows, SaveRowRows, ReadPORows, AcknowledgeRows, CreateInvoiceRows,
           RecordInvoiceRows DEF PurchaseStep
  <2>2. CASE TokenStep(r) /\ UNCHANGED <<purchase, payment>>
    <3>1. MakingStep(r) \/ DeliveryStep(r)
          BY ZenonT(60), <2>2 DEF TokenStep, MakingStep, DeliveryStep
    <3>. QED  BY <2>2, <3>1, MakingStepRows, DeliveryStepRows
  <2>3. CASE PaymentStep(r) /\ UNCHANGED <<itemTokenVars, rows, purchase, tokenRouteVars>>
        BY <2>3, PaymentStepRows
  <2>. QED  BY ZenonT(60), <1>2, <2>1, <2>2, <2>3 DEF Handle
<1>. QED  BY ZenonT(60), <1>1, <1>2, SendRows, FaultRows DEF Next, Waiting

\* The procurement collection never runs ahead of the chain: the order, the
\* invoice and the token that a document of procurementService names are on
\* chain and belong to each other, for every workload, every interleaving of
\* the handlers and every failed call or crash.
THEOREM CollectionFollowsChain == Spec => []RowsReferToChain
<1>1. RowsInv => RowsReferToChain
      BY DEF RowsInv
<1>. QED  BY InitType, NextType, InitRows, NextRows, <1>1, PTL DEF Spec

=============================================================================
