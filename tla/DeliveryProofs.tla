--------------------------- MODULE DeliveryProofs ---------------------------
(***************************************************************************)
(* Proofs about deliveries, for every workload and every value of the      *)
(* bounds: the status of an order never goes back and never claims more    *)
(* than the tokens show, and one token is delivered once.                  *)
(***************************************************************************)
EXTENDS TokenProofs

-----------------------------------------------------------------------------
(* Who issued, who recorded                                                *)

\* The id of a token is in the collection only after the makeTokens request
\* that made it was answered.
Recorded(t) ==
    \E s \in Requests : /\ Route[s] = "makeTokens" /\ pc[s] = "ok"
                        /\ making[s].tokenId = t

RowsRecorded ==
    \A i \in DOMAIN rows : rows[i].token_id # NoToken => Recorded(rows[i].token_id)

\* An invoice on chain was put there by one request, for the order it names.
IssuedBy(r, i) ==
    /\ Route[r] = "invoice"
    /\ pc[r] \in {"recordInvoice", "ok", "failed"}
    /\ purchase[r].poId = invoices[i].poId
    /\ purchase[r].processId = i

InvoicesIssued ==
    /\ \A i \in KnownInvoices : \E r \in Requests : IssuedBy(r, i)
    /\ invoices[0].poId = 0
    /\ KnownPOs \cap KnownInvoices = {}

\* What transferToken found out about its token.
MatchedAt(r) ==
    LET d == delivery[r]
    IN  /\ pc[r] \in DeliveryLabels => d.tokenId \in DOMAIN owner
        /\ (pc[r] \in DeliveryLabels \ {"findRow"} /\ d.row # 0) =>
             /\ OrderOf(d.tokenId) = d.po_id
             /\ d.invoice_id \in KnownInvoices \cup {0}
             /\ Recorded(d.tokenId)
        /\ pc[r] \in {"delivered", "completed"} => d.row # 0

DeliveriesMatch == \A r \in Requests : MatchedAt(r)

\* An order is pending or delivered only when it has a token, and delivered
\* only when the id of that token was recorded.
StatusShown ==
    \A p \in Ids :
        /\ pos[p].status = "PENDING DELIVERY" => \E t \in DOMAIN owner : OrderOf(t) = p
        /\ pos[p].status = "DELIVERED" =>
             \E t \in DOMAIN owner : OrderOf(t) = p /\ Recorded(t)

DeliveryInv == /\ RowsRecorded
               /\ InvoicesIssued
               /\ DeliveriesMatch
               /\ StatusShown

-----------------------------------------------------------------------------
(* Who holds a token, when the roles are apart                             *)

\* transferToken names the account it takes the token from only when it
\* issues the transfer.
Before == {"idle", "findRow", "userAccount", "merchantAccount", "ownerOf", "gotOwner"}
After == {"transferFrom", "newOwnerOf", "gotNewOwner", "delivered", "completed"}

CallAt(r) ==
    Route[r] = "transferToken" =>
        /\ pc[r] \in Before => delivery[r].callFrom = Undefined
        /\ pc[r] \in After => delivery[r].callFrom \in Accounts

\* A token that makeTokens has passed on has left ADMIN, and one that
\* transferToken has moved is with a payer.
HoldersAt(r) ==
    /\ (Route[r] = "makeTokens" /\ pc[r] \in {"pendingDelivery", "recordToken", "ok"}) =>
         owner[making[r].tokenId] # ADMIN
    /\ HandedOver(r) =>
         /\ delivery[r].tokenId \in DOMAIN owner
         /\ owner[delivery[r].tokenId] \in Payers

HandoverInv == /\ \A r \in Requests : CallAt(r) /\ HoldersAt(r)
               /\ DeliveredOnce
               /\ StatusBackedByToken

-----------------------------------------------------------------------------
(* Who writes a token id into the collection                               *)

LEMMA RecordedStays ==
    ASSUME TypeInv, [Next]_vars, NEW t, Recorded(t)
    PROVE  Recorded(t)'
<1>1. PICK s \in Requests : Route[s] = "makeTokens" /\ pc[s] = "ok" /\ making[s].tokenId = t
      BY DEF Recorded
<1>2. pc'[s] = "ok" /\ making'[s] = making[s]
      BY ZenonT(60), <1>1, AnsweredStays DEF Answered
<1>. QED  BY ZenonT(60), <1>1, <1>2 DEF Recorded

\* The documents that updateData leaves alone, and the one it changes.
LEMMA RowUpdated ==
    ASSUME TypeInv, NEW k \in DOMAIN rows, NEW row, rows' = [rows EXCEPT ![k] = row]
    PROVE  /\ DOMAIN rows' = DOMAIN rows
           /\ rows'[k] = row
           /\ \A j \in DOMAIN rows : j # k => rows'[j] = rows[j]
BY DEF TypeInv, TypeOK, RowsTypeOK

LEMMA RowTokens ==
    ASSUME TypeInv, [Next]_vars, NEW i \in DOMAIN rows', rows'[i].token_id # NoToken
    PROVE  \/ i \in DOMAIN rows /\ rows'[i].token_id = rows[i].token_id
           \/ \E r \in Requests : /\ MakingMove(r) /\ pc[r] = "recordToken" /\ pc'[r] = "ok"
                                  /\ making' = making
                                  /\ rows'[i].token_id = making[r].tokenId
<1>1. /\ DOMAIN rows = 1..Len(rows) /\ Len(rows) \in Nat /\ rows \in Seq(Row)
      /\ \A j \in DOMAIN rows : rows[j] \in Row
      BY ElementOfSeq, LenProperties DEF TypeInv, TypeOK, RowsTypeOK
<1>2. CASE UNCHANGED rows
      BY ZenonT(60), <1>2
<1>3. ASSUME NEW r \in Requests, SaveRow(r)
      PROVE  i \in DOMAIN rows /\ rows'[i].token_id = rows[i].token_id
  <2>. DEFINE row == [transaction_id |-> r, supplier_id |-> Head(purchase[r].lines).supplierId,
                      po_id |-> purchase[r].processId, invoice_id |-> 0, item_price |-> 0,
                      token_id |-> NoToken]
  <2>1. rows' = Append(rows, row)
        BY <1>3 DEF SaveRow, createProcurement
  <2>2. row.token_id = NoToken
        OBVIOUS
  <2>. HIDE DEF row
  <2>3. rows \in Seq(Row \cup {row}) /\ row \in Row \cup {row}
        BY <1>1, SeqMonotonic
  <2>4. /\ DOMAIN rows' = 1..(Len(rows) + 1)
        /\ \A j \in 1..Len(rows) : rows'[j] = rows[j]
        /\ rows'[Len(rows) + 1] = row
        BY SMTT(60), <2>1, <2>3, AppendProperties, LenProperties
  <2>5. i # Len(rows) + 1
        BY ZenonT(60), <2>2, <2>4
  <2>6. i \in 1..Len(rows)
        BY <1>1, <2>4, <2>5
  <2>. QED  BY ZenonT(60), <1>1, <2>4, <2>6
<1>4. ASSUME NEW r \in Requests, RecordInvoice(r)
      PROVE  i \in DOMAIN rows /\ rows'[i].token_id = rows[i].token_id
  <2>. DEFINE p == purchase[r]
              k == FirstMatch(RowsOfPO(p.poId))
  <2>1. CASE k = 0
        BY ZenonT(60), <1>4, <2>1 DEF RecordInvoice, updateInvoice
  <2>2. CASE k # 0
    <3>1. k \in DOMAIN rows
          BY ZenonT(60), <2>2, FirstRow DEF RowsOfPO, TypeInv, TypeOK
    <3>2. rows' = [rows EXCEPT ![k] = [rows[k] EXCEPT !.invoice_id = p.processId,
                                                      !.item_price = p.itemPrice]]
          BY ZenonT(60), <1>4, <2>2, <3>1 DEF RecordInvoice, updateInvoice
    <3>. HIDE DEF k, p
    <3>3. [rows[k] EXCEPT !.invoice_id = p.processId, !.item_price = p.itemPrice].token_id
            = rows[k].token_id
          BY ZenonT(60), <1>1, <3>1 DEF Row
    <3>. QED  BY ZenonT(60), <3>1, <3>2, <3>3, RowUpdated
  <2>. QED  BY <2>1, <2>2
<1>5. ASSUME NEW r \in Requests, RecordToken(r)
      PROVE  \/ i \in DOMAIN rows /\ rows'[i].token_id = rows[i].token_id
             \/ rows'[i].token_id = making[r].tokenId
  <2>. DEFINE k == FirstMatch(RowsOfInvoice(making[r].invoiceId))
  <2>1. CASE k = 0
        BY ZenonT(60), <1>5, <2>1 DEF RecordToken, updateTokenId
  <2>2. CASE k # 0
    <3>1. k \in DOMAIN rows
          BY ZenonT(60), <2>2, FirstRow DEF RowsOfInvoice, TypeInv, TypeOK
    <3>2. rows' = [rows EXCEPT ![k] = [rows[k] EXCEPT !.token_id = making[r].tokenId]]
          BY ZenonT(60), <1>5, <2>2, <3>1 DEF RecordToken, updateTokenId
    <3>. HIDE DEF k
    <3>3. [rows[k] EXCEPT !.token_id = making[r].tokenId].token_id = making[r].tokenId
          BY ZenonT(60), <1>1, <3>1 DEF Row
    <3>. QED  BY ZenonT(60), <3>1, <3>2, <3>3, RowUpdated
  <2>. QED  BY <2>1, <2>2
<1>6. ASSUME NEW r \in Requests, RecordToken(r)
      PROVE  pc[r] = "recordToken" /\ pc'[r] = "ok" /\ making' = making
      BY ZenonT(60), <1>6, StringTypes DEF RecordToken, Step
<1>7. ASSUME NEW r \in Requests, IssueMove(r) PROVE SaveRow(r) \/ UNCHANGED rows
      BY ZenonT(60), <1>7 DEF IssueMove, CreatePO
<1>8. ASSUME NEW r \in Requests, InvoiceMove(r) PROVE RecordInvoice(r) \/ UNCHANGED rows
      BY ZenonT(60), <1>8 DEF InvoiceMove, ReadPO, Acknowledge, CreateInvoice
<1>9. ASSUME NEW r \in Requests, MakingMove(r) PROVE RecordToken(r) \/ UNCHANGED rows
      BY ZenonT(60), <1>9 DEF MakingMove, MakingStep, ReadInvoice, StoreMetadata, MintToken,
         FromAccount, ToAccount, ToSupplier, PendingDelivery
<1>10. ASSUME NEW r \in Requests, Send(r) \/ DeliveryMove(r) \/ PaymentMove(r)
      PROVE  UNCHANGED rows
      BY ZenonT(60), <1>10, SendFrame, DeliveryFrame, PaymentFrame
<1>11. ASSUME Fault \/ UNCHANGED vars PROVE UNCHANGED rows
      BY ZenonT(60), <1>11, FaultFrame DEF vars
<1>. QED  BY ZenonT(60), <1>2, <1>3, <1>4, <1>5, <1>6, <1>7, <1>8, <1>9, <1>10, <1>11, StepCases

LEMMA NextRecorded ==
    ASSUME TypeInv, TokenInv, RowsRecorded, [Next]_vars
    PROVE  RowsRecorded'
<1>1. ASSUME NEW i \in DOMAIN rows', rows'[i].token_id # NoToken,
             i \in DOMAIN rows, rows'[i].token_id = rows[i].token_id
      PROVE  Recorded(rows[i].token_id)'
  <2>1. PICK s \in Requests : /\ Route[s] = "makeTokens" /\ pc[s] = "ok"
                              /\ making[s].tokenId = rows[i].token_id
        BY ZenonT(60), <1>1 DEF RowsRecorded, Recorded
  <2>2. pc'[s] = "ok" /\ making'[s] = making[s]
        BY ZenonT(60), <2>1, AnsweredStays DEF Answered
  <2>. QED  BY ZenonT(60), <1>1, <2>1, <2>2 DEF Recorded
<1>2. ASSUME NEW i \in DOMAIN rows', NEW r \in Requests, MakingMove(r), pc[r] = "recordToken",
             pc'[r] = "ok", making' = making, rows'[i].token_id = making[r].tokenId
      PROVE  Recorded(rows[i].token_id)'
  <2>1. Route[r] = "makeTokens"
        BY ZenonT(60), <1>2 DEF TokenInv, RoutesOK, RouteAt, MakingLabels
  <2>. QED  BY ZenonT(60), <1>2, <2>1 DEF Recorded
<1>. QED  BY ZenonT(60), <1>1, <1>2, RowTokens DEF RowsRecorded

-----------------------------------------------------------------------------
(* Who issued an invoice                                                   *)

LEMMA IssuedByStays ==
    ASSUME TypeInv, [Next]_vars, NEW r \in Requests, NEW i, IssuedBy(r, i), InvoiceStays(i)
    PROVE  IssuedBy(r, i)'
<1>1. CASE pc[r] \in Answered
      BY ZenonT(60), <1>1, AnsweredStays DEF IssuedBy, InvoiceStays
<1>2. CASE pc[r] = "recordInvoice"
  <2>1. /\ pc[r] \in InvoiceLabels /\ pc[r] # "idle" /\ pc[r] \notin IssueLabels
        /\ pc[r] \notin MakingLabels /\ pc[r] \notin DeliveryLabels
        /\ pc[r] \notin PaymentLabels
        BY ZenonT(60), <1>2 DEF IssueLabels, InvoiceLabels, MakingLabels, DeliveryLabels,
           PaymentLabels
  <2>2. ASSUME NEW q \in Requests,
               \/ Send(q) \/ IssueMove(q) \/ InvoiceMove(q) \/ MakingMove(q) \/ DeliveryMove(q)
               \/ PaymentMove(q)
        PROVE  OnlyMoves(q) /\ (q = r => InvoiceMove(r))
        BY ZenonT(60), <2>1, <2>2, SendFrame, IssueFrame, InvoiceFrame, MakingFrame,
           DeliveryFrame, PaymentFrame DEF RunsIn
  <2>3. ASSUME InvoiceMove(r) PROVE pc'[r] = "ok" /\ purchase'[r] = purchase[r]
        BY ZenonT(60), <1>2, <2>3, StringTypes DEF InvoiceMove, ReadPO, Acknowledge,
           CreateInvoice, RecordInvoice, Step
  <2>4. ASSUME NEW q \in Requests, OnlyMoves(q), q # r
        PROVE  pc'[r] = pc[r] /\ purchase'[r] = purchase[r]
        BY ZenonT(60), <2>4 DEF OnlyMoves
  <2>5. ASSUME Fault \/ UNCHANGED vars
        PROVE  pc'[r] \in {pc[r], "failed"} /\ purchase'[r] = purchase[r]
        BY ZenonT(60), <2>5, FaultFrame DEF vars, serverVars
  <2>6. pc'[r] \in {"recordInvoice", "ok", "failed"} /\ purchase'[r] = purchase[r]
        BY ZenonT(60), <1>2, <2>2, <2>3, <2>4, <2>5, StepCases
  <2>. QED  BY ZenonT(60), <2>6 DEF IssuedBy, InvoiceStays
<1>. QED  BY ZenonT(60), <1>1, <1>2 DEF IssuedBy, Answered

LEMMA NextIssued ==
    ASSUME TypeInv, RowsInv, TokenInv, InvoicesIssued, [Next]_vars
    PROVE  InvoicesIssued'
<1>1. \A i \in KnownInvoices \cup {0} : InvoiceStays(i)
      BY StepIssued
<1>2. invoices'[0].poId = 0
      BY ZenonT(60), <1>1 DEF InvoiceStays, InvoicesIssued
<1>3. ASSUME NEW i \in KnownInvoices PROVE \E r \in Requests : IssuedBy(r, i)'
      BY ZenonT(60), <1>1, <1>3, IssuedByStays DEF InvoicesIssued
<1>4. ASSUME NEW r \in Requests, IssueMove(r), CreatePO(r)
      PROVE  purchase[r].processId \notin KnownInvoices
      BY ZenonT(60), <1>4 DEF CreatePO, Step, RowsInv, IdsOK
<1>5. ASSUME NEW r \in Requests, InvoiceMove(r), CreateInvoice(r)
      PROVE  /\ purchase[r].processId \notin KnownPOs
             /\ IssuedBy(r, purchase[r].processId)'
  <2>. DEFINE p == purchase[r]
  <2>1. p.processId \notin KnownPOs
        BY ZenonT(60), <1>5 DEF CreateInvoice, Step, RowsInv, IdsOK
  <2>2. pc[r] = "createInvoice" /\ pc'[r] = "recordInvoice" /\ purchase' = purchase
        BY ZenonT(60), <1>5, StringTypes DEF CreateInvoice, Step
  <2>3. Route[r] = "invoice"
        BY ZenonT(60), <2>2 DEF TokenInv, RoutesOK, RouteAt, InvoiceLabels
  <2>4. p.processId \in Ids
        BY ZenonT(60), StringTypes DEF Purchase
  <2>5. invoices'[p.processId].poId = p.poId
        BY ZenonT(60), <1>5, <2>4 DEF CreateInvoice, issueInvoice, TypeInv, TypeOK,
           ProcurementTypeOK
  <2>. QED  BY ZenonT(60), <2>1, <2>2, <2>3, <2>5 DEF IssuedBy
<1>6. KnownPOs' \cap KnownInvoices' = {}
      BY ZenonT(60), <1>4, <1>5, StepKnown DEF InvoicesIssued
<1>7. ASSUME NEW i \in KnownInvoices' PROVE \E r \in Requests : IssuedBy(r, i)'
  <2>1. CASE i \in KnownInvoices
        BY <1>3, <2>1
  <2>2. ASSUME NEW r \in Requests, InvoiceMove(r), CreateInvoice(r), i = purchase[r].processId
        PROVE  IssuedBy(r, i)'
    <3>1. purchase' = purchase
          BY <2>2 DEF CreateInvoice
    <3>. QED  BY ZenonT(60), <1>5, <2>2, <3>1 DEF IssuedBy
  <2>. QED  BY ZenonT(60), <2>1, <2>2, StepKnown
<1>. QED  BY ZenonT(60), <1>2, <1>6, <1>7 DEF InvoicesIssued

-----------------------------------------------------------------------------
(* What transferToken knows of its token                                   *)

\* A token stands for the same order for good.
LEMMA OrderStays ==
    ASSUME TypeInv, RowsInv, [Next]_vars, NEW t \in DOMAIN owner
    PROVE  OrderOf(t)' = OrderOf(t)
<1>1. InvoiceStays(t.hash.invoiceId)
      BY ZenonT(60), StepIssued DEF RowsInv, RowsOK
<1>. QED  BY ZenonT(60), <1>1 DEF OrderOf, InvoiceStays

LEMMA FindRowMatches ==
    ASSUME TypeInv, RowsInv, DeliveryInv, NEW r \in Requests, DeliveryMove(r), FindRow(r)
    PROVE  LET d == delivery[r]
           IN  /\ pc[r] = "findRow" /\ pc'[r] = "userAccount"
               /\ delivery'[r].tokenId = d.tokenId
               /\ delivery'[r].row # 0 =>
                    /\ OrderOf(d.tokenId) = delivery'[r].po_id
                    /\ delivery'[r].invoice_id \in KnownInvoices \cup {0}
                    /\ Recorded(d.tokenId)
<1>. DEFINE d == delivery[r]
            i == FirstMatch(RowsOfToken(d.tokenId))
<1>1. pc[r] = "findRow" /\ pc'[r] = "userAccount"
      BY ZenonT(60), StringTypes DEF FindRow, Step
<1>2. /\ delivery'[r].tokenId = d.tokenId
      /\ delivery'[r].row = i
      /\ i # 0 => delivery'[r].po_id = rows[i].po_id
      /\ i # 0 => delivery'[r].invoice_id = rows[i].invoice_id
      BY ZenonT(60), StringTypes DEF FindRow, Delivery
<1>3. ASSUME i # 0
      PROVE  /\ OrderOf(d.tokenId) = rows[i].po_id
             /\ rows[i].invoice_id \in KnownInvoices \cup {0}
             /\ Recorded(d.tokenId)
  <2>1. i \in DOMAIN rows /\ rows[i].token_id = d.tokenId
        BY ZenonT(60), <1>3, FirstRow DEF RowsOfToken, TypeInv, TypeOK
  <2>2. d.tokenId # NoToken
    <3>1. d.tokenId \in TokenIds
          BY ZenonT(60), <1>1 DEF DeliveryInv, DeliveriesMatch, MatchedAt, DeliveryLabels,
             TypeInv, TypeOK, ItemTokenTypeOK
    <3>2. \A t \in TokenIds : t.hash.price \in Nat
      <4>1. \A t \in TokenIds : t.hash \in Metadata
            BY ZenonT(60) DEF TokenIds
      <4>2. \A m \in Metadata : m.price \in Prices \cup {0}
            BY ZenonT(60) DEF Metadata
      <4>3. \A x \in Prices \cup {0} : x \in Nat
            BY BoundsAreNat
      <4>. QED  BY ZenonT(60), <4>1, <4>2, <4>3
    <3>3. NoToken.hash.price = -1
          BY DEF NoToken, Undefined
    <3>. QED  BY SMTT(60), <3>1, <3>2, <3>3
  <2>. HIDE DEF d, i
  <2>. QED  BY ZenonT(60), <2>1, <2>2 DEF RowsInv, RowsOK, RowsReferToChain, RowMatchesChain,
               DeliveryInv, RowsRecorded
<1>. QED  BY ZenonT(60), <1>1, <1>2, <1>3

LEMMA MatchKept ==
    ASSUME TypeInv, NEW r \in Requests, DeliveryMove(r), ~FindRow(r)
    PROVE  /\ delivery'[r].tokenId = delivery[r].tokenId
           /\ delivery'[r].row = delivery[r].row
           /\ delivery'[r].po_id = delivery[r].po_id
           /\ delivery'[r].invoice_id = delivery[r].invoice_id
           /\ pc[r] \in DeliveryLabels \ {"findRow"}
           /\ pc'[r] \in {"delivered", "completed"} =>
                delivery[r].row # 0 \/ pc[r] \in {"delivered", "completed"}
<1>1. delivery[r] \in Delivery /\ delivery \in [Requests -> Delivery]
      BY StringTypes
<1>2. /\ delivery'[r].tokenId = delivery[r].tokenId
      /\ delivery'[r].row = delivery[r].row
      /\ delivery'[r].po_id = delivery[r].po_id
      /\ delivery'[r].invoice_id = delivery[r].invoice_id
  <2>1. CASE OwnerOf(r, "ownerOf", "gotOwner") \/ OwnerOf(r, "newOwnerOf", "gotNewOwner")
        BY ZenonT(60), <1>1, <2>1 DEF OwnerOf, Delivery
  <2>2. CASE GotOwner(r)
        BY ZenonT(60), <1>1, <2>2 DEF GotOwner, Delivery
  <2>. QED  BY ZenonT(60), <2>1, <2>2 DEF DeliveryMove, DeliveryStep, UserAccount,
               MerchantAccount, TransferFrom, GotNewOwner, Delivered, Completed, tokenRouteVars
<1>3. pc[r] \in DeliveryLabels \ {"findRow"}
      BY ZenonT(60) DEF DeliveryMove, DeliveryStep, UserAccount, MerchantAccount, OwnerOf,
         GotOwner, TransferFrom, GotNewOwner, Delivered, Completed, Step, DeliveryLabels
<1>4. pc'[r] \in {"delivered", "completed"} =>
        delivery[r].row # 0 \/ pc[r] \in {"delivered", "completed"}
      BY ZenonT(60), StringTypes DEF DeliveryMove, DeliveryStep, UserAccount, MerchantAccount,
         OwnerOf, GotOwner, TransferFrom, GotNewOwner, Delivered, Completed, Step
<1>. QED  BY ZenonT(60), <1>2, <1>3, <1>4

LEMMA NextMatched ==
    ASSUME TypeInv, RowsInv, TokenInv, DeliveryInv, [Next]_vars
    PROVE  DeliveriesMatch'
<1>. USE DEF DeliveryInv
<1>1. ChainGrows
      BY StepGrows
<1>2. ASSUME NEW t \in DOMAIN owner PROVE OrderOf(t)' = OrderOf(t)
      BY <1>2, OrderStays
<1>3. ASSUME NEW q \in Requests, delivery'[q].tokenId = delivery[q].tokenId,
             Recorded(delivery[q].tokenId)
      PROVE  Recorded(delivery[q].tokenId)'
  <2>1. PICK s \in Requests : /\ Route[s] = "makeTokens" /\ pc[s] = "ok"
                              /\ making[s].tokenId = delivery[q].tokenId
        BY ZenonT(60), <1>3 DEF Recorded
  <2>2. pc'[s] = "ok" /\ making'[s] = making[s]
        BY ZenonT(60), <2>1, AnsweredStays DEF Answered
  <2>. QED  BY ZenonT(60), <1>3, <2>1, <2>2 DEF Recorded
<1>4. ASSUME NEW q \in Requests, pc'[q] \in {pc[q], "failed"}, delivery'[q] = delivery[q]
      PROVE  MatchedAt(q)'
  <2>1. CASE pc'[q] \in DeliveryLabels /\ pc'[q] = pc[q]
    <3>. DEFINE t == delivery[q].tokenId
    <3>1. t \in DOMAIN owner /\ delivery[q] \in Delivery
          BY ZenonT(60), <2>1, StringTypes DEF DeliveriesMatch, MatchedAt
    <3>2. OrderOf(delivery[q].tokenId)' = OrderOf(t)
          BY ZenonT(60), <1>2, <1>4, <3>1 DEF OrderOf
    <3>3. Recorded(t) => Recorded(delivery[q].tokenId)'
          BY ZenonT(60), <1>3, <1>4
    <3>. QED  BY ZenonT(60), <1>1, <1>4, <2>1, <3>1, <3>2, <3>3 DEF ChainGrows,
                 DeliveriesMatch, MatchedAt
  <2>2. pc'[q] = "failed" => pc'[q] \notin DeliveryLabels
        BY DEF DeliveryLabels
  <2>3. CASE pc'[q] \notin DeliveryLabels
    <3>1. pc'[q] \notin {"delivered", "completed"}
          BY ZenonT(60), <2>3 DEF DeliveryLabels
    <3>. QED  BY ZenonT(60), <2>3, <3>1 DEF MatchedAt
  <2>. QED  BY ZenonT(60), <1>4, <2>1, <2>2, <2>3
<1>5. ASSUME NEW r \in Requests, OnlyMoves(r), MatchedAt(r)' PROVE DeliveriesMatch'
  <2>1. ASSUME NEW q \in Requests, q # r PROVE MatchedAt(q)'
        BY ZenonT(60), <1>4, <1>5, <2>1 DEF OnlyMoves
  <2>. QED  BY ZenonT(60), <1>5, <2>1 DEF DeliveriesMatch
<1>6. ASSUME NEW q \in Requests, pc'[q] \notin DeliveryLabels PROVE MatchedAt(q)'
  <2>1. pc'[q] \notin {"delivered", "completed"}
        BY ZenonT(60), <1>6 DEF DeliveryLabels
  <2>. QED  BY ZenonT(60), <1>6, <2>1 DEF MatchedAt
<1>7. ASSUME NEW r \in Requests,
             IssueMove(r) \/ InvoiceMove(r) \/ MakingMove(r) \/ PaymentMove(r)
      PROVE  DeliveriesMatch'
  <2>1. OnlyMoves(r) /\ pc'[r] \notin DeliveryLabels
        BY ZenonT(200), <1>7, IssueFrame, InvoiceFrame, MakingFrame, PaymentFrame DEF RunsIn,
           Answered, IssueLabels, InvoiceLabels, MakingLabels, PaymentLabels, DeliveryLabels
  <2>. QED  BY ZenonT(60), <1>5, <1>6, <2>1
<1>8. ASSUME NEW r \in Requests, DeliveryMove(r) PROVE DeliveriesMatch'
  <2>. DEFINE t == delivery[r].tokenId
  <2>1. t \in DOMAIN owner /\ delivery'[r].tokenId = t
        BY ZenonT(60), <1>8, DeliveryFrame, DeliveryArgs DEF RunsIn, DeliveriesMatch, MatchedAt
  <2>2. OrderOf(delivery[r].tokenId)' = OrderOf(t)
        BY ZenonT(60), <1>2, <2>1 DEF OrderOf
  <2>3. Recorded(t) => Recorded(delivery[r].tokenId)'
        BY ZenonT(60), <1>3, <2>1
  <2>4. t \in DOMAIN owner' /\ KnownInvoices \subseteq KnownInvoices'
        BY ZenonT(60), <1>1, <2>1 DEF ChainGrows
  <2>5. ASSUME FindRow(r) PROVE MatchedAt(r)'
    <3>1. /\ pc'[r] = "userAccount"
          /\ delivery'[r].row # 0 =>
               /\ OrderOf(t) = delivery'[r].po_id
               /\ delivery'[r].invoice_id \in KnownInvoices \cup {0}
               /\ Recorded(t)
          BY ZenonT(60), <1>8, <2>5, FindRowMatches
    <3>. HIDE DEF t
    <3>. QED  BY ZenonT(60), <2>1, <2>2, <2>3, <2>4, <3>1 DEF MatchedAt
  <2>6. ASSUME ~FindRow(r) PROVE MatchedAt(r)'
    <3>1. /\ pc[r] \in DeliveryLabels \ {"findRow"}
          /\ delivery'[r].row = delivery[r].row
          /\ delivery'[r].po_id = delivery[r].po_id
          /\ delivery'[r].invoice_id = delivery[r].invoice_id
          /\ pc'[r] \in {"delivered", "completed"} =>
               delivery[r].row # 0 \/ pc[r] \in {"delivered", "completed"}
          BY ZenonT(60), <1>8, <2>6, MatchKept
    <3>2. /\ delivery[r].row # 0 =>
               /\ OrderOf(t) = delivery[r].po_id
               /\ delivery[r].invoice_id \in KnownInvoices \cup {0}
               /\ Recorded(t)
          /\ pc[r] \in {"delivered", "completed"} => delivery[r].row # 0
          BY ZenonT(60), <3>1 DEF DeliveriesMatch, MatchedAt
    <3>. HIDE DEF t
    <3>. QED  BY ZenonT(60), <2>1, <2>2, <2>3, <2>4, <3>1, <3>2 DEF MatchedAt
  <2>. QED  BY ZenonT(60), <1>5, <1>8, <2>5, <2>6, DeliveryFrame
<1>9. ASSUME NEW r \in Requests, Send(r) PROVE DeliveriesMatch'
  <2>1. ASSUME NEW t \in DOMAIN owner, NEW p, PostTransferToken(r, t, p), pc'[r] = "findRow"
        PROVE  MatchedAt(r)'
    <3>1. delivery'[r].tokenId = t
          BY ZenonT(60), <2>1, StringTypes DEF PostTransferToken, Delivery
    <3>. QED  BY ZenonT(60), <1>1, <2>1, <3>1 DEF ChainGrows, MatchedAt
  <2>2. ASSUME pc'[r] \in {"createPO", "readPO", "readInvoice", "payInvoice"} \cup Answered
        PROVE  pc'[r] \notin DeliveryLabels
        BY ZenonT(60), <2>2 DEF DeliveryLabels, Answered
  <2>3. MatchedAt(r)'
        BY ZenonT(60), <1>6, <1>9, <2>1, <2>2, SendCases
  <2>. QED  BY ZenonT(60), <1>5, <1>9, <2>3, SendFrame
<1>10. ASSUME Fault \/ UNCHANGED vars PROVE DeliveriesMatch'
  <2>1. ASSUME NEW q \in Requests
        PROVE  delivery'[q] = delivery[q] /\ pc'[q] \in {pc[q], "failed"}
        BY ZenonT(60), <1>10, FaultFrame DEF vars, serverVars, tokenRouteVars
  <2>. QED  BY ZenonT(60), <1>4, <2>1 DEF DeliveriesMatch
<1>. QED  BY ZenonT(60), <1>7, <1>8, <1>9, <1>10, StepCases

-----------------------------------------------------------------------------
(* The status of an order                                                  *)

\* The token that makeTokens holds when it writes PENDING DELIVERY is a token
\* of the order.
LEMMA PendingToken ==
    ASSUME TypeInv, TokenInv, NEW r \in Requests, pc[r] = "pendingDelivery"
    PROVE  /\ Route[r] = "makeTokens"
           /\ making[r].tokenId \in DOMAIN owner
           /\ OrderOf(making[r].tokenId) = making[r].invoice.poId
           /\ pc[r] \in HasMinted
<1>1. /\ pc[r] \in MakingLabels /\ pc[r] \in Begun /\ pc[r] \in HasRead
      /\ pc[r] \in HasStored /\ pc[r] \in HasMinted
      BY ZenonT(60) DEF MakingLabels, Begun, HasRead, HasStored, HasMinted
<1>2. Route[r] = "makeTokens"
      BY ZenonT(60), <1>1 DEF TokenInv, RoutesOK, RouteAt
<1>3. /\ making[r].tokenId \in DOMAIN owner
      /\ making[r].tokenId = TokenOf(making[r].invoiceId)
      /\ making[r].invoice.poId = invoices[making[r].invoiceId].poId
      BY ZenonT(60), <1>1, <1>2 DEF TokenInv, MakingsHold, MakingHolds
<1>4. \A i : TokenOf(i).hash.invoiceId = i
      BY ZenonT(60) DEF TokenOf, rootHash
<1>. QED  BY ZenonT(60), <1>1, <1>2, <1>3, <1>4 DEF OrderOf

LEMMA NextShown ==
    ASSUME TypeInv, RowsInv, TokenInv, DeliveryInv, [Next]_vars
    PROVE  StatusShown'
<1>. USE DEF DeliveryInv
<1>1. DOMAIN owner \subseteq DOMAIN owner'
      BY StepGrows DEF ChainGrows
<1>2. \A t \in DOMAIN owner : OrderOf(t)' = OrderOf(t)
      BY OrderStays
<1>3. \A t : Recorded(t) => Recorded(t)'
      BY RecordedStays
<1>4. ASSUME NEW p \in Ids, pos'[p].status = pos[p].status
      PROVE  /\ pos'[p].status = "PENDING DELIVERY" =>
                  \E t \in DOMAIN owner' : OrderOf(t)' = p
             /\ pos'[p].status = "DELIVERED" =>
                  \E t \in DOMAIN owner' : OrderOf(t)' = p /\ Recorded(t)'
      BY ZenonT(60), <1>1, <1>2, <1>3, <1>4 DEF StatusShown
<1>5. ASSUME NEW p \in Ids, pos'[p].status \notin {"PENDING DELIVERY", "DELIVERED"}
      PROVE  /\ pos'[p].status = "PENDING DELIVERY" =>
                  \E t \in DOMAIN owner' : OrderOf(t)' = p
             /\ pos'[p].status = "DELIVERED" =>
                  \E t \in DOMAIN owner' : OrderOf(t)' = p /\ Recorded(t)'
      BY ZenonT(60), <1>5
<1>6. ASSUME NEW p \in Ids, NEW r \in Requests, pc[r] = "pendingDelivery",
             p = making[r].invoice.poId
      PROVE  \E t \in DOMAIN owner' : OrderOf(t)' = p
      BY ZenonT(60), <1>1, <1>2, <1>6, PendingToken
<1>7. ASSUME NEW p \in Ids, NEW r \in Requests, pc[r] = "delivered", p = delivery[r].po_id
      PROVE  \E t \in DOMAIN owner' : OrderOf(t)' = p /\ Recorded(t)'
  <2>1. /\ delivery[r].tokenId \in DOMAIN owner
        /\ OrderOf(delivery[r].tokenId) = p
        /\ Recorded(delivery[r].tokenId)
        BY ZenonT(60), <1>7 DEF DeliveriesMatch, MatchedAt, DeliveryLabels
  <2>. QED  BY ZenonT(60), <1>1, <1>2, <1>3, <2>1
<1>8. ASSUME NEW p \in Ids
      PROVE  /\ pos'[p].status = "PENDING DELIVERY" =>
                  \E t \in DOMAIN owner' : OrderOf(t)' = p
             /\ pos'[p].status = "DELIVERED" =>
                  \E t \in DOMAIN owner' : OrderOf(t)' = p /\ Recorded(t)'
      BY ZenonT(60), <1>4, <1>5, <1>6, <1>7, StepStatus
<1>. QED  BY ZenonT(60), <1>8 DEF StatusShown

LEMMA InitDelivery == Init => DeliveryInv
<1>. SUFFICES ASSUME Init PROVE DeliveryInv
     OBVIOUS
<1>1. DOMAIN owner = {} /\ rows = << >> /\ \A r \in Requests : pc[r] = "idle"
      BY DEF Init, ItemTokenInit, ServerInit, RowsInit
<1>2. RowsRecorded
      BY <1>1 DEF RowsRecorded
<1>3. poArray = << >> /\ invoiceArray = << >> /\ invoices = [i \in Ids |-> EmptyInvoice]
      BY DEF Init, ProcurementInit
<1>4. KnownPOs = {} /\ KnownInvoices = {}
      BY <1>3 DEF KnownPOs, KnownInvoices
<1>5. invoices[0].poId = 0
  <2>1. 0 \in Ids
        BY BoundsAreNat DEF Ids
  <2>. QED  BY ZenonT(60), <1>3, <2>1 DEF EmptyInvoice
<1>6. InvoicesIssued
      BY ZenonT(60), <1>4, <1>5 DEF InvoicesIssued
<1>7. DeliveriesMatch
      BY ZenonT(60), <1>1 DEF DeliveriesMatch, MatchedAt, DeliveryLabels
<1>8. \A p \in Ids : pos[p].status \notin {"PENDING DELIVERY", "DELIVERED"}
      BY ZenonT(60) DEF Init, ProcurementInit, EmptyPO
<1>9. StatusShown
      BY ZenonT(60), <1>8 DEF StatusShown
<1>. QED  BY ZenonT(60), <1>2, <1>6, <1>7, <1>9 DEF DeliveryInv

LEMMA NextDelivery ==
    TypeInv /\ RowsInv /\ TokenInv /\ DeliveryInv /\ [Next]_vars => DeliveryInv'
BY ZenonT(60), NextRecorded, NextIssued, NextMatched, NextShown DEF DeliveryInv

LEMMA RankOf ==
    /\ \A s : Rank(s) \in 0..4
    /\ \A s : s \notin {"PENDING DELIVERY", "DELIVERED"} => Rank(s) <= 2
    /\ \A s : s # "DELIVERED" => Rank(s) <= 3
    /\ Rank("ACKNOWLEDGED") = 2 /\ Rank("PENDING DELIVERY") = 3 /\ Rank("DELIVERED") = 4
<1>1. /\ Rank("ISSUED") = 1 /\ Rank("ACKNOWLEDGED") = 2 /\ Rank("PENDING DELIVERY") = 3
      /\ Rank("DELIVERED") = 4
      BY ZenonT(60) DEF Rank
<1>2. ASSUME NEW s, s \notin {"ISSUED", "ACKNOWLEDGED", "PENDING DELIVERY", "DELIVERED"}
      PROVE  Rank(s) = 0
      BY ZenonT(60), <1>2 DEF Rank
<1>3. ASSUME NEW s
      PROVE  \/ s \notin {"PENDING DELIVERY", "DELIVERED"} /\ Rank(s) \in {0, 1, 2}
             \/ s = "PENDING DELIVERY" /\ Rank(s) = 3
             \/ s = "DELIVERED" /\ Rank(s) = 4
      BY ZenonT(60), <1>1, <1>2
<1>4. \A n \in {0, 1, 2} : n \in 0..4 /\ n <= 2 /\ n <= 3
      OBVIOUS
<1>5. 3 \in 0..4 /\ 4 \in 0..4 /\ 3 <= 3
      OBVIOUS
<1>. QED  BY ZenonT(60), <1>1, <1>3, <1>4, <1>5

\* The invoice that a token of an order stands for was issued by one request
\* for that order.
LEMMA TokenIssuer ==
    ASSUME TypeInv, RowsInv, TokenInv, DeliveryInv, NEW t \in DOMAIN owner,
           OrderOf(t) \in KnownPOs
    PROVE  \E s \in Requests : /\ IssuedBy(s, t.hash.invoiceId)
                               /\ s \in InvoiceRequests(OrderOf(t))
<1>. DEFINE i == t.hash.invoiceId
<1>1. i \in KnownInvoices \cup {0}
      BY ZenonT(60) DEF RowsInv, RowsOK
<1>2. i # 0
      BY ZenonT(60), KnownIds DEF OrderOf, DeliveryInv, InvoicesIssued
<1>3. PICK s \in Requests : IssuedBy(s, i)
      BY ZenonT(60), <1>1, <1>2 DEF DeliveryInv, InvoicesIssued
<1>4. Route[s] = "invoice" /\ pc[s] # "idle" /\ purchase[s].poId = OrderOf(t)
      BY ZenonT(60), <1>3 DEF IssuedBy, OrderOf
<1>. QED  BY ZenonT(60), <1>3, <1>4 DEF InvoiceRequests

LEMMA StepForward ==
    ASSUME TypeInv, RowsInv, TokenInv, DeliveryInv, [Next]_vars
    PROVE  StatusForward
<1>. SUFFICES ASSUME NEW p \in KnownPOs, InvoicedOnce(p)
              PROVE  Rank(pos[p].status) <= Rank(pos'[p].status)
     BY DEF StatusForward
<1>. DEFINE old == pos[p].status
            new == pos'[p].status
<1>1. p \in Ids \ {0}
      BY ZenonT(60), KnownIds
<1>3. ASSUME NEW r \in Requests, InvoiceMove(r), pc[r] = "acknowledge", p = purchase[r].poId
      PROVE  old \notin {"PENDING DELIVERY", "DELIVERED"}
  <2>. SUFFICES ASSUME NEW t \in DOMAIN owner, OrderOf(t) = p PROVE FALSE
       BY ZenonT(60), <1>1 DEF DeliveryInv, StatusShown
  <2>1. PICK s \in InvoiceRequests(p) : IssuedBy(s, t.hash.invoiceId)
        BY ZenonT(60), TokenIssuer
  <2>2. r \in InvoiceRequests(p)
        BY ZenonT(60), <1>3 DEF InvoiceRequests, TokenInv, RoutesOK, RouteAt, InvoiceLabels
  <2>3. r = s
        BY ZenonT(60), <2>1, <2>2 DEF InvoicedOnce
  <2>. QED  BY ZenonT(60), <1>3, <2>1, <2>3 DEF IssuedBy
<1>4. ASSUME NEW r \in Requests, pc[r] = "pendingDelivery", p = making[r].invoice.poId
      PROVE  old # "DELIVERED"
  <2>. SUFFICES ASSUME NEW t \in DOMAIN owner, OrderOf(t) = p, Recorded(t) PROVE FALSE
       BY ZenonT(60), <1>1 DEF DeliveryInv, StatusShown
  <2>. DEFINE u == making[r].tokenId
  <2>1. /\ Route[r] = "makeTokens" /\ pc[r] \in HasMinted
        /\ u \in DOMAIN owner /\ OrderOf(u) = p
        BY ZenonT(60), <1>4, PendingToken
  <2>2. PICK s1 \in InvoiceRequests(p) : IssuedBy(s1, t.hash.invoiceId)
        BY ZenonT(60), TokenIssuer
  <2>3. PICK s2 \in InvoiceRequests(p) : IssuedBy(s2, u.hash.invoiceId)
        BY ZenonT(60), <2>1, TokenIssuer
  <2>4. s1 = s2
        BY ZenonT(60), <2>2, <2>3 DEF InvoicedOnce
  <2>5. t.hash.invoiceId = u.hash.invoiceId
        BY ZenonT(60), <2>2, <2>3, <2>4 DEF IssuedBy
  <2>6. t = TokenOf(t.hash.invoiceId) /\ u = TokenOf(u.hash.invoiceId)
        BY ZenonT(60), <2>1 DEF TokenInv, OwnersOK, OwnerAt
  <2>7. PICK s \in Requests : Route[s] = "makeTokens" /\ pc[s] = "ok" /\ making[s].tokenId = t
        BY ZenonT(60) DEF Recorded
  <2>8. pc[s] \in HasMinted
        BY ZenonT(60), <2>7 DEF HasMinted, HasStored, HasRead, Begun
  <2>9. s = r
        BY ZenonT(60), <2>1, <2>5, <2>6, <2>7, <2>8 DEF TokenInv, MintedOnce
  <2>. QED  BY ZenonT(60), <1>4, <2>7, <2>9
<1>5. ASSUME NEW r \in Requests, pc[r] = "completed", p = delivery[r].invoice_id PROVE FALSE
  <2>1. p \in KnownInvoices \cup {0}
        BY ZenonT(60), <1>5 DEF DeliveryInv, DeliveriesMatch, MatchedAt, DeliveryLabels
  <2>. QED  BY ZenonT(60), <1>1, <2>1 DEF DeliveryInv, InvoicesIssued
<1>6. \/ new = old
      \/ new = "ACKNOWLEDGED" /\ old \notin {"PENDING DELIVERY", "DELIVERED"}
      \/ new = "PENDING DELIVERY" /\ old # "DELIVERED"
      \/ new = "DELIVERED"
      BY ZenonT(60), <1>1, <1>3, <1>4, <1>5, StepStatus
<1>. HIDE DEF old, new
<1>7. /\ Rank(old) \in 0..4 /\ (old # "DELIVERED" => Rank(old) <= 3)
      /\ old \notin {"PENDING DELIVERY", "DELIVERED"} => Rank(old) <= 2
      BY ZenonT(60), RankOf
<1>8. Rank(old) <= Rank(new)
  <2>. \A n \in 0..4 : n <= n /\ n <= 4
       OBVIOUS
  <2>1. CASE new = old
        BY ZenonT(60), <1>7, <2>1
  <2>2. CASE new = "ACKNOWLEDGED" /\ old \notin {"PENDING DELIVERY", "DELIVERED"}
        BY ZenonT(60), <1>7, <2>2, RankOf
  <2>3. CASE new = "PENDING DELIVERY" /\ old # "DELIVERED"
        BY ZenonT(60), <1>7, <2>3, RankOf
  <2>4. CASE new = "DELIVERED"
        BY ZenonT(60), <1>7, <2>4, RankOf
  <2>. QED  BY ZenonT(60), <1>6, <2>1, <2>2, <2>3, <2>4
<1>. QED  BY <1>8 DEF old, new

\* The status of an order that was invoiced once never goes back, for any
\* workload, overlap of handlers, failed calls and crashes.
THEOREM StatusNeverGoesBack == Spec => StatusMovesForward
<1>. QED  BY InitType, NextType, InitRows, NextRows, InitTokens, NextTokens, InitDelivery,
             NextDelivery, StepForward, PTL DEF Spec, StatusMovesForward

-----------------------------------------------------------------------------
(* Who holds a token, when the roles are apart                             *)

\* A supplier's address is never that of ADMIN.
LEMMA SupplierIsNotAdmin ==
    ASSUME TypeInv, RolesApart, NEW i \in Ids
    PROVE  AccountId(invoices[i].supplierId) # ADMIN
<1>1. invoices[i].supplierId \in Suppliers \cup {""}
      BY ZenonT(60) DEF TypeInv, TypeOK, ProcurementTypeOK, Invoice
<1>2. \A name : AccountId(name) = ADMIN => name = "ADMIN"
      BY DEF AccountId, ADMIN, accounts, Undefined
<1>. QED  BY ZenonT(60), <1>1, <1>2 DEF RolesApart

\* A token never comes back to ADMIN, and never leaves the payers.
LEMMA HoldersStay ==
    ASSUME TypeInv, RowsInv, TokenInv, RolesApart, [Next]_vars, NEW t \in DOMAIN owner
    PROVE  /\ t \in DOMAIN owner'
           /\ owner[t] # ADMIN => owner'[t] # ADMIN
           /\ owner[t] \in Payers => owner'[t] \in Payers
<1>1. t \in DOMAIN owner'
      BY ZenonT(60), StepOwners
<1>2. ASSUME NEW r \in Requests, HandsOver(r, t)
      PROVE  owner'[t] \in Payers /\ owner'[t] # ADMIN
      BY ZenonT(60), <1>2 DEF HandsOver, TokenInv, PartiesOK, PartiesAt, RolesApart
<1>3. ASSUME NEW r \in Requests, HandsOut(r, t)
      PROVE  owner[t] = ADMIN /\ owner[t] \notin Payers
      BY ZenonT(60), <1>3 DEF HandsOut, RolesApart
<1>4. ASSUME NEW r \in Requests, Mints(r, t) PROVE FALSE
      BY ZenonT(60), <1>4 DEF Mints
<1>. QED  BY ZenonT(60), <1>1, <1>2, <1>3, <1>4, StepOwners DEF OwnerKept

\* makeTokens passes the token on to an address that is not ADMIN's.
LEMMA HandedOutLeaves ==
    ASSUME TypeInv, RowsInv, TokenInv, RolesApart, NEW r \in Requests, MakingMove(r),
           HandsOut(r, making[r].tokenId)
    PROVE  owner'[making[r].tokenId] # ADMIN
<1>1. pc[r] = "toSupplier" /\ owner'[making[r].tokenId] = making[r].callTo
      BY ZenonT(60) DEF HandsOut
<1>2. pc[r] \in HasAddress /\ Route[r] = "makeTokens"
      BY ZenonT(60), <1>1 DEF HasAddress, HasMinted, HasStored, HasRead, Begun, MakingLabels,
         TokenInv, RoutesOK, RouteAt
<1>3. making[r].callTo = AccountId(invoices[making[r].invoiceId].supplierId)
      BY ZenonT(60), <1>2 DEF TokenInv, MakingsHold, MakingHolds
<1>4. making[r].invoiceId \in Ids
      BY ZenonT(60), StringTypes DEF Making
<1>. QED  BY ZenonT(60), <1>1, <1>3, <1>4, SupplierIsNotAdmin

-----------------------------------------------------------------------------
(* The call of transferToken                                               *)

LEMMA NextCalls ==
    ASSUME TypeInv, TokenInv, \A r \in Requests : CallAt(r), [Next]_vars
    PROVE  \A r \in Requests : CallAt(r)'
<1>. USE DEF Before, After
<1>1. ASSUME NEW q \in Requests, pc'[q] \in {pc[q], "failed"}, delivery'[q] = delivery[q]
      PROVE  CallAt(q)'
      BY ZenonT(60), <1>1 DEF CallAt
<1>2. ASSUME NEW q \in Requests, Route[q] # "transferToken" PROVE CallAt(q)'
      BY ZenonT(60), <1>2 DEF CallAt
<1>3. ASSUME NEW r \in Requests, OnlyMoves(r), CallAt(r)', NEW q \in Requests PROVE CallAt(q)'
      BY ZenonT(60), <1>1, <1>3 DEF OnlyMoves
<1>4. ASSUME NEW r \in Requests,
             IssueMove(r) \/ InvoiceMove(r) \/ MakingMove(r) \/ PaymentMove(r)
      PROVE  OnlyMoves(r) /\ CallAt(r)'
      BY ZenonT(60), <1>2, <1>4, IssueFrame, InvoiceFrame, MakingFrame, PaymentFrame
         DEF RunsIn, TokenInv, RoutesOK, RouteAt
<1>5. ASSUME NEW r \in Requests, DeliveryMove(r) PROVE CallAt(r)'
  <2>1. delivery[r] \in Delivery /\ delivery \in [Requests -> Delivery]
        BY StringTypes
  <2>2. Route[r] = "transferToken" /\ CallAt(r)
        BY ZenonT(60), <1>5, DeliveryFrame DEF RunsIn, TokenInv, RoutesOK, RouteAt
  <2>3. CASE FindRow(r)
    <3>1. pc[r] = "findRow" /\ pc'[r] = "userAccount"
          BY ZenonT(60), <2>3, StringTypes DEF FindRow, Step
    <3>2. delivery'[r].callFrom = delivery[r].callFrom
          BY ZenonT(60), <2>1, <2>3 DEF FindRow, Delivery
    <3>. QED  BY ZenonT(60), <2>2, <3>1, <3>2 DEF CallAt
  <2>4. ASSUME NEW from, NEW to, OwnerOf(r, from, to),
               <<from, to>> \in {<<"ownerOf", "gotOwner">>, <<"newOwnerOf", "gotNewOwner">>}
        PROVE  CallAt(r)'
    <3>1. pc[r] = from /\ pc'[r] \in {to, "failed"}
          BY ZenonT(60), <2>4, StringTypes DEF OwnerOf, Step
    <3>2. delivery'[r].callFrom = delivery[r].callFrom
          BY ZenonT(60), <2>1, <2>4 DEF OwnerOf, Delivery
    <3>3. \/ from = "ownerOf" /\ to = "gotOwner"
          \/ from = "newOwnerOf" /\ to = "gotNewOwner"
          BY <2>4
    <3>. QED  BY ZenonT(60), <2>2, <3>1, <3>2, <3>3 DEF CallAt
  <2>5. CASE GotOwner(r)
    <3>1. pc[r] = "gotOwner" /\ merchantAcct \in Accounts
          BY ZenonT(60), <2>5 DEF GotOwner, Step, TypeInv, LocalsOK, LocalsAt, MerchantLabels,
             UserLabels, DeliveryLabels
    <3>2. \/ pc'[r] = "transferFrom" /\ delivery'[r].callFrom = merchantAcct
          \/ pc'[r] = "ok"
          BY ZenonT(60), <2>1, <2>5, StringTypes DEF GotOwner, Step, Delivery
    <3>. QED  BY ZenonT(60), <3>1, <3>2 DEF CallAt
  <2>6. CASE UserAccount(r) \/ MerchantAccount(r)
    <3>1. /\ delivery' = delivery
          /\ \/ pc[r] = "userAccount" /\ pc'[r] = "merchantAccount"
             \/ pc[r] = "merchantAccount" /\ pc'[r] = "ownerOf"
          BY ZenonT(60), <2>6, StringTypes DEF UserAccount, MerchantAccount, Step
    <3>. QED  BY ZenonT(60), <2>2, <3>1 DEF CallAt
  <2>7. CASE TransferFrom(r) \/ GotNewOwner(r) \/ Delivered(r) \/ Completed(r)
    <3>1. /\ delivery' = delivery
          /\ pc[r] \in {"transferFrom", "gotNewOwner", "delivered", "completed"}
          /\ pc'[r] \in {"newOwnerOf", "delivered", "completed"} \cup Answered
          BY ZenonT(60), <2>7, StringTypes DEF TransferFrom, GotNewOwner, Delivered, Completed,
             Step, tokenRouteVars, Answered
    <3>. QED  BY ZenonT(60), <2>2, <3>1 DEF CallAt, Answered
  <2>. QED  BY ZenonT(60), <1>5, <2>3, <2>4, <2>5, <2>6, <2>7 DEF DeliveryMove, DeliveryStep
<1>6. ASSUME NEW r \in Requests, Send(r) PROVE OnlyMoves(r) /\ CallAt(r)'
  <2>1. ASSUME NEW t, NEW p, PostTransferToken(r, t, p), pc'[r] = "findRow" PROVE CallAt(r)'
    <3>1. delivery'[r].callFrom = delivery[r].callFrom
          BY ZenonT(60), <2>1, StringTypes DEF PostTransferToken, Delivery
    <3>. QED  BY ZenonT(60), <1>6, <2>1, <3>1, SendFrame DEF CallAt
  <2>. QED  BY ZenonT(60), <1>2, <1>6, <2>1, SendFrame, SendCases
<1>7. ASSUME Fault \/ UNCHANGED vars, NEW q \in Requests PROVE CallAt(q)'
  <2>1. pc'[q] \in {pc[q], "failed"} /\ delivery'[q] = delivery[q]
        BY ZenonT(60), <1>7, FaultFrame DEF vars, serverVars, tokenRouteVars
  <2>. QED  BY ZenonT(60), <1>1, <2>1
<1>. QED  BY ZenonT(60), <1>3, <1>4, <1>5, <1>6, <1>7, DeliveryFrame, StepCases

\* A request that has handed its token over had done so before, or does now.
LEMMA HandedBefore ==
    ASSUME TypeInv, TokenInv, \A r \in Requests : CallAt(r), [Next]_vars, NEW q \in Requests,
           HandedOver(q)'
    PROVE  /\ delivery'[q].tokenId = delivery[q].tokenId
           /\ \/ HandedOver(q)
              \/ OnlyMoves(q) /\ HandsOver(q, delivery[q].tokenId)
<1>1. /\ Route[q] = "transferToken"
      /\ delivery'[q].callFrom # Undefined
      /\ pc'[q] \in {"newOwnerOf", "gotNewOwner", "delivered", "completed", "ok"}
      BY ZenonT(60) DEF HandedOver
<1>2. ASSUME delivery'[q] = delivery[q], pc'[q] \in {pc[q], "failed"}
      PROVE  HandedOver(q)
      BY ZenonT(60), <1>1, <1>2 DEF HandedOver
<1>3. ASSUME IssueMove(q) \/ InvoiceMove(q) \/ MakingMove(q) \/ PaymentMove(q) PROVE FALSE
      BY ZenonT(60), <1>1, <1>3, IssueFrame, InvoiceFrame, MakingFrame, PaymentFrame
         DEF RunsIn, TokenInv, RoutesOK, RouteAt
<1>4. ASSUME Send(q) PROVE FALSE
      BY ZenonT(60), <1>1, <1>4, SendCases
<1>5. ASSUME NEW r \in Requests, r # q,
             \/ Send(r) \/ IssueMove(r) \/ InvoiceMove(r) \/ MakingMove(r) \/ DeliveryMove(r)
             \/ PaymentMove(r)
      PROVE  delivery'[q] = delivery[q] /\ pc'[q] \in {pc[q], "failed"}
  <2>1. OnlyMoves(r)
        BY ZenonT(60), <1>5, SendFrame, IssueFrame, InvoiceFrame, MakingFrame, DeliveryFrame,
           PaymentFrame
  <2>. QED  BY ZenonT(60), <1>5, <2>1 DEF OnlyMoves
<1>6. ASSUME Fault \/ UNCHANGED vars
      PROVE  delivery'[q] = delivery[q] /\ pc'[q] \in {pc[q], "failed"}
      BY ZenonT(60), <1>6, FaultFrame DEF vars, serverVars, tokenRouteVars
<1>7. ASSUME DeliveryMove(q)
      PROVE  /\ delivery'[q].tokenId = delivery[q].tokenId
             /\ HandedOver(q) \/ HandsOver(q, delivery[q].tokenId)
  <2>1. delivery'[q].tokenId = delivery[q].tokenId
        BY <1>7, DeliveryArgs
  <2>2. CASE pc'[q] = "newOwnerOf"
        BY ZenonT(60), <1>7, <2>1, <2>2, DeliveryOwners
  <2>3. CASE pc[q] \in {"newOwnerOf", "gotNewOwner", "delivered", "completed"}
    <3>1. delivery[q].callFrom \in Accounts
          BY ZenonT(60), <1>1, <2>3 DEF CallAt, After
    <3>2. Undefined \notin Accounts
          BY DEF Undefined, Accounts
    <3>. QED  BY ZenonT(60), <1>1, <2>1, <2>3, <3>1, <3>2 DEF HandedOver
  <2>4. CASE GotOwner(q)
    <3>1. pc[q] = "gotOwner" /\ pc'[q] = "ok" /\ delivery'[q] = delivery[q]
          BY ZenonT(60), <1>1, <2>4, StringTypes DEF GotOwner, Step
    <3>. QED  BY ZenonT(60), <1>1, <3>1 DEF CallAt, Before
  <2>5. \/ pc'[q] = "newOwnerOf" \/ GotOwner(q)
        \/ pc[q] \in {"newOwnerOf", "gotNewOwner", "delivered", "completed"}
        BY ZenonT(60), <1>1, <1>7, StringTypes DEF DeliveryMove, DeliveryStep, FindRow,
           UserAccount, MerchantAccount, OwnerOf, TransferFrom, GotNewOwner, Delivered,
           Completed, Step
  <2>. QED  BY ZenonT(60), <2>2, <2>3, <2>4, <2>5
<1>. QED  BY ZenonT(60), <1>2, <1>3, <1>4, <1>5, <1>6, <1>7, DeliveryFrame, StepCases

\* The same for a token that makeTokens has passed on.
LEMMA PassedBefore ==
    ASSUME TypeInv, RowsInv, TokenInv, [Next]_vars, NEW q \in Requests,
           Route[q] = "makeTokens", pc'[q] \in {"pendingDelivery", "recordToken", "ok"}
    PROVE  /\ making'[q].tokenId = making[q].tokenId
           /\ \/ pc[q] \in {"pendingDelivery", "recordToken", "ok"}
              \/ MakingMove(q) /\ HandsOut(q, making[q].tokenId)
<1>1. making'[q].tokenId = making[q].tokenId
      BY ZenonT(60), MintedBefore DEF HasMinted, HasStored, HasRead, Begun, MakingLabels
<1>2. ASSUME IssueMove(q) \/ InvoiceMove(q) \/ DeliveryMove(q) \/ PaymentMove(q) PROVE FALSE
      BY ZenonT(60), <1>2, IssueFrame, InvoiceFrame, DeliveryFrame, PaymentFrame
         DEF RunsIn, TokenInv, RoutesOK, RouteAt
<1>3. ASSUME Send(q) PROVE FALSE
      BY ZenonT(60), <1>3, SendCases
<1>4. ASSUME NEW r \in Requests, r # q,
             \/ Send(r) \/ IssueMove(r) \/ InvoiceMove(r) \/ MakingMove(r) \/ DeliveryMove(r)
             \/ PaymentMove(r)
      PROVE  pc'[q] = pc[q]
  <2>1. OnlyMoves(r)
        BY ZenonT(60), <1>4, SendFrame, IssueFrame, InvoiceFrame, MakingFrame, DeliveryFrame,
           PaymentFrame
  <2>. QED  BY ZenonT(60), <1>4, <2>1 DEF OnlyMoves
<1>5. ASSUME Fault \/ UNCHANGED vars PROVE pc'[q] = pc[q]
      BY ZenonT(60), <1>5, FaultFrame DEF vars, serverVars
<1>6. ASSUME MakingMove(q)
      PROVE  \/ pc[q] \in {"pendingDelivery", "recordToken", "ok"}
             \/ HandsOut(q, making[q].tokenId)
  <2>1. pc'[q] = "pendingDelivery" \/ pc[q] \in {"pendingDelivery", "recordToken"}
        BY ZenonT(60), <1>6, StringTypes DEF MakingMove, MakingStep, ReadInvoice,
           StoreMetadata, MintToken, FromAccount, ToAccount, ToSupplier, PendingDelivery,
           RecordToken, Step
  <2>. QED  BY ZenonT(60), <1>6, <2>1, MakingOwners
<1>. QED  BY ZenonT(60), <1>1, <1>2, <1>3, <1>4, <1>5, <1>6, StepCases

LEMMA NextHolders ==
    ASSUME TypeInv, RowsInv, TokenInv, HandoverInv, RolesApart, [Next]_vars,
           NEW q \in Requests
    PROVE  HoldersAt(q)'
<1>. USE DEF HandoverInv
<1>1. ASSUME Route[q] = "makeTokens", pc'[q] \in {"pendingDelivery", "recordToken", "ok"}
      PROVE  owner'[making'[q].tokenId] # ADMIN
  <2>. DEFINE t == making[q].tokenId
  <2>1. making'[q].tokenId = t
        BY ZenonT(60), <1>1, PassedBefore
  <2>2. CASE pc[q] \in {"pendingDelivery", "recordToken", "ok"}
    <3>1. owner[t] # ADMIN
          BY ZenonT(60), <1>1, <2>2 DEF HoldersAt
    <3>2. t \in DOMAIN owner
          BY ZenonT(60), <1>1, <2>2 DEF TokenInv, MakingsHold, MakingHolds, HasMinted,
             HasStored, HasRead, Begun, MakingLabels
    <3>. QED  BY ZenonT(60), <2>1, <3>1, <3>2, HoldersStay
  <2>3. CASE MakingMove(q) /\ HandsOut(q, making[q].tokenId)
        BY ZenonT(60), <2>1, <2>3, HandedOutLeaves
  <2>. QED  BY ZenonT(60), <1>1, <2>2, <2>3, PassedBefore
<1>2. ASSUME HandedOver(q)'
      PROVE  /\ delivery'[q].tokenId \in DOMAIN owner'
             /\ owner'[delivery'[q].tokenId] \in Payers
  <2>. DEFINE t == delivery[q].tokenId
  <2>1. delivery'[q].tokenId = t
        BY ZenonT(60), <1>2, HandedBefore
  <2>2. CASE HandedOver(q)
    <3>1. t \in DOMAIN owner /\ owner[t] \in Payers
          BY ZenonT(60), <2>2 DEF HoldersAt
    <3>. QED  BY ZenonT(60), <2>1, <3>1, HoldersStay
  <2>3. CASE HandsOver(q, t)
    <3>1. t \in DOMAIN owner /\ owner'[t] \in Payers
          BY ZenonT(60), <2>3 DEF HandsOver, TokenInv, PartiesOK, PartiesAt
    <3>. QED  BY ZenonT(60), <2>1, <3>1, HoldersStay
  <2>. QED  BY ZenonT(60), <1>2, <2>2, <2>3, HandedBefore
<1>. QED  BY ZenonT(60), <1>1, <1>2 DEF HoldersAt

\* A token that a payer holds cannot be handed over again.
LEMMA NextOnce ==
    ASSUME TypeInv, RowsInv, TokenInv, HandoverInv, RolesApart, [Next]_vars
    PROVE  DeliveredOnce'
<1>. USE DEF HandoverInv
<1>. SUFFICES ASSUME NEW r \in Requests, NEW s \in Requests, HandedOver(r)', HandedOver(s)',
                     delivery'[r].tokenId = delivery'[s].tokenId
              PROVE  r = s
     BY ZenonT(60) DEF DeliveredOnce
<1>1. /\ delivery'[r].tokenId = delivery[r].tokenId
      /\ HandedOver(r) \/ (OnlyMoves(r) /\ HandsOver(r, delivery[r].tokenId))
      BY ZenonT(60), HandedBefore
<1>2. /\ delivery'[s].tokenId = delivery[s].tokenId
      /\ HandedOver(s) \/ (OnlyMoves(s) /\ HandsOver(s, delivery[s].tokenId))
      BY ZenonT(60), HandedBefore
<1>3. ASSUME NEW q \in Requests, NEW t, HandsOver(q, t) PROVE owner[t] \notin Payers
  <2>1. /\ owner[t] \in Accounts /\ owner[t] = delivery[q].callFrom
        BY ZenonT(60), <1>3 DEF HandsOver, TypeInv, TypeOK, ItemTokenTypeOK
  <2>2. delivery[q].callFrom \in Payees \cup {Undefined} /\ Undefined \notin Accounts
    <3>1. Undefined \notin Accounts
          BY DEF Undefined, Accounts
    <3>. QED  BY ZenonT(60), <3>1 DEF TokenInv, PartiesOK, PartiesAt
  <2>. QED  BY ZenonT(60), <2>1, <2>2 DEF RolesApart
<1>4. ASSUME NEW q \in Requests, HandedOver(q) PROVE owner[delivery[q].tokenId] \in Payers
      BY ZenonT(60), <1>4 DEF HoldersAt
<1>5. CASE HandedOver(r) /\ HandedOver(s)
      BY ZenonT(60), <1>1, <1>2, <1>5 DEF DeliveredOnce
<1>6. CASE HandsOver(r, delivery[r].tokenId) /\ HandsOver(s, delivery[s].tokenId)
      /\ OnlyMoves(r)
      BY ZenonT(60), <1>6 DEF HandsOver, OnlyMoves
<1>. QED  BY ZenonT(60), <1>1, <1>2, <1>3, <1>4, <1>5, <1>6

LEMMA NextBacked ==
    ASSUME TypeInv, RowsInv, TokenInv, DeliveryInv, HandoverInv, RolesApart, [Next]_vars
    PROVE  StatusBackedByToken'
<1>. USE DEF HandoverInv
<1>1. ASSUME NEW t \in DOMAIN owner
      PROVE  /\ t \in DOMAIN owner' /\ OrderOf(t)' = OrderOf(t)
             /\ owner[t] # ADMIN => owner'[t] # ADMIN
             /\ owner[t] \in Payers => owner'[t] \in Payers
      BY ZenonT(60), <1>1, OrderStays, HoldersStay
<1>2. ASSUME NEW p \in Ids, pos'[p].status = pos[p].status
      PROVE  /\ pos'[p].status = "PENDING DELIVERY" =>
                  \E t \in DOMAIN owner' : OrderOf(t)' = p /\ owner'[t] # ADMIN
             /\ pos'[p].status = "DELIVERED" =>
                  \E t \in DOMAIN owner' : OrderOf(t)' = p /\ owner'[t] \in Payers
      BY ZenonT(60), <1>1, <1>2 DEF StatusBackedByToken
<1>3. ASSUME NEW p \in Ids, NEW r \in Requests, pc[r] = "pendingDelivery",
             p = making[r].invoice.poId
      PROVE  \E t \in DOMAIN owner' : OrderOf(t)' = p /\ owner'[t] # ADMIN
  <2>1. /\ making[r].tokenId \in DOMAIN owner
        /\ OrderOf(making[r].tokenId) = p
        /\ Route[r] = "makeTokens"
        BY ZenonT(60), <1>3, PendingToken
  <2>2. owner[making[r].tokenId] # ADMIN
        BY ZenonT(60), <1>3, <2>1 DEF HoldersAt
  <2>. QED  BY ZenonT(60), <1>1, <2>1, <2>2
<1>4. ASSUME NEW p \in Ids, NEW r \in Requests, pc[r] = "delivered", p = delivery[r].po_id
      PROVE  \E t \in DOMAIN owner' : OrderOf(t)' = p /\ owner'[t] \in Payers
  <2>1. /\ delivery[r].tokenId \in DOMAIN owner
        /\ OrderOf(delivery[r].tokenId) = p
        BY ZenonT(60), <1>4 DEF DeliveryInv, DeliveriesMatch, MatchedAt, DeliveryLabels
  <2>2. HandedOver(r)
    <3>1. Route[r] = "transferToken"
          BY ZenonT(60), <1>4 DEF TokenInv, RoutesOK, RouteAt, DeliveryLabels
    <3>2. delivery[r].callFrom \in Accounts
          BY ZenonT(60), <1>4, <3>1 DEF CallAt, After
    <3>3. Undefined \notin Accounts
          BY DEF Undefined, Accounts
    <3>. QED  BY ZenonT(60), <1>4, <3>1, <3>2, <3>3 DEF HandedOver
  <2>3. owner[delivery[r].tokenId] \in Payers
        BY ZenonT(60), <2>2 DEF HoldersAt
  <2>. QED  BY ZenonT(60), <1>1, <2>1, <2>3
<1>5. ASSUME NEW p \in Ids
      PROVE  /\ pos'[p].status = "PENDING DELIVERY" =>
                  \E t \in DOMAIN owner' : OrderOf(t)' = p /\ owner'[t] # ADMIN
             /\ pos'[p].status = "DELIVERED" =>
                  \E t \in DOMAIN owner' : OrderOf(t)' = p /\ owner'[t] \in Payers
      BY ZenonT(60), <1>2, <1>3, <1>4, StepStatus
<1>. QED  BY ZenonT(60), <1>5 DEF StatusBackedByToken

LEMMA InitHandover == Init => HandoverInv
<1>. SUFFICES ASSUME Init PROVE HandoverInv
     OBVIOUS
<1>1. \A r \in Requests : pc[r] = "idle" /\ delivery[r].callFrom = Undefined
      BY DEF Init, ServerInit, TokenRoutesInit, NoDelivery
<1>2. \A r \in Requests : CallAt(r) /\ HoldersAt(r) /\ ~HandedOver(r)
      BY ZenonT(60), <1>1 DEF CallAt, HoldersAt, HandedOver, After
<1>3. \A p \in Ids : pos[p].status \notin {"PENDING DELIVERY", "DELIVERED"}
      BY ZenonT(60) DEF Init, ProcurementInit, EmptyPO
<1>4. StatusBackedByToken
      BY ZenonT(60), <1>3 DEF StatusBackedByToken
<1>. QED  BY ZenonT(60), <1>2, <1>4 DEF HandoverInv, DeliveredOnce

LEMMA NextHandover ==
    ASSUME RolesApart
    PROVE  TypeInv /\ RowsInv /\ TokenInv /\ DeliveryInv /\ HandoverInv /\ [Next]_vars
             => HandoverInv'
<1>. SUFFICES ASSUME TypeInv, RowsInv, TokenInv, DeliveryInv, HandoverInv, [Next]_vars
              PROVE  HandoverInv'
     OBVIOUS
<1>1. \A r \in Requests : CallAt(r)'
      BY ZenonT(60), NextCalls DEF HandoverInv
<1>. QED  BY ZenonT(60), <1>1, NextHolders, NextOnce, NextBacked DEF HandoverInv

\* Where an account that pays is never paid and ADMIN does not trade, an order
\* is PENDING DELIVERY only with a token of that order that left ADMIN, and
\* DELIVERED only with a token of that order in the hands of a payer, whatever
\* requests overlap, fail or crash.
THEOREM OrderStatusIsBacked == ASSUME RolesApart PROVE Spec => []StatusBackedByToken
<1>1. HandoverInv => StatusBackedByToken
      BY ZenonT(60) DEF HandoverInv
<1>. QED  BY InitType, NextType, InitRows, NextRows, InitTokens, NextTokens, InitDelivery,
             NextDelivery, InitHandover, NextHandover, <1>1, PTL DEF Spec

\* Under the same condition, however often and in whatever overlap one token is
\* scanned, at most one transferToken request moves it and reports the delivery.
THEOREM TokenIsDeliveredOnce == ASSUME RolesApart PROVE Spec => []DeliveredOnce
<1>1. HandoverInv => DeliveredOnce
      BY DEF HandoverInv
<1>. QED  BY InitType, NextType, InitRows, NextRows, InitTokens, NextTokens, InitDelivery,
             NextDelivery, InitHandover, NextHandover, <1>1, PTL DEF Spec
=============================================================================
