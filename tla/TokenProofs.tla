---------------------------- MODULE TokenProofs -----------------------------
(*****************************************************************************)
(* What one step of the back end can do to each part of the state (which     *)
(* request moves, along which labels, and which variables stay), and from    *)
(* it, for every workload and every value of the bounds: a token is made     *)
(* once for an invoice, stands for that invoice, and only the supplier and   *)
(* the payers ever hold it.                                                  *)
(*****************************************************************************)
EXTENDS RowsProofs

-----------------------------------------------------------------------------
(* Who moves                                                               *)

IssueLabels == {"createPO", "saveRow"}
InvoiceLabels == {"readPO", "acknowledge", "createInvoice", "recordInvoice"}

\* Only the handler of r runs.
OnlyMoves(r) ==
    \A q \in Requests \ {r} :
        /\ pc'[q] = pc[q]
        /\ purchase'[q] = purchase[q]
        /\ making'[q] = making[q]
        /\ delivery'[q] = delivery[q]
        /\ payment'[q] = payment[q]

\* The handler of r, under way in one route, runs on in it or answers.
RunsIn(r, labels) == pc[r] \in labels /\ pc'[r] \in labels \cup Answered

\* The steps of the five routes, with all they leave alone.
IssueMove(r) ==
    /\ CreatePO(r) \/ SaveRow(r)
    /\ UNCHANGED <<itemTokenVars, coinVars, tokenRouteVars, payment, faults>>

InvoiceMove(r) ==
    /\ ReadPO(r) \/ Acknowledge(r) \/ CreateInvoice(r) \/ RecordInvoice(r)
    /\ UNCHANGED <<itemTokenVars, coinVars, tokenRouteVars, payment, faults>>

MakingMove(r) == MakingStep(r) /\ UNCHANGED <<purchase, payment, faults>>
DeliveryMove(r) == DeliveryStep(r) /\ UNCHANGED <<purchase, payment, faults>>
PaymentMove(r) ==
    PaymentStep(r) /\ UNCHANGED <<itemTokenVars, rows, purchase, tokenRouteVars, faults>>

\* Every step is one of these.
LEMMA StepCases ==
    ASSUME [Next]_vars
    PROVE  \/ UNCHANGED vars
           \/ Fault
           \/ \E r \in Requests : \/ Send(r) /\ UNCHANGED faults
                                  \/ IssueMove(r)
                                  \/ InvoiceMove(r)
                                  \/ MakingMove(r)
                                  \/ DeliveryMove(r)
                                  \/ PaymentMove(r)
<1>1. ASSUME NEW r \in Requests, Handle(r), UNCHANGED faults
      PROVE  \/ IssueMove(r) \/ InvoiceMove(r) \/ MakingMove(r) \/ DeliveryMove(r)
             \/ PaymentMove(r)
  <2>1. CASE PurchaseStep(r) /\ UNCHANGED <<itemTokenVars, coinVars, tokenRouteVars, payment>>
        BY ZenonT(60), <1>1, <2>1 DEF PurchaseStep, IssueMove, InvoiceMove
  <2>2. CASE TokenStep(r) /\ UNCHANGED <<purchase, payment>>
        BY ZenonT(60), <1>1, <2>2 DEF TokenStep, MakingStep, DeliveryStep, MakingMove,
           DeliveryMove
  <2>3. CASE PaymentStep(r) /\ UNCHANGED <<itemTokenVars, rows, purchase, tokenRouteVars>>
        BY ZenonT(60), <1>1, <2>3 DEF PaymentMove
  <2>. QED  BY ZenonT(60), <1>1, <2>1, <2>2, <2>3 DEF Handle
<1>. QED  BY ZenonT(60), <1>1 DEF Next, Waiting

LEMMA StringTypes ==
    ASSUME TypeInv
    PROVE  /\ pc \in [Requests -> {"idle"} \cup Awaiting \cup Answered]
           /\ purchase \in [Requests -> Purchase]
           /\ making \in [Requests -> Making]
           /\ delivery \in [Requests -> Delivery]
           /\ payment \in [Requests -> Payment]
BY ZenonT(60) DEF TypeInv, TypeOK, ServerTypeOK, PurchaseTypeOK, TokenRoutesTypeOK, PaymentTypeOK

LEMMA IssueFrame ==
    ASSUME TypeInv, NEW r \in Requests, IssueMove(r)
    PROVE  /\ OnlyMoves(r)
           /\ RunsIn(r, IssueLabels)
           /\ UNCHANGED <<globals, owner, swarm, balance, nonce, making, delivery, payment,
                          faults, invoices, invoiceArray>>
<1>1. UNCHANGED <<globals, owner, swarm, balance, nonce, making, delivery, payment,
                  faults, invoices, invoiceArray>>
      BY ZenonT(60) DEF IssueMove, CreatePO, SaveRow, itemTokenVars, coinVars, tokenRouteVars,
         issuePO, procurementVars
<1>2. RunsIn(r, IssueLabels)
      BY ZenonT(60), StringTypes DEF IssueMove, CreatePO, SaveRow, NextLine, Step, RunsIn,
         IssueLabels, Answered
<1>3. \A q \in Requests \ {r} : pc'[q] = pc[q] /\ purchase'[q] = purchase[q]
      BY ZenonT(60), StringTypes DEF IssueMove, CreatePO, SaveRow, NextLine, Step
<1>. QED  BY ZenonT(60), <1>1, <1>2, <1>3 DEF OnlyMoves

LEMMA InvoiceFrame ==
    ASSUME TypeInv, NEW r \in Requests, InvoiceMove(r)
    PROVE  /\ OnlyMoves(r)
           /\ RunsIn(r, InvoiceLabels)
           /\ UNCHANGED <<globals, owner, swarm, balance, nonce, making, delivery, payment,
                          faults, poArray>>
<1>1. UNCHANGED <<globals, owner, swarm, balance, nonce, making, delivery, payment, faults,
                  poArray>>
      BY ZenonT(60) DEF InvoiceMove, ReadPO, Acknowledge, CreateInvoice, RecordInvoice,
         itemTokenVars, coinVars, tokenRouteVars, updatePOStatus, issueInvoice, procurementVars
<1>2. RunsIn(r, InvoiceLabels)
      BY ZenonT(60), StringTypes DEF InvoiceMove, ReadPO, Acknowledge, CreateInvoice,
         RecordInvoice, Step, RunsIn, InvoiceLabels, Answered
<1>3. \A q \in Requests \ {r} : pc'[q] = pc[q] /\ purchase'[q] = purchase[q]
      BY ZenonT(60), StringTypes DEF InvoiceMove, ReadPO, Acknowledge, CreateInvoice,
         RecordInvoice, Step
<1>. QED  BY ZenonT(60), <1>1, <1>2, <1>3 DEF OnlyMoves

LEMMA MakingFrame ==
    ASSUME TypeInv, NEW r \in Requests, MakingMove(r)
    PROVE  /\ OnlyMoves(r)
           /\ RunsIn(r, MakingLabels)
           /\ UNCHANGED <<nextId, userAcc, merchantAcct, balance, nonce, purchase, delivery,
                          payment, faults, invoices, invoiceArray, poArray>>
<1>. USE DEF MakingMove, MakingStep, ReadInvoice, StoreMetadata, MintToken, FromAccount,
             ToAccount, ToSupplier, PendingDelivery, RecordToken
<1>1. UNCHANGED <<nextId, userAcc, merchantAcct, balance, nonce, purchase, delivery,
                  payment, faults, invoices, invoiceArray, poArray>>
      BY ZenonT(60) DEF globals, coinVars, tokenRouteVars, updatePOStatus, procurementVars
<1>2. RunsIn(r, MakingLabels)
      BY ZenonT(60), StringTypes DEF Step, RunsIn, MakingLabels, Answered
<1>3. \A q \in Requests \ {r} : pc'[q] = pc[q] /\ making'[q] = making[q]
      BY ZenonT(60), StringTypes DEF Step
<1>. QED  BY ZenonT(60), <1>1, <1>2, <1>3 DEF OnlyMoves

LEMMA DeliveryFrame ==
    ASSUME TypeInv, NEW r \in Requests, DeliveryMove(r)
    PROVE  /\ OnlyMoves(r)
           /\ RunsIn(r, DeliveryLabels)
           /\ UNCHANGED <<nextId, fromAddress, toAddress, balance, swarm, purchase, making,
                          payment, faults, rows, invoices, invoiceArray, poArray>>
<1>. USE DEF DeliveryMove, DeliveryStep, FindRow, UserAccount, MerchantAccount, OwnerOf,
             GotOwner, TransferFrom, GotNewOwner, Delivered, Completed
<1>1. UNCHANGED <<nextId, fromAddress, toAddress, balance, swarm, purchase, making,
                  payment, faults, rows, invoices, invoiceArray, poArray>>
      BY ZenonT(60) DEF globals, coinVars, tokenRouteVars, itemTokenVars, transferFrom,
         updatePOStatus, procurementVars
<1>2. RunsIn(r, DeliveryLabels)
      BY ZenonT(60), StringTypes DEF Step, RunsIn, DeliveryLabels, Answered
<1>3. \A q \in Requests \ {r} : pc'[q] = pc[q] /\ delivery'[q] = delivery[q]
      BY ZenonT(60), StringTypes DEF Step, tokenRouteVars
<1>. QED  BY ZenonT(60), <1>1, <1>2, <1>3 DEF OnlyMoves

LEMMA PaymentFrame ==
    ASSUME TypeInv, NEW r \in Requests, PaymentMove(r)
    PROVE  /\ OnlyMoves(r)
           /\ RunsIn(r, PaymentLabels)
           /\ UNCHANGED <<nextId, fromAddress, toAddress, owner, swarm, rows, purchase, making,
                          delivery, faults, pos, poArray, invoiceArray>>
<1>. USE DEF PaymentMove, PaymentStep, PayInvoice, PayerAccount, PayeeAccount, PayerBalance,
             GotPayerBalance, PayeeBalance, GotPayeeBalance, TopUp, ToppedUp, TxCount,
             SendTx, Sent, NewBalance, Paid
<1>1. UNCHANGED <<nextId, fromAddress, toAddress, owner, swarm, rows, purchase, making,
                  delivery, faults, pos, poArray, invoiceArray>>
      BY ZenonT(60) DEF globals, chainVars, coinVars, tokenRouteVars, itemTokenVars,
         updateInvoiceStatus, procurementVars
<1>2. RunsIn(r, PaymentLabels)
      BY ZenonT(60), StringTypes DEF Step, RunsIn, PaymentLabels, Answered
<1>3. \A q \in Requests \ {r} : pc'[q] = pc[q] /\ payment'[q] = payment[q]
      BY ZenonT(60), StringTypes DEF Step
<1>. QED  BY ZenonT(60), <1>1, <1>2, <1>3 DEF OnlyMoves

\* A request arrives: its handler starts, and nothing is written yet.
LEMMA SendFrame ==
    ASSUME TypeInv, NEW r \in Requests, Send(r)
    PROVE  /\ OnlyMoves(r)
           /\ pc[r] = "idle"
           /\ UNCHANGED <<globals, owner, swarm, rows, balance, nonce, pos, invoices, poArray,
                          invoiceArray>>
<1>. USE DEF Send, PurchaseRequest, PostPurchaseOrder, PostInvoice, TokenRequest,
             PostMakeTokens, PostTransferToken, PaymentRequest, PostPaySupplier, Arrive, Step,
             NextLine
<1>1. UNCHANGED <<globals, owner, swarm, rows, balance, nonce, pos, invoices, poArray,
                  invoiceArray>>
      BY ZenonT(60) DEF itemTokenVars, coinVars, chainVars, procurementVars
<1>2. pc[r] = "idle" /\ \A q \in Requests \ {r} : pc'[q] = pc[q]
      BY ZenonT(60), StringTypes
<1>3. \A q \in Requests \ {r} : purchase'[q] = purchase[q] /\ making'[q] = making[q]
      BY ZenonT(60), StringTypes DEF tokenRouteVars
<1>4. \A q \in Requests \ {r} : delivery'[q] = delivery[q] /\ payment'[q] = payment[q]
      BY ZenonT(60), StringTypes DEF tokenRouteVars
<1>. QED  BY ZenonT(60), <1>1, <1>2, <1>3, <1>4 DEF OnlyMoves

\* What the request that arrives does to the variables of its own handler.
LEMMA SendCases ==
    ASSUME TypeInv, NEW r \in Requests, Send(r)
    PROVE  \/ /\ Route[r] = "purchase-order"
              /\ pc'[r] \in {"createPO"} \cup Answered
              /\ UNCHANGED <<making, delivery, payment>>
           \/ \E poId \in KnownPOs \cup {0}, itemPrice \in Prices :
              /\ PostInvoice(r, poId, itemPrice)
              /\ Route[r] = "invoice"
              /\ pc'[r] = "readPO"
              /\ UNCHANGED <<nextId, making, delivery, payment>>
           \/ \E invoiceId \in KnownInvoices \cup {0} :
              /\ PostMakeTokens(r, invoiceId)
              /\ Route[r] = "makeTokens"
              /\ pc'[r] = "readInvoice"
              /\ UNCHANGED <<nextId, purchase, delivery, payment>>
           \/ \E t \in DOMAIN owner, parties \in TransferParties :
              /\ PostTransferToken(r, t, parties)
              /\ Route[r] = "transferToken"
              /\ pc'[r] = "findRow"
              /\ UNCHANGED <<nextId, purchase, making, payment>>
           \/ \E invoiceId \in KnownInvoices \cup {0}, parties \in PaymentParties :
              /\ PostPaySupplier(r, invoiceId, parties)
              /\ Route[r] = "paySupplier"
              /\ pc'[r] = "payInvoice"
              /\ UNCHANGED <<nextId, purchase, making, delivery>>
<1>1. ASSUME NEW body, PostPurchaseOrder(r, body), UNCHANGED <<tokenRouteVars, payment>>
      PROVE  /\ Route[r] = "purchase-order"
             /\ pc'[r] \in {"createPO"} \cup Answered
             /\ UNCHANGED <<making, delivery, payment>>
      BY ZenonT(60), <1>1, StringTypes DEF PostPurchaseOrder, NextLine, Step, Answered,
         tokenRouteVars
<1>2. ASSUME NEW poId, NEW itemPrice, PostInvoice(r, poId, itemPrice),
             UNCHANGED <<tokenRouteVars, payment>>
      PROVE  /\ Route[r] = "invoice" /\ pc'[r] = "readPO"
             /\ UNCHANGED <<nextId, making, delivery, payment>>
      BY ZenonT(60), <1>2, StringTypes DEF PostInvoice, Arrive, tokenRouteVars
<1>3. ASSUME NEW invoiceId, PostMakeTokens(r, invoiceId), UNCHANGED <<purchase, payment>>
      PROVE  /\ Route[r] = "makeTokens" /\ pc'[r] = "readInvoice"
             /\ UNCHANGED <<nextId, purchase, delivery, payment>>
      BY ZenonT(60), <1>3, StringTypes DEF PostMakeTokens, Arrive
<1>4. ASSUME NEW t, NEW parties, PostTransferToken(r, t, parties),
             UNCHANGED <<purchase, payment>>
      PROVE  /\ Route[r] = "transferToken" /\ pc'[r] = "findRow"
             /\ UNCHANGED <<nextId, purchase, making, payment>>
      BY ZenonT(60), <1>4, StringTypes DEF PostTransferToken, Arrive
<1>5. ASSUME NEW invoiceId, NEW parties, PostPaySupplier(r, invoiceId, parties),
             UNCHANGED <<purchase, tokenRouteVars>>
      PROVE  /\ Route[r] = "paySupplier" /\ pc'[r] = "payInvoice"
             /\ UNCHANGED <<nextId, purchase, making, delivery>>
      BY ZenonT(60), <1>5, StringTypes DEF PostPaySupplier, Arrive, tokenRouteVars
<1>. QED  BY ZenonT(60), <1>1, <1>2, <1>3, <1>4, <1>5 DEF Send, PurchaseRequest, TokenRequest,
             PaymentRequest

\* A failed call or a crash ends handlers and may unset the globals.
LEMMA FaultFrame ==
    ASSUME TypeInv, Fault
    PROVE  /\ \A q \in Requests : pc'[q] = pc[q] \/ (pc[q] \in Awaiting /\ pc'[q] = "failed")
           /\ userAcc' \in {userAcc, Undefined} /\ merchantAcct' \in {merchantAcct, Undefined}
           /\ UNCHANGED <<nextId, pos, invoices, poArray, invoiceArray, owner, swarm, rows,
                          balance, nonce, purchase, making, delivery, payment>>
           /\ faults < MaxFaults /\ faults' = faults + 1
<1>1. \A q \in Requests : pc'[q] = pc[q] \/ (pc[q] \in Awaiting /\ pc'[q] = "failed")
      BY ZenonT(60), StringTypes DEF Fault, CallFails, Crash, InFlight
<1>2. userAcc' \in {userAcc, Undefined} /\ merchantAcct' \in {merchantAcct, Undefined}
      BY ZenonT(60) DEF Fault, CallFails, Crash, globals
<1>3. UNCHANGED <<nextId, pos, invoices, poArray, invoiceArray, owner, swarm, rows,
                  balance, nonce, purchase, making, delivery, payment>>
      BY ZenonT(60) DEF Fault, CallFails, Crash, procurementVars, itemTokenVars, coinVars,
         tokenRouteVars
<1>4. faults < MaxFaults /\ faults' = faults + 1
      BY ZenonT(60) DEF Fault, CallFails, Crash
<1>. QED  BY <1>1, <1>2, <1>3, <1>4

\* A request that was answered is over.
LEMMA AnsweredStays ==
    ASSUME TypeInv, [Next]_vars, NEW q \in Requests, pc[q] \in Answered
    PROVE  /\ pc'[q] = pc[q]
           /\ purchase'[q] = purchase[q] /\ making'[q] = making[q]
           /\ delivery'[q] = delivery[q] /\ payment'[q] = payment[q]
<1>1. /\ pc[q] # "idle" /\ pc[q] \notin Awaiting
      /\ pc[q] \notin IssueLabels /\ pc[q] \notin InvoiceLabels /\ pc[q] \notin MakingLabels
      /\ pc[q] \notin DeliveryLabels /\ pc[q] \notin PaymentLabels
      BY ZenonT(60) DEF Answered, Awaiting, IssueLabels, InvoiceLabels, MakingLabels,
         DeliveryLabels, PaymentLabels
<1>2. CASE Fault \/ UNCHANGED vars
      BY ZenonT(60), <1>1, <1>2, FaultFrame DEF vars, serverVars, tokenRouteVars
<1>3. ASSUME NEW r \in Requests, OnlyMoves(r), r # q
      PROVE  /\ pc'[q] = pc[q]
             /\ purchase'[q] = purchase[q] /\ making'[q] = making[q]
             /\ delivery'[q] = delivery[q] /\ payment'[q] = payment[q]
      BY ZenonT(60), <1>3 DEF OnlyMoves
<1>4. ASSUME NEW r \in Requests,
             \/ Send(r) \/ IssueMove(r) \/ InvoiceMove(r) \/ MakingMove(r) \/ DeliveryMove(r)
             \/ PaymentMove(r)
      PROVE  OnlyMoves(r) /\ r # q
      BY ZenonT(60), <1>1, <1>4, SendFrame, IssueFrame, InvoiceFrame, MakingFrame,
         DeliveryFrame, PaymentFrame DEF RunsIn
<1>. QED  BY ZenonT(60), <1>2, <1>3, <1>4, StepCases

-----------------------------------------------------------------------------
(* A request stays in its route                                            *)

RouteAt(r) ==
    /\ pc[r] \in IssueLabels => Route[r] = "purchase-order"
    /\ pc[r] \in InvoiceLabels => Route[r] = "invoice"
    /\ pc[r] \in MakingLabels => Route[r] = "makeTokens"
    /\ pc[r] \in DeliveryLabels => Route[r] = "transferToken"
    /\ pc[r] \in PaymentLabels => Route[r] = "paySupplier"

RoutesOK == \A r \in Requests : RouteAt(r)

LEMMA InitRoutes == Init => RoutesOK
BY ZenonT(60) DEF Init, ServerInit, RoutesOK, RouteAt, IssueLabels, InvoiceLabels, MakingLabels,
   DeliveryLabels, PaymentLabels

LEMMA NextRoutes ==
    ASSUME TypeInv, RoutesOK, [Next]_vars
    PROVE  RoutesOK'
<1>. DEFINE Labels == {IssueLabels, InvoiceLabels, MakingLabels, DeliveryLabels, PaymentLabels}
<1>. USE DEF RoutesOK
<1>1. ASSUME NEW q \in Requests, RouteAt(q), pc'[q] \in {pc[q]} \cup Answered
      PROVE  RouteAt(q)'
      BY ZenonT(60), <1>1 DEF RouteAt, Answered, IssueLabels, InvoiceLabels, MakingLabels,
         DeliveryLabels, PaymentLabels
<1>2. ASSUME NEW r \in Requests, NEW labels \in Labels, OnlyMoves(r), RunsIn(r, labels)
      PROVE  RoutesOK'
  <2>1. RouteAt(r)'
        BY ZenonT(60), <1>2 DEF RunsIn, RouteAt, Answered, IssueLabels, InvoiceLabels,
           MakingLabels, DeliveryLabels, PaymentLabels
  <2>2. ASSUME NEW q \in Requests, q # r PROVE RouteAt(q)'
        BY ZenonT(60), <1>1, <1>2, <2>2 DEF OnlyMoves
  <2>. QED  BY ZenonT(60), <2>1, <2>2
<1>3. ASSUME NEW r \in Requests, Send(r) PROVE RoutesOK'
  <2>1. RouteAt(r)'
        BY ZenonT(60), <1>3, SendCases DEF RouteAt, Answered, IssueLabels, InvoiceLabels,
           MakingLabels, DeliveryLabels, PaymentLabels
  <2>2. ASSUME NEW q \in Requests, q # r PROVE RouteAt(q)'
        BY ZenonT(60), <1>1, <1>3, <2>2, SendFrame DEF OnlyMoves
  <2>. QED  BY ZenonT(60), <2>1, <2>2
<1>4. ASSUME Fault PROVE RoutesOK'
      BY ZenonT(60), <1>1, <1>4, FaultFrame DEF Answered
<1>5. ASSUME UNCHANGED vars PROVE RoutesOK'
      BY ZenonT(60), <1>5 DEF vars, serverVars, RouteAt
<1>. QED  BY ZenonT(60), <1>2, <1>3, <1>4, <1>5, StepCases, IssueFrame, InvoiceFrame,
             MakingFrame, DeliveryFrame, PaymentFrame

-----------------------------------------------------------------------------
(* What is issued stays                                                    *)

\* The invoice under id i keeps everything but its status.
InvoiceStays(i) ==
    /\ invoices'[i].poId = invoices[i].poId
    /\ invoices'[i].supplierId = invoices[i].supplierId
    /\ invoices'[i].itemType = invoices[i].itemType
    /\ invoices'[i].price = invoices[i].price

LEMMA KnownIds ==
    ASSUME TypeInv, RowsInv
    PROVE  KnownPOs \subseteq Ids \ {0} /\ KnownInvoices \subseteq Ids \ {0} /\ 0 \in Ids
<1>1. nextId \in Nat /\ nextId <= MaxId + 1 /\ MaxId \in Nat
      BY BoundsAreNat DEF TypeInv, TypeOK, ServerTypeOK
<1>2. \A x \in 1..(nextId - 1) : x \in Ids \ {0}
      BY <1>1 DEF Ids
<1>3. KnownPOs \subseteq 1..(nextId - 1) /\ KnownInvoices \subseteq 1..(nextId - 1)
      BY ZenonT(60) DEF RowsInv, IdsOK
<1>4. 0 \in Ids
      BY <1>1 DEF Ids
<1>. QED  BY ZenonT(60), <1>2, <1>3, <1>4

LEMMA KeptIsIssued ==
    ASSUME TypeInv, RowsInv, ChainKept
    PROVE  IssuedStays /\ \A i \in KnownInvoices \cup {0} : InvoiceStays(i)
BY ZenonT(60), KnownIds, KnownKept DEF ChainKept, POsKept, InvoicesKept, IssuedStays, InvoiceStays

LEMMA StepIssued ==
    ASSUME TypeInv, RowsInv, [Next]_vars
    PROVE  IssuedStays /\ \A i \in KnownInvoices \cup {0} : InvoiceStays(i)
<1>1. ASSUME ChainKept
      PROVE  IssuedStays /\ \A i \in KnownInvoices \cup {0} : InvoiceStays(i)
      BY <1>1, KeptIsIssued
<1>2. ASSUME UNCHANGED <<pos, invoices, poArray, invoiceArray>> PROVE ChainKept
      BY <1>2, SameChain DEF procurementVars
<1>3. ASSUME NEW r \in Requests, Send(r) \/ SaveRow(r) \/ ReadPO(r) \/ RecordInvoice(r)
      PROVE  ChainKept
      BY ZenonT(60), <1>2, <1>3, SendFrame DEF SaveRow, ReadPO, RecordInvoice, procurementVars
<1>4. ASSUME NEW r \in Requests, CreatePO(r)
      PROVE  IssuedStays /\ \A i \in KnownInvoices \cup {0} : InvoiceStays(i)
  <2>1. /\ purchase[r].processId \in Ids
        /\ purchase[r].processId \notin KnownPOs
        BY ZenonT(60), <1>4, StringTypes DEF CreatePO, Step, RowsInv, IdsOK, Purchase
  <2>2. poArray \in Seq(Ids) /\ poArray' = Append(poArray, purchase[r].processId)
        BY <1>4 DEF CreatePO, issuePO, TypeInv, TypeOK, ProcurementTypeOK
  <2>3. {poArray'[i] : i \in DOMAIN poArray'}
          = {poArray[i] : i \in DOMAIN poArray} \cup {purchase[r].processId}
        BY <2>1, <2>2, IssuedIds
  <2>4. KnownPOs \subseteq KnownPOs'
        BY ZenonT(60), <2>3 DEF KnownPOs
  <2>5. UNCHANGED <<invoices, invoiceArray>>
        BY ZenonT(60), <1>4 DEF CreatePO, issuePO
  <2>6. \A p \in KnownPOs : pos'[p] = pos[p]
        BY ZenonT(60), <1>4, <2>1, KnownIds DEF CreatePO, issuePO, TypeInv, TypeOK,
           ProcurementTypeOK
  <2>. QED  BY ZenonT(60), <2>4, <2>5, <2>6 DEF IssuedStays, InvoiceStays, KnownInvoices
<1>5. ASSUME NEW r \in Requests, CreateInvoice(r)
      PROVE  IssuedStays /\ \A i \in KnownInvoices \cup {0} : InvoiceStays(i)
  <2>. DEFINE id == purchase[r].processId
  <2>1. /\ id \in Ids
        /\ id \notin KnownInvoices
        /\ id \in 1..(nextId - 1)
        BY ZenonT(60), <1>5, StringTypes DEF CreateInvoice, Step, RowsInv, IdsOK, Purchase
  <2>2. invoiceArray \in Seq(Ids) /\ invoiceArray' = Append(invoiceArray, id)
        BY <1>5 DEF CreateInvoice, issueInvoice, TypeInv, TypeOK, ProcurementTypeOK
  <2>3. {invoiceArray'[i] : i \in DOMAIN invoiceArray'}
          = {invoiceArray[i] : i \in DOMAIN invoiceArray} \cup {id}
        BY <2>1, <2>2, IssuedIds
  <2>4. KnownInvoices \subseteq KnownInvoices'
        BY ZenonT(60), <2>3 DEF KnownInvoices
  <2>5. UNCHANGED <<pos, poArray>>
        BY ZenonT(60), <1>5 DEF CreateInvoice, issueInvoice
  <2>6. id # 0
    <3>1. nextId \in Nat
          BY BoundsAreNat DEF TypeInv, TypeOK, ServerTypeOK
    <3>. HIDE DEF id
    <3>. QED  BY <2>1, <3>1
  <2>7. \A i \in KnownInvoices \cup {0} : invoices'[i] = invoices[i]
        BY ZenonT(60), <1>5, <2>1, <2>6, KnownIds DEF CreateInvoice, issueInvoice, TypeInv,
           TypeOK, ProcurementTypeOK
  <2>. QED  BY ZenonT(60), <2>4, <2>5, <2>7 DEF IssuedStays, InvoiceStays, KnownPOs
<1>6. ASSUME NEW r \in Requests, Acknowledge(r) PROVE ChainKept
      BY ZenonT(60), <1>6, StringTypes, StatusUpdate DEF Acknowledge, TypeInv, TypeOK, Purchase
<1>7. ASSUME NEW r \in Requests, MakingMove(r) PROVE ChainKept
  <2>1. CASE PendingDelivery(r)
    <3>1. making[r].invoice.poId \in Ids
          BY ZenonT(60), StringTypes DEF Making, Invoice
    <3>. QED  BY ZenonT(60), <2>1, <3>1, StatusUpdate DEF PendingDelivery, TypeInv, TypeOK
  <2>. QED  BY ZenonT(60), <1>2, <1>7, <2>1, SameChain DEF MakingMove, MakingStep, ReadInvoice,
               StoreMetadata, MintToken, FromAccount, ToAccount, ToSupplier, RecordToken
<1>8. ASSUME NEW r \in Requests, DeliveryMove(r) PROVE ChainKept
  <2>1. CASE Delivered(r) \/ Completed(r)
        BY ZenonT(60), <2>1, StringTypes, StatusUpdate DEF Delivered, Completed, TypeInv,
           TypeOK, Delivery
  <2>. QED  BY ZenonT(60), <1>8, <2>1, SameChain DEF DeliveryMove, DeliveryStep, FindRow,
               UserAccount, MerchantAccount, OwnerOf, GotOwner, TransferFrom, GotNewOwner
<1>9. ASSUME NEW r \in Requests, PaymentMove(r) PROVE ChainKept
  <2>1. CASE Paid(r)
        BY ZenonT(60), <2>1, StringTypes, StatusUpdate DEF Paid, TypeInv, TypeOK, Payment
  <2>. QED  BY ZenonT(60), <1>9, <2>1, SameChain DEF PaymentMove, PaymentStep, PayInvoice,
               PayerAccount, PayeeAccount, PayerBalance, GotPayerBalance, PayeeBalance,
               GotPayeeBalance, TopUp, ToppedUp, TxCount, SendTx, Sent, NewBalance, chainVars
<1>10. ASSUME Fault \/ UNCHANGED vars PROVE ChainKept
      BY ZenonT(60), <1>10, SameChain DEF Fault, vars
<1>. QED  BY ZenonT(60), <1>1, <1>3, <1>4, <1>5, <1>6, <1>7, <1>8, <1>9, <1>10, StepCases
             DEF IssueMove, InvoiceMove

\* What the Procurement contract lists stays listed and never changes but for
\* its status, whatever requests overlap and wherever a handler dies: the ids
\* that fnGetUniqueID hands out reach issuePO and issueInvoice once.
THEOREM IssuedRecordsAreFinal == Spec => IssuedIsFinal
<1>1. TypeInv /\ RowsInv /\ [Next]_vars => IssuedStays
      BY StepIssued
<1>. QED  BY InitType, NextType, InitRows, NextRows, <1>1, PTL DEF Spec, IssuedIsFinal

-----------------------------------------------------------------------------
(* A handler never changes the parameters of its request                   *)

LEMMA MakingArgs ==
    ASSUME TypeInv, NEW r \in Requests, MakingMove(r)
    PROVE  making'[r].invoiceId = making[r].invoiceId
<1>1. making[r] \in Making
      BY StringTypes
<1>. QED  BY ZenonT(60), <1>1, StringTypes DEF MakingMove, MakingStep, ReadInvoice,
             StoreMetadata, MintToken, FromAccount, ToAccount, ToSupplier, PendingDelivery,
             RecordToken, Making

LEMMA DeliveryArgs ==
    ASSUME TypeInv, NEW r \in Requests, DeliveryMove(r)
    PROVE  /\ delivery'[r].tokenId = delivery[r].tokenId
           /\ delivery'[r].from = delivery[r].from
           /\ delivery'[r].to = delivery[r].to
<1>1. delivery[r] \in Delivery
      BY StringTypes
<1>2. CASE FindRow(r)
      BY ZenonT(60), <1>1, <1>2, StringTypes DEF FindRow, Delivery
<1>3. CASE OwnerOf(r, "ownerOf", "gotOwner") \/ OwnerOf(r, "newOwnerOf", "gotNewOwner")
      BY ZenonT(60), <1>1, <1>3, StringTypes DEF OwnerOf, Delivery
<1>4. CASE GotOwner(r)
      BY ZenonT(60), <1>1, <1>4, StringTypes DEF GotOwner, Delivery
<1>. QED  BY ZenonT(60), <1>2, <1>3, <1>4 DEF DeliveryMove, DeliveryStep, UserAccount,
             MerchantAccount, TransferFrom, GotNewOwner, Delivered, Completed, tokenRouteVars

LEMMA PaymentArgs ==
    ASSUME TypeInv, NEW r \in Requests, PaymentMove(r)
    PROVE  /\ payment'[r].invoiceId = payment[r].invoiceId
           /\ payment'[r].fromId = payment[r].fromId
           /\ payment'[r].toId = payment[r].toId
<1>1. payment[r] \in Payment /\ payment \in [Requests -> Payment]
      BY StringTypes
<1>2. CASE PayInvoice(r)
      BY ZenonT(60), <1>1, <1>2 DEF PayInvoice, Payment
<1>3. CASE PayeeAccount(r) \/ GotPayeeBalance(r) \/ ToppedUp(r)
      BY ZenonT(60), <1>1, <1>3 DEF PayeeAccount, GotPayeeBalance, ToppedUp, Payment
<1>4. CASE PayerBalance(r) \/ PayeeBalance(r) \/ TxCount(r)
      BY ZenonT(60), <1>1, <1>4 DEF PayerBalance, PayeeBalance, TxCount, Payment
<1>5. CASE GotPayerBalance(r) \/ Sent(r)
      BY ZenonT(60), <1>1, <1>5 DEF GotPayerBalance, Sent, Payment
<1>6. CASE SendTx(r)
      BY ZenonT(60), <1>1, <1>6 DEF SendTx, Payment
<1>. QED  BY ZenonT(60), <1>2, <1>3, <1>4, <1>5, <1>6 DEF PaymentMove, PaymentStep,
             PayerAccount, TopUp, NewBalance, Paid

-----------------------------------------------------------------------------
(* How a token comes to its owner                                          *)

\* mint creates token t for ADMIN.
Mints(r, t) ==
    /\ pc[r] = "mint" /\ pc'[r] = "fromAccount"
    /\ t = making[r].tokenId
    /\ t \notin DOMAIN owner
    /\ owner'[t] = ADMIN

\* makeTokens passes t on from ADMIN to the supplier.
HandsOut(r, t) ==
    /\ pc[r] = "toSupplier" /\ pc'[r] = "pendingDelivery"
    /\ t = making[r].tokenId
    /\ t \in DOMAIN owner /\ owner[t] = ADMIN
    /\ owner'[t] = making[r].callTo

\* transferToken moves t from the account it took for the supplier's to the
\* account it took for the payer's.
HandsOver(r, t) ==
    /\ pc[r] = "transferFrom" /\ pc'[r] = "newOwnerOf"
    /\ t = delivery[r].tokenId
    /\ t \in DOMAIN owner /\ owner[t] = delivery[r].callFrom
    /\ owner'[t] = delivery[r].callTo /\ delivery[r].callTo # Undefined
    /\ UNCHANGED delivery

OwnerKept(t) == t \in DOMAIN owner /\ owner'[t] = owner[t]

LEMMA MakingOwners ==
    ASSUME TypeInv, NEW r \in Requests, MakingMove(r)
    PROVE  /\ DOMAIN owner \subseteq DOMAIN owner' /\ swarm \subseteq swarm'
           /\ \A t \in DOMAIN owner' : OwnerKept(t) \/ Mints(r, t) \/ HandsOut(r, t)
           /\ pc'[r] = "fromAccount" => Mints(r, making[r].tokenId)
           /\ pc'[r] = "pendingDelivery" => HandsOut(r, making[r].tokenId)
<1>1. CASE MintToken(r)
  <2>1. CASE CanMint(making[r].tokenId)
    <3>1. /\ owner' = [u \in DOMAIN owner \cup {making[r].tokenId} |->
                         IF u = making[r].tokenId THEN ADMIN ELSE owner[u]]
          /\ swarm' = swarm /\ pc[r] = "mint" /\ pc'[r] = "fromAccount"
          BY ZenonT(60), <1>1, <2>1, StringTypes DEF MintToken, mint, Step
    <3>. QED  BY ZenonT(60), <2>1, <3>1 DEF CanMint, OwnerKept, Mints
  <2>2. CASE ~CanMint(making[r].tokenId)
    <3>1. UNCHANGED <<owner, swarm>> /\ pc'[r] = "failed"
          BY ZenonT(60), <1>1, <2>2, StringTypes DEF MintToken, Step, itemTokenVars
    <3>. QED  BY ZenonT(60), <3>1 DEF OwnerKept
  <2>. QED  BY <2>1, <2>2
<1>2. CASE ToSupplier(r)
  <2>. DEFINE t == making[r].tokenId
  <2>1. CASE CanTransfer(ADMIN, ADMIN, making[r].callTo, t)
    <3>1. /\ owner' = [owner EXCEPT ![t] = making[r].callTo]
          /\ swarm' = swarm /\ pc[r] = "toSupplier" /\ pc'[r] = "pendingDelivery"
          /\ t \in DOMAIN owner /\ owner[t] = ADMIN
          BY ZenonT(60), <1>2, <2>1, StringTypes DEF ToSupplier, transferFrom, Step, CanTransfer
    <3>2. /\ DOMAIN owner' = DOMAIN owner
          /\ \A u \in DOMAIN owner : owner'[u] = IF u = t THEN making[r].callTo ELSE owner[u]
          BY <3>1 DEF TypeInv, TypeOK, ItemTokenTypeOK
    <3>. QED  BY ZenonT(60), <3>1, <3>2 DEF OwnerKept, HandsOut
  <2>2. CASE ~CanTransfer(ADMIN, ADMIN, making[r].callTo, t)
    <3>1. UNCHANGED <<owner, swarm>> /\ pc'[r] = "failed"
          BY ZenonT(60), <1>2, <2>2, StringTypes DEF ToSupplier, Step, itemTokenVars
    <3>. QED  BY ZenonT(60), <3>1 DEF OwnerKept
  <2>. QED  BY <2>1, <2>2
<1>3. CASE ~(MintToken(r) \/ ToSupplier(r))
  <2>1. /\ UNCHANGED owner /\ swarm \subseteq swarm'
        /\ pc'[r] \notin {"fromAccount", "pendingDelivery"}
        BY ZenonT(60), <1>3, StringTypes DEF MakingMove, MakingStep, ReadInvoice, StoreMetadata,
           FromAccount, ToAccount, PendingDelivery, RecordToken, itemTokenVars, Step
  <2>. QED  BY ZenonT(60), <2>1 DEF OwnerKept
<1>. QED  BY <1>1, <1>2, <1>3

LEMMA DeliveryOwners ==
    ASSUME TypeInv, NEW r \in Requests, DeliveryMove(r)
    PROVE  /\ DOMAIN owner' = DOMAIN owner
           /\ \A t \in DOMAIN owner : OwnerKept(t) \/ HandsOver(r, t)
           /\ pc'[r] = "newOwnerOf" => HandsOver(r, delivery[r].tokenId)
<1>1. CASE TransferFrom(r)
  <2>. DEFINE d == delivery[r]
  <2>1. CASE CanTransfer(d.callFrom, d.callFrom, d.callTo, d.tokenId)
    <3>1. /\ owner' = [owner EXCEPT ![d.tokenId] = d.callTo]
          /\ pc[r] = "transferFrom" /\ pc'[r] = "newOwnerOf"
          /\ d.tokenId \in DOMAIN owner /\ owner[d.tokenId] = d.callFrom
          /\ d.callTo # Undefined /\ UNCHANGED delivery
          BY ZenonT(60), <1>1, <2>1, StringTypes DEF TransferFrom, transferFrom, Step, CanTransfer
    <3>2. /\ DOMAIN owner' = DOMAIN owner
          /\ \A u \in DOMAIN owner : owner'[u] = IF u = d.tokenId THEN d.callTo ELSE owner[u]
          BY <3>1 DEF TypeInv, TypeOK, ItemTokenTypeOK
    <3>. QED  BY ZenonT(60), <3>1, <3>2 DEF OwnerKept, HandsOver
  <2>2. CASE ~CanTransfer(d.callFrom, d.callFrom, d.callTo, d.tokenId)
    <3>1. UNCHANGED owner /\ pc'[r] = "failed"
          BY ZenonT(60), <1>1, <2>2, StringTypes DEF TransferFrom, Step, itemTokenVars
    <3>. QED  BY ZenonT(60), <3>1 DEF OwnerKept
  <2>. QED  BY <2>1, <2>2
<1>2. CASE ~TransferFrom(r)
  <2>1. UNCHANGED owner
        BY ZenonT(60), <1>2 DEF DeliveryMove, DeliveryStep, FindRow, UserAccount,
           MerchantAccount, OwnerOf, GotOwner, GotNewOwner, Delivered, Completed, itemTokenVars
  <2>2. pc'[r] # "newOwnerOf"
        BY ZenonT(60), <1>2, StringTypes DEF DeliveryMove, DeliveryStep, FindRow, UserAccount,
           MerchantAccount, OwnerOf, GotOwner, GotNewOwner, Delivered, Completed, Step
  <2>. QED  BY ZenonT(60), <2>1, <2>2 DEF OwnerKept
<1>. QED  BY <1>1, <1>2

\* Tokens and metadata are never destroyed, and a token changes hands in three
\* ways only.
LEMMA StepOwners ==
    ASSUME TypeInv, [Next]_vars
    PROVE  /\ DOMAIN owner \subseteq DOMAIN owner' /\ swarm \subseteq swarm'
           /\ \A t \in DOMAIN owner' :
                \/ OwnerKept(t)
                \/ \E r \in Requests : \/ MakingMove(r) /\ Mints(r, t)
                                       \/ MakingMove(r) /\ HandsOut(r, t)
                                       \/ DeliveryMove(r) /\ HandsOver(r, t)
<1>1. ASSUME UNCHANGED <<owner, swarm>>
      PROVE  /\ DOMAIN owner \subseteq DOMAIN owner' /\ swarm \subseteq swarm'
             /\ \A t \in DOMAIN owner' : OwnerKept(t)
      BY ZenonT(60), <1>1 DEF OwnerKept
<1>2. ASSUME NEW r \in Requests,
             Send(r) \/ IssueMove(r) \/ InvoiceMove(r) \/ PaymentMove(r)
      PROVE  UNCHANGED <<owner, swarm>>
      BY ZenonT(60), <1>2, SendFrame, IssueFrame, InvoiceFrame, PaymentFrame
<1>3. ASSUME Fault \/ UNCHANGED vars PROVE UNCHANGED <<owner, swarm>>
      BY ZenonT(60), <1>3, FaultFrame DEF vars, itemTokenVars
<1>4. ASSUME NEW r \in Requests, DeliveryMove(r)
      PROVE  /\ DOMAIN owner' = DOMAIN owner /\ swarm' = swarm
             /\ \A t \in DOMAIN owner' : OwnerKept(t) \/ HandsOver(r, t)
      BY ZenonT(60), <1>4, DeliveryFrame, DeliveryOwners
<1>5. CASE \E r \in Requests : MakingMove(r)
      BY ZenonT(60), <1>5, MakingOwners
<1>6. CASE \E r \in Requests : DeliveryMove(r)
      BY ZenonT(60), <1>4, <1>6
<1>7. CASE UNCHANGED <<owner, swarm>>
      BY ZenonT(60), <1>1, <1>7
<1>. QED  BY ZenonT(60), <1>2, <1>3, <1>5, <1>6, <1>7, StepCases

-----------------------------------------------------------------------------
(* Who writes the status of an order                                       *)

LEMMA StatusOf ==
    ASSUME TypeInv, NEW p \in Ids, NEW q \in Ids, NEW s, updatePOStatus(q, s)
    PROVE  pos'[p].status = IF p = q THEN s ELSE pos[p].status
<1>1. pos \in [Ids -> PO] /\ pos' = [pos EXCEPT ![q].status = s]
      BY DEF TypeInv, TypeOK, ProcurementTypeOK, updatePOStatus
<1>2. pos[q] \in PO /\ pos[p] \in PO
      BY <1>1
<1>. QED  BY ZenonT(60), <1>1, <1>2 DEF PO

\* Issuing an order sets the status of an id that was free; ackPO, makeTokens
\* and transferToken (twice) overwrite it.
LEMMA StepStatus ==
    ASSUME TypeInv, RowsInv, [Next]_vars, NEW p \in Ids
    PROVE  \/ pos'[p].status = pos[p].status
           \/ p \notin KnownPOs /\ pos'[p].status = "ISSUED"
           \/ \E r \in Requests :
              \/ /\ InvoiceMove(r) /\ pc[r] = "acknowledge" /\ p = purchase[r].poId
                 /\ pos'[p].status = "ACKNOWLEDGED"
              \/ /\ MakingMove(r) /\ pc[r] = "pendingDelivery" /\ p = making[r].invoice.poId
                 /\ pos'[p].status = "PENDING DELIVERY"
              \/ /\ DeliveryMove(r) /\ pc[r] = "delivered" /\ p = delivery[r].po_id
                 /\ pos'[p].status = "DELIVERED"
              \/ /\ DeliveryMove(r) /\ pc[r] = "completed" /\ p = delivery[r].invoice_id
                 /\ pos'[p].status = "COMPLETED"
<1>1. ASSUME NEW r \in Requests, CreatePO(r)
      PROVE  \/ pos'[p].status = pos[p].status
             \/ p \notin KnownPOs /\ pos'[p].status = "ISSUED"
  <2>1. /\ purchase[r].processId \in Ids
        /\ purchase[r].processId \notin KnownPOs
        BY ZenonT(60), <1>1, StringTypes DEF CreatePO, Step, RowsInv, IdsOK, Purchase
  <2>2. /\ p # purchase[r].processId => pos'[p] = pos[p]
        /\ p = purchase[r].processId => pos'[p].status = "ISSUED"
        BY ZenonT(60), <1>1, <2>1 DEF CreatePO, issuePO, TypeInv, TypeOK, ProcurementTypeOK
  <2>. QED  BY ZenonT(60), <2>1, <2>2
<1>2. ASSUME NEW r \in Requests, InvoiceMove(r), Acknowledge(r)
      PROVE  \/ pos'[p].status = pos[p].status
             \/ /\ InvoiceMove(r) /\ pc[r] = "acknowledge" /\ p = purchase[r].poId
                /\ pos'[p].status = "ACKNOWLEDGED"
  <2>1. purchase[r].poId \in Ids
        BY ZenonT(60), StringTypes DEF Purchase
  <2>. QED  BY ZenonT(60), <1>2, <2>1, StatusOf DEF Acknowledge, Step
<1>3. ASSUME NEW r \in Requests, MakingMove(r), PendingDelivery(r)
      PROVE  \/ pos'[p].status = pos[p].status
             \/ /\ MakingMove(r) /\ pc[r] = "pendingDelivery" /\ p = making[r].invoice.poId
                /\ pos'[p].status = "PENDING DELIVERY"
  <2>1. making[r].invoice.poId \in Ids
        BY ZenonT(60), StringTypes DEF Making, Invoice
  <2>. QED  BY ZenonT(60), <1>3, <2>1, StatusOf DEF PendingDelivery, Step
<1>4. ASSUME NEW r \in Requests, DeliveryMove(r), Delivered(r)
      PROVE  \/ pos'[p].status = pos[p].status
             \/ /\ DeliveryMove(r) /\ pc[r] = "delivered" /\ p = delivery[r].po_id
                /\ pos'[p].status = "DELIVERED"
  <2>1. delivery[r].po_id \in Ids
        BY ZenonT(60), StringTypes DEF Delivery
  <2>. QED  BY ZenonT(60), <1>4, <2>1, StatusOf DEF Delivered, Step
<1>5. ASSUME NEW r \in Requests, DeliveryMove(r), Completed(r)
      PROVE  \/ pos'[p].status = pos[p].status
             \/ /\ DeliveryMove(r) /\ pc[r] = "completed" /\ p = delivery[r].invoice_id
                /\ pos'[p].status = "COMPLETED"
  <2>1. delivery[r].invoice_id \in Ids
        BY ZenonT(60), StringTypes DEF Delivery
  <2>. QED  BY ZenonT(60), <1>5, <2>1, StatusOf DEF Completed, Step
<1>6. ASSUME UNCHANGED pos PROVE pos'[p].status = pos[p].status
      BY ZenonT(60), <1>6
<1>7. ASSUME NEW r \in Requests, IssueMove(r) PROVE CreatePO(r) \/ UNCHANGED pos
      BY ZenonT(60), <1>7 DEF IssueMove, SaveRow, procurementVars
<1>8. ASSUME NEW r \in Requests, InvoiceMove(r) PROVE Acknowledge(r) \/ UNCHANGED pos
      BY ZenonT(60), <1>8 DEF InvoiceMove, ReadPO, CreateInvoice, issueInvoice, RecordInvoice,
         procurementVars
<1>9. ASSUME NEW r \in Requests, MakingMove(r) PROVE PendingDelivery(r) \/ UNCHANGED pos
      BY ZenonT(60), <1>9 DEF MakingMove, MakingStep, ReadInvoice, StoreMetadata, MintToken,
         FromAccount, ToAccount, ToSupplier, RecordToken, procurementVars
<1>10. ASSUME NEW r \in Requests, DeliveryMove(r)
      PROVE  Delivered(r) \/ Completed(r) \/ UNCHANGED pos
      BY ZenonT(60), <1>10 DEF DeliveryMove, DeliveryStep, FindRow, UserAccount,
         MerchantAccount, OwnerOf, GotOwner, TransferFrom, GotNewOwner, procurementVars
<1>11. ASSUME NEW r \in Requests, Send(r) \/ PaymentMove(r) PROVE UNCHANGED pos
      BY ZenonT(60), <1>11, SendFrame, PaymentFrame
<1>12. ASSUME Fault \/ UNCHANGED vars PROVE UNCHANGED pos
      BY ZenonT(60), <1>12, FaultFrame DEF vars, procurementVars
<1>. QED  BY ZenonT(60), <1>1, <1>2, <1>3, <1>4, <1>5, <1>6, <1>7, <1>8, <1>9, <1>10, <1>11,
             <1>12, StepCases

\* What the contract lists grows by one id at most.
LEMMA StepKnown ==
    ASSUME TypeInv, [Next]_vars
    PROVE  \/ KnownPOs' = KnownPOs /\ KnownInvoices' = KnownInvoices
           \/ \E r \in Requests :
              \/ /\ IssueMove(r) /\ CreatePO(r)
                 /\ KnownPOs' = KnownPOs \cup {purchase[r].processId}
                 /\ KnownInvoices' = KnownInvoices
              \/ /\ InvoiceMove(r) /\ CreateInvoice(r)
                 /\ KnownPOs' = KnownPOs
                 /\ KnownInvoices' = KnownInvoices \cup {purchase[r].processId}
<1>1. ASSUME UNCHANGED poArray PROVE KnownPOs' = KnownPOs
      BY <1>1 DEF KnownPOs
<1>2. ASSUME UNCHANGED invoiceArray PROVE KnownInvoices' = KnownInvoices
      BY <1>2 DEF KnownInvoices
<1>3. ASSUME NEW r \in Requests, IssueMove(r), CreatePO(r)
      PROVE  KnownPOs' = KnownPOs \cup {purchase[r].processId}
  <2>1. purchase[r].processId \in Ids
        BY ZenonT(60), StringTypes DEF Purchase
  <2>2. poArray \in Seq(Ids) /\ poArray' = Append(poArray, purchase[r].processId)
        BY <1>3 DEF CreatePO, issuePO, TypeInv, TypeOK, ProcurementTypeOK
  <2>3. {poArray'[i] : i \in DOMAIN poArray'}
          = {poArray[i] : i \in DOMAIN poArray} \cup {purchase[r].processId}
        BY SMTT(60), <2>1, <2>2, IssuedIds
  <2>. QED  BY ZenonT(60), <2>3 DEF KnownPOs
<1>4. ASSUME NEW r \in Requests, InvoiceMove(r), CreateInvoice(r)
      PROVE  KnownInvoices' = KnownInvoices \cup {purchase[r].processId}
  <2>1. purchase[r].processId \in Ids
        BY ZenonT(60), StringTypes DEF Purchase
  <2>2. /\ invoiceArray \in Seq(Ids)
        /\ invoiceArray' = Append(invoiceArray, purchase[r].processId)
        BY <1>4 DEF CreateInvoice, issueInvoice, TypeInv, TypeOK, ProcurementTypeOK
  <2>3. {invoiceArray'[i] : i \in DOMAIN invoiceArray'}
          = {invoiceArray[i] : i \in DOMAIN invoiceArray} \cup {purchase[r].processId}
        BY <2>1, <2>2, IssuedIds
  <2>. QED  BY ZenonT(60), <2>3 DEF KnownInvoices
<1>5. ASSUME NEW r \in Requests, IssueMove(r)
      PROVE  UNCHANGED invoiceArray /\ (CreatePO(r) \/ UNCHANGED poArray)
      BY ZenonT(60), <1>5, IssueFrame DEF IssueMove, SaveRow, procurementVars
<1>6. ASSUME NEW r \in Requests, InvoiceMove(r)
      PROVE  UNCHANGED poArray /\ (CreateInvoice(r) \/ UNCHANGED invoiceArray)
      BY ZenonT(60), <1>6, InvoiceFrame DEF InvoiceMove, ReadPO, Acknowledge, RecordInvoice,
         updatePOStatus, procurementVars
<1>7. ASSUME NEW r \in Requests, Send(r) \/ MakingMove(r) \/ DeliveryMove(r) \/ PaymentMove(r)
      PROVE  UNCHANGED <<poArray, invoiceArray>>
      BY ZenonT(60), <1>7, SendFrame, MakingFrame, DeliveryFrame, PaymentFrame
<1>8. ASSUME Fault \/ UNCHANGED vars PROVE UNCHANGED <<poArray, invoiceArray>>
      BY ZenonT(60), <1>8, FaultFrame DEF vars, procurementVars
<1>. QED  BY ZenonT(60), <1>1, <1>2, <1>3, <1>4, <1>5, <1>6, <1>7, <1>8, StepCases

-----------------------------------------------------------------------------
(* Tokens: the inductive invariant                                         *)

\* How far a request of makeTokens has come.
Begun == MakingLabels \cup {"ok"}
HasRead == Begun \ {"readInvoice"}
HasStored == HasRead \ {"store"}
HasMinted == HasStored \ {"mint"}
HasAddress == HasMinted \ {"fromAccount", "toAccount"}

\* The token that makeTokens makes of an invoice.
TokenOf(i) == rootHash([invoiceId |-> i, itemType |-> invoices[i].itemType,
                        price |-> invoices[i].price])

\* What the handlers of makeTokens hold is what the chain says of the invoice.
MakingHolds(r) ==
    LET m == making[r]
    IN  Route[r] = "makeTokens" =>
          /\ pc[r] \in Begun => m.invoiceId \in KnownInvoices \cup {0}
          /\ pc[r] \in HasRead =>
               /\ m.invoice.poId = invoices[m.invoiceId].poId
               /\ m.invoice.supplierId = invoices[m.invoiceId].supplierId
               /\ m.invoice.itemType = invoices[m.invoiceId].itemType
               /\ m.invoice.price = invoices[m.invoiceId].price
          /\ pc[r] \in HasStored => m.tokenId = TokenOf(m.invoiceId) /\ m.tokenId.hash \in swarm
          /\ pc[r] \in HasMinted => m.tokenId \in DOMAIN owner
          /\ pc[r] \in HasAddress =>
               /\ m.callTo = AccountId(invoices[m.invoiceId].supplierId)
               /\ m.callTo # Undefined

MakingsHold == \A r \in Requests : MakingHolds(r)

\* No two requests have minted the same token.
MintedOnce ==
    \A r, s \in Requests :
        (/\ Route[r] = "makeTokens" /\ pc[r] \in HasMinted
         /\ Route[s] = "makeTokens" /\ pc[s] \in HasMinted
         /\ making[r].tokenId = making[s].tokenId) => r = s

\* The accounts that the globals and the calls under way name.
PartiesAt(r) ==
    /\ delivery[r].from \in Payees \cup {Undefined}
    /\ delivery[r].to \in Payers \cup {Undefined}
    /\ delivery[r].callFrom \in Payees \cup {Undefined}
    /\ delivery[r].callTo \in Payers \cup {Undefined}
    /\ payment[r].fromId \in Payers \cup {Undefined}
    /\ payment[r].toId \in Payees \cup {Undefined}

PartiesOK ==
    /\ userAcc \in Payers \cup {Undefined}
    /\ merchantAcct \in Payees \cup {Undefined}
    /\ \A r \in Requests : PartiesAt(r)

\* A token is the token of an invoice on chain, and is held by ADMIN, by the
\* supplier of that invoice or by a payer.
OwnerAt(t) ==
    /\ t.hash.invoiceId \in KnownInvoices \cup {0}
    /\ t = TokenOf(t.hash.invoiceId)
    /\ t.hash \in swarm
    /\ owner[t] \in {ADMIN, AccountId(invoices[t.hash.invoiceId].supplierId)} \cup Payers

OwnersOK == \A t \in DOMAIN owner : OwnerAt(t)

TokenInv == /\ RoutesOK
            /\ MakingsHold
            /\ MintedOnce
            /\ PartiesOK
            /\ OwnersOK

-----------------------------------------------------------------------------
(* The parties of a call                                                   *)

LEMMA PartyTypes ==
    /\ \A p \in TransferParties : p[1] \in Payees /\ p[2] \in Payers
    /\ \A p \in PaymentParties : p[1] \in Payers /\ p[2] \in Payees
BY DEF Payees, Payers

LEMMA DeliveryParties ==
    ASSUME TypeInv, PartiesOK, NEW r \in Requests, DeliveryMove(r)
    PROVE  /\ userAcc' \in Payers \cup {Undefined}
           /\ merchantAcct' \in Payees \cup {Undefined}
           /\ PartiesAt(r)'
<1>1. delivery[r] \in Delivery /\ delivery \in [Requests -> Delivery]
      BY StringTypes
<1>2. PartiesAt(r)
      BY DEF PartiesOK
<1>3. /\ userAcc' \in {userAcc, delivery[r].to}
      /\ merchantAcct' \in {merchantAcct, delivery[r].from}
      BY ZenonT(60) DEF DeliveryMove, DeliveryStep, FindRow, UserAccount, MerchantAccount,
         OwnerOf, GotOwner, TransferFrom, GotNewOwner, Delivered, Completed, globals
<1>4. /\ delivery'[r].callFrom \in {delivery[r].callFrom, merchantAcct}
      /\ delivery'[r].callTo \in {delivery[r].callTo, userAcc}
  <2>1. CASE FindRow(r)
        BY ZenonT(60), <1>1, <2>1 DEF FindRow, Delivery
  <2>2. CASE OwnerOf(r, "ownerOf", "gotOwner") \/ OwnerOf(r, "newOwnerOf", "gotNewOwner")
        BY ZenonT(60), <1>1, <2>2 DEF OwnerOf, Delivery
  <2>3. CASE GotOwner(r)
        BY ZenonT(60), <1>1, <2>3 DEF GotOwner, Delivery
  <2>. QED  BY ZenonT(60), <2>1, <2>2, <2>3 DEF DeliveryMove, DeliveryStep, UserAccount,
               MerchantAccount, TransferFrom, GotNewOwner, Delivered, Completed, tokenRouteVars
<1>5. UNCHANGED payment
      BY DeliveryFrame
<1>. QED  BY ZenonT(60), <1>2, <1>3, <1>4, <1>5, DeliveryArgs DEF PartiesOK, PartiesAt

LEMMA PayingParties ==
    ASSUME TypeInv, PartiesOK, NEW r \in Requests, PaymentMove(r)
    PROVE  /\ userAcc' \in Payers \cup {Undefined}
           /\ merchantAcct' \in Payees \cup {Undefined}
           /\ PartiesAt(r)'
<1>1. /\ userAcc' \in {userAcc, payment[r].fromId}
      /\ merchantAcct' \in {merchantAcct, payment[r].toId}
      BY ZenonT(60) DEF PaymentMove, PaymentStep, PayInvoice, PayerAccount, PayeeAccount,
         PayerBalance, GotPayerBalance, PayeeBalance, GotPayeeBalance, TopUp, ToppedUp,
         TxCount, SendTx, Sent, NewBalance, Paid, globals
<1>2. UNCHANGED delivery
      BY PaymentFrame
<1>3. PartiesAt(r)
      BY DEF PartiesOK
<1>. QED  BY ZenonT(60), <1>1, <1>2, <1>3, PaymentArgs DEF PartiesOK, PartiesAt

LEMMA SendParties ==
    ASSUME TypeInv, PartiesOK, NEW r \in Requests, Send(r)
    PROVE  PartiesAt(r)'
<1>1. /\ delivery[r] \in Delivery /\ delivery \in [Requests -> Delivery]
      /\ payment[r] \in Payment /\ payment \in [Requests -> Payment]
      BY StringTypes
<1>2. PartiesAt(r)
      BY DEF PartiesOK
<1>3. ASSUME NEW t, NEW p \in TransferParties, PostTransferToken(r, t, p), UNCHANGED payment
      PROVE  PartiesAt(r)'
  <2>1. /\ delivery'[r].from = p[1] /\ delivery'[r].to = p[2]
        /\ delivery'[r].callFrom = delivery[r].callFrom
        /\ delivery'[r].callTo = delivery[r].callTo
        BY ZenonT(60), <1>1, <1>3 DEF PostTransferToken, Delivery
  <2>. QED  BY ZenonT(60), <1>2, <1>3, <2>1, PartyTypes DEF PartiesAt
<1>4. ASSUME NEW i, NEW p \in PaymentParties, PostPaySupplier(r, i, p), UNCHANGED delivery
      PROVE  PartiesAt(r)'
  <2>1. payment'[r].fromId = p[1] /\ payment'[r].toId = p[2]
        BY ZenonT(60), <1>1, <1>4 DEF PostPaySupplier, Payment
  <2>. QED  BY ZenonT(60), <1>2, <1>4, <2>1, PartyTypes DEF PartiesAt
<1>5. ASSUME UNCHANGED <<delivery, payment>> PROVE PartiesAt(r)'
      BY ZenonT(60), <1>2, <1>5 DEF PartiesAt
<1>. QED  BY ZenonT(60), <1>3, <1>4, <1>5, SendCases

LEMMA InitParties == Init => PartiesOK
<1>. SUFFICES ASSUME Init PROVE PartiesOK
     OBVIOUS
<1>1. \A r \in Requests : delivery[r] = NoDelivery /\ payment[r] = NoPayment
      BY DEF Init, TokenRoutesInit, PaymentInit
<1>2. /\ NoDelivery.from = Undefined /\ NoDelivery.to = Undefined
      /\ NoDelivery.callFrom = Undefined /\ NoDelivery.callTo = Undefined
      /\ NoPayment.fromId = Undefined /\ NoPayment.toId = Undefined
      BY ZenonT(60) DEF NoDelivery, NoPayment
<1>. QED  BY ZenonT(60), <1>1, <1>2 DEF Init, ServerInit, PartiesOK, PartiesAt

LEMMA NextParties ==
    ASSUME TypeInv, PartiesOK, [Next]_vars
    PROVE  PartiesOK'
<1>1. ASSUME NEW q \in Requests, delivery'[q] = delivery[q], payment'[q] = payment[q]
      PROVE  PartiesAt(q)'
      BY ZenonT(60), <1>1 DEF PartiesOK, PartiesAt
<1>2. ASSUME NEW r \in Requests, OnlyMoves(r), PartiesAt(r)' PROVE \A q \in Requests : PartiesAt(q)'
      BY ZenonT(60), <1>1, <1>2 DEF OnlyMoves
<1>3. ASSUME UNCHANGED <<delivery, payment>>, userAcc' \in {userAcc, Undefined},
             merchantAcct' \in {merchantAcct, Undefined}
      PROVE  PartiesOK'
      BY ZenonT(60), <1>1, <1>3 DEF PartiesOK
<1>4. ASSUME NEW r \in Requests, IssueMove(r) \/ InvoiceMove(r) \/ MakingMove(r) PROVE PartiesOK'
      BY ZenonT(60), <1>3, <1>4, IssueFrame, InvoiceFrame, MakingFrame DEF globals
<1>5. ASSUME NEW r \in Requests, DeliveryMove(r) PROVE PartiesOK'
      BY ZenonT(60), <1>2, <1>5, DeliveryFrame, DeliveryParties DEF PartiesOK
<1>6. ASSUME NEW r \in Requests, PaymentMove(r) PROVE PartiesOK'
      BY ZenonT(60), <1>2, <1>6, PaymentFrame, PayingParties DEF PartiesOK
<1>7. ASSUME NEW r \in Requests, Send(r) PROVE PartiesOK'
      BY ZenonT(60), <1>2, <1>7, SendFrame, SendParties DEF PartiesOK, globals
<1>8. ASSUME Fault \/ UNCHANGED vars PROVE PartiesOK'
      BY ZenonT(60), <1>3, <1>8, FaultFrame DEF vars, serverVars, globals, tokenRouteVars
<1>. QED  BY ZenonT(60), <1>4, <1>5, <1>6, <1>7, <1>8, StepCases

-----------------------------------------------------------------------------
(* What the handlers of makeTokens hold                                    *)

\* The token of an invoice on chain stays the same.
LEMMA TokenOfStays ==
    ASSUME NEW i, InvoiceStays(i)
    PROVE  TokenOf(i)' = TokenOf(i)
BY ZenonT(60) DEF InvoiceStays, TokenOf

\* The chain only grows.
ChainGrows ==
    /\ KnownInvoices \subseteq KnownInvoices'
    /\ \A i \in KnownInvoices \cup {0} : InvoiceStays(i)
    /\ swarm \subseteq swarm'
    /\ DOMAIN owner \subseteq DOMAIN owner'

LEMMA StepGrows ==
    ASSUME TypeInv, RowsInv, [Next]_vars
    PROVE  ChainGrows
BY ZenonT(60), StepIssued, StepOwners DEF ChainGrows, IssuedStays

LEMMA MakingHoldsKept ==
    ASSUME ChainGrows, NEW q \in Requests, MakingHolds(q), making'[q] = making[q],
           pc'[q] \in {pc[q], "failed"}
    PROVE  MakingHolds(q)'
<1>1. CASE Route[q] = "makeTokens" /\ pc[q] \in Begun /\ pc'[q] = pc[q]
  <2>1. InvoiceStays(making[q].invoiceId)
        BY ZenonT(60), <1>1 DEF ChainGrows, MakingHolds
  <2>2. TokenOf(making[q].invoiceId)' = TokenOf(making[q].invoiceId)
        BY ZenonT(60), <2>1 DEF InvoiceStays, TokenOf
  <2>. QED  BY ZenonT(60), <1>1, <2>1, <2>2 DEF ChainGrows, MakingHolds, InvoiceStays,
               HasRead, HasStored, HasMinted, HasAddress
<1>2. CASE ~(Route[q] = "makeTokens" /\ pc'[q] \in Begun)
      BY ZenonT(60), <1>2 DEF MakingHolds, HasRead, HasStored, HasMinted, HasAddress
<1>3. pc'[q] = "failed" => pc'[q] \notin Begun
      BY ZenonT(60) DEF Begun, MakingLabels
<1>. QED  BY ZenonT(60), <1>1, <1>2, <1>3

\* A step of makeTokens: each of its steps adds what the next ones rely on.
LEMMA MakingStepHolds ==
    ASSUME TypeInv, RowsInv, TokenInv, NEW r \in Requests, MakingMove(r), ChainGrows
    PROVE  MakingHolds(r)'
<1>. USE DEF TokenInv
<1>1. making[r] \in Making /\ making \in [Requests -> Making]
      BY StringTypes
<1>2. pc \in [Requests -> {"idle"} \cup Awaiting \cup Answered]
      BY StringTypes
<1>3. Route[r] = "makeTokens" /\ pc[r] \in Begun /\ MakingHolds(r)
      BY ZenonT(60), MakingFrame DEF RunsIn, RoutesOK, RouteAt, Begun, MakingsHold
<1>4. UNCHANGED <<invoices, invoiceArray>> /\ KnownInvoices' = KnownInvoices
      BY ZenonT(60), MakingFrame DEF KnownInvoices
<1>5. /\ making[r].invoiceId \in KnownInvoices \cup {0}
      /\ making'[r].invoiceId = making[r].invoiceId
      BY ZenonT(60), <1>3, MakingArgs DEF MakingHolds
<1>6. swarm \subseteq swarm' /\ DOMAIN owner \subseteq DOMAIN owner'
      BY DEF ChainGrows
<1>. USE DEF MakingHolds, Begun, HasRead, HasStored, HasMinted, HasAddress, MakingLabels
<1>7. CASE ReadInvoice(r)
  <2>1. /\ pc'[r] = "store"
        /\ making'[r].invoice = invoices[making[r].invoiceId]
        BY ZenonT(60), <1>1, <1>2, <1>7 DEF ReadInvoice, Step, Making
  <2>. QED  BY ZenonT(60), <1>4, <1>5, <2>1
<1>8. CASE StoreMetadata(r)
  <2>. DEFINE m == making[r]
              metadata == [invoiceId |-> m.invoiceId, itemType |-> m.invoice.itemType,
                           price |-> m.invoice.price]
  <2>1. /\ pc[r] = "store" /\ pc'[r] = "mint"
        /\ making'[r].invoice = m.invoice
        /\ making'[r].tokenId = rootHash(metadata)
        /\ metadata \in swarm'
        BY ZenonT(60), <1>1, <1>2, <1>8 DEF StoreMetadata, Step, Making
  <2>2. /\ m.invoice.itemType = invoices[m.invoiceId].itemType
        /\ m.invoice.price = invoices[m.invoiceId].price
        BY ZenonT(60), <1>3, <2>1
  <2>3. rootHash(metadata) = TokenOf(m.invoiceId) /\ rootHash(metadata).hash = metadata
        BY ZenonT(60), <2>2 DEF TokenOf, rootHash
  <2>. HIDE DEF metadata
  <2>4. TokenOf(making[r].invoiceId)' = TokenOf(making[r].invoiceId)
        BY ZenonT(60), <1>4, <1>5 DEF TokenOf
  <2>. QED  BY ZenonT(60), <1>3, <1>4, <1>5, <2>1, <2>3, <2>4
<1>9. TokenOf(making[r].invoiceId)' = TokenOf(making[r].invoiceId)
      BY ZenonT(60), <1>4, <1>5 DEF TokenOf
<1>10. CASE MintToken(r)
  <2>1. pc[r] = "mint" /\ pc'[r] \in {"fromAccount", "failed"} /\ making' = making
        BY ZenonT(60), <1>2, <1>10 DEF MintToken, Step
  <2>2. pc'[r] = "fromAccount" => making[r].tokenId \in DOMAIN owner'
        BY ZenonT(60), <1>2, <1>10 DEF MintToken, Step, mint
  <2>. QED  BY ZenonT(60), <1>3, <1>4, <1>5, <1>6, <1>9, <2>1, <2>2
<1>11. CASE ToAccount(r)
  <2>1. /\ pc[r] = "toAccount" /\ pc'[r] \in {"toSupplier", "failed"}
        /\ making'[r].invoice = making[r].invoice
        /\ making'[r].tokenId = making[r].tokenId
        /\ making'[r].callTo = AccountId(making[r].invoice.supplierId)
        /\ pc'[r] = "toSupplier" => making'[r].callTo # Undefined
        BY ZenonT(60), <1>1, <1>2, <1>11 DEF ToAccount, Step, Making
  <2>. QED  BY ZenonT(60), <1>3, <1>4, <1>5, <1>6, <1>9, <2>1
<1>12. CASE FromAccount(r) \/ ToSupplier(r) \/ PendingDelivery(r) \/ RecordToken(r)
  <2>1. /\ making' = making
        /\ \/ pc[r] = "fromAccount" /\ pc'[r] = "toAccount"
           \/ pc[r] = "toSupplier" /\ pc'[r] \in {"pendingDelivery", "failed"}
           \/ pc[r] = "pendingDelivery" /\ pc'[r] = "recordToken"
           \/ pc[r] = "recordToken" /\ pc'[r] = "ok"
        BY ZenonT(60), <1>2, <1>12 DEF FromAccount, ToSupplier, PendingDelivery, RecordToken, Step
  <2>. QED  BY ZenonT(60), <1>3, <1>4, <1>5, <1>6, <1>9, <2>1
<1>. QED  BY ZenonT(60), <1>7, <1>8, <1>10, <1>11, <1>12 DEF MakingMove, MakingStep

\* The other routes, and arriving requests, leave what makeTokens holds alone.
LEMMA NextMaking ==
    ASSUME TypeInv, RowsInv, TokenInv, [Next]_vars
    PROVE  MakingsHold'
<1>. USE DEF TokenInv
<1>1. ChainGrows
      BY StepGrows
<1>2. ASSUME NEW q \in Requests, making'[q] = making[q], pc'[q] \in {pc[q], "failed"}
      PROVE  MakingHolds(q)'
      BY ZenonT(60), <1>1, <1>2, MakingHoldsKept DEF MakingsHold
<1>3. ASSUME NEW r \in Requests, OnlyMoves(r), MakingHolds(r)' PROVE MakingsHold'
  <2>1. ASSUME NEW q \in Requests, q # r PROVE MakingHolds(q)'
        BY ZenonT(60), <1>2, <1>3, <2>1 DEF OnlyMoves
  <2>. QED  BY ZenonT(60), <1>3, <2>1 DEF MakingsHold
<1>4. ASSUME NEW q \in Requests, Route[q] # "makeTokens" PROVE MakingHolds(q)'
      BY ZenonT(60), <1>4 DEF MakingHolds
<1>5. ASSUME NEW r \in Requests,
             IssueMove(r) \/ InvoiceMove(r) \/ DeliveryMove(r) \/ PaymentMove(r)
      PROVE  MakingsHold'
  <2>1. OnlyMoves(r) /\ Route[r] # "makeTokens"
        BY ZenonT(60), <1>5, IssueFrame, InvoiceFrame, DeliveryFrame, PaymentFrame
           DEF RunsIn, RoutesOK, RouteAt
  <2>. QED  BY ZenonT(60), <1>3, <1>4, <2>1
<1>6. ASSUME NEW r \in Requests, MakingMove(r) PROVE MakingsHold'
      BY ZenonT(60), <1>1, <1>3, <1>6, MakingFrame, MakingStepHolds
<1>7. ASSUME NEW r \in Requests, Send(r) PROVE MakingsHold'
  <2>1. ASSUME NEW i \in KnownInvoices \cup {0}, PostMakeTokens(r, i), pc'[r] = "readInvoice"
        PROVE  MakingHolds(r)'
    <3>1. making'[r].invoiceId = i
          BY ZenonT(60), <2>1, StringTypes DEF PostMakeTokens, Making
    <3>2. KnownInvoices \subseteq KnownInvoices'
          BY <1>1 DEF ChainGrows
    <3>. QED  BY ZenonT(60), <2>1, <3>1, <3>2 DEF MakingHolds, HasRead, HasStored, HasMinted,
                 HasAddress
  <2>2. MakingHolds(r)'
        BY ZenonT(60), <1>4, <1>7, <2>1, SendCases
  <2>. QED  BY ZenonT(60), <1>3, <1>7, <2>2, SendFrame
<1>8. ASSUME Fault \/ UNCHANGED vars PROVE MakingsHold'
  <2>1. ASSUME NEW q \in Requests PROVE making'[q] = making[q] /\ pc'[q] \in {pc[q], "failed"}
        BY ZenonT(60), <1>8, FaultFrame DEF vars, serverVars, tokenRouteVars
  <2>. QED  BY ZenonT(60), <1>2, <2>1 DEF MakingsHold
<1>. QED  BY ZenonT(60), <1>5, <1>6, <1>7, <1>8, StepCases

-----------------------------------------------------------------------------
(* A token is minted once                                                  *)

\* A request that has minted its token had minted it before, or mints it now.
LEMMA MintedBefore ==
    ASSUME TypeInv, RowsInv, TokenInv, [Next]_vars, NEW q \in Requests,
           Route[q] = "makeTokens", pc'[q] \in HasMinted
    PROVE  /\ making'[q].tokenId = making[q].tokenId
           /\ \/ pc[q] \in HasMinted
              \/ OnlyMoves(q) /\ Mints(q, making[q].tokenId)
<1>. USE DEF TokenInv, HasMinted, HasStored, HasRead, Begun, MakingLabels
<1>1. CASE making'[q] = making[q] /\ pc'[q] \in {pc[q], "failed"}
      BY ZenonT(60), <1>1
<1>2. ASSUME NEW r \in Requests, OnlyMoves(r), r # q
      PROVE  making'[q] = making[q] /\ pc'[q] \in {pc[q], "failed"}
      BY ZenonT(60), <1>2 DEF OnlyMoves
<1>3. ASSUME IssueMove(q) \/ InvoiceMove(q) \/ DeliveryMove(q) \/ PaymentMove(q) PROVE FALSE
      BY ZenonT(60), <1>3, IssueFrame, InvoiceFrame, DeliveryFrame, PaymentFrame
         DEF RunsIn, RoutesOK, RouteAt
<1>4. CASE MakingMove(q)
  <2>1. making[q] \in Making /\ making \in [Requests -> Making]
        BY StringTypes
  <2>2. pc \in [Requests -> {"idle"} \cup Awaiting \cup Answered]
        BY StringTypes
  <2>3. making'[q].tokenId = making[q].tokenId
        BY ZenonT(60), <1>4, <2>1, <2>2 DEF MakingMove, MakingStep, ReadInvoice, StoreMetadata,
           MintToken, FromAccount, ToAccount, ToSupplier, PendingDelivery, RecordToken, Step,
           Making
  <2>4. pc[q] \in HasMinted \/ pc'[q] = "fromAccount"
        BY ZenonT(60), <1>4, <2>2 DEF MakingMove, MakingStep, ReadInvoice, StoreMetadata,
           MintToken, FromAccount, ToAccount, ToSupplier, PendingDelivery, RecordToken, Step
  <2>. QED  BY ZenonT(60), <1>4, <2>3, <2>4, MakingFrame, MakingOwners
<1>5. ASSUME Send(q) PROVE FALSE
      BY ZenonT(60), <1>5, SendCases
<1>6. ASSUME Fault \/ UNCHANGED vars
      PROVE  making'[q] = making[q] /\ pc'[q] \in {pc[q], "failed"}
      BY ZenonT(60), <1>6, FaultFrame DEF vars, serverVars, tokenRouteVars
<1>7. ASSUME NEW r \in Requests, r # q,
             \/ Send(r) \/ IssueMove(r) \/ InvoiceMove(r) \/ MakingMove(r) \/ DeliveryMove(r)
             \/ PaymentMove(r)
      PROVE  making'[q] = making[q] /\ pc'[q] \in {pc[q], "failed"}
      BY ZenonT(60), <1>2, <1>7, SendFrame, IssueFrame, InvoiceFrame, MakingFrame,
         DeliveryFrame, PaymentFrame
<1>. QED  BY ZenonT(60), <1>1, <1>3, <1>4, <1>5, <1>6, <1>7, StepCases

LEMMA NextMinted ==
    ASSUME TypeInv, RowsInv, TokenInv, [Next]_vars
    PROVE  MintedOnce'
<1>. SUFFICES ASSUME NEW r \in Requests, NEW s \in Requests,
                     Route[r] = "makeTokens", pc'[r] \in HasMinted,
                     Route[s] = "makeTokens", pc'[s] \in HasMinted,
                     making'[r].tokenId = making'[s].tokenId
              PROVE  r = s
     BY ZenonT(60) DEF MintedOnce
<1>1. /\ making'[r].tokenId = making[r].tokenId
      /\ pc[r] \in HasMinted \/ (OnlyMoves(r) /\ Mints(r, making[r].tokenId))
      BY ZenonT(60), MintedBefore
<1>2. /\ making'[s].tokenId = making[s].tokenId
      /\ pc[s] \in HasMinted \/ (OnlyMoves(s) /\ Mints(s, making[s].tokenId))
      BY ZenonT(60), MintedBefore
<1>3. ASSUME NEW q \in Requests, Route[q] = "makeTokens", pc[q] \in HasMinted
      PROVE  making[q].tokenId \in DOMAIN owner
      BY ZenonT(60), <1>3 DEF TokenInv, MakingsHold, MakingHolds
<1>4. CASE pc[r] \in HasMinted /\ pc[s] \in HasMinted
      BY ZenonT(60), <1>1, <1>2, <1>4 DEF TokenInv, MintedOnce
<1>5. CASE Mints(r, making[r].tokenId) /\ Mints(s, making[s].tokenId) /\ OnlyMoves(r)
      BY ZenonT(60), <1>5 DEF Mints, OnlyMoves
<1>. QED  BY ZenonT(60), <1>1, <1>2, <1>3, <1>4, <1>5 DEF Mints

-----------------------------------------------------------------------------
(* The owners                                                              *)

LEMMA NextOwners ==
    ASSUME TypeInv, RowsInv, TokenInv, [Next]_vars
    PROVE  OwnersOK'
<1>. USE DEF TokenInv
<1>1. ChainGrows
      BY StepGrows
<1>2. ASSUME NEW t \in DOMAIN owner, OwnerAt(t),
             \/ owner'[t] = owner[t] \/ owner'[t] \in Payers
             \/ owner'[t] = AccountId(invoices[t.hash.invoiceId].supplierId)
      PROVE  OwnerAt(t)'
  <2>1. InvoiceStays(t.hash.invoiceId)
        BY ZenonT(60), <1>1, <1>2 DEF ChainGrows, OwnerAt
  <2>2. TokenOf(t.hash.invoiceId)' = TokenOf(t.hash.invoiceId)
        BY ZenonT(60), <2>1, TokenOfStays
  <2>. QED  BY ZenonT(60), <1>1, <1>2, <2>1, <2>2 DEF ChainGrows, OwnerAt, InvoiceStays
<1>3. ASSUME NEW t \in DOMAIN owner' PROVE OwnerAt(t)'
  <2>1. CASE OwnerKept(t)
        BY ZenonT(60), <1>2, <2>1 DEF OwnerKept, OwnersOK
  <2>2. ASSUME NEW r \in Requests, MakingMove(r), Mints(r, t) PROVE OwnerAt(t)'
    <3>. DEFINE m == making[r]
    <3>1. Route[r] = "makeTokens" /\ MakingHolds(r) /\ pc[r] = "mint" /\ t = m.tokenId
          BY ZenonT(60), <2>2, MakingFrame DEF RunsIn, RoutesOK, RouteAt, MakingsHold, Mints
    <3>2. /\ m.invoiceId \in KnownInvoices \cup {0}
          /\ t = TokenOf(m.invoiceId) /\ t.hash \in swarm
          BY ZenonT(60), <3>1 DEF MakingHolds, Begun, HasRead, HasStored, MakingLabels
    <3>3. t.hash.invoiceId = m.invoiceId
          BY <3>2 DEF TokenOf, rootHash
    <3>4. InvoiceStays(m.invoiceId)
          BY ZenonT(60), <1>1, <3>2 DEF ChainGrows
    <3>. HIDE DEF m
    <3>5. TokenOf(t.hash.invoiceId)' = t
          BY ZenonT(60), <3>2, <3>3, <3>4, TokenOfStays
    <3>6. owner'[t] = ADMIN
          BY ZenonT(60), <2>2 DEF Mints
    <3>. QED  BY ZenonT(60), <1>1, <3>2, <3>3, <3>5, <3>6 DEF ChainGrows, OwnerAt
  <2>3. ASSUME NEW r \in Requests, MakingMove(r), HandsOut(r, t) PROVE OwnerAt(t)'
    <3>. DEFINE m == making[r]
    <3>1. /\ Route[r] = "makeTokens" /\ MakingHolds(r) /\ pc[r] = "toSupplier"
          /\ t = m.tokenId /\ owner'[t] = m.callTo /\ t \in DOMAIN owner
          BY ZenonT(60), <2>3, MakingFrame DEF RunsIn, RoutesOK, RouteAt, MakingsHold, HandsOut
    <3>2. /\ t = TokenOf(m.invoiceId)
          /\ m.callTo = AccountId(invoices[m.invoiceId].supplierId)
          BY ZenonT(60), <3>1 DEF MakingHolds, Begun, HasRead, HasStored, HasMinted,
             HasAddress, MakingLabels
    <3>3. t.hash.invoiceId = m.invoiceId
          BY <3>2 DEF TokenOf, rootHash
    <3>. QED  BY ZenonT(60), <1>2, <3>1, <3>2, <3>3 DEF OwnersOK
  <2>4. ASSUME NEW r \in Requests, HandsOver(r, t) PROVE OwnerAt(t)'
    <3>1. owner'[t] \in Payers /\ t \in DOMAIN owner
          BY ZenonT(60), <2>4 DEF HandsOver, PartiesOK, PartiesAt
    <3>. QED  BY ZenonT(60), <1>2, <3>1 DEF OwnersOK
  <2>. QED  BY ZenonT(60), <2>1, <2>2, <2>3, <2>4, StepOwners
<1>. QED  BY ZenonT(60), <1>3 DEF OwnersOK

-----------------------------------------------------------------------------
(* The theorems                                                            *)

LEMMA InitTokens == Init => TokenInv
<1>. SUFFICES ASSUME Init PROVE TokenInv
     OBVIOUS
<1>1. DOMAIN owner = {} /\ \A r \in Requests : pc[r] = "idle"
      BY DEF Init, ItemTokenInit, ServerInit
<1>2. MakingsHold /\ MintedOnce
      BY ZenonT(60), <1>1 DEF MakingsHold, MakingHolds, MintedOnce, Begun, HasRead, HasStored,
         HasMinted, HasAddress, MakingLabels
<1>3. OwnersOK
      BY ZenonT(60), <1>1 DEF OwnersOK
<1>. QED  BY ZenonT(60), <1>2, <1>3, InitRoutes, InitParties DEF TokenInv

LEMMA NextTokens == TypeInv /\ RowsInv /\ TokenInv /\ [Next]_vars => TokenInv'
BY ZenonT(60), NextRoutes, NextMaking, NextMinted, NextParties, NextOwners DEF TokenInv

\* However many makeTokens requests name an invoice, and however they overlap,
\* fail or crash, at most one of them hands a token to the supplier: they all
\* derive the same content hash, and the second mint of it reverts.
THEOREM InvoiceHasOneToken == Spec => []TokensMadeOnce
<1>1. TypeInv /\ RowsInv /\ TokenInv => TokensMadeOnce
  <2>. SUFFICES ASSUME TokenInv, NEW r \in Requests, NEW s \in Requests, r # s,
                       making[r].invoiceId = making[s].invoiceId,
                       Route[r] = "makeTokens", Route[s] = "makeTokens",
                       pc[r] \in {"pendingDelivery", "recordToken", "ok"},
                       pc[s] \in {"pendingDelivery", "recordToken", "ok"}
                PROVE  FALSE
       BY ZenonT(60) DEF TokensMadeOnce
  <2>1. /\ pc[r] \in HasMinted /\ pc[s] \in HasMinted
        /\ pc[r] \in HasStored /\ pc[s] \in HasStored
        BY ZenonT(60) DEF HasMinted, HasStored, HasRead, Begun, MakingLabels
  <2>2. making[r].tokenId = making[s].tokenId
        BY ZenonT(60), <2>1 DEF TokenInv, MakingsHold, MakingHolds
  <2>. QED  BY ZenonT(60), <2>1, <2>2 DEF TokenInv, MintedOnce
<1>. QED  BY InitType, NextType, InitRows, NextRows, InitTokens, NextTokens, <1>1, PTL DEF Spec

\* A token outside ADMIN always stands for an invoice on chain with the item
\* type and price of its metadata in Swarm, and is held by that invoice's
\* supplier or by a payer, although all requests share the globals userAcc,
\* merchantAcct, fromAddress and toAddress.
THEOREM TokensStandForInvoices == Spec => []TokensAreBacked
<1>1. TypeInv /\ RowsInv /\ TokenInv => TokensAreBacked
  <2>. SUFFICES ASSUME TokenInv, NEW t \in DOMAIN owner
                PROVE  LET invoice == invoices[t.hash.invoiceId]
                       IN  /\ t.hash \in swarm
                           /\ owner[t] # ADMIN =>
                                /\ invoice.itemType = t.hash.itemType
                                /\ invoice.price = t.hash.price
                                /\ owner[t] \in {AccountId(invoice.supplierId)} \cup Payers
       BY ZenonT(60) DEF TokensAreBacked
  <2>1. OwnerAt(t)
        BY DEF TokenInv, OwnersOK
  <2>2. t = TokenOf(t.hash.invoiceId)
        BY <2>1 DEF OwnerAt
  <2>3. /\ t.hash.itemType = invoices[t.hash.invoiceId].itemType
        /\ t.hash.price = invoices[t.hash.invoiceId].price
    <3>1. \A i : /\ TokenOf(i).hash.itemType = invoices[i].itemType
                 /\ TokenOf(i).hash.price = invoices[i].price
          BY ZenonT(60) DEF TokenOf, rootHash
    <3>. QED  BY ZenonT(60), <2>2, <3>1
  <2>. QED  BY ZenonT(60), <2>1, <2>3 DEF OwnerAt
<1>. QED  BY InitType, NextType, InitRows, NextRows, InitTokens, NextTokens, <1>1, PTL DEF Spec

=============================================================================
