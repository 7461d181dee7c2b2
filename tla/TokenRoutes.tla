---------------------------- MODULE TokenRoutes ----------------------------
(***************************************************************************)
(* POST /makeTokens/:invoiceId and                                         *)
(* POST /transferToken/:tokenId/:supplierId/:payerId.                      *)
(***************************************************************************)
EXTENDS ApiServer, Procurement, ProcurementDB, PizzaCoin

CONSTANT TransferParties    \* the <<supplierId, payerId>> that scanners send

ASSUME TransferAssumption == TransferParties \subseteq Accounts \X Accounts

VARIABLES
    making,     \* the local variables of the makeTokens handlers
    delivery    \* the local variables of the transferToken handlers

tokenRouteVars == <<making, delivery>>

NoMaking == [invoiceId |-> 0, invoice |-> EmptyInvoice, tokenId |-> NoToken,
             callTo |-> Undefined]

Making == [invoiceId : Ids, invoice : Invoice, tokenId : TokenIds \cup {NoToken},
           callTo : Addresses]

NoDelivery == [tokenId |-> NoToken, from |-> Undefined, to |-> Undefined,
               row |-> 0, po_id |-> 0, invoice_id |-> 0, tokenOwner |-> Undefined,
               callFrom |-> Undefined, callTo |-> Undefined]

Delivery == [tokenId : TokenIds \cup {NoToken}, from : Addresses, to : Addresses,
             row : Nat, po_id : Ids, invoice_id : Ids, tokenOwner : Addresses,
             callFrom : Addresses, callTo : Addresses]

TokenRoutesTypeOK ==
    /\ making \in [Requests -> Making]
    /\ delivery \in [Requests -> Delivery]

TokenRoutesInit ==
    /\ making = [r \in Requests |-> NoMaking]
    /\ delivery = [r \in Requests |-> NoDelivery]

-----------------------------------------------------------------------------
(* POST /makeTokens/:invoiceId                                             *)

PostMakeTokens(r, invoiceId) ==
    /\ Arrive(r, "makeTokens", "readInvoice")
    /\ making' = [making EXCEPT ![r].invoiceId = invoiceId]
    /\ UNCHANGED <<nextId, globals, procurementVars, itemTokenVars, rows, coinVars, delivery>>

ReadInvoice(r) ==
    /\ Step(r, "readInvoice", "store")
    /\ making' = [making EXCEPT ![r].invoice = invoices[making[r].invoiceId]]
    /\ UNCHANGED <<nextId, globals, procurementVars, itemTokenVars, rows, coinVars, delivery>>

\* mintItemToken stores the metadata first: its hash is the token id.
StoreMetadata(r) ==
    LET m == making[r]
        metadata == [invoiceId |-> m.invoiceId, itemType |-> m.invoice.itemType,
                     price |-> m.invoice.price]
    IN  /\ Step(r, "store", "mint")
        /\ swarm' = swarm \cup {metadata}
        /\ making' = [making EXCEPT ![r].tokenId = rootHash(metadata)]
        /\ UNCHANGED <<nextId, globals, procurementVars, owner, rows, coinVars, delivery>>

\* The token of an invoice has one id: minting it a second time reverts.
MintToken(r) ==
    LET t == making[r].tokenId
    IN  /\ pc[r] = "mint"
        /\ IF CanMint(t)
           THEN mint(ADMIN, t) /\ Step(r, "mint", "fromAccount")
           ELSE UNCHANGED itemTokenVars /\ Step(r, "mint", "failed")
        /\ UNCHANGED <<nextId, globals, procurementVars, rows, coinVars, making, delivery>>

FromAccount(r) ==
    /\ Step(r, "fromAccount", "toAccount")
    /\ fromAddress' = ADMIN
    /\ UNCHANGED <<nextId, userAcc, merchantAcct, toAddress, procurementVars,
                   itemTokenVars, rows, coinVars, making, delivery>>

\* toAddress is assigned and used in the same run of the handler.  The
\* transaction comes from ADMIN; an unknown supplier has no address.
ToAccount(r) ==
    LET to == AccountId(making[r].invoice.supplierId)
    IN  /\ Step(r, "toAccount", IF to = Undefined THEN "failed" ELSE "toSupplier")
        /\ toAddress' = to
        /\ making' = [making EXCEPT ![r].callTo = to]
        /\ UNCHANGED <<nextId, userAcc, merchantAcct, fromAddress, procurementVars,
                       itemTokenVars, rows, coinVars, delivery>>

\* Mutant: the address is read from the global when the call runs.
ToSupplier_lateAddress(r) ==
    LET m == making[r]
    IN  /\ pc[r] = "toSupplier"
        /\ IF CanTransfer(ADMIN, ADMIN, toAddress, m.tokenId)
           THEN transferFrom(toAddress, m.tokenId) /\ Step(r, "toSupplier", "pendingDelivery")
           ELSE UNCHANGED itemTokenVars /\ Step(r, "toSupplier", "failed")
        /\ UNCHANGED <<nextId, globals, procurementVars, rows, coinVars, making, delivery>>

\* Mutant: the token id is recorded before the status is written.
ToSupplier_recordFirst(r) ==
    LET m == making[r]
    IN  /\ pc[r] = "toSupplier"
        /\ IF CanTransfer(ADMIN, ADMIN, m.callTo, m.tokenId)
           THEN /\ transferFrom(m.callTo, m.tokenId)
                /\ updateTokenId(m.invoiceId, m.tokenId)
                /\ Step(r, "toSupplier", "pendingDelivery")
           ELSE UNCHANGED <<itemTokenVars, rows>> /\ Step(r, "toSupplier", "failed")
        /\ UNCHANGED <<nextId, globals, procurementVars, coinVars, making, delivery>>

ToSupplier(r) ==
    LET m == making[r]
    IN  /\ pc[r] = "toSupplier"
        /\ IF CanTransfer(ADMIN, ADMIN, m.callTo, m.tokenId)
           THEN transferFrom(m.callTo, m.tokenId) /\ Step(r, "toSupplier", "pendingDelivery")
           ELSE UNCHANGED itemTokenVars /\ Step(r, "toSupplier", "failed")
        /\ UNCHANGED <<nextId, globals, procurementVars, rows, coinVars, making, delivery>>

\* updatedPOStatus reads the order before it writes the status; nothing
\* depends on what it read.
PendingDelivery(r) ==
    /\ Step(r, "pendingDelivery", "recordToken")
    /\ updatePOStatus(making[r].invoice.poId, "PENDING DELIVERY")
    /\ UNCHANGED <<nextId, globals, itemTokenVars, rows, coinVars, making, delivery>>

\* The QR code that the answer carries is written after the token id is
\* recorded.
RecordToken(r) ==
    /\ Step(r, "recordToken", "ok")
    /\ updateTokenId(making[r].invoiceId, making[r].tokenId)
    /\ UNCHANGED <<nextId, globals, procurementVars, itemTokenVars, coinVars, making, delivery>>

-----------------------------------------------------------------------------
(* POST /transferToken/:tokenId/:supplierId/:payerId                       *)

PostTransferToken(r, t, parties) ==
    /\ Arrive(r, "transferToken", "findRow")
    /\ delivery' = [delivery EXCEPT ![r].tokenId = t, ![r].from = parties[1],
                                    ![r].to = parties[2]]
    /\ UNCHANGED <<nextId, globals, procurementVars, itemTokenVars, rows, coinVars, making>>

\* The procurement of the token is looked up before the token moves.
FindRow(r) ==
    LET i == FirstMatch(RowsOfToken(delivery[r].tokenId))
    IN  /\ Step(r, "findRow", "userAccount")
        /\ delivery' = [delivery EXCEPT ![r].row = i,
                ![r].po_id = IF i = 0 THEN 0 ELSE rows[i].po_id,
                ![r].invoice_id = IF i = 0 THEN 0 ELSE rows[i].invoice_id]
        /\ UNCHANGED <<nextId, globals, procurementVars, itemTokenVars, rows, coinVars, making>>

UserAccount(r) ==
    /\ Step(r, "userAccount", "merchantAccount")
    /\ userAcc' = delivery[r].to
    /\ UNCHANGED <<nextId, merchantAcct, fromAddress, toAddress, procurementVars,
                   itemTokenVars, rows, coinVars, making, delivery>>

MerchantAccount(r) ==
    /\ Step(r, "merchantAccount", "ownerOf")
    /\ merchantAcct' = delivery[r].from
    /\ UNCHANGED <<nextId, userAcc, fromAddress, toAddress, procurementVars,
                   itemTokenVars, rows, coinVars, making, delivery>>

\* ownerOf reverts for a token that was never minted.
OwnerOf(r, from, to) ==
    LET t == delivery[r].tokenId
    IN  /\ Step(r, from, IF t \in DOMAIN owner THEN to ELSE "failed")
        /\ delivery' = [delivery EXCEPT ![r].tokenOwner =
                           IF t \in DOMAIN owner THEN owner[t] ELSE @]
        /\ UNCHANGED <<nextId, globals, procurementVars, itemTokenVars, rows, coinVars, making>>

\* Mutant: DELIVERED is written without the transfer.
GotOwner_noTransfer(r) ==
    /\ Step(r, "gotOwner", IF userAcc # delivery[r].tokenOwner THEN "delivered" ELSE "ok")
    /\ UNCHANGED <<nextId, globals, procurementVars, itemTokenVars, rows, coinVars, tokenRouteVars>>

\* The call takes both addresses from the globals, as they are now.  When the
\* payer owns the token nothing is sent; the route still answers 200.
GotOwner(r) ==
    /\ Step(r, "gotOwner", IF userAcc # delivery[r].tokenOwner THEN "transferFrom" ELSE "ok")
    /\ delivery' = IF userAcc # delivery[r].tokenOwner
                   THEN [delivery EXCEPT ![r].callFrom = merchantAcct, ![r].callTo = userAcc]
                   ELSE delivery
    /\ UNCHANGED <<nextId, globals, procurementVars, itemTokenVars, rows, coinVars, making>>

\* Mutant: a reverted transfer is taken for a success.
TransferFrom_ignoreRevert(r) ==
    LET d == delivery[r]
    IN  /\ Step(r, "transferFrom", "newOwnerOf")
        /\ IF CanTransfer(d.callFrom, d.callFrom, d.callTo, d.tokenId)
           THEN transferFrom(d.callTo, d.tokenId)
           ELSE UNCHANGED itemTokenVars
        /\ Mined(d.callFrom)
        /\ UNCHANGED <<nextId, globals, procurementVars, rows, balance, making, delivery>>

TransferFrom(r) ==
    LET d == delivery[r]
    IN  /\ pc[r] = "transferFrom"
        /\ IF CanTransfer(d.callFrom, d.callFrom, d.callTo, d.tokenId)
           THEN transferFrom(d.callTo, d.tokenId) /\ Step(r, "transferFrom", "newOwnerOf")
           ELSE UNCHANGED itemTokenVars /\ Step(r, "transferFrom", "failed")
        /\ Mined(d.callFrom)
        /\ UNCHANGED <<nextId, globals, procurementVars, rows, balance, making, delivery>>

\* Mutant: the new owner is compared with the supplier.
GotNewOwner_wrongParty(r) ==
    /\ Step(r, "gotNewOwner",
            CASE merchantAcct # delivery[r].tokenOwner -> "ok"
              [] merchantAcct = delivery[r].tokenOwner /\ delivery[r].row = 0 -> "failed"
              [] OTHER -> "delivered")
    /\ UNCHANGED <<nextId, globals, procurementVars, itemTokenVars, rows, coinVars, tokenRouteVars>>

\* transferStatus is true when the payer now owns the token.  Without a row
\* the handler fails after the token has moved.
GotNewOwner(r) ==
    /\ Step(r, "gotNewOwner",
            CASE userAcc # delivery[r].tokenOwner -> "ok"
              [] userAcc = delivery[r].tokenOwner /\ delivery[r].row = 0 -> "failed"
              [] OTHER -> "delivered")
    /\ UNCHANGED <<nextId, globals, procurementVars, itemTokenVars, rows, coinVars, tokenRouteVars>>

Delivered(r) ==
    /\ Step(r, "delivered", "completed")
    /\ updatePOStatus(delivery[r].po_id, "DELIVERED")
    /\ UNCHANGED <<nextId, globals, itemTokenVars, rows, coinVars, tokenRouteVars>>

\* The invoice id is passed to updatePOStatus, not to updateInvoiceStatus.
Completed(r) ==
    /\ Step(r, "completed", "ok")
    /\ updatePOStatus(delivery[r].invoice_id, "COMPLETED")
    /\ UNCHANGED <<nextId, globals, itemTokenVars, rows, coinVars, tokenRouteVars>>

TokenStep(r) ==
    \/ ReadInvoice(r)
    \/ StoreMetadata(r)
    \/ MintToken(r)
    \/ FromAccount(r)
    \/ ToAccount(r)
    \/ ToSupplier(r)
    \/ PendingDelivery(r)
    \/ RecordToken(r)
    \/ FindRow(r)
    \/ UserAccount(r)
    \/ MerchantAccount(r)
    \/ OwnerOf(r, "ownerOf", "gotOwner")
    \/ GotOwner(r)
    \/ TransferFrom(r)
    \/ OwnerOf(r, "newOwnerOf", "gotNewOwner")
    \/ GotNewOwner(r)
    \/ Delivered(r)
    \/ Completed(r)

TokenRequest(r) ==
    \/ \E invoiceId \in KnownInvoices \cup {0} : PostMakeTokens(r, invoiceId)
    \/ \E t \in DOMAIN owner, parties \in TransferParties : PostTransferToken(r, t, parties)
=============================================================================
