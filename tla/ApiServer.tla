----------------------------- MODULE ApiServer -----------------------------
(***************************************************************************)
(* The Node.js process that serves the routes of apiGatewayController.js.  *)
(* A request is answered by one async handler.  Handlers interleave at     *)
(* every await; the code between two awaits runs without interruption.     *)
(* The program counter of a request names the call it awaits.              *)
(*                                                                         *)
(* userAcc, merchantAcct, fromAddress and toAddress are assigned without a *)
(* declaration in pizzaCoinClient.js and itemTokenClient.js: they are      *)
(* global to the process, so all requests share them.                      *)
(***************************************************************************)
EXTENDS PizzaChainConstants

CONSTANTS
    Requests,      \* the HTTP requests that clients may send, each once
    Route,         \* the route each request calls
    MaxInFlight,   \* how many requests clients keep open at a time
    MaxFaults      \* bound: failed calls and crashes

Routes == {"purchase-order", "invoice", "makeTokens", "transferToken", "paySupplier"}

ASSUME ApiServerAssumption ==
    /\ Requests \subseteq Nat
    /\ Route \in [Requests -> Routes]
    /\ MaxFaults \in Nat

VARIABLES pc, nextId, faults, userAcc, merchantAcct, fromAddress, toAddress

globals == <<userAcc, merchantAcct, fromAddress, toAddress>>
serverVars == <<pc, nextId, faults, globals>>

Answered == {"ok", "refused", "failed"}

Awaiting == {"createPO", "saveRow",
             "readPO", "acknowledge", "createInvoice", "recordInvoice",
             "readInvoice", "store", "mint", "fromAccount", "toAccount",
             "toSupplier", "pendingDelivery", "recordToken",
             "findRow", "userAccount", "merchantAccount", "ownerOf", "gotOwner",
             "transferFrom", "newOwnerOf", "gotNewOwner", "delivered", "completed",
             "payInvoice", "payerAccount", "payeeAccount", "payerBalance",
             "gotPayerBalance", "payeeBalance", "gotPayeeBalance", "topUp",
             "toppedUp", "txCount", "sendTx", "sent", "newBalance", "paid"}

Addresses == Accounts \cup {Undefined}

ServerTypeOK ==
    /\ pc \in [Requests -> {"idle"} \cup Awaiting \cup Answered]
    /\ nextId \in 1..(MaxId + 1)
    /\ faults \in 0..MaxFaults
    /\ userAcc \in Addresses /\ merchantAcct \in Addresses
    /\ fromAddress \in Addresses /\ toAddress \in Addresses

ServerInit ==
    /\ pc = [r \in Requests |-> "idle"]
    /\ nextId = 1
    /\ faults = 0
    /\ userAcc = Undefined /\ merchantAcct = Undefined
    /\ fromAddress = Undefined /\ toAddress = Undefined

InFlight == {r \in Requests : pc[r] \in Awaiting}

\* A client sends request r; its handler runs up to its first await.
Arrive(r, route, label) ==
    /\ pc[r] = "idle"
    /\ Route[r] = route
    /\ Cardinality(InFlight) < MaxInFlight
    /\ pc' = [pc EXCEPT ![r] = label]

\* The handler of r resumes at one await and runs up to the next.
Step(r, from, to) == pc[r] = from /\ pc' = [pc EXCEPT ![r] = to]

\* Mutant: the id may be one that was handed out before.
fnGetUniqueID_again(id) ==
    /\ nextId <= MaxId
    /\ id \in {nextId, 1}
    /\ nextId' = nextId + 1

\* fnGetUniqueID: the time in milliseconds and up to five random digits; no
\* two calls are taken to return the same id.
fnGetUniqueID(id) ==
    /\ nextId <= MaxId
    /\ id = nextId
    /\ nextId' = nextId + 1

\* A call that a handler awaits rejects: every route answers 500.
CallFails ==
    /\ faults < MaxFaults
    /\ faults' = faults + 1
    /\ \E r \in InFlight : pc' = [pc EXCEPT ![r] = "failed"]
    /\ UNCHANGED <<nextId, globals>>

\* The process dies and is started again: no handler survives, and the
\* globals are unset.  Chain, database and Swarm keep their state.
Crash ==
    /\ faults < MaxFaults
    /\ faults' = faults + 1
    /\ InFlight # {}
    /\ pc' = [r \in Requests |-> IF r \in InFlight THEN "failed" ELSE pc[r]]
    /\ userAcc' = Undefined /\ merchantAcct' = Undefined
    /\ fromAddress' = Undefined /\ toAddress' = Undefined
    /\ UNCHANGED nextId
=============================================================================
