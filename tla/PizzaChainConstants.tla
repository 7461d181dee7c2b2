------------------------ MODULE PizzaChainConstants ------------------------
(***************************************************************************)
(* The fixed tables of the application: pizzaChainConstants.js and         *)
(* constant.json, and the bounds on the data of a model.                   *)
(*                                                                         *)
(* An account id is the index of an address in web3.eth.getAccounts(); the *)
(* model uses the index as the address.  Undefined is what JavaScript      *)
(* yields for a name or an index the tables do not have.                   *)
(***************************************************************************)
EXTENDS Integers, Sequences, FiniteSets

CONSTANTS
    MaxId,       \* bound: largest id fnGetUniqueID hands out
    Suppliers,   \* supplier ids that purchase orders name
    Prices       \* item prices that invoice requests carry

ASSUME ConstantsAssumption ==
    /\ MaxId \in Nat
    /\ "" \notin Suppliers
    /\ Prices \subseteq Nat

Undefined == -1

accounts == [ADMIN |-> 0, PIZZACO |-> 1, CHEESECO |-> 2, DOUGHCO |-> 3]
Accounts == 0..3
ADMIN == accounts["ADMIN"]

\* accounts[name]: the account id of a name, undefined for an unknown name.
AccountId(name) == IF name \in DOMAIN accounts THEN accounts[name] ELSE Undefined

\* The item types are the numbers of the table; 0 is the unset Solidity value
\* and also stands for a type name the table does not have.
ItemTypes == 1..4
NoType == 0

POStatus == {"ISSUED", "ACKNOWLEDGED", "PENDING DELIVERY", "DELIVERED"}
InvoiceStatus == {"ISSUED", "PAYMENT RECEIVED", "COMPLETED"}

\* Purchase order ids and invoice ids come from one generator.  0 is never
\* generated: it stands for an id that nothing was issued under.
Ids == 0..MaxId
=============================================================================
