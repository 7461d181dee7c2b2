----------------------------- MODULE ItemToken -----------------------------
(***************************************************************************)
(* The ItemToken contract (ERC-721, truffle/contracts/ItemToken.sol) and   *)
(* the Swarm store that names its tokens.  A token id is the content hash  *)
(* of the metadata stored in Swarm: equal metadata has the same hash,      *)
(* different metadata a different one.                                     *)
(***************************************************************************)
EXTENDS PizzaChainConstants

VARIABLES
    owner,   \* ERC-721 owners; the domain is the set of minted tokens
    swarm    \* metadata stored in Swarm

itemTokenVars == <<owner, swarm>>

Metadata == [invoiceId : Ids, itemType : ItemTypes \cup {NoType}, price : Prices \cup {0}]

rootHash(metadata) == [hash |-> metadata]

TokenIds == [hash : Metadata]
NoToken == [hash |-> [invoiceId |-> 0, itemType |-> NoType, price |-> Undefined]]

ItemTokenTypeOK ==
    /\ DOMAIN owner \subseteq TokenIds
    /\ owner \in [DOMAIN owner -> Accounts]
    /\ swarm \subseteq Metadata

ItemTokenInit ==
    /\ owner = [t \in {} |-> ADMIN]
    /\ swarm = {}

\* Mutant: the existence check is missing.
CanMint_always(t) == TRUE

\* _mint requires that the token does not exist yet.
CanMint(t) == t \notin DOMAIN owner

mint(sender, t) ==
    /\ owner' = [u \in DOMAIN owner \cup {t} |-> IF u = t THEN sender ELSE owner[u]]
    /\ UNCHANGED swarm

\* setApprovalForAll at startup: CHEESECO operates the tokens of ADMIN.
isApprovedForAll(holder, operator) ==
    holder = ADMIN /\ operator = accounts["CHEESECO"]

\* transferFrom reverts unless the sender is owner or operator, and from is
\* the owner; a call with an undefined address is never sent.
CanTransfer(sender, from, to, t) ==
    /\ t \in DOMAIN owner
    /\ from = owner[t]
    /\ \/ sender = owner[t]
       \/ isApprovedForAll(owner[t], sender)
    /\ to # Undefined

transferFrom(to, t) ==
    /\ owner' = [owner EXCEPT ![t] = to]
    /\ UNCHANGED swarm
=============================================================================
