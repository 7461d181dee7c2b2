----------------------------- MODULE PizzaCoin -----------------------------
(***************************************************************************)
(* The PizzaCoin contract (ERC-20, truffle/contracts/PizzaCoin.sol) and    *)
(* the transaction counts of the accounts that the Ethereum node keeps.    *)
(* The count of ADMIN is not followed: no payment is sent from ADMIN with  *)
(* an explicit nonce.                                                      *)
(***************************************************************************)
EXTENDS PizzaChainConstants

CONSTANT Supply    \* coins that the constructor mints to ADMIN

ASSUME SupplyAssumption == Supply \in Nat

VARIABLES balance, nonce

coinVars == <<balance, nonce>>

CoinTypeOK ==
    /\ balance \in [Accounts -> Nat]
    /\ nonce \in [Accounts -> Nat]

CoinInit ==
    /\ balance = [a \in Accounts |-> IF a = ADMIN THEN Supply ELSE 0]
    /\ nonce = [a \in Accounts |-> 0]

\* Mutant: the balance is not checked.
CanPay_always(from, value) == TRUE

CanPay(from, value) == balance[from] >= value

transfer(from, to, value) ==
    balance' = [balance EXCEPT ![from] = @ - value, ![to] = @ + value]

\* A transaction is mined, reverted or not: the sender's count goes up.
Mined(sender) == nonce' = [nonce EXCEPT ![sender] = @ + 1]
=============================================================================
