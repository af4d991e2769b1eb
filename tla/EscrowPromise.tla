--------------------------- MODULE EscrowPromise ----------------------------
(***************************************************************************)
(* What the settlement contract promises to the parties, with its clock,   *)
(* its reports and its bookkeeping left out: an escrow takes an amount out *)
(* of the payer's purse once, and later hands that very amount, once,      *)
(* either to the payee or back to the payer.  Nothing else moves money.    *)
(***************************************************************************)
EXTENDS Naturals

CONSTANTS
    Escrows,         \* the names of the escrows that may be opened
    Accounts,        \* the parties
    Tokens,          \* the currencies
    NoAddress,       \* a party or currency that is not set yet
    InitialBalance   \* what every party owns of every currency at the start

VARIABLES
    escrow,   \* escrow[e]: the terms and the state of escrow e
    purse     \* purse[c][a]: what party a owns of currency c

promiseVars == <<escrow, purse>>

Unopened ==
    [state |-> "none", payer |-> NoAddress, payee |-> NoAddress,
     token |-> NoAddress, amount |-> 0]

PromiseInit ==
    /\ escrow = [e \in Escrows |-> Unopened]
    /\ purse = [c \in Tokens |-> [a \in Accounts |-> InitialBalance]]

Lock(e, payer, payee, token, amount) ==
    /\ escrow[e].state = "none"
    /\ amount > 0
    /\ purse[token][payer] >= amount
    /\ escrow' = [escrow EXCEPT ![e] =
           [state |-> "held", payer |-> payer, payee |-> payee,
            token |-> token, amount |-> amount]]
    /\ purse' = [purse EXCEPT ![token][payer] = @ - amount]

Close(e, outcome, receiver) ==
    /\ escrow[e].state = "held"
    /\ escrow' = [escrow EXCEPT ![e].state = outcome]
    /\ purse' = [purse EXCEPT ![escrow[e].token][receiver] = @ + escrow[e].amount]

Release(e) == Close(e, "released", escrow[e].payee)

Return(e) == Close(e, "returned", escrow[e].payer)

PromiseNext ==
    \E e \in Escrows :
        \/ \E payer, payee \in Accounts, token \in Tokens :
               \E amount \in 1..purse[token][payer] :
                   Lock(e, payer, payee, token, amount)
        \/ Release(e)
        \/ Return(e)

PromiseSpec == PromiseInit /\ [][PromiseNext]_promiseVars

=============================================================================
