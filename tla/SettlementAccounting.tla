------------------------ MODULE SettlementAccounting ------------------------
(***************************************************************************)
(* The bookkeeping view of TyrPaySettlement: what every holder owns,       *)
(* computed from the tasks alone.                                          *)
(***************************************************************************)
EXTENDS TyrPaySettlement, Functions

\* The amounts of the tasks in S that are in the given token.
Total(S, token) ==
    SumFunctionOnSet([t \in TaskIds |-> tasks[t].amount],
                     {t \in S : tasks[t].token = token})

Open == {t \in TaskIds : Live(tasks[t])}
Paid(a) == {t \in TaskIds : (Live(tasks[t]) \/ Terminal(tasks[t])) /\ tasks[t].buyer = a}
GotBack(a) == {t \in TaskIds : tasks[t].status = "REFUNDED" /\ tasks[t].buyer = a}
Earned(a) == {t \in TaskIds : tasks[t].status = "SETTLED" /\ tasks[t].seller = a}

\* The contract owns, of every token, exactly the sum of the amounts of the
\* tasks that are funded and not yet paid out: no order of funding,
\* settlements, late reports and timeout refunds pays a task twice or leaves
\* money behind, and no payout ever fails for lack of funds.
Solvent ==
    \A token \in Tokens : balanceOf[token][Settlement] = Total(Open, token)

\* Every account owns what it started with, less the tasks it funded as buyer,
\* plus the tasks refunded to it and the tasks it earned as seller.  So only
\* the buyer ever pays for a task, and only its own parties are ever paid.
BooksBalance ==
    \A token \in Tokens : \A a \in Accounts :
        balanceOf[token][a] + Total(Paid(a), token)
            = InitialBalance + Total(GotBack(a), token) + Total(Earned(a), token)

=============================================================================
