--------------------------- MODULE MCWoneHolders ---------------------------
(* Bounded instances of WoneHolders: two holders who deposit, transfer to    *)
(* each other and to themselves, and withdraw.                               *)
EXTENDS WoneHolders

CONSTANTS a, b

Deposit(h, n) == [topic |-> "deposit", src |-> Zero, dst |-> h, amount |-> n]
Withdrawal(h, n) == [topic |-> "withdrawal", src |-> h, dst |-> Zero, amount |-> n]
Transfer(f, t, n) == [topic |-> "transfer", src |-> f, dst |-> t, amount |-> n]

MCEvents ==
    [n \in 0..3 |-> CASE n = 0 -> <<Deposit(a, 2)>>
                      [] n = 1 -> <<Transfer(a, b, 1), Deposit(b, 1)>>
                      [] n = 2 -> <<Withdrawal(b, 2)>>
                      [] n = 3 -> <<Transfer(a, a, 1)>>]
============================================================================
