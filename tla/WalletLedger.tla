---------------------------- MODULE WalletLedger ----------------------------
(***************************************************************************)
(* What the wallet promises, with no transactions in it: money moves in    *)
(* single steps, each movement carries a reference, a reference moves money *)
(* in one wallet at most once, and a spend needs the money to be there.    *)
(* Wallet.tla, which has savepoints, row locks and concurrent requests, is *)
(* shown to implement this module.                                         *)
(***************************************************************************)
EXTENDS Integers

CONSTANTS Users,      \* students
          References, \* what can cause a movement
          Amounts     \* the signed amounts that can be moved

VARIABLES balance,   \* balance[u]: what student u can spend
          spent      \* spent[u]: the references that have moved money in u's wallet

vars == <<balance, spent>>

Init ==
    /\ balance = [u \in Users |-> 0]
    /\ spent = [u \in Users |-> {}]

\* One movement: a fresh reference, and enough money when money goes out.
Move(u, ref, amount) ==
    /\ ref \notin spent[u]
    /\ balance[u] + amount >= 0
    /\ balance' = [balance EXCEPT ![u] = @ + amount]
    /\ spent' = [spent EXCEPT ![u] = @ \cup {ref}]

Next == \E u \in Users, ref \in References, amount \in Amounts : Move(u, ref, amount)

Spec == Init /\ [][Next]_vars
=============================================================================
