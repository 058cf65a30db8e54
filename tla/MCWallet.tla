------------------------------ MODULE MCWallet ------------------------------
(***************************************************************************)
(* Wallet with small sets of requests.  A request can be picked again and  *)
(* again, by several sessions at once: that is a retry or a redelivery.    *)
(***************************************************************************)
EXTENDS Wallet, TLC

CONSTANT u1

MCCauses == {"none", "carry", "topup", "refund", "admin", "order a", "order b", "order c"}

MCRequest(u, kind, amount, tag) == [user |-> u, kind |-> kind, amount |-> amount, ref |-> <<tag, 0>>]

\* Two top-ups and three spends of which only some combinations are affordable.
SpendingRequests ==
    {MCRequest(u1, "credit", 2, "topup"), MCRequest(u1, "credit", 1, "refund"),
     MCRequest(u1, "debit", 2, "order a"), MCRequest(u1, "debit", 1, "order b"),
     MCRequest(u1, "debit", 3, "order c")}

\* A cutover pass on a wallet that is already in use, an administrator's credit included.
CutoverInUse ==
    {MCRequest(u1, "carry", 2, "none"), MCRequest(u1, "credit", 1, "admin"),
     MCRequest(u1, "debit", 1, "order a")}

Symmetry == Permutations(Sessions)
=============================================================================
