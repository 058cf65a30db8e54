----------------------------- MODULE MCRefunds -----------------------------
(***************************************************************************)
(* Refunds of one payment of 2 that the platform collected, and of one an   *)
(* owner collected; keys that ask for all of it or for half, to the card or *)
(* to the balance.  raced tells the behaviours in which two requests were   *)
(* ever in flight together from those served one at a time.                *)
(***************************************************************************)
EXTENDS Refunds, TLC

CONSTANTS p1, p2, all, half, other, balance

MCPaid == [p \in Payments |-> 2]
MCAccount == [p \in Payments |-> IF p = p1 THEN "platform" ELSE "owner"]
MCAsks ==
    [k \in Keys |->
        CASE k = all -> [payment |-> p1, amount |-> 0, destination |-> "source"]
          [] k = half -> [payment |-> p1, amount |-> 1, destination |-> "source"]
          [] k = other -> [payment |-> p2, amount |-> 0, destination |-> "source"]
          [] k = balance -> [payment |-> p1, amount |-> 1, destination |-> "wallet"]]

VARIABLE raced

Together == \E s, r \in Sessions : s # r /\ ~At(s, "idle") /\ ~At(r, "idle")

MCInit == Init /\ raced = FALSE
MCNext == Next /\ raced' = (raced \/ Together')
MCSpec == MCInit /\ [][MCNext]_<<vars, raced>>

\* Requests served one at a time, however they die and however Razorpay's events
\* repeat, keep refunded_inr and the refund rows equal and inside what was paid, and
\* close the order when they reach it (refunds.apply_payment_refund).
RefundsStayInsideUnlessRaced == ~raced => RefundsNeverExceedCaptured

Symmetry == Permutations(Sessions)
=============================================================================
