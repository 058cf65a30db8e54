------------------------------ MODULE Refunds ------------------------------
(***************************************************************************)
(* Money given back: app/refunding.py, app/modules/payments/refunds.py, the *)
(* refund and failure events of webhook.py, and the order that closes when  *)
(* all of its money is back (app/modules/orders/refunds.py).  Operators ask *)
(* under an idempotency key and ask again when they get no answer; money    *)
(* goes to the balance, or back through Razorpay, whose dashboard can also  *)
(* send it; Razorpay reports every refund of its own, any number of times.  *)
(*                                                                         *)
(* A request is one transaction at READ COMMITTED and locks nothing it      *)
(* reads: it loads the payment and looks its key up; it calls Razorpay,     *)
(* which no rollback takes back; it writes what follows from the payment it *)
(* loaded.  The unique indexes on the key and on Razorpay's id decide when  *)
(* it commits.                                                             *)
(***************************************************************************)
EXTENDS Integers, Sequences, FiniteSets, FiniteSetsExt

CONSTANTS Payments,    \* payments, each for one print order
          Paid,        \* Paid[p]: what was paid, a positive sum
          Account,     \* Account[p]: wallet, platform, or owner when an owner collected
          Keys,        \* idempotency keys of operators
          Asks,        \* Asks[k]: what the requests under k ask for
          Sessions,    \* requests that can be in flight together
          None,        \* no key, no payment
          MaxReturned  \* bound: refunds made at Razorpay

Destination == {"source", "wallet"}

\* An amount of 0 stands for none given: everything still owed.
Ask == [payment : Payments, amount : Nat, destination : Destination]

ASSUME RefundsAssumption ==
    /\ Paid \in [Payments -> Nat \ {0}]
    /\ Account \in [Payments -> {"wallet", "platform", "owner"}]
    /\ Asks \in [Keys -> Ask]
    /\ MaxReturned \in Nat
    /\ None \notin Keys /\ None \notin Payments
    /\ Keys \cap Nat = {}

VARIABLES payments, \* payments[p]: its status, and refunded_inr
          orders,   \* orders[p]: whether the order behind p is paid, and closed
          refunds,  \* the refund rows
          credited, \* credited[k]: how often the ledger was credited for k
          returned, \* what Razorpay gave back, by its refund id
          session   \* session[s]: the request s serves, and what it has read

vars == <<payments, orders, refunds, credited, returned, session>>

\* The key of a refund made at Razorpay is its id.
Ids == 1..MaxReturned
PaymentStatus == {"created", "captured", "failed", "refunded", "partially_refunded"}
Payment == [status : PaymentStatus, refunded : Nat]
Refund == [key : Keys \cup Ids, payment : Payments, amount : Nat,
           destination : Destination, id : Nat]

PC == {"idle", "call", "write", "fail"}
SessionState == [pc : PC, key : Keys \cup Ids \cup {None}, payment : Payments \cup {None},
                 amount : Nat, destination : Destination, id : Nat, seen : Payment]

Idle == [pc |-> "idle", key |-> None, payment |-> None, amount |-> 0, destination |-> "source",
         id |-> 0, seen |-> [status |-> "created", refunded |-> 0]]

-----------------------------------------------------------------------------

At(s, pc) == session[s].pc = pc
Set(s, new) == session' = [session EXCEPT ![s] = new]
Refuse(s) == Set(s, Idle) /\ UNCHANGED <<payments, orders, refunds, credited>>

RefundForKey(k) == {row \in refunds : row.key = k}
RefundForId(i) == {row \in refunds : row.id = i}
GivenBack(p) == MapThenSumSet(LAMBDA row : row.amount, {row \in refunds : row.payment = p})
ReturnedOf(p) ==
    MapThenSumSet(LAMBDA i : returned[i].amount, {i \in DOMAIN returned : returned[i].payment = p})

\* The destination table: balance only against money the platform holds, and a
\* source only where something was collected.
MayGo(p, destination) ==
    IF destination = "wallet" THEN Account[p] # "owner" ELSE Account[p] # "wallet"

Init ==
    /\ payments = [p \in Payments |-> [status |-> "created", refunded |-> 0]]
    /\ orders = [p \in Payments |-> "awaiting_payment"]
    /\ refunds = {}
    /\ credited = [k \in Keys |-> 0]
    /\ returned = <<>>
    /\ session = [s \in Sessions |-> Idle]

-----------------------------------------------------------------------------
(* The payment arrives, in Settlement's one commit; Razorpay's dashboard.  *)

\* For an order already paid mark_paid raises, and the capture is rolled back.
RecordCapture(p) ==
    /\ orders[p] = "awaiting_payment" /\ payments[p].status # "captured"
    /\ payments' = [payments EXCEPT ![p] = [payments[p] EXCEPT !.status = "captured"]]
    /\ orders' = [orders EXCEPT ![p] = "paid"]
    /\ UNCHANGED <<refunds, credited, returned, session>>

\* Razorpay refunds no more of a payment than is left of it.
ReturnMoney(p, amount, k) ==
    /\ amount > 0 /\ ReturnedOf(p) + amount <= Paid[p]
    /\ Len(returned) < MaxReturned
    /\ returned' = Append(returned, [payment |-> p, amount |-> amount, key |-> k])

\* Whoever collected gives money back from the Razorpay dashboard.
DashboardRefund(p) ==
    /\ Account[p] # "wallet"
    /\ \E amount \in 1..Paid[p] : ReturnMoney(p, amount, None)
    /\ UNCHANGED <<payments, orders, refunds, credited, session>>

-----------------------------------------------------------------------------
(* An operator's refund.                                                   *)

\* What refund() asks of the payment as loaded.
Refundable(p, amount) ==
    /\ amount > 0
    /\ payments[p].status \in {"captured", "partially_refunded"}
    /\ amount <= Paid[p] - payments[p].refunded

Carry(s, pc, k, p, amount, destination, i) ==
    Set(s, [pc |-> pc, key |-> k, payment |-> p, amount |-> amount, destination |-> destination,
            id |-> i, seen |-> payments[p]])

\* A key that has its refund is answered with it.
RefundAnOrder(s, k) ==
    /\ At(s, "idle")
    /\ RefundForKey(k) = {}
    /\ LET ask == Asks[k]
           p == ask.payment
           amount == IF ask.amount = 0 THEN Paid[p] - payments[p].refunded ELSE ask.amount
       IN  /\ Refundable(p, amount)
           /\ MayGo(p, ask.destination)
           /\ Carry(s, IF ask.destination = "source" THEN "call" ELSE "write",
                    k, p, amount, ask.destination, 0)
    /\ UNCHANGED <<payments, orders, refunds, credited, returned>>

\* Mutant: the call does not carry the idempotency key.
CallRazorpayUnkeyed(s) ==
    /\ At(s, "call")
    /\ ReturnMoney(session[s].payment, session[s].amount, session[s].key)
    /\ Set(s, [session[s] EXCEPT !.pc = "write", !.id = Len(returned) + 1])
    /\ UNCHANGED <<payments, orders, refunds, credited>>

\* Razorpay answers a key it knows with the refund it made under it.  It refuses
\* what it cannot do: more than is left, or another amount under an old key.
CallRazorpay(s) ==
    /\ At(s, "call")
    /\ LET made == {i \in DOMAIN returned : returned[i].key = session[s].key}
       IN  \/ \E i \in made :
                 /\ returned[i].amount = session[s].amount
                 /\ Set(s, [session[s] EXCEPT !.pc = "write", !.id = i])
                 /\ UNCHANGED <<payments, orders, refunds, credited, returned>>
           \/ /\ made = {}
              /\ ReturnMoney(session[s].payment, session[s].amount, session[s].key)
              /\ Set(s, [session[s] EXCEPT !.pc = "write", !.id = Len(returned) + 1])
              /\ UNCHANGED <<payments, orders, refunds, credited>>

-----------------------------------------------------------------------------
(* What the payment and its order become.                                  *)

\* Mutant: an index on the key alone.
UniqueKeyOnly(s) == RefundForKey(session[s].key) = {}

\* Unique indexes: the key, and Razorpay's id when there is one.
Unique(s) ==
    /\ RefundForKey(session[s].key) = {}
    /\ session[s].id # 0 => RefundForId(session[s].id) = {}

\* Mutant: refunded_inr is what this refund gave back.
AfterRefundAlone(s) ==
    [status |-> IF session[s].amount >= Paid[session[s].payment] THEN "refunded"
                ELSE "partially_refunded",
     refunded |-> session[s].amount]

\* refunded_inr and the status follow from the payment as loaded; a status equal
\* to the one loaded is not written.
AfterRefund(s) ==
    LET seen == session[s].seen
        p == session[s].payment
        back == seen.refunded + session[s].amount
        status == IF back >= Paid[p] THEN "refunded" ELSE "partially_refunded"
    IN  [status |-> IF status = seen.status THEN payments[p].status ELSE status,
         refunded |-> back]

\* Mutant: any refund closes the order.
ApplyPaymentRefundAlways(s) == "refunded"

\* apply_payment_refund: closed when everything paid has gone back.
ApplyPaymentRefund(s) ==
    LET p == session[s].payment
    IN  IF AfterRefund(s).refunded < Paid[p] THEN orders[p] ELSE "refunded"

\* The row, the payment, the credit and the order in one commit; a key or an id
\* already in the books is a conflict, and nothing is written.
WriteRefund(s) ==
    /\ At(s, "write")
    /\ LET p == session[s].payment
           row == [key |-> session[s].key, payment |-> p, amount |-> session[s].amount,
                   destination |-> session[s].destination, id |-> session[s].id]
       IN  IF ~Unique(s) THEN Refuse(s)
           ELSE /\ refunds' = refunds \cup {row}
                /\ payments' = [payments EXCEPT ![p] = AfterRefund(s)]
                /\ orders' = [orders EXCEPT ![p] = ApplyPaymentRefund(s)]
                /\ credited' = IF row.destination = "wallet"
                               THEN [credited EXCEPT ![row.key] = @ + 1] ELSE credited
                /\ Set(s, Idle)
    /\ UNCHANGED returned

-----------------------------------------------------------------------------
(* Razorpay's events, and a request that dies.                             *)

\* _record_external_refund, for an id not in the books.  What cannot be recorded is
\* acknowledged and logged.
WebhookRefunded(s, i) ==
    /\ At(s, "idle")
    /\ RefundForId(i) = {}
    /\ Refundable(returned[i].payment, returned[i].amount)
    /\ Carry(s, "write", i, returned[i].payment, returned[i].amount, "source", i)
    /\ UNCHANGED <<payments, orders, refunds, credited, returned>>

\* An attempt that failed before the one that succeeded.  Only CAPTURED protects.
WebhookFailed(s, p) ==
    /\ At(s, "idle")
    /\ Account[p] # "wallet"
    /\ payments[p].status \notin {"captured", "failed"}
    /\ Carry(s, "fail", None, p, 0, "source", 0)
    /\ UNCHANGED <<payments, orders, refunds, credited, returned>>

RecordFailure(s) ==
    /\ At(s, "fail")
    /\ LET p == session[s].payment
       IN  payments' = [payments EXCEPT ![p] = [payments[p] EXCEPT !.status = "failed"]]
    /\ Set(s, Idle)
    /\ UNCHANGED <<orders, refunds, credited, returned>>

\* The handler raised, the worker died, or Razorpay's answer was lost: nothing
\* the request wrote stays, and what Razorpay did does.
Rollback(s) ==
    /\ ~At(s, "idle")
    /\ Refuse(s)
    /\ UNCHANGED returned

-----------------------------------------------------------------------------

Next ==
    \/ \E p \in Payments : RecordCapture(p) \/ DashboardRefund(p)
    \/ \E s \in Sessions :
          \/ \E k \in Keys : RefundAnOrder(s, k)
          \/ \E i \in DOMAIN returned : WebhookRefunded(s, i)
          \/ \E p \in Payments : WebhookFailed(s, p)
          \/ CallRazorpay(s)
          \/ WriteRefund(s)
          \/ RecordFailure(s)
          \/ Rollback(s)

Spec == Init /\ [][Next]_vars

-----------------------------------------------------------------------------
(* Properties                                                              *)

TypeOK ==
    /\ payments \in [Payments -> Payment]
    /\ orders \in [Payments -> {"awaiting_payment", "paid", "refunded"}]
    /\ refunds \subseteq Refund
    /\ credited \in [Keys -> Nat]
    /\ returned \in Seq([payment : Payments, amount : Nat \ {0}, key : Keys \cup {None}])
    /\ Len(returned) <= MaxReturned
    /\ session \in [Sessions -> SessionState]

\* A retried refund is not a second refund: however often and however close
\* together the requests under one key come, and wherever they die, the money
\* moves once, to the balance or back to the card.
KeyMovesMoneyOnce ==
    \A k \in Keys :
        /\ credited[k] <= 1
        /\ \A i, j \in DOMAIN returned : returned[i].key = k /\ returned[j].key = k => i = j
        /\ credited[k] = 1 => \A i \in DOMAIN returned : returned[i].key # k

\* Every refund on the books is money that moved, and no money is on them twice: a
\* refund to the card is one refund of Razorpay's, of that payment and sum, named
\* by one row; a refund to the balance is a credit under its key.
BooksMatchMoney ==
    /\ \A row \in refunds :
          \/ /\ row.destination = "source" /\ row.id \in DOMAIN returned
             /\ returned[row.id].payment = row.payment /\ returned[row.id].amount = row.amount
          \/ /\ row.destination = "wallet" /\ row.key \in Keys /\ credited[row.key] = 1
    /\ \A row, other \in refunds :
          row.key = other.key \/ (row.id = other.id /\ row.id # 0) => row = other
    /\ \A k \in Keys : credited[k] > 0 => \E row \in refunds : row.key = k /\ row.destination = "wallet"

\* An order is closed only when everything paid for it has gone back, whoever gave
\* it back and in how many parts.
ClosedOrdersWereRefunded ==
    \A p \in Payments : orders[p] = "refunded" => GivenBack(p) >= Paid[p]

\* The refund rows and refunded_inr agree and stay inside the captured amount, and
\* the order is closed when they reach it.  So of requests served one at a time,
\* however they die and however Razorpay's events repeat.
RefundsNeverExceedCaptured ==
    \A p \in Payments :
        /\ GivenBack(p) = payments[p].refunded /\ GivenBack(p) <= Paid[p]
        /\ GivenBack(p) = Paid[p] <=> orders[p] = "refunded"

\* Money that has arrived cannot be un-arrived by a late failure, though some of it
\* has gone back since.
RefundedMoneyStaysArrived ==
    [][\A p \in Payments :
          payments[p].refunded > 0 => payments'[p].status # "failed"]_vars
=============================================================================
