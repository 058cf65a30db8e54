----------------------------- MODULE Settlement -----------------------------
(***************************************************************************)
(* From an order placed to an order paid: app/modules/orders/service.py,    *)
(* app/modules/payments/charges.py and webhook.py, and the routes that join *)
(* them.  Students pay from their balance or at a Razorpay checkout;        *)
(* Razorpay reports the outcome through the browser and through a webhook,  *)
(* each any number of times and in any order; a sweep expires what nobody   *)
(* paid for.                                                               *)
(*                                                                         *)
(* Every request is one database transaction at READ COMMITTED.  Nothing in *)
(* these paths locks a row it reads, so a request is modelled in the steps  *)
(* between which another can commit: it loads its rows, it may wait for the *)
(* lock its first UPDATE needs, and it writes.  A session keeps what its    *)
(* request read, and the write goes by that copy where the code does.       *)
(***************************************************************************)
EXTENDS Integers, Sequences, FiniteSets

CONSTANTS Users,       \* students
          Orders,      \* order identities
          Buyer,       \* Buyer[o]: the student of order o
          Total,       \* Total[o]: what order o costs
          TopUps,      \* the amounts a top-up may have
          Owners,      \* kiosk owners with a Razorpay account of their own
          Sessions,    \* requests that can be in flight together
          None,        \* no order
          MaxPayments  \* bound: payment rows; a request for one more is refused

ASSUME SettlementAssumption ==
    /\ Buyer \in [Orders -> Users]
    /\ Total \in [Orders -> Nat \ {0}]
    /\ TopUps \subseteq Nat \ {0}
    /\ None \notin Orders
    /\ "platform" \notin Owners /\ "wallet" \notin Owners /\ "closed" \notin Owners
    /\ MaxPayments \in Nat

VARIABLES orders,   \* orders[o]: its state, its payment method, whether its expiry has passed
          payments, \* the payment rows, by id: a later row has a larger id
          tasks,    \* tasks[o]: how many times the prints of o have been queued
          balance,  \* the wallet, as WalletLedger has it
          spent,
          gate,     \* what kiosk_payment_gate answers: platform, an owner, or closed
          events,   \* what happened at Razorpay, to be reported: <<payment, outcome>>
          session   \* session[s]: the request s serves, and what it has read

vars == <<orders, payments, tasks, balance, spent, gate, events, session>>

Collectors == Owners \cup {"platform"}

OrderState == {"unplaced", "awaiting_payment", "paid", "dispatched", "completed",
               "partially_failed", "expired"}
Order == [state : OrderState, method : {"wallet", "gateway"}, lapsed : BOOLEAN]

\* account is source and collecting_user_id together; captured says that
\* razorpay_payment_id is set.
PaymentStatus == {"created", "captured", "failed"}
Payment == [order : Orders \cup {None}, user : Users, amount : Nat \ {0},
            account : Collectors \cup {"wallet"}, status : PaymentStatus, captured : BOOLEAN]

PC == {"idle", "debit", "checkout", "confirm", "capture", "settle", "fail", "expire"}
SessionState == [pc : PC, order : Orders \cup {None}, payment : Nat, seen : OrderState,
                 account : Collectors \cup {"closed"}, stale : SUBSET Orders]

\* A request that has read an order and a payment, and what else it goes by.
Read(pc, o, p, seen, account) ==
    [pc |-> pc, order |-> o, payment |-> p, seen |-> seen, account |-> account, stale |-> {}]

Idle == Read("idle", None, 0, "unplaced", "closed")

\* A debit's reference is the order's id, a top-up's the Razorpay payment's id.
Wallet == INSTANCE WalletLedger
             WITH References <- ({"order"} \X Orders) \cup ({"topup"} \X (1..MaxPayments)),
                  Amounts <- TopUps \cup {-Total[o] : o \in Orders}

-----------------------------------------------------------------------------

At(s, pc) == session[s].pc = pc
Set(s, new) == session' = [session EXCEPT ![s] = new]
Refuse(s) == Set(s, Idle) /\ UNCHANGED <<orders, payments, tasks, balance, spent>>

Placed(o) == orders[o].state # "unplaced"

\* The write of one column, of one row.
Moved(o, state) == [orders EXCEPT ![o] = [orders[o] EXCEPT !.state = state]]
Recorded(p) == [payments EXCEPT ![p] = [payments[p] EXCEPT !.status = "captured", !.captured = TRUE]]

\* require_payable, of a state read earlier and the expiry as it stands now.
Payable(o, state) == state = "awaiting_payment" /\ ~orders[o].lapsed

\* A request that has written its payment row holds it until it commits.
RowFree(p) == \A t \in Sessions : ~(At(t, "settle") /\ session[t].payment = p)

Init ==
    /\ orders = [o \in Orders |-> [state |-> "unplaced", method |-> "gateway", lapsed |-> FALSE]]
    /\ payments = <<>>
    /\ tasks = [o \in Orders |-> 0]
    /\ Wallet!Init
    /\ gate \in Collectors
    /\ events = {}
    /\ session = [s \in Sessions |-> Idle]

-----------------------------------------------------------------------------
(* The world outside: time, the kiosk's arrangement, Razorpay.             *)

\* The order's twenty minutes are over.
Lapse(o) ==
    /\ Placed(o) /\ ~orders[o].lapsed
    /\ orders' = [orders EXCEPT ![o] = [orders[o] EXCEPT !.lapsed = TRUE]]
    /\ UNCHANGED <<payments, tasks, balance, spent, gate, events, session>>

\* The kiosk changes hands, loses its keys or subscription, or gets them back.
MoveGate ==
    /\ gate' \in (Collectors \cup {"closed"}) \ {gate}
    /\ UNCHANGED <<orders, payments, tasks, balance, spent, events, session>>

\* The student pays at the checkout; Razorpay captures one payment per checkout,
\* however old the order behind it is.
StudentPays(p) ==
    /\ payments[p].account # "wallet" /\ <<p, "captured">> \notin events
    /\ events' = events \cup {<<p, "captured">>}
    /\ UNCHANGED <<orders, payments, tasks, balance, spent, gate, session>>

\* An attempt at the checkout fails; the student may try again.
AttemptFails(p) ==
    /\ payments[p].account # "wallet"
    /\ <<p, "captured">> \notin events /\ <<p, "failed">> \notin events
    /\ events' = events \cup {<<p, "failed">>}
    /\ UNCHANGED <<orders, payments, tasks, balance, spent, gate, session>>

-----------------------------------------------------------------------------
(* Placing an order, and opening a checkout.                               *)

\* Balance is accepted only where the platform collects.
PlaceOrder(o) ==
    /\ orders[o].state = "unplaced"
    /\ gate # "closed"
    /\ \E method \in {"wallet", "gateway"} :
          /\ method = "wallet" => gate = "platform"
          /\ orders' = [orders EXCEPT ![o] = [state |-> "awaiting_payment", method |-> method,
                                              lapsed |-> FALSE]]
    /\ UNCHANGED <<payments, tasks, balance, spent, gate, events, session>>

Row(o, u, amount, account, status) ==
    [order |-> o, user |-> u, amount |-> amount, account |-> account,
     status |-> status, captured |-> FALSE]

\* The order is read and the collecting account decided, then Razorpay is called.
OpenGatewayCheckout(s, o) ==
    /\ At(s, "idle")
    /\ orders[o].state = "awaiting_payment" /\ orders[o].method = "gateway"
    /\ gate # "closed"
    /\ Set(s, Read("checkout", o, 0, "awaiting_payment", gate))
    /\ UNCHANGED <<orders, payments, tasks, balance, spent, gate, events>>

\* The payment row, with the account decided before Razorpay was called.
OpenCheckout(s) ==
    /\ At(s, "checkout")
    /\ IF Len(payments) < MaxPayments
       THEN /\ LET o == session[s].order
               IN  payments' = Append(payments, Row(o, Buyer[o], Total[o], session[s].account, "created"))
            /\ Set(s, Idle)
            /\ UNCHANGED <<orders, tasks, balance, spent>>
       ELSE Refuse(s)
    /\ UNCHANGED <<gate, events>>

\* A top-up is always the platform's to collect.
OpenTopUp(u, amount) ==
    /\ Len(payments) < MaxPayments
    /\ payments' = Append(payments, Row(None, u, amount, "platform", "created"))
    /\ UNCHANGED <<orders, tasks, balance, spent, gate, events, session>>

-----------------------------------------------------------------------------
(* Paying from the balance.                                                *)

PayFromWallet(s, o) ==
    /\ At(s, "idle")
    /\ Payable(o, orders[o].state) /\ orders[o].method = "wallet"
    /\ Set(s, Read("debit", o, 0, "awaiting_payment", "closed"))
    /\ UNCHANGED <<orders, payments, tasks, balance, spent, gate, events>>

\* Mutant: the prints are queued although the debit was refused.
PayWithWalletUnpaid(s) ==
    /\ At(s, "debit")
    /\ LET o == session[s].order
       IN  /\ tasks' = [tasks EXCEPT ![o] = @ + 1]
           /\ orders' = Moved(o, "paid")
    /\ Set(s, Idle)
    /\ UNCHANGED <<payments, balance, spent, gate, events>>

\* Mutant: no unique reference, so only the balance can refuse.
PayWithWalletAgain(s) ==
    /\ At(s, "debit")
    /\ LET o == session[s].order
           u == Buyer[o]
       IN  /\ balance[u] >= Total[o] /\ Len(payments) < MaxPayments
           /\ balance' = [balance EXCEPT ![u] = @ - Total[o]]
           /\ spent' = [spent EXCEPT ![u] = @ \cup {<<"order", o>>}]
           /\ payments' = Append(payments, Row(o, u, Total[o], "wallet", "captured"))
           /\ orders' = Moved(o, "paid")
           /\ tasks' = [tasks EXCEPT ![o] = @ + 1]
    /\ Set(s, Idle)
    /\ UNCHANGED <<gate, events>>

\* Debit, payment row, PAID and the print tasks in one commit.  The debit is
\* refused when the balance is short or the order's reference is already there.
PayWithWallet(s) ==
    /\ At(s, "debit")
    /\ LET o == session[s].order
           u == Buyer[o]
       IN  IF \/ <<"order", o>> \in spent[u] \/ balance[u] < Total[o]
              \/ Len(payments) = MaxPayments
           THEN Refuse(s)
           ELSE /\ Wallet!Move(u, <<"order", o>>, -Total[o])
                /\ payments' = Append(payments, Row(o, u, Total[o], "wallet", "captured"))
                /\ orders' = Moved(o, "paid")
                /\ tasks' = [tasks EXCEPT ![o] = @ + 1]
                /\ Set(s, Idle)
    /\ UNCHANGED <<gate, events>>

-----------------------------------------------------------------------------
(* A capture, told by the browser or by the webhook.                       *)

\* The browser's callback loads the order and the payment, and takes the keys of
\* whoever collects at the kiosk now.  A capture already recorded is answered
\* with the order as it is.
Verify(s, p) ==
    /\ At(s, "idle")
    /\ <<p, "captured">> \in events
    /\ payments[p].order # None /\ payments[p].status # "captured"
    /\ gate # "closed"
    /\ LET o == payments[p].order
       IN  Set(s, Read("confirm", o, p, orders[o].state, gate))
    /\ UNCHANGED <<orders, payments, tasks, balance, spent, gate, events>>

\* The signature is checked with those keys, the payment row is written, and the
\* order is judged by the copy loaded at the start.
Confirm(s) ==
    /\ At(s, "confirm")
    /\ RowFree(session[s].payment)
    /\ IF /\ session[s].account = payments[session[s].payment].account
          /\ Payable(session[s].order, session[s].seen)
       THEN /\ Set(s, [session[s] EXCEPT !.pc = "settle"])
            /\ UNCHANGED <<orders, payments, tasks, balance, spent>>
       ELSE Refuse(s)
    /\ UNCHANGED <<gate, events>>

WebhookCaptured(s, p) ==
    /\ At(s, "idle")
    /\ <<p, "captured">> \in events
    /\ payments[p].status # "captured"
    /\ Set(s, Read("capture", payments[p].order, p, "unplaced", "closed"))
    /\ UNCHANGED <<orders, payments, tasks, balance, spent, gate, events>>

\* Mutant: the webhook queues the prints without asking whether it may.
CaptureUnchecked(s) ==
    /\ At(s, "capture")
    /\ RowFree(session[s].payment)
    /\ Set(s, [session[s] EXCEPT !.pc = "settle"])
    /\ UNCHANGED <<orders, payments, tasks, balance, spent, gate, events>>

\* The payment row is written first, and only then is the order looked up.  An
\* order that cannot be paid any more raises, and the capture is rolled back.
Capture(s) ==
    /\ At(s, "capture")
    /\ RowFree(session[s].payment)
    /\ LET o == session[s].order
       IN  IF o = None \/ Payable(o, orders[o].state)
           THEN /\ Set(s, [session[s] EXCEPT !.pc = "settle"])
                /\ UNCHANGED <<orders, payments, tasks, balance, spent>>
           ELSE Refuse(s)
    /\ UNCHANGED <<gate, events>>

\* The order becomes PAID and its prints are queued, with the capture.
MarkPaid(s) ==
    /\ At(s, "settle") /\ session[s].order # None
    /\ payments' = Recorded(session[s].payment)
    /\ orders' = Moved(session[s].order, "paid")
    /\ tasks' = [tasks EXCEPT ![session[s].order] = @ + 1]
    /\ Set(s, Idle)
    /\ UNCHANGED <<balance, spent, gate, events>>

\* Mutant: the capture of a top-up is recorded and the credit is left for later.
SettleWalletTopUpUncredited(s) ==
    /\ At(s, "settle") /\ session[s].order = None
    /\ payments' = Recorded(session[s].payment)
    /\ Set(s, Idle)
    /\ UNCHANGED <<orders, tasks, balance, spent, gate, events>>

\* A top-up is credited under its Razorpay id; a reference already in the ledger
\* raises and takes the capture with it.
SettleWalletTopUp(s) ==
    /\ At(s, "settle") /\ session[s].order = None
    /\ LET p == session[s].payment
       IN  IF <<"topup", p>> \in spent[payments[p].user]
           THEN Refuse(s)
           ELSE /\ Wallet!Move(payments[p].user, <<"topup", p>>, payments[p].amount)
                /\ payments' = Recorded(p)
                /\ Set(s, Idle)
                /\ UNCHANGED <<orders, tasks>>
    /\ UNCHANGED <<gate, events>>

-----------------------------------------------------------------------------
(* A failure, the sweep, the printers' news, and a request that dies.      *)

\* Mutant: the failure is recorded whatever the payment's status is.
WebhookFailedUnchecked(s, p) ==
    /\ At(s, "idle")
    /\ <<p, "failed">> \in events
    /\ Set(s, Read("fail", payments[p].order, p, "unplaced", "closed"))
    /\ UNCHANGED <<orders, payments, tasks, balance, spent, gate, events>>

\* Loaded as captured, the event is ignored; loaded as failed, there is nothing to
\* write.
WebhookFailed(s, p) ==
    /\ At(s, "idle")
    /\ <<p, "failed">> \in events
    /\ payments[p].status = "created"
    /\ Set(s, Read("fail", payments[p].order, p, "unplaced", "closed"))
    /\ UNCHANGED <<orders, payments, tasks, balance, spent, gate, events>>

\* The status column is overwritten, whatever it has become since.
RecordFailure(s) ==
    /\ At(s, "fail")
    /\ RowFree(session[s].payment)
    /\ LET p == session[s].payment
       IN  payments' = [payments EXCEPT ![p] = [payments[p] EXCEPT !.status = "failed"]]
    /\ Set(s, Idle)
    /\ UNCHANGED <<orders, tasks, balance, spent, gate, events>>

\* Mutant: the sweep takes every order past its expiry.
ExpireStaleOrdersAnyState(s) ==
    /\ At(s, "idle")
    /\ LET stale == {o \in Orders : Placed(o) /\ orders[o].lapsed}
       IN  stale # {} /\ Set(s, [Idle EXCEPT !.pc = "expire", !.stale = stale])
    /\ UNCHANGED <<orders, payments, tasks, balance, spent, gate, events>>

\* The sweep selects, and updates what it selected when the job commits.
ExpireStaleOrders(s) ==
    /\ At(s, "idle")
    /\ LET stale == {o \in Orders : orders[o].state = "awaiting_payment" /\ orders[o].lapsed}
       IN  stale # {} /\ Set(s, [Idle EXCEPT !.pc = "expire", !.stale = stale])
    /\ UNCHANGED <<orders, payments, tasks, balance, spent, gate, events>>

Expire(s) ==
    /\ At(s, "expire")
    /\ orders' = [o \in Orders |-> IF o \in session[s].stale
                                   THEN [orders[o] EXCEPT !.state = "expired"] ELSE orders[o]]
    /\ Set(s, Idle)
    /\ UNCHANGED <<payments, tasks, balance, spent, gate, events>>

\* A print of an order in flight has changed: the order's state is derived anew.
RefreshOrderState(o) ==
    /\ orders[o].state \in {"paid", "dispatched"}
    /\ \E state \in {"dispatched", "completed", "partially_failed"} :
          orders' = Moved(o, state)
    /\ UNCHANGED <<payments, tasks, balance, spent, gate, events, session>>

\* The handler raised, or its worker died: nothing it wrote stays.
Rollback(s) ==
    /\ ~At(s, "idle")
    /\ Refuse(s)
    /\ UNCHANGED <<gate, events>>

-----------------------------------------------------------------------------

Request(s) ==
    \/ \E o \in Orders : PayFromWallet(s, o) \/ OpenGatewayCheckout(s, o)
    \/ \E p \in DOMAIN payments : Verify(s, p) \/ WebhookCaptured(s, p) \/ WebhookFailed(s, p)
    \/ ExpireStaleOrders(s)

Settle(s) == MarkPaid(s) \/ SettleWalletTopUp(s)

Finish(s) ==
    \/ PayWithWallet(s)
    \/ OpenCheckout(s)
    \/ Confirm(s)
    \/ Capture(s)
    \/ Settle(s)
    \/ RecordFailure(s)
    \/ Expire(s)

Next ==
    \/ \E o \in Orders : PlaceOrder(o) \/ Lapse(o) \/ RefreshOrderState(o)
    \/ \E u \in Users, amount \in TopUps : OpenTopUp(u, amount)
    \/ \E p \in DOMAIN payments : StudentPays(p) \/ AttemptFails(p)
    \/ MoveGate
    \/ \E s \in Sessions : Request(s) \/ Finish(s) \/ Rollback(s)

Spec == Init /\ [][Next]_vars

\* Razorpay delivers a captured event again until it is answered with success, and
\* no worker dies in every one of the deliveries of one event; any request that
\* has started runs on.
FairSpec ==
    /\ Spec
    /\ \A p \in 1..MaxPayments :
          /\ SF_vars(p \in DOMAIN payments /\ \E s \in Sessions : WebhookCaptured(s, p))
          /\ SF_vars(p \in DOMAIN payments /\ \E s \in Sessions : session[s].payment = p /\ Capture(s))
          /\ SF_vars(p \in DOMAIN payments /\ \E s \in Sessions : session[s].payment = p /\ Settle(s))
    /\ \A s \in Sessions : SF_vars(Finish(s))

-----------------------------------------------------------------------------
(* Properties                                                              *)

TypeOK ==
    /\ orders \in [Orders -> Order]
    /\ payments \in Seq(Payment) /\ Len(payments) <= MaxPayments
    /\ tasks \in [Orders -> Nat]
    /\ balance \in [Users -> Int]
    /\ spent \in [Users -> SUBSET (({"order"} \X Orders) \cup ({"topup"} \X (1..MaxPayments)))]
    /\ gate \in Collectors \cup {"closed"}
    /\ events \subseteq (1..Len(payments)) \X {"captured", "failed"}
    /\ session \in [Sessions -> SessionState]

\* What a payment row says it bought is paid for: by a debit in the ledger, or by
\* a capture that really happened at Razorpay.
PaidFor(p) ==
    IF payments[p].account = "wallet"
    THEN <<"order", payments[p].order>> \in spent[payments[p].user]
    ELSE payments[p].captured /\ <<p, "captured">> \in events

\* "Paid but never printed" does not exist, nor printed but never paid: prints are
\* queued for an order exactly when money for it is on the books, and a balance is
\* debited for an order only with its prints, however requests race or die.
MoneyBuysPrints ==
    \A o \in Orders :
        /\ tasks[o] > 0 <=> \E p \in DOMAIN payments : payments[p].order = o /\ PaidFor(p)
        /\ <<"order", o>> \in spent[Buyer[o]] => tasks[o] > 0

\* An order paid from the balance is bought once: retries and double presses that
\* race each other past every check still leave one debit, one payment, one print.
WalletOrdersBoughtOnce ==
    \A o \in Orders :
        orders[o].method = "wallet" =>
            /\ tasks[o] <= 1
            /\ tasks[o] = Cardinality({p \in DOMAIN payments : payments[p].order = o})

\* A top-up is credited exactly when its capture is recorded, once, whichever of
\* a redelivered event's requests gets there.
TopUpsCreditedWithCapture ==
    \A p \in DOMAIN payments :
        payments[p].order = None =>
            (payments[p].captured <=> <<"topup", p>> \in spent[payments[p].user])

\* The prints of an order are queued once, by whichever of the callback and the
\* webhook comes first.  True of requests served one at a time.
PrintsOnce == \A o \in Orders : tasks[o] <= 1

\* An order that expired was not paid for: the sweep never closes an order whose
\* prints are queued.
ExpiredOrdersBoughtNothing == \A o \in Orders : orders[o].state = "expired" => tasks[o] = 0

\* Money that has arrived is not un-arrived by a late failure.
ArrivedMoneyStays ==
    \A p \in DOMAIN payments : payments[p].captured => payments[p].status = "captured"

\* What a student paid at a checkout comes to be on the books, order or no order.
MoneyIsRecorded ==
    \A p \in 1..MaxPayments :
        <<p, "captured">> \in events ~> p \in DOMAIN payments /\ payments[p].captured

\* The same of top-ups, which nothing can expire.
TopUpsAreCredited ==
    \A p \in 1..MaxPayments :
        <<p, "captured">> \in events /\ payments[p].order = None
            ~> p \in DOMAIN payments /\ <<"topup", p>> \in spent[payments[p].user]

\* payment_for_order: the newest payment row of an order.
PaymentForOrder(o) ==
    CHOOSE p \in DOMAIN payments :
        /\ payments[p].order = o
        /\ \A q \in DOMAIN payments : payments[q].order = o => q <= p

\* The payment found for an order in flight is the one that settled it.
PaymentFoundSettledTheOrder ==
    \A o \in Orders : tasks[o] > 0 => PaidFor(PaymentForOrder(o))

\* A callback is checked against the key that opened its checkout.
KeyOpenedTheCheckout ==
    \A s \in Sessions :
        At(s, "confirm") => session[s].account = payments[session[s].payment].account

\* Balance is only ever spent where the platform also collects.
BalanceSpentAtPlatformKiosks ==
    [][\A s \in Sessions : PayWithWallet(s) /\ spent' # spent => gate = "platform"]_vars
=============================================================================
