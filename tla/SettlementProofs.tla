-------------------------- MODULE SettlementProofs --------------------------
(***************************************************************************)
(* Proofs about Settlement for every set of students, orders, owners and   *)
(* sessions, and any bound on payment rows.                                *)
(*                                                                         *)
(* MoneyBuysPrints needs two facts beside it: what a request in flight has *)
(* read is about rows that exist and never change their order or account   *)
(* (RequestsAreGrounded), and what a row claims is in the ledger or at     *)
(* Razorpay (RowsAreBacked).  They hold however requests interleave.       *)
(*                                                                         *)
(* Bought once: a row goes with the method of its order, which never        *)
(* changes (RowsFollowTheirOrders), and a wallet order has no row and no    *)
(* prints, or one and one (WalletOrdersOnce).  What holds where requests    *)
(* take turns needs that what the one request read is still so (SerialInv). *)
(***************************************************************************)
EXTENDS Settlement, FiniteSetTheorems, TLAPS

Rows == 1..Len(payments)

\* What the request st serves has been loaded from rows that exist.
Grounded(st) ==
    /\ st.pc \in {"debit", "checkout", "confirm"} => st.order \in Orders
    /\ st.pc = "debit" => Placed(st.order) /\ orders[st.order].method = "wallet"
    /\ st.pc = "checkout" => Placed(st.order) /\ orders[st.order].method = "gateway"
    /\ st.pc \in {"checkout", "confirm"} => st.account \in Collectors
    /\ st.pc \in {"confirm", "capture", "settle", "fail"} =>
          /\ st.payment \in Rows
          /\ st.order = payments[st.payment].order
          /\ payments[st.payment].account # "wallet"
    /\ st.pc \in {"confirm", "capture", "settle"} => <<st.payment, "captured">> \in events

RequestsAreGrounded ==
    /\ \A s \in Sessions : Grounded(session[s])
    /\ \A e \in events : payments[e[1]].account # "wallet"

RowsAreBacked ==
    /\ \A p \in Rows :
          /\ payments[p].captured => <<p, "captured">> \in events
          /\ payments[p].account = "wallet" =>
                /\ payments[p].order \in Orders /\ payments[p].user = Buyer[payments[p].order]
                /\ <<"order", payments[p].order>> \in spent[payments[p].user]
    /\ \A u \in Users, p \in 1..MaxPayments : <<"topup", p>> \in spent[u] => p \in Rows

GroundInv == TypeOK /\ RequestsAreGrounded /\ RowsAreBacked

-----------------------------------------------------------------------------

LEMMA IdleType == Idle \in SessionState /\ Grounded(Idle)
  BY DEF Idle, Read, SessionState, PC, OrderState, Grounded

LEMMA AppendRow ==
  ASSUME NEW l \in Seq(Payment), NEW row \in Payment
  PROVE  /\ Append(l, row) \in Seq(Payment)
         /\ Len(Append(l, row)) = Len(l) + 1
         /\ \A p \in 1..Len(l) : Append(l, row)[p] = l[p]
         /\ Append(l, row)[Len(l) + 1] = row
  OBVIOUS

LEMMA WriteRow ==
  ASSUME NEW l \in Seq(Payment), NEW p \in 1..Len(l), NEW row \in Payment
  PROVE  /\ [l EXCEPT ![p] = row] \in Seq(Payment)
         /\ Len([l EXCEPT ![p] = row]) = Len(l)
         /\ \A q \in 1..Len(l) : [l EXCEPT ![p] = row][q] = IF q = p THEN row ELSE l[q]
  OBVIOUS

LEMMA RowType ==
  ASSUME NEW o \in Orders \cup {None}, NEW u \in Users, NEW amount \in Nat \ {0},
         NEW account \in Collectors \cup {"wallet"}, NEW status \in PaymentStatus
  PROVE  Row(o, u, amount, account, status) \in Payment
  BY DEF Row, Payment

LEMMA ChangedRowType ==
  ASSUME NEW row \in Payment
  PROVE  /\ [row EXCEPT !.status = "captured", !.captured = TRUE] \in Payment
         /\ [row EXCEPT !.status = "failed"] \in Payment
  BY DEF Payment, PaymentStatus

LEMMA OrderWrites ==
  ASSUME TypeOK, NEW o \in Orders, NEW state \in OrderState
  PROVE  /\ Moved(o, state) \in [Orders -> Order]
         /\ [orders EXCEPT ![o] = [orders[o] EXCEPT !.lapsed = TRUE]] \in [Orders -> Order]
  <1>1. orders[o] \in Order
    BY DEF TypeOK
  <1>2. [orders[o] EXCEPT !.state = state] \in Order /\ [orders[o] EXCEPT !.lapsed = TRUE] \in Order
    BY <1>1 DEF Order
  <1>3. QED
    BY <1>2 DEF TypeOK, Moved

LEMMA SessionType ==
  ASSUME TypeOK, NEW s \in Sessions
  PROVE  /\ session[s] \in SessionState
         /\ session[s].pc \in PC /\ session[s].order \in Orders \cup {None}
         /\ session[s].payment \in Nat /\ session[s].seen \in OrderState
         /\ session[s].account \in Collectors \cup {"closed"} /\ session[s].stale \subseteq Orders
  BY DEF TypeOK, SessionState

LEMMA RowsType ==
  ASSUME TypeOK
  PROVE  /\ Len(payments) \in Nat /\ DOMAIN payments = Rows
         /\ \A p \in Rows : /\ payments[p] \in Payment
                            /\ payments[p].order \in Orders \cup {None}
                            /\ payments[p].user \in Users
                            /\ payments[p].amount \in Nat \ {0}
                            /\ payments[p].account \in Collectors \cup {"wallet"}
                            /\ payments[p].status \in PaymentStatus
                            /\ payments[p].captured \in BOOLEAN
                            /\ p \in 1..MaxPayments
  <1>1. payments \in Seq(Payment) /\ Len(payments) \in Nat /\ Len(payments) <= MaxPayments
        /\ MaxPayments \in Nat
    BY SettlementAssumption DEF TypeOK
  <1>2. DOMAIN payments = Rows /\ \A p \in Rows : payments[p] \in Payment /\ p \in 1..MaxPayments
    BY <1>1 DEF Rows
  <1>3. \A row \in Payment : /\ row.order \in Orders \cup {None} /\ row.user \in Users
                             /\ row.amount \in Nat \ {0}
                             /\ row.account \in Collectors \cup {"wallet"}
                             /\ row.status \in PaymentStatus /\ row.captured \in BOOLEAN
    BY DEF Payment
  <1>4. QED
    BY <1>1, <1>2, <1>3

-----------------------------------------------------------------------------
(* What a step does to the books: nothing, or one of five things.          *)

Quiet == UNCHANGED <<payments, tasks, spent>> /\ events \subseteq events'

CheckoutOpened ==
    \E row \in Payment :
        /\ payments' = Append(payments, row) /\ ~row.captured /\ row.account # "wallet"
        /\ row.order = None \/ \E s \in Sessions : At(s, "checkout") /\ session[s].order = row.order
        /\ UNCHANGED <<tasks, spent, events>>

OrderDebited ==
    \E o \in Orders :
        /\ \E s \in Sessions : At(s, "debit") /\ session[s].order = o
        /\ payments' = Append(payments, Row(o, Buyer[o], Total[o], "wallet", "captured"))
        /\ tasks' = [tasks EXCEPT ![o] = tasks[o] + 1]
        /\ spent' = [spent EXCEPT ![Buyer[o]] = spent[Buyer[o]] \cup {<<"order", o>>}]
        /\ <<"order", o>> \notin spent[Buyer[o]]
        /\ UNCHANGED events

OrderCaptured ==
    \E p \in Rows :
        /\ payments[p].order \in Orders /\ payments[p].account # "wallet"
        /\ <<p, "captured">> \in events
        /\ payments' = Recorded(p)
        /\ tasks' = [tasks EXCEPT ![payments[p].order] = tasks[payments[p].order] + 1]
        /\ UNCHANGED <<spent, events>>

TopUpCaptured ==
    \E p \in Rows :
        /\ payments[p].order = None /\ <<p, "captured">> \in events
        /\ payments' = Recorded(p)
        /\ spent' = [spent EXCEPT ![payments[p].user] =
                        spent[payments[p].user] \cup {<<"topup", p>>}]
        /\ UNCHANGED <<tasks, events>>

CheckoutFailed ==
    \E p \in Rows :
        /\ \E s \in Sessions : At(s, "fail") /\ session[s].payment = p
        /\ payments' = [payments EXCEPT ![p] = [payments[p] EXCEPT !.status = "failed"]]
        /\ UNCHANGED <<tasks, spent, events>>

LEMMA StepEffects ==
  ASSUME TypeOK, RequestsAreGrounded, [Next]_vars
  PROVE  Quiet \/ CheckoutOpened \/ OrderDebited \/ OrderCaptured \/ TopUpCaptured \/ CheckoutFailed
  <1> USE RowsType
  <1>1. CASE UNCHANGED vars
    BY <1>1 DEF vars, Quiet
  <1>2. ASSUME NEW o \in Orders, PlaceOrder(o) \/ Lapse(o) \/ RefreshOrderState(o)
        PROVE  Quiet
    BY <1>2 DEF PlaceOrder, Lapse, RefreshOrderState, Quiet
  <1>3. ASSUME NEW u \in Users, NEW amount \in TopUps, OpenTopUp(u, amount)
        PROVE  CheckoutOpened
    <2>1. Row(None, u, amount, "platform", "created") \in Payment
      BY RowType, SettlementAssumption DEF Collectors, PaymentStatus
    <2>2. /\ ~Row(None, u, amount, "platform", "created").captured
          /\ Row(None, u, amount, "platform", "created").account # "wallet"
          /\ Row(None, u, amount, "platform", "created").order = None
      BY DEF Row
    <2>3. QED
      BY <1>3, <2>1, <2>2 DEF OpenTopUp, CheckoutOpened
  <1>4. ASSUME NEW p \in DOMAIN payments, StudentPays(p) \/ AttemptFails(p)
        PROVE  Quiet
    BY <1>4 DEF StudentPays, AttemptFails, Quiet
  <1>5. CASE MoveGate
    BY <1>5 DEF MoveGate, Quiet
  <1>6. ASSUME NEW s \in Sessions, Request(s) \/ Rollback(s) \/ Confirm(s) \/ Capture(s) \/ Expire(s)
        PROVE  Quiet
    <2>1. CASE Rollback(s) \/ Confirm(s) \/ Capture(s) \/ Expire(s)
      BY <2>1 DEF Rollback, Confirm, Capture, Expire, Refuse, Quiet
    <2>2. CASE Request(s)
      BY <2>2 DEF Request, PayFromWallet, OpenGatewayCheckout, Verify, WebhookCaptured,
                  WebhookFailed, ExpireStaleOrders, Quiet
    <2>3. QED
      BY <1>6, <2>1, <2>2
  <1>7. ASSUME NEW s \in Sessions, OpenCheckout(s)
        PROVE  Quiet \/ CheckoutOpened
    <2>1. session[s].order \in Orders /\ session[s].account \in Collectors
      BY <1>7 DEF OpenCheckout, At, RequestsAreGrounded, Grounded
    <2>2. PICK o \in Orders, account \in Collectors : o = session[s].order /\ account = session[s].account
      BY <2>1
    <2> DEFINE row == Row(o, Buyer[o], Total[o], account, "created")
    <2>3. row \in Payment /\ ~row.captured /\ row.account # "wallet" /\ row.order = o
      <3>1. row \in Payment
        BY RowType, SettlementAssumption DEF PaymentStatus
      <3>2. row.captured = FALSE /\ row.account = account /\ row.order = o
        BY DEF Row
      <3>3. QED
        BY <3>1, <3>2, SettlementAssumption DEF Collectors
    <2>4. CASE Refuse(s) /\ UNCHANGED events
      BY <2>4 DEF Refuse, Quiet
    <2>5. CASE payments' = Append(payments, row) /\ UNCHANGED <<tasks, spent, events>>
      <3>1. At(s, "checkout") /\ session[s].order = row.order
        BY <1>7, <2>2, <2>3 DEF OpenCheckout
      <3>2. QED
        BY <2>3, <2>5, <3>1 DEF CheckoutOpened
    <2>6. QED
      BY <1>7, <2>2, <2>4, <2>5 DEF OpenCheckout
  <1>8. ASSUME NEW s \in Sessions, PayWithWallet(s)
        PROVE  Quiet \/ OrderDebited
    <2>1. session[s].order \in Orders
      BY <1>8 DEF PayWithWallet, At, RequestsAreGrounded, Grounded
    <2>2. PICK o \in Orders : o = session[s].order
      BY <2>1
    <2>3. CASE Refuse(s) /\ UNCHANGED events
      BY <2>3 DEF Refuse, Quiet
    <2>4. CASE /\ Wallet!Move(Buyer[o], <<"order", o>>, -Total[o])
               /\ payments' = Append(payments, Row(o, Buyer[o], Total[o], "wallet", "captured"))
               /\ tasks' = [tasks EXCEPT ![o] = @ + 1]
               /\ UNCHANGED events
      <3>1. At(s, "debit")
        BY <1>8 DEF PayWithWallet
      <3>2. QED
        BY <2>2, <2>4, <3>1 DEF OrderDebited, Wallet!Move
    <2>5. QED
      BY <1>8, <2>2, <2>3, <2>4 DEF PayWithWallet
  <1>9. ASSUME NEW s \in Sessions, MarkPaid(s)
        PROVE  OrderCaptured
    <2>1. /\ session[s].payment \in Rows /\ session[s].order = payments[session[s].payment].order
          /\ payments[session[s].payment].account # "wallet"
          /\ <<session[s].payment, "captured">> \in events
      BY <1>9 DEF MarkPaid, At, RequestsAreGrounded, Grounded
    <2>2. QED
      BY <1>9, <2>1 DEF MarkPaid, OrderCaptured
  <1>10. ASSUME NEW s \in Sessions, SettleWalletTopUp(s)
         PROVE  Quiet \/ TopUpCaptured
    <2>1. /\ session[s].payment \in Rows /\ session[s].order = payments[session[s].payment].order
          /\ <<session[s].payment, "captured">> \in events
      BY <1>10 DEF SettleWalletTopUp, At, RequestsAreGrounded, Grounded
    <2>2. PICK p \in Rows : p = session[s].payment
      BY <2>1
    <2>3. CASE Refuse(s) /\ UNCHANGED events
      BY <2>3 DEF Refuse, Quiet
    <2>4. CASE /\ Wallet!Move(payments[p].user, <<"topup", p>>, payments[p].amount)
               /\ payments' = Recorded(p) /\ UNCHANGED <<tasks, events>>
      BY <1>10, <2>1, <2>2, <2>4 DEF TopUpCaptured, Wallet!Move, SettleWalletTopUp
    <2>5. QED
      BY <1>10, <2>2, <2>3, <2>4 DEF SettleWalletTopUp
  <1>11. ASSUME NEW s \in Sessions, RecordFailure(s)
         PROVE  CheckoutFailed
    BY <1>11 DEF RecordFailure, CheckoutFailed, At, RequestsAreGrounded, Grounded
  <1>12. QED
    BY <1>1, <1>2, <1>3, <1>4, <1>5, <1>6, <1>7, <1>8, <1>9, <1>10, <1>11
    DEF Next, Finish, Settle

-----------------------------------------------------------------------------
(* Rows are appended and change their status, never what they are for.     *)

LEMMA RowsKeepTheirPurpose ==
  ASSUME TypeOK, RequestsAreGrounded, [Next]_vars
  PROVE  /\ payments' \in Seq(Payment) /\ Len(payments') \in Nat /\ Len(payments) <= Len(payments')
         /\ \A p \in Rows : /\ payments'[p].order = payments[p].order
                            /\ payments'[p].user = payments[p].user
                            /\ payments'[p].account = payments[p].account
         /\ events \subseteq events'
  <1> USE RowsType
  <1>1. payments \in Seq(Payment)
    BY DEF TypeOK
  <1>2. CASE Quiet
    BY <1>1, <1>2 DEF Quiet
  <1>3. CASE CheckoutOpened
    BY <1>1, <1>3, AppendRow DEF CheckoutOpened, Rows
  <1>4. CASE OrderDebited
    <2>1. PICK o \in Orders :
             payments' = Append(payments, Row(o, Buyer[o], Total[o], "wallet", "captured"))
      BY <1>4 DEF OrderDebited
    <2>2. Row(o, Buyer[o], Total[o], "wallet", "captured") \in Payment
      BY RowType, SettlementAssumption DEF PaymentStatus
    <2>3. QED
      BY <1>1, <1>4, <2>1, <2>2, AppendRow DEF OrderDebited, Rows
  <1>5. ASSUME NEW p \in Rows, NEW row \in Payment, payments' = [payments EXCEPT ![p] = row],
               row.order = payments[p].order, row.user = payments[p].user,
               row.account = payments[p].account
        PROVE  /\ payments' \in Seq(Payment) /\ Len(payments') = Len(payments)
               /\ \A q \in Rows : /\ payments'[q].order = payments[q].order
                                  /\ payments'[q].user = payments[q].user
                                  /\ payments'[q].account = payments[q].account
    BY <1>1, <1>5, WriteRow DEF Rows
  <1>6. \A p \in Rows : LET row == [payments[p] EXCEPT !.status = "captured", !.captured = TRUE]
                        IN  /\ row \in Payment /\ row.order = payments[p].order
                            /\ row.user = payments[p].user /\ row.account = payments[p].account
    BY ChangedRowType DEF Payment
  <1>7. \A p \in Rows : LET row == [payments[p] EXCEPT !.status = "failed"]
                        IN  /\ row \in Payment /\ row.order = payments[p].order
                            /\ row.user = payments[p].user /\ row.account = payments[p].account
    BY ChangedRowType DEF Payment
  <1>8. CASE OrderCaptured \/ TopUpCaptured
    <2>1. PICK p \in Rows : payments' = Recorded(p) /\ events' = events
      BY <1>8 DEF OrderCaptured, TopUpCaptured
    <2>2. PICK row \in Payment : /\ payments' = [payments EXCEPT ![p] = row]
                                 /\ row.order = payments[p].order /\ row.user = payments[p].user
                                 /\ row.account = payments[p].account
      BY <1>6, <2>1 DEF Recorded
    <2>3. /\ payments' \in Seq(Payment) /\ Len(payments') = Len(payments)
          /\ \A q \in Rows : /\ payments'[q].order = payments[q].order
                             /\ payments'[q].user = payments[q].user
                             /\ payments'[q].account = payments[q].account
      BY <1>5, <2>2
    <2>4. QED
      BY <2>1, <2>3, <1>1
  <1>9. CASE CheckoutFailed
    <2>1. PICK p \in Rows : payments' = [payments EXCEPT ![p] = [payments[p] EXCEPT !.status = "failed"]]
                            /\ events' = events
      BY <1>9 DEF CheckoutFailed
    <2>2. PICK row \in Payment : /\ payments' = [payments EXCEPT ![p] = row]
                                 /\ row.order = payments[p].order /\ row.user = payments[p].user
                                 /\ row.account = payments[p].account
      BY <1>7, <2>1 DEF Recorded
    <2>3. /\ payments' \in Seq(Payment) /\ Len(payments') = Len(payments)
          /\ \A q \in Rows : /\ payments'[q].order = payments[q].order
                             /\ payments'[q].user = payments[q].user
                             /\ payments'[q].account = payments[q].account
      BY <1>5, <2>2
    <2>4. QED
      BY <2>1, <2>3, <1>1
  <1>10. QED
    BY StepEffects, <1>2, <1>3, <1>4, <1>8, <1>9

-----------------------------------------------------------------------------
(* Types.                                                                  *)

LEMMA SessionSteps ==
  ASSUME TypeOK, RequestsAreGrounded, NEW s \in Sessions, Request(s) \/ Finish(s) \/ Rollback(s)
  PROVE  \E st \in SessionState : Grounded(st) /\ session' = [session EXCEPT ![s] = st]
  <1> USE DEF Set
  <1>1. ASSUME NEW o \in Orders, PayFromWallet(s, o)
        PROVE  \E st \in SessionState : Grounded(st) /\ session' = [session EXCEPT ![s] = st]
    BY <1>1 DEF PayFromWallet, Payable, Placed, Read, SessionState, PC, OrderState, Grounded
  <1>2. ASSUME NEW o \in Orders, OpenGatewayCheckout(s, o)
        PROVE  \E st \in SessionState : Grounded(st) /\ session' = [session EXCEPT ![s] = st]
    BY <1>2 DEF OpenGatewayCheckout, Placed, Read, SessionState, PC, OrderState, Grounded, TypeOK
  <1>3. ASSUME NEW p \in DOMAIN payments, Verify(s, p)
        PROVE  \E st \in SessionState : Grounded(st) /\ session' = [session EXCEPT ![s] = st]
    <2>1. payments[p].order \in Orders /\ p \in Nat /\ p \in Rows /\ payments[p].account # "wallet"
      BY <1>3, RowsType DEF Rows, Verify, RequestsAreGrounded
    <2>2. orders[payments[p].order].state \in OrderState /\ gate \in Collectors
      BY <1>3, <2>1 DEF Verify, TypeOK, Order
    <2>3. PICK o \in Orders, seen \in OrderState, account \in Collectors :
             o = payments[p].order /\ seen = orders[o].state /\ account = gate
      BY <2>1, <2>2
    <2> DEFINE st == [pc |-> "confirm", order |-> o, payment |-> p, seen |-> seen,
                      account |-> account, stale |-> {}]
    <2>4. st \in SessionState
      BY <2>1 DEF SessionState, PC
    <2>5. Grounded(st)
      BY <1>3, <2>1, <2>3 DEF Grounded, Verify
    <2>6. session' = [session EXCEPT ![s] = st]
      BY <1>3, <2>3 DEF Verify, Read
    <2>7. QED
      BY <2>4, <2>5, <2>6
  <1>4. ASSUME NEW p \in DOMAIN payments, WebhookCaptured(s, p) \/ WebhookFailed(s, p)
        PROVE  \E st \in SessionState : Grounded(st) /\ session' = [session EXCEPT ![s] = st]
    <2>1. payments[p].order \in Orders \cup {None} /\ p \in Nat /\ p \in Rows
          /\ payments[p].account # "wallet"
      BY <1>4, RowsType DEF Rows, WebhookCaptured, WebhookFailed, RequestsAreGrounded
    <2>2. PICK o \in Orders \cup {None}, pc \in {"capture", "fail"} :
             /\ o = payments[p].order
             /\ pc = "capture" => <<p, "captured">> \in events
             /\ session' = [session EXCEPT ![s] = Read(pc, o, p, "unplaced", "closed")]
      BY <1>4, <2>1 DEF WebhookCaptured, WebhookFailed
    <2> DEFINE st == [pc |-> pc, order |-> o, payment |-> p, seen |-> "unplaced",
                      account |-> "closed", stale |-> {}]
    <2>3. st \in SessionState
      BY <2>1 DEF SessionState, PC, OrderState
    <2>4. Grounded(st)
      BY <2>1, <2>2 DEF Grounded
    <2>5. session' = [session EXCEPT ![s] = st]
      BY <2>2 DEF Read
    <2>6. QED
      BY <2>3, <2>4, <2>5
  <1>5. CASE ExpireStaleOrders(s)
    BY <1>5 DEF ExpireStaleOrders, Idle, Read, SessionState, PC, OrderState, Grounded
  <1>6. ASSUME At(s, "confirm") \/ At(s, "capture")
        PROVE  LET st == [session[s] EXCEPT !.pc = "settle"] IN st \in SessionState /\ Grounded(st)
    <2> DEFINE st == [session[s] EXCEPT !.pc = "settle"]
    <2>1. /\ st \in SessionState /\ st.pc = "settle" /\ st.payment = session[s].payment
          /\ st.order = session[s].order
      BY SessionType DEF SessionState, PC
    <2>2. QED
      BY <1>6, <2>1 DEF At, RequestsAreGrounded, Grounded
  <1>7. CASE Finish(s) \/ Rollback(s)
    BY <1>6, <1>7, IdleType DEF Finish, Settle, PayWithWallet, OpenCheckout, Confirm, Capture,
       MarkPaid, SettleWalletTopUp, RecordFailure, Expire, Rollback, Refuse
  <1>8. QED
    BY <1>1, <1>2, <1>3, <1>4, <1>5, <1>7 DEF Request

LEMMA NextSession ==
  ASSUME TypeOK, RequestsAreGrounded, [Next]_vars
  PROVE  session' \in [Sessions -> SessionState]
  <1>1. CASE UNCHANGED session
    BY <1>1 DEF TypeOK
  <1>2. ASSUME NEW s \in Sessions, Request(s) \/ Finish(s) \/ Rollback(s)
        PROVE  session' \in [Sessions -> SessionState]
    BY <1>2, SessionSteps DEF TypeOK
  <1>3. QED
    BY <1>1, <1>2 DEF Next, vars, PlaceOrder, Lapse, RefreshOrderState, OpenTopUp,
       StudentPays, AttemptFails, MoveGate

LEMMA PlacedOrdersKeepTheirMethod ==
  ASSUME TypeOK, [Next]_vars, NEW o \in Orders, Placed(o)
  PROVE  Placed(o)' /\ orders'[o].method = orders[o].method
  <1>1. orders \in [Orders -> Order] /\ orders[o] \in Order
    BY DEF TypeOK
  <1>2. CASE UNCHANGED orders
    BY <1>2 DEF Placed
  <1>3. ASSUME NEW c, NEW state, state # "unplaced", orders' = Moved(c, state)
        PROVE  Placed(o)' /\ orders'[o].method = orders[o].method
    BY <1>1, <1>3 DEF Moved, Placed, Order
  <1>4. ASSUME NEW c \in Orders, PlaceOrder(c) \/ Lapse(c) \/ RefreshOrderState(c)
        PROVE  Placed(o)' /\ orders'[o].method = orders[o].method
    <2>1. CASE PlaceOrder(c)
      BY <1>1, <2>1 DEF PlaceOrder, Placed, Order
    <2>2. CASE Lapse(c)
      BY <1>1, <2>2 DEF Lapse, Placed, Order
    <2>3. CASE RefreshOrderState(c)
      BY <1>3, <2>3 DEF RefreshOrderState
    <2>4. QED
      BY <1>4, <2>1, <2>2, <2>3
  <1>5. ASSUME NEW s \in Sessions, PayWithWallet(s) \/ MarkPaid(s)
        PROVE  Placed(o)' /\ orders'[o].method = orders[o].method
    BY <1>2, <1>3, <1>5 DEF PayWithWallet, MarkPaid, Refuse
  <1>6. ASSUME NEW s \in Sessions, Expire(s)
        PROVE  Placed(o)' /\ orders'[o].method = orders[o].method
    BY <1>1, <1>6 DEF Expire, Placed, Order
  <1>7. ASSUME NEW s \in Sessions,
               Request(s) \/ Rollback(s) \/ OpenCheckout(s) \/ Confirm(s) \/ Capture(s)
                          \/ SettleWalletTopUp(s) \/ RecordFailure(s)
        PROVE  UNCHANGED orders
    BY <1>7 DEF Request, Rollback, OpenCheckout, Confirm, Capture, SettleWalletTopUp, RecordFailure,
       Refuse, PayFromWallet, OpenGatewayCheckout, Verify, WebhookCaptured, WebhookFailed,
       ExpireStaleOrders
  <1>8. QED
    BY <1>2, <1>4, <1>5, <1>6, <1>7 DEF Next, Finish, Settle, vars, OpenTopUp, StudentPays,
       AttemptFails, MoveGate

LEMMA GroundedStays ==
  ASSUME TypeOK, RequestsAreGrounded, [Next]_vars, NEW st \in SessionState, Grounded(st)
  PROVE  Grounded(st)'
  <1>1. /\ st.pc \in {"debit", "checkout", "confirm"} => st.order \in Orders
        /\ st.pc \in {"checkout", "confirm"} => st.account \in Collectors
        /\ st.pc \in {"confirm", "capture", "settle", "fail"} =>
              /\ st.payment \in 1..Len(payments')
              /\ st.order = payments'[st.payment].order
              /\ payments'[st.payment].account # "wallet"
        /\ st.pc \in {"confirm", "capture", "settle"} => <<st.payment, "captured">> \in events'
    BY RowsKeepTheirPurpose, RowsType DEF Grounded, Rows
  <1>2. /\ st.pc = "debit" => Placed(st.order)' /\ orders'[st.order].method = "wallet"
        /\ st.pc = "checkout" => Placed(st.order)' /\ orders'[st.order].method = "gateway"
    BY PlacedOrdersKeepTheirMethod DEF Grounded
  <1>3. QED
    BY <1>1, <1>2 DEF Grounded, Rows, Placed

LEMMA NextGrounded ==
  ASSUME TypeOK, RequestsAreGrounded, [Next]_vars
  PROVE  RequestsAreGrounded'
  <1>1. ASSUME NEW t \in Sessions
        PROVE  Grounded(session[t])'
    <2>1. \E st \in SessionState : Grounded(st) /\ session'[t] = st
      <3>1. CASE UNCHANGED session
        BY <3>1, SessionType DEF RequestsAreGrounded
      <3>2. ASSUME NEW s \in Sessions, Request(s) \/ Finish(s) \/ Rollback(s)
            PROVE  \E st \in SessionState : Grounded(st) /\ session'[t] = st
        <4>1. PICK st \in SessionState : Grounded(st) /\ session' = [session EXCEPT ![s] = st]
          BY <3>2, SessionSteps
        <4>2. QED
          BY <4>1, SessionType DEF RequestsAreGrounded, TypeOK
      <3>3. QED
        BY <3>1, <3>2 DEF Next, vars, PlaceOrder, Lapse, RefreshOrderState, OpenTopUp,
           StudentPays, AttemptFails, MoveGate
    <2>2. PICK st \in SessionState : Grounded(st) /\ session'[t] = st
      BY <2>1
    <2>3. Grounded(st)'
      BY <2>2, GroundedStays
    <2>4. QED
      BY <2>2, <2>3 DEF Grounded
  <1>2. \A e \in events' : payments'[e[1]].account # "wallet"
    <2>1. \A e \in events : e[1] \in Rows /\ payments[e[1]].account # "wallet"
      BY DEF TypeOK, Rows, RequestsAreGrounded
    <2>2. \A e \in events : payments'[e[1]].account # "wallet"
      BY <2>1, RowsKeepTheirPurpose
    <2>3. ASSUME NEW p \in DOMAIN payments, StudentPays(p) \/ AttemptFails(p)
          PROVE  \A e \in events' : payments'[e[1]].account # "wallet"
      BY <2>2, <2>3 DEF StudentPays, AttemptFails
    <2>4. CASE UNCHANGED events
      BY <2>2, <2>4
    <2>5. ASSUME NEW s \in Sessions, Request(s) \/ Finish(s) \/ Rollback(s)
          PROVE  UNCHANGED events
      BY <2>5 DEF Request, Finish, Settle, PayWithWallet, OpenCheckout, Confirm, Capture,
         MarkPaid, SettleWalletTopUp, RecordFailure, Expire, Rollback, Refuse, PayFromWallet,
         OpenGatewayCheckout, Verify, WebhookCaptured, WebhookFailed, ExpireStaleOrders
    <2>6. QED
      BY <2>3, <2>4, <2>5 DEF Next, vars, PlaceOrder, Lapse, RefreshOrderState, OpenTopUp, MoveGate
  <1>3. QED
    BY <1>1, <1>2 DEF RequestsAreGrounded

LEMMA NextOrders ==
  ASSUME TypeOK, RequestsAreGrounded, [Next]_vars
  PROVE  orders' \in [Orders -> Order]
  <1>1. CASE UNCHANGED orders
    BY <1>1 DEF TypeOK
  <1>2. ASSUME NEW o \in Orders, NEW state \in OrderState, orders' = Moved(o, state)
        PROVE  orders' \in [Orders -> Order]
    BY <1>2, OrderWrites
  <1>3. ASSUME NEW o \in Orders, PlaceOrder(o) \/ Lapse(o) \/ RefreshOrderState(o)
        PROVE  orders' \in [Orders -> Order]
    <2>1. CASE PlaceOrder(o)
      <3>1. PICK method \in {"wallet", "gateway"} :
               orders' = [orders EXCEPT ![o] = [state |-> "awaiting_payment", method |-> method,
                                                lapsed |-> FALSE]]
        BY <2>1 DEF PlaceOrder
      <3>2. QED
        BY <3>1 DEF TypeOK, Order, OrderState
    <2>2. CASE Lapse(o)
      BY <2>2, OrderWrites DEF Lapse, OrderState
    <2>3. CASE RefreshOrderState(o)
      BY <2>3, <1>2 DEF RefreshOrderState, OrderState
    <2>4. QED
      BY <1>3, <2>1, <2>2, <2>3
  <1>4. ASSUME NEW s \in Sessions, PayWithWallet(s)
        PROVE  orders' \in [Orders -> Order]
    <2>1. session[s].order \in Orders
      BY <1>4 DEF PayWithWallet, At, RequestsAreGrounded, Grounded
    <2>2. QED
      BY <1>1, <1>2, <1>4, <2>1 DEF PayWithWallet, Refuse, OrderState
  <1>5. ASSUME NEW s \in Sessions, MarkPaid(s)
        PROVE  orders' \in [Orders -> Order]
    <2>1. session[s].order \in Orders
      BY <1>5, SessionType DEF MarkPaid
    <2>2. QED
      BY <1>2, <1>5, <2>1 DEF MarkPaid, OrderState
  <1>6. ASSUME NEW s \in Sessions, Expire(s)
        PROVE  orders' \in [Orders -> Order]
    <2>1. \A o \in Orders : [orders[o] EXCEPT !.state = "expired"] \in Order /\ orders[o] \in Order
      <3>1. \A o \in Orders : orders[o] \in Order
        BY DEF TypeOK
      <3>2. \A r \in Order : [r EXCEPT !.state = "expired"] \in Order
        BY DEF Order, OrderState
      <3>3. QED
        BY <3>1, <3>2
    <2>2. QED
      BY <1>6, <2>1 DEF Expire
  <1>7. ASSUME NEW s \in Sessions,
               Request(s) \/ Rollback(s) \/ OpenCheckout(s) \/ Confirm(s) \/ Capture(s)
                          \/ SettleWalletTopUp(s) \/ RecordFailure(s)
        PROVE  UNCHANGED orders
    BY <1>7 DEF Request, Rollback, OpenCheckout, Confirm, Capture, SettleWalletTopUp, RecordFailure,
       Refuse, PayFromWallet, OpenGatewayCheckout, Verify, WebhookCaptured, WebhookFailed,
       ExpireStaleOrders
  <1>8. QED
    BY <1>1, <1>3, <1>4, <1>5, <1>6, <1>7 DEF Next, Finish, Settle, vars, OpenTopUp, StudentPays,
       AttemptFails, MoveGate

LEMMA NextMoney ==
  ASSUME TypeOK, RequestsAreGrounded, [Next]_vars
  PROVE  /\ balance' \in [Users -> Int]
         /\ Len(payments') <= MaxPayments
  <1> USE RowsType
  <1>1. CASE UNCHANGED <<balance, payments>>
    BY <1>1 DEF TypeOK
  <1>2. ASSUME NEW u \in Users, NEW ref, NEW amount \in Int, Wallet!Move(u, ref, amount)
        PROVE  balance' \in [Users -> Int]
    BY <1>2 DEF Wallet!Move, TypeOK
  <1>3. ASSUME NEW s \in Sessions, PayWithWallet(s)
        PROVE  /\ balance' \in [Users -> Int]
               /\ Len(payments') <= MaxPayments
    <2>1. session[s].order \in Orders
      BY <1>3 DEF PayWithWallet, At, RequestsAreGrounded, Grounded
    <2>2. PICK o \in Orders : o = session[s].order
      BY <2>1
    <2>3. CASE Refuse(s)
      BY <1>1, <2>3 DEF Refuse
    <2>4. CASE /\ Wallet!Move(Buyer[o], <<"order", o>>, -Total[o])
               /\ payments' = Append(payments, Row(o, Buyer[o], Total[o], "wallet", "captured"))
               /\ Len(payments) # MaxPayments
      <3>1. Buyer[o] \in Users /\ -Total[o] \in Int /\ MaxPayments \in Nat
        BY SettlementAssumption
      <3>2. payments \in Seq(Payment) /\ Len(payments) <= MaxPayments
        BY DEF TypeOK
      <3>3. Row(o, Buyer[o], Total[o], "wallet", "captured") \in Payment
        BY RowType, SettlementAssumption DEF PaymentStatus
      <3>4. Len(payments') = Len(payments) + 1
        BY <2>4, <3>2, <3>3, AppendRow
      <3>5. QED
        BY <1>2, <2>4, <3>1, <3>2, <3>4
    <2>5. QED
      BY <1>3, <2>2, <2>3, <2>4 DEF PayWithWallet
  <1>4. ASSUME NEW s \in Sessions, SettleWalletTopUp(s)
        PROVE  balance' \in [Users -> Int]
    <2>1. session[s].payment \in Rows
      BY <1>4 DEF SettleWalletTopUp, At, RequestsAreGrounded, Grounded
    <2>2. PICK p \in Rows : p = session[s].payment
      BY <2>1
    <2>3. payments[p].user \in Users /\ payments[p].amount \in Int
      BY RowsType
    <2>4. QED
      BY <1>1, <1>2, <1>4, <2>2, <2>3 DEF SettleWalletTopUp, Refuse, TypeOK
  <1>5. ASSUME NEW u \in Users, NEW amount \in TopUps, OpenTopUp(u, amount)
        PROVE  UNCHANGED balance /\ Len(payments') <= MaxPayments
    <2>1. Row(None, u, amount, "platform", "created") \in Payment
      BY RowType, SettlementAssumption DEF Collectors, PaymentStatus
    <2>2. QED
      BY <1>5, <2>1, AppendRow, SettlementAssumption DEF OpenTopUp, TypeOK
  <1>6. ASSUME NEW s \in Sessions, OpenCheckout(s)
        PROVE  UNCHANGED balance /\ Len(payments') <= MaxPayments
    <2>1. CASE Refuse(s)
      BY <2>1 DEF Refuse, TypeOK
    <2>2. CASE Len(payments) < MaxPayments /\ UNCHANGED balance
               /\ payments' = Append(payments, Row(session[s].order, Buyer[session[s].order],
                                 Total[session[s].order], session[s].account, "created"))
      BY <2>2, SettlementAssumption DEF TypeOK
    <2>3. QED
      BY <1>6, <2>1, <2>2 DEF OpenCheckout
  <1>7. ASSUME NEW s \in Sessions, MarkPaid(s) \/ SettleWalletTopUp(s) \/ RecordFailure(s)
        PROVE  Len(payments') <= MaxPayments
    <2>1. \A p, row : Len([payments EXCEPT ![p] = row]) = Len(payments)
      BY DEF TypeOK
    <2>2. QED
      BY <1>7, <2>1 DEF MarkPaid, SettleWalletTopUp, RecordFailure, Recorded, Refuse, TypeOK
  <1>8. ASSUME NEW s \in Sessions, MarkPaid(s) \/ RecordFailure(s)
        PROVE  UNCHANGED balance
    BY <1>8 DEF MarkPaid, RecordFailure
  <1>9. ASSUME NEW s \in Sessions, Request(s) \/ Rollback(s) \/ Confirm(s) \/ Capture(s) \/ Expire(s)
        PROVE  UNCHANGED <<balance, payments>>
    BY <1>9 DEF Request, Rollback, Confirm, Capture, Expire, Refuse, PayFromWallet,
       OpenGatewayCheckout, Verify, WebhookCaptured, WebhookFailed, ExpireStaleOrders
  <1>10. QED
    BY <1>1, <1>3, <1>4, <1>5, <1>6, <1>7, <1>8, <1>9 DEF Next, Finish, Settle, vars, PlaceOrder,
       Lapse, RefreshOrderState, StudentPays, AttemptFails, MoveGate, TypeOK

LEMMA NextTypeOK ==
  ASSUME TypeOK, RequestsAreGrounded, [Next]_vars
  PROVE  TypeOK'
  <1> USE RowsType
  <1>1. tasks' \in [Orders -> Nat]
    <2>1. CASE UNCHANGED tasks
      BY <2>1 DEF TypeOK
    <2>2. ASSUME NEW o \in Orders, tasks' = [tasks EXCEPT ![o] = tasks[o] + 1]
          PROVE  tasks' \in [Orders -> Nat]
      BY <2>2 DEF TypeOK
    <2>3. QED
      BY <2>1, <2>2, StepEffects DEF Quiet, CheckoutOpened, OrderDebited, OrderCaptured,
         TopUpCaptured, CheckoutFailed
  <1>2. spent' \in [Users -> SUBSET (({"order"} \X Orders) \cup ({"topup"} \X (1..MaxPayments)))]
    <2> DEFINE References == ({"order"} \X Orders) \cup ({"topup"} \X (1..MaxPayments))
    <2>1. spent \in [Users -> SUBSET References]
      BY DEF TypeOK
    <2>2. ASSUME NEW u \in Users, NEW ref \in References,
                 spent' = [spent EXCEPT ![u] = spent[u] \cup {ref}]
          PROVE  spent' \in [Users -> SUBSET References]
      BY <2>2 DEF TypeOK
    <2>3. \A o \in Orders : <<"order", o>> \in References /\ Buyer[o] \in Users
      BY SettlementAssumption
    <2>4. \A p \in Rows : <<"topup", p>> \in References /\ payments[p].user \in Users
      OBVIOUS
    <2> HIDE DEF References
    <2>5. spent' \in [Users -> SUBSET References]
      <3>1. CASE OrderDebited
        <4>1. PICK o \in Orders :
                 spent' = [spent EXCEPT ![Buyer[o]] = spent[Buyer[o]] \cup {<<"order", o>>}]
          BY <3>1 DEF OrderDebited
        <4>2. QED
          BY <2>2, <2>3, <4>1
      <3>2. CASE TopUpCaptured
        <4>1. PICK p \in Rows : spent' = [spent EXCEPT ![payments[p].user] =
                                             spent[payments[p].user] \cup {<<"topup", p>>}]
          BY <3>2 DEF TopUpCaptured
        <4>2. PICK u \in Users : u = payments[p].user
          BY <2>4
        <4>3. <<"topup", p>> \in References /\ spent' = [spent EXCEPT ![u] = spent[u] \cup {<<"topup", p>>}]
          BY <2>4, <4>1, <4>2
        <4>4. QED
          BY <2>2, <4>3
      <3>3. QED
        BY <2>1, <3>1, <3>2, StepEffects DEF Quiet, CheckoutOpened, OrderCaptured, CheckoutFailed
    <2>6. QED
      BY <2>5 DEF References
  <1>3. events' \subseteq Rows \X {"captured", "failed"}
    <2>1. ASSUME NEW p \in DOMAIN payments, StudentPays(p) \/ AttemptFails(p)
          PROVE  events' \subseteq Rows \X {"captured", "failed"}
      BY <2>1 DEF StudentPays, AttemptFails, TypeOK, Rows
    <2>2. CASE UNCHANGED events
      BY <2>2 DEF TypeOK, Rows
    <2>3. ASSUME NEW s \in Sessions, Request(s) \/ Finish(s) \/ Rollback(s)
          PROVE  UNCHANGED events
      BY <2>3 DEF Request, Finish, Settle, PayWithWallet, OpenCheckout, Confirm, Capture,
         MarkPaid, SettleWalletTopUp, RecordFailure, Expire, Rollback, Refuse, PayFromWallet,
         OpenGatewayCheckout, Verify, WebhookCaptured, WebhookFailed, ExpireStaleOrders
    <2>4. QED
      BY <2>1, <2>2, <2>3 DEF Next, vars, PlaceOrder, Lapse, RefreshOrderState, OpenTopUp, MoveGate
  <1>4. events' \subseteq (1..Len(payments')) \X {"captured", "failed"}
    BY <1>3, RowsKeepTheirPurpose DEF Rows
  <1>5. gate' \in Collectors \cup {"closed"}
    <2>1. CASE MoveGate
      BY <2>1 DEF MoveGate
    <2>2. CASE UNCHANGED gate
      BY <2>2 DEF TypeOK
    <2>3. ASSUME NEW s \in Sessions, Request(s) \/ Finish(s) \/ Rollback(s)
          PROVE  UNCHANGED gate
      BY <2>3 DEF Request, Finish, Settle, PayWithWallet, OpenCheckout, Confirm, Capture,
         MarkPaid, SettleWalletTopUp, RecordFailure, Expire, Rollback, Refuse, PayFromWallet,
         OpenGatewayCheckout, Verify, WebhookCaptured, WebhookFailed, ExpireStaleOrders
    <2>4. QED
      BY <2>1, <2>2, <2>3 DEF Next, vars, PlaceOrder, Lapse, RefreshOrderState, OpenTopUp,
         StudentPays, AttemptFails
  <1>6. QED
    BY <1>1, <1>2, <1>4, <1>5, NextOrders, NextMoney, NextSession, RowsKeepTheirPurpose DEF TypeOK

-----------------------------------------------------------------------------
(* What rows claim is in the ledger or at Razorpay.                        *)

LEMMA SpentGrows ==
  ASSUME TypeOK, RequestsAreGrounded, [Next]_vars, NEW u \in Users
  PROVE  spent[u] \subseteq spent'[u]
  <1>1. CASE OrderDebited
    BY <1>1, SettlementAssumption DEF OrderDebited, TypeOK
  <1>2. CASE TopUpCaptured
    BY <1>2 DEF TopUpCaptured, TypeOK
  <1>3. CASE UNCHANGED spent
    BY <1>3
  <1>4. QED
    BY <1>1, <1>2, <1>3, StepEffects DEF Quiet, CheckoutOpened, OrderCaptured, CheckoutFailed

\* One row's claim, made good by the events ev and the ledger sp.
Backed(row, p, ev, sp) ==
    /\ row.captured => <<p, "captured">> \in ev
    /\ row.account = "wallet" =>
          /\ row.order \in Orders /\ row.user = Buyer[row.order]
          /\ <<"order", row.order>> \in sp[row.user]

\* The claim after the step.
Stands(row, p) == Backed(row, p, events', spent')

LEMMA BackedStays ==
  ASSUME TypeOK, RequestsAreGrounded, [Next]_vars, NEW row \in Payment, NEW p,
         Backed(row, p, events, spent)
  PROVE  Stands(row, p)
  <1>1. row.user \in Users
    BY DEF Payment
  <1>2. spent[row.user] \subseteq spent'[row.user] /\ events \subseteq events'
    BY <1>1, SpentGrows, RowsKeepTheirPurpose
  <1>3. QED
    BY <1>2 DEF Stands, Backed

LEMMA NextRowsAreBacked ==
  ASSUME TypeOK, RequestsAreGrounded, RowsAreBacked, [Next]_vars
  PROVE  \A p \in 1..Len(payments') : Stands(payments'[p], p)
  <1> USE RowsType
  <1>1. payments \in Seq(Payment)
    BY DEF TypeOK
  <1>2. \A p \in Rows : Stands(payments[p], p)
    <2>1. \A p \in Rows : Backed(payments[p], p, events, spent)
      BY DEF RowsAreBacked, Backed
    <2>2. QED
      BY <2>1, BackedStays
  <1>4. CASE UNCHANGED payments
    BY <1>2, <1>4 DEF Rows
  <1>5. ASSUME NEW row \in Payment, payments' = Append(payments, row), Stands(row, Len(payments) + 1)
        PROVE  \A p \in 1..Len(payments') : Stands(payments'[p], p)
    <2>1. \A p \in Rows : payments'[p] = payments[p]
      BY <1>1, <1>5, AppendRow DEF Rows
    <2>2. payments'[Len(payments) + 1] = row /\ Len(payments') = Len(payments) + 1
      BY <1>1, <1>5, AppendRow
    <2>3. \A p \in 1..Len(payments') : p \in Rows \/ p = Len(payments) + 1
      BY <2>2 DEF Rows
    <2>4. QED
      BY <1>2, <1>5, <2>1, <2>2, <2>3
  <1>6. ASSUME NEW p \in Rows, NEW row \in Payment, payments' = [payments EXCEPT ![p] = row],
               Stands(row, p)
        PROVE  \A q \in 1..Len(payments') : Stands(payments'[q], q)
    <2>1. Len(payments') = Len(payments)
          /\ \A q \in Rows : payments'[q] = IF q = p THEN row ELSE payments[q]
      BY <1>1, <1>6, WriteRow DEF Rows
    <2>2. QED
      BY <1>2, <1>6, <2>1 DEF Rows
  <1>7. CASE CheckoutOpened
    <2>1. PICK row \in Payment :
             payments' = Append(payments, row) /\ ~row.captured /\ row.account # "wallet"
      BY <1>7 DEF CheckoutOpened
    <2>2. Stands(row, Len(payments) + 1)
      BY <2>1 DEF Stands, Backed
    <2>3. QED
      BY <1>5, <2>1, <2>2
  <1>8. CASE OrderDebited
    <2>1. PICK o \in Orders :
             /\ payments' = Append(payments, Row(o, Buyer[o], Total[o], "wallet", "captured"))
             /\ spent' = [spent EXCEPT ![Buyer[o]] = spent[Buyer[o]] \cup {<<"order", o>>}]
      BY <1>8 DEF OrderDebited
    <2>2. PICK row \in Payment : row = Row(o, Buyer[o], Total[o], "wallet", "captured")
      BY RowType, SettlementAssumption DEF PaymentStatus
    <2>3. <<"order", o>> \in spent'[Buyer[o]]
      BY <2>1, SettlementAssumption DEF TypeOK
    <2>4. ~row.captured /\ row.order = o /\ row.user = Buyer[o]
      BY <2>2 DEF Row
    <2>5. Stands(row, Len(payments) + 1)
      BY <2>3, <2>4 DEF Stands, Backed
    <2>6. QED
      BY <1>5, <2>1, <2>2, <2>5
  <1>9. CASE OrderCaptured \/ TopUpCaptured
    <2>1. PICK p \in Rows : payments' = Recorded(p) /\ <<p, "captured">> \in events
                            /\ events' = events
      BY <1>9 DEF OrderCaptured, TopUpCaptured
    <2>2. PICK old \in Payment : old = payments[p]
      OBVIOUS
    <2>3. PICK row \in Payment : row = [old EXCEPT !.status = "captured", !.captured = TRUE]
      BY ChangedRowType
    <2>4. row.order = old.order /\ row.user = old.user /\ row.account = old.account
      BY <2>3 DEF Payment
    <2>5. Stands(row, p)
      BY <1>2, <2>1, <2>2, <2>4 DEF Stands, Backed
    <2>6. QED
      BY <1>6, <2>1, <2>2, <2>3, <2>5 DEF Recorded
  <1>10. CASE CheckoutFailed
    <2>1. PICK p \in Rows : payments' = [payments EXCEPT ![p] = [payments[p] EXCEPT !.status = "failed"]]
      BY <1>10 DEF CheckoutFailed
    <2>2. PICK old \in Payment : old = payments[p]
      OBVIOUS
    <2>3. PICK row \in Payment : row = [old EXCEPT !.status = "failed"]
      BY ChangedRowType
    <2>4. /\ row.order = old.order /\ row.user = old.user /\ row.account = old.account
          /\ row.captured = old.captured
      BY <2>3 DEF Payment
    <2>5. Stands(row, p)
      BY <1>2, <2>2, <2>4 DEF Stands, Backed
    <2>6. QED
      BY <1>6, <2>1, <2>2, <2>3, <2>5
  <1>11. QED
    BY StepEffects, <1>4, <1>7, <1>8, <1>9, <1>10 DEF Quiet

\* A top-up's reference is that of a row: it is never credited ahead of it.
LEMMA NextTopUps ==
  ASSUME TypeOK, RequestsAreGrounded, RowsAreBacked, [Next]_vars,
         NEW u \in Users, NEW p \in 1..MaxPayments, <<"topup", p>> \in spent'[u]
  PROVE  p \in 1..Len(payments')
  <1> USE RowsType
  <1>1. Rows \subseteq 1..Len(payments')
    BY RowsKeepTheirPurpose DEF Rows
  <1>2. CASE <<"topup", p>> \in spent[u]
    BY <1>1, <1>2 DEF RowsAreBacked
  <1>3. CASE OrderDebited
    BY <1>2, <1>3, SettlementAssumption DEF OrderDebited, TypeOK
  <1>4. CASE TopUpCaptured
    <2>1. PICK q \in Rows : spent' = [spent EXCEPT ![payments[q].user] =
                                         spent[payments[q].user] \cup {<<"topup", q>>}]
      BY <1>4 DEF TopUpCaptured
    <2>2. <<"topup", p>> \in spent[u] \/ p = q
      BY <2>1 DEF TypeOK
    <2>3. QED
      BY <1>1, <1>2, <2>2
  <1>5. QED
    BY <1>2, <1>3, <1>4, StepEffects DEF Quiet, CheckoutOpened, OrderCaptured, CheckoutFailed

LEMMA NextGroundInv ==
  ASSUME GroundInv, [Next]_vars
  PROVE  GroundInv'
  <1>1. TypeOK /\ RequestsAreGrounded /\ RowsAreBacked
    BY DEF GroundInv
  <1>2. TypeOK'
    BY <1>1, NextTypeOK
  <1>3. RequestsAreGrounded'
    BY <1>1, NextGrounded
  <1>4. RowsAreBacked'
    BY <1>1, NextRowsAreBacked, NextTopUps DEF RowsAreBacked, Rows, Stands, Backed
  <1>5. QED
    BY <1>2, <1>3, <1>4 DEF GroundInv

LEMMA InitGroundInv == Init => GroundInv
  <1> SUFFICES ASSUME Init PROVE GroundInv
    OBVIOUS
  <1>1. TypeOK
    <2>1. orders \in [Orders -> Order] /\ tasks \in [Orders -> Nat]
      BY DEF Init, Order, OrderState
    <2>2. /\ balance \in [Users -> Int]
          /\ spent \in [Users -> SUBSET (({"order"} \X Orders) \cup ({"topup"} \X (1..MaxPayments)))]
      BY DEF Init, Wallet!Init
    <2>3. session \in [Sessions -> SessionState]
      BY IdleType DEF Init
    <2>4. payments \in Seq(Payment) /\ Len(payments) = 0 /\ MaxPayments \in Nat
      BY SettlementAssumption DEF Init
    <2>5. gate \in Collectors /\ events \subseteq (1..Len(payments)) \X {"captured", "failed"}
      BY DEF Init
    <2>6. Len(payments) <= MaxPayments
      BY <2>4
    <2>7. payments \in Seq(Payment) /\ gate \in Collectors \cup {"closed"}
      BY <2>4, <2>5
    <2>8. QED
      BY <2>1, <2>2, <2>3, <2>5, <2>6, <2>7, Zenon DEF TypeOK
  <1>2. RequestsAreGrounded
    BY IdleType DEF Init, RequestsAreGrounded
  <1>3. RowsAreBacked
    <2>1. Rows = {} /\ \A u \in Users : spent[u] = {}
      BY DEF Init, Rows, Wallet!Init
    <2>2. QED
      BY <2>1 DEF RowsAreBacked
  <1>4. QED
    BY <1>1, <1>2, <1>3 DEF GroundInv

-----------------------------------------------------------------------------

\* However requests, callbacks, webhooks and the sweep interleave and die, every
\* request in flight is about rows that exist, and what a row claims was paid.
THEOREM SettlementGround == Spec => []GroundInv
  BY InitGroundInv, NextGroundInv, PTL DEF Spec

\* Every variable keeps its type: a checkout opened for a kiosk is never recorded
\* under no account, whatever becomes of the kiosk while Razorpay is called.
THEOREM SettlementTypeOK == Spec => []TypeOK
  <1>1. GroundInv => TypeOK
    BY DEF GroundInv
  <1>2. QED
    BY <1>1, SettlementGround, PTL

-----------------------------------------------------------------------------
(* Money buys prints.                                                      *)

\* A row whose claim stands is paid for when it is the ledger's or captured.
Paid(row) == row.account = "wallet" \/ row.captured

Bought(o, rows) == \E p \in 1..Len(rows) : rows[p].order = o /\ Paid(rows[p])

\* MoneyBuysPrints without the events and the ledger that back it.
Books ==
    \A o \in Orders :
        /\ tasks[o] > 0 <=> Bought(o, payments)
        /\ <<"order", o>> \in spent[Buyer[o]] => tasks[o] > 0

LEMMA BoughtAppend ==
  ASSUME NEW l \in Seq(Payment), NEW row \in Payment, NEW o
  PROVE  Bought(o, Append(l, row)) <=> Bought(o, l) \/ (row.order = o /\ Paid(row))
  <1>1. \A p \in 1..Len(Append(l, row)) : p \in 1..Len(l) \/ p = Len(l) + 1
    BY AppendRow
  <1>2. \A p \in 1..Len(l) : p \in 1..Len(Append(l, row))
    BY AppendRow
  <1>3. Len(l) + 1 \in 1..Len(Append(l, row))
    BY AppendRow
  <1>4. QED
    BY <1>1, <1>2, <1>3, AppendRow DEF Bought

LEMMA NextBooks ==
  ASSUME TypeOK, RequestsAreGrounded, Books, [Next]_vars
  PROVE  Books'
  <1> USE RowsType
  <1>1. payments \in Seq(Payment) /\ tasks \in [Orders -> Nat]
    BY DEF TypeOK
  <1>2. \A o \in Orders : Buyer[o] \in Users
    BY SettlementAssumption
  <1>3. ASSUME NEW o \in Orders
        PROVE  /\ tasks'[o] > 0 <=> Bought(o, payments')
               /\ <<"order", o>> \in spent'[Buyer[o]] => tasks'[o] > 0
    <2>1. /\ tasks[o] > 0 <=> Bought(o, payments)
          /\ <<"order", o>> \in spent[Buyer[o]] => tasks[o] > 0
      BY DEF Books
    <2>2. CASE Quiet
      BY <2>1, <2>2 DEF Quiet
    <2>3. CASE CheckoutOpened
      <3>1. PICK row \in Payment : /\ payments' = Append(payments, row)
                                   /\ ~row.captured /\ row.account # "wallet"
                                   /\ UNCHANGED <<tasks, spent>>
        BY <2>3 DEF CheckoutOpened
      <3>2. Bought(o, payments') <=> Bought(o, payments)
        BY <1>1, <3>1, BoughtAppend DEF Paid
      <3>3. QED
        BY <2>1, <3>1, <3>2
    <2>4. CASE OrderDebited
      <3>1. PICK c \in Orders :
               /\ payments' = Append(payments, Row(c, Buyer[c], Total[c], "wallet", "captured"))
               /\ tasks' = [tasks EXCEPT ![c] = tasks[c] + 1]
               /\ spent' = [spent EXCEPT ![Buyer[c]] = spent[Buyer[c]] \cup {<<"order", c>>}]
        BY <2>4 DEF OrderDebited
      <3>2. PICK row \in Payment : row = Row(c, Buyer[c], Total[c], "wallet", "captured")
        BY RowType, SettlementAssumption DEF PaymentStatus
      <3>3. row.order = c /\ Paid(row)
        BY <3>2 DEF Row, Paid
      <3>4. Bought(o, payments') <=> Bought(o, payments) \/ o = c
        BY <1>1, <3>1, <3>2, <3>3, BoughtAppend
      <3>5. tasks'[o] > 0 <=> tasks[o] > 0 \/ o = c
        BY <1>1, <3>1
      <3>6. <<"order", o>> \in spent'[Buyer[o]] => <<"order", o>> \in spent[Buyer[o]] \/ o = c
        BY <1>2, <3>1 DEF TypeOK
      <3>7. QED
        BY <2>1, <3>4, <3>5, <3>6
    <2>5. CASE OrderCaptured
      <3>1. PICK p \in Rows :
               /\ payments[p].order \in Orders /\ payments' = Recorded(p) /\ UNCHANGED spent
               /\ tasks' = [tasks EXCEPT ![payments[p].order] = tasks[payments[p].order] + 1]
        BY <2>5 DEF OrderCaptured
      <3>2. PICK old \in Payment : old = payments[p]
        OBVIOUS
      <3>3. PICK row \in Payment : row = [old EXCEPT !.status = "captured", !.captured = TRUE]
        BY ChangedRowType
      <3>4. row.order = old.order /\ Paid(row)
        BY <3>3 DEF Payment, Paid
      <3>5. payments' = [payments EXCEPT ![p] = row]
        BY <3>1, <3>2, <3>3 DEF Recorded
      <3>6. Bought(o, payments') <=> Bought(o, payments) \/ o = old.order
        <4>1. p \in 1..Len(payments) /\ row.order = payments[p].order
              /\ (Paid(payments[p]) => Paid(row))
          BY <3>2, <3>4 DEF Rows
        <4>2. Bought(o, payments') <=> Bought(o, payments) \/ (row.order = o /\ Paid(row))
          BY ONLY <1>1, <3>3, <3>5, <4>1, WriteRow DEF Bought
        <4>3. QED
          BY <3>2, <3>4, <3>5, <4>2
      <3>7. tasks'[o] > 0 <=> tasks[o] > 0 \/ o = old.order
        BY <1>1, <3>1, <3>2
      <3>8. QED
        BY <2>1, <3>1, <3>6, <3>7
    <2>6. CASE TopUpCaptured
      <3>1. PICK p \in Rows :
               /\ payments[p].order = None /\ payments' = Recorded(p) /\ UNCHANGED tasks
               /\ spent' = [spent EXCEPT ![payments[p].user] =
                               spent[payments[p].user] \cup {<<"topup", p>>}]
        BY <2>6 DEF TopUpCaptured
      <3>2. PICK old \in Payment : old = payments[p]
        OBVIOUS
      <3>3. PICK row \in Payment : row = [old EXCEPT !.status = "captured", !.captured = TRUE]
        BY ChangedRowType
      <3>4. row.order = old.order /\ Paid(row) /\ old.order # o
        BY <3>1, <3>2, <3>3, SettlementAssumption DEF Payment, Paid
      <3>5. payments' = [payments EXCEPT ![p] = row]
        BY <3>1, <3>2, <3>3 DEF Recorded
      <3>6. Bought(o, payments') <=> Bought(o, payments)
        <4>1. p \in 1..Len(payments) /\ row.order = payments[p].order
              /\ (Paid(payments[p]) => Paid(row))
          BY <3>2, <3>4 DEF Rows
        <4>2. Bought(o, payments') <=> Bought(o, payments) \/ (row.order = o /\ Paid(row))
          BY ONLY <1>1, <3>3, <3>5, <4>1, WriteRow DEF Bought
        <4>3. QED
          BY <3>2, <3>4, <3>5, <4>2
      <3>7. <<"order", o>> \in spent'[Buyer[o]] => <<"order", o>> \in spent[Buyer[o]]
        BY <1>2, <3>1 DEF TypeOK
      <3>8. QED
        BY <2>1, <3>1, <3>6, <3>7
    <2>7. CASE CheckoutFailed
      <3>1. PICK p \in Rows :
               /\ payments' = [payments EXCEPT ![p] = [payments[p] EXCEPT !.status = "failed"]]
               /\ UNCHANGED <<tasks, spent>>
        BY <2>7 DEF CheckoutFailed
      <3>2. PICK old \in Payment : old = payments[p]
        OBVIOUS
      <3>3. PICK row \in Payment : row = [old EXCEPT !.status = "failed"]
        BY ChangedRowType
      <3>4. row.order = old.order /\ (Paid(row) <=> Paid(old))
        BY <3>3 DEF Payment, Paid
      <3>5. payments' = [payments EXCEPT ![p] = row]
        BY <3>1, <3>2, <3>3
      <3>6. Bought(o, payments') <=> Bought(o, payments) \/ (row.order = o /\ Paid(row))
        <4>1. p \in 1..Len(payments) /\ row.order = payments[p].order
              /\ (Paid(payments[p]) => Paid(row))
          BY <3>2, <3>4 DEF Rows
        <4>2. Bought(o, payments') <=> Bought(o, payments) \/ (row.order = o /\ Paid(row))
          BY ONLY <1>1, <3>3, <3>5, <4>1, WriteRow DEF Bought
        <4>3. QED
          BY <3>2, <3>4, <3>5, <4>2
      <3>7. row.order = o /\ Paid(row) => Bought(o, payments)
        BY <3>2, <3>4 DEF Bought, Rows
      <3>8. QED
        BY <2>1, <3>1, <3>6, <3>7
    <2>8. QED
      BY <2>2, <2>3, <2>4, <2>5, <2>6, <2>7, StepEffects
  <1>4. QED
    BY <1>3 DEF Books

LEMMA BooksBuyPrints ==
  ASSUME GroundInv, Books
  PROVE  MoneyBuysPrints
  <1>1. TypeOK /\ RowsAreBacked
    BY DEF GroundInv
  <1>2. DOMAIN payments = Rows
    BY <1>1, RowsType
  <1>3. \A p \in Rows : PaidFor(p) <=> Paid(payments[p])
    BY <1>1 DEF RowsAreBacked, PaidFor, Paid
  <1>4. \A o \in Orders :
           Bought(o, payments) <=> \E p \in DOMAIN payments : payments[p].order = o /\ PaidFor(p)
    BY <1>2, <1>3 DEF Bought, Rows
  <1>5. QED
    BY <1>4 DEF Books, MoneyBuysPrints

\* Prints are queued for an order exactly when a debit in the ledger or a capture
\* that happened at Razorpay pays for it, and no balance is debited for an order
\* without its prints.
THEOREM SettlementMoneyBuysPrints == Spec => []MoneyBuysPrints
  <1>1. Init => Books
    BY SettlementAssumption DEF Init, Books, Bought, Wallet!Init
  <1>2. GroundInv /\ Books /\ [Next]_vars => Books'
    BY NextBooks DEF GroundInv
  <1>3. GroundInv /\ Books => MoneyBuysPrints
    BY BooksBuyPrints
  <1>4. QED
    BY <1>1, <1>2, <1>3, SettlementGround, PTL DEF Spec

-----------------------------------------------------------------------------
(* Top-ups are credited with their capture.                                *)

\* One row's claim on the ledger sp: credited exactly when it is a captured top-up.
Credited(row, p, sp) == row.order = None => (row.captured <=> <<"topup", p>> \in sp[row.user])

LEMMA NextCredited ==
  ASSUME TypeOK, RequestsAreGrounded, RowsAreBacked, [Next]_vars,
         \A p \in Rows : Credited(payments[p], p, spent)
  PROVE  \A p \in 1..Len(payments') : Credited(payments'[p], p, spent')
  <1> USE RowsType
  <1>1. payments \in Seq(Payment) /\ \A o \in Orders : Buyer[o] \in Users
    BY SettlementAssumption DEF TypeOK
  <1>2. CASE Quiet
    BY <1>2 DEF Quiet, Rows
  <1>3. ASSUME NEW row \in Payment, payments' = Append(payments, row),
               \A p \in Rows : Credited(payments[p], p, spent'),
               Credited(row, Len(payments) + 1, spent')
        PROVE  \A p \in 1..Len(payments') : Credited(payments'[p], p, spent')
    <2>1. \A p \in Rows : payments'[p] = payments[p]
      BY <1>1, <1>3, AppendRow DEF Rows
    <2>2. payments'[Len(payments) + 1] = row /\ Len(payments') = Len(payments) + 1
      BY <1>1, <1>3, AppendRow
    <2>3. \A p \in 1..Len(payments') : p \in Rows \/ p = Len(payments) + 1
      BY <2>2 DEF Rows
    <2>4. QED
      BY <1>3, <2>1, <2>2, <2>3
  <1>4. ASSUME NEW p \in Rows, NEW row \in Payment, payments' = [payments EXCEPT ![p] = row],
               \A q \in Rows \ {p} : Credited(payments[q], q, spent'), Credited(row, p, spent')
        PROVE  \A q \in 1..Len(payments') : Credited(payments'[q], q, spent')
    <2>1. Len(payments') = Len(payments)
          /\ \A q \in Rows : payments'[q] = IF q = p THEN row ELSE payments[q]
      BY <1>1, <1>4, WriteRow DEF Rows
    <2>2. QED
      BY <1>4, <2>1 DEF Rows
  <1>5. CASE CheckoutOpened
    <2>1. PICK row \in Payment : payments' = Append(payments, row) /\ ~row.captured
                                 /\ UNCHANGED spent
      BY <1>5 DEF CheckoutOpened
    <2>2. row.user \in Users
      BY DEF Payment
    <2>3. <<"topup", Len(payments) + 1>> \notin spent[row.user]
      <3>1. Len(payments) + 1 \notin Rows
        BY DEF Rows
      <3>2. \A p : <<"topup", p>> \in spent[row.user] => p \in 1..MaxPayments
        BY <2>2 DEF TypeOK
      <3>3. QED
        BY <2>2, <3>1, <3>2 DEF RowsAreBacked
    <2>4. QED
      BY <1>3, <2>1, <2>3 DEF Credited
  <1>6. CASE OrderDebited
    <2>1. PICK o \in Orders :
             /\ payments' = Append(payments, Row(o, Buyer[o], Total[o], "wallet", "captured"))
             /\ spent' = [spent EXCEPT ![Buyer[o]] = spent[Buyer[o]] \cup {<<"order", o>>}]
      BY <1>6 DEF OrderDebited
    <2>2. PICK row \in Payment : row = Row(o, Buyer[o], Total[o], "wallet", "captured")
      BY RowType, SettlementAssumption DEF PaymentStatus
    <2>3. row.order # None
      BY <2>2, SettlementAssumption DEF Row
    <2>4. \A p \in Rows, u \in Users : <<"topup", p>> \in spent'[u] <=> <<"topup", p>> \in spent[u]
      BY <1>1, <2>1 DEF TypeOK
    <2>5. QED
      BY <1>3, <2>1, <2>2, <2>3, <2>4 DEF Credited
  <1>7. CASE OrderCaptured
    <2>1. PICK p \in Rows : payments[p].order \in Orders /\ payments' = Recorded(p) /\ UNCHANGED spent
      BY <1>7 DEF OrderCaptured
    <2>2. PICK old \in Payment : old = payments[p]
      OBVIOUS
    <2>3. PICK row \in Payment : row = [old EXCEPT !.status = "captured", !.captured = TRUE]
      BY ChangedRowType
    <2>4. row.order # None
      BY <2>1, <2>2, <2>3, SettlementAssumption DEF Payment
    <2>5. QED
      BY <1>4, <2>1, <2>2, <2>3, <2>4 DEF Credited, Recorded
  <1>8. CASE TopUpCaptured
    <2>1. PICK p \in Rows : /\ payments' = Recorded(p)
                            /\ spent' = [spent EXCEPT ![payments[p].user] =
                                            spent[payments[p].user] \cup {<<"topup", p>>}]
      BY <1>8 DEF TopUpCaptured
    <2>2. PICK old \in Payment : old = payments[p]
      OBVIOUS
    <2>3. PICK row \in Payment : row = [old EXCEPT !.status = "captured", !.captured = TRUE]
      BY ChangedRowType
    <2>4. row.captured /\ row.user = old.user /\ old.user \in Users
      BY <2>3 DEF Payment
    <2>5. Credited(row, p, spent')
      BY <2>1, <2>2, <2>4 DEF Credited, TypeOK
    <2>6. \A q \in Rows \ {p}, u \in Users : <<"topup", q>> \in spent'[u] <=> <<"topup", q>> \in spent[u]
      BY <2>1 DEF TypeOK
    <2>7. \A q \in Rows \ {p} : Credited(payments[q], q, spent')
      BY <2>6 DEF Credited
    <2>8. QED
      BY <1>4, <2>1, <2>2, <2>3, <2>5, <2>7 DEF Recorded
  <1>9. CASE CheckoutFailed
    <2>1. PICK p \in Rows :
             /\ payments' = [payments EXCEPT ![p] = [payments[p] EXCEPT !.status = "failed"]]
             /\ UNCHANGED spent
      BY <1>9 DEF CheckoutFailed
    <2>2. PICK old \in Payment : old = payments[p]
      OBVIOUS
    <2>3. PICK row \in Payment : row = [old EXCEPT !.status = "failed"]
      BY ChangedRowType
    <2>4. row.order = old.order /\ row.user = old.user /\ row.captured = old.captured
      BY <2>3 DEF Payment
    <2>5. payments' = [payments EXCEPT ![p] = row]
      BY <2>1, <2>2, <2>3
    <2>6. Credited(row, p, spent')
      BY <2>1, <2>2, <2>4 DEF Credited
    <2>7. \A q \in Rows \ {p} : Credited(payments[q], q, spent')
      BY <2>1 DEF Credited
    <2>8. QED
      BY <1>4, <2>5, <2>6, <2>7
  <1>10. QED
    BY StepEffects, <1>2, <1>5, <1>6, <1>7, <1>8, <1>9

\* A top-up is credited exactly when its capture is recorded, however often and
\* however concurrently Razorpay delivers the event.
THEOREM SettlementTopUpsCredited == Spec => []TopUpsCreditedWithCapture
  <1> DEFINE AllCredited == \A p \in Rows : Credited(payments[p], p, spent)
  <1>1. Init => AllCredited
    BY DEF Init, Rows
  <1>2. GroundInv /\ AllCredited /\ [Next]_vars => AllCredited'
    BY NextCredited DEF GroundInv, Rows
  <1>3. GroundInv /\ AllCredited => TopUpsCreditedWithCapture
    BY RowsType DEF GroundInv, Credited, TopUpsCreditedWithCapture
  <1> HIDE DEF AllCredited
  <1>4. QED
    BY <1>1, <1>2, <1>3, SettlementGround, PTL DEF Spec
-----------------------------------------------------------------------------
(* Orders paid from the balance are bought once.                           *)

\* A row follows the method of its order: a debit's is of an order to be paid from
\* the balance, a checkout's of one to be paid at Razorpay, and both orders exist.
Follows(row, book) ==
    row.order \in Orders =>
        /\ book[row.order].state # "unplaced"
        /\ row.account = "wallet" <=> book[row.order].method = "wallet"

RowsFollowTheirOrders == \A p \in Rows : Follows(payments[p], orders)

\* Nothing has been bought of o, or its prints once and by one row.
Once(o, rows, n) ==
    \/ n = 0 /\ \A p \in 1..Len(rows) : rows[p].order # o
    \/ n = 1 /\ \E p \in 1..Len(rows) : \A q \in 1..Len(rows) : rows[q].order = o <=> q = p

\* So of every order that is not to be paid at Razorpay: one not yet placed may
\* come to be.
WalletOrdersOnce ==
    \A o \in Orders : ~Placed(o) \/ orders[o].method = "wallet" => Once(o, payments, tasks[o])

LEMMA NextRowsFollow ==
  ASSUME TypeOK, RequestsAreGrounded, RowsFollowTheirOrders, [Next]_vars
  PROVE  RowsFollowTheirOrders'
  <1> SUFFICES \A p \in 1..Len(payments') : Follows(payments'[p], orders')
    BY DEF RowsFollowTheirOrders, Rows
  <1> USE RowsType
  <1>1. payments \in Seq(Payment)
    BY DEF TypeOK
  <1>2. \A row : Follows(row, orders) => Follows(row, orders')
    BY PlacedOrdersKeepTheirMethod DEF Follows, Placed
  <1>3. \A p \in Rows : Follows(payments'[p], orders')
    <2>1. \A p \in Rows : Follows(payments[p], orders')
      BY <1>2 DEF RowsFollowTheirOrders
    <2>2. QED
      BY <2>1, RowsKeepTheirPurpose DEF Follows
  <1>4. ASSUME NEW row \in Payment, payments' = Append(payments, row), Follows(row, orders')
        PROVE  \A p \in 1..Len(payments') : Follows(payments'[p], orders')
    <2>1. payments'[Len(payments) + 1] = row /\ Len(payments') = Len(payments) + 1
      BY <1>1, <1>4, AppendRow
    <2>2. \A p \in 1..Len(payments') : p \in Rows \/ p = Len(payments) + 1
      BY <2>1 DEF Rows
    <2>3. QED
      BY <1>3, <1>4, <2>1, <2>2
  <1>5. CASE CheckoutOpened
    <2>1. PICK row \in Payment :
             /\ payments' = Append(payments, row) /\ row.account # "wallet"
             /\ row.order = None \/ \E s \in Sessions : At(s, "checkout") /\ session[s].order = row.order
      BY <1>5 DEF CheckoutOpened
    <2>2. row.order \in Orders => Placed(row.order) /\ orders[row.order].method = "gateway"
      BY <2>1, SettlementAssumption DEF At, RequestsAreGrounded, Grounded
    <2>3. Follows(row, orders)
      BY <2>1, <2>2 DEF Follows, Placed
    <2>4. QED
      BY <1>2, <1>4, <2>1, <2>3
  <1>6. CASE OrderDebited
    <2>1. PICK o \in Orders, s \in Sessions :
             /\ At(s, "debit") /\ session[s].order = o
             /\ payments' = Append(payments, Row(o, Buyer[o], Total[o], "wallet", "captured"))
      BY <1>6 DEF OrderDebited
    <2>2. PICK row \in Payment : row = Row(o, Buyer[o], Total[o], "wallet", "captured")
      BY RowType, SettlementAssumption DEF PaymentStatus
    <2>3. row.order = o /\ row.account = "wallet"
      BY <2>2 DEF Row
    <2>4. Placed(o) /\ orders[o].method = "wallet"
      BY <2>1 DEF At, RequestsAreGrounded, Grounded
    <2>5. Follows(row, orders)
      BY <2>3, <2>4 DEF Follows, Placed
    <2>6. QED
      BY <1>2, <1>4, <2>1, <2>2, <2>5
  <1>7. CASE Len(payments') = Len(payments)
    BY <1>3, <1>7 DEF Rows
  <1>8. \A p, row : Len([payments EXCEPT ![p] = row]) = Len(payments)
    BY <1>1
  <1>9. CASE OrderCaptured \/ TopUpCaptured \/ CheckoutFailed \/ Quiet
    <2>1. CASE Quiet
      BY <1>7, <2>1 DEF Quiet
    <2>2. CASE OrderCaptured \/ TopUpCaptured \/ CheckoutFailed
      <3>1. PICK p, row : payments' = [payments EXCEPT ![p] = row]
        BY <2>2, Zenon DEF OrderCaptured, TopUpCaptured, CheckoutFailed, Recorded
      <3>2. QED
        BY <1>7, <1>8, <3>1
    <2>3. QED
      BY <1>9, <2>1, <2>2
  <1>10. QED
    BY <1>5, <1>6, <1>9, StepEffects

\* A step that adds no row of o and queues nothing for it changes nothing of it.
LEMMA OnceStays ==
  ASSUME TypeOK, RequestsAreGrounded, [Next]_vars, NEW o \in Orders, Once(o, payments, tasks[o]),
         tasks'[o] = tasks[o],
         \A p \in 1..Len(payments') : p \in Rows \/ payments'[p].order # o
  PROVE  Once(o, payments', tasks'[o])
  <1>1. /\ Len(payments') \in Nat /\ Len(payments) \in Nat /\ Len(payments) <= Len(payments')
        /\ \A p \in Rows : payments'[p].order = payments[p].order
    BY RowsKeepTheirPurpose, RowsType
  <1>2. \A p \in Rows : p \in 1..Len(payments')
    BY <1>1 DEF Rows
  <1>3. \A p \in 1..Len(payments') : payments'[p].order = o <=> p \in Rows /\ payments[p].order = o
    BY <1>1
  <1>4. QED
    BY <1>2, <1>3 DEF Once, Rows

LEMMA NextWalletOrdersOnce ==
  ASSUME TypeOK, RequestsAreGrounded, RowsAreBacked, RowsFollowTheirOrders, WalletOrdersOnce,
         [Next]_vars
  PROVE  WalletOrdersOnce'
  <1> USE RowsType
  <1>1. payments \in Seq(Payment) /\ tasks \in [Orders -> Nat]
    BY DEF TypeOK
  <1>2. ASSUME NEW o \in Orders, ~Placed(o)' \/ orders'[o].method = "wallet"
        PROVE  Once(o, payments', tasks'[o])
    <2>1. ~Placed(o) \/ orders[o].method = "wallet"
      BY <1>2, PlacedOrdersKeepTheirMethod
    <2>2. Once(o, payments, tasks[o])
      BY <2>1 DEF WalletOrdersOnce
    <2>3. CASE Quiet
      BY <2>2, <2>3 DEF Quiet
    <2>4. CASE CheckoutOpened
      <3>1. PICK row \in Payment :
               /\ payments' = Append(payments, row) /\ UNCHANGED tasks
               /\ row.order = None \/ \E s \in Sessions : At(s, "checkout") /\ session[s].order = row.order
        BY <2>4 DEF CheckoutOpened
      <3>2. row.order # o
        BY <2>1, <3>1, SettlementAssumption DEF At, RequestsAreGrounded, Grounded
      <3>3. \A p \in 1..Len(payments') : p \in Rows \/ payments'[p].order # o
        <4>1. \A p \in 1..Len(payments') : p \in Rows \/ p = Len(payments) + 1
          BY <1>1, <3>1, AppendRow DEF Rows
        <4>2. payments'[Len(payments) + 1] = row
          BY <1>1, <3>1, AppendRow
        <4>3. QED
          BY <3>2, <4>1, <4>2
      <3>4. QED
        BY <2>2, <3>1, <3>3, OnceStays
    <2>5. CASE OrderDebited
      <3>1. PICK c \in Orders :
               /\ \E s \in Sessions : At(s, "debit") /\ session[s].order = c
               /\ payments' = Append(payments, Row(c, Buyer[c], Total[c], "wallet", "captured"))
               /\ tasks' = [tasks EXCEPT ![c] = tasks[c] + 1]
               /\ <<"order", c>> \notin spent[Buyer[c]]
        BY <2>5 DEF OrderDebited
      <3>2. PICK row \in Payment : row = Row(c, Buyer[c], Total[c], "wallet", "captured")
        BY RowType, SettlementAssumption DEF PaymentStatus
      <3>3. row.order = c
        BY <3>2 DEF Row
      <3>4. Placed(c) /\ orders[c].method = "wallet"
        BY <3>1 DEF At, RequestsAreGrounded, Grounded
      <3>5. /\ Len(payments') = Len(payments) + 1 /\ payments'[Len(payments) + 1] = row
            /\ \A p \in Rows : payments'[p] = payments[p]
        BY <1>1, <3>1, <3>2, AppendRow DEF Rows
      <3>6. \A p \in 1..Len(payments') : p \in Rows \/ p = Len(payments) + 1
        BY <3>5 DEF Rows
      <3>7. CASE o = c
        <4>1. \A p \in Rows : payments[p].order # c
          BY <3>1, <3>4 DEF RowsFollowTheirOrders, Follows, Placed, RowsAreBacked
        <4>2. tasks[c] = 0
          BY <2>2, <3>7, <4>1 DEF Once, Rows
        <4>3. tasks'[c] = 1
          BY <1>1, <3>1, <4>2
        <4>4. Len(payments) + 1 \in 1..Len(payments') /\ Len(payments) + 1 \notin Rows
          BY <3>5 DEF Rows
        <4>5. \A q \in 1..Len(payments') : payments'[q].order = c <=> q = Len(payments) + 1
          BY <3>3, <3>5, <3>6, <4>1, <4>4
        <4>6. QED
          BY <3>7, <4>3, <4>4, <4>5 DEF Once
      <3>8. CASE o # c
        BY <1>1, <2>2, <3>1, <3>3, <3>5, <3>6, <3>8, OnceStays
      <3>9. QED
        BY <3>7, <3>8
    <2>6. ASSUME NEW p \in Rows, NEW row, payments' = [payments EXCEPT ![p] = row],
                 tasks'[o] = tasks[o]
          PROVE  Once(o, payments', tasks'[o])
      <3>1. Len(payments') = Len(payments)
        BY <1>1, <2>6
      <3>2. QED
        BY <2>2, <2>6, <3>1, OnceStays DEF Rows
    <2>7. CASE OrderCaptured
      <3>1. PICK p \in Rows :
               /\ payments[p].order \in Orders /\ payments[p].account # "wallet"
               /\ payments' = Recorded(p)
               /\ tasks' = [tasks EXCEPT ![payments[p].order] = tasks[payments[p].order] + 1]
        BY <2>7 DEF OrderCaptured
      <3>2. payments[p].order # o
        BY <2>1, <3>1 DEF RowsFollowTheirOrders, Follows, Placed
      <3>3. QED
        BY <1>1, <2>6, <3>1, <3>2 DEF Recorded
    <2>8. CASE TopUpCaptured \/ CheckoutFailed
      BY <2>6, <2>8 DEF TopUpCaptured, CheckoutFailed, Recorded
    <2>9. QED
      BY <2>3, <2>4, <2>5, <2>7, <2>8, StepEffects
  <1>3. QED
    BY <1>2 DEF WalletOrdersOnce, Placed

LEMMA OnceIsCounted ==
  ASSUME TypeOK, RowsFollowTheirOrders, WalletOrdersOnce
  PROVE  WalletOrdersBoughtOnce
  <1> SUFFICES ASSUME NEW o \in Orders, orders[o].method = "wallet"
               PROVE  /\ tasks[o] <= 1
                      /\ tasks[o] = Cardinality({p \in DOMAIN payments : payments[p].order = o})
    BY DEF WalletOrdersBoughtOnce
  <1> DEFINE S == {p \in DOMAIN payments : payments[p].order = o}
  <1>1. DOMAIN payments = 1..Len(payments)
    BY RowsType DEF Rows
  <1>2. CASE tasks[o] = 0 /\ \A p \in 1..Len(payments) : payments[p].order # o
    <2>1. S = {}
      BY <1>1, <1>2
    <2>2. Cardinality(S) = 0
      BY <2>1, FS_EmptySet
    <2>3. QED
      BY <1>2, <2>2
  <1>3. CASE /\ tasks[o] = 1
             /\ \E p \in 1..Len(payments) : \A q \in 1..Len(payments) : payments[q].order = o <=> q = p
    <2>1. PICK p \in 1..Len(payments) : \A q \in 1..Len(payments) : payments[q].order = o <=> q = p
      BY <1>3
    <2>2. S = {p}
      BY <1>1, <2>1
    <2>3. Cardinality(S) = 1
      BY <2>2, FS_Singleton
    <2>4. QED
      BY <1>3, <2>3
  <1>4. QED
    BY <1>2, <1>3 DEF WalletOrdersOnce, Once

\* An order paid from the balance is bought once, however its debits race: one
\* debit, one payment row, one set of prints.
THEOREM SettlementWalletOrdersBoughtOnce == Spec => []WalletOrdersBoughtOnce
  <1>1. Init => RowsFollowTheirOrders /\ WalletOrdersOnce
    BY DEF Init, RowsFollowTheirOrders, WalletOrdersOnce, Once, Rows
  <1>2. GroundInv /\ RowsFollowTheirOrders /\ WalletOrdersOnce /\ [Next]_vars
           => (RowsFollowTheirOrders /\ WalletOrdersOnce)'
    BY NextRowsFollow, NextWalletOrdersOnce DEF GroundInv
  <1>3. GroundInv /\ RowsFollowTheirOrders /\ WalletOrdersOnce => WalletOrdersBoughtOnce
    BY OnceIsCounted DEF GroundInv
  <1>4. QED
    BY <1>1, <1>2, <1>3, SettlementGround, PTL DEF Spec
-----------------------------------------------------------------------------
(* Requests served one at a time.                                          *)

Settled == {"paid", "dispatched", "completed", "partially_failed"}

\* Prints are queued once, and only of an order that says so.
OrdersOnTheBooks ==
    \A o \in Orders : tasks[o] <= 1 /\ (tasks[o] > 0 => orders[o].state \in Settled)

\* What the request st read is still so.
Current(st) ==
    /\ st.pc = "debit" => orders[st.order].state = "awaiting_payment"
    /\ st.pc = "confirm" /\ st.seen = "awaiting_payment"
          => orders[st.order].state = "awaiting_payment"
    /\ st.pc = "settle" /\ st.order # None => orders[st.order].state = "awaiting_payment"
    /\ st.pc = "expire" => \A o \in st.stale : orders[o].state = "awaiting_payment"
    /\ st.pc = "fail" => ~payments[st.payment].captured

\* A row that has its capture says so in its status.
Kept(row) == row.captured => row.status = "captured"

SerialInv ==
    /\ OrdersOnTheBooks
    /\ \A s \in Sessions : Current(session[s])
    /\ \A p \in Rows : Kept(payments[p])

LEMMA KeptRows ==
  ASSUME TypeOK, \A p \in Rows : Kept(payments[p]), NEW row \in Payment, Kept(row),
         \/ payments' = Append(payments, row)
         \/ \E p \in Rows : payments' = [payments EXCEPT ![p] = row]
  PROVE  \A p \in 1..Len(payments') : Kept(payments'[p])
  <1>1. payments \in Seq(Payment)
    BY DEF TypeOK
  <1>2. CASE payments' = Append(payments, row)
    <2>1. \A p \in 1..Len(payments') : p \in Rows \/ p = Len(payments) + 1
      BY <1>1, <1>2, AppendRow DEF Rows
    <2>2. /\ payments'[Len(payments) + 1] = row
          /\ \A p \in Rows : payments'[p] = payments[p]
      BY <1>1, <1>2, AppendRow DEF Rows
    <2>3. QED
      BY <2>1, <2>2
  <1>3. ASSUME NEW p \in Rows, payments' = [payments EXCEPT ![p] = row]
        PROVE  \A q \in 1..Len(payments') : Kept(payments'[q])
    BY <1>1, <1>3, WriteRow DEF Rows
  <1>4. QED
    BY <1>2, <1>3

LEMMA WorldSerial ==
  ASSUME GroundInv, SerialInv, UNCHANGED <<tasks, session>>,
         \/ \E o \in Orders : PlaceOrder(o) \/ Lapse(o) \/ RefreshOrderState(o)
         \/ \E u \in Users, amount \in TopUps : OpenTopUp(u, amount)
         \/ UNCHANGED <<orders, payments>>
  PROVE  SerialInv'
  <1> USE RowsType DEF GroundInv
  <1>1. payments \in Seq(Payment) /\ orders \in [Orders -> Order] /\ tasks \in [Orders -> Nat]
    BY DEF TypeOK
  <1>2. \A p \in 1..Len(payments') : Kept(payments'[p])
    <2>1. CASE UNCHANGED payments
      BY <2>1 DEF SerialInv, Rows
    <2>2. ASSUME NEW u \in Users, NEW amount \in TopUps, OpenTopUp(u, amount)
          PROVE  \A p \in 1..Len(payments') : Kept(payments'[p])
      <3>1. Row(None, u, amount, "platform", "created") \in Payment
        BY RowType, SettlementAssumption DEF Collectors, PaymentStatus
      <3>2. Kept(Row(None, u, amount, "platform", "created"))
        BY DEF Kept, Row
      <3>3. QED
        BY <2>2, <3>1, <3>2, KeptRows DEF SerialInv, OpenTopUp
    <2>3. QED
      BY <2>1, <2>2 DEF PlaceOrder, Lapse, RefreshOrderState
  <1>3. \A o \in Orders : /\ orders[o].state = "awaiting_payment" => orders'[o].state = "awaiting_payment"
                          /\ orders[o].state \in Settled => orders'[o].state \in Settled
    <2>1. CASE UNCHANGED orders
      BY <2>1
    <2>2. ASSUME NEW o \in Orders, PlaceOrder(o)
          PROVE  \A c \in Orders : c = o \/ orders'[c].state = orders[c].state
      BY <1>1, <2>2 DEF PlaceOrder
    <2>3. ASSUME NEW o \in Orders, Lapse(o)
          PROVE  \A c \in Orders : orders'[c].state = orders[c].state
      BY <1>1, <2>3 DEF Lapse, Order
    <2>4. ASSUME NEW o \in Orders, RefreshOrderState(o)
          PROVE  /\ orders'[o].state \in Settled
                 /\ \A c \in Orders : c = o \/ orders'[c].state = orders[c].state
      BY <1>1, <2>4 DEF RefreshOrderState, Moved, Order, Settled
    <2>5. QED
      BY <2>1, <2>2, <2>3, <2>4 DEF PlaceOrder, RefreshOrderState, OpenTopUp, Settled
  <1>4. OrdersOnTheBooks'
    BY <1>3 DEF SerialInv, OrdersOnTheBooks
  <1>5. \A p \in Rows : payments'[p] = payments[p]
    <2>1. CASE UNCHANGED payments
      BY <2>1
    <2>2. ASSUME NEW u \in Users, NEW amount \in TopUps, OpenTopUp(u, amount)
          PROVE  \A p \in Rows : payments'[p] = payments[p]
      <3>1. Row(None, u, amount, "platform", "created") \in Payment
        BY RowType, SettlementAssumption DEF Collectors, PaymentStatus
      <3>2. QED
        BY <1>1, <2>2, <3>1, AppendRow DEF OpenTopUp, Rows
    <2>3. QED
      BY <2>1, <2>2 DEF PlaceOrder, Lapse, RefreshOrderState
  <1>6. ASSUME NEW s \in Sessions
        PROVE  Current(session[s])'
    <2>1. Current(session[s]) /\ Grounded(session[s]) /\ session[s] \in SessionState
      BY SessionType DEF SerialInv, RequestsAreGrounded
    <2>2. session[s].stale \subseteq Orders /\ session[s].order \in Orders \cup {None}
      BY SessionType
    <2>3. QED
      BY <1>3, <1>5, <2>1, <2>2 DEF Current, Grounded
  <1>7. QED
    BY <1>2, <1>4, <1>6 DEF SerialInv, Rows

LEMMA RequestSerial ==
  ASSUME GroundInv, SerialInv, \A s, t \in Sessions : s = t,
         NEW s \in Sessions, Request(s) \/ Rollback(s) \/ Confirm(s) \/ Capture(s)
  PROVE  SerialInv'
  <1> USE RowsType DEF GroundInv, Set
  <1>1. UNCHANGED <<orders, payments, tasks>>
    BY DEF Request, Rollback, Confirm, Capture, Refuse, PayFromWallet, OpenGatewayCheckout, Verify,
       WebhookCaptured, WebhookFailed, ExpireStaleOrders
  <1>2. session' = [session EXCEPT ![s] = session'[s]] /\ session \in [Sessions -> SessionState]
    BY DEF Request, Rollback, Confirm, Capture, Refuse, PayFromWallet, OpenGatewayCheckout, Verify,
       WebhookCaptured, WebhookFailed, ExpireStaleOrders, TypeOK
  <1>3. Current(session'[s])
    <2>1. Current(Idle)
      BY DEF Current, Idle, Read
    <2>2. ASSUME NEW o \in Orders, PayFromWallet(s, o) \/ OpenGatewayCheckout(s, o)
          PROVE  Current(session'[s])
      BY <1>2, <2>2 DEF PayFromWallet, OpenGatewayCheckout, Current, Read, Payable
    <2>3. ASSUME NEW p \in DOMAIN payments, Verify(s, p) \/ WebhookCaptured(s, p)
          PROVE  Current(session'[s])
      BY <1>2, <2>3 DEF Verify, WebhookCaptured, Current, Read
    <2>4. ASSUME NEW p \in DOMAIN payments, WebhookFailed(s, p)
          PROVE  Current(session'[s])
      <3>1. ~payments[p].captured
        BY <2>4 DEF WebhookFailed, SerialInv, Kept
      <3>2. QED
        BY <1>2, <2>4, <3>1 DEF WebhookFailed, Current, Read
    <2>5. CASE ExpireStaleOrders(s)
      BY <1>2, <2>5 DEF ExpireStaleOrders, Current, Idle, Read
    <2>6. CASE Rollback(s)
      BY <1>2, <2>1, <2>6 DEF Rollback, Refuse
    <2>7. CASE Confirm(s) \/ Capture(s)
      <3>1. session[s] \in SessionState /\ Current(session[s])
        BY SessionType DEF SerialInv
      <3>2. CASE session'[s] = Idle
        BY <2>1, <3>2
      <3>3. CASE session'[s] = [session[s] EXCEPT !.pc = "settle"]
                 /\ (session[s].order # None => orders[session[s].order].state = "awaiting_payment")
        BY <3>1, <3>3 DEF Current, SessionState
      <3>4. QED
        BY <1>2, <2>7, <3>1, <3>2, <3>3 DEF Confirm, Capture, Refuse, At, Current, Payable
    <2>8. QED
      BY <2>2, <2>3, <2>4, <2>5, <2>6, <2>7 DEF Request
  <1>4. \A t \in Sessions : Current(session'[t])
    BY <1>3
  <1>5. QED
    BY <1>1, <1>4 DEF SerialInv, OrdersOnTheBooks, Current, Rows

LEMMA WriteSerial ==
  ASSUME GroundInv, SerialInv, \A s, t \in Sessions : s = t,
         NEW s \in Sessions, Finish(s), ~Confirm(s), ~Capture(s)
  PROVE  SerialInv'
  <1> USE RowsType DEF GroundInv, Set
  <1>1. payments \in Seq(Payment) /\ orders \in [Orders -> Order] /\ tasks \in [Orders -> Nat]
        /\ session \in [Sessions -> SessionState]
    BY DEF TypeOK
  <1>2. Current(session[s]) /\ Grounded(session[s])
    BY DEF SerialInv, RequestsAreGrounded
  <1>3. \A t \in Sessions : Current(session[t])'
    <2>1. session'[s] = Idle
      BY <1>1 DEF Finish, Settle, PayWithWallet, OpenCheckout, MarkPaid, SettleWalletTopUp,
         RecordFailure, Expire, Refuse
    <2>2. \A t \in Sessions : session'[t] = Idle
      BY <2>1
    <2>3. QED
      BY <2>2 DEF Current, Idle, Read
  <1>4. ASSUME NEW o \in Orders, orders[o].state = "awaiting_payment",
               orders' = Moved(o, "paid"), tasks' = [tasks EXCEPT ![o] = tasks[o] + 1]
        PROVE  OrdersOnTheBooks'
    <2>1. tasks[o] = 0
      BY <1>1, <1>4 DEF SerialInv, OrdersOnTheBooks, Settled
    <2>2. orders'[o].state = "paid" /\ \A c \in Orders : c = o \/ orders'[c] = orders[c]
      BY <1>1, <1>4 DEF Moved, Order
    <2>3. QED
      BY <1>1, <1>4, <2>1, <2>2 DEF SerialInv, OrdersOnTheBooks, Settled
  <1>5. OrdersOnTheBooks'
    <2>1. CASE UNCHANGED <<orders, tasks>>
      BY <2>1 DEF SerialInv, OrdersOnTheBooks
    <2>2. CASE PayWithWallet(s)
      <3>1. PICK o \in Orders : o = session[s].order
        BY <1>2, <2>2 DEF PayWithWallet, At, Grounded
      <3>2. orders[o].state = "awaiting_payment"
        BY <1>2, <2>2, <3>1 DEF PayWithWallet, At, Current
      <3>3. QED
        BY <1>4, <2>1, <2>2, <3>1, <3>2 DEF PayWithWallet, Refuse
    <2>3. CASE MarkPaid(s)
      <3>1. PICK o \in Orders : o = session[s].order
        BY <2>3, SessionType DEF MarkPaid
      <3>2. orders[o].state = "awaiting_payment"
        BY <1>2, <2>3, <3>1 DEF MarkPaid, At, Current
      <3>3. QED
        BY <1>4, <2>3, <3>1, <3>2 DEF MarkPaid
    <2>4. CASE Expire(s)
      <3>1. \A o \in Orders : \/ orders'[o].state = orders[o].state
                              \/ orders[o].state = "awaiting_payment"
        BY <1>1, <1>2, <2>4 DEF Expire, At, Current
      <3>2. tasks' = tasks
        BY <2>4 DEF Expire
      <3>3. QED
        BY <1>1, <3>1, <3>2 DEF SerialInv, OrdersOnTheBooks, Settled
    <2>5. QED
      BY <2>1, <2>2, <2>3, <2>4 DEF Finish, Settle, OpenCheckout, SettleWalletTopUp, RecordFailure,
         Refuse
  <1>6. \A p \in 1..Len(payments') : Kept(payments'[p])
    <2>1. CASE UNCHANGED payments
      BY <2>1 DEF SerialInv, Rows
    <2>2. CASE CheckoutOpened
      BY <2>2, KeptRows DEF CheckoutOpened, SerialInv, Kept
    <2>3. CASE OrderDebited
      <3>1. PICK o \in Orders :
               payments' = Append(payments, Row(o, Buyer[o], Total[o], "wallet", "captured"))
        BY <2>3 DEF OrderDebited
      <3>2. Row(o, Buyer[o], Total[o], "wallet", "captured") \in Payment
        BY RowType, SettlementAssumption DEF PaymentStatus
      <3>3. Kept(Row(o, Buyer[o], Total[o], "wallet", "captured"))
        BY DEF Kept, Row
      <3>4. QED
        BY <3>1, <3>2, <3>3, KeptRows DEF SerialInv
    <2>4. CASE OrderCaptured \/ TopUpCaptured
      <3>1. PICK p \in Rows : payments' = Recorded(p)
        BY <2>4 DEF OrderCaptured, TopUpCaptured
      <3>2. PICK old \in Payment : old = payments[p]
        OBVIOUS
      <3>3. PICK row \in Payment : row = [old EXCEPT !.status = "captured", !.captured = TRUE]
        BY ChangedRowType
      <3>4. Kept(row)
        BY <3>3 DEF Kept, Payment
      <3>5. QED
        BY <3>1, <3>2, <3>3, <3>4, KeptRows DEF SerialInv, Recorded
    <2>5. CASE CheckoutFailed
      <3>1. PICK p \in Rows, t \in Sessions :
               /\ At(t, "fail") /\ session[t].payment = p
               /\ payments' = [payments EXCEPT ![p] = [payments[p] EXCEPT !.status = "failed"]]
        BY <2>5 DEF CheckoutFailed
      <3>2. PICK old \in Payment : old = payments[p]
        OBVIOUS
      <3>3. PICK row \in Payment : row = [old EXCEPT !.status = "failed"]
        BY ChangedRowType
      <3>4. ~old.captured
        BY <3>1, <3>2 DEF At, SerialInv, Current
      <3>5. Kept(row)
        BY <3>3, <3>4 DEF Kept, Payment
      <3>6. QED
        BY <3>1, <3>2, <3>3, <3>5, KeptRows DEF SerialInv
    <2>6. QED
      <3>1. Next
        BY DEF Next
      <3>2. QED
        BY <3>1, StepEffects, <2>1, <2>2, <2>3, <2>4, <2>5 DEF Quiet
  <1>7. QED
    BY <1>3, <1>5, <1>6 DEF SerialInv, Rows

LEMMA NextSerial ==
  ASSUME GroundInv, SerialInv, \A s, t \in Sessions : s = t, [Next]_vars
  PROVE  SerialInv'
  <1>1. CASE UNCHANGED vars
    BY <1>1, WorldSerial DEF vars
  <1>2. CASE \E o \in Orders : PlaceOrder(o) \/ Lapse(o) \/ RefreshOrderState(o)
    BY <1>2, WorldSerial DEF PlaceOrder, Lapse, RefreshOrderState
  <1>3. CASE \E u \in Users, amount \in TopUps : OpenTopUp(u, amount)
    BY <1>3, WorldSerial DEF OpenTopUp
  <1>4. CASE MoveGate \/ \E p \in DOMAIN payments : StudentPays(p) \/ AttemptFails(p)
    BY <1>4, WorldSerial DEF MoveGate, StudentPays, AttemptFails
  <1>5. ASSUME NEW s \in Sessions, Request(s) \/ Finish(s) \/ Rollback(s)
        PROVE  SerialInv'
    BY <1>5, RequestSerial, WriteSerial
  <1>6. QED
    BY <1>1, <1>2, <1>3, <1>4, <1>5 DEF Next

\* Served one at a time, requests queue an order's prints once, never expire an
\* order that was paid for, and never take back the capture of a payment: each of
\* the three needs the others, and only a race can break them.
THEOREM SettlementSerial ==
  ASSUME \A s, t \in Sessions : s = t
  PROVE  Spec => [](PrintsOnce /\ ExpiredOrdersBoughtNothing /\ ArrivedMoneyStays)
  <1>1. Init => SerialInv
    BY DEF Init, SerialInv, OrdersOnTheBooks, Current, Idle, Read, Rows
  <1>2. GroundInv /\ SerialInv /\ [Next]_vars => SerialInv'
    BY NextSerial
  <1>3. GroundInv /\ SerialInv => PrintsOnce /\ ExpiredOrdersBoughtNothing /\ ArrivedMoneyStays
    <2> SUFFICES ASSUME GroundInv, SerialInv
                 PROVE  PrintsOnce /\ ExpiredOrdersBoughtNothing /\ ArrivedMoneyStays
      OBVIOUS
    <2>1. TypeOK /\ tasks \in [Orders -> Nat]
      BY DEF GroundInv, TypeOK
    <2>2. PrintsOnce
      BY DEF SerialInv, OrdersOnTheBooks, PrintsOnce
    <2>3. ExpiredOrdersBoughtNothing
      BY <2>1 DEF SerialInv, OrdersOnTheBooks, ExpiredOrdersBoughtNothing, Settled
    <2>4. ArrivedMoneyStays
      BY <2>1, RowsType DEF SerialInv, Kept, ArrivedMoneyStays
    <2>5. QED
      BY <2>2, <2>3, <2>4
  <1>4. QED
    BY <1>1, <1>2, <1>3, SettlementGround, PTL DEF Spec
=============================================================================
