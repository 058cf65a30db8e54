--------------------------- MODULE RefundsProofs ---------------------------
(***************************************************************************)
(* Theorems about Refunds, for any number of payments, keys and requests.   *)
(*                                                                         *)
(* RefundInv says who a request, a row, a credit and a refund of Razorpay's *)
(* belong to.  The sums need more: RowsBackTheBooks, that nothing a payment *)
(* or a request says of refunded_inr exceeds the rows there are, and, until *)
(* two requests were in flight together, OneByOne, that it equals them.     *)
(***************************************************************************)
EXTENDS MCRefunds, FiniteSetTheorems, TLAPS

Return == [payment : Payments, amount : Nat \ {0}, key : Keys \cup {None}]

\* The refund Razorpay made as i, of those in made, is what a request or a row says.
Names(made, p, amount, k, i) ==
    /\ i \in 1..Len(made)
    /\ made[i].payment = p /\ made[i].amount = amount
    /\ k \in Keys => made[i].key = k

\* A request acts for a key that asks for its payment and its destination, and past
\* its call it names a refund of Razorpay's.
Justified(made, st) ==
    /\ st.pc = "call" =>
          /\ st.key \in Keys /\ st.destination = "source"
          /\ st.payment = Asks[st.key].payment /\ Asks[st.key].destination = "source"
    /\ st.pc = "write" /\ st.destination = "source" =>
          Names(made, st.payment, st.amount, st.key, st.id)
    /\ st.pc = "write" /\ st.destination = "wallet" =>
          st.key \in Keys /\ st.id = 0 /\ Asks[st.key].destination = "wallet"
    /\ st.pc = "write" => st.key \in Keys \cup Ids
    /\ st.pc # "idle" => st.payment \in Payments
    /\ st.pc = "call" => st.amount > 0

RequestsAreJustified == \A s \in Sessions : Justified(returned, session[s])

\* Razorpay makes one refund per key, as the key asks for it.
ReturnedByKey ==
    /\ \A i \in 1..Len(returned) :
          returned[i].key \in Keys =>
              /\ Asks[returned[i].key].destination = "source"
              /\ Asks[returned[i].key].payment = returned[i].payment
    /\ \A i, j \in 1..Len(returned) :
          returned[i].key = returned[j].key /\ returned[i].key \in Keys => i = j

\* A credit is for a key that asks for the balance, once, with its row.
CreditsByKey ==
    \A k \in Keys :
        /\ credited[k] <= 1
        /\ credited[k] > 0 =>
              /\ Asks[k].destination = "wallet"
              /\ \E row \in refunds : row.key = k /\ row.destination = "wallet"

RowsAreMoney ==
    \A row \in refunds :
        \/ row.destination = "source" /\ Names(returned, row.payment, row.amount, row.key, row.id)
        \/ row.destination = "wallet" /\ row.key \in Keys /\ credited[row.key] = 1

RowsAreUnique ==
    \A row, twin \in refunds :
        row.key = twin.key \/ (row.id = twin.id /\ row.id # 0) => row = twin

RefundInv ==
    /\ TypeOK
    /\ RequestsAreJustified
    /\ ReturnedByKey
    /\ CreditsByKey
    /\ RowsAreMoney
    /\ RowsAreUnique

-----------------------------------------------------------------------------

LEMMA IdleHolds == Idle \in SessionState /\ \A made : Justified(made, Idle)
  BY DEF Idle, SessionState, PC, Justified, Destination, Payment, PaymentStatus

LEMMA AppendReturn ==
  ASSUME NEW l \in Seq(Return), NEW row \in Return
  PROVE  /\ Append(l, row) \in Seq(Return)
         /\ Len(Append(l, row)) = Len(l) + 1
         /\ \A i \in 1..Len(l) : Append(l, row)[i] = l[i]
         /\ Append(l, row)[Len(l) + 1] = row
         /\ Len(l) \in Nat /\ DOMAIN l = 1..Len(l)
  OBVIOUS

LEMMA AskType ==
  ASSUME NEW k \in Keys
  PROVE  Asks[k].payment \in Payments /\ Asks[k].amount \in Nat
         /\ Asks[k].destination \in Destination
  BY RefundsAssumption DEF Ask

\* A step of one request that changes no row.
LEMMA RequestStep ==
  ASSUME RefundInv, NEW s \in Sessions, NEW st \in SessionState, Justified(returned, st),
         Set(s, st), UNCHANGED <<payments, orders, refunds, credited, returned>>
  PROVE  RefundInv'
  <1>1. session \in [Sessions -> SessionState]
    BY DEF RefundInv, TypeOK
  <1>2. session' = [session EXCEPT ![s] = st]
    BY DEF Set
  <1>3. session' \in [Sessions -> SessionState]
    BY <1>1, <1>2
  <1>4. TypeOK'
    BY <1>3 DEF RefundInv, TypeOK
  <1>5. \A t \in Sessions : Justified(returned, session'[t])
    <2>1. TAKE t \in Sessions
    <2>2. CASE t = s
      BY <1>1, <1>2, <2>2
    <2>3. CASE t # s
      BY <1>1, <1>2, <2>3 DEF RefundInv, RequestsAreJustified
    <2>4. QED
      BY <2>2, <2>3
  <1>6. RequestsAreJustified'
    BY <1>5 DEF RequestsAreJustified
  <1>7. ReturnedByKey' /\ CreditsByKey' /\ RowsAreMoney' /\ RowsAreUnique'
    BY DEF RefundInv, ReturnedByKey, CreditsByKey, RowsAreMoney, RowsAreUnique
  <1>8. QED
    BY <1>4, <1>6, <1>7 DEF RefundInv

\* A step that leaves the refunds and the requests alone.
LEMMA PaymentStep ==
  ASSUME RefundInv, payments' \in [Payments -> Payment],
         orders' \in [Payments -> {"awaiting_payment", "paid", "refunded"}],
         UNCHANGED <<refunds, credited, returned, session>>
  PROVE  RefundInv'
  <1>1. TypeOK'
    BY DEF RefundInv, TypeOK
  <1>2. RequestsAreJustified'
    BY DEF RefundInv, RequestsAreJustified
  <1>3. ReturnedByKey' /\ CreditsByKey' /\ RowsAreMoney' /\ RowsAreUnique'
    BY DEF RefundInv, ReturnedByKey, CreditsByKey, RowsAreMoney, RowsAreUnique
  <1>4. QED
    BY <1>1, <1>2, <1>3 DEF RefundInv

\* Razorpay makes a refund: of a key that has none, as it asks, or of no key.
LEMMA ReturnStep ==
  ASSUME RefundInv, NEW p \in Payments, NEW amount \in Nat, NEW k \in Keys \cup {None},
         ReturnMoney(p, amount, k),
         k \in Keys => /\ Asks[k].destination = "source" /\ Asks[k].payment = p
                       /\ \A i \in 1..Len(returned) : returned[i].key # k
  PROVE  /\ returned' \in Seq(Return) /\ Len(returned') <= MaxReturned
         /\ Names(returned', p, amount, k, Len(returned) + 1)
         /\ ReturnedByKey'
         /\ \A q, a, key, i :
               Names(returned, q, a, key, i) => Names(returned', q, a, key, i)
  <1>1. returned \in Seq(Return)
    BY DEF RefundInv, TypeOK, Return
  <1> DEFINE row == [payment |-> p, amount |-> amount, key |-> k]
  <1>2. row \in Return
    BY DEF ReturnMoney, Return
  <1>3. returned' = Append(returned, row) /\ Len(returned) < MaxReturned
    BY DEF ReturnMoney
  <1>4. row.payment = p /\ row.amount = amount /\ row.key = k
    OBVIOUS
  <1> HIDE DEF row
  <1>5. /\ returned' \in Seq(Return)
        /\ Len(returned') = Len(returned) + 1 /\ Len(returned) \in Nat
        /\ \A i \in 1..Len(returned) : returned'[i] = returned[i]
        /\ returned'[Len(returned) + 1] = row
    BY <1>1, <1>2, <1>3, AppendReturn
  <1>6. Names(returned', p, amount, k, Len(returned) + 1)
    BY <1>4, <1>5 DEF Names
  <1>7. ASSUME NEW q, NEW a, NEW key, NEW i, Names(returned, q, a, key, i)
        PROVE  Names(returned', q, a, key, i)
    BY <1>5, <1>7 DEF Names
  <1>8. \A i \in 1..Len(returned') :
           returned'[i].key \in Keys =>
               /\ Asks[returned'[i].key].destination = "source"
               /\ Asks[returned'[i].key].payment = returned'[i].payment
    BY <1>4, <1>5 DEF RefundInv, ReturnedByKey
  <1>9. \A i, j \in 1..Len(returned') :
           returned'[i].key = returned'[j].key /\ returned'[i].key \in Keys => i = j
    BY <1>4, <1>5 DEF RefundInv, ReturnedByKey
  <1>10. Len(returned') <= MaxReturned
    BY <1>3, <1>5, RefundsAssumption
  <1>11. QED
    BY <1>5, <1>6, <1>7, <1>8, <1>9, <1>10 DEF ReturnedByKey

\* What Razorpay has made stays made, for every request and every row.
LEMMA MoreReturned ==
  ASSUME RefundInv, UNCHANGED <<payments, orders, refunds, credited>>,
         returned' \in Seq(Return), Len(returned') <= MaxReturned, ReturnedByKey',
         \A q, a, key, i : Names(returned, q, a, key, i) => Names(returned', q, a, key, i),
         session' \in [Sessions -> SessionState],
         NEW s, \A t \in Sessions : t # s => session'[t] = session[t],
         s \in Sessions => Justified(returned', session'[s])
  PROVE  RefundInv'
  <1>1. TypeOK'
    BY DEF RefundInv, TypeOK, Return
  <1>2. \A t \in Sessions : Justified(returned', session'[t])
    <2>1. TAKE t \in Sessions
    <2>2. CASE t = s
      BY <2>2
    <2>3. CASE t # s
      <3>1. session'[t] = session[t] /\ Justified(returned, session[t])
        BY <2>3 DEF RefundInv, RequestsAreJustified
      <3>2. QED
        BY <3>1 DEF Justified
    <2>4. QED
      BY <2>2, <2>3
  <1>3. RequestsAreJustified'
    BY <1>2 DEF RequestsAreJustified
  <1>4. CreditsByKey' /\ RowsAreUnique'
    BY DEF RefundInv, CreditsByKey, RowsAreUnique
  <1>5. RowsAreMoney'
    BY DEF RefundInv, RowsAreMoney
  <1>6. QED
    BY <1>1, <1>3, <1>4, <1>5 DEF RefundInv

LEMMA InitInv == Init => RefundInv
  <1> SUFFICES ASSUME Init PROVE RefundInv
    OBVIOUS
  <1>1. session \in [Sessions -> SessionState]
    BY IdleHolds DEF Init
  <1>2. payments \in [Payments -> Payment]
    BY DEF Init, Payment, PaymentStatus
  <1>3. TypeOK
    BY <1>1, <1>2, RefundsAssumption DEF Init, TypeOK
  <1>4. RequestsAreJustified
    BY IdleHolds DEF Init, RequestsAreJustified
  <1>5. ReturnedByKey /\ CreditsByKey /\ RowsAreMoney /\ RowsAreUnique
    BY DEF Init, ReturnedByKey, CreditsByKey, RowsAreMoney, RowsAreUnique
  <1>6. QED
    BY <1>3, <1>4, <1>5 DEF RefundInv

LEMMA PaymentWrite ==
  ASSUME NEW row \in Payment, NEW status \in PaymentStatus
  PROVE  [row EXCEPT !.status = status] \in Payment
  BY DEF Payment

LEMMA RecordCaptureInv ==
  ASSUME RefundInv, NEW p \in Payments, RecordCapture(p)
  PROVE  RefundInv'
  <1>1. payments \in [Payments -> Payment]
        /\ orders \in [Payments -> {"awaiting_payment", "paid", "refunded"}]
    BY DEF RefundInv, TypeOK
  <1>2. [payments[p] EXCEPT !.status = "captured"] \in Payment
    BY <1>1, PaymentWrite DEF PaymentStatus
  <1>3. QED
    BY <1>1, <1>2, PaymentStep DEF RecordCapture

LEMMA DashboardRefundInv ==
  ASSUME RefundInv, NEW p \in Payments, DashboardRefund(p)
  PROVE  RefundInv'
  <1>1. PICK amount \in 1..Paid[p] : ReturnMoney(p, amount, None)
    BY DEF DashboardRefund
  <1>2. amount \in Nat
    OBVIOUS
  <1>3. /\ returned' \in Seq(Return) /\ Len(returned') <= MaxReturned /\ ReturnedByKey'
        /\ \A q, a, key, i : Names(returned, q, a, key, i) => Names(returned', q, a, key, i)
    BY <1>1, <1>2, ReturnStep, RefundsAssumption
  <1>4. session' = session /\ session \in [Sessions -> SessionState]
    BY DEF DashboardRefund, RefundInv, TypeOK
  <1>5. \A s \in Sessions : Justified(returned', session[s])
    BY <1>3 DEF RefundInv, RequestsAreJustified, Justified
  <1>6. QED
    BY <1>3, <1>4, <1>5, MoreReturned DEF DashboardRefund

\* A request that has judged its refund: what it carries is typed.
LEMMA CarryType ==
  ASSUME TypeOK, NEW pc \in PC, NEW k \in Keys \cup Ids \cup {None}, NEW p \in Payments,
         NEW amount \in Nat, NEW destination \in Destination, NEW i \in Nat
  PROVE  [pc |-> pc, key |-> k, payment |-> p, amount |-> amount, destination |-> destination,
          id |-> i, seen |-> payments[p]] \in SessionState
  BY DEF TypeOK, SessionState

LEMMA RefundAnOrderInv ==
  ASSUME RefundInv, NEW s \in Sessions, NEW k \in Keys, RefundAnOrder(s, k)
  PROVE  RefundInv'
  <1> DEFINE p == Asks[k].payment
             destination == Asks[k].destination
             amount == IF Asks[k].amount = 0 THEN Paid[p] - payments[p].refunded ELSE Asks[k].amount
             pc == IF destination = "source" THEN "call" ELSE "write"
             st == [pc |-> pc, key |-> k, payment |-> p, amount |-> amount,
                    destination |-> destination, id |-> 0, seen |-> payments[p]]
  <1>1. p \in Payments /\ destination \in Destination /\ TypeOK
    BY AskType DEF RefundInv
  <1>2. amount > 0 /\ amount \in Nat
    BY <1>1, AskType, RefundsAssumption DEF RefundAnOrder, Refundable, TypeOK, Payment
  <1>3. pc \in PC
    BY DEF PC
  <1>4. Set(s, st)
    BY DEF RefundAnOrder, Carry
  <1>5. st \in SessionState
    BY <1>1, <1>2, <1>3, CarryType
  <1>6. Justified(returned, st)
    BY <1>1, <1>2 DEF Justified, Destination
  <1>7. UNCHANGED <<payments, orders, refunds, credited, returned>>
    BY DEF RefundAnOrder
  <1>8. QED
    BY <1>4, <1>5, <1>6, <1>7, RequestStep

LEMMA CallRazorpayInv ==
  ASSUME RefundInv, NEW s \in Sessions, CallRazorpay(s)
  PROVE  RefundInv'
  <1>1. session \in [Sessions -> SessionState] /\ returned \in Seq(Return)
    BY DEF RefundInv, TypeOK, Return
  <1>2. session[s] \in SessionState /\ session[s].pc = "call" /\ Justified(returned, session[s])
    BY <1>1 DEF RefundInv, RequestsAreJustified, CallRazorpay, At
  <1> DEFINE k == session[s].key
             p == session[s].payment
             amount == session[s].amount
  <1>3. /\ k \in Keys /\ p \in Payments /\ amount \in Nat
        /\ session[s].destination = "source"
        /\ Asks[k].destination = "source" /\ Asks[k].payment = p
    BY <1>2 DEF Justified, SessionState
  <1>4. ASSUME NEW i \in Nat
        PROVE  LET st == [session[s] EXCEPT !.pc = "write", !.id = i]
               IN  /\ st \in SessionState /\ st.pc = "write" /\ st.id = i /\ st.key = k
                   /\ st.payment = p /\ st.amount = amount /\ st.destination = "source"
    BY <1>2, <1>3 DEF SessionState, PC
  <1>5. ASSUME NEW i \in DOMAIN returned, returned[i].key = k, returned[i].amount = amount,
               Set(s, [session[s] EXCEPT !.pc = "write", !.id = i]),
               UNCHANGED <<payments, orders, refunds, credited, returned>>
        PROVE  RefundInv'
    <2> DEFINE st == [session[s] EXCEPT !.pc = "write", !.id = i]
    <2>1. i \in 1..Len(returned) /\ i \in Nat
      BY <1>1
    <2>2. Names(returned, p, amount, k, i)
      BY <1>3, <1>5, <2>1 DEF Names, RefundInv, ReturnedByKey
    <2>3. /\ st \in SessionState /\ st.pc = "write" /\ st.id = i /\ st.key = k
          /\ st.payment = p /\ st.amount = amount /\ st.destination = "source"
      BY <1>4, <2>1
    <2>4. Justified(returned, st)
      BY <1>3, <2>2, <2>3 DEF Justified
    <2>5. QED
      BY <1>5, <2>3, <2>4, RequestStep
  <1>6. ASSUME {i \in DOMAIN returned : returned[i].key = k} = {},
               ReturnMoney(p, amount, k),
               Set(s, [session[s] EXCEPT !.pc = "write", !.id = Len(returned) + 1]),
               UNCHANGED <<payments, orders, refunds, credited>>
        PROVE  RefundInv'
    <2> DEFINE st == [session[s] EXCEPT !.pc = "write", !.id = Len(returned) + 1]
    <2>1. \A i \in 1..Len(returned) : returned[i].key # k
      BY <1>1, <1>6
    <2>2. /\ returned' \in Seq(Return) /\ Len(returned') <= MaxReturned /\ ReturnedByKey'
          /\ Names(returned', p, amount, k, Len(returned) + 1)
          /\ \A q, a, key, i : Names(returned, q, a, key, i) => Names(returned', q, a, key, i)
      BY <1>3, <1>6, <2>1, ReturnStep
    <2>3. Len(returned) + 1 \in Nat
      BY <1>1
    <2>4. /\ st \in SessionState /\ st.pc = "write" /\ st.id = Len(returned) + 1 /\ st.key = k
          /\ st.payment = p /\ st.amount = amount /\ st.destination = "source"
      BY <1>4, <2>3
    <2>5. Justified(returned', st)
      BY <1>3, <2>2, <2>4 DEF Justified
    <2> HIDE DEF st
    <2>6. session' = [session EXCEPT ![s] = st]
      BY <1>6 DEF Set, st
    <2>7. /\ session' \in [Sessions -> SessionState] /\ session'[s] = st
          /\ \A t \in Sessions : t # s => session'[t] = session[t]
      BY <1>1, <2>4, <2>6
    <2>8. QED
      BY <1>6, <2>2, <2>5, <2>7, MoreReturned
  <1>7. QED
    BY <1>5, <1>6 DEF CallRazorpay

LEMMA IdleInv ==
  ASSUME RefundInv, NEW s \in Sessions, Set(s, Idle),
         UNCHANGED <<payments, orders, refunds, credited, returned>>
  PROVE  RefundInv'
  BY IdleHolds, RequestStep

LEMMA WebhookRefundedInv ==
  ASSUME RefundInv, NEW s \in Sessions, NEW i \in DOMAIN returned, WebhookRefunded(s, i)
  PROVE  RefundInv'
  <1> DEFINE p == returned[i].payment
             amount == returned[i].amount
             st == [pc |-> "write", key |-> i, payment |-> p, amount |-> amount,
                    destination |-> "source", id |-> i, seen |-> payments[p]]
  <1>1. returned \in Seq(Return) /\ Len(returned) <= MaxReturned /\ TypeOK
    BY DEF RefundInv, TypeOK, Return
  <1>2. i \in 1..Len(returned) /\ i \in Ids /\ i \in Nat /\ returned[i] \in Return
    BY <1>1, RefundsAssumption DEF Ids
  <1>3. p \in Payments /\ amount \in Nat
    BY <1>2 DEF Return
  <1>4. i \notin Keys
    BY <1>2, RefundsAssumption
  <1>5. "write" \in PC /\ "source" \in Destination
    BY DEF PC, Destination
  <1>6. st \in SessionState
    BY <1>1, <1>2, <1>3, <1>5, CarryType
  <1>7. Justified(returned, st)
    BY <1>2, <1>3, <1>4 DEF Justified, Names
  <1>8. QED
    BY <1>6, <1>7, RequestStep DEF WebhookRefunded, Carry

LEMMA WebhookFailedInv ==
  ASSUME RefundInv, NEW s \in Sessions, NEW p \in Payments, WebhookFailed(s, p)
  PROVE  RefundInv'
  <1> DEFINE st == [pc |-> "fail", key |-> None, payment |-> p, amount |-> 0,
                    destination |-> "source", id |-> 0, seen |-> payments[p]]
  <1>1. "fail" \in PC /\ "source" \in Destination /\ TypeOK
    BY DEF PC, Destination, RefundInv
  <1>2. st \in SessionState
    BY <1>1, CarryType
  <1>3. Justified(returned, st)
    BY DEF Justified
  <1>4. QED
    BY <1>2, <1>3, RequestStep DEF WebhookFailed, Carry

\* A request that ends while payments and orders change.
LEMMA EndStep ==
  ASSUME RefundInv, NEW s \in Sessions, Set(s, Idle),
         payments' \in [Payments -> Payment],
         orders' \in [Payments -> {"awaiting_payment", "paid", "refunded"}],
         UNCHANGED returned
  PROVE  /\ session' \in [Sessions -> SessionState]
         /\ RequestsAreJustified'
         /\ ReturnedByKey'
  <1>1. session \in [Sessions -> SessionState] /\ session' = [session EXCEPT ![s] = Idle]
    BY DEF RefundInv, TypeOK, Set
  <1>2. session' \in [Sessions -> SessionState]
    BY <1>1, IdleHolds
  <1>3. \A t \in Sessions : Justified(returned, session'[t])
    <2>1. TAKE t \in Sessions
    <2>2. CASE t = s
      BY <1>1, <2>2, IdleHolds
    <2>3. CASE t # s
      BY <1>1, <2>3 DEF RefundInv, RequestsAreJustified
    <2>4. QED
      BY <2>2, <2>3
  <1>4. RequestsAreJustified' /\ ReturnedByKey'
    BY <1>3 DEF RefundInv, RequestsAreJustified, ReturnedByKey
  <1>5. QED
    BY <1>2, <1>4

LEMMA RecordFailureInv ==
  ASSUME RefundInv, NEW s \in Sessions, RecordFailure(s)
  PROVE  RefundInv'
  <1>1. /\ payments \in [Payments -> Payment] /\ Justified(returned, session[s])
        /\ session[s].pc = "fail"
        /\ orders \in [Payments -> {"awaiting_payment", "paid", "refunded"}]
    BY DEF RefundInv, TypeOK, RequestsAreJustified, RecordFailure, At
  <1>2. session[s].payment \in Payments
    BY <1>1 DEF Justified
  <1>3. [payments[session[s].payment] EXCEPT !.status = "failed"] \in Payment
    BY <1>1, <1>2, PaymentWrite DEF PaymentStatus
  <1>4. payments' \in [Payments -> Payment]
    BY <1>1, <1>2, <1>3 DEF RecordFailure
  <1>5. session' \in [Sessions -> SessionState] /\ RequestsAreJustified' /\ ReturnedByKey'
    BY <1>1, <1>4, EndStep DEF RecordFailure
  <1>6. TypeOK'
    BY <1>4, <1>5 DEF RefundInv, TypeOK, RecordFailure
  <1>7. CreditsByKey' /\ RowsAreMoney' /\ RowsAreUnique'
    BY DEF RefundInv, CreditsByKey, RowsAreMoney, RowsAreUnique, RecordFailure
  <1>8. QED
    BY <1>5, <1>6, <1>7 DEF RefundInv

LEMMA AfterRefundType ==
  ASSUME TypeOK, NEW s \in Sessions, session[s].payment \in Payments
  PROVE  /\ AfterRefund(s) \in Payment
         /\ ApplyPaymentRefund(s) \in {"awaiting_payment", "paid", "refunded"}
  <1>1. session[s] \in SessionState
    BY DEF TypeOK
  <1>2. session[s].seen \in Payment /\ session[s].amount \in Nat
    BY <1>1 DEF SessionState
  <1>3. session[s].seen.refunded + session[s].amount \in Nat
    BY <1>2 DEF Payment
  <1>4. payments[session[s].payment].status \in PaymentStatus
    BY DEF TypeOK, Payment
  <1>5. AfterRefund(s) \in Payment
    BY <1>3, <1>4 DEF AfterRefund, Payment, PaymentStatus
  <1>6. ApplyPaymentRefund(s) \in {"awaiting_payment", "paid", "refunded"}
    BY DEF ApplyPaymentRefund, TypeOK
  <1>7. QED
    BY <1>5, <1>6

\* The row that is written is new, and the money behind it is its own.
LEMMA WriteRefundInv ==
  ASSUME RefundInv, NEW s \in Sessions, WriteRefund(s)
  PROVE  RefundInv'
  <1> DEFINE p == session[s].payment
             k == session[s].key
             i == session[s].id
             row == [key |-> k, payment |-> p, amount |-> session[s].amount,
                     destination |-> session[s].destination, id |-> i]
  <1>1. /\ TypeOK /\ Justified(returned, session[s]) /\ session[s].pc = "write"
        /\ session[s] \in SessionState
    BY DEF RefundInv, TypeOK, RequestsAreJustified, WriteRefund, At
  <1>2. /\ p \in Payments /\ k \in Keys \cup Ids /\ i \in Nat
        /\ session[s].amount \in Nat /\ session[s].destination \in Destination
    BY <1>1 DEF Justified, SessionState
  <1>3. CASE ~Unique(s)
    BY <1>3, IdleInv DEF WriteRefund, Refuse
  <1>4. CASE Unique(s)
    <2>1. /\ refunds' = refunds \cup {row}
          /\ payments' = [payments EXCEPT ![p] = AfterRefund(s)]
          /\ orders' = [orders EXCEPT ![p] = ApplyPaymentRefund(s)]
          /\ credited' = IF row.destination = "wallet"
                         THEN [credited EXCEPT ![row.key] = @ + 1] ELSE credited
          /\ Set(s, Idle) /\ UNCHANGED returned
      BY <1>4 DEF WriteRefund
    <2>2. row \in Refund
      BY <1>2 DEF Refund
    <2>3. /\ row.key = k /\ row.payment = p /\ row.amount = session[s].amount
          /\ row.destination = session[s].destination /\ row.id = i
      OBVIOUS
    <2> HIDE DEF row
    <2>4. /\ \A twin \in refunds : twin.key # k
          /\ i # 0 => \A twin \in refunds : twin.id # i
      BY <1>4 DEF Unique, RefundForKey, RefundForId
    <2>5. /\ payments' \in [Payments -> Payment]
          /\ orders' \in [Payments -> {"awaiting_payment", "paid", "refunded"}]
      BY <1>1, <1>2, <2>1, AfterRefundType DEF TypeOK
    <2>6. session' \in [Sessions -> SessionState] /\ RequestsAreJustified' /\ ReturnedByKey'
      BY <2>1, <2>5, EndStep
    <2>7. RowsAreUnique'
      BY <2>1, <2>3, <2>4 DEF RefundInv, RowsAreUnique
    <2>8. CASE session[s].destination = "source"
      <3>1. credited' = credited
        BY <2>1, <2>3, <2>8
      <3>2. Names(returned, p, session[s].amount, k, i)
        BY <1>1, <2>8 DEF Justified
      <3>3. TypeOK'
        BY <2>1, <2>2, <2>5, <2>6, <3>1 DEF RefundInv, TypeOK
      <3>4. RowsAreMoney'
        BY <2>1, <2>3, <2>8, <3>1, <3>2 DEF RefundInv, RowsAreMoney
      <3>5. CreditsByKey'
        BY <2>1, <3>1 DEF RefundInv, CreditsByKey
      <3>6. QED
        BY <2>6, <2>7, <3>3, <3>4, <3>5 DEF RefundInv
    <2>9. CASE session[s].destination = "wallet"
      <3>1. k \in Keys /\ Asks[k].destination = "wallet"
        BY <1>1, <2>9 DEF Justified
      <3>2. credited \in [Keys -> Nat] /\ credited[k] = 0
        BY <2>4, <3>1 DEF RefundInv, CreditsByKey, TypeOK
      <3>3. credited' = [credited EXCEPT ![k] = 1]
        BY <2>1, <2>3, <2>9, <3>1, <3>2
      <3>4. /\ credited' \in [Keys -> Nat] /\ credited'[k] = 1
            /\ \A key \in Keys : key # k => credited'[key] = credited[key]
        BY <3>1, <3>2, <3>3
      <3>5. TypeOK'
        BY <2>1, <2>2, <2>5, <2>6, <3>4 DEF RefundInv, TypeOK
      <3>6. RowsAreMoney'
        BY <2>1, <2>3, <2>4, <2>9, <3>1, <3>4 DEF RefundInv, RowsAreMoney
      <3>7. CreditsByKey'
        <4>1. ASSUME NEW key \in Keys
              PROVE  /\ credited'[key] <= 1
                     /\ credited'[key] > 0 =>
                           /\ Asks[key].destination = "wallet"
                           /\ \E twin \in refunds' : twin.key = key /\ twin.destination = "wallet"
          <5>1. CASE key = k
            BY <2>1, <2>3, <2>9, <3>1, <3>4, <5>1
          <5>2. CASE key # k
            BY <2>1, <3>4, <4>1, <5>2 DEF RefundInv, CreditsByKey
          <5>3. QED
            BY <5>1, <5>2
        <4>2. QED
          BY <4>1 DEF CreditsByKey
      <3>8. QED
        BY <2>6, <2>7, <3>5, <3>6, <3>7 DEF RefundInv
    <2>10. QED
      BY <1>2, <2>8, <2>9 DEF Destination
  <1>5. QED
    BY <1>3, <1>4

-----------------------------------------------------------------------------

LEMMA NextInv == RefundInv /\ [Next]_vars => RefundInv'
  <1> SUFFICES ASSUME RefundInv, [Next]_vars PROVE RefundInv'
    OBVIOUS
  <1>1. ASSUME NEW p \in Payments, RecordCapture(p) \/ DashboardRefund(p)
        PROVE  RefundInv'
    BY <1>1, RecordCaptureInv, DashboardRefundInv
  <1>2. ASSUME NEW s \in Sessions, NEW k \in Keys, RefundAnOrder(s, k)
        PROVE  RefundInv'
    BY <1>2, RefundAnOrderInv
  <1>3. ASSUME NEW s \in Sessions, NEW i \in DOMAIN returned, WebhookRefunded(s, i)
        PROVE  RefundInv'
    BY <1>3, WebhookRefundedInv
  <1>4. ASSUME NEW s \in Sessions, NEW p \in Payments, WebhookFailed(s, p)
        PROVE  RefundInv'
    BY <1>4, WebhookFailedInv
  <1>5. ASSUME NEW s \in Sessions, CallRazorpay(s) \/ WriteRefund(s) \/ RecordFailure(s)
        PROVE  RefundInv'
    BY <1>5, CallRazorpayInv, WriteRefundInv, RecordFailureInv
  <1>6. ASSUME NEW s \in Sessions, Rollback(s)
        PROVE  RefundInv'
    BY <1>6, IdleInv DEF Rollback, Refuse
  <1>7. CASE UNCHANGED vars
    <2>1. TypeOK' /\ RequestsAreJustified'
      BY <1>7 DEF vars, RefundInv, TypeOK, RequestsAreJustified
    <2>2. ReturnedByKey' /\ CreditsByKey' /\ RowsAreMoney' /\ RowsAreUnique'
      BY <1>7 DEF vars, RefundInv, ReturnedByKey, CreditsByKey, RowsAreMoney, RowsAreUnique
    <2>3. QED
      BY <2>1, <2>2 DEF RefundInv
  <1>8. QED
    BY <1>1, <1>2, <1>3, <1>4, <1>5, <1>6, <1>7 DEF Next

LEMMA InvHolds == Spec => []RefundInv
  BY InitInv, NextInv, PTL DEF Spec

\* Payments, rows, what Razorpay gave back and requests keep their types.
THEOREM RefundsTypeOK == Spec => []TypeOK
  <1>1. RefundInv => TypeOK
    BY DEF RefundInv
  <1>2. QED
    BY <1>1, InvHolds, PTL

\* A retried refund is not a second refund: the requests under one key move money
\* once, however many there are, and wherever each of them dies.
THEOREM RefundsKeyMovesMoneyOnce == Spec => []KeyMovesMoneyOnce
  <1>1. ASSUME RefundInv, NEW k \in Keys
        PROVE  /\ credited[k] <= 1
               /\ \A i, j \in DOMAIN returned :
                     returned[i].key = k /\ returned[j].key = k => i = j
               /\ credited[k] = 1 => \A i \in DOMAIN returned : returned[i].key # k
    <2>1. DOMAIN returned = 1..Len(returned)
      BY <1>1 DEF RefundInv, TypeOK
    <2>2. credited[k] <= 1 /\ (credited[k] = 1 => Asks[k].destination = "wallet")
      BY <1>1 DEF RefundInv, CreditsByKey, TypeOK
    <2>3. QED
      BY <1>1, <2>1, <2>2 DEF RefundInv, ReturnedByKey
  <1>2. RefundInv => KeyMovesMoneyOnce
    BY <1>1 DEF KeyMovesMoneyOnce
  <1>3. QED
    BY <1>2, InvHolds, PTL

\* Every row of the books is one movement of money, and no movement has two rows,
\* though Razorpay reports our own refunds back to us.
THEOREM RefundsBooksMatchMoney == Spec => []BooksMatchMoney
  <1>1. ASSUME RefundInv, NEW row \in refunds
        PROVE  \/ /\ row.destination = "source" /\ row.id \in DOMAIN returned
                  /\ returned[row.id].payment = row.payment /\ returned[row.id].amount = row.amount
               \/ /\ row.destination = "wallet" /\ row.key \in Keys /\ credited[row.key] = 1
    <2>1. DOMAIN returned = 1..Len(returned)
      BY <1>1 DEF RefundInv, TypeOK
    <2>2. QED
      BY <1>1, <2>1 DEF RefundInv, RowsAreMoney, Names
  <1>2. RefundInv => BooksMatchMoney
    BY <1>1 DEF BooksMatchMoney, RefundInv, RowsAreUnique, CreditsByKey
  <1>3. QED
    BY <1>2, InvHolds, PTL

-----------------------------------------------------------------------------
(* What the rows of a payment add up to.  The sum is a fold over a set: it  *)
(* is defined for every finite set, and a new row adds its amount, by       *)
(* induction on how many rows there are.                                   *)

Amounts(S) == MapThenSumSet(LAMBDA row : row.amount, S)
RowsOf(rows, p) == {row \in rows : row.payment = p}

Less == {p \in Nat \X Nat : p[1] < p[2]}

LEMMA LessIsWellFounded == IsWellFoundedOn(Less, Nat)
  <1>1. OpToRel(<, Nat) = Less
    BY DEF OpToRel, Less
  <1>2. QED
    BY <1>1, NatLessThanWellFounded

\* A set of naturals with 0 and every successor is all of Nat.
LEMMA Induction ==
  ASSUME NEW T, 0 \in T, \A n \in Nat : n \in T => n + 1 \in T
  PROVE  Nat \subseteq T
  <1> SUFFICES ASSUME Nat \ T # {} PROVE FALSE
    OBVIOUS
  <1>1. PICK m \in Nat \ T : \A n \in Nat \ T : ~(<<n, m>> \in Less)
    <2>1. \E m \in Nat \ T : \A n \in Nat \ T : ~(<<n, m>> \in Less)
      BY LessIsWellFounded, WFMin
    <2>2. QED
      BY <2>1
  <1>2. m # 0
    OBVIOUS
  <1>3. m - 1 \in Nat /\ m - 1 < m
    BY <1>2
  <1>4. m - 1 \notin T
    BY <1>3
  <1>5. <<m - 1, m>> \in Less
    BY <1>3 DEF Less
  <1>6. QED
    BY <1>1, <1>3, <1>4, <1>5

\* A row taken from x as the folds take it, and what is left.
Chosen(x) == CHOOSE row \in x : TRUE
Rest(x) == x \ {Chosen(x)}

\* f adds up every set of D.
Adds(f, D) == f = [x \in D |-> IF x = {} THEN 0 ELSE Chosen(x).amount + f[Rest(x)]]

LEMMA RestIsSmaller ==
  ASSUME NEW S, IsFiniteSet(S), NEW x \in SUBSET S, x # {}
  PROVE  /\ Chosen(x) \in x /\ Rest(x) \in SUBSET S
         /\ Cardinality(x) \in Nat \ {0} /\ Cardinality(Rest(x)) = Cardinality(x) - 1
  <1>1. Chosen(x) \in x
    BY DEF Chosen
  <1>2. IsFiniteSet(x)
    BY FS_Subset
  <1>3. Cardinality(x) \in Nat /\ Cardinality(x) # 0
    BY <1>2, FS_CardinalityType, FS_EmptySet
  <1>4. Cardinality(Rest(x)) = Cardinality(x) - 1
    BY <1>1, <1>2, FS_RemoveElement DEF Rest
  <1>5. QED
    BY <1>1, <1>3, <1>4 DEF Rest

LEMMA SumsExist ==
  ASSUME NEW S, IsFiniteSet(S)
  PROVE  \E f : Adds(f, SUBSET S)
  <1> DEFINE Small(n) == {y \in SUBSET S : Cardinality(y) <= n}
             T == {n \in Nat : \E f : Adds(f, Small(n))}
  <1>1. \A x \in SUBSET S : Cardinality(x) \in Nat /\ (Cardinality(x) = 0 <=> x = {})
    BY FS_Subset, FS_CardinalityType, FS_EmptySet
  <1>2. 0 \in T
    <2> DEFINE f == [x \in Small(0) |-> 0]
    <2>1. \A x \in Small(0) : x = {}
      BY <1>1
    <2>2. f = [x \in Small(0) |-> IF x = {} THEN 0 ELSE Chosen(x).amount + f[Rest(x)]]
      BY <2>1
    <2>3. Adds(f, Small(0))
      BY <2>2 DEF Adds
    <2>4. QED
      BY <2>3
  <1>3. ASSUME NEW n \in Nat, n \in T
        PROVE  n + 1 \in T
    <2>1. PICK f : Adds(f, Small(n))
      BY <1>3
    <2> DEFINE D == Small(n)
               E == Small(n + 1)
               g == [x \in E |-> IF x = {} THEN 0 ELSE Chosen(x).amount + f[Rest(x)]]
    <2>2. f = [x \in D |-> IF x = {} THEN 0 ELSE Chosen(x).amount + f[Rest(x)]]
      BY <2>1 DEF Adds
    <2>3. \A x \in D : f[x] = g[x]
      <3>1. \A x \in D : x \in E
        BY <1>1
      <3>2. \A x \in D : f[x] = IF x = {} THEN 0 ELSE Chosen(x).amount + f[Rest(x)]
        BY <2>2
      <3>3. QED
        BY <3>1, <3>2
    <2>4. \A x \in E : x # {} => Rest(x) \in D
      BY RestIsSmaller
    <2>5. \A x \in E : x # {} => f[Rest(x)] = g[Rest(x)]
      BY <2>3, <2>4
    <2>6. g = [x \in E |-> IF x = {} THEN 0 ELSE Chosen(x).amount + g[Rest(x)]]
      BY <2>5
    <2>7. Adds(g, E)
      BY <2>6 DEF Adds
    <2>8. QED
      BY <2>7
  <1>4. Nat \subseteq T
    <2> HIDE DEF T
    <2>1. QED
      BY <1>2, <1>3, Induction
  <1>5. Cardinality(S) \in Nat /\ \A x \in SUBSET S : Cardinality(x) <= Cardinality(S)
    BY FS_CardinalityType, FS_Subset
  <1>6. Small(Cardinality(S)) = SUBSET S
    BY <1>5
  <1>7. QED
    BY <1>4, <1>5, <1>6

\* Two sums agree wherever both are defined.
LEMMA SumsAgree ==
  ASSUME NEW S, IsFiniteSet(S), NEW f, NEW g, NEW R \in SUBSET S,
         Adds(f, SUBSET S), Adds(g, SUBSET R)
  PROVE  f[R] = g[R]
  <1>1. /\ \A x \in SUBSET S : f[x] = IF x = {} THEN 0 ELSE Chosen(x).amount + f[Rest(x)]
        /\ \A x \in SUBSET R : g[x] = IF x = {} THEN 0 ELSE Chosen(x).amount + g[Rest(x)]
    BY DEF Adds
  <1>2. IsFiniteSet(R)
    BY FS_Subset
  <1> DEFINE T == {n \in Nat : \A x \in SUBSET R : Cardinality(x) = n => f[x] = g[x]}
  <1>3. 0 \in T
    <2>1. \A x \in SUBSET R : Cardinality(x) = 0 => x = {}
      BY <1>2, FS_Subset, FS_EmptySet
    <2>2. f[{}] = 0 /\ g[{}] = 0
      BY <1>1
    <2>3. \A x \in SUBSET R : Cardinality(x) = 0 => f[x] = g[x]
      BY <2>1, <2>2
    <2>4. QED
      BY <2>3
  <1>4. ASSUME NEW n \in Nat, n \in T PROVE n + 1 \in T
    <2>1. SUFFICES ASSUME NEW x \in SUBSET R, Cardinality(x) = n + 1 PROVE f[x] = g[x]
      OBVIOUS
    <2>2. x # {}
      <3>1. Cardinality(x) # 0
        BY <2>1
      <3>2. QED
        BY <3>1, FS_EmptySet
    <2>3. Rest(x) \in SUBSET R /\ Cardinality(Rest(x)) = n
      BY <1>2, <2>1, <2>2, RestIsSmaller
    <2>4. f[Rest(x)] = g[Rest(x)]
      BY <1>4, <2>3
    <2>5. x \in SUBSET S
      OBVIOUS
    <2>6. QED
      BY <1>1, <2>2, <2>4, <2>5
  <1>5. Cardinality(R) \in T
    <2> HIDE DEF T
    <2>1. QED
      BY <1>2, <1>3, <1>4, FS_CardinalityType, Induction
  <1>6. QED
    BY <1>5

LEMMA AmountsAdd ==
  ASSUME NEW S, IsFiniteSet(S)
  PROVE  \E f : Adds(f, SUBSET S) /\ Amounts(S) = f[S]
  <1> DEFINE Iter(f) == f = [x \in SUBSET S |->
                          IF x = {} THEN 0 ELSE (CHOOSE y \in x : TRUE).amount
                                                 + f[x \ {CHOOSE y \in x : TRUE}]]
             sum == CHOOSE f : Iter(f)
  <1>1. Amounts(S) = sum[S]
    BY DEF Amounts, MapThenSumSet, MapThenFoldSet
  <1>2. \A f : Iter(f) <=> Adds(f, SUBSET S)
    BY DEF Adds, Chosen, Rest
  <1>3. \E f : Iter(f)
    <2>1. PICK f : Adds(f, SUBSET S)
      BY SumsExist
    <2>2. Iter(f)
      BY <1>2, <2>1
    <2> HIDE DEF Iter
    <2>3. QED
      BY <2>2
  <1>4. Iter(sum)
    <2> HIDE DEF Iter
    <2>1. QED
      BY <1>3, Zenon
  <1>5. Adds(sum, SUBSET S)
    BY <1>2, <1>4
  <1> HIDE DEF sum
  <1>6. QED
    BY <1>1, <1>5

\* The sum of a set, from the row the fold takes first.
LEMMA AmountsByRow ==
  ASSUME NEW S, IsFiniteSet(S)
  PROVE  Amounts(S) = IF S = {} THEN 0 ELSE Chosen(S).amount + Amounts(Rest(S))
  <1>1. PICK f : Adds(f, SUBSET S) /\ Amounts(S) = f[S]
    BY AmountsAdd
  <1>2. f[S] = IF S = {} THEN 0 ELSE Chosen(S).amount + f[Rest(S)]
    BY <1>1 DEF Adds
  <1>3. Rest(S) \in SUBSET S /\ IsFiniteSet(Rest(S))
    BY FS_Subset DEF Rest
  <1>4. PICK g : Adds(g, SUBSET Rest(S)) /\ Amounts(Rest(S)) = g[Rest(S)]
    BY <1>3, AmountsAdd
  <1>5. f[Rest(S)] = g[Rest(S)]
    <2> DEFINE R == Rest(S)
    <2>1. R \in SUBSET S /\ Adds(g, SUBSET R) /\ Adds(f, SUBSET S)
      BY <1>1, <1>3, <1>4
    <2> HIDE DEF R
    <2>2. f[R] = g[R]
      BY <2>1, SumsAgree
    <2>3. QED
      BY <2>2 DEF R
  <1>6. QED
    BY <1>1, <1>2, <1>4, <1>5

LEMMA AmountsType ==
  ASSUME NEW S, IsFiniteSet(S), \A row \in S : row.amount \in Nat
  PROVE  Amounts(S) \in Nat
  <1> DEFINE T == {n \in Nat : \A x \in SUBSET S : Cardinality(x) = n => Amounts(x) \in Nat}
  <1>1. \A x \in SUBSET S : IsFiniteSet(x) /\ Cardinality(x) \in Nat
    BY FS_Subset, FS_CardinalityType
  <1>2. 0 \in T
    <2>1. \A x \in SUBSET S : Cardinality(x) = 0 => x = {}
      BY <1>1, FS_EmptySet
    <2>2. Amounts({}) = 0
      BY AmountsByRow, FS_EmptySet
    <2>3. QED
      BY <2>1, <2>2
  <1>3. ASSUME NEW n \in Nat, n \in T PROVE n + 1 \in T
    <2>1. SUFFICES ASSUME NEW x \in SUBSET S, Cardinality(x) = n + 1 PROVE Amounts(x) \in Nat
      OBVIOUS
    <2>2. x # {}
      BY <2>1, FS_EmptySet
    <2>3. Chosen(x) \in x /\ Rest(x) \in SUBSET S /\ Cardinality(Rest(x)) = n
      BY <2>1, <2>2, RestIsSmaller
    <2>4. Amounts(Rest(x)) \in Nat /\ Chosen(x).amount \in Nat
      BY <1>3, <2>3
    <2>5. Amounts(x) = Chosen(x).amount + Amounts(Rest(x))
      BY <1>1, <2>2, AmountsByRow
    <2>6. QED
      BY <2>4, <2>5
  <1>4. Cardinality(S) \in T
    <2> HIDE DEF T
    <2>1. QED
      BY <1>1, <1>2, <1>3, Induction
  <1>5. QED
    BY <1>4

\* The sum of a set, from any of its rows: the order of the rows does not matter.
LEMMA AmountsWithout ==
  ASSUME NEW S, IsFiniteSet(S), \A row \in S : row.amount \in Nat
  PROVE  \A row \in S : Amounts(S) = row.amount + Amounts(S \ {row})
  <1> DEFINE Good(x) == \A row \in x : Amounts(x) = row.amount + Amounts(x \ {row})
             T == {n \in Nat : \A x \in SUBSET S : Cardinality(x) = n => Good(x)}
  <1>1. \A x \in SUBSET S : IsFiniteSet(x) /\ Cardinality(x) \in Nat
    BY FS_Subset, FS_CardinalityType
  <1>2. 0 \in T
    <2>1. \A x \in SUBSET S : Cardinality(x) = 0 => x = {}
      BY <1>1, FS_EmptySet
    <2>2. QED
      BY <2>1
  <1>3. ASSUME NEW n \in Nat, n \in T PROVE n + 1 \in T
    <2>1. SUFFICES ASSUME NEW x \in SUBSET S, Cardinality(x) = n + 1, NEW row \in x
                   PROVE  Amounts(x) = row.amount + Amounts(x \ {row})
      OBVIOUS
    <2> DEFINE c == Chosen(x)
               y == x \ {row}
               z == Rest(x) \ {row}
    <2>2. /\ c \in x /\ Rest(x) \in SUBSET S /\ Rest(x) = x \ {c}
          /\ Cardinality(Rest(x)) = n
      BY <2>1, RestIsSmaller DEF Rest
    <2>3. Amounts(x) = c.amount + Amounts(Rest(x))
      BY <1>1, <2>1, AmountsByRow
    <2>4. CASE row = c
      BY <2>2, <2>3, <2>4
    <2>5. CASE row # c
      <3>1. y \in SUBSET S /\ Cardinality(y) = n
        <4>1. Cardinality(x \ {row}) = Cardinality(x) - 1
          BY <1>1, <2>1, FS_RemoveElement
        <4> HIDE DEF y
        <4>2. Cardinality(y) = n
          BY <1>1, <2>1, <4>1 DEF y
        <4>3. QED
          BY <4>2 DEF y
      <3>2. c \in y /\ y \ {c} = z /\ row \in Rest(x)
        BY <2>1, <2>2, <2>5
      <3> HIDE DEF c, y, z
      <3>3. Amounts(y) = c.amount + Amounts(z)
        BY <1>3, <3>1, <3>2
      <3>4. Amounts(Rest(x)) = row.amount + Amounts(z)
        BY <1>3, <2>2, <3>2 DEF z
      <3>5. IsFiniteSet(z) /\ \A r \in z : r.amount \in Nat
        BY <1>1, <2>2, FS_Subset DEF z
      <3>6. Amounts(z) \in Nat /\ row.amount \in Nat /\ c.amount \in Nat
        BY <2>1, <2>2, <3>5, AmountsType
      <3>7. Amounts(x) = row.amount + Amounts(y)
        BY <2>3, <3>3, <3>4, <3>6
      <3>8. QED
        BY <3>7 DEF y
    <2>6. QED
      BY <2>4, <2>5
  <1>4. Cardinality(S) \in T
    <2> HIDE DEF T
    <2>1. QED
      BY <1>1, <1>2, <1>3, Induction
  <1>5. QED
    BY <1>4

\* A row that is new adds its amount, and none other changes.
LEMMA AmountsWith ==
  ASSUME NEW S, IsFiniteSet(S), \A r \in S : r.amount \in Nat,
         NEW row, row \notin S, row.amount \in Nat
  PROVE  Amounts(S \cup {row}) = Amounts(S) + row.amount
  <1> DEFINE R == S \cup {row}
             Q == R \ {row}
  <1>1. IsFiniteSet(R)
    BY FS_AddElement
  <1>2. \A r \in R : r.amount \in Nat
    OBVIOUS
  <1>3. Amounts(R) = row.amount + Amounts(Q)
    BY <1>1, <1>2, AmountsWithout
  <1>4. Q = S
    OBVIOUS
  <1>5. Amounts(S) \in Nat
    BY AmountsType
  <1> HIDE DEF R, Q
  <1>6. Amounts(R) = Amounts(S) + row.amount
    BY <1>3, <1>4, <1>5
  <1>7. QED
    BY <1>6 DEF R

-----------------------------------------------------------------------------
(* What is given back, against what the payments and the orders say.  A     *)
(* step either writes one row, or leaves the sums alone.                    *)

Working(st) == st.pc \in {"call", "write"}

\* A request that goes on with the refund it has judged.
GoesOn(st, new) ==
    Working(st) /\ new.payment = st.payment /\ new.amount = st.amount /\ new.seen = st.seen

\* A request whose refund follows from the payment as it is now.
Fresh(st) ==
    /\ st.payment \in Payments
    /\ st.seen.refunded = payments[st.payment].refunded
    /\ st.seen.refunded + st.amount <= Paid[st.payment]

Quiet ==
    /\ refunds' = refunds
    /\ \A p \in Payments : payments'[p].refunded = payments[p].refunded
    /\ \A p \in Payments : orders'[p] = "refunded" <=> orders[p] = "refunded"
    /\ \A s \in Sessions :
          Working(session'[s]) => GoesOn(session[s], session'[s]) \/ Fresh(session'[s])

\* The request s, st before the step, ends with its row.
Wrote(s, st) ==
    LET p == st.payment
        back == st.seen.refunded + st.amount
    IN  /\ st = session[s] /\ st.pc = "write"
        /\ \E row \in Refund : /\ row \notin refunds /\ refunds' = refunds \cup {row}
                               /\ row.payment = p /\ row.amount = st.amount
        /\ payments'[p].refunded = back
        /\ orders'[p] = IF back < Paid[p] THEN orders[p] ELSE "refunded"
        /\ \A q \in Payments : q # p => payments'[q] = payments[q] /\ orders'[q] = orders[q]
        /\ session' = [session EXCEPT ![s] = Idle]

LEMMA IdleWorksNot == ~Working(Idle)
  BY DEF Working, Idle

\* A request that sets itself, and nothing the sums depend on.
LEMMA QuietRequest ==
  ASSUME TypeOK, NEW s \in Sessions, NEW st, Set(s, st),
         Working(st) => GoesOn(session[s], st) \/ Fresh(st),
         UNCHANGED <<payments, orders, refunds>>
  PROVE  Quiet
  <1>1. session \in [Sessions -> SessionState] /\ session' = [session EXCEPT ![s] = st]
    BY DEF TypeOK, Set
  <1>2. ASSUME NEW t \in Sessions, Working(session'[t])
        PROVE  GoesOn(session[t], session'[t]) \/ Fresh(session'[t])
    <2>1. CASE t = s
      BY <1>1, <1>2, <2>1
    <2>2. CASE t # s
      <3>1. session'[t] = session[t]
        BY <1>1, <2>2
      <3>2. QED
        BY <1>2, <3>1 DEF GoesOn
    <2>3. QED
      BY <2>1, <2>2
  <1>3. QED
    BY <1>2 DEF Quiet

LEMMA CaptureIsQuiet ==
  ASSUME TypeOK, NEW p \in Payments, RecordCapture(p)
  PROVE  Quiet
  <1>1. payments \in [Payments -> Payment] /\ orders \in [Payments -> {"awaiting_payment", "paid", "refunded"}]
    BY DEF TypeOK
  <1>2. \A q \in Payments : payments'[q].refunded = payments[q].refunded
    BY <1>1 DEF RecordCapture, Payment
  <1>3. \A q \in Payments : orders'[q] = "refunded" <=> orders[q] = "refunded"
    BY <1>1 DEF RecordCapture
  <1>4. \A s \in Sessions : Working(session'[s]) => GoesOn(session[s], session'[s])
    BY DEF RecordCapture, GoesOn
  <1>5. QED
    BY <1>2, <1>3, <1>4 DEF Quiet, RecordCapture

LEMMA FailureIsQuiet ==
  ASSUME RefundInv, NEW s \in Sessions, RecordFailure(s)
  PROVE  Quiet
  <1>1. payments \in [Payments -> Payment] /\ session \in [Sessions -> SessionState]
        /\ Justified(returned, session[s]) /\ session[s].pc = "fail"
    BY DEF RefundInv, TypeOK, RequestsAreJustified, RecordFailure, At
  <1>2. session[s].payment \in Payments
    BY <1>1 DEF Justified
  <1>3. \A q \in Payments : payments'[q].refunded = payments[q].refunded
    BY <1>1, <1>2 DEF RecordFailure, Payment
  <1>4. session' = [session EXCEPT ![s] = Idle]
    BY DEF RecordFailure, Set
  <1>5. ASSUME NEW t \in Sessions, Working(session'[t])
        PROVE  GoesOn(session[t], session'[t])
    <2>1. t # s
      BY <1>1, <1>4, <1>5, IdleWorksNot
    <2>2. session'[t] = session[t]
      BY <1>1, <1>4, <2>1
    <2>3. QED
      BY <1>5, <2>2 DEF GoesOn
  <1>6. QED
    BY <1>3, <1>5 DEF Quiet, RecordFailure

LEMMA OrderedIsQuiet ==
  ASSUME TypeOK, NEW s \in Sessions, NEW k \in Keys, RefundAnOrder(s, k)
  PROVE  Quiet
  <1> DEFINE p == Asks[k].payment
             amount == IF Asks[k].amount = 0 THEN Paid[p] - payments[p].refunded ELSE Asks[k].amount
             st == [pc |-> IF Asks[k].destination = "source" THEN "call" ELSE "write",
                    key |-> k, payment |-> p, amount |-> amount,
                    destination |-> Asks[k].destination, id |-> 0, seen |-> payments[p]]
  <1>1. /\ Set(s, st) /\ Refundable(p, amount)
        /\ UNCHANGED <<payments, orders, refunds>>
    BY DEF RefundAnOrder, Carry
  <1>2. /\ p \in Payments /\ Paid[p] \in Nat /\ payments[p].refunded \in Nat
        /\ Asks[k].amount \in Nat
    BY AskType, RefundsAssumption DEF TypeOK, Payment
  <1>3. amount \in Int /\ amount <= Paid[p] - payments[p].refunded
    BY <1>1, <1>2 DEF Refundable
  <1>4. st.payment = p /\ st.amount = amount /\ st.seen = payments[p]
    OBVIOUS
  <1> HIDE DEF st, amount, p
  <1>5. Fresh(st)
    BY <1>2, <1>3, <1>4 DEF Fresh
  <1>6. QED
    BY <1>1, <1>5, QuietRequest

LEMMA WebhookIsQuiet ==
  ASSUME TypeOK, NEW s \in Sessions, NEW i \in DOMAIN returned, WebhookRefunded(s, i)
  PROVE  Quiet
  <1> DEFINE p == returned[i].payment
             amount == returned[i].amount
             st == [pc |-> "write", key |-> i, payment |-> p, amount |-> amount,
                    destination |-> "source", id |-> i, seen |-> payments[p]]
  <1>1. /\ Set(s, st) /\ Refundable(p, amount)
        /\ UNCHANGED <<payments, orders, refunds>>
    BY DEF WebhookRefunded, Carry
  <1>2. returned[i] \in Return
    <2>1. returned \in Seq(Return)
      BY DEF TypeOK, Return
    <2>2. QED
      BY <2>1
  <1>3. p \in Payments /\ amount \in Nat /\ Paid[p] \in Nat /\ payments[p].refunded \in Nat
    BY <1>2, RefundsAssumption DEF TypeOK, Return, Payment
  <1>4. amount <= Paid[p] - payments[p].refunded
    BY <1>1 DEF Refundable
  <1>5. st.payment = p /\ st.amount = amount /\ st.seen = payments[p]
    OBVIOUS
  <1> HIDE DEF st, amount, p
  <1>6. Fresh(st)
    BY <1>3, <1>4, <1>5 DEF Fresh
  <1>7. QED
    BY <1>1, <1>6, QuietRequest

LEMMA FailedIsQuiet ==
  ASSUME TypeOK, NEW s \in Sessions, NEW p \in Payments, WebhookFailed(s, p)
  PROVE  Quiet
  <1> DEFINE st == [pc |-> "fail", key |-> None, payment |-> p, amount |-> 0,
                    destination |-> "source", id |-> 0, seen |-> payments[p]]
  <1>1. Set(s, st) /\ UNCHANGED <<payments, orders, refunds>>
    BY DEF WebhookFailed, Carry
  <1>2. ~Working(st)
    BY DEF Working
  <1>3. QED
    BY <1>1, <1>2, QuietRequest

LEMMA CallIsQuiet ==
  ASSUME TypeOK, NEW s \in Sessions, CallRazorpay(s)
  PROVE  Quiet
  <1>1. session[s] \in SessionState /\ Working(session[s])
    BY DEF TypeOK, CallRazorpay, At, Working
  <1>2. PICK i : Set(s, [session[s] EXCEPT !.pc = "write", !.id = i])
    BY DEF CallRazorpay
  <1> DEFINE st == [session[s] EXCEPT !.pc = "write", !.id = i]
  <1>3. st.payment = session[s].payment /\ st.amount = session[s].amount /\ st.seen = session[s].seen
    BY <1>1 DEF SessionState
  <1>4. GoesOn(session[s], st)
    BY <1>1, <1>3 DEF GoesOn
  <1>5. UNCHANGED <<payments, orders, refunds>>
    BY DEF CallRazorpay
  <1>6. QED
    BY <1>2, <1>4, <1>5, QuietRequest

LEMMA RefusalIsQuiet ==
  ASSUME TypeOK, NEW s \in Sessions, Refuse(s)
  PROVE  Quiet
  BY IdleWorksNot, QuietRequest DEF Refuse

LEMMA WriteKind ==
  ASSUME RefundInv, NEW s \in Sessions, WriteRefund(s)
  PROVE  Quiet \/ Wrote(s, session[s])
  <1> DEFINE st == session[s]
             p == st.payment
             row == [key |-> st.key, payment |-> p, amount |-> st.amount,
                     destination |-> st.destination, id |-> st.id]
  <1>1. /\ TypeOK /\ Justified(returned, st) /\ st.pc = "write" /\ st \in SessionState
        /\ payments \in [Payments -> Payment]
        /\ orders \in [Payments -> {"awaiting_payment", "paid", "refunded"}]
    BY DEF RefundInv, TypeOK, RequestsAreJustified, WriteRefund, At
  <1>2. /\ p \in Payments /\ st.key \in Keys \cup Ids /\ st.id \in Nat
        /\ st.amount \in Nat /\ st.destination \in Destination
    BY <1>1 DEF Justified, SessionState
  <1>3. CASE ~Unique(s)
    BY <1>1, <1>3, RefusalIsQuiet DEF WriteRefund
  <1>4. CASE Unique(s)
    <2>1. /\ refunds' = refunds \cup {row}
          /\ payments' = [payments EXCEPT ![p] = AfterRefund(s)]
          /\ orders' = [orders EXCEPT ![p] = ApplyPaymentRefund(s)]
          /\ session' = [session EXCEPT ![s] = Idle]
      BY <1>4 DEF WriteRefund, Set
    <2>2. row \in Refund /\ row.key = st.key /\ row.payment = p /\ row.amount = st.amount
      BY <1>2 DEF Refund
    <2> HIDE DEF row
    <2>3. row \notin refunds
      BY <1>4, <2>2 DEF Unique, RefundForKey
    <2>4. /\ AfterRefund(s).refunded = st.seen.refunded + st.amount
          /\ ApplyPaymentRefund(s) = IF st.seen.refunded + st.amount < Paid[p]
                                     THEN orders[p] ELSE "refunded"
      BY DEF AfterRefund, ApplyPaymentRefund
    <2>5. /\ payments'[p].refunded = st.seen.refunded + st.amount
          /\ orders'[p] = IF st.seen.refunded + st.amount < Paid[p] THEN orders[p] ELSE "refunded"
          /\ \A q \in Payments : q # p => payments'[q] = payments[q] /\ orders'[q] = orders[q]
      BY <1>1, <1>2, <2>1, <2>4
    <2>6. Wrote(s, st)
      BY <1>1, <2>1, <2>2, <2>3, <2>5 DEF Wrote
    <2>7. QED
      BY <2>6
  <1>5. QED
    BY <1>3, <1>4

LEMMA StepKinds ==
  ASSUME RefundInv, [Next]_vars
  PROVE  Quiet \/ \E s \in Sessions : Wrote(s, session[s])
  <1>0. TypeOK
    BY DEF RefundInv
  <1>1. ASSUME NEW p \in Payments, RecordCapture(p)
        PROVE  Quiet
    BY <1>0, <1>1, CaptureIsQuiet
  <1>2. ASSUME UNCHANGED <<payments, orders, refunds, session>>
        PROVE  Quiet
    BY <1>2 DEF Quiet, GoesOn
  <1>3. ASSUME NEW p \in Payments, DashboardRefund(p)
        PROVE  Quiet
    BY <1>2, <1>3 DEF DashboardRefund
  <1>4. ASSUME NEW s \in Sessions,
               \/ \E k \in Keys : RefundAnOrder(s, k)
               \/ \E i \in DOMAIN returned : WebhookRefunded(s, i)
               \/ \E p \in Payments : WebhookFailed(s, p)
        PROVE  Quiet
    BY <1>0, <1>4, OrderedIsQuiet, WebhookIsQuiet, FailedIsQuiet
  <1>5. ASSUME NEW s \in Sessions, CallRazorpay(s) \/ RecordFailure(s) \/ Rollback(s)
        PROVE  Quiet
    BY <1>0, <1>5, CallIsQuiet, FailureIsQuiet, RefusalIsQuiet DEF Rollback
  <1>6. ASSUME NEW s \in Sessions, WriteRefund(s)
        PROVE  Quiet \/ Wrote(s, session[s])
    BY <1>6, WriteKind
  <1>7. CASE UNCHANGED vars
    BY <1>2, <1>7 DEF vars
  <1>8. QED
    BY <1>1, <1>3, <1>4, <1>5, <1>6, <1>7 DEF Next

-----------------------------------------------------------------------------

GivenBackOf(rows, p) == Amounts(RowsOf(rows, p))

LEMMA GivenBackIs == \A p : GivenBack(p) = GivenBackOf(refunds, p)
  BY DEF GivenBack, GivenBackOf, Amounts, RowsOf

LEMMA GivenBackType ==
  ASSUME NEW l, l \subseteq Refund, IsFiniteSet(l), NEW p
  PROVE  GivenBackOf(l, p) \in Nat
  <1>1. RowsOf(l, p) \subseteq l /\ \A row \in RowsOf(l, p) : row.amount \in Nat
    BY DEF RowsOf, Refund
  <1>2. IsFiniteSet(RowsOf(l, p))
    BY <1>1, FS_Subset
  <1>3. QED
    BY <1>1, <1>2, AmountsType DEF GivenBackOf

\* A new row gives its amount back, of its own payment.
LEMMA GivenBackGrows ==
  ASSUME NEW l, l \subseteq Refund, IsFiniteSet(l), NEW row \in Refund, row \notin l, NEW p
  PROVE  GivenBackOf(l \cup {row}, p) =
             IF row.payment = p THEN GivenBackOf(l, p) + row.amount ELSE GivenBackOf(l, p)
  <1> DEFINE S == RowsOf(l, p)
             R == RowsOf(l \cup {row}, p)
             More == S \cup {row}
  <1>1. S \subseteq l /\ \A r \in S : r.amount \in Nat
    BY DEF RowsOf, Refund
  <1>2. IsFiniteSet(S) /\ row \notin S /\ row.amount \in Nat
    BY <1>1, FS_Subset DEF Refund
  <1>3. CASE row.payment = p
    <2>1. R = More
      BY <1>3 DEF RowsOf
    <2>2. Amounts(More) = Amounts(S) + row.amount
      BY <1>1, <1>2, AmountsWith
    <2> HIDE DEF R, S, More
    <2>3. Amounts(R) = Amounts(S) + row.amount
      BY <2>1, <2>2
    <2>4. QED
      BY <1>3, <2>3 DEF GivenBackOf, R, S
  <1>4. CASE row.payment # p
    <2>1. R = S
      BY <1>4 DEF RowsOf
    <2> HIDE DEF R, S
    <2>2. Amounts(R) = Amounts(S)
      BY <2>1
    <2>3. QED
      BY <1>4, <2>2 DEF GivenBackOf, R, S
  <1>5. QED
    BY <1>3, <1>4

\* Nothing says that more has gone back than the rows: not refunded_inr, not what
\* a request has read of it, not a closed order.
Backed(rows) ==
    /\ IsFiniteSet(rows)
    /\ \A p \in Payments :
          /\ payments[p].refunded <= GivenBackOf(rows, p)
          /\ orders[p] = "refunded" => GivenBackOf(rows, p) >= Paid[p]
    /\ \A s \in Sessions :
          Working(session[s]) =>
              session[s].seen.refunded <= GivenBackOf(rows, session[s].payment)

RowsBackTheBooks == Backed(refunds)

\* What the types say of a sum and of a request.
LEMMA BookTypes ==
  ASSUME RefundInv, IsFiniteSet(refunds)
  PROVE  /\ \A p \in Payments : /\ GivenBackOf(refunds, p) \in Nat /\ Paid[p] \in Nat \ {0}
                                /\ payments[p].refunded \in Nat
         /\ \A s \in Sessions : /\ session[s].seen.refunded \in Nat /\ session[s].amount \in Nat
                                /\ session[s].pc # "idle" => session[s].payment \in Payments
         /\ refunds \subseteq Refund /\ session \in [Sessions -> SessionState]
  <1>1. TypeOK
    BY DEF RefundInv
  <1>2. \A p \in Payments : GivenBackOf(refunds, p) \in Nat
    BY <1>1, GivenBackType DEF TypeOK
  <1>3. \A p \in Payments : Paid[p] \in Nat \ {0} /\ payments[p].refunded \in Nat
    BY <1>1, RefundsAssumption DEF TypeOK, Payment
  <1>4. \A s \in Sessions : session[s].seen.refunded \in Nat /\ session[s].amount \in Nat
    BY <1>1 DEF TypeOK, SessionState, Payment
  <1>5. \A s \in Sessions : session[s].pc # "idle" => session[s].payment \in Payments
    BY DEF RefundInv, RequestsAreJustified, Justified
  <1>6. QED
    BY <1>1, <1>2, <1>3, <1>4, <1>5 DEF TypeOK

LEMMA WorkersAct ==
  ASSUME RefundInv, NEW s \in Sessions, Working(session[s])
  PROVE  session[s].payment \in Payments
  BY DEF RefundInv, RequestsAreJustified, Justified, Working

LEMMA QuietBacked ==
  ASSUME RefundInv, RefundInv', RowsBackTheBooks, Quiet
  PROVE  RowsBackTheBooks'
  <1>1. /\ IsFiniteSet(refunds) /\ refunds' = refunds
        /\ \A p \in Payments : /\ payments'[p].refunded <= GivenBackOf(refunds, p)
                               /\ orders'[p] = "refunded" => GivenBackOf(refunds, p) >= Paid[p]
    BY DEF RowsBackTheBooks, Backed, Quiet
  <1>2. ASSUME NEW s \in Sessions, Working(session'[s])
        PROVE  session'[s].seen.refunded <= GivenBackOf(refunds, session'[s].payment)
    <2>1. CASE GoesOn(session[s], session'[s])
      BY <2>1 DEF RowsBackTheBooks, Backed, GoesOn
    <2>2. CASE Fresh(session'[s])
      BY <2>2 DEF RowsBackTheBooks, Backed, Fresh
    <2>3. QED
      BY <1>2, <2>1, <2>2 DEF Quiet
  <1>3. QED
    BY <1>1, <1>2 DEF RowsBackTheBooks, Backed

\* What a written row does to the sums.
LEMMA RowGivesBack ==
  ASSUME RefundInv, IsFiniteSet(refunds), NEW s \in Sessions, NEW st, Wrote(s, st)
  PROVE  /\ IsFiniteSet(refunds')
         /\ st.payment \in Payments
         /\ GivenBackOf(refunds', st.payment) = GivenBackOf(refunds, st.payment) + st.amount
         /\ \A p \in Payments :
               p # st.payment => GivenBackOf(refunds', p) = GivenBackOf(refunds, p)
  <1>1. PICK row \in Refund : /\ row \notin refunds /\ refunds' = refunds \cup {row}
                              /\ row.payment = st.payment /\ row.amount = st.amount
    BY DEF Wrote
  <1>2. IsFiniteSet(refunds')
    BY <1>1, FS_AddElement
  <1>3. refunds \subseteq Refund
    BY DEF RefundInv, TypeOK
  <1>4. \A p : GivenBackOf(refunds \cup {row}, p) =
             IF row.payment = p THEN GivenBackOf(refunds, p) + row.amount
             ELSE GivenBackOf(refunds, p)
    BY <1>1, <1>3, GivenBackGrows
  <1>5. \A p : GivenBackOf(refunds', p) =
             IF row.payment = p THEN GivenBackOf(refunds, p) + row.amount
             ELSE GivenBackOf(refunds, p)
    BY <1>1, <1>4
  <1>6. st.payment \in Payments
    BY BookTypes DEF Wrote
  <1>7. QED
    BY <1>1, <1>2, <1>5, <1>6

LEMMA WroteBacked ==
  ASSUME RefundInv, RowsBackTheBooks, NEW s \in Sessions, NEW st, Wrote(s, st)
  PROVE  RowsBackTheBooks'
  <1> DEFINE p == st.payment
             old(q) == GivenBackOf(refunds, q)
             new(q) == GivenBackOf(refunds', q)
  <1>1. IsFiniteSet(refunds)
    BY DEF RowsBackTheBooks, Backed
  <1>2. /\ IsFiniteSet(refunds') /\ p \in Payments
        /\ new(p) = old(p) + st.amount
        /\ \A q \in Payments : q # p => new(q) = old(q)
    BY <1>1, RowGivesBack
  <1>3. /\ \A q \in Payments : old(q) \in Nat /\ Paid[q] \in Nat /\ payments[q].refunded \in Nat
        /\ st.seen.refunded \in Nat /\ st.amount \in Nat
        /\ session \in [Sessions -> SessionState] /\ st = session[s] /\ Working(session[s])
    BY <1>1, BookTypes DEF Wrote, Working
  <1>4. /\ \A q \in Payments : payments[q].refunded <= old(q)
        /\ \A q \in Payments : orders[q] = "refunded" => old(q) >= Paid[q]
        /\ \A t \in Sessions : Working(session[t]) =>
              session[t].seen.refunded <= old(session[t].payment)
    BY DEF RowsBackTheBooks, Backed
  <1>5. st.seen.refunded <= old(p)
    BY <1>3, <1>4
  <1>6. /\ payments'[p].refunded = st.seen.refunded + st.amount
        /\ orders'[p] = IF st.seen.refunded + st.amount < Paid[p] THEN orders[p] ELSE "refunded"
        /\ \A q \in Payments : q # p => payments'[q] = payments[q] /\ orders'[q] = orders[q]
        /\ session' = [session EXCEPT ![s] = Idle]
    BY DEF Wrote
  <1> HIDE DEF p, old, new
  <1>7. ASSUME NEW q \in Payments
        PROVE  payments'[q].refunded <= new(q) /\ (orders'[q] = "refunded" => new(q) >= Paid[q])
    <2>1. CASE q = p
      BY <1>2, <1>3, <1>4, <1>5, <1>6, <2>1
    <2>2. CASE q # p
      BY <1>2, <1>4, <1>6, <2>2
    <2>3. QED
      BY <2>1, <2>2
  <1>8. \A q \in Payments : old(q) <= new(q)
    BY <1>2, <1>3
  <1>9. ASSUME NEW t \in Sessions, Working(session'[t])
        PROVE  session'[t].seen.refunded <= new(session'[t].payment)
    <2>1. t # s
      BY <1>3, <1>6, <1>9, IdleWorksNot
    <2>2. session'[t] = session[t]
      BY <1>3, <1>6, <2>1
    <2>3. /\ session[t].payment \in Payments
          /\ session[t].seen.refunded <= old(session[t].payment)
          /\ session[t].seen.refunded \in Nat
      BY <1>1, <1>4, <1>9, <2>2, WorkersAct, BookTypes
    <2>4. new(session[t].payment) \in Nat /\ old(session[t].payment) \in Nat
      BY <1>2, <1>3, <2>3
    <2>5. QED
      BY <1>8, <2>2, <2>3, <2>4
  <1>10. QED
    BY <1>2, <1>7, <1>9 DEF RowsBackTheBooks, Backed, new

LEMMA InitBacked == Init => RowsBackTheBooks
  <1> SUFFICES ASSUME Init PROVE RowsBackTheBooks
    OBVIOUS
  <1>1. IsFiniteSet(refunds) /\ refunds \subseteq Refund
    BY FS_EmptySet DEF Init
  <1>2. \A p \in Payments : GivenBackOf(refunds, p) \in Nat
    BY <1>1, GivenBackType
  <1>3. \A p \in Payments : payments[p].refunded = 0 /\ orders[p] # "refunded"
    BY DEF Init
  <1>4. \A s \in Sessions : ~Working(session[s])
    BY IdleWorksNot DEF Init
  <1>5. QED
    BY <1>1, <1>2, <1>3, <1>4 DEF RowsBackTheBooks, Backed

LEMMA BackedHolds == Spec => [](RefundInv /\ RowsBackTheBooks)
  <1>1. Init => RefundInv /\ RowsBackTheBooks
    BY InitInv, InitBacked
  <1>2. RefundInv /\ RowsBackTheBooks /\ [Next]_vars => (RefundInv /\ RowsBackTheBooks)'
    BY NextInv, StepKinds, QuietBacked, WroteBacked
  <1>3. QED
    BY <1>1, <1>2, PTL DEF Spec

\* An order is closed only when everything paid for it has gone back, however many
\* requests refund it at once: what a request read of refunded_inr before it wrote
\* was never more than the rows that were there.
THEOREM RefundsCloseNothingEarly == Spec => []ClosedOrdersWereRefunded
  <1>1. RowsBackTheBooks => ClosedOrdersWereRefunded
    BY GivenBackIs DEF RowsBackTheBooks, Backed, ClosedOrdersWereRefunded
  <1>2. QED
    BY <1>1, BackedHolds, PTL

-----------------------------------------------------------------------------
(* Requests served one at a time: until two are in flight together, what a  *)
(* request has read is what is there.                                      *)

InStep(rows) ==
    /\ ~Together
    /\ \A p \in Payments :
          /\ GivenBackOf(rows, p) = payments[p].refunded
          /\ GivenBackOf(rows, p) <= Paid[p]
          /\ GivenBackOf(rows, p) = Paid[p] <=> orders[p] = "refunded"
    /\ \A s \in Sessions : Working(session[s]) => Fresh(session[s])

OneByOne == ~raced => InStep(refunds)

LEMMA AloneBefore == MCNext /\ ~raced' => ~raced /\ ~Together'
  BY DEF MCNext

LEMMA QuietInStep ==
  ASSUME InStep(refunds), Quiet, ~Together'
  PROVE  InStep(refunds)'
  <1>1. /\ refunds' = refunds
        /\ \A p \in Payments : payments'[p].refunded = payments[p].refunded
        /\ \A p \in Payments : orders'[p] = "refunded" <=> orders[p] = "refunded"
    BY DEF Quiet
  <1>2. \A p \in Payments :
           /\ GivenBackOf(refunds, p) = payments'[p].refunded
           /\ GivenBackOf(refunds, p) <= Paid[p]
           /\ GivenBackOf(refunds, p) = Paid[p] <=> orders'[p] = "refunded"
    BY <1>1 DEF InStep
  <1>3. ASSUME NEW s \in Sessions, Working(session'[s])
        PROVE  /\ session'[s].payment \in Payments
               /\ session'[s].seen.refunded = payments'[session'[s].payment].refunded
               /\ session'[s].seen.refunded + session'[s].amount <= Paid[session'[s].payment]
    <2>1. Fresh(session'[s])
      <3>1. CASE GoesOn(session[s], session'[s])
        BY <3>1 DEF InStep, GoesOn, Fresh
      <3>2. QED
        BY <1>3, <3>1 DEF Quiet
    <2>2. QED
      BY <1>1, <2>1 DEF Fresh
  <1>4. QED
    BY <1>1, <1>2, <1>3 DEF InStep, Fresh

LEMMA WroteInStep ==
  ASSUME RefundInv, RowsBackTheBooks, InStep(refunds), NEW s \in Sessions, NEW st, Wrote(s, st),
         ~Together'
  PROVE  InStep(refunds)'
  <1> DEFINE p == st.payment
             old(q) == GivenBackOf(refunds, q)
             new(q) == GivenBackOf(refunds', q)
  <1>1. IsFiniteSet(refunds)
    BY DEF RowsBackTheBooks, Backed
  <1>2. /\ p \in Payments
        /\ new(p) = old(p) + st.amount
        /\ \A q \in Payments : q # p => new(q) = old(q)
    BY <1>1, RowGivesBack
  <1>3. /\ \A q \in Payments : old(q) \in Nat /\ Paid[q] \in Nat /\ payments[q].refunded \in Nat
        /\ st.seen.refunded \in Nat /\ st.amount \in Nat
        /\ session \in [Sessions -> SessionState] /\ st = session[s] /\ st.pc = "write"
    BY <1>1, BookTypes DEF Wrote
  <1>4. /\ \A q \in Payments : /\ old(q) = payments[q].refunded /\ old(q) <= Paid[q]
                               /\ old(q) = Paid[q] <=> orders[q] = "refunded"
        /\ st.seen.refunded = payments[p].refunded
        /\ st.seen.refunded + st.amount <= Paid[p]
    BY <1>3 DEF InStep, Fresh, Working
  <1>5. /\ payments'[p].refunded = st.seen.refunded + st.amount
        /\ orders'[p] = IF st.seen.refunded + st.amount < Paid[p] THEN orders[p] ELSE "refunded"
        /\ \A q \in Payments : q # p => payments'[q] = payments[q] /\ orders'[q] = orders[q]
        /\ session' = [session EXCEPT ![s] = Idle]
    BY DEF Wrote
  <1> HIDE DEF p, old, new
  <1>6. ASSUME NEW q \in Payments
        PROVE  /\ new(q) = payments'[q].refunded /\ new(q) <= Paid[q]
               /\ new(q) = Paid[q] <=> orders'[q] = "refunded"
    <2>1. CASE q = p
      BY <1>2, <1>3, <1>4, <1>5, <2>1
    <2>2. CASE q # p
      BY <1>2, <1>4, <1>5, <2>2
    <2>3. QED
      BY <2>1, <2>2
  <1>7. \A t \in Sessions : ~Working(session'[t])
    <2>1. TAKE t \in Sessions
    <2>2. CASE t = s
      BY <1>3, <1>5, <2>2, IdleWorksNot
    <2>3. CASE t # s
      <3>1. session'[t] = session[t]
        BY <1>3, <1>5, <2>3
      <3>2. session[t].pc = "idle"
        BY <1>3, <2>3 DEF InStep, Together, At
      <3>3. QED
        BY <3>1, <3>2 DEF Working
    <2>4. QED
      BY <2>2, <2>3
  <1>8. QED
    BY <1>6, <1>7 DEF InStep, new

LEMMA InitInStep == MCInit => OneByOne
  <1> SUFFICES ASSUME MCInit PROVE InStep(refunds)
    BY DEF OneByOne
  <1>1. refunds = {} /\ \A s \in Sessions : session[s] = Idle
    BY DEF MCInit, Init
  <1>2. \A p \in Payments : GivenBackOf(refunds, p) = 0
    <2>1. TAKE p \in Payments
    <2>2. RowsOf(refunds, p) = {}
      BY <1>1 DEF RowsOf
    <2>3. Amounts({}) = 0
      BY AmountsByRow, FS_EmptySet
    <2>4. QED
      BY <2>2, <2>3 DEF GivenBackOf
  <1>3. \A p \in Payments : payments[p].refunded = 0 /\ orders[p] # "refunded" /\ Paid[p] \in Nat \ {0}
    BY RefundsAssumption DEF MCInit, Init
  <1>4. ~Together /\ \A s \in Sessions : ~Working(session[s])
    BY <1>1, IdleWorksNot DEF Together, At, Idle
  <1>5. QED
    BY <1>2, <1>3, <1>4 DEF InStep

\* The refund rows and refunded_inr agree, stay inside the captured amount, and close
\* the order when they reach it, until two requests were in flight together.
THEOREM RefundsStayInside == MCSpec => []RefundsStayInsideUnlessRaced
  <1> DEFINE Inv == RefundInv /\ RowsBackTheBooks /\ OneByOne
  <1>1. MCInit => Inv
    BY InitInv, InitBacked, InitInStep DEF MCInit
  <1>2. Inv /\ [MCNext]_<<vars, raced>> => Inv'
    <2> SUFFICES ASSUME Inv, [MCNext]_<<vars, raced>> PROVE Inv'
      OBVIOUS
    <2>1. [Next]_vars
      BY DEF MCNext
    <2>2. RefundInv' /\ RowsBackTheBooks'
      BY <2>1, NextInv, StepKinds, QuietBacked, WroteBacked
    <2>3. CASE MCNext
      <3>1. ASSUME ~raced' PROVE InStep(refunds)'
        <4>1. InStep(refunds) /\ ~Together'
          BY <2>3, <3>1, AloneBefore DEF OneByOne
        <4>2. QED
          BY <2>1, <4>1, StepKinds, QuietInStep, WroteInStep
      <3>2. QED
        BY <2>2, <3>1 DEF OneByOne
    <2>4. CASE UNCHANGED <<vars, raced>>
      <3>1. OneByOne'
        BY <2>4 DEF vars, OneByOne, InStep, Together, At, Fresh
      <3>2. QED
        BY <2>2, <3>1
    <2>5. QED
      BY <2>3, <2>4
  <1>3. Inv => RefundsStayInsideUnlessRaced
    BY GivenBackIs DEF OneByOne, InStep, RefundsStayInsideUnlessRaced, RefundsNeverExceedCaptured
  <1> HIDE DEF Inv
  <1>4. QED
    BY <1>1, <1>2, <1>3, PTL DEF MCSpec
=============================================================================
