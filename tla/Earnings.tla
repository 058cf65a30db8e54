------------------------------ MODULE Earnings ------------------------------
(***************************************************************************)
(* What was taken, and what went back: the payment rows as the reports read *)
(* them (app/modules/payments/earnings.py), and the reports themselves: an  *)
(* owner's total, shops and days and the export of orders                   *)
(* (app/api/owner/earnings.py), and the platform's buckets                  *)
(* (app/api/admin/ops.py).  A row changes after the sale: refunds take from *)
(* it, and Razorpay reports its capture again or, late, that it failed.     *)
(* Reports keep nothing: each is what its query answers of the rows.        *)
(***************************************************************************)
EXTENDS Integers, Sequences, FiniteSets, FiniteSetsExt

CONSTANTS Kiosks,       \* the shops of one owner
          Amounts,      \* what a payment may be of
          DayLength,    \* instants in a day
          ZoneShift,    \* by how much the shop's day begins before that of UTC
          LastInstant,  \* bound: the last instant
          MaxTakings    \* bound: payments captured

ASSUME EarningsAssumption ==
    /\ Amounts \subseteq Nat \ {0} /\ DayLength \in Nat \ {0} /\ ZoneShift \in 0..DayLength
    /\ LastInstant \in Nat /\ MaxTakings \in Nat
    /\ IsFiniteSet(Kiosks) /\ "none" \notin Kiosks

VARIABLES takings, \* the payment rows that were ever captured, in the order of capture
          clock

earningsVars == <<takings, clock>>

Kinds == {"print_order", "wallet_topup", "subscription"}
Sources == {"platform_gateway", "owner_gateway", "wallet"}
SETTLED_PAYMENT_STATES == {"captured", "partially_refunded", "refunded"}

\* paid_at is the order's, of a print.
Taking == [kind : Kinds, kiosk : Kiosks \cup {"none"}, source : Sources, amount : Nat \ {0},
           refunded : Nat, captured_at : Nat, paid_at : Nat,
           status : SETTLED_PAYMENT_STATES \cup {"failed"}]

EarningsInit == takings = <<>> /\ clock = 0

Turn == clock < LastInstant /\ clock' = clock + 1 /\ UNCHANGED takings

Taken(kind, kiosk, source, amount, paid) ==
    /\ Len(takings) < MaxTakings
    /\ takings' = Append(takings, [kind |-> kind, kiosk |-> kiosk, source |-> source, amount |-> amount,
                                   refunded |-> 0, captured_at |-> clock, paid_at |-> paid,
                                   status |-> "captured"])

\* The wallet and the webhook date the payment and the order by one instant.
TakePrint(k, source, amount) ==
    Taken("print_order", k, source, amount, clock) /\ UNCHANGED clock

\* The browser's callback reads the clock for the payment and again for the order.
ConfirmPrint(k, source, amount) ==
    /\ clock < LastInstant /\ source # "wallet" /\ clock' = clock + 1
    /\ Taken("print_order", k, source, amount, clock')

TakeElse(kind, amount) ==
    Taken(kind, "none", "platform_gateway", amount, clock) /\ UNCHANGED clock

Becomes(i, taking) == takings' = [takings EXCEPT ![i] = taking] /\ UNCHANGED clock

\* A refund, ours or reported by Razorpay.
GiveBack(i, n) ==
    LET back == takings[i].refunded + n IN
    /\ takings[i].status \in {"captured", "partially_refunded"} /\ back <= takings[i].amount
    /\ Becomes(i, [takings[i] EXCEPT !.refunded = back,
                     !.status = IF back >= takings[i].amount THEN "refunded" ELSE "partially_refunded"])

\* A failure is refused of a captured payment, and of no other.
FailLate(i) ==
    /\ takings[i].status \in {"partially_refunded", "refunded"} /\ takings[i].source # "wallet"
    /\ Becomes(i, [takings[i] EXCEPT !.status = "failed"])

SettlesAnything(i) == TRUE

\* What the payment was for, settled once more: an order is not payable twice, a
\* top-up's reference is taken; a subscription in force is left as it is.
SettlesAgain(i) == takings[i].kind = "subscription"

\* The capture of a payment that is no longer CAPTURED, delivered again: the row is
\* captured anew, and what cannot be settled again rolls it back.
CaptureLate(i) ==
    /\ takings[i].status # "captured" /\ takings[i].source # "wallet" /\ SettlesAgain(i)
    /\ Becomes(i, [takings[i] EXCEPT !.status = "captured", !.captured_at = clock])

EarningsNext ==
    \/ Turn
    \/ \E amount \in Amounts :
        \/ \E k \in Kiosks, source \in Sources :
            TakePrint(k, source, amount) \/ ConfirmPrint(k, source, amount)
        \/ \E kind \in Kinds \ {"print_order"} : TakeElse(kind, amount)
    \/ \E i \in DOMAIN takings :
        \/ \E n \in 1..takings[i].amount : GiveBack(i, n)
        \/ FailLate(i) \/ CaptureLate(i)

EarningsSpec == EarningsInit /\ [][EarningsNext]_earningsVars

-----------------------------------------------------------------------------
(* The reports, of a window: the instants from since until before until.   *)

Windows == {since..(until - 1) : since, until \in 0..(LastInstant + 1)}

Earned(sales) ==
    LET gross == MapThenSumSet(LAMBDA i : takings[i].amount, sales)
        back == MapThenSumSet(LAMBDA i : takings[i].refunded, sales)
    IN [gross |-> gross, refunded |-> back, net |-> gross - back, count |-> Cardinality(sales)]

Settled(window) ==
    {i \in DOMAIN takings :
        takings[i].status \in SETTLED_PAYMENT_STATES /\ takings[i].captured_at \in window}

Sold(kiosks, window) ==
    {i \in Settled(window) : takings[i].kind = "print_order" /\ takings[i].kiosk \in kiosks}

EarningsForKiosks(kiosks, window) == Earned(Sold(kiosks, window))

\* A shop that took nothing is a zero.
EarningsByKiosk(kiosks, window) == [k \in kiosks |-> Earned(Sold({k}, window))]

\* A day is where the shop is.
DayOf(t) == (t + ZoneShift) \div DayLength

\* From the first day with takings to the last: a quiet day is a zero, not a gap.
EarningsByDay(kiosks, window) ==
    LET sales == Sold(kiosks, window)
        days == {DayOf(takings[i].captured_at) : i \in sales}
        series == IF days = {} THEN {} ELSE Min(days)..Max(days)
    IN [d \in series |-> Earned({i \in sales : DayOf(takings[i].captured_at) = d})]

\* Two of the buckets: collected by an owner or not.
PlatformRevenue(window) ==
    LET bucket(kind, owner) ==
          Earned({i \in Settled(window) :
                    takings[i].kind = kind /\ (takings[i].source = "owner_gateway") = owner})
    IN [print_platform |-> bucket("print_order", FALSE), print_owners |-> bucket("print_order", TRUE),
        subscriptions |-> bucket("subscription", FALSE), wallet_topups |-> bucket("wallet_topup", FALSE)]

\* The orders paid in the window, whatever became of their payments.
PaidOrders(k, window) ==
    {i \in DOMAIN takings : takings[i].kind = "print_order" /\ takings[i].kiosk = k
                            /\ takings[i].paid_at \in window}

-----------------------------------------------------------------------------

EarningsTypeOK == takings \in Seq(Taking) /\ clock \in 0..LastInstant

SumOf(reports) == MapThenSumSet(LAMBDA x : reports[x].net, DOMAIN reports)
TheDay(d) == {t \in 0..LastInstant : DayOf(t) = d}

\* The reports of one window agree: the bars of the chart and the shops of the split
\* add up to the figure above them, a bar is what the day's own window answers, and the
\* platform's two buckets of prints are the shops' (earnings.py, "The days add up to the
\* window").
ReportsAgree ==
    \A window \in Windows :
        LET total == EarningsForKiosks(Kiosks, window)
            days == EarningsByDay(Kiosks, window)
            platform == PlatformRevenue(window)
        IN /\ SumOf(days) = total.net /\ SumOf(EarningsByKiosk(Kiosks, window)) = total.net
           /\ platform.print_platform.net + platform.print_owners.net = total.net
           /\ \A d \in DOMAIN days : TheDay(d) \subseteq window =>
                days[d] = EarningsForKiosks(Kiosks, TheDay(d))

\* The export reconciles with the total of its window (orders/views.py, "it has to
\* reconcile with /v1/owner/earnings"): so far as the window parts no payment from its
\* order, and no payment failed after a refund.
ExportReconciles(k, window) ==
    MapThenSumSet(LAMBDA i : takings[i].amount, PaidOrders(k, window))
        = EarningsForKiosks({k}, window).gross
PartsNothing(window) ==
    \A i \in DOMAIN takings : (takings[i].captured_at \in window) = (takings[i].paid_at \in window)
ExportReconcilesUnlessParted ==
    \A k \in Kiosks, window \in Windows :
        /\ PartsNothing(window)
        /\ \A i \in PaidOrders(k, window) : takings[i].status # "failed"
        => ExportReconciles(k, window)

\* Stated, and not held: of every window.
ExportAlwaysReconciles == \A k \in Kiosks, window \in Windows : ExportReconciles(k, window)

\* What each shop took on the instants that are over.
PastTakings == [k \in Kiosks |-> EarningsForKiosks({k}, 0..(clock - 1)).gross]

\* What a shop took by now stands: no later delivery adds to the days that are over or
\* takes from them, but a failure reported after a refund (charges.record_failure).
TakingsStand ==
    clock' = clock /\ PastTakings' # PastTakings => \E i \in DOMAIN takings : FailLate(i)

\* Stated, and not held: the platform's own takings of the instants that are over, too.
PlatformTakingsStand ==
    [][clock' = clock => PlatformRevenue(0..(clock - 1))'.subscriptions.gross
                           = PlatformRevenue(0..(clock - 1)).subscriptions.gross]_earningsVars
=============================================================================
