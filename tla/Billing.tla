------------------------------ MODULE Billing ------------------------------
(***************************************************************************)
(* What one owner pays Printvendo for: app/modules/billing with the routes  *)
(* of api/owner/billing.py and api/admin/billing.py.  An owner buys terms   *)
(* at a Razorpay checkout, the browser and the webhook put them in force,   *)
(* and an admin grants trials, ends them and negotiates the price.  Whether *)
(* the owner's shops may collect is read from here.  Plans, discounts and   *)
(* the band they put on a shop's prices are in Pricing; here a quote is any  *)
(* of those they may come to.                                              *)
(*                                                                         *)
(* A request loads its rows and writes by what it loaded when it commits;   *)
(* nothing is locked in between but the payment row a capture has written.  *)
(* Failed payments, which change no subscription, are Settlement's.         *)
(***************************************************************************)
EXTENDS Money, Sequences, FiniteSets

CONSTANTS Durations, \* ALLOWED_DURATIONS
          Prices,    \* what a plan or an owner may pay a month, in paise
          Percents,  \* what a discount may be
          TrialDays, \* for how long a trial may be granted
          Month,     \* DAYS_PER_MONTH
          Grace,     \* GRACE_DAYS
          Sessions,  \* requests that can be in flight together
          None,      \* no value
          Horizon,   \* bound: the last day
          MaxRows,   \* bound: subscription rows; a request for one more is refused
          MaxEdits   \* bound: changes of the negotiated price

ASSUME BillingAssumption ==
    /\ Durations \subseteq Nat \ {0} /\ TrialDays \subseteq Nat \ {0}
    /\ Prices \subseteq Nat /\ Percents \subseteq 0..100
    /\ Month \in Nat \ {0} /\ Grace \in Nat
    /\ Horizon \in Nat \ {0} /\ MaxRows \in Nat /\ MaxEdits \in Nat
    /\ None \notin Nat

VARIABLES now,      \* the day
          rows,     \* the owner's subscriptions, by id
          paid,     \* the purchases Razorpay holds the money for
          captured, \* the purchases whose payment row is CAPTURED
          edits,
          session   \* session[s]: the request s serves, and what it loaded

vars == <<now, rows, paid, captured, edits, session>>

\* A date of 0 is a column left null.  grace_ends_at is expires and Grace days.  A
\* trial is the row that charges nothing; nothing reads when it started.
Status == {"pending", "active", "cancelled"}
Subscription == [status : Status, months : Nat, total : Nat,
                 negotiated : Prices \cup {None}, free : Nat, starts : Nat,
                 expires : Nat, lapsed : BOOLEAN]

PC == {"idle", "buying", "capture", "term", "trial"}
SessionState == [pc : PC, row : Nat, seen : Status \cup {"none"}, from : Nat,
                 new : Seq(Subscription)]

-----------------------------------------------------------------------------

Larger(a, b) == IF a >= b THEN a ELSE b

Bought(i) == rows[i].total > 0

EffectiveEnd(r) ==
    Larger(r.free, IF r.expires = 0 THEN 0 ELSE r.expires + Grace)

IsInForce(r) == r.status = "active" /\ now < EffectiveEnd(r)
IsOnTrial(r) == now < r.free
InForce == {i \in DOMAIN rows : IsInForce(rows[i])}

\* active_subscription: the one that runs longest, either of two that end together,
\* and 0 when there is none.
Current(among) ==
    IF among = {} THEN {0}
    ELSE {i \in among : \A j \in among : EffectiveEnd(rows[j]) <= EffectiveEnd(rows[i])}

Negotiated(i) == IF i = 0 THEN None ELSE rows[i].negotiated

\* quote_subscription, in paise, of some plan's price and some discount: a negotiated
\* price replaces the plan's.
Quotes(months, negotiated) ==
    {HalfUp(monthly * months * (100 - percent), 100) :
        monthly \in IF negotiated = None THEN Prices ELSE {negotiated}, percent \in Percents}

\* What is left to an owner who holds subscription i, grace not counted.
EntitledUntil(i) == IF i = 0 THEN 0 ELSE Larger(rows[i].expires, rows[i].free)

\* Mutant: a term counts from the moment its checkout opens.
PurchaseInForce(months, total, negotiated) ==
    [status |-> "active", months |-> months, total |-> total, negotiated |-> negotiated,
     free |-> 0, starts |-> now, expires |-> now + Month * months, lapsed |-> FALSE]

Purchase(months, total, negotiated) ==
    [status |-> "pending", months |-> months, total |-> total,
     negotiated |-> negotiated, free |-> 0, starts |-> 0, expires |-> 0, lapsed |-> FALSE]

Trial(until) ==
    [status |-> "active", months |-> 1, total |-> 0, negotiated |-> None,
     free |-> until, starts |-> 0, expires |-> 0, lapsed |-> FALSE]

\* row: the row loaded; seen: its status then, "none" when only the payment was
\* loaded; from: the day a term starts, or a trial ends; new: rows to insert.
Request(pc, row, seen, from, new) ==
    [pc |-> pc, row |-> row, seen |-> seen, from |-> from, new |-> new]

Idle == Request("idle", 0, "none", 0, <<>>)

At(s, pc) == session[s].pc = pc
Set(s, request) == session' = [session EXCEPT ![s] = request]

\* A request that has written the payment row of purchase i holds it until it commits.
RowFree(i) == \A t \in Sessions : ~(At(t, "term") /\ session[t].row = i)

Init ==
    /\ now = 1
    /\ rows = <<>>
    /\ paid = {} /\ captured = {}
    /\ edits = 0
    /\ session = [s \in Sessions |-> Idle]

Tick ==
    /\ now < Horizon
    /\ now' = now + 1
    /\ UNCHANGED <<rows, paid, captured, edits, session>>

\* PURCHASE_LIFETIME, minutes long, is over for an open purchase.
Lapse(i) ==
    /\ rows[i].status = "pending" /\ ~rows[i].lapsed
    /\ rows' = [rows EXCEPT ![i].lapsed = TRUE]
    /\ UNCHANGED <<now, paid, captured, edits, session>>

-----------------------------------------------------------------------------
(* Buying a term.                                                          *)

\* Recorded on the subscription in force, or else on the newest.
SetNegotiatedPrice(price) ==
    /\ rows # <<>> /\ edits < MaxEdits
    /\ edits' = edits + 1
    /\ \E i \in Current(InForce) :
          LET target == IF i = 0 THEN Len(rows) ELSE i
          IN  /\ rows[target].negotiated # price
              /\ rows' = [rows EXCEPT ![target].negotiated = price]
    /\ UNCHANGED <<now, paid, captured, session>>

\* The purchases that are not paid for, as start_purchase looks for one.
Pending == {i \in DOMAIN rows : rows[i].status = "pending"}

\* start_purchase and open_checkout: the price is frozen here.  Of two open purchases
\* either is found; a live one refuses, a lapsed one will be cancelled.
StartPurchase(s, months) ==
    /\ At(s, "idle")
    /\ \E open \in IF Pending = {} THEN {0} ELSE Pending, i \in Current(InForce) :
          \E total \in Quotes(months, Negotiated(i)) :
             /\ open # 0 => rows[open].lapsed
             /\ total > 0
             /\ Set(s, Request("buying", open, "none", 0,
                               <<Purchase(months, total, Negotiated(i))>>))
    /\ UNCHANGED <<now, rows, paid, captured, edits>>

\* Razorpay has opened the order: the rows are committed.
CommitPurchase(s) ==
    /\ At(s, "buying") /\ Len(rows) < MaxRows
    /\ LET open == session[s].row
           left == IF open = 0 THEN rows ELSE [rows EXCEPT ![open].status = "cancelled"]
       IN  rows' = left \o session[s].new
    /\ Set(s, Idle)
    /\ UNCHANGED <<now, paid, captured, edits>>

\* The owner pays at the checkout, however old the purchase behind it is.
OwnerPays(i) ==
    /\ Bought(i) /\ i \notin paid
    /\ paid' = paid \cup {i}
    /\ UNCHANGED <<now, rows, captured, edits, session>>

\* The webhook loads the payment; a captured one is acknowledged.
WebhookCaptured(s, i) ==
    /\ At(s, "idle") /\ i \in paid \ captured
    /\ Set(s, Request("capture", i, "none", 0, <<>>))
    /\ UNCHANGED <<now, rows, paid, captured, edits>>

\* The browser's callback loads the subscription too, and goes on by that copy.
VerifySubscription(s, i) ==
    /\ At(s, "idle") /\ i \in paid
    /\ Set(s, Request("capture", i, rows[i].status, 0, <<>>))
    /\ UNCHANGED <<now, rows, paid, captured, edits>>

\* activate_subscription: from the end of the term or trial that runs longest, and
\* from today when that is over or there is none.
StartsAt(c) == Larger(now, EntitledUntil(c))

\* Mutant: a subscription in force is put in force again.
CaptureAgain(s) ==
    LET i == session[s].row
        seen == IF session[s].seen = "none" THEN rows[i].status ELSE session[s].seen
    IN  /\ At(s, "capture") /\ RowFree(i)
        /\ IF seen = "cancelled" THEN Set(s, Idle)
           ELSE \E c \in Current(InForce) : Set(s, Request("term", i, "pending", StartsAt(c), <<>>))
        /\ UNCHANGED <<now, rows, paid, captured, edits>>

\* The payment row is written, then the subscription is judged: in force already, it
\* stays; cancelled, the request and the capture with it are refused.
Capture(s) ==
    LET i == session[s].row
        seen == IF session[s].seen = "none" THEN rows[i].status ELSE session[s].seen
    IN  /\ At(s, "capture") /\ RowFree(i)
        /\ IF seen = "cancelled" THEN Set(s, Idle)
           ELSE IF seen = "active" THEN Set(s, Request("term", i, seen, 0, <<>>))
           ELSE \E c \in Current(InForce \ {i}) :
                   Set(s, Request("term", i, seen, StartsAt(c), <<>>))
        /\ UNCHANGED <<now, rows, paid, captured, edits>>

\* The capture and the term it bought are one commit.
Activate(s) ==
    LET i == session[s].row
        from == session[s].from
    IN  /\ At(s, "term")
        /\ captured' = captured \cup {i}
        /\ rows' = IF session[s].seen = "active" THEN rows
                   ELSE [rows EXCEPT ![i] = [@ EXCEPT !.status = "active", !.starts = from,
                                                      !.expires = from + Month * rows[i].months]]
        /\ Set(s, Idle)
        /\ UNCHANGED <<now, paid, edits>>

-----------------------------------------------------------------------------
(* Trials.                                                                 *)

\* A subscription in force that is, or was, a trial is extended.
GrantTrial(s, days) ==
    /\ At(s, "idle")
    /\ \E i \in Current(InForce) :
          LET until == now + days
              extends == i # 0 /\ rows[i].free # 0
          IN  Set(s, IF extends
                     THEN Request("trial", i, "none", Larger(rows[i].free, until), <<>>)
                     ELSE Request("trial", 0, "none", until, <<Trial(until)>>))
    /\ UNCHANGED <<now, rows, paid, captured, edits>>

WriteTrial(s) ==
    /\ At(s, "trial")
    /\ LET i == session[s].row
       IN  IF i = 0
           THEN Len(rows) < MaxRows /\ rows' = rows \o session[s].new
           ELSE rows' = [rows EXCEPT ![i].free = session[s].from]
    /\ Set(s, Idle)
    /\ UNCHANGED <<now, paid, captured, edits>>

\* Only the subscription that runs longest, and only while it is on trial.
EndTrial ==
    /\ \E i \in Current(InForce) \ {0} :
          /\ IsOnTrial(rows[i])
          /\ rows' = [rows EXCEPT ![i].free = now]
    /\ UNCHANGED <<now, paid, captured, edits, session>>

\* Razorpay did not answer, the handler raised or its worker died.
Rollback(s) ==
    /\ ~At(s, "idle")
    /\ Set(s, Idle)
    /\ UNCHANGED <<now, rows, paid, captured, edits>>

-----------------------------------------------------------------------------

Next ==
    \/ Tick \/ EndTrial
    \/ \E price \in Prices \cup {None} : SetNegotiatedPrice(price)
    \/ \E i \in DOMAIN rows : Lapse(i) \/ OwnerPays(i)
    \/ \E s \in Sessions :
          \/ \E months \in Durations : StartPurchase(s, months)
          \/ \E days \in TrialDays : GrantTrial(s, days)
          \/ \E i \in DOMAIN rows : WebhookCaptured(s, i) \/ VerifySubscription(s, i)
          \/ CommitPurchase(s) \/ Capture(s) \/ Activate(s)
          \/ WriteTrial(s) \/ Rollback(s)

Spec == Init /\ [][Next]_vars

-----------------------------------------------------------------------------
(* Properties                                                              *)

TypeOK ==
    /\ now \in 1..Horizon
    /\ rows \in Seq(Subscription) /\ Len(rows) <= MaxRows
    /\ captured \subseteq paid /\ paid \subseteq {i \in DOMAIN rows : Bought(i)}
    /\ edits \in 0..MaxEdits
    /\ session \in [Sessions -> SessionState]
    /\ \A s \in Sessions : Len(session[s].new) <= 1 /\ session[s].row <= Len(rows)

\* What lets an owner's shop collect was paid for or given: no bought term counts
\* before its capture is on the books (purchase.start_purchase, "a subscription that
\* counted from the moment a checkout opened would let a shop collect real money by
\* abandoning one").
OnlyPaidTermsRun ==
    \A i \in InForce : i \in captured \/ (~Bought(i) /\ IsOnTrial(rows[i]))

\* Two bought terms never share a day (purchase.activate_subscription, "extends
\* whatever is already in force").
TermsApart ==
    \A i, j \in DOMAIN rows :
        i # j /\ Bought(i) /\ Bought(j) /\ rows[i].status = "active" /\ rows[j].status = "active"
        => rows[i].starts >= rows[j].expires \/ rows[j].starts >= rows[i].expires

\* Money on the books has its term (deps.settle_subscription): a purchase that was
\* captured is not cancelled for the next one.
CapturedMoneyHasItsTerm == \A i \in captured : rows[i].status = "active"

\* A term, once begun, is neither moved nor taken back by a later delivery, callback,
\* trial or purchase ("the second must not extend the term again").
TermsMove ==
    \E i \in captured : \/ rows'[i].status # rows[i].status
                        \/ rows'[i].starts # rows[i].starts \/ rows'[i].expires # rows[i].expires

\* Granting a second trial extends the first, as long as no bought term runs.
LiveTrials == {i \in InForce : IsOnTrial(rows[i])}
OneTrialUnlessBought ==
    Cardinality(LiveTrials) > 1 => \E i \in InForce : Bought(i)

\* Money the owner paid is taken for the purchase it was paid for: not held when the
\* purchase had lapsed and another was opened, since every delivery is then refused.
PaidMoneyIsTaken == \A i \in paid : rows[i].status # "cancelled"

\* "Granting a second trial extends the first rather than adding a row" (api/admin/
\* billing.grant_owner_trial): not held when a bought term outlasts the first trial.
OneLiveTrial == Cardinality(LiveTrials) <= 1

\* "Taking the money and starting the clock immediately charges them for days they had
\* already been given" (test_purchase): not held when a term's grace outlasts a trial.
DaysGivenAreKept ==
    [][\A i \in DOMAIN rows : rows[i].status = "pending" /\ rows'[i].status = "active"
           => \A j \in InForce : rows'[i].starts >= EntitledUntil(j)]_vars

\* "A figure quoted here and a figure charged later cannot disagree" (api/admin/
\* billing.owner_quote): not held once nothing is in force, since the quote takes the
\* price negotiated on the newest subscription and a purchase takes none.
QuotedAsCharged ==
    rows # <<>> /\ InForce = {} => Negotiated(Len(rows)) = None
=============================================================================
