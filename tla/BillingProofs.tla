---------------------------- MODULE BillingProofs ----------------------------
(***************************************************************************)
(* Theorems about an owner's subscriptions, the prices of the shops and the  *)
(* books: only what was paid for or given lets a shop collect, prices are    *)
(* fair, an order pays for its paper, the reports agree, and unless two      *)
(* requests cross, terms follow one another, trials do not pile up and a    *)
(* negotiated rate goes on.                                                *)
(*                                                                         *)
(* BillingInv says what requests in flight hold, FairInv where prices and    *)
(* the band can be between the writes of a desk.  Terms says of every pair   *)
(* of subscriptions which of the two ends first, and of every request what   *)
(* of its copies is still so (Fits): that is what lets a term start after    *)
(* all others by what the request loaded.  RatesKept says that whatever      *)
(* runs without the rate is outlasted by something that has it.            *)
(*                                                                         *)
(* Sums are counted: a row of amount a is a units, a sum over rows is the    *)
(* number of their units, and reports that part the rows part the units.     *)
(***************************************************************************)
EXTENDS MCBilling, FiniteSetTheorems, SequenceTheorems, TLAPS

\* A bought term that counts is captured, and a trial counts by its last day alone.
RowsInv == \A i \in DOMAIN rows :
    /\ Bought(i) /\ rows[i].status = "active" => i \in captured
    /\ ~Bought(i) => rows[i].expires = 0

\* Only bought rows are captured, and what is about to be inserted is a trial or has
\* still to be paid.
RequestInv(s) ==
    /\ session[s].pc \in {"capture", "term"} => session[s].row \in paid
    /\ session[s].pc = "buying" =>
          Len(session[s].new) = 1 /\ session[s].new[1].status = "pending" /\ session[s].new[1].total > 0
    /\ session[s].pc = "trial" /\ session[s].row = 0 =>
          Len(session[s].new) = 1 /\ session[s].new[1].total = 0 /\ session[s].new[1].expires = 0

BillingInv == TypeOK /\ RowsInv /\ \A s \in Sessions : RequestInv(s)

-----------------------------------------------------------------------------
(* Operators.                                                              *)

LEMMA RowTypes ==
  ASSUME TypeOK, NEW i \in DOMAIN rows
  PROVE  /\ rows[i] \in Subscription /\ i \in Nat /\ i # 0 /\ i <= Len(rows)
         /\ rows[i].total \in Nat /\ rows[i].free \in Nat /\ rows[i].expires \in Nat
         /\ rows[i].months \in Nat /\ rows[i].starts \in Nat
         /\ rows[i].negotiated \in Prices \cup {None}
<1>1. rows[i] \in Subscription /\ i \in 1..Len(rows) /\ Len(rows) \in Nat
  BY DEF TypeOK
<1> QED  BY <1>1 DEF Subscription

LEMMA RowChanged ==
  ASSUME TypeOK, NEW i \in DOMAIN rows, NEW r \in Subscription
  PROVE  LET new == [rows EXCEPT ![i] = r]
         IN  /\ new \in Seq(Subscription) /\ Len(new) = Len(rows) /\ DOMAIN new = DOMAIN rows
             /\ new[i] = r /\ \A j \in DOMAIN rows : j # i => new[j] = rows[j]
  BY DEF TypeOK

LEMMA CurrentRows ==
  ASSUME TypeOK, NEW S \in SUBSET InForce, NEW c \in Current(S)
  PROVE  c = 0 \/ c \in DOMAIN rows
  BY DEF Current, InForce

LEMMA EntitledNat ==
  ASSUME TypeOK, NEW c, c = 0 \/ c \in DOMAIN rows
  PROVE  EntitledUntil(c) \in Nat /\ StartsAt(c) \in Nat /\ Negotiated(c) \in Prices \cup {None}
  BY RowTypes DEF EntitledUntil, StartsAt, Larger, Negotiated, TypeOK

LEMMA QuotesAreWhole ==
  ASSUME NEW months \in Durations, NEW negotiated \in Prices \cup {None},
         NEW total \in Quotes(months, negotiated)
  PROVE  total \in Int
<1> USE BillingAssumption
<1>1. PICK monthly \in Nat, percent \in 0..100 : total = HalfUp(monthly * months * (100 - percent), 100)
  BY DEF Quotes
<1>2. \A n \in Int : HalfUp(n, 100) \in Int
  BY DEF HalfUp
<1>3. monthly * months \in Int
  OBVIOUS
<1>4. monthly * months * (100 - percent) \in Int
  BY <1>3
<1> QED  BY <1>1, <1>2, <1>4

\* A trial has no other end than its last day.
LEMMA TrialsEnd ==
  ASSUME BillingInv, NEW i \in InForce, ~Bought(i)
  PROVE  IsOnTrial(rows[i])
  BY RowTypes DEF BillingInv, RowsInv, InForce, IsInForce, IsOnTrial, EffectiveEnd, Larger, TypeOK

-----------------------------------------------------------------------------
(* The inductive invariant.                                                *)

LEMMA BillingStart == Init => BillingInv
<1> SUFFICES ASSUME Init PROVE BillingInv
  OBVIOUS
<1>1. <<>> \in Seq(Subscription) /\ Len(<<>>) = 0 /\ DOMAIN <<>> = {}
  BY EmptySeq
<1>2. rows = <<>> /\ now = 1 /\ paid = {} /\ captured = {} /\ edits = 0
      /\ session = [s \in Sessions |-> Idle]
  BY DEF Init
<1>3. Idle \in SessionState /\ Idle.pc = "idle" /\ Idle.row = 0 /\ Idle.new = <<>>
  BY <1>1 DEF Idle, Request, SessionState, PC
<1>4. TypeOK
  BY <1>1, <1>2, <1>3, BillingAssumption DEF TypeOK
<1>5. \A s \in Sessions : RequestInv(s)
  BY <1>2, <1>3 DEF RequestInv
<1> QED  BY <1>1, <1>2, <1>4, <1>5 DEF BillingInv, RowsInv

\* A request loads what it goes by, and no row changes.
LEMMA RequestLoaded ==
  ASSUME BillingInv, NEW s \in Sessions, NEW q \in SessionState, Set(s, q),
         Len(q.new) <= 1, q.row <= Len(rows),
         q.pc \in {"capture", "term"} => q.row \in paid,
         q.pc = "buying" => Len(q.new) = 1 /\ q.new[1].status = "pending" /\ q.new[1].total > 0,
         q.pc = "trial" /\ q.row = 0 => Len(q.new) = 1 /\ q.new[1].total = 0 /\ q.new[1].expires = 0,
         UNCHANGED <<now, rows, paid, captured, edits>>
  PROVE  BillingInv'
<1>1. session' \in [Sessions -> SessionState] /\ session'[s] = q /\ \A r \in Sessions : r # s => session'[r] = session[r]
  BY DEF Set, BillingInv, TypeOK
<1>2. TypeOK'
  BY <1>1 DEF BillingInv, TypeOK, Bought
<1>3. RowsInv'
  BY DEF BillingInv, RowsInv, Bought
<1>4. \A r \in Sessions : RequestInv(r)'
  BY <1>1 DEF BillingInv, RequestInv
<1> QED  BY <1>2, <1>3, <1>4 DEF BillingInv

\* A row of an owner keeps what it charges, and counts no sooner than before.
LEMMA RowWritten ==
  ASSUME BillingInv, NEW i \in DOMAIN rows, NEW r \in Subscription, rows' = [rows EXCEPT ![i] = r],
         r.total = rows[i].total, r.total > 0 /\ r.status = "active" => i \in captured',
         r.total = 0 => r.expires = 0,
         captured \subseteq captured', captured' \subseteq paid, paid' = paid, now' = now,
         edits' \in 0..MaxEdits, session' \in [Sessions -> SessionState],
         \A s \in Sessions : session'[s] = session[s] \/ session'[s] = Idle
  PROVE  BillingInv'
<1>1. /\ rows' \in Seq(Subscription) /\ Len(rows') = Len(rows) /\ DOMAIN rows' = DOMAIN rows
      /\ rows'[i] = r /\ \A j \in DOMAIN rows : j # i => rows'[j] = rows[j]
  BY RowChanged DEF BillingInv
<1>2. Idle.pc = "idle" /\ Idle.row = 0 /\ Len(Idle.new) = 0
  BY EmptySeq DEF Idle, Request
<1>3. \A j \in DOMAIN rows : Bought(j)' <=> Bought(j)
  BY <1>1 DEF Bought
<1>4. TypeOK'
  BY <1>1, <1>2, <1>3 DEF BillingInv, TypeOK
<1>5. RowsInv'
  <2> SUFFICES ASSUME NEW j \in DOMAIN rows
               PROVE  /\ Bought(j)' /\ rows'[j].status = "active" => j \in captured'
                      /\ ~Bought(j)' => rows'[j].expires = 0
    BY <1>1 DEF RowsInv
  <2>1. CASE j = i
    <3>1. r.total \in Nat
      BY DEF Subscription
    <3> QED  BY <2>1, <1>1, <3>1 DEF Bought
  <2>2. CASE j # i
    BY <2>2, <1>1, <1>3 DEF BillingInv, RowsInv
  <2> QED  BY <2>1, <2>2
<1>6. \A s \in Sessions : RequestInv(s)'
  BY <1>2 DEF BillingInv, RequestInv
<1> QED  BY <1>4, <1>5, <1>6 DEF BillingInv

\* A row is added: an open purchase, or a trial.
LEMMA RowInserted ==
  ASSUME BillingInv, NEW old \in Seq(Subscription), NEW s \in Sessions, NEW r \in Subscription,
         Len(old) = Len(rows), Len(rows) < MaxRows, rows' = old \o <<r>>,
         \A j \in DOMAIN rows : old[j].total = rows[j].total /\ old[j].expires = rows[j].expires
                                /\ (old[j].status = "active" => rows[j].status = "active"),
         r.total > 0 => r.status = "pending", r.total = 0 => r.expires = 0,
         Set(s, Idle), UNCHANGED <<now, paid, captured, edits>>
  PROVE  BillingInv'
<1> DEFINE n == Len(rows) + 1
<1>1. /\ rows' \in Seq(Subscription) /\ Len(rows') = n /\ DOMAIN rows' = 1..n /\ DOMAIN rows = 1..(n - 1)
      /\ Len(rows) \in Nat /\ rows'[n] = r /\ \A j \in DOMAIN rows : rows'[j] = old[j]
  <2>1. rows \in Seq(Subscription)
    BY DEF BillingInv, TypeOK
  <2>2. Len(rows) \in Nat /\ DOMAIN rows = 1..Len(rows)
    BY <2>1
  <2>3. <<r>> \in Seq(Subscription) /\ Len(<<r>>) = 1 /\ <<r>>[1] = r
    OBVIOUS
  <2>4. rows' \in Seq(Subscription) /\ Len(rows') = Len(old) + 1 /\ DOMAIN rows' = 1..Len(rows')
        /\ \A j \in 1..Len(rows') : rows'[j] = IF j <= Len(old) THEN old[j] ELSE <<r>>[j - Len(old)]
    BY <2>3, ConcatProperties
  <2> QED  BY <2>2, <2>3, <2>4
<1>2. Idle \in SessionState /\ Idle.pc = "idle" /\ Idle.row = 0 /\ Len(Idle.new) = 0
  BY EmptySeq DEF Idle, Request, SessionState, PC
<1>3. \A j \in DOMAIN rows : Bought(j)' <=> Bought(j)
  BY <1>1 DEF Bought
<1>4. session' \in [Sessions -> SessionState] /\ \A t \in Sessions : session'[t] = session[t] \/ session'[t] = Idle
  BY <1>2 DEF Set, BillingInv, TypeOK
<1>5. \A t \in Sessions : Len(session'[t].new) <= 1 /\ session'[t].row <= n
  <2>1. \A t \in Sessions : session[t].row \in Nat
    BY DEF BillingInv, TypeOK, SessionState
  <2> QED  BY <2>1, <1>1, <1>2, <1>4 DEF BillingInv, TypeOK
<1>6. TypeOK'
  <2>1. paid \subseteq {i \in DOMAIN rows' : Bought(i)'}
    BY <1>1, <1>3 DEF BillingInv, TypeOK
  <2>2. Len(rows') <= MaxRows
    BY <1>1, BillingAssumption
  <2> QED  BY <2>1, <2>2, <1>1, <1>4, <1>5 DEF BillingInv, TypeOK
<1>7. RowsInv'
  <2>1. r.total \in Nat
    BY DEF Subscription
  <2> SUFFICES ASSUME NEW j \in 1..n
               PROVE  /\ Bought(j)' /\ rows'[j].status = "active" => j \in captured
                      /\ ~Bought(j)' => rows'[j].expires = 0
    BY <1>1 DEF RowsInv
  <2>2. CASE j = n
    BY <2>1, <2>2, <1>1 DEF Bought
  <2>3. CASE j \in DOMAIN rows
    BY <2>3, <1>1, <1>3 DEF BillingInv, RowsInv
  <2> QED  BY <2>2, <2>3, <1>1
<1>8. \A t \in Sessions : RequestInv(t)'
  BY <1>2, <1>4 DEF BillingInv, RequestInv
<1> QED  BY <1>6, <1>7, <1>8 DEF BillingInv

-----------------------------------------------------------------------------
(* The steps.                                                              *)

LEMMA RequestSteps ==
  ASSUME BillingInv, NEW s \in Sessions,
         \/ \E months \in Durations : StartPurchase(s, months)
         \/ \E days \in TrialDays : GrantTrial(s, days)
         \/ \E i \in DOMAIN rows : WebhookCaptured(s, i) \/ VerifySubscription(s, i)
         \/ Capture(s) \/ Rollback(s)
  PROVE  BillingInv'
<1>0. Len(rows) \in Nat /\ <<>> \in Seq(Subscription) /\ Len(<<>>) = 0 /\ TypeOK
  BY EmptySeq DEF BillingInv, TypeOK
<1>1. ASSUME NEW months \in Durations, StartPurchase(s, months) PROVE BillingInv'
  <2>1. PICK open \in (IF Pending = {} THEN {0} ELSE Pending), i \in Current(InForce) :
          \E total \in Quotes(months, Negotiated(i)) : total > 0 /\
               Set(s, Request("buying", open, "none", 0, <<Purchase(months, total, Negotiated(i))>>))
    BY <1>1 DEF StartPurchase
  <2>a. PICK total \in Quotes(months, Negotiated(i)) : total > 0 /\ Set(s, Request("buying", open, "none", 0, <<Purchase(months, total, Negotiated(i))>>))
    BY <2>1
  <2> DEFINE r == Purchase(months, total, Negotiated(i))
             q == Request("buying", open, "none", 0, <<r>>)
  <2>2. Negotiated(i) \in Prices \cup {None}
    BY <1>0, CurrentRows, EntitledNat
  <2>3. total \in Nat
    BY <2>a, <2>2, QuotesAreWhole
  <2>4. r \in Subscription /\ r.status = "pending" /\ r.total > 0
    BY <2>a, <2>2, <2>3, BillingAssumption DEF Purchase, Subscription, Status
  <2>5. open \in Nat /\ open <= Len(rows)
    BY <1>0, RowTypes DEF Pending
  <2> HIDE DEF r
  <2>6. <<r>> \in Seq(Subscription) /\ Len(<<r>>) = 1 /\ <<r>>[1] = r
    BY <2>4
  <2>7. q \in SessionState /\ q.pc = "buying" /\ q.row = open /\ q.new = <<r>>
    BY <2>5, <2>6 DEF Request, SessionState, PC, Status
  <2>8. UNCHANGED <<now, rows, paid, captured, edits>> /\ Set(s, q)
    BY <1>1, <2>a DEF StartPurchase, r
  <2> HIDE DEF q
  <2>9. Len(q.new) = 1 /\ q.new[1].status = "pending" /\ q.new[1].total > 0 /\ Len(q.new) <= 1
    BY <2>4, <2>6, <2>7
  <2>10. q.row <= Len(rows) /\ q.pc \notin {"capture", "term", "trial"}
    BY <2>5, <2>7
  <2> QED  BY <2>7, <2>8, <2>9, <2>10, RequestLoaded
<1>2. ASSUME NEW days \in TrialDays, GrantTrial(s, days) PROVE BillingInv'
  <2> DEFINE until == now + days
             r == Trial(until)
  <2>1. PICK i \in Current(InForce) :
          Set(s, IF i # 0 /\ rows[i].free # 0
                 THEN Request("trial", i, "none", Larger(rows[i].free, until), <<>>)
                 ELSE Request("trial", 0, "none", until, <<r>>))
    BY <1>2 DEF GrantTrial
  <2>2. until \in Nat
    BY <1>0, BillingAssumption DEF TypeOK
  <2>3. UNCHANGED <<now, rows, paid, captured, edits>>
    BY <1>2 DEF GrantTrial
  <2> HIDE DEF until
  <2>4. CASE i # 0 /\ rows[i].free # 0
    <3> DEFINE q == Request("trial", i, "none", Larger(rows[i].free, until), <<>>)
    <3>1. i \in DOMAIN rows
      BY <1>0, <2>4, CurrentRows
    <3>2. Larger(rows[i].free, until) \in Nat /\ i \in Nat /\ i <= Len(rows)
      BY <1>0, <2>2, <3>1, RowTypes DEF Larger
    <3>3. q \in SessionState /\ q.pc = "trial" /\ q.row = i /\ q.new = <<>>
      BY <1>0, <3>2 DEF Request, SessionState, PC, Status
    <3>4. Set(s, q)
      BY <2>1, <2>4
    <3> HIDE DEF q
    <3> QED  BY <1>0, <2>3, <2>4, <3>2, <3>3, <3>4, RequestLoaded
  <2>5. CASE ~(i # 0 /\ rows[i].free # 0)
    <3> DEFINE q == Request("trial", 0, "none", until, <<r>>)
    <3>1. r \in Subscription /\ r.total = 0 /\ r.expires = 0
      BY <2>2 DEF Trial, Subscription, Status
    <3>2. Set(s, q)
      BY <2>1, <2>5
    <3> HIDE DEF r
    <3>3. <<r>> \in Seq(Subscription) /\ Len(<<r>>) = 1 /\ <<r>>[1] = r
      BY <3>1
    <3>4. q \in SessionState /\ q.pc = "trial" /\ q.row = 0 /\ q.new = <<r>>
      BY <2>2, <3>3 DEF Request, SessionState, PC, Status
    <3> HIDE DEF q
    <3>5. Len(q.new) = 1 /\ q.new[1].total = 0 /\ q.new[1].expires = 0 /\ Len(q.new) <= 1
      BY <3>1, <3>3, <3>4
    <3>6. q.row <= Len(rows) /\ q.pc \notin {"capture", "term", "buying"}
      BY <1>0, <3>4
    <3> QED  BY <2>3, <3>2, <3>4, <3>5, <3>6, RequestLoaded
  <2> QED  BY <2>4, <2>5
<1>3. ASSUME NEW i \in DOMAIN rows, WebhookCaptured(s, i) \/ VerifySubscription(s, i) PROVE BillingInv'
  <2>1. PICK seen \in Status \cup {"none"} : Set(s, Request("capture", i, seen, 0, <<>>))
    BY <1>0, <1>3, RowTypes DEF WebhookCaptured, VerifySubscription, Subscription
  <2> DEFINE q == Request("capture", i, seen, 0, <<>>)
  <2>2. q \in SessionState /\ q.pc = "capture" /\ q.row = i /\ q.new = <<>> /\ i <= Len(rows)
    BY <1>0, RowTypes DEF Request, SessionState, PC
  <2>3. i \in paid /\ UNCHANGED <<now, rows, paid, captured, edits>> /\ Set(s, q)
    BY <1>3, <2>1 DEF WebhookCaptured, VerifySubscription
  <2> HIDE DEF q
  <2> QED  BY <1>0, <2>2, <2>3, RequestLoaded
<1>4. ASSUME Capture(s) PROVE BillingInv'
  <2> DEFINE i == session[s].row
             seen == IF session[s].seen = "none" THEN rows[i].status ELSE session[s].seen
  <2>1. i \in paid /\ i \in DOMAIN rows /\ UNCHANGED <<now, rows, paid, captured, edits>>
    BY <1>4 DEF Capture, At, BillingInv, RequestInv, TypeOK
  <2>2. seen \in Status
    <3>1. rows[i].status \in Status
      BY <1>0, <2>1, RowTypes DEF Subscription
    <3>2. session[s].seen \in Status \cup {"none"}
      BY <1>0 DEF TypeOK, SessionState
    <3> QED  BY <3>1, <3>2
  <2>3. PICK from \in Nat : Set(s, Idle) \/ Set(s, Request("term", i, seen, from, <<>>))
    <3>1. \A c \in Current(InForce \ {i}) : StartsAt(c) \in Nat
      BY <1>0, CurrentRows, EntitledNat
    <3> QED  BY <1>4, <3>1 DEF Capture
  <2> DEFINE q == Request("term", i, seen, from, <<>>)
  <2> HIDE DEF seen
  <2>4. q \in SessionState /\ q.pc = "term" /\ q.row = i /\ q.new = <<>> /\ i <= Len(rows)
    BY <1>0, <2>1, <2>2, RowTypes DEF Request, SessionState, PC
  <2>5. Idle \in SessionState /\ Idle.pc = "idle" /\ Idle.row = 0 /\ Idle.new = <<>>
    BY <1>0 DEF Idle, Request, SessionState, PC
  <2>6. CASE Set(s, Idle)
    BY <1>0, <2>1, <2>5, <2>6, RequestLoaded
  <2> HIDE DEF q
  <2>7. CASE Set(s, q)
    BY <1>0, <2>1, <2>4, <2>7, RequestLoaded
  <2> QED  BY <2>3, <2>6, <2>7 DEF q
<1>5. ASSUME Rollback(s) PROVE BillingInv'
  <2>1. Idle \in SessionState /\ Idle.pc = "idle" /\ Idle.row = 0 /\ Idle.new = <<>>
    BY <1>0 DEF Idle, Request, SessionState, PC
  <2> QED  BY <1>0, <1>5, <2>1, RequestLoaded DEF Rollback
<1> QED  BY <1>1, <1>2, <1>3, <1>4, <1>5

LEMMA InsertSteps ==
  ASSUME BillingInv, NEW s \in Sessions, CommitPurchase(s) \/ (WriteTrial(s) /\ session[s].row = 0)
  PROVE  BillingInv'
<1> DEFINE r == session[s].new[1]
           open == session[s].row
<1>1. TypeOK /\ rows \in Seq(Subscription) /\ session[s].new \in Seq(Subscription) /\ open \in Nat /\ open <= Len(rows)
  BY DEF BillingInv, TypeOK, SessionState
<1>2. Len(session[s].new) = 1 /\ (r.total > 0 => r.status = "pending") /\ (r.total = 0 => r.expires = 0)
  BY DEF BillingInv, RequestInv, CommitPurchase, WriteTrial, At
<1>3. session[s].new = <<r>> /\ r \in Subscription
  BY <1>1, <1>2
<1>4. Set(s, Idle) /\ Len(rows) < MaxRows /\ UNCHANGED <<now, paid, captured, edits>>
  BY DEF CommitPurchase, WriteTrial
<1>5. CASE rows' = rows \o session[s].new
  <2> HIDE DEF r
  <2> QED  BY <1>1, <1>2, <1>3, <1>4, <1>5, RowInserted
<1>6. CASE open # 0 /\ rows' = [rows EXCEPT ![open].status = "cancelled"] \o session[s].new
  <2> DEFINE c == [rows[open] EXCEPT !.status = "cancelled"]
             old == [rows EXCEPT ![open] = c]
  <2>1. open \in DOMAIN rows
    BY <1>1, <1>6
  <2>2. c \in Subscription /\ c.total = rows[open].total /\ c.expires = rows[open].expires /\ c.status # "active"
    <3>1. rows[open] \in Subscription
      BY <1>1, <2>1, RowTypes
    <3> QED  BY <3>1 DEF Subscription, Status
  <2> HIDE DEF c
  <2>3. old \in Seq(Subscription) /\ Len(old) = Len(rows) /\ old[open] = c
        /\ \A j \in DOMAIN rows : j # open => old[j] = rows[j]
    BY <1>1, <2>1, <2>2, RowChanged
  <2>4. rows' = old \o <<r>>
    BY <1>3, <1>6 DEF c
  <2>5. \A j \in DOMAIN rows : old[j].total = rows[j].total /\ old[j].expires = rows[j].expires
                               /\ (old[j].status = "active" => rows[j].status = "active")
    BY <2>2, <2>3
  <2> HIDE DEF old, r
  <2> QED  BY <1>2, <1>3, <1>4, <2>3, <2>4, <2>5, RowInserted
<1> QED  BY <1>5, <1>6 DEF CommitPurchase, WriteTrial

LEMMA WriteSteps ==
  ASSUME BillingInv, NEW i \in DOMAIN rows,
         \/ Lapse(i)
         \/ EndTrial /\ rows' = [rows EXCEPT ![i].free = now]
         \/ \E price \in Prices \cup {None} :
               edits' \in 0..MaxEdits /\ rows' = [rows EXCEPT ![i].negotiated = price]
               /\ UNCHANGED <<now, paid, captured, session>>
  PROVE  BillingInv'
<1>1. rows[i] \in Subscription /\ now \in Nat /\ captured \subseteq paid /\ edits \in 0..MaxEdits
      /\ session \in [Sessions -> SessionState] /\ TypeOK
  BY RowTypes DEF BillingInv, TypeOK
<1>2. PICK r \in Subscription : /\ rows' = [rows EXCEPT ![i] = r] /\ r.total = rows[i].total
                               /\ r.status = rows[i].status /\ r.expires = rows[i].expires
  <2>1. CASE Lapse(i)
    <3> DEFINE r == [rows[i] EXCEPT !.lapsed = TRUE]
    <3>1. r \in Subscription /\ r.total = rows[i].total /\ r.status = rows[i].status /\ r.expires = rows[i].expires
      BY <1>1 DEF Subscription
    <3> QED  BY <2>1, <3>1 DEF Lapse
  <2>2. CASE rows' = [rows EXCEPT ![i].free = now]
    <3> DEFINE r == [rows[i] EXCEPT !.free = now]
    <3>1. r \in Subscription /\ r.total = rows[i].total /\ r.status = rows[i].status /\ r.expires = rows[i].expires
      BY <1>1 DEF Subscription
    <3> QED  BY <2>2, <3>1
  <2>3. ASSUME NEW price \in Prices \cup {None}, rows' = [rows EXCEPT ![i].negotiated = price]
        PROVE \E r \in Subscription : /\ rows' = [rows EXCEPT ![i] = r] /\ r.total = rows[i].total
                                      /\ r.status = rows[i].status /\ r.expires = rows[i].expires
    <3> DEFINE r == [rows[i] EXCEPT !.negotiated = price]
    <3>1. r \in Subscription /\ r.total = rows[i].total /\ r.status = rows[i].status /\ r.expires = rows[i].expires
      BY <1>1 DEF Subscription
    <3> QED  BY <2>3, <3>1
  <2> QED  BY <2>1, <2>2, <2>3
<1>3. edits' \in 0..MaxEdits /\ UNCHANGED <<now, paid, captured, session>>
  BY <1>1 DEF Lapse, EndTrial
<1>4. (r.total > 0 /\ r.status = "active" => i \in captured) /\ (r.total = 0 => r.expires = 0)
  BY <1>1, <1>2 DEF BillingInv, RowsInv, Bought
<1> QED  BY <1>1, <1>2, <1>3, <1>4, RowWritten

LEMMA ActivateStep ==
  ASSUME BillingInv, NEW s \in Sessions, Activate(s) PROVE BillingInv'
<1> DEFINE i == session[s].row
           from == session[s].from
           new == [rows[i] EXCEPT !.status = "active", !.starts = from,
                                  !.expires = from + Month * rows[i].months]
           r == IF session[s].seen = "active" THEN rows[i] ELSE new
<1>1. i \in paid /\ i \in DOMAIN rows /\ rows[i].total > 0
  BY DEF Activate, At, BillingInv, RequestInv, TypeOK, Bought
<1>2. rows[i] \in Subscription /\ rows[i].months \in Nat /\ from \in Nat /\ TypeOK
  BY <1>1, RowTypes DEF BillingInv, TypeOK, SessionState
<1>3. from + Month * rows[i].months \in Nat
  <2>1. Month * rows[i].months \in Nat
    BY <1>2, BillingAssumption
  <2> QED  BY <1>2, <2>1
<1>4. new \in Subscription /\ new.total = rows[i].total
  <2> DEFINE last == from + Month * rows[i].months
  <2>1. last \in Nat
    BY <1>3
  <2> HIDE DEF last, from
  <2> QED  BY <1>2, <2>1 DEF Subscription, Status, last
<1>5. rows' = [rows EXCEPT ![i] = r] /\ captured' = captured \cup {i} /\ Set(s, Idle) /\ UNCHANGED <<now, paid, edits>>
  <2>1. rows = [rows EXCEPT ![i] = rows[i]]
    BY <1>1, <1>2 DEF TypeOK
  <2> QED  BY <2>1 DEF Activate
<1>6. r \in Subscription /\ r.total = rows[i].total
  BY <1>2, <1>4
<1>7. session' \in [Sessions -> SessionState] /\ (\A t \in Sessions : session'[t] = session[t] \/ session'[t] = Idle)
  <2>1. Idle \in SessionState
    BY EmptySeq DEF Idle, Request, SessionState, PC
  <2> QED  BY <1>2, <1>5, <2>1 DEF Set, TypeOK
<1>8. captured \subseteq paid /\ edits \in 0..MaxEdits
  BY <1>2 DEF TypeOK
<1>9. r.total > 0 /\ captured \subseteq captured' /\ captured' \subseteq paid /\ i \in captured'
  BY <1>1, <1>5, <1>6, <1>8
<1>10. (r.total > 0 /\ r.status = "active" => i \in captured') /\ (r.total = 0 => r.expires = 0)
  BY <1>9
<1>11. rows' = [rows EXCEPT ![i] = r] /\ paid' = paid /\ now' = now /\ edits' \in 0..MaxEdits
  BY <1>5, <1>8
<1> HIDE DEF i, r, new, from
<1> QED  BY <1>1, <1>6, <1>7, <1>9, <1>10, <1>11, RowWritten

LEMMA BillingStep == BillingInv /\ [Next]_vars => BillingInv'
<1> SUFFICES ASSUME BillingInv, [Next]_vars PROVE BillingInv'
  OBVIOUS
<1>0. TypeOK
  BY DEF BillingInv
<1>1. CASE Tick
  BY <1>1, BillingAssumption DEF Tick, BillingInv, TypeOK, RowsInv, RequestInv, Bought
<1>2. CASE EndTrial
  <2>1. PICK i \in Current(InForce) \ {0} : rows' = [rows EXCEPT ![i].free = now]
    BY <1>2 DEF EndTrial
  <2>2. i \in DOMAIN rows
    BY <1>0, CurrentRows
  <2> QED  BY <1>2, <2>1, <2>2, WriteSteps
<1>3. ASSUME NEW price \in Prices \cup {None}, SetNegotiatedPrice(price) PROVE BillingInv'
  <2>1. PICK i \in Current(InForce) : rows' = [rows EXCEPT ![IF i = 0 THEN Len(rows) ELSE i].negotiated = price]
    BY <1>3 DEF SetNegotiatedPrice
  <2>2. (IF i = 0 THEN Len(rows) ELSE i) \in DOMAIN rows
    <3>1. rows # <<>> /\ rows \in Seq(Subscription)
      BY <1>0, <1>3 DEF SetNegotiatedPrice, TypeOK
    <3>2. Len(rows) \in DOMAIN rows
      BY <3>1
    <3> QED  BY <1>0, <3>2, CurrentRows
  <2>3. edits' \in 0..MaxEdits /\ UNCHANGED <<now, paid, captured, session>>
    BY <1>0, <1>3, BillingAssumption DEF SetNegotiatedPrice, TypeOK
  <2> QED  BY <2>1, <2>2, <2>3, WriteSteps
<1>4. ASSUME NEW i \in DOMAIN rows, Lapse(i) PROVE BillingInv'
  BY <1>4, WriteSteps
<1>5. ASSUME NEW i \in DOMAIN rows, OwnerPays(i) PROVE BillingInv'
  BY <1>5 DEF OwnerPays, BillingInv, TypeOK, RowsInv, RequestInv, Bought
<1>6. ASSUME NEW s \in Sessions, WriteTrial(s), session[s].row # 0 PROVE BillingInv'
  <2> DEFINE i == session[s].row
             r == [rows[i] EXCEPT !.free = session[s].from]
  <2>1. i \in DOMAIN rows /\ session[s].from \in Nat
    BY <1>0, <1>6 DEF TypeOK, SessionState
  <2>2. r \in Subscription /\ r.total = rows[i].total /\ r.status = rows[i].status /\ r.expires = rows[i].expires
    BY <1>0, <2>1, RowTypes DEF Subscription
  <2>3. rows' = [rows EXCEPT ![i] = r] /\ Set(s, Idle) /\ UNCHANGED <<now, paid, captured, edits>>
    BY <1>6 DEF WriteTrial
  <2>4. session' \in [Sessions -> SessionState] /\ \A t \in Sessions : session'[t] = session[t] \/ session'[t] = Idle
    <3>1. Idle \in SessionState
      BY EmptySeq DEF Idle, Request, SessionState, PC
    <3> QED  BY <1>0, <2>3, <3>1 DEF Set, TypeOK
  <2>5. (r.total > 0 /\ r.status = "active" => i \in captured) /\ (r.total = 0 => r.expires = 0)
    BY <2>1, <2>2, RowTypes, <1>0 DEF BillingInv, RowsInv, Bought
  <2>6. captured \subseteq paid /\ edits \in 0..MaxEdits
    BY <1>0 DEF TypeOK
  <2> HIDE DEF i, r
  <2> QED  BY <2>1, <2>2, <2>3, <2>4, <2>5, <2>6, RowWritten
<1>7. CASE UNCHANGED vars
  BY <1>7 DEF vars, BillingInv, TypeOK, RowsInv, RequestInv, Bought
<1> QED
  BY <1>1, <1>2, <1>3, <1>4, <1>5, <1>6, <1>7, RequestSteps, InsertSteps, ActivateStep DEF Next

-----------------------------------------------------------------------------
(* Theorems.                                                               *)

\* The owner's subscriptions, what is paid and captured, and the requests in flight keep
\* their types, for any number of requests at once (app/modules/billing).
THEOREM BillingTypeOK == Spec => []TypeOK
<1>1. BillingInv => TypeOK  BY DEF BillingInv
<1> QED  BY <1>1, BillingStart, BillingStep, PTL DEF Spec

\* No bought term ever counts before its capture is on the books, and what counts without
\* one is a trial, however purchases, deliveries and grants overlap (billing/purchase.py).
THEOREM BillingOnlyPaidTermsRun == Spec => []OnlyPaidTermsRun
<1>1. BillingInv => OnlyPaidTermsRun
  <2> SUFFICES ASSUME BillingInv, NEW i \in InForce PROVE i \in captured \/ (~Bought(i) /\ IsOnTrial(rows[i]))
    BY DEF OnlyPaidTermsRun
  <2>1. i \in DOMAIN rows /\ rows[i].status = "active"
    BY DEF InForce, IsInForce
  <2> QED  BY <2>1, TrialsEnd DEF BillingInv, RowsInv
<1> QED  BY <1>1, BillingStart, BillingStep, PTL DEF Spec

LEMMA TimesMonotonic ==
  ASSUME NEW a \in Nat, NEW b \in Nat, a <= b, NEW x \in Nat PROVE a * x <= b * x
<1>1. PICK c \in Nat : b = a + c
  OBVIOUS
<1>2. b * x = a * x + c * x /\ a * x \in Nat /\ c * x \in Nat
  BY <1>1
<1> QED  BY <1>2

\* By a fair pair of prices no job of any length and any number of copies costs more on
\* both sides of its paper than on one (kiosks/pricing.set_pricing).
THEOREM DuplexNeverCostsMore ==
  ASSUME NEW n \in Nat, NEW copies \in Nat, NEW rates \in [single : Nat, double : Nat], DuplexIsFair(rates)
  PROVE  Amount(TRUE, n, copies, rates) <= Amount(FALSE, n, copies, rates)
<1> DEFINE h == n \div 2
           o == n % 2
           x == h * copies
           y == o * copies
<1>1. h \in Nat /\ o \in Nat /\ n = 2 * h + o
  OBVIOUS
<1>2. rates.single \in Nat /\ rates.double \in Nat /\ rates.double <= 2 * rates.single
  BY DEF DuplexIsFair
<1>3. Amount(TRUE, n, copies, rates) = rates.double * x + rates.single * y
  BY DEF Amount, BothSides, OneSide
<1>4. Amount(FALSE, n, copies, rates) = rates.single * (n * copies)
  BY DEF Amount, BothSides, OneSide
<1> HIDE DEF h, o
<1>5. x \in Nat /\ y \in Nat /\ n * copies = 2 * x + y
  BY <1>1
<1> HIDE DEF x, y
<1>6. rates.double * x <= (2 * rates.single) * x
  BY <1>2, <1>5, TimesMonotonic
<1>7. rates.single * (2 * x + y) = (2 * rates.single) * x + rates.single * y
  BY <1>2, <1>5
<1>8. rates.double * x \in Nat /\ (2 * rates.single) * x \in Nat /\ rates.single * y \in Nat
  BY <1>2, <1>5
<1> DEFINE dx == rates.double * x
           sx == (2 * rates.single) * x
           sy == rates.single * y
<1>9. Amount(TRUE, n, copies, rates) = dx + sy /\ Amount(FALSE, n, copies, rates) = sx + sy
  BY <1>3, <1>4, <1>5, <1>7
<1>10. dx <= sx /\ dx \in Nat /\ sx \in Nat /\ sy \in Nat
  BY <1>6, <1>8
<1> HIDE DEF dx, sx, sy
<1>11. dx + sy <= sx + sy
  BY <1>10
<1> QED  BY <1>9, <1>11, Zenon

-----------------------------------------------------------------------------
(* Prices, one change of a row at a time.                                  *)

\* A request in hand was judged by the row as it is, and writes the whole of it.
PlanInHand(d) ==
    /\ desk[d].seen = plan
    /\ desk[d].new = [c \in DOMAIN plan |-> desk[d].new[c]]
    /\ AdmitsAPrice(desk[d].new)

ShopInHand(d) ==
    /\ desk[d].seen = shop
    /\ desk[d].new \in Shop
    /\ DuplexIsFair(Effective(desk[d].new))

PricesInv ==
    /\ desk = [d \in Desks |-> desk[d]]
    /\ AdmitsAPrice(plan)
    /\ shop \in Shop /\ DuplexIsFair(Effective(shop))
    /\ ~PricesCrossed
    /\ \A d \in Desks : /\ Serving(d, "plan") => PlanInHand(d)
                        /\ Serving(d, "shop") => ShopInHand(d)

FairInv == part = "prices" /\ ~crossed => PricesInv

LEMMA ShopFields ==
  ASSUME NEW row \in Shop
  PROVE  /\ DOMAIN row = {"single", "double"}
         /\ row.single \in Nat \cup {Unset} /\ row.double \in Nat \cup {Unset}
         /\ Effective(row) \in [single : Nat, double : Nat]
         /\ Effective(row).single = IF row.single = Unset THEN Defaults.single ELSE row.single
         /\ Effective(row).double = IF row.double = Unset THEN Defaults.double ELSE row.double
<1>1. DOMAIN row = {"single", "double"} /\ row.single \in Nat \cup {Unset} /\ row.double \in Nat \cup {Unset}
  BY DEF Shop, Cost
<1>2. Defaults.single \in Nat /\ Defaults.double \in Nat
  BY PricingAssumption
<1> DEFINE single == IF row.single = Unset THEN Defaults.single ELSE row.single
           double == IF row.double = Unset THEN Defaults.double ELSE row.double
<1>3. single \in Nat /\ double \in Nat
  BY <1>1, <1>2
<1>4. Effective(row) = [c \in {"single", "double"} |-> IF c = "single" THEN single ELSE double]
  BY <1>1 DEF Effective
<1>5. Effective(row) = [single |-> single, double |-> double]
  BY <1>4
<1> HIDE DEF single, double
<1>6. Effective(row) \in [single : Nat, double : Nat] /\ Effective(row).single = single /\ Effective(row).double = double
  BY <1>3, <1>5
<1> QED  BY <1>1, <1>6 DEF single, double

\* Prices asked for, put beside those of the shop.
LEMMA GivenFields ==
  ASSUME NEW row \in Shop, NEW given \in [single : Nat \cup {Unset}, double : Nat \cup {Unset}],
         DuplexIsFair(Given(given, Effective(row)))
  PROVE  Given(given, row) \in Shop /\ DuplexIsFair(Effective(Given(given, row)))
<1> DEFINE new == Given(given, row)
           single == IF given.single # Unset THEN given.single ELSE row.single
           double == IF given.double # Unset THEN given.double ELSE row.double
<1>1. /\ DOMAIN row = {"single", "double"} /\ DOMAIN given = {"single", "double"}
      /\ row.single \in Nat \cup {Unset} /\ row.double \in Nat \cup {Unset}
      /\ given.single \in Nat \cup {Unset} /\ given.double \in Nat \cup {Unset}
  BY ShopFields
<1>2. new = [c \in {"single", "double"} |-> IF c = "single" THEN single ELSE double]
  BY <1>1 DEF Given
<1>3. new = [single |-> single, double |-> double]
  BY <1>2
<1>4. single \in Nat \cup {Unset} /\ double \in Nat \cup {Unset}
  BY <1>1
<1> HIDE DEF single, double, new
<1>5. new \in Shop /\ new.single = single /\ new.double = double
  BY <1>3, <1>4 DEF Shop, Cost
<1>6. /\ Effective(row) \in [single : Nat, double : Nat]
      /\ Effective(row).single = IF row.single = Unset THEN Defaults.single ELSE row.single
      /\ Effective(row).double = IF row.double = Unset THEN Defaults.double ELSE row.double
      /\ Effective(new).single = IF new.single = Unset THEN Defaults.single ELSE new.single
      /\ Effective(new).double = IF new.double = Unset THEN Defaults.double ELSE new.double
  BY <1>5, ShopFields
<1>7. /\ Given(given, Effective(row)).single = IF given.single # Unset THEN given.single ELSE Effective(row).single
      /\ Given(given, Effective(row)).double = IF given.double # Unset THEN given.double ELSE Effective(row).double
  BY <1>1, <1>6 DEF Given
<1>8. /\ Effective(new).single = Given(given, Effective(row)).single
      /\ Effective(new).double = Given(given, Effective(row)).double
  BY <1>5, <1>6, <1>7 DEF single, double
<1>9. DuplexIsFair(Effective(new))
  BY <1>8 DEF DuplexIsFair
<1> QED  BY <1>5, <1>9 DEF new

\* A row written whole, by one that was loaded as it is, becomes what was to be written.
LEMMA WrittenWhole ==
  ASSUME NEW row, NEW new, new = [c \in DOMAIN row |-> new[c]]
  PROVE  Written(row, row, new) = new
<1>1. Written(row, row, new) = [c \in DOMAIN row |-> new[c]]
  BY DEF Written
<1> QED  BY <1>1, Zenon

\* A step that writes no price, and moves one desk at most.
LEMMA DeskMoves ==
  ASSUME PricesInv, UNCHANGED <<plan, shop>>, ~PricesCrossed', NEW d \in Desks, NEW q, SetDesk(d, q),
         q.on = "plan" => /\ q.seen = plan /\ q.new = [c \in DOMAIN plan |-> q.new[c]]
                          /\ AdmitsAPrice(q.new),
         q.on = "shop" => /\ q.seen = shop /\ q.new \in Shop /\ DuplexIsFair(Effective(q.new))
  PROVE  PricesInv'
<1>1. desk' = [e \in Desks |-> IF e = d THEN q ELSE desk[e]]
  <2>1. desk' = [desk EXCEPT ![d] = q]
    BY DEF SetDesk
  <2>2. desk = [e \in Desks |-> desk[e]]
    BY DEF PricesInv
  <2> QED  BY <2>1, <2>2
<1>2. desk' = [e \in Desks |-> desk'[e]]
  BY <1>1
<1>3. \A e \in Desks : desk'[e] = IF e = d THEN q ELSE desk[e]
  BY <1>1
<1>4. ASSUME NEW e \in Desks
      PROVE  (Serving(e, "plan") => PlanInHand(e))' /\ (Serving(e, "shop") => ShopInHand(e))'
  <2>1. CASE e = d
    BY <1>3, <2>1 DEF Serving, PlanInHand, ShopInHand
  <2>2. CASE e # d
    BY <1>3, <2>2 DEF PricesInv, Serving, PlanInHand, ShopInHand
  <2> QED  BY <2>1, <2>2
<1> QED  BY <1>2, <1>4 DEF PricesInv

LEMMA PricesStep ==
  ASSUME PricesInv, PricingNext, ~PricesCrossed'
  PROVE  PricesInv'
<1>1. ASSUME UNCHANGED <<plan, shop, desk>> PROVE PricesInv'
  BY <1>1 DEF PricesInv, Serving, PlanInHand, ShopInHand
<1>2. ASSUME Subscribe PROVE PricesInv'
  BY <1>1, <1>2 DEF Subscribe
<1>3. ASSUME NEW months \in Months, ClearOwnerDiscount(months) PROVE PricesInv'
  BY <1>1, <1>3 DEF ClearOwnerDiscount
<1>4. ASSUME NEW basket \in Baskets, NEW byWallet \in BOOLEAN, PlaceOrder(basket, byWallet) PROVE PricesInv'
  BY <1>1, <1>4 DEF PlaceOrder
<1>5. ASSUME NEW d \in Desks, NEW edit \in PlanEdits, UpdatePlan(d, edit) PROVE PricesInv'
  <2> DEFINE new == Given(edit, plan)
             q == [on |-> "plan", seen |-> plan, new |-> new]
  <2>1. SetDesk(d, q) /\ UNCHANGED <<plan, shop>> /\ AdmitsAPrice(new)
    BY <1>5 DEF UpdatePlan
  <2>2. new = [c \in DOMAIN plan |-> new[c]]
    BY DEF Given
  <2> HIDE DEF new
  <2>3. q.on = "plan" /\ q.seen = plan /\ q.new = new
    OBVIOUS
  <2> HIDE DEF q
  <2> QED  BY <2>1, <2>2, <2>3, DeskMoves
<1>6. ASSUME NEW d \in Desks, NEW given \in [single : Rates \cup {Unset}, double : Rates \cup {Unset}],
             SetPricing(d, given)
      PROVE  PricesInv'
  <2> DEFINE new == Given(given, shop)
             q == [on |-> "shop", seen |-> shop, new |-> new]
  <2>1. SetDesk(d, q) /\ UNCHANGED <<plan, shop>> /\ DuplexIsFair(Given(given, Effective(shop)))
    BY <1>6 DEF SetPricing
  <2>2. given \in [single : Nat \cup {Unset}, double : Nat \cup {Unset}] /\ shop \in Shop
    BY PricingAssumption DEF PricesInv
  <2>3. new \in Shop /\ DuplexIsFair(Effective(new))
    BY <2>1, <2>2, GivenFields
  <2> HIDE DEF new
  <2>4. q.on = "shop" /\ q.seen = shop /\ q.new = new
    OBVIOUS
  <2> HIDE DEF q
  <2> QED  BY <2>1, <2>3, <2>4, DeskMoves
<1>7. ASSUME NEW d \in Desks, NEW owner \in BOOLEAN, NEW months \in Months, NEW percent \in Discounts,
             SetDiscount(d, owner, months, percent)
      PROVE  PricesInv'
  <2>1. PICK q : SetDesk(d, q) /\ q.on = "rate"
    BY <1>7 DEF SetDiscount
  <2> QED  BY <1>7, <2>1, DeskMoves DEF SetDiscount
<1>8. ASSUME NEW d \in Desks, WriteDiscount(d) \/ LeaveDesk(d) PROVE PricesInv'
  <2>1. Free.on = "nothing"
    BY DEF Free
  <2> QED  BY <1>8, <2>1, DeskMoves DEF WriteDiscount, LeaveDesk
<1>9. ASSUME NEW d \in Desks, WritePlan(d) \/ WritePricing(d) PROVE PricesInv'
  <2>1. desk' = [e \in Desks |-> IF e = d THEN Free ELSE desk[e]]
    <3>1. desk' = [desk EXCEPT ![d] = Free]
      BY <1>9 DEF SetDesk, WritePlan, WritePricing
    <3>2. desk = [e \in Desks |-> desk[e]]
      BY DEF PricesInv
    <3> QED  BY <3>1, <3>2
  <2>2. desk' = [e \in Desks |-> desk'[e]] /\ \A e \in Desks : desk'[e] = IF e = d THEN Free ELSE desk[e]
    BY <2>1
  <2>3. Free.on = "nothing"
    BY DEF Free
  <2>4. \A e \in Desks : e # d /\ ~Serving(d, "nothing") => desk[e].on # desk[d].on
    BY DEF PricesInv, PricesCrossed
  <2>5. CASE WritePlan(d)
    <3>1. /\ Serving(d, "plan") /\ PlanInHand(d) /\ UNCHANGED shop
          /\ plan' = Written(plan, desk[d].seen, desk[d].new)
      BY <2>5 DEF WritePlan, PricesInv
    <3>2. plan' = desk[d].new /\ AdmitsAPrice(plan')
      BY <3>1, WrittenWhole DEF PlanInHand
    <3>3. \A e \in Desks : ~Serving(e, "plan")'
      BY <2>2, <2>3, <2>4, <3>1 DEF Serving
    <3>4. \A e \in Desks : Serving(e, "shop")' => Serving(e, "shop") /\ desk'[e] = desk[e]
      BY <2>2, <2>3 DEF Serving
    <3>5. \A e \in Desks : (Serving(e, "shop") => ShopInHand(e))'
      BY <3>1, <3>4 DEF PricesInv, ShopInHand
    <3> QED  BY <2>2, <3>1, <3>2, <3>3, <3>5 DEF PricesInv
  <2>6. CASE WritePricing(d)
    <3>1. /\ Serving(d, "shop") /\ ShopInHand(d) /\ UNCHANGED plan /\ shop \in Shop
          /\ shop' = Written(shop, desk[d].seen, desk[d].new)
      BY <2>6 DEF WritePricing, PricesInv
    <3>2. desk[d].new = [c \in DOMAIN shop |-> desk[d].new[c]]
      <4>1. desk[d].new \in Shop
        BY <3>1 DEF ShopInHand
      <4>2. DOMAIN shop = DOMAIN desk[d].new
        BY <3>1, <4>1, ShopFields
      <4> QED  BY <4>1, <4>2 DEF Shop
    <3>3. shop' = desk[d].new
      BY <3>1, <3>2, WrittenWhole DEF ShopInHand
    <3>4. shop' \in Shop /\ DuplexIsFair(Effective(shop'))
      BY <3>1, <3>3 DEF ShopInHand
    <3>5. \A e \in Desks : ~Serving(e, "shop")'
      BY <2>2, <2>3, <2>4, <3>1 DEF Serving
    <3>6. \A e \in Desks : Serving(e, "plan")' => Serving(e, "plan") /\ desk'[e] = desk[e]
      BY <2>2, <2>3 DEF Serving
    <3>7. \A e \in Desks : (Serving(e, "plan") => PlanInHand(e))'
      BY <3>1, <3>6 DEF PricesInv, PlanInHand
    <3>8. DuplexIsFair(Effective(shop))'
      BY <3>4 DEF Effective
    <3> QED  BY <2>2, <3>1, <3>4, <3>5, <3>7, <3>8 DEF PricesInv
  <2> QED  BY <1>9, <2>5, <2>6
<1> QED
  BY <1>2, <1>3, <1>4, <1>5, <1>6, <1>7, <1>8, <1>9 DEF PricingNext

LEMMA FairStart == MCInit => FairInv
<1> SUFFICES ASSUME MCInit PROVE PricesInv
  BY DEF FairInv
<1>1. /\ plan.floor = Unset /\ plan.ceiling = Unset
      /\ shop = [single |-> Unset, double |-> Unset] /\ desk = [d \in Desks |-> Free]
  BY DEF MCInit, PricingInit
<1>2. Free.on = "nothing"
  BY DEF Free
<1>3. shop \in Shop /\ shop.single = Unset /\ shop.double = Unset
  BY <1>1 DEF Shop, Cost
<1>4. Effective(shop).single = Defaults.single /\ Effective(shop).double = Defaults.double
  BY <1>3, ShopFields
<1>5. DuplexIsFair(Effective(shop))
  BY <1>4, DefaultsAreFair DEF DuplexIsFair
<1>6. \A d \in Desks : Serving(d, "nothing") /\ ~Serving(d, "plan") /\ ~Serving(d, "shop")
  BY <1>1, <1>2 DEF Serving
<1>7. desk = [d \in Desks |-> desk[d]] /\ ~PricesCrossed /\ AdmitsAPrice(plan)
  BY <1>1, <1>6 DEF PricesCrossed, AdmitsAPrice
<1> QED  BY <1>3, <1>5, <1>6, <1>7 DEF PricesInv

LEMMA FairStep == FairInv /\ [MCNext]_<<vars, pricingVars, earningsVars, part, crossed, rate>> => FairInv'
<1> SUFFICES ASSUME FairInv, [MCNext]_<<vars, pricingVars, earningsVars, part, crossed, rate>>,
                    part' = "prices", ~crossed'
             PROVE  PricesInv'
  BY DEF FairInv
<1>1. CASE MCNext
  <2>1. part = "prices" /\ ~crossed /\ PricingNext /\ ~PricesCrossed'
    BY <1>1 DEF MCNext
  <2> QED  BY <2>1, PricesStep DEF FairInv
<1>2. CASE UNCHANGED <<vars, pricingVars, earningsVars, part, crossed, rate>>
  BY <1>2 DEF pricingVars, FairInv, PricesInv, Serving, PlanInHand, ShopInHand, PricesCrossed
<1> QED  BY <1>1, <1>2

\* A page more never makes a job cheaper: on a sheet's other side it costs what double
\* is above single, on a new sheet the price of one.
LEMMA AnotherPage ==
  ASSUME NEW n \in Nat, NEW copies \in Nat, NEW prices \in [single : Nat, double : Nat],
         DuplexIsFair(prices), NEW duplex \in BOOLEAN
  PROVE  Amount(duplex, n, copies, prices) <= Amount(duplex, n + 1, copies, prices)
<1> DEFINE h == n \div 2
           x == h * copies
           a == prices.single * copies
           b == prices.double * copies
           dx == prices.double * x
<1>1. h \in Nat /\ prices.single \in Nat /\ prices.double \in Nat /\ prices.single <= prices.double
  BY DEF DuplexIsFair
<1>2. x \in Nat
  BY <1>1
<1>3. a \in Nat /\ b \in Nat /\ dx \in Nat /\ a <= b
  BY <1>1, <1>2, TimesMonotonic
<1>4. CASE ~duplex
  <2>1. /\ Amount(duplex, n, copies, prices) = prices.single * (n * copies)
        /\ Amount(duplex, n + 1, copies, prices) = prices.single * ((n + 1) * copies)
    BY <1>1, <1>4 DEF Amount, BothSides, OneSide
  <2>2. (n + 1) * copies = n * copies + copies /\ n * copies \in Nat
    OBVIOUS
  <2> DEFINE y == n * copies
  <2> HIDE DEF y
  <2>3. prices.single * (y + copies) = prices.single * y + prices.single * copies /\ y \in Nat
    BY <1>1, <2>2 DEF y
  <2>4. prices.single * y \in Nat
    BY <1>1, <2>3
  <2> QED  BY <1>3, <2>1, <2>2, <2>3, <2>4 DEF y
<1>5. CASE duplex /\ n % 2 = 0
  <2>1. n + 1 = 2 * h + 1 /\ (n + 1) \div 2 = h /\ (n + 1) % 2 = 1
    BY <1>5
  <2>2. /\ Amount(duplex, n, copies, prices) = prices.double * (h * copies) + prices.single * (0 * copies)
        /\ Amount(duplex, n + 1, copies, prices) = prices.double * (h * copies) + prices.single * (1 * copies)
    BY <1>5, <2>1 DEF Amount, BothSides, OneSide
  <2>3. prices.single * (0 * copies) = 0 /\ prices.single * (1 * copies) = a
    BY <1>1
  <2> HIDE DEF a, h, x
  <2> QED  BY <1>3, <2>2, <2>3 DEF x
<1>6. CASE duplex /\ n % 2 = 1
  <2>1. (n + 1) \div 2 = h + 1 /\ (n + 1) % 2 = 0
    BY <1>6
  <2>2. /\ Amount(duplex, n, copies, prices) = prices.double * (h * copies) + prices.single * (1 * copies)
        /\ Amount(duplex, n + 1, copies, prices) = prices.double * ((h + 1) * copies) + prices.single * (0 * copies)
    BY <1>6, <2>1 DEF Amount, BothSides, OneSide
  <2>3. prices.single * (0 * copies) = 0 /\ prices.single * (1 * copies) = a
        /\ (h + 1) * copies = x + copies
    BY <1>1
  <2>4. prices.double * (x + copies) = dx + b
    BY <1>1, <1>2
  <2> HIDE DEF a, b, h
  <2>5. /\ Amount(duplex, n, copies, prices) = dx + a
        /\ Amount(duplex, n + 1, copies, prices) = dx + b + 0
    BY <2>2, <2>3, <2>4
  <2> HIDE DEF dx
  <2> QED  BY <1>3, <2>5
<1>7. n % 2 \in {0, 1}
  OBVIOUS
<1> QED  BY <1>4, <1>5, <1>6, <1>7

\* Until two changes of one row overlap, whatever is asked for in whatever order and
\* wherever the band was: every plan's band admits a price, and duplex pays
\* (billing/plans.py, kiosks/pricing.py).
THEOREM BillingPricesAreFair == MCSpec => []PricesAreFairUnlessCrossed
<1>1. FairInv => PricesAreFairUnlessCrossed
  <2> SUFFICES ASSUME PricesInv PROVE BandsAdmitAPrice /\ DuplexPays
    BY DEF FairInv, PricesAreFairUnlessCrossed
  <2> DEFINE prices == Effective(shop)
  <2>1. prices \in [single : Nat, double : Nat] /\ DuplexIsFair(prices)
    BY ShopFields DEF PricesInv
  <2> HIDE DEF prices
  <2>2. \A n \in 1..4, copies \in 1..2 :
            /\ Amount(TRUE, n, copies, prices) <= Amount(FALSE, n, copies, prices)
            /\ \A duplex \in BOOLEAN :
                  Amount(duplex, n, copies, prices) <= Amount(duplex, n + 1, copies, prices)
    <3> TAKE n \in 1..4, copies \in 1..2
    <3>1. n \in Nat /\ copies \in Nat
      OBVIOUS
    <3>2. Amount(TRUE, n, copies, prices) <= Amount(FALSE, n, copies, prices)
      BY <2>1, <3>1, DuplexNeverCostsMore
    <3>3. \A duplex \in BOOLEAN :
              Amount(duplex, n, copies, prices) <= Amount(duplex, n + 1, copies, prices)
      BY <2>1, <3>1, AnotherPage
    <3> QED  BY <3>2, <3>3
  <2>3. DuplexPays
    BY <2>2 DEF DuplexPays, prices
  <2> QED  BY <2>3 DEF PricesInv, BandsAdmitAPrice
<1> QED  BY <1>1, FairStart, FairStep, PTL DEF MCSpec

-----------------------------------------------------------------------------
(* Terms and trials, as long as no two requests crossed.                   *)

End(i) == EffectiveEnd(rows[i])
Runs(i) == Bought(i) /\ rows[i].status = "active"
Ended(i) == rows[i].free <= now

\* A bought term that was put in force before row j was, and outlasts day t.
CoveredBefore(j, t) == \E c \in DOMAIN rows : c < j /\ Runs(c) /\ t <= End(c)

Shapes == \A i \in DOMAIN rows :
    /\ Bought(i) => rows[i].free = 0 /\ rows[i].months > 0
    /\ ~Bought(i) => rows[i].status = "active"
    /\ Runs(i) => rows[i].starts < rows[i].expires

\* Of two trials that run, the one that ends first does so before a term that was
\* there when the later was granted.
TrialsCovered == \A i, j \in DOMAIN rows :
    i < j /\ ~Bought(i) /\ ~Bought(j) =>
        \/ Ended(i) \/ Ended(j)
        \/ CoveredBefore(j, rows[i].free) \/ CoveredBefore(j, rows[j].free)

\* A term bought during a trial outlasts it.
TermsOutlast == \A i, j \in DOMAIN rows :
    i < j /\ ~Bought(i) /\ Runs(j) => Ended(i) \/ End(j) <= now \/ rows[i].free < End(j)

\* What a request goes by is still so when it writes.
FitsPurchase(q) ==
    /\ q.row # 0 => rows[q.row].status # "active"
    /\ q.new[1].free = 0 /\ q.new[1].months > 0

FitsTerm(q) ==
    /\ \A j \in DOMAIN rows : Runs(j) => rows[j].expires <= q.from
    /\ \A j \in DOMAIN rows : ~Bought(j) =>
          Ended(j) \/ rows[j].free < q.from + Month * rows[q.row].months + Grace

FitsTrial(q) ==
    /\ q.row = 0 => q.new[1].status = "active"
    /\ q.row # 0 =>
          /\ ~Bought(q.row) /\ rows[q.row].free <= q.from
          /\ \A j \in DOMAIN rows : q.row < j /\ Runs(j) => End(j) <= now
    /\ \A i \in DOMAIN rows : i # q.row /\ ~Bought(i) =>
          \/ Ended(i)
          \/ CoveredBefore(IF q.row = 0 THEN Len(rows) + 1 ELSE Larger(i, q.row), rows[i].free)

Fits(q) ==
    /\ q.pc = "buying" => FitsPurchase(q)
    /\ q.pc = "capture" /\ q.seen # "none" => rows[q.row].status = q.seen
    /\ q.pc = "term" => /\ q.seen \in {"pending", "active"} /\ rows[q.row].status = q.seen
                        /\ q.seen = "pending" => FitsTerm(q)
    /\ q.pc = "trial" => FitsTrial(q)

Terms ==
    /\ Shapes /\ CapturedMoneyHasItsTerm /\ TermsApart /\ TrialsCovered /\ TermsOutlast
    /\ \A s \in Sessions : Fits(session[s])
    /\ ~Crossed

TermsInv == ~crossed => Terms

\* The rate, while it is clear.
Mixed == \E i, j \in InForce : i < j /\ Bought(i) /\ ~Bought(j)

RatesKept(among) ==
    /\ InForce # {} /\ ~Mixed
    /\ \A j \in InForce : rows[j].negotiated \notin among =>
          \E g \in InForce : rows[g].negotiated \in among /\ End(j) < End(g)
    /\ \A i \in Pending : rows[i].negotiated \in among
    /\ \A s \in Sessions : session[s].pc = "buying" => session[s].new[1].negotiated \in among

RateInv == ~crossed /\ rate # {} => part = "terms" /\ RatesKept(rate)

LEMMA TermTypes ==
  ASSUME TypeOK
  PROVE  /\ now \in Nat /\ Len(rows) \in Nat /\ DOMAIN rows = 1..Len(rows) /\ rows \in Seq(Subscription)
         /\ \A i \in DOMAIN rows :
               /\ i \in Nat /\ i # 0 /\ i <= Len(rows)
               /\ rows[i].total \in Nat /\ rows[i].free \in Nat /\ rows[i].expires \in Nat
               /\ rows[i].months \in Nat /\ rows[i].starts \in Nat
               /\ EffectiveEnd(rows[i]) \in Nat
               /\ Bought(i) <=> rows[i].total # 0
         /\ \A s \in Sessions : session[s].row \in Nat /\ session[s].from \in Nat /\ session[s] \in SessionState
         /\ Month \in Nat \ {0} /\ Grace \in Nat
<1>1. \A i \in DOMAIN rows : /\ i \in Nat /\ i # 0 /\ i <= Len(rows)
                             /\ rows[i].total \in Nat /\ rows[i].free \in Nat /\ rows[i].expires \in Nat
                             /\ rows[i].months \in Nat /\ rows[i].starts \in Nat
  BY RowTypes
<1>2. Month \in Nat \ {0} /\ Grace \in Nat
  BY BillingAssumption
<1>3. \A i \in DOMAIN rows : EffectiveEnd(rows[i]) \in Nat
  BY <1>1, <1>2 DEF EffectiveEnd, Larger
<1>4. now \in Nat /\ Len(rows) \in Nat /\ DOMAIN rows = 1..Len(rows) /\ rows \in Seq(Subscription)
  BY DEF TypeOK
<1>5. \A s \in Sessions : session[s].row \in Nat /\ session[s].from \in Nat /\ session[s] \in SessionState
  BY DEF TypeOK, SessionState
<1> QED  BY <1>1, <1>2, <1>3, <1>4, <1>5 DEF Bought

\* Where a term ends: a bought one with its grace, a trial on its last day.
LEMMA Ends ==
  ASSUME BillingInv, Shapes, NEW i \in DOMAIN rows
  PROVE  /\ End(i) \in Nat
         /\ ~Bought(i) => End(i) = rows[i].free /\ rows[i].status = "active"
         /\ Bought(i) /\ rows[i].expires # 0 => End(i) = rows[i].expires + Grace
         /\ Bought(i) /\ rows[i].expires = 0 => End(i) = 0
         /\ rows[i].expires <= End(i)
         /\ i \in InForce <=> rows[i].status = "active" /\ now < End(i)
         /\ i \in InForce <=> (Bought(i) => Runs(i)) /\ now < End(i)
         /\ ~Bought(i) => (i \in InForce <=> ~Ended(i))
         /\ Runs(i) => End(i) = rows[i].expires + Grace
<1>1. /\ rows[i].free \in Nat /\ rows[i].expires \in Nat /\ Grace \in Nat /\ now \in Nat
      /\ rows[i].starts \in Nat
  BY TermTypes DEF BillingInv
<1>2. /\ Bought(i) => rows[i].free = 0
      /\ ~Bought(i) => rows[i].status = "active" /\ rows[i].expires = 0
      /\ Runs(i) => rows[i].starts < rows[i].expires
  BY DEF Shapes, BillingInv, RowsInv
<1>3. i \in InForce <=> rows[i].status = "active" /\ now < End(i)
  BY DEF InForce, IsInForce, End
<1> QED  BY <1>1, <1>2, <1>3 DEF End, EffectiveEnd, Larger, Runs, Ended

\* The one that runs longest, among those in force.
LEMMA CurrentOutlasts ==
  ASSUME BillingInv, NEW S \in SUBSET InForce, NEW c \in Current(S)
  PROVE  \/ c = 0 /\ S = {}
         \/ c # 0 /\ c \in S /\ c \in DOMAIN rows /\ \A j \in S : End(j) <= End(c)
<1>1. \A i \in InForce : i \in DOMAIN rows /\ i # 0
  BY TermTypes DEF BillingInv, InForce
<1> QED  BY <1>1 DEF Current, End

-----------------------------------------------------------------------------
(* What the requests load.                                                 *)

LEMMA IdleFits ==
  Idle.pc = "idle" /\ Idle.row = 0 /\ Fits(Idle)
  BY DEF Idle, Request, Fits

LEMMA PurchaseFits ==
  ASSUME BillingInv, Terms, NEW s \in Sessions, NEW months \in Durations, StartPurchase(s, months)
  PROVE  \E q : Set(s, q) /\ Fits(q)
<1>1. PICK open \in (IF Pending = {} THEN {0} ELSE Pending), i \in Current(InForce) :
        \E total \in Quotes(months, Negotiated(i)) :
             Set(s, Request("buying", open, "none", 0, <<Purchase(months, total, Negotiated(i))>>))
  BY DEF StartPurchase
<1>2. PICK total : Set(s, Request("buying", open, "none", 0, <<Purchase(months, total, Negotiated(i))>>))
  BY <1>1
<1> DEFINE r == Purchase(months, total, Negotiated(i))
           q == Request("buying", open, "none", 0, <<r>>)
<1>3. r.free = 0 /\ r.months = months /\ months > 0
  BY BillingAssumption DEF Purchase
<1> HIDE DEF r
<1>4. q.pc = "buying" /\ q.row = open /\ q.new[1] = r
  BY DEF Request
<1>5. open # 0 => rows[open].status # "active"
  BY DEF Pending
<1> HIDE DEF q
<1>6. Fits(q)
  BY <1>3, <1>4, <1>5 DEF Fits, FitsPurchase
<1> QED  BY <1>2, <1>6 DEF q, r

LEMMA DeliveryFits ==
  ASSUME BillingInv, Terms, NEW s \in Sessions, NEW i \in DOMAIN rows,
         WebhookCaptured(s, i) \/ VerifySubscription(s, i)
  PROVE  \E q : Set(s, q) /\ Fits(q)
<1>1. PICK seen : Set(s, Request("capture", i, seen, 0, <<>>)) /\ seen \in {"none", rows[i].status}
  BY DEF WebhookCaptured, VerifySubscription
<1> DEFINE q == Request("capture", i, seen, 0, <<>>)
<1>2. q.pc = "capture" /\ q.row = i /\ q.seen = seen
  BY DEF Request
<1> HIDE DEF q
<1>3. Fits(q)
  BY <1>1, <1>2 DEF Fits
<1> QED  BY <1>1, <1>3 DEF q

\* A term placed after what runs longest comes after every term, and outlasts every trial.
LEMMA TermFits ==
  ASSUME BillingInv, Shapes, NEW i \in DOMAIN rows, Bought(i), rows[i].status = "pending",
         NEW c \in Current(InForce \ {i}), NEW q, q.from = StartsAt(c), q.row = i
  PROVE  FitsTerm(q)
<1> DEFINE from == StartsAt(c)
<1>1. /\ now \in Nat /\ Month \in Nat \ {0} /\ Grace \in Nat /\ rows[i].months \in Nat
      /\ rows[i].months > 0
  BY TermTypes DEF BillingInv, Shapes
<1>2. Month * rows[i].months > 0 /\ Month * rows[i].months \in Nat
  BY <1>1
<1>3. /\ \/ c = 0 /\ InForce \ {i} = {}
         \/ c # 0 /\ c \in InForce /\ c \in DOMAIN rows /\ \A j \in InForce \ {i} : End(j) <= End(c)
  BY CurrentOutlasts
<1>4. from \in Nat /\ now <= from
  <2>1. EntitledUntil(c) \in Nat
    BY <1>3, EntitledNat DEF BillingInv
  <2> QED  BY <1>1, <2>1 DEF StartsAt, Larger
<1>5. c # 0 => rows[c].expires <= from /\ rows[c].free <= from
  <2>1. CASE c # 0
    <3>1. rows[c].expires \in Nat /\ rows[c].free \in Nat
      BY <1>3, <2>1, TermTypes DEF BillingInv
    <3> QED  BY <1>1, <2>1, <3>1 DEF StartsAt, EntitledUntil, Larger
  <2> QED  BY <2>1
<1>6. c # 0 => End(c) \in Nat /\ End(c) <= from + Grace /\ (~Bought(c) => End(c) <= from)
  <2>1. CASE c # 0
    <3>1. c \in DOMAIN rows
      BY <1>3, <2>1
    <3>2. (~Bought(c) => End(c) = rows[c].free) /\ (Bought(c) /\ rows[c].expires # 0 => End(c) = rows[c].expires + Grace)
          /\ (Bought(c) /\ rows[c].expires = 0 => End(c) = 0) /\ End(c) \in Nat /\ rows[c].expires \in Nat
      BY <3>1, Ends, TermTypes DEF BillingInv
    <3> QED  BY <1>1, <1>4, <1>5, <2>1, <3>2
  <2> QED  BY <2>1
<1>7. ASSUME NEW j \in DOMAIN rows, Runs(j) PROVE rows[j].expires <= from
  <2>1. j # i /\ End(j) = rows[j].expires + Grace /\ rows[j].expires \in Nat
        /\ (j \in InForce <=> now < End(j)) /\ rows[j].expires <= End(j)
    BY <1>7, Ends, TermTypes DEF Runs, BillingInv
  <2>2. CASE j \in InForce
    <3>1. c # 0 /\ End(j) <= End(c)
      BY <1>3, <2>1, <2>2
    <3> QED  BY <1>1, <1>4, <1>6, <2>1, <3>1
  <2>3. CASE j \notin InForce
    BY <1>1, <1>4, <2>1, <2>3
  <2> QED  BY <2>2, <2>3
<1>8. ASSUME NEW j \in DOMAIN rows, ~Bought(j), ~Ended(j)
      PROVE  rows[j].free < from + Month * rows[i].months + Grace
  <2>1. j \in InForce \ {i} /\ End(j) = rows[j].free /\ rows[j].free \in Nat
    BY <1>8, Ends, TermTypes DEF BillingInv
  <2>2. c # 0 /\ End(j) <= End(c)
    BY <1>3, <2>1
  <2> QED  BY <1>1, <1>2, <1>4, <1>6, <2>1, <2>2
<1> QED  BY <1>7, <1>8 DEF FitsTerm

LEMMA CaptureFits ==
  ASSUME BillingInv, Terms, NEW s \in Sessions, Capture(s)
  PROVE  \E q : Set(s, q) /\ Fits(q)
<1> DEFINE i == session[s].row
           seen == IF session[s].seen = "none" THEN rows[i].status ELSE session[s].seen
<1>1. i \in DOMAIN rows /\ Bought(i) /\ session[s].pc = "capture"
  BY DEF Capture, At, BillingInv, RequestInv, TypeOK
<1>2. seen = rows[i].status /\ seen \in Status
  <2>1. rows[i].status \in Status
    BY <1>1, RowTypes DEF BillingInv, Subscription
  <2> QED  BY <1>1, <2>1 DEF Terms, Fits
<1>3. CASE seen = "cancelled"
  BY <1>3, IdleFits DEF Capture
<1>4. CASE seen = "active"
  <2> DEFINE q == Request("term", i, seen, 0, <<>>)
  <2>1. Set(s, q)
    BY <1>4 DEF Capture
  <2>2. q.pc = "term" /\ q.row = i /\ q.seen = seen
    BY DEF Request
  <2> HIDE DEF q
  <2>3. Fits(q)
    BY <1>2, <1>4, <2>2 DEF Fits
  <2> QED  BY <2>1, <2>3
<1>5. CASE seen = "pending"
  <2>1. PICK c \in Current(InForce \ {i}) : Set(s, Request("term", i, seen, StartsAt(c), <<>>))
    BY <1>5 DEF Capture
  <2> DEFINE q == Request("term", i, seen, StartsAt(c), <<>>)
  <2>2. q.pc = "term" /\ q.row = i /\ q.seen = seen /\ q.from = StartsAt(c)
    BY DEF Request
  <2> HIDE DEF q
  <2>3. FitsTerm(q)
    BY <1>1, <1>2, <1>5, <2>2, TermFits DEF Terms
  <2>4. Fits(q)
    BY <1>2, <1>5, <2>2, <2>3 DEF Fits
  <2> QED  BY <2>1, <2>4 DEF q
<1> QED  BY <1>2, <1>3, <1>4, <1>5 DEF Status

LEMMA TrialFits ==
  ASSUME BillingInv, Terms, NEW s \in Sessions, NEW days \in TrialDays, GrantTrial(s, days)
  PROVE  \E q : Set(s, q) /\ Fits(q)
<1> DEFINE until == now + days
           r == Trial(until)
<1>1. PICK i \in Current(InForce) :
        Set(s, IF i # 0 /\ rows[i].free # 0
               THEN Request("trial", i, "none", Larger(rows[i].free, until), <<>>)
               ELSE Request("trial", 0, "none", until, <<r>>))
  BY DEF GrantTrial
<1>2. until \in Nat /\ now \in Nat /\ Len(rows) \in Nat /\ DOMAIN rows = 1..Len(rows) /\ Shapes
  BY BillingAssumption, TermTypes DEF BillingInv, Terms
<1> HIDE DEF until
<1>3. \/ i = 0 /\ InForce = {}
      \/ i # 0 /\ i \in InForce /\ i \in DOMAIN rows /\ \A j \in InForce : End(j) <= End(i)
  BY CurrentOutlasts
<1>4. \A x \in DOMAIN rows : ~Bought(x) =>
          (Ended(x) \/ x \in InForce) /\ End(x) = rows[x].free /\ rows[x].free \in Nat
  BY <1>2, Ends, TermTypes DEF BillingInv
<1>5. CASE i # 0 /\ rows[i].free # 0
  <2> DEFINE q == Request("trial", i, "none", Larger(rows[i].free, until), <<>>)
  <2>1. Set(s, q)
    BY <1>1, <1>5
  <2>2. q.pc = "trial" /\ q.row = i /\ q.from = Larger(rows[i].free, until)
    BY DEF Request
  <2> HIDE DEF q
  <2>3. i \in DOMAIN rows /\ i \in InForce /\ ~Bought(i) /\ i \in Nat
    BY <1>2, <1>3, <1>5 DEF Shapes
  <2>4. rows[i].free <= q.from
    BY <1>2, <1>4, <2>2, <2>3 DEF Larger
  <2>5. ASSUME NEW j \in DOMAIN rows, i < j, Runs(j) PROVE End(j) <= now
    <3>1. Ended(i) \/ End(j) <= now \/ rows[i].free < End(j)
      BY <2>3, <2>5 DEF Terms, TermsOutlast
    <3>2. ~Ended(i)
      BY <1>2, <2>3, Ends
    <3>3. End(j) \in Nat /\ (j \in InForce <=> now < End(j))
      BY <1>2, <2>5, Ends DEF Runs
    <3>4. j \in InForce => End(j) <= rows[i].free
      BY <1>3, <1>4, <2>3
    <3> QED  BY <1>2, <1>4, <2>3, <3>1, <3>2, <3>3, <3>4
  <2>6. ASSUME NEW x \in DOMAIN rows, x # i, ~Bought(x), ~Ended(x)
        PROVE  CoveredBefore(Larger(x, i), rows[x].free)
    <3>1. rows[x].free <= rows[i].free /\ ~Ended(i)
      BY <1>2, <1>3, <1>4, <2>3, <2>6, Ends
    <3>2. CoveredBefore(Larger(x, i), rows[x].free) \/ CoveredBefore(Larger(x, i), rows[i].free)
      BY <1>2, <2>3, <2>6, <3>1 DEF Terms, TrialsCovered, Larger
    <3>3. ASSUME CoveredBefore(Larger(x, i), rows[i].free) PROVE CoveredBefore(Larger(x, i), rows[x].free)
      <4>1. PICK c \in DOMAIN rows : c < Larger(x, i) /\ Runs(c) /\ rows[i].free <= End(c)
        BY <3>3 DEF CoveredBefore
      <4>2. rows[x].free <= End(c)
        BY <1>2, <1>4, <2>3, <2>6, <3>1, <4>1, Ends
      <4> QED  BY <4>1, <4>2 DEF CoveredBefore
    <3> QED  BY <3>2, <3>3
  <2>7. FitsTrial(q)
    BY <1>5, <2>2, <2>3, <2>4, <2>5, <2>6 DEF FitsTrial
  <2>8. Fits(q)
    BY <2>2, <2>7 DEF Fits
  <2> QED  BY <2>1, <2>8
<1>6. CASE ~(i # 0 /\ rows[i].free # 0)
  <2> DEFINE q == Request("trial", 0, "none", until, <<r>>)
  <2>1. Set(s, q)
    BY <1>1, <1>6
  <2>2. q.pc = "trial" /\ q.row = 0 /\ q.new[1].status = "active"
    BY DEF Request, Trial
  <2> HIDE DEF q, r
  <2>3. ASSUME NEW x \in DOMAIN rows, ~Bought(x), ~Ended(x)
        PROVE  CoveredBefore(Len(rows) + 1, rows[x].free)
    <3>1. x \in InForce
      BY <1>4, <2>3
    <3>2. i # 0 /\ i \in DOMAIN rows /\ i \in InForce /\ rows[i].free = 0 /\ End(x) <= End(i)
      BY <1>3, <1>6, <3>1
    <3>3. Bought(i) /\ Runs(i)
      BY <1>2, <3>2, Ends
    <3>4. i < Len(rows) + 1 /\ rows[x].free <= End(i)
      BY <1>2, <1>4, <2>3, <3>2
    <3> QED  BY <3>2, <3>3, <3>4 DEF CoveredBefore
  <2>4. FitsTrial(q)
    BY <2>2, <2>3 DEF FitsTrial
  <2>5. Fits(q)
    BY <2>2, <2>4 DEF Fits
  <2> QED  BY <2>1, <2>5
<1> QED  BY <1>5, <1>6

\* A request loads: no row changes.
LEMMA LoadKeepsTerms ==
  ASSUME BillingInv, Terms, NEW s \in Sessions, NEW q, Set(s, q), Fits(q),
         UNCHANGED <<now, rows, captured>>, ~Crossed'
  PROVE  Terms'
<1>1. \A r \in Sessions : session'[r] = IF r = s THEN q ELSE session[r]
  BY DEF Set, BillingInv, TypeOK
<1>2. \A r \in Sessions : Fits(session'[r])
  BY <1>1 DEF Terms
<1>3. \A r \in Sessions : Fits(session[r])'
  BY <1>2 DEF Fits, FitsPurchase, FitsTerm, FitsTrial, Runs, Bought, Ended, End, EffectiveEnd, CoveredBefore
<1>4. Shapes' /\ CapturedMoneyHasItsTerm' /\ TermsApart' /\ TrialsCovered' /\ TermsOutlast'
  BY DEF Terms, Shapes, CapturedMoneyHasItsTerm, TermsApart, TrialsCovered, TermsOutlast, Runs, Bought,
         Ended, End, EffectiveEnd, CoveredBefore
<1> QED  BY <1>3, <1>4 DEF Terms

-----------------------------------------------------------------------------
(* The steps that write.                                                   *)

\* A row as it was: what it charges, and when a term of it began and ends.
SameTerm(i) ==
    /\ rows'[i].total = rows[i].total /\ rows'[i].months = rows[i].months
    /\ rows'[i].status = rows[i].status
    /\ rows'[i].starts = rows[i].starts /\ rows'[i].expires = rows[i].expires

LEMMA SameEnds ==
  ASSUME NEW i, SameTerm(i)
  PROVE  /\ Bought(i)' <=> Bought(i)
         /\ Runs(i)' <=> Runs(i)
         /\ rows'[i].free = rows[i].free => End(i)' = End(i)
  BY DEF SameTerm, Bought, Runs, End, EffectiveEnd

\* Days pass, a purchase lapses, a price is negotiated, a trial is ended.
LEMMA AgedTerms ==
  ASSUME BillingInv, Terms, UNCHANGED <<captured, session>>, ~Crossed',
         now' \in Nat, now <= now', DOMAIN rows' = DOMAIN rows, Len(rows') = Len(rows),
         \A i \in DOMAIN rows :
             /\ SameTerm(i)
             /\ \/ rows'[i].free = rows[i].free
                \/ ~Bought(i) /\ rows'[i].free \in Nat /\ rows'[i].free <= rows[i].free /\ rows'[i].free <= now'
  PROVE  Terms'
<1>1. /\ now \in Nat /\ \A i \in DOMAIN rows : rows[i].free \in Nat /\ rows'[i].free \in Nat
                                              /\ rows'[i].free <= rows[i].free
  BY TermTypes DEF BillingInv
<1>2. \A i \in DOMAIN rows : (Bought(i)' <=> Bought(i)) /\ (Runs(i)' <=> Runs(i))
  BY SameEnds
<1>3. \A i \in DOMAIN rows : Ended(i) => Ended(i)'
  BY <1>1 DEF Ended
<1>4. \A i \in DOMAIN rows : Runs(i) => End(i)' = End(i) /\ End(i) \in Nat
  <2> TAKE i \in DOMAIN rows
  <2>1. Runs(i) => rows'[i].free = rows[i].free
    BY DEF Runs
  <2> QED  BY <2>1, SameEnds, TermTypes DEF BillingInv, End
<1>5. ASSUME NEW k \in Int, NEW i \in DOMAIN rows, CoveredBefore(k, rows[i].free)
      PROVE  \E c \in DOMAIN rows' : c < k /\ Runs(c)' /\ rows'[i].free <= End(c)'
  <2>1. PICK c \in DOMAIN rows : c < k /\ Runs(c) /\ rows[i].free <= End(c)
    BY <1>5 DEF CoveredBefore
  <2>2. Runs(c)' /\ End(c)' = End(c) /\ End(c) \in Nat
    BY <1>2, <1>4, <2>1
  <2> QED  BY <1>1, <2>1, <2>2
<1>6. Shapes'
  BY <1>1, <1>2 DEF Terms, Shapes, SameTerm, Runs
<1>7. CapturedMoneyHasItsTerm'
  <2>1. captured \subseteq DOMAIN rows
    BY DEF BillingInv, TypeOK
  <2> QED  BY <2>1 DEF Terms, CapturedMoneyHasItsTerm, SameTerm
<1>8. TermsApart'
  BY <1>2 DEF Terms, TermsApart, SameTerm
<1>9. TrialsCovered'
  <2> SUFFICES ASSUME NEW i \in DOMAIN rows, NEW j \in DOMAIN rows, i < j, ~Bought(i), ~Bought(j),
                      ~Ended(i)', ~Ended(j)'
               PROVE  \/ \E c \in DOMAIN rows' : c < j /\ Runs(c)' /\ rows'[i].free <= End(c)'
                      \/ \E c \in DOMAIN rows' : c < j /\ Runs(c)' /\ rows'[j].free <= End(c)'
    BY <1>2 DEF TrialsCovered, CoveredBefore
  <2>1. CoveredBefore(j, rows[i].free) \/ CoveredBefore(j, rows[j].free)
    BY <1>3 DEF Terms, TrialsCovered
  <2>2. j \in Int
    BY TermTypes DEF BillingInv
  <2> QED  BY <1>5, <2>1, <2>2
<1>10. TermsOutlast'
  <2> SUFFICES ASSUME NEW i \in DOMAIN rows, NEW j \in DOMAIN rows, i < j, ~Bought(i), Runs(j)
               PROVE  Ended(i)' \/ End(j)' <= now' \/ rows'[i].free < End(j)'
    BY <1>2 DEF TermsOutlast
  <2>1. Ended(i) \/ End(j) <= now \/ rows[i].free < End(j)
    BY DEF Terms, TermsOutlast
  <2>2. End(j)' = End(j) /\ End(j) \in Nat
    BY <1>4
  <2> QED  BY <1>1, <1>3, <2>1, <2>2
<1>11. ASSUME NEW s \in Sessions PROVE Fits(session[s])'
  <2> DEFINE q == session[s]
  <2>1. Fits(q) /\ q.row \in Nat /\ q.from \in Nat /\ (q.row # 0 => q.row \in DOMAIN rows)
    BY TermTypes DEF Terms, BillingInv, TypeOK
  <2>2. q.pc \in {"buying", "capture", "term", "trial"} /\ q.row # 0 =>
            rows'[q.row].status = rows[q.row].status /\ rows'[q.row].months = rows[q.row].months
            /\ (Bought(q.row)' <=> Bought(q.row)) /\ rows'[q.row].free <= rows[q.row].free
            /\ rows'[q.row].free \in Nat /\ rows[q.row].free \in Nat
    BY <1>1, <1>2, <2>1 DEF SameTerm
  <2>3. q.pc \in {"capture", "term"} => q.row # 0
    BY TermTypes DEF BillingInv, RequestInv, TypeOK
  <2>4. q.pc = "buying" => FitsPurchase(session[s])'
    BY <2>1, <2>2 DEF Fits, FitsPurchase
  <2>5. ASSUME q.pc = "term", q.seen = "pending" PROVE FitsTerm(session[s])'
    <3>1. FitsTerm(q)
      BY <2>1, <2>5 DEF Fits
    <3>2. Month * rows[q.row].months \in Nat /\ Grace \in Nat
      BY <2>1, <2>3, <2>5, TermTypes DEF BillingInv
    <3>3. \A j \in DOMAIN rows : Runs(j)' => rows'[j].expires <= q.from
      BY <1>2, <3>1 DEF FitsTerm, SameTerm
    <3>4. ASSUME NEW j \in DOMAIN rows, ~Bought(j)'
          PROVE  Ended(j)' \/ rows'[j].free < q.from + Month * rows'[q.row].months + Grace
      <4> DEFINE bound == q.from + Month * rows[q.row].months + Grace
      <4>1. Ended(j) \/ rows[j].free < bound
        BY <1>2, <3>1, <3>4 DEF FitsTerm
      <4>2. bound \in Nat
        <5> DEFINE length == Month * rows[q.row].months
        <5>1. length \in Nat /\ q.from \in Nat /\ Grace \in Nat
          BY <2>1, <3>2
        <5> HIDE DEF length, q
        <5> QED  BY <5>1 DEF length
      <4>3. bound = q.from + Month * rows'[q.row].months + Grace
        BY <2>2, <2>3, <2>5
      <4> HIDE DEF bound
      <4> QED  BY <1>1, <1>3, <4>1, <4>2, <4>3
    <3> QED  BY <3>3, <3>4 DEF FitsTerm
  <2>6. ASSUME q.pc = "trial" PROVE FitsTrial(session[s])'
    <3>1. FitsTrial(q)
      BY <2>1, <2>6 DEF Fits
    <3>2. q.row # 0 => ~Bought(q.row)' /\ rows'[q.row].free <= q.from
      BY <2>1, <2>2, <2>6, <3>1 DEF FitsTrial
    <3>3. ASSUME q.row # 0, NEW j \in DOMAIN rows, q.row < j, Runs(j)' PROVE End(j)' <= now'
      <4>1. End(j) <= now
        BY <1>2, <3>1, <3>3 DEF FitsTrial
      <4> QED  BY <1>1, <1>2, <1>4, <3>3, <4>1
    <3>4. ASSUME NEW i \in DOMAIN rows, i # q.row, ~Bought(i)', ~Ended(i)',
                 NEW k \in Int, k = IF q.row = 0 THEN Len(rows) + 1 ELSE Larger(i, q.row)
          PROVE  \E c \in DOMAIN rows' : c < k /\ Runs(c)' /\ rows'[i].free <= End(c)'
      <4>1. CoveredBefore(k, rows[i].free)
        BY <1>2, <1>3, <3>1, <3>4 DEF FitsTrial
      <4> QED  BY <1>5, <4>1
    <3>5. \A i \in DOMAIN rows : (IF q.row = 0 THEN Len(rows) + 1 ELSE Larger(i, q.row)) \in Int
      BY <2>1, TermTypes DEF BillingInv, Larger
    <3>6. \A i \in DOMAIN rows' : i # q.row /\ ~Bought(i)' => Ended(i)' \/
            CoveredBefore(IF session[s].row = 0 THEN Len(rows) + 1 ELSE Larger(i, session[s].row), rows[i].free)'
      BY <3>4, <3>5 DEF CoveredBefore, Larger
    <3>7. q.row = 0 => q.new[1].status = "active"
      BY <3>1 DEF FitsTrial
    <3> QED  BY <3>2, <3>3, <3>6, <3>7 DEF FitsTrial
  <2> QED  BY <2>1, <2>2, <2>3, <2>4, <2>5, <2>6 DEF Fits
<1> QED  BY <1>6, <1>7, <1>8, <1>9, <1>10, <1>11 DEF Terms

\* A row that is not in force may be cancelled; nothing else about it changes.
KeptRow(i) ==
    /\ rows'[i].total = rows[i].total /\ rows'[i].months = rows[i].months
    /\ rows'[i].starts = rows[i].starts /\ rows'[i].expires = rows[i].expires
    /\ rows'[i].free = rows[i].free /\ rows'[i].negotiated = rows[i].negotiated
    /\ \/ rows'[i].status = rows[i].status
       \/ rows[i].status # "active" /\ rows'[i].status = "cancelled"

\* What is captured is in force, and stays as it is.
LEMMA KeptStand ==
  ASSUME BillingInv, Terms, \A i \in captured : KeptRow(i)
  PROVE  ~TermsMove
  BY DEF Terms, CapturedMoneyHasItsTerm, KeptRow, TermsMove

\* A row is added: an open purchase, or a trial that nothing crosses.
LEMMA RowJoins ==
  ASSUME BillingInv, Terms, NEW s \in Sessions, Set(s, Idle), ~Crossed',
         UNCHANGED <<now, captured>>, NEW n, n = Len(rows) + 1,
         Len(rows') = n, DOMAIN rows' = 1..n, \A i \in DOMAIN rows : KeptRow(i),
         \A r \in Sessions : r # s /\ session[r].pc \in {"capture", "term"} =>
             rows'[session[r].row].status = rows[session[r].row].status,
         \/ /\ rows'[n].total \in Nat \ {0} /\ rows'[n].status = "pending"
            /\ rows'[n].free = 0 /\ rows'[n].months > 0
         \/ /\ rows'[n].total = 0 /\ rows'[n].status = "active"
            /\ \A i \in DOMAIN rows : ~Bought(i) => Ended(i) \/ CoveredBefore(n, rows[i].free)
            /\ \A r \in Sessions : r # s => session[r].pc \notin {"term", "trial"}
  PROVE  Terms'
<1>1. /\ Len(rows) \in Nat /\ DOMAIN rows = 1..Len(rows) /\ n \in Nat /\ n \notin DOMAIN rows
      /\ DOMAIN rows' = DOMAIN rows \cup {n} /\ \A i \in DOMAIN rows : i < n
      /\ \A r \in Sessions : session'[r] = IF r = s THEN Idle ELSE session[r]
      /\ now \in Nat
  BY TermTypes DEF BillingInv, TypeOK, Set
<1>2. ASSUME NEW i \in DOMAIN rows
      PROVE  /\ i \in DOMAIN rows' /\ rows'[i].free = rows[i].free /\ rows'[i].months = rows[i].months
             /\ rows'[i].starts = rows[i].starts /\ rows'[i].expires = rows[i].expires
             /\ Bought(i)' <=> Bought(i)
             /\ Runs(i)' <=> Runs(i)
             /\ End(i)' = End(i)
             /\ Ended(i)' <=> Ended(i)
  BY <1>1 DEF KeptRow, Bought, Runs, End, EffectiveEnd, Ended
<1>3. ~Runs(n)' /\ (Bought(n)' <=> rows'[n].total # 0)
  BY DEF Runs, Bought
<1>4. ASSUME NEW k, NEW i \in DOMAIN rows, CoveredBefore(k, rows[i].free)
      PROVE  \E c \in DOMAIN rows' : c < k /\ Runs(c)' /\ rows'[i].free <= End(c)'
  BY <1>2, <1>4 DEF CoveredBefore
<1>5. Shapes'
  <2>1. \A i \in DOMAIN rows : ~Bought(i) => rows'[i].status = "active"
    BY DEF Terms, Shapes, KeptRow
  <2>2. \A i \in DOMAIN rows : /\ Bought(i) => rows'[i].free = 0 /\ rows'[i].months > 0
                               /\ Runs(i) => rows'[i].starts < rows'[i].expires
    BY <1>2 DEF Terms, Shapes
  <2>3. /\ Bought(n)' => rows'[n].free = 0 /\ rows'[n].months > 0
        /\ ~Bought(n)' => rows'[n].status = "active"
    BY <1>3
  <2>4. \A i \in DOMAIN rows : (Bought(i)' <=> Bought(i)) /\ (Runs(i)' <=> Runs(i))
    BY <1>2
  <2> QED  BY <1>1, <1>3, <2>1, <2>2, <2>3, <2>4 DEF Shapes
<1>6. CapturedMoneyHasItsTerm'
  <2>1. captured \subseteq DOMAIN rows
    BY DEF BillingInv, TypeOK
  <2> QED  BY <2>1 DEF Terms, CapturedMoneyHasItsTerm, KeptRow
<1>7. TermsApart'
  <2> SUFFICES ASSUME NEW i \in DOMAIN rows', NEW j \in DOMAIN rows', i # j, Runs(i)', Runs(j)'
               PROVE  rows'[i].starts >= rows'[j].expires \/ rows'[j].starts >= rows'[i].expires
    BY DEF TermsApart, Runs
  <2>1. i \in DOMAIN rows /\ j \in DOMAIN rows
    BY <1>1, <1>3
  <2>2. Runs(i) /\ Runs(j)
    BY <1>2, <2>1
  <2>3. rows[i].starts >= rows[j].expires \/ rows[j].starts >= rows[i].expires
    BY <2>1, <2>2 DEF Terms, TermsApart, Runs
  <2> QED  BY <1>2, <2>1, <2>3
<1>8. TrialsCovered'
  <2> SUFFICES ASSUME NEW i \in DOMAIN rows', NEW j \in DOMAIN rows', i < j, ~Bought(i)', ~Bought(j)',
                      ~Ended(i)', ~Ended(j)'
               PROVE  \/ \E c \in DOMAIN rows' : c < j /\ Runs(c)' /\ rows'[i].free <= End(c)'
                      \/ \E c \in DOMAIN rows' : c < j /\ Runs(c)' /\ rows'[j].free <= End(c)'
    BY DEF TrialsCovered, CoveredBefore
  <2>1. i \in DOMAIN rows
    BY <1>1
  <2>2. CASE j \in DOMAIN rows
    <3>1. CoveredBefore(j, rows[i].free) \/ CoveredBefore(j, rows[j].free)
      BY <1>2, <2>1, <2>2 DEF Terms, TrialsCovered
    <3> QED  BY <1>4, <2>1, <2>2, <3>1
  <2>3. CASE j = n
    <3>1. CoveredBefore(n, rows[i].free)
      BY <1>2, <1>3, <2>1, <2>3
    <3> QED  BY <1>4, <2>1, <2>3, <3>1
  <2> QED  BY <1>1, <2>2, <2>3
<1>9. TermsOutlast'
  <2> SUFFICES ASSUME NEW i \in DOMAIN rows', NEW j \in DOMAIN rows', i < j, ~Bought(i)', Runs(j)'
               PROVE  Ended(i)' \/ End(j)' <= now' \/ rows'[i].free < End(j)'
    BY DEF TermsOutlast
  <2>1. i \in DOMAIN rows /\ j \in DOMAIN rows
    BY <1>1, <1>3
  <2>2. Ended(i) \/ End(j) <= now \/ rows[i].free < End(j)
    BY <1>2, <2>1 DEF Terms, TermsOutlast
  <2> QED  BY <1>2, <2>1, <2>2
<1>10. ASSUME NEW r \in Sessions PROVE Fits(session[r])'
  <2>1. CASE r = s
    BY <1>1, <2>1, IdleFits DEF Fits
  <2>2. CASE r # s
    <3> DEFINE q == session[r]
    <3>1. /\ session'[r] = q /\ Fits(q) /\ q.row \in Nat /\ q.from \in Nat
          /\ q.row # 0 => q.row \in DOMAIN rows
      BY <1>1, <2>2, TermTypes DEF Terms, BillingInv, TypeOK
    <3>2. q.pc \in {"capture", "term"} => q.row # 0 /\ rows'[q.row].status = rows[q.row].status
      BY <2>2, TermTypes DEF BillingInv, RequestInv, TypeOK
    <3>3. q.pc = "buying" => FitsPurchase(session[r])'
      BY <3>1 DEF Fits, FitsPurchase, KeptRow
    <3>4. ASSUME q.pc = "term", q.seen = "pending" PROVE FitsTerm(session[r])'
      <4>1. FitsTerm(q)
        BY <3>1, <3>4 DEF Fits
      <4>2. Bought(n)'
        BY <1>3, <2>2, <3>4
      <4>3. rows'[q.row].months = rows[q.row].months
        BY <1>2, <3>1, <3>2, <3>4
      <4>4. \A j \in DOMAIN rows' : Runs(j)' => rows'[j].expires <= q.from
        BY <1>1, <1>2, <1>3, <4>1 DEF FitsTerm
      <4>5. ASSUME NEW j \in DOMAIN rows', ~Bought(j)'
            PROVE  Ended(j)' \/ rows'[j].free < q.from + Month * rows'[q.row].months + Grace
        <5>1. j \in DOMAIN rows
          BY <1>1, <4>2, <4>5
        <5>2. Ended(j) \/ rows[j].free < q.from + Month * rows[q.row].months + Grace
          BY <1>2, <4>1, <4>5, <5>1 DEF FitsTerm
        <5> QED  BY <1>2, <4>3, <5>1, <5>2
      <4> QED  BY <3>1, <4>4, <4>5 DEF FitsTerm
    <3>5. ASSUME q.pc = "trial" PROVE FitsTrial(session[r])'
      <4>1. FitsTrial(q)
        BY <3>1, <3>5 DEF Fits
      <4>2. Bought(n)'
        BY <1>3, <2>2, <3>5
      <4>3. q.row # 0 => ~Bought(q.row)' /\ rows'[q.row].free <= q.from
        BY <1>2, <3>1, <4>1 DEF FitsTrial
      <4>4. ASSUME q.row # 0, NEW j \in DOMAIN rows', q.row < j, Runs(j)' PROVE End(j)' <= now'
        <5>1. j \in DOMAIN rows
          BY <1>1, <1>3, <4>4
        <5>2. Runs(j) /\ End(j)' = End(j)
          BY <1>2, <4>4, <5>1
        <5>3. End(j) <= now
          BY <4>1, <4>4, <5>1, <5>2 DEF FitsTrial
        <5> QED  BY <5>2, <5>3
      <4>5. ASSUME NEW i \in DOMAIN rows', i # q.row, ~Bought(i)', ~Ended(i)'
            PROVE  \E c \in DOMAIN rows' : /\ c < IF q.row = 0 THEN n + 1 ELSE Larger(i, q.row)
                                           /\ Runs(c)' /\ rows'[i].free <= End(c)'
        <5>1. i \in DOMAIN rows
          BY <1>1, <4>2, <4>5
        <5>2. ~Bought(i) /\ ~Ended(i)
          BY <1>2, <4>5, <5>1
        <5>3. CASE q.row # 0
          <6>1. CoveredBefore(Larger(i, q.row), rows[i].free)
            BY <4>1, <4>5, <5>1, <5>2, <5>3 DEF FitsTrial
          <6> QED  BY <1>4, <5>1, <5>3, <6>1
        <5>4. CASE q.row = 0
          <6>1. CoveredBefore(n, rows[i].free)
            BY <4>1, <4>5, <5>1, <5>2, <5>4 DEF FitsTrial
          <6>2. PICK c \in DOMAIN rows' : c < n /\ Runs(c)' /\ rows'[i].free <= End(c)'
            BY <1>4, <5>1, <6>1
          <6>3. c < n + 1
            BY <1>1, <6>2
          <6> QED  BY <5>4, <6>2, <6>3
        <5> QED  BY <5>3, <5>4
      <4>6. q.row = 0 => q.new[1].status = "active"
        BY <4>1 DEF FitsTrial
      <4> QED  BY <3>1, <4>3, <4>4, <4>5, <4>6 DEF FitsTrial, CoveredBefore, Larger
    <3> QED  BY <3>1, <3>2, <3>3, <3>4, <3>5 DEF Fits
  <2> QED  BY <2>1, <2>2
<1> QED  BY <1>5, <1>6, <1>7, <1>8, <1>9, <1>10 DEF Terms

LEMMA CommitRows ==
  ASSUME BillingInv, Terms, NEW s \in Sessions, CommitPurchase(s), NEW n, n = Len(rows) + 1
  PROVE  /\ Set(s, Idle) /\ UNCHANGED <<now, captured>> /\ session[s].pc = "buying"
         /\ Len(rows') = n /\ DOMAIN rows' = 1..n /\ rows'[n] = session[s].new[1]
         /\ rows'[n].total \in Nat \ {0} /\ rows'[n].status = "pending"
         /\ rows'[n].free = 0 /\ rows'[n].months > 0
         /\ \A i \in DOMAIN rows : KeptRow(i) /\ (i # session[s].row => rows'[i].status = rows[i].status)
<1> DEFINE open == session[s].row
           r == session[s].new[1]
           c == [rows[open] EXCEPT !.status = "cancelled"]
           left == IF open = 0 THEN rows ELSE [rows EXCEPT ![open] = c]
<1>1. /\ TypeOK /\ rows \in Seq(Subscription) /\ session[s].new \in Seq(Subscription) /\ open \in Nat
      /\ Len(rows) \in Nat /\ DOMAIN rows = 1..Len(rows) /\ open <= Len(rows) /\ session[s].pc = "buying"
  BY TermTypes DEF BillingInv, TypeOK, SessionState, CommitPurchase, At
<1>2. /\ Len(session[s].new) = 1 /\ r.status = "pending" /\ r.total > 0 /\ r.free = 0 /\ r.months > 0
      /\ open # 0 => rows[open].status # "active"
  BY <1>1 DEF BillingInv, RequestInv, Terms, Fits, FitsPurchase
<1>3. session[s].new = <<r>> /\ r \in Subscription /\ r.total \in Nat
  <2>1. session[s].new \in Seq(Subscription) /\ Len(session[s].new) = 1
    BY <1>1, <1>2
  <2>2. session[s].new = <<r>> /\ r \in Subscription
    BY <2>1
  <2> HIDE DEF r
  <2>3. r.total \in Nat
    BY <2>2 DEF Subscription
  <2> QED  BY <2>2, <2>3
<1>4. open # 0 => /\ c \in Subscription /\ c.status = "cancelled" /\ c.total = rows[open].total
                  /\ c.months = rows[open].months /\ c.starts = rows[open].starts
                  /\ c.expires = rows[open].expires /\ c.free = rows[open].free
                  /\ c.negotiated = rows[open].negotiated
  <2>1. open # 0 => rows[open] \in Subscription
    BY <1>1, RowTypes
  <2> QED  BY <2>1 DEF Subscription, Status
<1>5. Set(s, Idle) /\ UNCHANGED <<now, captured>> /\ rows' = left \o <<r>>
  BY <1>3 DEF CommitPurchase
<1> HIDE DEF c, r
<1>6. /\ left \in Seq(Subscription) /\ Len(left) = Len(rows)
      /\ \A i \in DOMAIN rows : left[i] = IF i = open THEN c ELSE rows[i]
  BY <1>1, <1>4
<1> HIDE DEF left
<1>7. /\ Len(rows') = n /\ DOMAIN rows' = 1..n /\ rows'[n] = r
      /\ \A i \in DOMAIN rows : rows'[i] = left[i]
  <2>1. <<r>> \in Seq(Subscription) /\ Len(<<r>>) = 1 /\ <<r>>[1] = r
    BY <1>3
  <2>2. rows' \in Seq(Subscription) /\ Len(rows') = Len(left) + 1 /\ DOMAIN rows' = 1..Len(rows')
        /\ \A j \in 1..Len(rows') : rows'[j] = IF j <= Len(left) THEN left[j] ELSE <<r>>[j - Len(left)]
    BY <1>5, <1>6, <2>1, ConcatProperties
  <2> HIDE DEF open
  <2>3. Len(rows') = n /\ DOMAIN rows' = 1..n /\ n \in Nat /\ n > Len(rows)
    BY <1>1, <1>6, <2>2
  <2>4. rows'[n] = r
    BY <1>1, <1>6, <2>1, <2>2, <2>3
  <2>5. \A i \in DOMAIN rows : rows'[i] = left[i]
    BY <1>1, <1>6, <2>2, <2>3
  <2> QED  BY <2>3, <2>4, <2>5
<1>8. \A i \in DOMAIN rows : KeptRow(i) /\ (i # open => rows'[i].status = rows[i].status)
  <2> TAKE i \in DOMAIN rows
  <2>1. rows'[i] = IF i = open THEN c ELSE rows[i]
    BY <1>6, <1>7
  <2>2. i = open => open # 0
    BY <1>1
  <2> QED  BY <1>2, <1>4, <2>1, <2>2 DEF KeptRow
<1>9. rows'[n].total \in Nat \ {0} /\ rows'[n].status = "pending" /\ rows'[n].free = 0 /\ rows'[n].months > 0
  BY <1>2, <1>3, <1>7 DEF r
<1> QED  BY <1>1, <1>5, <1>7, <1>8, <1>9 DEF r

LEMMA CommitKeepsTerms ==
  ASSUME BillingInv, Terms, NEW s \in Sessions, CommitPurchase(s), ~Crossed'
  PROVE  Terms' /\ ~TermsMove
<1>1. PICK n : n = Len(rows) + 1
  OBVIOUS
<1>2. /\ Set(s, Idle) /\ UNCHANGED <<now, captured>> /\ session[s].pc = "buying"
      /\ Len(rows') = n /\ DOMAIN rows' = 1..n
      /\ rows'[n].total \in Nat \ {0} /\ rows'[n].status = "pending"
      /\ rows'[n].free = 0 /\ rows'[n].months > 0
      /\ \A i \in DOMAIN rows : KeptRow(i) /\ (i # session[s].row => rows'[i].status = rows[i].status)
  BY <1>1, CommitRows
<1>3. ASSUME NEW t \in Sessions, t # s, session[t].pc \in {"capture", "term"}
      PROVE  rows'[session[t].row].status = rows[session[t].row].status
  <2>1. session[t].row # session[s].row
    BY <1>2, <1>3 DEF Terms, Crossed, At
  <2>2. session[t].row \in DOMAIN rows
    BY <1>3 DEF BillingInv, RequestInv, TypeOK
  <2> QED  BY <1>2, <2>1, <2>2
<1>4. Terms'
  BY <1>1, <1>2, <1>3, RowJoins
<1>5. captured \subseteq DOMAIN rows
  BY DEF BillingInv, TypeOK
<1> QED  BY <1>2, <1>4, <1>5, KeptStand

\* A trial is given a row of its own.
LEMMA GrantRows ==
  ASSUME BillingInv, Terms, NEW s \in Sessions, WriteTrial(s), session[s].row = 0,
         NEW n, n = Len(rows) + 1
  PROVE  /\ Set(s, Idle) /\ UNCHANGED <<now, captured>> /\ session[s].pc = "trial"
         /\ Len(rows') = n /\ DOMAIN rows' = 1..n
         /\ rows'[n].total = 0 /\ rows'[n].status = "active"
         /\ \A i \in DOMAIN rows : rows'[i] = rows[i]
         /\ \A i \in DOMAIN rows : ~Bought(i) => Ended(i) \/ CoveredBefore(n, rows[i].free)
<1> DEFINE r == session[s].new[1]
<1>1. /\ TypeOK /\ rows \in Seq(Subscription) /\ session[s].new \in Seq(Subscription)
      /\ Len(rows) \in Nat /\ DOMAIN rows = 1..Len(rows) /\ session[s].pc = "trial"
  BY TermTypes DEF BillingInv, TypeOK, SessionState, WriteTrial, At
<1>2. FitsTrial(session[s])
  BY <1>1 DEF Terms, Fits
<1>3. Len(session[s].new) = 1 /\ r.total = 0 /\ r.status = "active"
  BY <1>1, <1>2 DEF BillingInv, RequestInv, FitsTrial
<1>4. session[s].new = <<r>> /\ r \in Subscription
  <2>1. session[s].new \in Seq(Subscription) /\ Len(session[s].new) = 1
    BY <1>1, <1>3
  <2> QED  BY <2>1
<1>5. Set(s, Idle) /\ UNCHANGED <<now, captured>> /\ rows' = rows \o <<r>>
  BY <1>4 DEF WriteTrial
<1> HIDE DEF r
<1>6. /\ Len(rows') = n /\ DOMAIN rows' = 1..n /\ rows'[n] = r
      /\ \A i \in DOMAIN rows : rows'[i] = rows[i]
  <2>1. <<r>> \in Seq(Subscription) /\ Len(<<r>>) = 1 /\ <<r>>[1] = r
    BY <1>4
  <2>2. rows' \in Seq(Subscription) /\ Len(rows') = Len(rows) + 1 /\ DOMAIN rows' = 1..Len(rows')
        /\ \A j \in 1..Len(rows') : rows'[j] = IF j <= Len(rows) THEN rows[j] ELSE <<r>>[j - Len(rows)]
    BY <1>1, <1>5, <2>1, ConcatProperties
  <2> QED  BY <1>1, <2>1, <2>2
<1>7. \A i \in DOMAIN rows : ~Bought(i) => Ended(i) \/ CoveredBefore(n, rows[i].free)
  <2>1. \A i \in DOMAIN rows : i # 0
    BY <1>1
  <2> QED  BY <1>2, <2>1 DEF FitsTrial
<1>8. rows'[n].total = 0 /\ rows'[n].status = "active"
  BY <1>3, <1>6 DEF r
<1> QED  BY <1>1, <1>5, <1>6, <1>7, <1>8

LEMMA GrantKeepsTerms ==
  ASSUME BillingInv, Terms, NEW s \in Sessions, WriteTrial(s), session[s].row = 0, ~Crossed'
  PROVE  Terms' /\ ~TermsMove
<1>1. PICK n : n = Len(rows) + 1
  OBVIOUS
<1>2. /\ Set(s, Idle) /\ UNCHANGED <<now, captured>> /\ session[s].pc = "trial"
      /\ Len(rows') = n /\ DOMAIN rows' = 1..n
      /\ rows'[n].total = 0 /\ rows'[n].status = "active"
      /\ \A i \in DOMAIN rows : rows'[i] = rows[i]
      /\ \A i \in DOMAIN rows : ~Bought(i) => Ended(i) \/ CoveredBefore(n, rows[i].free)
  BY <1>1, GrantRows
<1>3. \A i \in DOMAIN rows : KeptRow(i)
  BY <1>2 DEF KeptRow
<1>4. \A t \in Sessions : t # s => session[t].pc \notin {"term", "trial"}
  BY <1>2 DEF Terms, Crossed
<1>5. \A t \in Sessions : t # s /\ session[t].pc \in {"capture", "term"} =>
          rows'[session[t].row].status = rows[session[t].row].status
  <2> TAKE t \in Sessions
  <2>1. session[t].pc \in {"capture", "term"} => session[t].row \in DOMAIN rows
    BY DEF BillingInv, RequestInv, TypeOK
  <2> QED  BY <1>2, <2>1
<1>6. Terms'
  BY <1>1, <1>2, <1>3, <1>4, <1>5, RowJoins
<1>7. captured \subseteq DOMAIN rows
  BY DEF BillingInv, TypeOK
<1> QED  BY <1>3, <1>6, <1>7, KeptStand

\* A trial is extended.
LEMMA ExtensionKeepsTerms ==
  ASSUME BillingInv, Terms, NEW s \in Sessions, WriteTrial(s), session[s].row # 0, ~Crossed'
  PROVE  Terms' /\ ~TermsMove
<1> DEFINE k == session[s].row
           until == session[s].from
<1>1. /\ TypeOK /\ rows \in Seq(Subscription) /\ k \in DOMAIN rows /\ until \in Nat /\ k \in Nat
      /\ session[s].pc = "trial" /\ UNCHANGED <<now, captured>> /\ Set(s, Idle)
      /\ rows' = [rows EXCEPT ![k].free = until]
  BY TermTypes DEF BillingInv, TypeOK, WriteTrial, At
<1>2. /\ FitsTrial(session[s]) /\ ~Bought(k)
  BY <1>1 DEF Terms, Fits, FitsTrial
<1>3. /\ DOMAIN rows' = DOMAIN rows
      /\ \A i \in DOMAIN rows : SameTerm(i) /\ rows'[i].free = IF i = k THEN until ELSE rows[i].free
  <2>1. rows[k] \in Subscription
    BY <1>1, RowTypes
  <2>2. DOMAIN rows' = DOMAIN rows /\ rows'[k] = [rows[k] EXCEPT !.free = until]
        /\ \A i \in DOMAIN rows : i # k => rows'[i] = rows[i]
    BY <1>1
  <2>3. SameTerm(k) /\ rows'[k].free = until
    BY <2>1, <2>2 DEF SameTerm, Subscription
  <2> QED  BY <2>2, <2>3 DEF SameTerm
<1>4. \A i \in DOMAIN rows : /\ Bought(i)' <=> Bought(i)
                             /\ Runs(i)' <=> Runs(i)
                             /\ i # k => End(i)' = End(i) /\ (Ended(i)' <=> Ended(i))
                             /\ i \in Nat
  BY <1>1, <1>3, SameEnds, TermTypes DEF Ended
<1>5. ASSUME NEW j, NEW i \in DOMAIN rows, i # k, CoveredBefore(j, rows[i].free)
      PROVE  \E c \in DOMAIN rows' : c < j /\ Runs(c)' /\ rows'[i].free <= End(c)'
  <2>1. PICK c \in DOMAIN rows : c < j /\ Runs(c) /\ rows[i].free <= End(c)
    BY <1>5 DEF CoveredBefore
  <2>2. c # k
    BY <1>2, <2>1 DEF Runs
  <2> QED  BY <1>3, <1>4, <1>5, <2>1, <2>2
<1>6. Shapes'
  BY <1>2, <1>3, <1>4 DEF Terms, Shapes, SameTerm
<1>7. CapturedMoneyHasItsTerm'
  <2>1. captured \subseteq DOMAIN rows
    BY <1>1 DEF TypeOK
  <2> QED  BY <1>1, <1>3, <2>1 DEF Terms, CapturedMoneyHasItsTerm, SameTerm
<1>8. TermsApart'
  BY <1>3, <1>4 DEF Terms, TermsApart, SameTerm
<1>9. \A x \in DOMAIN rows : x # k /\ ~Bought(x) => Ended(x) \/ CoveredBefore(Larger(x, k), rows[x].free)
  BY <1>2 DEF FitsTrial
<1>10. TrialsCovered'
  <2> SUFFICES ASSUME NEW i \in DOMAIN rows, NEW j \in DOMAIN rows, i < j, ~Bought(i), ~Bought(j),
                      ~Ended(i)', ~Ended(j)'
               PROVE  \/ \E c \in DOMAIN rows' : c < j /\ Runs(c)' /\ rows'[i].free <= End(c)'
                      \/ \E c \in DOMAIN rows' : c < j /\ Runs(c)' /\ rows'[j].free <= End(c)'
    BY <1>3, <1>4 DEF TrialsCovered, CoveredBefore
  <2>1. CASE i = k
    <3>1. j # k /\ Larger(j, k) = j
      BY <1>4, <2>1 DEF Larger
    <3>2. CoveredBefore(j, rows[j].free)
      BY <1>4, <1>9, <3>1
    <3> QED  BY <1>5, <3>1, <3>2
  <2>2. CASE j = k
    <3>1. i # k /\ Larger(i, k) = j
      BY <1>4, <2>2 DEF Larger
    <3>2. CoveredBefore(j, rows[i].free)
      BY <1>4, <1>9, <3>1
    <3> QED  BY <1>5, <3>1, <3>2
  <2>3. CASE i # k /\ j # k
    <3>1. CoveredBefore(j, rows[i].free) \/ CoveredBefore(j, rows[j].free)
      BY <1>4, <2>3 DEF Terms, TrialsCovered
    <3> QED  BY <1>5, <2>3, <3>1
  <2> QED  BY <2>1, <2>2, <2>3
<1>11. TermsOutlast'
  <2> SUFFICES ASSUME NEW i \in DOMAIN rows, NEW j \in DOMAIN rows, i < j, ~Bought(i), Runs(j)
               PROVE  Ended(i)' \/ End(j)' <= now' \/ rows'[i].free < End(j)'
    BY <1>3, <1>4 DEF TermsOutlast
  <2>1. j # k /\ End(j)' = End(j)
    BY <1>2, <1>4 DEF Runs
  <2>2. CASE i = k
    <3>1. End(j) <= now
      BY <1>1, <1>2, <2>2 DEF FitsTrial
    <3> QED  BY <1>1, <2>1, <3>1
  <2>3. CASE i # k
    <3>1. Ended(i) \/ End(j) <= now \/ rows[i].free < End(j)
      BY DEF Terms, TermsOutlast
    <3> QED  BY <1>1, <1>3, <1>4, <2>1, <2>3, <3>1
  <2> QED  BY <2>2, <2>3
<1>12. ASSUME NEW r \in Sessions PROVE Fits(session[r])'
  <2>1. CASE r = s
    <3>1. session'[r] = Idle
      BY <1>1, <2>1 DEF Set, TypeOK
    <3> QED  BY <3>1, IdleFits DEF Fits
  <2>2. CASE r # s
    <3>1. session'[r] = session[r] /\ Fits(session[r])
      BY <1>1, <2>2 DEF Set, TypeOK, Terms
    <3>2. session[r].pc \notin {"term", "trial"}
      BY <1>1, <2>2 DEF Terms, Crossed
    <3>3. session[r].row # 0 => session[r].row \in DOMAIN rows
      BY <1>1, TermTypes DEF TypeOK
    <3>4. session[r].pc = "capture" => session[r].row # 0
      BY <1>1, TermTypes DEF BillingInv, RequestInv, TypeOK
    <3>5. session[r].row # 0 => rows'[session[r].row].status = rows[session[r].row].status
      BY <1>3, <3>3 DEF SameTerm
    <3> QED  BY <3>1, <3>2, <3>4, <3>5 DEF Fits, FitsPurchase
  <2> QED  BY <2>1, <2>2
<1>13. ~TermsMove
  <2>1. captured \subseteq DOMAIN rows
    BY <1>1 DEF TypeOK
  <2> QED  BY <1>3, <2>1 DEF SameTerm, TermsMove
<1> QED  BY <1>6, <1>7, <1>8, <1>10, <1>11, <1>12, <1>13 DEF Terms

\* A captured purchase is put in force.
LEMMA ActivationKeepsTerms ==
  ASSUME BillingInv, Terms, NEW s \in Sessions, Activate(s), ~Crossed'
  PROVE  Terms' /\ ~TermsMove
<1>0. PICK b, from : b = session[s].row /\ from = session[s].from
  OBVIOUS
<1>1. /\ TypeOK /\ rows \in Seq(Subscription) /\ b \in DOMAIN rows /\ from \in Nat /\ b \in Nat
      /\ session[s].pc = "term" /\ now' = now /\ captured' = captured \cup {b} /\ Set(s, Idle)
      /\ Bought(b) /\ captured \subseteq DOMAIN rows
  BY <1>0, TermTypes DEF BillingInv, RequestInv, TypeOK, Activate, At
<1>2. /\ session[s].seen \in {"pending", "active"} /\ rows[b].status = session[s].seen
      /\ session[s].seen = "pending" => FitsTerm(session[s])
  BY <1>0, <1>1 DEF Terms, Fits
<1>3. \A r \in Sessions : session'[r] = IF r = s THEN Idle ELSE session[r]
  BY <1>1 DEF Set, TypeOK
<1>4. \A r \in Sessions : r # s =>
          /\ session[r].pc \notin {"term", "trial"}
          /\ session[r].pc \in {"capture", "buying"} => session[r].row # b
  BY <1>0, <1>1 DEF Terms, Crossed, At
<1>5. CASE session[s].seen = "active"
  <2>1. rows' = rows
    BY <1>5 DEF Activate
  <2>2. CapturedMoneyHasItsTerm'
    BY <1>1, <1>2, <1>5, <2>1 DEF Terms, CapturedMoneyHasItsTerm
  <2>3. Shapes' /\ TermsApart' /\ TrialsCovered' /\ TermsOutlast'
    BY <1>1, <2>1 DEF Terms, Shapes, TermsApart, TrialsCovered, TermsOutlast, Runs, Bought,
         Ended, End, EffectiveEnd, CoveredBefore
  <2>4. \A r \in Sessions : Fits(session'[r])
    BY <1>3, IdleFits DEF Terms
  <2>5. \A r \in Sessions : Fits(session[r])'
    BY <1>1, <2>1, <2>4 DEF Fits, FitsPurchase, FitsTerm, FitsTrial, Runs, Bought, Ended, End, EffectiveEnd, CoveredBefore
  <2>6. ~TermsMove
    BY <2>1 DEF TermsMove
  <2> QED  BY <2>2, <2>3, <2>5, <2>6 DEF Terms
<1>6. CASE session[s].seen = "pending"
  <2>0. PICK until : until = from + Month * rows[b].months
    OBVIOUS
  <2>1. /\ DOMAIN rows' = DOMAIN rows
        /\ rows'[b].status = "active" /\ rows'[b].starts = from /\ rows'[b].expires = until
        /\ rows'[b].free = 0 /\ rows'[b].months > 0 /\ rows'[b].total = rows[b].total
        /\ \A i \in DOMAIN rows : i # b => rows'[i] = rows[i]
    <3>1. rows[b] \in Subscription
      BY <1>1, RowTypes
    <3>2. rows' = [rows EXCEPT ![b] = [rows[b] EXCEPT !.status = "active", !.starts = from, !.expires = until]]
      BY <1>0, <1>1, <1>6, <2>0 DEF Activate
    <3>3. DOMAIN rows' = DOMAIN rows /\ (\A i \in DOMAIN rows : i # b => rows'[i] = rows[i])
          /\ rows'[b] = [rows[b] EXCEPT !.status = "active", !.starts = from, !.expires = until]
      BY <1>1, <3>2
    <3>4. rows[b].free = 0 /\ rows[b].months > 0
      BY <1>1 DEF Terms, Shapes
    <3> QED  BY <3>1, <3>3, <3>4 DEF Subscription
  <2>2. until \in Nat /\ from < until /\ Grace \in Nat
    <3>1. Month \in Nat /\ Month > 0 /\ Grace \in Nat /\ rows[b].months \in Nat /\ rows[b].months > 0
      BY <1>1, TermTypes DEF Terms, Shapes
    <3>2. Month * rows[b].months \in Nat /\ Month * rows[b].months > 0
      BY <3>1
    <3> QED  BY <1>1, <2>0, <3>1, <3>2
  <2> DEFINE same(i) == /\ rows'[i] = rows[i] /\ (Bought(i)' <=> Bought(i)) /\ (Runs(i)' <=> Runs(i))
                        /\ End(i)' = End(i) /\ (Ended(i)' <=> Ended(i))
  <2>3. \A i \in DOMAIN rows : i # b => same(i)
    BY <1>1, <2>1 DEF Bought, Runs, End, EffectiveEnd, Ended
  <2>4. Bought(b)' /\ ~Runs(b) /\ Runs(b)'
    BY <1>1, <1>2, <1>6, <2>1 DEF Bought, Runs
  <2>5. End(b)' = until + Grace
    BY <1>1, <2>1, <2>2 DEF End, EffectiveEnd, Larger
  <2>6. ASSUME NEW j, NEW i \in DOMAIN rows, i # b, CoveredBefore(j, rows[i].free)
        PROVE  \E c \in DOMAIN rows' : c < j /\ Runs(c)' /\ rows'[i].free <= End(c)'
    <3>1. PICK c \in DOMAIN rows : c < j /\ Runs(c) /\ rows[i].free <= End(c)
      BY <2>6 DEF CoveredBefore
    <3>2. c # b
      BY <2>4, <3>1
    <3> QED  BY <2>1, <2>3, <2>6, <3>1, <3>2
  <2>7. Shapes'
    <3>1. \A i \in DOMAIN rows : i # b =>
            /\ Bought(i)' => rows'[i].free = 0 /\ rows'[i].months > 0
            /\ ~Bought(i)' => rows'[i].status = "active"
            /\ Runs(i)' => rows'[i].starts < rows'[i].expires
      BY <2>3 DEF Terms, Shapes
    <3> QED  BY <2>1, <2>2, <2>4, <3>1 DEF Shapes
  <2>8. CapturedMoneyHasItsTerm'
    BY <1>1, <2>1 DEF Terms, CapturedMoneyHasItsTerm
  <2>9. TermsApart'
    <3> SUFFICES ASSUME NEW i \in DOMAIN rows, NEW j \in DOMAIN rows, i # j, Runs(i)', Runs(j)'
                 PROVE  rows'[i].starts >= rows'[j].expires \/ rows'[j].starts >= rows'[i].expires
      BY <2>1 DEF TermsApart, Runs
    <3>1. \A x \in DOMAIN rows : Runs(x) => rows[x].expires <= from
      BY <1>0, <1>2, <1>6 DEF FitsTerm
    <3>2. CASE i = b
      BY <1>1, <2>1, <2>3, <3>1, <3>2, TermTypes
    <3>3. CASE j = b
      BY <1>1, <2>1, <2>3, <3>1, <3>3, TermTypes
    <3>4. CASE i # b /\ j # b
      <4>1. rows[i].starts >= rows[j].expires \/ rows[j].starts >= rows[i].expires
        BY <2>3, <3>4 DEF Terms, TermsApart, Runs
      <4> QED  BY <2>3, <3>4, <4>1
    <3> QED  BY <3>2, <3>3, <3>4
  <2>10. TrialsCovered'
    <3> SUFFICES ASSUME NEW i \in DOMAIN rows, NEW j \in DOMAIN rows, i < j, ~Bought(i)', ~Bought(j)',
                        ~Ended(i)', ~Ended(j)'
                 PROVE  \/ \E c \in DOMAIN rows' : c < j /\ Runs(c)' /\ rows'[i].free <= End(c)'
                        \/ \E c \in DOMAIN rows' : c < j /\ Runs(c)' /\ rows'[j].free <= End(c)'
      BY <2>1 DEF TrialsCovered, CoveredBefore
    <3>1. i # b /\ j # b
      BY <2>4
    <3>2. CoveredBefore(j, rows[i].free) \/ CoveredBefore(j, rows[j].free)
      BY <2>3, <3>1 DEF Terms, TrialsCovered
    <3> QED  BY <2>6, <3>1, <3>2
  <2>11. TermsOutlast'
    <3> SUFFICES ASSUME NEW i \in DOMAIN rows, NEW j \in DOMAIN rows, i < j, ~Bought(i)', Runs(j)'
                 PROVE  Ended(i)' \/ End(j)' <= now' \/ rows'[i].free < End(j)'
      BY <2>1 DEF TermsOutlast
    <3>1. i # b /\ ~Bought(i)
      BY <2>3, <2>4
    <3>2. CASE j = b
      <4>1. Ended(i) \/ rows[i].free < until + Grace
        BY <1>0, <1>2, <1>6, <2>0, <3>1 DEF FitsTerm
      <4> QED  BY <2>3, <2>5, <3>1, <3>2, <4>1
    <3>3. CASE j # b
      <4>1. Ended(i) \/ End(j) <= now \/ rows[i].free < End(j)
        BY <2>3, <3>1, <3>3 DEF Terms, TermsOutlast
      <4> QED  BY <1>1, <2>3, <3>1, <3>3, <4>1
    <3> QED  BY <3>2, <3>3
  <2>12. ASSUME NEW r \in Sessions PROVE Fits(session[r])'
    <3>1. CASE r = s
      BY <1>3, <3>1, IdleFits DEF Fits
    <3>2. CASE r # s
      <4>1. session'[r] = session[r] /\ Fits(session[r])
        BY <1>3, <3>2 DEF Terms
      <4>2. session[r].row # 0 => session[r].row \in DOMAIN rows
        BY <1>1, TermTypes DEF TypeOK
      <4>3. session[r].pc = "capture" => session[r].row # 0
        BY <1>1, TermTypes DEF BillingInv, RequestInv, TypeOK
      <4>4. session[r].pc \in {"capture", "buying"} /\ session[r].row # 0 =>
                rows'[session[r].row].status = rows[session[r].row].status
        BY <1>4, <2>1, <3>2, <4>2
      <4> QED  BY <1>4, <3>2, <4>1, <4>3, <4>4 DEF Fits, FitsPurchase
    <3> QED  BY <3>1, <3>2
  <2>13. ~TermsMove
    <3>1. \A i \in captured : i # b /\ i \in DOMAIN rows
      BY <1>1, <1>2, <1>6 DEF Terms, CapturedMoneyHasItsTerm
    <3> QED  BY <2>1, <3>1 DEF TermsMove
  <2> QED  BY <2>7, <2>8, <2>9, <2>10, <2>11, <2>12, <2>13 DEF Terms
<1> QED  BY <1>2, <1>5, <1>6

\* What happens outside of the requests changes no term, and shortens at most a trial.
LEMMA OutsideSteps ==
  ASSUME BillingInv, Terms,
         \/ Tick \/ EndTrial \/ UNCHANGED vars
         \/ \E price \in Prices \cup {None} : SetNegotiatedPrice(price)
         \/ \E i \in DOMAIN rows : Lapse(i) \/ OwnerPays(i)
  PROVE  /\ UNCHANGED <<captured, session>> /\ now' \in Nat /\ now <= now'
         /\ DOMAIN rows' = DOMAIN rows /\ Len(rows') = Len(rows)
         /\ \A i \in DOMAIN rows :
               /\ SameTerm(i)
               /\ \/ rows'[i].free = rows[i].free
                  \/ ~Bought(i) /\ rows'[i].free \in Nat /\ rows'[i].free <= rows[i].free /\ rows'[i].free <= now'
<1>1. now \in Nat /\ TypeOK /\ Shapes /\ rows \in Seq(Subscription)
  BY TermTypes DEF BillingInv, Terms
<1>2. CASE Tick \/ UNCHANGED vars \/ \E i \in DOMAIN rows : OwnerPays(i)
  BY <1>1, <1>2 DEF Tick, vars, OwnerPays, SameTerm
<1>3. ASSUME NEW i \in DOMAIN rows, Lapse(i)
      PROVE  /\ DOMAIN rows' = DOMAIN rows /\ Len(rows') = Len(rows)
             /\ \A j \in DOMAIN rows : SameTerm(j) /\ rows'[j].free = rows[j].free
  <2> DEFINE r == [rows[i] EXCEPT !.lapsed = TRUE]
  <2>1. rows[i] \in Subscription /\ rows' = [rows EXCEPT ![i] = r]
    BY <1>1, <1>3, RowTypes DEF Lapse
  <2>2. r \in Subscription /\ \A c \in {"total", "months", "status", "starts", "expires", "free"} : r[c] = rows[i][c]
    BY <2>1 DEF Subscription
  <2> HIDE DEF r
  <2>3. DOMAIN rows' = DOMAIN rows /\ Len(rows') = Len(rows) /\ rows'[i] = r
        /\ \A j \in DOMAIN rows : j # i => rows'[j] = rows[j]
    BY <1>1, <2>1, <2>2, RowChanged
  <2> QED  BY <2>2, <2>3 DEF SameTerm
<1>4. ASSUME NEW price \in Prices \cup {None}, SetNegotiatedPrice(price)
      PROVE  /\ DOMAIN rows' = DOMAIN rows /\ Len(rows') = Len(rows)
             /\ \A j \in DOMAIN rows : SameTerm(j) /\ rows'[j].free = rows[j].free
  <2>1. PICK k : /\ k \in DOMAIN rows /\ rows' = [rows EXCEPT ![k].negotiated = price]
    <3>1. PICK i \in Current(InForce) : rows' = [rows EXCEPT ![IF i = 0 THEN Len(rows) ELSE i].negotiated = price]
      BY <1>4 DEF SetNegotiatedPrice
    <3>2. Len(rows) \in DOMAIN rows
      BY <1>1, <1>4 DEF SetNegotiatedPrice
    <3> QED  BY <1>1, <3>1, <3>2, CurrentRows
  <2> DEFINE r == [rows[k] EXCEPT !.negotiated = price]
  <2>2. rows[k] \in Subscription /\ rows' = [rows EXCEPT ![k] = r]
    BY <1>1, <2>1, RowTypes
  <2>3. r \in Subscription /\ \A c \in {"total", "months", "status", "starts", "expires", "free"} : r[c] = rows[k][c]
    BY <2>2 DEF Subscription
  <2> HIDE DEF r
  <2>4. DOMAIN rows' = DOMAIN rows /\ Len(rows') = Len(rows) /\ rows'[k] = r
        /\ \A j \in DOMAIN rows : j # k => rows'[j] = rows[j]
    BY <1>1, <2>1, <2>2, <2>3, RowChanged
  <2> QED  BY <2>3, <2>4 DEF SameTerm
<1>5. CASE EndTrial
  <2>1. PICK k \in Current(InForce) \ {0} : IsOnTrial(rows[k]) /\ rows' = [rows EXCEPT ![k].free = now]
    BY <1>5 DEF EndTrial
  <2> DEFINE r == [rows[k] EXCEPT !.free = now]
  <2>2. k \in DOMAIN rows /\ rows[k] \in Subscription /\ rows' = [rows EXCEPT ![k] = r]
    BY <1>1, <2>1, CurrentRows, RowTypes
  <2>3. r \in Subscription /\ r.free = now /\ \A c \in {"total", "months", "status", "starts", "expires"} : r[c] = rows[k][c]
    BY <1>1, <2>2 DEF Subscription
  <2> HIDE DEF r
  <2>4. DOMAIN rows' = DOMAIN rows /\ Len(rows') = Len(rows) /\ rows'[k] = r
        /\ \A j \in DOMAIN rows : j # k => rows'[j] = rows[j]
    BY <1>1, <2>2, <2>3, RowChanged
  <2>5. now < rows[k].free /\ ~Bought(k) /\ rows[k].free \in Nat
    BY <1>1, <2>1, <2>2, TermTypes DEF IsOnTrial, Shapes
  <2>6. \A j \in DOMAIN rows : SameTerm(j)
    BY <2>3, <2>4 DEF SameTerm
  <2>7. UNCHANGED <<now, captured, session>>
    BY <1>5 DEF EndTrial
  <2> QED  BY <1>1, <2>3, <2>4, <2>5, <2>6, <2>7
<1>6. CASE \E i \in DOMAIN rows : Lapse(i)
  <2>1. PICK i \in DOMAIN rows : Lapse(i)
    BY <1>6
  <2>2. UNCHANGED <<now, captured, session>>
    BY <2>1 DEF Lapse
  <2>3. /\ DOMAIN rows' = DOMAIN rows /\ Len(rows') = Len(rows)
        /\ \A j \in DOMAIN rows : SameTerm(j) /\ rows'[j].free = rows[j].free
    BY <1>3, <2>1
  <2> QED  BY <1>1, <2>2, <2>3
<1>7. CASE \E price \in Prices \cup {None} : SetNegotiatedPrice(price)
  <2>1. PICK price \in Prices \cup {None} : SetNegotiatedPrice(price)
    BY <1>7
  <2>2. UNCHANGED <<now, captured, session>>
    BY <2>1 DEF SetNegotiatedPrice
  <2>3. /\ DOMAIN rows' = DOMAIN rows /\ Len(rows') = Len(rows)
        /\ \A j \in DOMAIN rows : SameTerm(j) /\ rows'[j].free = rows[j].free
    BY <1>4, <2>1
  <2> QED  BY <1>1, <2>2, <2>3
<1> QED  BY <1>2, <1>5, <1>6, <1>7

LEMMA TermsStep ==
  ASSUME BillingInv, Terms, [Next]_vars, ~Crossed'
  PROVE  Terms' /\ ~TermsMove
<1>1. CASE \/ Tick \/ EndTrial \/ UNCHANGED vars
           \/ \E price \in Prices \cup {None} : SetNegotiatedPrice(price)
           \/ \E i \in DOMAIN rows : Lapse(i) \/ OwnerPays(i)
  <2>1. Terms'
    BY <1>1, OutsideSteps, AgedTerms
  <2>2. ~TermsMove
    <3>1. captured \subseteq DOMAIN rows
      BY DEF BillingInv, TypeOK
    <3>2. \A i \in DOMAIN rows : SameTerm(i)
      BY <1>1, OutsideSteps
    <3> QED  BY <3>1, <3>2 DEF SameTerm, TermsMove
  <2> QED  BY <2>1, <2>2
<1>2. ASSUME NEW s \in Sessions, UNCHANGED <<now, rows, captured>>, NEW q, Set(s, q), Fits(q)
      PROVE  Terms' /\ ~TermsMove
  BY <1>2, LoadKeepsTerms DEF TermsMove
<1>3. ASSUME NEW s \in Sessions, NEW months \in Durations, StartPurchase(s, months) PROVE Terms' /\ ~TermsMove
  <2>1. UNCHANGED <<now, rows, captured>>
    BY <1>3 DEF StartPurchase
  <2> QED  BY <1>2, <1>3, <2>1, PurchaseFits
<1>4. ASSUME NEW s \in Sessions, NEW days \in TrialDays, GrantTrial(s, days) PROVE Terms' /\ ~TermsMove
  <2>1. UNCHANGED <<now, rows, captured>>
    BY <1>4 DEF GrantTrial
  <2> QED  BY <1>2, <1>4, <2>1, TrialFits
<1>5. ASSUME NEW s \in Sessions, NEW i \in DOMAIN rows, WebhookCaptured(s, i) \/ VerifySubscription(s, i)
      PROVE  Terms' /\ ~TermsMove
  <2>1. UNCHANGED <<now, rows, captured>>
    BY <1>5 DEF WebhookCaptured, VerifySubscription
  <2> QED  BY <1>2, <1>5, <2>1, DeliveryFits
<1>6. ASSUME NEW s \in Sessions, Capture(s) PROVE Terms' /\ ~TermsMove
  <2>1. UNCHANGED <<now, rows, captured>>
    BY <1>6 DEF Capture
  <2> QED  BY <1>2, <1>6, <2>1, CaptureFits
<1>7. ASSUME NEW s \in Sessions, Rollback(s) PROVE Terms' /\ ~TermsMove
  <2>1. UNCHANGED <<now, rows, captured>> /\ Set(s, Idle)
    BY <1>7 DEF Rollback
  <2> QED  BY <1>2, <2>1, IdleFits
<1>8. ASSUME NEW s \in Sessions, CommitPurchase(s) \/ Activate(s) \/ WriteTrial(s) PROVE Terms' /\ ~TermsMove
  BY <1>8, CommitKeepsTerms, ActivationKeepsTerms, GrantKeepsTerms, ExtensionKeepsTerms
<1> QED  BY <1>1, <1>3, <1>4, <1>5, <1>6, <1>7, <1>8 DEF Next

LEMMA TermsStart == MCInit => BillingInv /\ TermsInv
<1> SUFFICES ASSUME MCInit PROVE BillingInv /\ Terms
  BY DEF TermsInv
<1>1. BillingInv
  BY BillingStart DEF MCInit
<1>2. rows = <<>> /\ captured = {} /\ \A s \in Sessions : session[s] = Idle
  BY DEF MCInit, Init
<1>3. DOMAIN rows = {}
  BY <1>2
<1>4. Shapes /\ CapturedMoneyHasItsTerm /\ TermsApart /\ TrialsCovered /\ TermsOutlast
  BY <1>2, <1>3 DEF Shapes, CapturedMoneyHasItsTerm, TermsApart, TrialsCovered, TermsOutlast
<1>5. ~Crossed /\ \A s \in Sessions : Fits(session[s])
  BY <1>2, IdleFits DEF Crossed, At
<1> QED  BY <1>1, <1>4, <1>5 DEF Terms

mcVars == <<vars, pricingVars, earningsVars, part, crossed, rate>>

LEMMA TermsNext ==
  BillingInv /\ TermsInv /\ [MCNext]_mcVars => BillingInv' /\ TermsInv' /\ (~crossed' => ~TermsMove)
<1> SUFFICES ASSUME BillingInv, TermsInv, [MCNext]_mcVars
             PROVE  BillingInv' /\ TermsInv' /\ (~crossed' => ~TermsMove)
  OBVIOUS
<1>1. [Next]_vars
  BY DEF MCNext, mcVars, vars
<1>2. BillingInv'
  BY <1>1, BillingStep
<1>3. CASE part = "terms" /\ MCNext
  <2>1. ~crossed /\ Next /\ crossed' = Crossed'
    BY <1>3 DEF MCNext
  <2>2. ~Crossed' => Terms' /\ ~TermsMove
    BY <2>1, TermsStep DEF TermsInv
  <2> QED  BY <1>2, <2>1, <2>2 DEF TermsInv
<1>4. CASE ~(part = "terms" /\ MCNext)
  <2>1. UNCHANGED vars /\ (~crossed' => ~crossed)
    BY <1>4 DEF MCNext, mcVars, vars
  <2>2. ~crossed' => Terms /\ ~Crossed'
    <3>1. ~crossed' => Terms /\ session' = session
      BY <2>1 DEF TermsInv, vars
    <3> QED  BY <3>1 DEF Terms, Crossed, At
  <2>3. ~crossed' => Terms' /\ ~TermsMove
    BY <2>1, <2>2, TermsStep
  <2> QED  BY <1>2, <2>3 DEF TermsInv
<1> QED  BY <1>3, <1>4

\* Of two trials that run, one ends before a bought term that is in force.
LEMMA TrialsDoNotPileUp ==
  ASSUME BillingInv, Terms PROVE OneTrialUnlessBought
<1> SUFFICES ASSUME Cardinality(LiveTrials) > 1 PROVE \E i \in InForce : Bought(i)
  BY DEF OneTrialUnlessBought
<1>1. PICK i, j : i \in LiveTrials /\ j \in LiveTrials /\ i # j
  <2> SUFFICES ASSUME \A i, j \in LiveTrials : i = j PROVE FALSE
    OBVIOUS
  <2>1. CASE LiveTrials = {}
    BY <2>1, FS_EmptySet
  <2>2. CASE LiveTrials # {}
    <3>1. PICK i : LiveTrials = {i}
      BY <2>2
    <3>2. Cardinality(LiveTrials) = 1
      BY <3>1, FS_Singleton
    <3> QED  BY <3>2
  <2> QED  BY <2>1, <2>2
<1>2. PICK a, b : a \in LiveTrials /\ b \in LiveTrials /\ a < b
  <2>1. i \in Nat /\ j \in Nat
    BY <1>1, TermTypes DEF LiveTrials, InForce, BillingInv
  <2> QED  BY <1>1, <2>1
<1>3. \A x \in LiveTrials : /\ x \in DOMAIN rows /\ now < rows[x].free /\ rows[x].free \in Nat
                            /\ ~Bought(x) /\ ~Ended(x)
  <2> TAKE x \in LiveTrials
  <2>1. x \in DOMAIN rows /\ now < rows[x].free
    BY DEF LiveTrials, InForce, IsOnTrial
  <2> QED  BY <2>1, TermTypes DEF BillingInv, Terms, Shapes, Ended
<1>4. PICK c \in DOMAIN rows : Runs(c) /\ (rows[a].free <= End(c) \/ rows[b].free <= End(c))
  BY <1>2, <1>3 DEF Terms, TrialsCovered, CoveredBefore
<1>5. now < End(c)
  <2>1. End(c) \in Nat /\ now \in Nat
    BY <1>4, Ends, TermTypes DEF BillingInv, Terms
  <2> QED  BY <1>2, <1>3, <1>4, <2>1
<1>6. c \in InForce /\ Bought(c)
  BY <1>4, <1>5, Ends DEF Terms, Runs
<1> QED  BY <1>6

\* As long as no two requests that decide about one thing overlap, in whatever order and
\* however often purchases, deliveries, callbacks and grants come: bought terms share no
\* day, captured money keeps its term, trials do not pile up and no term is moved
\* (billing/purchase.py, billing/subscriptions.py).
THEOREM BillingTermsStand == MCSpec => TermsStandUnlessCrossed
<1> DEFINE stand == ~crossed => TermsApart /\ CapturedMoneyHasItsTerm /\ OneTrialUnlessBought
           still == [~crossed' => ~TermsMove]_<<vars, crossed, rate>>
<1>1. MCInit => BillingInv /\ TermsInv
  BY TermsStart
<1>2. BillingInv /\ TermsInv => stand
  BY TrialsDoNotPileUp DEF TermsInv, Terms
<1>3. BillingInv /\ TermsInv /\ [MCNext]_mcVars => BillingInv' /\ TermsInv' /\ still
  BY TermsNext
<1> HIDE DEF stand, still
<1>4. MCSpec => []stand /\ [][~crossed' => ~TermsMove]_<<vars, crossed, rate>>
  BY <1>1, <1>2, <1>3, PTL DEF MCSpec, mcVars, still
<1> QED  BY <1>4 DEF TermsStandUnlessCrossed, stand

-----------------------------------------------------------------------------
(* The rate, while it is clear.                                            *)

\* No two subscriptions in force end together, unless a trial was added to a term.
LEMMA EndsDiffer ==
  ASSUME BillingInv, Terms, ~Mixed, NEW i \in InForce, NEW j \in InForce, i < j
  PROVE  End(i) # End(j) /\ (~Bought(i) => End(i) < End(j)) /\ Bought(j)
<1>1. \A x \in InForce : /\ x \in DOMAIN rows /\ x \in Nat /\ now < End(x) /\ End(x) \in Nat
                         /\ Bought(x) => Runs(x) /\ End(x) = rows[x].expires + Grace
                         /\ ~Bought(x) => End(x) = rows[x].free /\ ~Ended(x)
  <2> TAKE x \in InForce
  <2>1. x \in DOMAIN rows
    BY DEF InForce
  <2> QED  BY <2>1, Ends, TermTypes DEF BillingInv, Terms
<1>2. now \in Nat /\ Grace \in Nat /\ \A x \in DOMAIN rows : rows[x].starts \in Nat /\ rows[x].expires \in Nat
  BY TermTypes DEF BillingInv
<1>3. \A c \in DOMAIN rows : Runs(c) /\ now < End(c) => c \in InForce /\ Bought(c)
  BY Ends DEF Terms, Runs
<1>4. Bought(j)
  <2> SUFFICES ASSUME ~Bought(j) PROVE FALSE
    OBVIOUS
  <2>1. ~Bought(i)
    BY DEF Mixed
  <2>2. CoveredBefore(j, rows[i].free) \/ CoveredBefore(j, rows[j].free)
    BY <1>1, <2>1 DEF Terms, TrialsCovered
  <2>3. PICK c \in DOMAIN rows : c < j /\ Runs(c) /\ (rows[i].free <= End(c) \/ rows[j].free <= End(c))
    BY <2>2 DEF CoveredBefore
  <2>4. now < End(c)
    <3>1. End(c) \in Nat
      BY <2>3, Ends DEF Terms
    <3> QED  BY <1>1, <1>2, <2>1, <2>3, <3>1
  <2> QED  BY <1>3, <2>3, <2>4 DEF Mixed
<1>5. CASE Bought(i)
  <2>1. rows[i].starts >= rows[j].expires \/ rows[j].starts >= rows[i].expires
    BY <1>1, <1>4, <1>5 DEF Terms, TermsApart, Runs
  <2>2. rows[i].starts < rows[i].expires /\ rows[j].starts < rows[j].expires
    BY <1>1, <1>4, <1>5 DEF Terms, Shapes
  <2> QED  BY <1>1, <1>2, <1>4, <1>5, <2>1, <2>2
<1>6. CASE ~Bought(i)
  <2>1. Ended(i) \/ End(j) <= now \/ rows[i].free < End(j)
    BY <1>1, <1>4, <1>6 DEF Terms, TermsOutlast
  <2> QED  BY <1>1, <1>2, <1>4, <1>6, <2>1
<1> QED  BY <1>5, <1>6

\* A trial that runs longest is alone.
LEMMA LongestTrialIsAlone ==
  ASSUME BillingInv, Terms, ~Mixed, NEW i \in InForce, ~Bought(i), \A j \in InForce : End(j) <= End(i)
  PROVE  InForce = {i}
<1> SUFFICES ASSUME NEW j \in InForce, j # i PROVE FALSE
  OBVIOUS
<1>1. i \in Nat /\ j \in Nat /\ End(i) \in Nat /\ End(j) \in Nat
  BY TermTypes DEF BillingInv, InForce, End
<1>2. CASE i < j
  <2>1. End(i) < End(j)
    BY <1>2, EndsDiffer
  <2> QED  BY <1>1, <2>1
<1>3. CASE j < i
  BY <1>3, EndsDiffer
<1> QED  BY <1>1, <1>2, <1>3

\* Whatever runs longest has the rate.
LEMMA LongestHasTheRate ==
  ASSUME BillingInv, NEW among, RatesKept(among), NEW c \in Current(InForce)
  PROVE  c \in InForce /\ Negotiated(c) \in among /\ rows[c].negotiated \in among
<1>1. c # 0 /\ c \in InForce /\ c \in DOMAIN rows /\ \A j \in InForce : End(j) <= End(c)
  BY CurrentOutlasts DEF RatesKept
<1>2. \A j \in InForce : End(j) \in Nat
  BY TermTypes DEF BillingInv, InForce, End
<1>3. rows[c].negotiated \in among
  BY <1>1, <1>2 DEF RatesKept
<1> QED  BY <1>1, <1>3 DEF Negotiated

\* What runs without the rate goes on being outlasted by what has it.
LEMMA RatesCarry ==
  ASSUME BillingInv, NEW among, RatesKept(among), InForce' # {}, ~Mixed',
         now' \in Nat, now <= now',
         \A j \in InForce' :
             \/ rows'[j].negotiated \in among
             \/ j \in InForce /\ rows'[j].negotiated = rows[j].negotiated /\ End(j)' = End(j),
         \A g \in InForce : rows[g].negotiated \in among /\ now' < End(g) =>
             g \in InForce' /\ rows'[g].negotiated = rows[g].negotiated /\ End(g)' = End(g),
         \A i \in Pending' : rows'[i].negotiated \in among,
         \A s \in Sessions : session'[s].pc = "buying" => session'[s].new[1].negotiated \in among
  PROVE  RatesKept(among)'
<1>1. ASSUME NEW j \in InForce', rows'[j].negotiated \notin among
      PROVE  \E g \in InForce' : rows'[g].negotiated \in among /\ End(j)' < End(g)'
  <2>1. j \in InForce /\ rows[j].negotiated \notin among /\ End(j)' = End(j)
    BY <1>1
  <2>2. PICK g \in InForce : rows[g].negotiated \in among /\ End(j) < End(g)
    BY <2>1 DEF RatesKept
  <2>3. now' < End(j)'
    BY <1>1 DEF InForce, IsInForce, End
  <2>4. End(j) \in Nat /\ End(g) \in Nat
    BY <2>1, TermTypes DEF BillingInv, InForce, End
  <2>5. now' < End(g)
    BY <2>1, <2>2, <2>3, <2>4
  <2> QED  BY <2>1, <2>2, <2>5
<1> QED  BY <1>1 DEF RatesKept

\* Nothing starts, and nothing that counts is changed but by the day.
LEMMA RatesWait ==
  ASSUME BillingInv, NEW among, RatesKept(among), InForce' # {}, ~Mixed',
         now' \in Nat, now <= now', DOMAIN rows' = DOMAIN rows,
         \A i \in DOMAIN rows : SameTerm(i) /\ rows'[i].free = rows[i].free
                                /\ rows'[i].negotiated = rows[i].negotiated,
         \A s \in Sessions : session'[s].pc = "buying" => session'[s].new[1].negotiated \in among
  PROVE  RatesKept(among)'
<1>1. \A i \in DOMAIN rows : End(i)' = End(i) /\ End(i) \in Nat
  BY SameEnds, TermTypes DEF BillingInv, End
<1>2. \A j \in InForce' : j \in InForce
  <2> TAKE j \in InForce'
  <2>1. j \in DOMAIN rows /\ rows'[j].status = "active" /\ now' < End(j)'
    BY DEF InForce, IsInForce, End
  <2>2. rows[j].status = "active" /\ now < End(j)
    BY <1>1, <2>1, TermTypes DEF SameTerm, BillingInv
  <2> QED  BY <2>1, <2>2 DEF InForce, IsInForce, End
<1>3. \A g \in InForce : now' < End(g) => g \in InForce'
  <2> SUFFICES ASSUME NEW g \in InForce, now' < End(g) PROVE g \in InForce'
    OBVIOUS
  <2>1. g \in DOMAIN rows' /\ rows'[g].status = "active" /\ now' < End(g)'
    BY <1>1 DEF InForce, IsInForce, SameTerm
  <2> QED  BY <2>1 DEF InForce, IsInForce, End
<1>4. \A i \in Pending' : rows'[i].negotiated \in among
  BY DEF RatesKept, Pending, SameTerm
<1>5. \A i \in InForce : i \in DOMAIN rows
  BY DEF InForce
<1> QED  BY <1>1, <1>2, <1>3, <1>4, <1>5, RatesCarry

LEMMA RowKept ==
  ASSUME NEW i \in DOMAIN rows, i \in DOMAIN rows', rows'[i] = rows[i], now' = now
  PROVE  (i \in InForce' <=> i \in InForce) /\ End(i)' = End(i) /\ (Bought(i)' <=> Bought(i))
  BY DEF InForce, IsInForce, End, EffectiveEnd, Bought

LEMMA FreeWritten ==
  ASSUME TypeOK, NEW k \in DOMAIN rows, NEW d \in Nat, rows' = [rows EXCEPT ![k].free = d]
  PROVE  /\ DOMAIN rows' = DOMAIN rows /\ \A i \in DOMAIN rows : i # k => rows'[i] = rows[i]
         /\ SameTerm(k) /\ rows'[k].free = d /\ rows'[k].negotiated = rows[k].negotiated
<1>1. rows[k] \in Subscription
  BY RowTypes
<1>2. DOMAIN rows' = DOMAIN rows /\ rows'[k] = [rows[k] EXCEPT !.free = d]
      /\ \A i \in DOMAIN rows : i # k => rows'[i] = rows[i]
  BY DEF TypeOK
<1> QED  BY <1>1, <1>2 DEF SameTerm, Subscription

\* Days pass, a purchase lapses or is paid, and requests load and give up.
LEMMA QuietRates ==
  ASSUME BillingInv, Terms, NEW among, RatesKept(among), InForce' # {}, ~Mixed',
         \/ Tick \/ UNCHANGED vars \/ \E i \in DOMAIN rows : Lapse(i) \/ OwnerPays(i)
         \/ \E s \in Sessions :
               \/ \E days \in TrialDays : GrantTrial(s, days)
               \/ \E i \in DOMAIN rows : WebhookCaptured(s, i) \/ VerifySubscription(s, i)
               \/ Capture(s) \/ Rollback(s)
  PROVE  RatesKept(among)'
<1>1. now \in Nat /\ TypeOK
  BY TermTypes DEF BillingInv
<1>2. \A s \in Sessions : session[s].pc = "buying" => session[s].new[1].negotiated \in among
  BY DEF RatesKept
<1>3. ASSUME now' \in Nat, now <= now', UNCHANGED <<rows, session>> PROVE RatesKept(among)'
  BY <1>2, <1>3, RatesWait DEF SameTerm
<1>4. ASSUME NEW i \in DOMAIN rows, Lapse(i) PROVE RatesKept(among)'
  <2> DEFINE r == [rows[i] EXCEPT !.lapsed = TRUE]
  <2>1. rows[i] \in Subscription /\ rows' = [rows EXCEPT ![i] = r] /\ UNCHANGED <<now, session>>
    BY <1>1, <1>4, RowTypes DEF Lapse
  <2>2. r \in Subscription
        /\ \A c \in {"total", "months", "status", "starts", "expires", "free", "negotiated"} : r[c] = rows[i][c]
    BY <2>1 DEF Subscription
  <2> HIDE DEF r
  <2>3. DOMAIN rows' = DOMAIN rows /\ rows'[i] = r /\ \A j \in DOMAIN rows : j # i => rows'[j] = rows[j]
    BY <1>1, <2>1, <2>2, RowChanged
  <2>4. \A j \in DOMAIN rows : SameTerm(j) /\ rows'[j].free = rows[j].free
                               /\ rows'[j].negotiated = rows[j].negotiated
    BY <2>2, <2>3 DEF SameTerm
  <2> QED  BY <1>1, <1>2, <2>1, <2>3, <2>4, RatesWait
<1>5. ASSUME NEW s \in Sessions, NEW q, Set(s, q), q.pc # "buying", UNCHANGED <<now, rows>>
      PROVE  RatesKept(among)'
  <2>1. \A r \in Sessions : session'[r] = IF r = s THEN q ELSE session[r]
    BY <1>1, <1>5 DEF Set, TypeOK
  <2>2. \A r \in Sessions : session'[r].pc = "buying" => session'[r].new[1].negotiated \in among
    BY <1>2, <1>5, <2>1
  <2> QED  BY <1>1, <1>5, <2>2, RatesWait DEF SameTerm
<1>6. ASSUME NEW s \in Sessions,
             \/ \E days \in TrialDays : GrantTrial(s, days)
             \/ \E i \in DOMAIN rows : WebhookCaptured(s, i) \/ VerifySubscription(s, i)
             \/ Capture(s) \/ Rollback(s)
      PROVE  RatesKept(among)'
  <2>1. \A pc, row, seen, from, new : Request(pc, row, seen, from, new).pc = pc
    BY DEF Request
  <2>2. Idle.pc # "buying"
    BY IdleFits
  <2>3. UNCHANGED <<now, rows>>
    BY <1>6 DEF GrantTrial, WebhookCaptured, VerifySubscription, Capture, Rollback
  <2>4. \E q : Set(s, q) /\ q.pc # "buying"
    <3>1. CASE Rollback(s)
      BY <2>2, <3>1 DEF Rollback
    <3>2. CASE Capture(s)
      <4>1. PICK row, seen, from : Set(s, Idle) \/ Set(s, Request("term", row, seen, from, <<>>))
        BY <3>2 DEF Capture
      <4> QED  BY <2>1, <2>2, <4>1
    <3>3. CASE \E i \in DOMAIN rows : WebhookCaptured(s, i) \/ VerifySubscription(s, i)
      <4>1. PICK row, seen : Set(s, Request("capture", row, seen, 0, <<>>))
        BY <3>3 DEF WebhookCaptured, VerifySubscription
      <4> QED  BY <2>1, <4>1
    <3>4. CASE \E days \in TrialDays : GrantTrial(s, days)
      <4>1. PICK row, from, new : Set(s, Request("trial", row, "none", from, new))
        BY <3>4 DEF GrantTrial
      <4> QED  BY <2>1, <4>1
    <3> QED  BY <1>6, <3>1, <3>2, <3>3, <3>4
  <2> QED  BY <1>5, <2>3, <2>4
<1>7. CASE Tick \/ UNCHANGED vars \/ \E i \in DOMAIN rows : OwnerPays(i)
  <2>1. now' \in Nat /\ now <= now' /\ UNCHANGED <<rows, session>>
    BY <1>1, <1>7 DEF Tick, vars, OwnerPays
  <2> QED  BY <1>3, <2>1
<1> QED  BY <1>4, <1>6, <1>7

\* A renewal freezes the rate of what runs longest.
LEMMA RenewalRates ==
  ASSUME BillingInv, Terms, NEW among, RatesKept(among), InForce' # {}, ~Mixed',
         NEW s \in Sessions, NEW months \in Durations, StartPurchase(s, months)
  PROVE  RatesKept(among)'
<1>0. PICK open \in (IF Pending = {} THEN {0} ELSE Pending), i \in Current(InForce) :
        \E total \in Quotes(months, Negotiated(i)) :
          Set(s, Request("buying", open, "none", 0, <<Purchase(months, total, Negotiated(i))>>))
  BY DEF StartPurchase
<1>1. PICK total : Set(s, Request("buying", open, "none", 0, <<Purchase(months, total, Negotiated(i))>>))
  BY <1>0
<1> DEFINE q == Request("buying", open, "none", 0, <<Purchase(months, total, Negotiated(i))>>)
<1>2. q.new[1].negotiated = Negotiated(i)
  BY DEF Request, Purchase
<1>3. Negotiated(i) \in among
  BY LongestHasTheRate
<1>4. UNCHANGED <<now, rows>> /\ Set(s, q)
  BY <1>1 DEF StartPurchase
<1> HIDE DEF q
<1>5. \A r \in Sessions : session'[r] = IF r = s THEN q ELSE session[r]
  BY <1>4 DEF Set, BillingInv, TypeOK
<1>6. \A r \in Sessions : session'[r].pc = "buying" => session'[r].new[1].negotiated \in among
  BY <1>2, <1>3, <1>5 DEF RatesKept
<1> QED  BY <1>4, <1>6, TermTypes, RatesWait DEF SameTerm, BillingInv

\* A purchase is committed with the rate it was frozen at.
LEMMA CommitRates ==
  ASSUME BillingInv, Terms, NEW among, RatesKept(among), InForce' # {}, ~Mixed',
         NEW s \in Sessions, CommitPurchase(s)
  PROVE  RatesKept(among)'
<1>1. PICK n : n = Len(rows) + 1
  OBVIOUS
<1>2. /\ Set(s, Idle) /\ UNCHANGED <<now, captured>> /\ session[s].pc = "buying"
      /\ Len(rows') = n /\ DOMAIN rows' = 1..n /\ rows'[n] = session[s].new[1] /\ rows'[n].status = "pending"
      /\ \A i \in DOMAIN rows : KeptRow(i)
  BY <1>1, CommitRows
<1>3. DOMAIN rows' = DOMAIN rows \cup {n} /\ now \in Nat
  BY <1>1, <1>2, TermTypes DEF BillingInv
<1>4. \A i \in DOMAIN rows : End(i)' = End(i) /\ (i \in InForce' <=> i \in InForce)
  BY <1>2, <1>3 DEF KeptRow, InForce, IsInForce, End, EffectiveEnd
<1>5. n \notin InForce'
  BY <1>2 DEF InForce, IsInForce
<1>6. rows'[n].negotiated \in among
  BY <1>2 DEF RatesKept
<1>7. \A i \in Pending' : rows'[i].negotiated \in among
  <2> TAKE i \in Pending'
  <2>1. CASE i = n
    BY <1>6, <2>1
  <2>2. CASE i \in DOMAIN rows
    <3>1. i \in Pending /\ rows'[i].negotiated = rows[i].negotiated
      BY <1>2, <2>2 DEF Pending, KeptRow
    <3> QED  BY <3>1 DEF RatesKept
  <2> QED  BY <1>3, <2>1, <2>2 DEF Pending
<1>8. \A r \in Sessions : session'[r].pc = "buying" => session'[r].new[1].negotiated \in among
  <2>1. \A r \in Sessions : session'[r] = IF r = s THEN Idle ELSE session[r]
    BY <1>2 DEF Set, BillingInv, TypeOK
  <2> QED  BY <2>1, IdleFits DEF RatesKept
<1>9. \A j \in InForce' : j \in InForce /\ rows'[j].negotiated = rows[j].negotiated /\ End(j)' = End(j)
  <2> TAKE j \in InForce'
  <2>1. j \in DOMAIN rows
    BY <1>3, <1>5 DEF InForce
  <2> QED  BY <1>2, <1>4, <2>1 DEF KeptRow
<1>10. \A g \in InForce : g \in InForce' /\ rows'[g].negotiated = rows[g].negotiated /\ End(g)' = End(g)
  <2> TAKE g \in InForce
  <2>1. g \in DOMAIN rows
    BY DEF InForce
  <2> QED  BY <1>2, <1>4, <2>1 DEF KeptRow
<1> QED  BY <1>2, <1>3, <1>7, <1>8, <1>9, <1>10, RatesCarry

\* A trial is granted: beside what runs it would leave the rate unclear.
LEMMA GrantRates ==
  ASSUME BillingInv, Terms, NEW among, RatesKept(among), InForce' # {}, ~Mixed',
         NEW s \in Sessions, WriteTrial(s), session[s].row = 0
  PROVE  RatesKept(among)'
<1>1. PICK n : n = Len(rows) + 1
  OBVIOUS
<1>2. /\ Set(s, Idle) /\ UNCHANGED <<now, captured>>
      /\ Len(rows') = n /\ DOMAIN rows' = 1..n /\ rows'[n].total = 0 /\ rows'[n].status = "active"
      /\ \A i \in DOMAIN rows : rows'[i] = rows[i]
      /\ \A i \in DOMAIN rows : ~Bought(i) => Ended(i) \/ CoveredBefore(n, rows[i].free)
  BY <1>1, GrantRows
<1>3. DOMAIN rows' = DOMAIN rows \cup {n} /\ now \in Nat /\ \A i \in DOMAIN rows : i < n /\ i \in DOMAIN rows'
  BY <1>1, <1>2, TermTypes DEF BillingInv
<1>4. \A i \in DOMAIN rows : (i \in InForce' <=> i \in InForce) /\ End(i)' = End(i) /\ (Bought(i)' <=> Bought(i))
  BY <1>2, <1>3, RowKept
<1>5. PICK x : x \in InForce /\ x \in DOMAIN rows
  BY DEF RatesKept, InForce
<1>6. \E c \in DOMAIN rows : c \in InForce /\ Bought(c)
  <2>1. CASE Bought(x)
    BY <1>5, <2>1
  <2>2. CASE ~Bought(x)
    <3>1. ~Ended(x) /\ End(x) = rows[x].free /\ now < rows[x].free /\ rows[x].free \in Nat
      BY <1>5, <2>2, Ends, TermTypes DEF Terms, BillingInv, InForce, IsInForce, End
    <3>2. PICK c \in DOMAIN rows : Runs(c) /\ rows[x].free <= End(c)
      BY <1>2, <1>5, <2>2, <3>1 DEF CoveredBefore
    <3>3. now < End(c)
      BY <1>3, <3>1, <3>2, Ends DEF Terms
    <3> QED  BY <3>2, <3>3, Ends DEF Terms, Runs
  <2> QED  BY <2>1, <2>2
<1>7. n \notin InForce'
  <2> SUFFICES ASSUME n \in InForce' PROVE FALSE
    OBVIOUS
  <2>1. PICK c \in DOMAIN rows : c \in InForce /\ Bought(c)
    BY <1>6
  <2>2. c \in InForce' /\ Bought(c)' /\ c < n /\ ~Bought(n)'
    BY <1>2, <1>3, <1>4, <2>1 DEF Bought
  <2> QED  BY <2>2 DEF Mixed
<1>8. \A i \in Pending' : rows'[i].negotiated \in among
  <2> TAKE i \in Pending'
  <2>1. i \in DOMAIN rows /\ rows'[i] = rows[i]
    BY <1>2, <1>3 DEF Pending
  <2> QED  BY <2>1 DEF Pending, RatesKept
<1>9. \A r \in Sessions : session'[r].pc = "buying" => session'[r].new[1].negotiated \in among
  <2>1. \A r \in Sessions : session'[r] = IF r = s THEN Idle ELSE session[r]
    BY <1>2 DEF Set, BillingInv, TypeOK
  <2> QED  BY <2>1, IdleFits DEF RatesKept
<1>10. \A j \in InForce' : j \in InForce /\ rows'[j].negotiated = rows[j].negotiated /\ End(j)' = End(j)
  <2> TAKE j \in InForce'
  <2>1. j \in DOMAIN rows
    BY <1>3, <1>7 DEF InForce
  <2> QED  BY <1>2, <1>4, <2>1
<1>11. \A g \in InForce : g \in InForce' /\ rows'[g].negotiated = rows[g].negotiated /\ End(g)' = End(g)
  <2> TAKE g \in InForce
  <2>1. g \in DOMAIN rows
    BY DEF InForce
  <2> QED  BY <1>2, <1>4, <2>1
<1> QED  BY <1>2, <1>3, <1>8, <1>9, <1>10, <1>11, RatesCarry

\* A trial is extended: it is all that runs, or beside what runs it would leave the rate
\* unclear.
LEMMA ExtensionRates ==
  ASSUME BillingInv, Terms, NEW among, RatesKept(among), InForce' # {}, ~Mixed',
         NEW s \in Sessions, WriteTrial(s), session[s].row # 0
  PROVE  RatesKept(among)'
<1>0. PICK k, until : k = session[s].row /\ until = session[s].from
  OBVIOUS
<1>1. /\ TypeOK /\ k \in DOMAIN rows /\ until \in Nat /\ k \in Nat /\ now \in Nat
      /\ session[s].pc = "trial" /\ now' = now /\ Set(s, Idle)
      /\ rows' = [rows EXCEPT ![k].free = until]
  BY <1>0, TermTypes DEF BillingInv, TypeOK, WriteTrial, At
<1>2. FitsTrial(session[s]) /\ ~Bought(k)
  BY <1>0, <1>1 DEF Terms, Fits, FitsTrial
<1>3. /\ DOMAIN rows' = DOMAIN rows /\ \A i \in DOMAIN rows : i # k => rows'[i] = rows[i]
      /\ SameTerm(k) /\ rows'[k].negotiated = rows[k].negotiated
  BY <1>1, FreeWritten
<1>4. \A i \in DOMAIN rows : /\ i # k => (i \in InForce' <=> i \in InForce) /\ End(i)' = End(i)
                             /\ Bought(i)' <=> Bought(i)
                             /\ i \in Nat /\ rows'[i].negotiated = rows[i].negotiated
                             /\ rows'[i].status = rows[i].status
  BY <1>1, <1>3, RowKept, SameEnds, TermTypes DEF SameTerm
<1>5. \A c \in DOMAIN rows : Runs(c) /\ now < End(c) => c \in InForce /\ c \in InForce' /\ Bought(c)
  BY <1>2, <1>4, Ends DEF Terms, Runs
<1>6. k \in InForce' => InForce \subseteq {k}
  <2> SUFFICES ASSUME k \in InForce', NEW x \in InForce, x # k PROVE FALSE
    OBVIOUS
  <2>1. x \in DOMAIN rows /\ x \in Nat /\ now < End(x)
    BY <1>4 DEF InForce, IsInForce, End
  <2>2. CASE Bought(x)
    <3>1. Runs(x) /\ End(x) \in Nat /\ x \in InForce'
      BY <1>4, <2>1, <2>2, Ends DEF Terms
    <3>2. k < x => End(x) <= now
      BY <1>0, <1>1, <1>2, <2>1, <3>1 DEF FitsTrial
    <3>3. x < k
      BY <1>1, <2>1, <3>1, <3>2
    <3> QED  BY <1>1, <1>2, <1>4, <2>1, <2>2, <3>1, <3>3 DEF Mixed
  <2>3. CASE ~Bought(x)
    <3>1. ~Ended(x) /\ now < rows[x].free /\ rows[x].free \in Nat
      BY <2>1, <2>3, Ends, TermTypes DEF Terms, BillingInv
    <3>2. CoveredBefore(Larger(x, k), rows[x].free)
      BY <1>0, <1>1, <1>2, <2>1, <2>3, <3>1, TermTypes DEF FitsTrial
    <3>3. PICK c \in DOMAIN rows : c < Larger(x, k) /\ Runs(c) /\ rows[x].free <= End(c)
      BY <3>2 DEF CoveredBefore
    <3>4. now < End(c)
      BY <1>1, <3>1, <3>3, Ends DEF Terms
    <3>5. c \in InForce /\ c \in InForce' /\ Bought(c) /\ Bought(c)'
      BY <1>4, <1>5, <3>3, <3>4
    <3>6. CASE c < x
      BY <2>3, <3>5, <3>6 DEF Mixed, RatesKept
    <3>7. CASE c < k
      BY <1>1, <1>2, <1>4, <3>5, <3>7 DEF Mixed
    <3> QED  BY <3>3, <3>6, <3>7 DEF Larger
  <2> QED  BY <2>2, <2>3
<1>7. \A i \in Pending' : rows'[i].negotiated \in among
  BY <1>3, <1>4 DEF Pending, RatesKept
<1>8. \A r \in Sessions : session'[r].pc = "buying" => session'[r].new[1].negotiated \in among
  <2>1. \A r \in Sessions : session'[r] = IF r = s THEN Idle ELSE session[r]
    BY <1>1 DEF Set, TypeOK
  <2> QED  BY <2>1, IdleFits DEF RatesKept
<1>9. \A i \in InForce' : i \in DOMAIN rows
  BY <1>3 DEF InForce
<1>10. \A i \in InForce : i \in DOMAIN rows
  BY DEF InForce
<1>11. CASE k \notin InForce'
  <2>1. k \notin InForce
    <3>1. rows[k].free <= until /\ rows[k].free \in Nat
      BY <1>0, <1>1, <1>2, TermTypes DEF FitsTrial
    <3>2. rows'[k].free = until /\ rows'[k].expires = 0 /\ rows'[k].status = "active"
          /\ End(k) = rows[k].free
      <4>1. End(k) = rows[k].free /\ rows[k].status = "active" /\ rows[k].expires = 0
        BY <1>1, <1>2, Ends DEF Terms, BillingInv, RowsInv
      <4> QED  BY <1>1, <1>3, <4>1, FreeWritten DEF SameTerm
    <3>3. until <= now
      <4>1. End(k)' = until
        BY <1>1, <3>2 DEF End, EffectiveEnd, Larger
      <4>2. ~(now < End(k)')
        BY <1>1, <1>3, <1>11, <3>2 DEF InForce, IsInForce, End
      <4> QED  BY <1>1, <4>1, <4>2
    <3> QED  BY <1>1, <3>1, <3>2, <3>3 DEF InForce, IsInForce, End
  <2>2. \A j \in InForce' : j \in InForce /\ rows'[j].negotiated = rows[j].negotiated /\ End(j)' = End(j)
    BY <1>4, <1>9, <1>11
  <2>3. \A g \in InForce : g \in InForce' /\ rows'[g].negotiated = rows[g].negotiated /\ End(g)' = End(g)
    BY <1>4, <1>10, <2>1
  <2> QED  BY <1>1, <1>7, <1>8, <2>2, <2>3, RatesCarry
<1>12. CASE k \in InForce'
  <2>1. InForce = {k}
    BY <1>6, <1>12 DEF RatesKept
  <2>2. rows[k].negotiated \in among
    <3>1. End(k) \in Nat
      BY <1>1, TermTypes DEF End
    <3> QED  BY <2>1, <3>1 DEF RatesKept
  <2>3. \A j \in InForce' : j = k
    BY <1>4, <1>9, <2>1
  <2> QED  BY <1>4, <1>1, <1>7, <1>8, <2>2, <2>3 DEF RatesKept
<1> QED  BY <1>11, <1>12

\* A paid purchase, frozen at the rate, is put in force.
LEMMA ActivationRates ==
  ASSUME BillingInv, Terms, NEW among, RatesKept(among), InForce' # {}, ~Mixed',
         NEW s \in Sessions, Activate(s)
  PROVE  RatesKept(among)'
<1>0. PICK b, from : b = session[s].row /\ from = session[s].from
  OBVIOUS
<1>1. /\ TypeOK /\ b \in DOMAIN rows /\ from \in Nat /\ now \in Nat
      /\ session[s].pc = "term" /\ now' = now /\ Set(s, Idle)
  BY <1>0, TermTypes DEF BillingInv, RequestInv, TypeOK, Activate, At
<1>2. session[s].seen \in {"pending", "active"} /\ rows[b].status = session[s].seen
  BY <1>0, <1>1 DEF Terms, Fits
<1>3. \A r \in Sessions : session'[r].pc = "buying" => session'[r].new[1].negotiated \in among
  <2>1. \A r \in Sessions : session'[r] = IF r = s THEN Idle ELSE session[r]
    BY <1>1 DEF Set, TypeOK
  <2> QED  BY <2>1, IdleFits DEF RatesKept
<1>4. CASE session[s].seen = "active"
  <2>1. rows' = rows
    BY <1>4 DEF Activate
  <2> QED  BY <1>1, <1>3, <2>1, RatesWait DEF SameTerm
<1>5. CASE session[s].seen = "pending"
  <2>1. rows[b].negotiated \in among
    BY <1>1, <1>2, <1>5 DEF RatesKept, Pending
  <2>2. /\ DOMAIN rows' = DOMAIN rows /\ rows'[b].status = "active"
        /\ rows'[b].negotiated = rows[b].negotiated
        /\ \A i \in DOMAIN rows : i # b => rows'[i] = rows[i]
    <3>1. rows[b] \in Subscription /\ rows \in Seq(Subscription)
      BY <1>1, RowTypes DEF TypeOK
    <3>2. PICK until : until = from + Month * rows[b].months
      OBVIOUS
    <3>3. rows' = [rows EXCEPT ![b] = [rows[b] EXCEPT !.status = "active", !.starts = from, !.expires = until]]
      BY <1>0, <1>1, <1>5, <3>2 DEF Activate
    <3>4. DOMAIN rows' = DOMAIN rows /\ (\A i \in DOMAIN rows : i # b => rows'[i] = rows[i])
          /\ rows'[b] = [rows[b] EXCEPT !.status = "active", !.starts = from, !.expires = until]
      BY <1>1, <3>1, <3>3
    <3> QED  BY <3>1, <3>4 DEF Subscription
  <2>3. \A i \in DOMAIN rows : i # b => (i \in InForce' <=> i \in InForce) /\ End(i)' = End(i)
    BY <1>1, <2>2, RowKept
  <2>4. b \notin InForce
    BY <1>2, <1>5 DEF InForce, IsInForce
  <2>5. \A j \in InForce' :
            \/ rows'[j].negotiated \in among
            \/ j \in InForce /\ rows'[j].negotiated = rows[j].negotiated /\ End(j)' = End(j)
    <3> TAKE j \in InForce'
    <3>1. j \in DOMAIN rows
      BY <2>2 DEF InForce
    <3> QED  BY <2>1, <2>2, <2>3, <3>1
  <2>6. \A g \in InForce : g \in InForce' /\ rows'[g].negotiated = rows[g].negotiated /\ End(g)' = End(g)
    <3> TAKE g \in InForce
    <3>1. g \in DOMAIN rows
      BY DEF InForce
    <3> QED  BY <2>2, <2>3, <2>4, <3>1
  <2>7. \A i \in Pending' : rows'[i].negotiated \in among
    BY <2>2 DEF Pending, RatesKept
  <2> QED  BY <1>1, <1>3, <2>5, <2>6, <2>7, RatesCarry
<1> QED  BY <1>2, <1>4, <1>5

\* A trial that is ended was all there was.
LEMMA EndingRates ==
  ASSUME BillingInv, Terms, NEW among, RatesKept(among), InForce' # {}, EndTrial
  PROVE  FALSE
<1>1. TypeOK /\ now \in Nat /\ now' = now
  BY TermTypes DEF BillingInv, EndTrial
<1>2. PICK k \in Current(InForce) \ {0} : IsOnTrial(rows[k]) /\ rows' = [rows EXCEPT ![k].free = now]
  BY DEF EndTrial
<1>3. k \in InForce /\ k \in DOMAIN rows /\ \A j \in InForce : End(j) <= End(k)
  BY <1>2, CurrentOutlasts
<1>4. ~Bought(k)
  BY <1>1, <1>2, <1>3, TermTypes DEF IsOnTrial, Terms, Shapes
<1>5. InForce = {k}
  BY <1>3, <1>4, LongestTrialIsAlone DEF RatesKept
<1>6. /\ DOMAIN rows' = DOMAIN rows /\ \A i \in DOMAIN rows : i # k => rows'[i] = rows[i]
      /\ SameTerm(k) /\ rows'[k].free = now
  BY <1>1, <1>2, <1>3, FreeWritten
<1>7. k \notin InForce'
  <2>1. rows'[k].expires = 0
    BY <1>3, <1>4, <1>6 DEF SameTerm, BillingInv, RowsInv
  <2>2. End(k)' = now
    BY <1>1, <1>6, <2>1 DEF End, EffectiveEnd, Larger
  <2>3. ~(now < now)
    BY <1>1
  <2> QED  BY <1>1, <2>2, <2>3 DEF InForce, IsInForce, End
<1>8. \A i \in DOMAIN rows : i # k => (i \in InForce' <=> i \in InForce)
  BY <1>1, <1>6, RowKept
<1>9. InForce' \subseteq DOMAIN rows
  BY <1>6 DEF InForce
<1> QED  BY <1>5, <1>7, <1>8, <1>9

\* A price is negotiated on what runs longest, while nothing is being bought.
LEMMA PriceNegotiated ==
  ASSUME BillingInv, Terms, NEW price \in Prices \cup {None}, SetNegotiatedPrice(price)
  PROVE  /\ InForce' = InForce /\ Pending' = Pending /\ UNCHANGED <<now, session>>
         /\ \A i \in DOMAIN rows : End(i)' = End(i) /\ (Bought(i)' <=> Bought(i))
         /\ InForce # {} => \E i \in InForce :
               /\ rows[i].negotiated # price /\ rows'[i].negotiated = price
               /\ \A j \in InForce : End(j) <= End(i) /\ (j # i => rows'[j].negotiated = rows[j].negotiated)
<1>1. TypeOK /\ rows \in Seq(Subscription) /\ UNCHANGED <<now, session>>
  BY DEF BillingInv, TypeOK, SetNegotiatedPrice
<1>2. PICK i \in Current(InForce) :
        /\ rows[IF i = 0 THEN Len(rows) ELSE i].negotiated # price
        /\ rows' = [rows EXCEPT ![IF i = 0 THEN Len(rows) ELSE i].negotiated = price]
  BY DEF SetNegotiatedPrice
<1>3. PICK k : k = IF i = 0 THEN Len(rows) ELSE i
  OBVIOUS
<1>4. k \in DOMAIN rows /\ rows[k].negotiated # price /\ rows' = [rows EXCEPT ![k].negotiated = price]
  <2>1. Len(rows) \in DOMAIN rows
    BY <1>1 DEF SetNegotiatedPrice
  <2> QED  BY <1>1, <1>2, <1>3, <2>1, CurrentRows
<1> DEFINE r == [rows[k] EXCEPT !.negotiated = price]
<1>5. rows[k] \in Subscription /\ rows' = [rows EXCEPT ![k] = r]
  BY <1>1, <1>4, RowTypes
<1>6. r \in Subscription /\ r.negotiated = price
      /\ \A c \in {"total", "months", "status", "starts", "expires", "free"} : r[c] = rows[k][c]
  BY <1>5 DEF Subscription
<1> HIDE DEF r
<1>7. DOMAIN rows' = DOMAIN rows /\ rows'[k] = r /\ \A j \in DOMAIN rows : j # k => rows'[j] = rows[j]
  BY <1>1, <1>4, <1>5, <1>6, RowChanged
<1>8. \A j \in DOMAIN rows : SameTerm(j) /\ rows'[j].free = rows[j].free
  BY <1>6, <1>7 DEF SameTerm
<1>9. \A j \in DOMAIN rows : End(j)' = End(j) /\ (Bought(j)' <=> Bought(j))
  BY <1>8, SameEnds
<1>10. InForce' = InForce /\ Pending' = Pending
  BY <1>1, <1>7, <1>8, <1>9 DEF InForce, IsInForce, End, Pending, SameTerm
<1>11. InForce # {} => i = k /\ i \in InForce /\ \A j \in InForce : End(j) <= End(i)
  BY <1>3, CurrentOutlasts
<1>12. \A j \in InForce : j \in DOMAIN rows
  BY DEF InForce
<1> QED  BY <1>1, <1>4, <1>6, <1>7, <1>9, <1>10, <1>11, <1>12

\* Set while nothing is being bought, the price is the rate of what runs longest.
LEMMA NegotiatedRates ==
  ASSUME BillingInv, Terms, InForce' # {}, ~Mixed',
         NEW price \in Prices \cup {None}, SetNegotiatedPrice(price),
         Pending = {}, \A s \in Sessions : session[s].pc # "buying"
  PROVE  RatesKept({price})'
<1>1. /\ InForce' = InForce /\ Pending' = Pending /\ UNCHANGED <<now, session>>
      /\ \A j \in DOMAIN rows : End(j)' = End(j) /\ (Bought(j)' <=> Bought(j))
  BY PriceNegotiated
<1>2. PICK i \in InForce : /\ rows'[i].negotiated = price
                           /\ \A j \in InForce : End(j) <= End(i)
  BY <1>1, PriceNegotiated
<1>3. ~Mixed /\ \A j \in InForce : j \in DOMAIN rows /\ j \in Nat /\ End(j) \in Nat
  <2>1. \A j \in InForce : j \in DOMAIN rows /\ j \in Nat /\ End(j) \in Nat
    BY TermTypes DEF BillingInv, InForce, End
  <2> QED  BY <1>1, <2>1 DEF Mixed
<1>4. \A j \in InForce : j # i => End(j) < End(i)
  <2> SUFFICES ASSUME NEW j \in InForce, j # i PROVE End(j) < End(i)
    OBVIOUS
  <2>1. i < j \/ j < i
    BY <1>3
  <2>2. End(j) # End(i)
    BY <1>3, <2>1, EndsDiffer
  <2> QED  BY <1>2, <1>3, <2>2
<1>5. \A j \in InForce' : rows'[j].negotiated \notin {price} =>
          \E g \in InForce' : rows'[g].negotiated \in {price} /\ End(j)' < End(g)'
  <2> SUFFICES ASSUME NEW j \in InForce, rows'[j].negotiated # price
               PROVE  rows'[i].negotiated = price /\ End(j)' < End(i)'
    BY <1>1
  <2> QED  BY <1>1, <1>2, <1>3, <1>4
<1> QED  BY <1>1, <1>5 DEF RatesKept

LEMMA RatesStep ==
  ASSUME BillingInv, Terms, [Next]_vars, NEW among, RatesKept(among), InForce' # {}, ~Mixed',
         \A i \in InForce : rows'[i].negotiated = rows[i].negotiated
  PROVE  RatesKept(among)'
<1>1. ASSUME NEW price \in Prices \cup {None}, SetNegotiatedPrice(price) PROVE FALSE
  <2>1. InForce # {}
    BY DEF RatesKept
  <2> QED  BY <1>1, <2>1, PriceNegotiated
<1>2. ASSUME NEW s \in Sessions, WriteTrial(s) PROVE RatesKept(among)'
  BY <1>2, GrantRates, ExtensionRates
<1> QED  BY <1>1, <1>2, EndingRates, QuietRates, RenewalRates, CommitRates, ActivationRates DEF Next

\* Nothing but a negotiation changes a negotiated price.
LEMMA NegotiatedKept ==
  ASSUME BillingInv, Terms, [Next]_vars, \A price \in Prices \cup {None} : ~SetNegotiatedPrice(price),
         NEW i \in InForce
  PROVE  rows'[i].negotiated = rows[i].negotiated
<1>1. TypeOK /\ now \in Nat /\ i \in DOMAIN rows /\ rows[i] \in Subscription /\ rows \in Seq(Subscription)
  BY TermTypes, RowTypes DEF BillingInv, InForce
<1>2. ASSUME NEW j \in DOMAIN rows, Lapse(j) PROVE rows'[i].negotiated = rows[i].negotiated
  BY <1>1, <1>2 DEF Lapse, Subscription
<1>3. ASSUME NEW s \in Sessions, Activate(s) PROVE rows'[i].negotiated = rows[i].negotiated
  <2>1. CASE session[s].seen = "active"
    BY <1>3, <2>1 DEF Activate
  <2>2. CASE session[s].seen # "active"
    <3>1. PICK b, from, until : b = session[s].row /\ from = session[s].from
                                /\ until = from + Month * rows[b].months
      OBVIOUS
    <3>2. b \in DOMAIN rows /\ rows[b] \in Subscription
      BY <1>1, <1>3, <3>1, RowTypes DEF Activate, At, BillingInv, RequestInv, TypeOK
    <3>3. rows' = [rows EXCEPT ![b] = [rows[b] EXCEPT !.status = "active", !.starts = from, !.expires = until]]
      BY <1>1, <1>3, <2>2, <3>1, <3>2 DEF Activate
    <3>4. (i # b => rows'[i] = rows[i])
          /\ rows'[b] = [rows[b] EXCEPT !.status = "active", !.starts = from, !.expires = until]
      BY <1>1, <3>2, <3>3
    <3>5. rows'[b].negotiated = rows[b].negotiated
      BY <3>2, <3>4 DEF Subscription
    <3> QED  BY <3>4, <3>5
  <2> QED  BY <2>1, <2>2
<1>4. ASSUME NEW s \in Sessions, WriteTrial(s) PROVE rows'[i].negotiated = rows[i].negotiated
  <2>1. CASE session[s].row = 0
    BY <1>1, <1>4, <2>1, GrantRows
  <2>2. CASE session[s].row # 0
    <3>1. PICK k, d : k = session[s].row /\ d = session[s].from
      OBVIOUS
    <3>2. k \in DOMAIN rows /\ d \in Nat /\ rows' = [rows EXCEPT ![k].free = d]
      BY <1>1, <1>4, <2>2, <3>1, TermTypes DEF WriteTrial, TypeOK
    <3>3. (i # k => rows'[i] = rows[i]) /\ rows'[k].negotiated = rows[k].negotiated
      BY <1>1, <3>2, FreeWritten
    <3> QED  BY <3>3
  <2> QED  BY <2>1, <2>2
<1>5. CASE EndTrial
  BY <1>1, <1>5 DEF EndTrial, Subscription
<1>6. ASSUME NEW s \in Sessions, CommitPurchase(s) PROVE rows'[i].negotiated = rows[i].negotiated
  BY <1>1, <1>6, CommitRows DEF KeptRow
<1>7. ASSUME rows' = rows PROVE rows'[i].negotiated = rows[i].negotiated
  BY <1>7
<1>8. CASE rows' # rows
  <2>1. /\ ~Tick /\ ~(UNCHANGED vars) /\ \A j \in DOMAIN rows : ~OwnerPays(j)
        /\ \A s \in Sessions :
              /\ \A months \in Durations : ~StartPurchase(s, months)
              /\ \A days \in TrialDays : ~GrantTrial(s, days)
              /\ \A j \in DOMAIN rows : ~WebhookCaptured(s, j) /\ ~VerifySubscription(s, j)
              /\ ~Capture(s) /\ ~Rollback(s)
    BY <1>8 DEF Tick, vars, OwnerPays, StartPurchase, GrantTrial, WebhookCaptured, VerifySubscription,
                Capture, Rollback
  <2> QED  BY <1>2, <1>3, <1>4, <1>5, <1>6, <2>1 DEF Next
<1> QED  BY <1>7, <1>8

LEMMA RatesNext ==
  BillingInv /\ TermsInv /\ RateInv /\ [MCNext]_mcVars => RateInv'
<1> SUFFICES ASSUME BillingInv, TermsInv, RateInv, [MCNext]_mcVars, ~crossed', rate' # {}
             PROVE  part' = "terms" /\ RatesKept(rate)'
  BY DEF RateInv
<1>1. BillingInv'
  BY TermsNext
<1>2. PICK among : among = rate'
  OBVIOUS
<1>3. SUFFICES part' = "terms" /\ RatesKept(among)'
  BY <1>2 DEF RatesKept
<1>4. CASE MCNext /\ part = "terms"
  <2>1. ~crossed /\ Next /\ rate' = RateAfter /\ part' = "terms" /\ Terms
    BY <1>4 DEF MCNext, TermsInv
  <2>2. InForce' # {} /\ ~\E i, j \in InForce' : i < j /\ rows'[i].total > 0 /\ rows'[j].total = 0
    BY <2>1 DEF RateAfter, RateIsUnclear
  <2>3. ~Mixed'
    <3>1. \A j \in InForce' : Bought(j)' <=> rows'[j].total # 0
      <4> TAKE j \in InForce'
      <4>1. rows' \in Seq(Subscription) /\ j \in DOMAIN rows'
        BY <1>1 DEF BillingInv, TypeOK, InForce
      <4>2. rows'[j] \in Subscription
        BY <4>1
      <4>3. rows'[j].total \in Nat
        BY <4>2 DEF Subscription
      <4> QED  BY <4>3 DEF Bought
    <3> QED  BY <2>2, <3>1 DEF Mixed, Bought
  <2>4. CASE \A i \in InForce : rows'[i].negotiated = rows[i].negotiated
    <3>1. rate' = rate
      BY <2>1, <2>4 DEF RateAfter, JustNegotiated
    <3>2. RatesKept(among)
      BY <1>2, <2>1, <3>1 DEF RateInv, RatesKept
    <3> QED  BY <2>1, <2>2, <2>3, <2>4, <3>2, RatesStep
  <2>5. ASSUME NEW x \in InForce, rows'[x].negotiated # rows[x].negotiated PROVE RatesKept(among)'
    <3>1. PICK price \in Prices \cup {None} : SetNegotiatedPrice(price)
      BY <2>1, <2>5, NegotiatedKept
    <3>2. /\ Pending = {} /\ \A s \in Sessions : session[s].pc # "buying"
          /\ rate' = JustNegotiated
      <4>1. JustNegotiated # {}
        BY <2>5 DEF JustNegotiated
      <4> QED  BY <2>1, <4>1 DEF RateAfter, At
    <3>3. InForce' = InForce /\ \E i \in InForce :
              /\ rows[i].negotiated # price /\ rows'[i].negotiated = price
              /\ \A j \in InForce : j # i => rows'[j].negotiated = rows[j].negotiated
      BY <2>1, <2>5, <3>1, PriceNegotiated
    <3>4. among = {price}
      BY <1>2, <3>2, <3>3 DEF JustNegotiated
    <3> QED  BY <2>1, <2>2, <2>3, <3>1, <3>2, <3>4, NegotiatedRates
  <2> QED  BY <2>1, <2>4, <2>5
<1>5. CASE ~(MCNext /\ part = "terms")
  <2>1. UNCHANGED vars /\ ~crossed /\ rate = rate' /\ part' = part
    BY <1>5 DEF MCNext, mcVars, vars
  <2>2. part = "terms" /\ RatesKept(among)
    BY <1>2, <2>1 DEF RateInv, RatesKept
  <2> QED  BY <2>1, <2>2 DEF RatesKept, Mixed, InForce, IsInForce, EffectiveEnd, Larger, Bought, End, Pending, vars
<1> QED  BY <1>4, <1>5

\* As long as no two requests cross and the rate is clear, what runs longest, and so what
\* is renewed or extended, has the price that was negotiated; and a discount promised
\* outlives whatever the published list becomes (billing/purchase.py, billing/discounts.py).
THEOREM BillingPromisedRatesStand == MCSpec => PromisedRatesStand
<1>1. MCInit => BillingInv /\ TermsInv /\ RateInv
  BY TermsStart DEF RateInv, MCInit
<1>2. BillingInv /\ TermsInv /\ RateInv => RenewalsKeepTheRate
  <2> SUFFICES ASSUME BillingInv, RateInv, rate # {}, ~crossed, NEW i \in Current(InForce)
               PROVE  Negotiated(i) \in rate
    BY DEF RenewalsKeepTheRate
  <2>1. PICK among : among = rate
    OBVIOUS
  <2>2. RatesKept(among)
    BY <2>1 DEF RateInv, RatesKept
  <2> QED  BY <2>1, <2>2, LongestHasTheRate
<1>3. BillingInv /\ TermsInv /\ [MCNext]_mcVars => BillingInv' /\ TermsInv'
  BY TermsNext
<1>4. \A months \in Months :
          promised[months] # Unset /\ promised'[months] = promised[months]
          /\ plan'.monthly = plan.monthly => Total(months)' = Total(months)
  BY DEF Total, DiscountFor
<1>5. MCSpec => []RenewalsKeepTheRate
  BY <1>1, <1>2, <1>3, RatesNext, PTL DEF MCSpec, mcVars
<1>6. PromisesStand
  BY <1>4, PTL DEF PromisesStand
<1> QED  BY <1>5, <1>6 DEF PromisedRatesStand

-----------------------------------------------------------------------------
(* The books.  A sum is counted: each taking is as many units as its        *)
(* amount, of which the first ones went back, and the reports of a window   *)
(* part one set of units, by day, by shop or by who collected them.        *)

Lower == {p \in Nat \X Nat : p[1] < p[2]}

LEMMA LowerIsWellFounded == IsWellFoundedOn(Lower, Nat)
<1>1. OpToRel(<, Nat) = Lower
  BY DEF OpToRel, Lower
<1> QED  BY <1>1, NatLessThanWellFounded

LEMMA LowestOf ==
  ASSUME NEW T \in SUBSET Nat, T # {}
  PROVE  \E m \in T : \A n \in T : ~(n < m)
<1>1. PICK m \in T : \A n \in T : ~(<<n, m>> \in Lower)
  <2>1. \E m \in T : \A n \in T : ~(<<n, m>> \in Lower)
    BY LowerIsWellFounded, WFMin
  <2> QED  BY <2>1
<1> QED  BY <1>1 DEF Lower

\* What of P has a key in x.
Part(P, key, x) == {p \in P : key[p] \in x}

\* sum adds up over K how much of P each key has.
AddsUp(sum, P, key, K) ==
    sum = [x \in SUBSET K |->
              IF x = {} THEN 0
              ELSE Cardinality(Part(P, key, {CHOOSE c \in x : TRUE})) + sum[x \ {CHOOSE c \in x : TRUE}]]

LEMMA PartSplits ==
  ASSUME NEW P, IsFiniteSet(P), NEW key, NEW x, NEW c \in x
  PROVE  Cardinality(Part(P, key, x))
            = Cardinality(Part(P, key, {c})) + Cardinality(Part(P, key, x \ {c}))
<1> DEFINE A == Part(P, key, {c})
           B == Part(P, key, x \ {c})
<1>1. A \in SUBSET P /\ B \in SUBSET P /\ A \cap B = {} /\ Part(P, key, x) = A \cup B
  BY DEF Part
<1> HIDE DEF A, B
<1>2. IsFiniteSet(A) /\ IsFiniteSet(B)
  BY <1>1, FS_Subset
<1>3. Cardinality(A \cup B) = Cardinality(A) + Cardinality(B) - Cardinality(A \cap B)
  BY <1>2, FS_Union
<1>4. Cardinality(A) \in Nat /\ Cardinality(B) \in Nat /\ Cardinality(A \cap B) = 0
  BY <1>1, <1>2, FS_CardinalityType, FS_EmptySet
<1>5. Cardinality(A \cup B) = Cardinality(A) + Cardinality(B)
  BY <1>3, <1>4
<1> QED  BY <1>1, <1>5 DEF A, B

\* A fold adds up to the number of what it counts.
LEMMA SumsCount ==
  ASSUME NEW P, IsFiniteSet(P), NEW key, NEW K, IsFiniteSet(K)
  PROVE  /\ \E sum : AddsUp(sum, P, key, K)
         /\ \A sum : AddsUp(sum, P, key, K) => sum[K] = Cardinality(Part(P, key, K))
<1> DEFINE count == [x \in SUBSET K |-> Cardinality(Part(P, key, x))]
<1>1. Part(P, key, {}) = {} /\ Cardinality({}) = 0
  BY FS_EmptySet DEF Part
<1>2. \A x \in SUBSET K :
          count[x] = IF x = {} THEN 0
                     ELSE Cardinality(Part(P, key, {CHOOSE c \in x : TRUE}))
                            + count[x \ {CHOOSE c \in x : TRUE}]
  <2>1. SUFFICES ASSUME NEW x \in SUBSET K, NEW c \in x
                 PROVE  count[x] = Cardinality(Part(P, key, {c})) + count[x \ {c}]
    BY <1>1
  <2>2. x \ {c} \in SUBSET K
    OBVIOUS
  <2> QED  BY <2>2, PartSplits
<1>3. count = [x \in SUBSET K |-> count[x]]
  OBVIOUS
<1> HIDE DEF count
<1>4. AddsUp(count, P, key, K)
  BY <1>2, <1>3 DEF AddsUp
<1>5. ASSUME NEW sum, AddsUp(sum, P, key, K)
      PROVE  sum[K] = count[K]
  <2>1. \A x \in SUBSET K :
          sum[x] = IF x = {} THEN 0
                   ELSE Cardinality(Part(P, key, {CHOOSE c \in x : TRUE}))
                          + sum[x \ {CHOOSE c \in x : TRUE}]
    BY <1>5 DEF AddsUp
  <2> DEFINE T == {n \in Nat : \E x \in SUBSET K : Cardinality(x) = n /\ sum[x] # count[x]}
  <2>2. \A x \in SUBSET K : IsFiniteSet(x) /\ Cardinality(x) \in Nat
    BY FS_Subset, FS_CardinalityType
  <2>3. T = {}
    <3>1. SUFFICES ASSUME T # {} PROVE FALSE
      OBVIOUS
    <3>2. PICK m \in T : \A n \in T : ~(n < m)
      <4> HIDE DEF T
      <4>1. T \in SUBSET Nat
        BY DEF T
      <4> QED  BY <3>1, <4>1, LowestOf
    <3>3. PICK x \in SUBSET K : Cardinality(x) = m /\ sum[x] # count[x]
      BY <3>2
    <3>4. x # {}
      BY <1>2, <2>1, <3>3
    <3>5. PICK c : c = CHOOSE d \in x : TRUE
      OBVIOUS
    <3>6. c \in x /\ x \ {c} \in SUBSET K
      BY <3>4, <3>5
    <3>7. /\ sum[x] = Cardinality(Part(P, key, {c})) + sum[x \ {c}]
          /\ count[x] = Cardinality(Part(P, key, {c})) + count[x \ {c}]
      BY <1>2, <2>1, <3>4, <3>5
    <3>8. Cardinality(x \ {c}) = m - 1 /\ m - 1 \in Nat
      <4>1. Cardinality(x \ {c}) = Cardinality(x) - 1 /\ Cardinality(x \ {c}) \in Nat
        BY <2>2, <3>6, FS_RemoveElement
      <4> QED  BY <3>3, <4>1
    <3>9. sum[x \ {c}] = count[x \ {c}]
      BY <3>2, <3>6, <3>8
    <3> QED  BY <3>3, <3>7, <3>9
  <2> QED  BY <2>2, <2>3
<1>6. count[K] = Cardinality(Part(P, key, K))
  BY DEF count
<1> QED  BY <1>4, <1>5, <1>6

\* A payment of f[i] is f[i] units.
Units(S, f) == {p \in S \X Nat : p[2] \in 1..f[p[1]]}

LEMMA UnitsAreFinite ==
  ASSUME NEW S, IsFiniteSet(S), NEW f, \A i \in S : f[i] \in Nat
  PROVE  IsFiniteSet(Units(S, f))
<1> DEFINE row(i) == {i} \X (1..f[i])
           rows_ == [i \in S |-> row(i)]
           all == {row(i) : i \in S}
<1>1. \A i \in S : IsFiniteSet(row(i))
  <2>1. TAKE i \in S
  <2>2. IsFiniteSet({i})
    BY FS_Singleton
  <2>3. 1 \in Int /\ f[i] \in Int
    OBVIOUS
  <2>4. IsFiniteSet(1..f[i])
    BY <2>3, FS_Interval
  <2> QED  BY <2>2, <2>4, FS_Product
<1>2. rows_ \in Surjection(S, all)
  BY DEF Surjection
<1>3. IsFiniteSet(all)
  <2> HIDE DEF rows_, all
  <2> QED  BY <1>2, FS_Surjection
<1>4. IsFiniteSet(UNION all)
  <2>1. \A x \in all : IsFiniteSet(x)
    BY <1>1
  <2> HIDE DEF all
  <2> QED  BY <1>3, <2>1, FS_UNION
<1>5. Units(S, f) \in SUBSET (UNION all)
  BY DEF Units
<1> HIDE DEF all
<1> QED  BY <1>4, <1>5, FS_Subset

LEMMA UnitsOfOne ==
  ASSUME NEW S, NEW f, NEW i \in S, f[i] \in Nat
  PROVE  Cardinality(Part(Units(S, f), [p \in Units(S, f) |-> p[1]], {i})) = f[i]
<1> DEFINE one == {i} \X (1..f[i])
<1>1. Part(Units(S, f), [p \in Units(S, f) |-> p[1]], {i}) = one
  BY DEF Part, Units
<1>2. /\ IsFiniteSet({i}) /\ Cardinality({i}) = 1
      /\ IsFiniteSet(1..f[i]) /\ Cardinality(1..f[i]) = f[i]
  <2>1. IsFiniteSet({i}) /\ Cardinality({i}) = 1
    BY FS_Singleton
  <2>2. 1 \in Int /\ f[i] \in Int
    OBVIOUS
  <2>3. IsFiniteSet(1..f[i]) /\ Cardinality(1..f[i]) = f[i]
    BY <2>2, FS_Interval
  <2> QED  BY <2>1, <2>3
<1>3. Cardinality(one) = 1 * f[i]
  BY <1>2, FS_Product, SMTT(30)
<1> HIDE DEF one
<1>4. Cardinality(one) = f[i]
  BY <1>3
<1> QED  BY <1>1, <1>4

LEMMA AmountsAdd ==
  ASSUME NEW S, IsFiniteSet(S), NEW row, NEW f, \A i \in S : f[i] \in Nat
  PROVE  /\ (\A i \in S : row[i].amount = f[i]) =>
                MapThenSumSet(LAMBDA i : row[i].amount, S) = Cardinality(Units(S, f))
         /\ (\A i \in S : row[i].refunded = f[i]) =>
                MapThenSumSet(LAMBDA i : row[i].refunded, S) = Cardinality(Units(S, f))
<1> DEFINE P == Units(S, f)
           key == [p \in P |-> p[1]]
<1>1. IsFiniteSet(P)
  BY UnitsAreFinite
<1>2. Part(P, key, S) = P
  BY DEF Part, Units
<1>3. \A i \in S : Cardinality(Part(P, key, {i})) = f[i]
  BY UnitsOfOne
<1> HIDE DEF P, key
<1>4. \A x \in SUBSET S : x # {} => (CHOOSE c \in x : TRUE) \in S
  OBVIOUS
<1>5. ASSUME \A i \in S : row[i].amount = f[i]
      PROVE  MapThenSumSet(LAMBDA i : row[i].amount, S) = Cardinality(P)
  <2> DEFINE Iter(g) == g = [x \in SUBSET S |->
                               IF x = {} THEN 0
                               ELSE row[CHOOSE c \in x : TRUE].amount + g[x \ {CHOOSE c \in x : TRUE}]]
             sum == CHOOSE g : Iter(g)
  <2>1. MapThenSumSet(LAMBDA i : row[i].amount, S) = sum[S]
    BY DEF MapThenSumSet, MapThenFoldSet
  <2>2. \A g : Iter(g) <=> AddsUp(g, P, key, S)
    <3>1. TAKE g
    <3>2. \A x \in SUBSET S : x # {} =>
              row[CHOOSE c \in x : TRUE].amount
                  = Cardinality(Part(P, key, {CHOOSE c \in x : TRUE}))
      BY <1>3, <1>4, <1>5
    <3>3. [x \in SUBSET S |->
              IF x = {} THEN 0
              ELSE row[CHOOSE c \in x : TRUE].amount + g[x \ {CHOOSE c \in x : TRUE}]]
          = [x \in SUBSET S |->
              IF x = {} THEN 0
              ELSE Cardinality(Part(P, key, {CHOOSE c \in x : TRUE})) + g[x \ {CHOOSE c \in x : TRUE}]]
      BY <3>2
    <3> QED  BY <3>3, Zenon DEF AddsUp
  <2>3. \E g : Iter(g)
    <3>1. PICK g : AddsUp(g, P, key, S)
      BY <1>1, SumsCount
    <3> HIDE DEF Iter
    <3> QED  BY <2>2, <3>1
  <2>4. Iter(sum)
    <3> HIDE DEF Iter
    <3> QED  BY <2>3, Zenon
  <2> HIDE DEF sum, Iter
  <2> QED  BY <1>1, <1>2, <2>1, <2>2, <2>4, SumsCount
<1>6. ASSUME \A i \in S : row[i].refunded = f[i]
      PROVE  MapThenSumSet(LAMBDA i : row[i].refunded, S) = Cardinality(P)
  <2> DEFINE Iter(g) == g = [x \in SUBSET S |->
                               IF x = {} THEN 0
                               ELSE row[CHOOSE c \in x : TRUE].refunded + g[x \ {CHOOSE c \in x : TRUE}]]
             sum == CHOOSE g : Iter(g)
  <2>1. MapThenSumSet(LAMBDA i : row[i].refunded, S) = sum[S]
    BY DEF MapThenSumSet, MapThenFoldSet
  <2>2. \A g : Iter(g) <=> AddsUp(g, P, key, S)
    <3>1. TAKE g
    <3>2. \A x \in SUBSET S : x # {} =>
              row[CHOOSE c \in x : TRUE].refunded
                  = Cardinality(Part(P, key, {CHOOSE c \in x : TRUE}))
      BY <1>3, <1>4, <1>6
    <3>3. [x \in SUBSET S |->
              IF x = {} THEN 0
              ELSE row[CHOOSE c \in x : TRUE].refunded + g[x \ {CHOOSE c \in x : TRUE}]]
          = [x \in SUBSET S |->
              IF x = {} THEN 0
              ELSE Cardinality(Part(P, key, {CHOOSE c \in x : TRUE})) + g[x \ {CHOOSE c \in x : TRUE}]]
      BY <3>2
    <3> QED  BY <3>3, Zenon DEF AddsUp
  <2>3. \E g : Iter(g)
    <3>1. PICK g : AddsUp(g, P, key, S)
      BY <1>1, SumsCount
    <3> HIDE DEF Iter
    <3> QED  BY <2>2, <3>1
  <2>4. Iter(sum)
    <3> HIDE DEF Iter
    <3> QED  BY <2>3, Zenon
  <2> HIDE DEF sum, Iter
  <2> QED  BY <1>1, <1>2, <2>1, <2>2, <2>4, SumsCount
<1> QED  BY <1>5, <1>6 DEF P

LEMMA ReportsAdd ==
  ASSUME NEW P, IsFiniteSet(P), NEW key, NEW reports, IsFiniteSet(DOMAIN reports),
         \A c \in DOMAIN reports : reports[c].net = Cardinality(Part(P, key, {c}))
  PROVE  SumOf(reports) = Cardinality(Part(P, key, DOMAIN reports))
<1> DEFINE S == DOMAIN reports
           Iter(g) == g = [x \in SUBSET S |->
                             IF x = {} THEN 0
                             ELSE reports[CHOOSE c \in x : TRUE].net + g[x \ {CHOOSE c \in x : TRUE}]]
           sum == CHOOSE g : Iter(g)
<1>1. SumOf(reports) = sum[S]
  BY DEF SumOf, MapThenSumSet, MapThenFoldSet
<1>2. \A g : Iter(g) <=> AddsUp(g, P, key, S)
  <2>1. TAKE g
  <2>2. \A x \in SUBSET S : x # {} => (CHOOSE c \in x : TRUE) \in S
    OBVIOUS
  <2>3. \A x \in SUBSET S : x # {} =>
            reports[CHOOSE c \in x : TRUE].net = Cardinality(Part(P, key, {CHOOSE c \in x : TRUE}))
    BY <2>2
  <2>4. [x \in SUBSET S |->
            IF x = {} THEN 0
            ELSE reports[CHOOSE c \in x : TRUE].net + g[x \ {CHOOSE c \in x : TRUE}]]
        = [x \in SUBSET S |->
            IF x = {} THEN 0
            ELSE Cardinality(Part(P, key, {CHOOSE c \in x : TRUE})) + g[x \ {CHOOSE c \in x : TRUE}]]
    BY <2>3
  <2> QED  BY <2>4, Zenon DEF AddsUp
<1>3. \E g : Iter(g)
  <2>1. PICK g : AddsUp(g, P, key, S)
    BY SumsCount
  <2> HIDE DEF Iter
  <2> QED  BY <1>2, <2>1
<1>4. Iter(sum)
  <2> HIDE DEF Iter
  <2> QED  BY <1>3, Zenon
<1>5. AddsUp(sum, P, key, S)
  <2> HIDE DEF Iter, sum
  <2> QED  BY <1>2, <1>4
<1>6. sum[S] = Cardinality(Part(P, key, S))
  <2> HIDE DEF Iter, sum
  <2> QED  BY <1>5, SumsCount
<1> QED  BY <1>1, <1>6

\* No more goes back than was taken, and a print is sold by a shop.
BooksInv ==
    /\ EarningsTypeOK
    /\ \A i \in DOMAIN takings :
          /\ takings[i].refunded <= takings[i].amount
          /\ takings[i].kind = "print_order" => takings[i].kiosk \in Kiosks

\* The units of sales that were kept.
Kept(sales) ==
    {p \in sales \X Nat : p[2] \in (takings[p[1]].refunded + 1)..takings[p[1]].amount}

LEMMA TakingFields ==
  ASSUME BooksInv
  PROVE  /\ DOMAIN takings = 1..Len(takings) /\ Len(takings) \in Nat
         /\ IsFiniteSet(DOMAIN takings)
         /\ clock \in 0..LastInstant /\ LastInstant \in Nat
         /\ \A i \in DOMAIN takings :
              /\ takings[i] \in Taking /\ takings[i].amount \in Nat /\ takings[i].refunded \in Nat
              /\ takings[i].refunded <= takings[i].amount
              /\ takings[i].captured_at \in Nat /\ takings[i].paid_at \in Nat
<1>1. takings \in Seq(Taking) /\ clock \in 0..LastInstant /\ LastInstant \in Nat
  BY EarningsAssumption DEF BooksInv, EarningsTypeOK
<1>2. DOMAIN takings = 1..Len(takings) /\ Len(takings) \in Nat
  BY <1>1
<1>3. \A i \in DOMAIN takings : takings[i] \in Taking
  BY <1>1
<1>4. IsFiniteSet(1..Len(takings))
  BY <1>2, FS_Interval
<1> QED  BY <1>1, <1>2, <1>3, <1>4 DEF BooksInv, Taking

\* A report's net figure is the number of units that were kept.
LEMMA NetsCount ==
  ASSUME BooksInv, NEW sales \in SUBSET (DOMAIN takings)
  PROVE  /\ IsFiniteSet(Kept(sales)) /\ Cardinality(Kept(sales)) \in Nat
         /\ Earned(sales).net = Cardinality(Kept(sales))
<1> DEFINE f == [i \in DOMAIN takings |-> takings[i].amount]
           g == [i \in DOMAIN takings |-> takings[i].refunded]
<1>1. IsFiniteSet(sales)
  BY TakingFields, FS_Subset
<1>2. \A i \in sales : /\ f[i] = takings[i].amount /\ g[i] = takings[i].refunded
                       /\ f[i] \in Nat /\ g[i] \in Nat /\ g[i] <= f[i]
  BY TakingFields
<1> HIDE DEF f, g
<1>3. /\ MapThenSumSet(LAMBDA i : takings[i].amount, sales) = Cardinality(Units(sales, f))
      /\ MapThenSumSet(LAMBDA i : takings[i].refunded, sales) = Cardinality(Units(sales, g))
  BY <1>1, <1>2, AmountsAdd
<1>4. IsFiniteSet(Units(sales, f)) /\ IsFiniteSet(Units(sales, g))
  BY <1>1, <1>2, UnitsAreFinite
<1>5. Units(sales, g) \in SUBSET Units(sales, f)
  BY <1>2 DEF Units
<1>6. Kept(sales) = Units(sales, f) \ Units(sales, g)
  BY <1>2 DEF Units, Kept
<1>7. /\ IsFiniteSet(Kept(sales))
      /\ Cardinality(Kept(sales))
           = Cardinality(Units(sales, f)) - Cardinality(Units(sales, f) \cap Units(sales, g))
  BY <1>4, <1>6, FS_Difference
<1>8. Units(sales, f) \cap Units(sales, g) = Units(sales, g)
  BY <1>5
<1>9. Earned(sales).net = Cardinality(Units(sales, f)) - Cardinality(Units(sales, g))
  BY <1>3 DEF Earned
<1> QED  BY <1>7, <1>8, <1>9, FS_CardinalityType

\* Sales parted by what key says of each: the reports of the parts add up to the whole.
LEMMA PartsAdd ==
  ASSUME BooksInv, NEW sales \in SUBSET (DOMAIN takings), NEW of,
         NEW reports, IsFiniteSet(DOMAIN reports), \A i \in sales : of[i] \in DOMAIN reports,
         \A c \in DOMAIN reports : reports[c] = Earned({i \in sales : of[i] = c})
  PROVE  SumOf(reports) = Earned(sales).net
<1> DEFINE P == Kept(sales)
           key == [p \in P |-> of[p[1]]]
<1>1. \A c \in DOMAIN reports : reports[c].net = Cardinality(Part(P, key, {c}))
  <2>1. TAKE c \in DOMAIN reports
  <2>2. Part(P, key, {c}) = Kept({i \in sales : of[i] = c})
    BY DEF Part, Kept
  <2>3. {i \in sales : of[i] = c} \in SUBSET (DOMAIN takings)
    OBVIOUS
  <2> QED  BY <2>2, <2>3, NetsCount
<1>2. Part(P, key, DOMAIN reports) = P
  BY DEF Part, Kept
<1>3. IsFiniteSet(P) /\ Earned(sales).net = Cardinality(P)
  BY NetsCount
<1> HIDE DEF P, key
<1>4. SumOf(reports) = Cardinality(Part(P, key, DOMAIN reports))
  BY <1>1, <1>3, ReportsAdd
<1> QED  BY <1>2, <1>3, <1>4

\* Days follow instants.
LEMMA DaysFollow ==
  /\ \A t \in Nat : DayOf(t) \in Nat
  /\ \A t, u \in Nat : t <= u => DayOf(t) <= DayOf(u)
<1>1. DayLength \in Nat \ {0} /\ ZoneShift \in Nat
  BY EarningsAssumption
<1>2. ASSUME NEW t \in Nat
      PROVE  /\ DayOf(t) \in Nat
             /\ DayLength * DayOf(t) <= t + ZoneShift /\ t + ZoneShift < DayLength * (DayOf(t) + 1)
  BY <1>1 DEF DayOf
<1>3. ASSUME NEW t \in Nat, NEW u \in Nat, t <= u, DayOf(u) < DayOf(t) PROVE FALSE
  <2>1. DayOf(t) \in Nat /\ DayOf(u) \in Nat /\ DayOf(u) + 1 <= DayOf(t)
    BY <1>2, <1>3
  <2>2. DayLength * (DayOf(u) + 1) <= DayLength * DayOf(t)
    BY <1>1, <2>1
  <2>3. u + ZoneShift < DayLength * (DayOf(u) + 1) /\ DayLength * DayOf(t) <= t + ZoneShift
    BY <1>2
  <2>4. DayLength * (DayOf(u) + 1) \in Nat /\ DayLength * DayOf(t) \in Nat
    BY <1>1, <2>1
  <2> QED  BY <1>1, <1>3, <2>2, <2>3, <2>4
<1> QED  BY <1>2, <1>3

\* The first and the last of some days.
LEMMA DaysHaveEnds ==
  ASSUME NEW days \in SUBSET Nat, days # {}, NEW n \in Nat, \A d \in days : d <= n
  PROVE  /\ Min(days) \in days /\ Max(days) \in days
         /\ \A d \in days : Min(days) <= d /\ d <= Max(days)
<1>1. \E m \in days : \A d \in days : m <= d
  <2>1. PICK m \in days : \A d \in days : ~(d < m)
    BY LowestOf
  <2> QED  BY <2>1
<1>2. \E m \in days : \A d \in days : m >= d
  <2> DEFINE T == {n - d : d \in days}
  <2>1. T \in SUBSET Nat /\ T # {}
    <3>1. PICK e \in days : TRUE
      OBVIOUS
    <3>2. \A d \in days : n - d \in Nat
      OBVIOUS
    <3> QED  BY <3>1, <3>2
  <2>2. PICK m \in T : \A k \in T : ~(k < m)
    <3> HIDE DEF T
    <3> QED  BY <2>1, LowestOf
  <2>3. PICK e \in days : m = n - e
    BY <2>2
  <2>4. \A d \in days : ~(n - d < n - e)
    BY <2>2, <2>3
  <2> QED  BY <2>4
<1>3. Min(days) \in days /\ \A d \in days : Min(days) <= d
  BY <1>1, Zenon DEF Min
<1>4. Max(days) \in days /\ \A d \in days : Max(days) >= d
  BY <1>2, Zenon DEF Max
<1> QED  BY <1>3, <1>4

LEMMA ShopsAddUp ==
  ASSUME BooksInv, NEW window
  PROVE  SumOf(EarningsByKiosk(Kiosks, window)) = EarningsForKiosks(Kiosks, window).net
<1> DEFINE sales == Sold(Kiosks, window)
           of == [i \in DOMAIN takings |-> takings[i].kiosk]
           reports == EarningsByKiosk(Kiosks, window)
<1>1. sales \in SUBSET (DOMAIN takings)
  BY DEF Sold, Settled
<1>2. DOMAIN reports = Kiosks /\ IsFiniteSet(Kiosks)
  BY EarningsAssumption DEF EarningsByKiosk
<1>3. \A i \in sales : of[i] \in DOMAIN reports
  BY <1>1, <1>2 DEF Sold
<1>4. ASSUME NEW c \in DOMAIN reports
      PROVE  reports[c] = Earned({i \in sales : of[i] = c})
  <2>1. Sold({c}, window) = {i \in sales : of[i] = c}
    BY <1>1, <1>2, <1>4 DEF Sold
  <2> QED  BY <1>2, <2>1 DEF EarningsByKiosk
<1> HIDE DEF sales, of, reports
<1>5. SumOf(reports) = Earned(sales).net
  BY <1>1, <1>2, <1>3, <1>4, PartsAdd
<1> QED  BY <1>5 DEF sales, reports, EarningsForKiosks

LEMMA DaysAddUp ==
  ASSUME BooksInv, NEW window \in SUBSET (0..LastInstant)
  PROVE  SumOf(EarningsByDay(Kiosks, window)) = EarningsForKiosks(Kiosks, window).net
<1> DEFINE sales == Sold(Kiosks, window)
           of == [i \in DOMAIN takings |-> DayOf(takings[i].captured_at)]
           days == {DayOf(takings[i].captured_at) : i \in sales}
           series == IF days = {} THEN {} ELSE Min(days)..Max(days)
           reports == EarningsByDay(Kiosks, window)
<1>1. sales \in SUBSET (DOMAIN takings)
  BY DEF Sold, Settled
<1>2. /\ reports = [d \in series |-> Earned({i \in sales : DayOf(takings[i].captured_at) = d})]
      /\ DOMAIN reports = series
  BY DEF EarningsByDay
<1>3. ASSUME NEW d \in series
      PROVE  reports[d] = Earned({i \in sales : of[i] = d})
  <2>1. {i \in sales : DayOf(takings[i].captured_at) = d} = {i \in sales : of[i] = d}
    BY <1>1
  <2> HIDE DEF series, sales, of, days
  <2> QED  BY <1>2, <2>1
<1>4. \A i \in DOMAIN takings : of[i] \in Nat
  BY TakingFields, DaysFollow
<1>5. IsFiniteSet(series) /\ \A d \in days : d \in series
  <2>1. CASE days = {}
    BY <2>1, FS_EmptySet
  <2>2. CASE days # {}
    <3>1. days \in SUBSET Nat
      BY <1>1, <1>4
    <3>2. DayOf(LastInstant) \in Nat /\ \A d \in days : d <= DayOf(LastInstant)
      <4>1. LastInstant \in Nat
        BY TakingFields
      <4>2. \A i \in sales : takings[i].captured_at \in Nat /\ takings[i].captured_at <= LastInstant
        BY <1>1, <4>1, TakingFields DEF Sold, Settled
      <4> QED  BY <4>1, <4>2, DaysFollow
    <3> HIDE DEF days
    <3>3. /\ Min(days) \in days /\ Max(days) \in days
          /\ \A d \in days : Min(days) <= d /\ d <= Max(days)
      BY <2>2, <3>1, <3>2, DaysHaveEnds
    <3>4. PICK lo, hi : lo = Min(days) /\ hi = Max(days)
      OBVIOUS
    <3>5. /\ series = lo..hi /\ lo \in days /\ hi \in days
          /\ \A d \in days : lo <= d /\ d <= hi
      BY <2>2, <3>3, <3>4, Zenon
    <3> HIDE DEF series
    <3>6. lo \in Int /\ hi \in Int /\ \A d \in days : d \in Int
      BY <3>1, <3>5
    <3>7. IsFiniteSet(lo..hi)
      BY <3>6, FS_Interval
    <3> QED  BY <3>5, <3>6, <3>7
  <2> QED  BY <2>1, <2>2
<1>6. \A i \in sales : of[i] \in DOMAIN reports
  BY <1>1, <1>2, <1>5
<1> HIDE DEF sales, of, series, days, reports
<1>7. SumOf(reports) = Earned(sales).net
  BY <1>1, <1>2, <1>3, <1>5, <1>6, PartsAdd
<1> QED  BY <1>7 DEF sales, reports, EarningsForKiosks

LEMMA BucketsAddUp ==
  ASSUME BooksInv, NEW window
  PROVE  PlatformRevenue(window).print_platform.net + PlatformRevenue(window).print_owners.net
            = EarningsForKiosks(Kiosks, window).net
<1> DEFINE sales == Sold(Kiosks, window)
           bucket(owner) == {i \in Settled(window) :
                               takings[i].kind = "print_order" /\ (takings[i].source = "owner_gateway") = owner}
           A == bucket(FALSE)
           B == bucket(TRUE)
<1>1. /\ PlatformRevenue(window).print_platform = Earned(A)
      /\ PlatformRevenue(window).print_owners = Earned(B)
  BY DEF PlatformRevenue
<1>2. A \in SUBSET (DOMAIN takings) /\ B \in SUBSET (DOMAIN takings) /\ sales \in SUBSET (DOMAIN takings)
  BY DEF Sold, Settled
<1>3. sales = A \cup B /\ A \cap B = {}
  BY DEF Sold, Settled, BooksInv
<1> HIDE DEF sales, bucket, A, B
<1>4. Kept(sales) = Kept(A) \cup Kept(B) /\ Kept(A) \cap Kept(B) = {}
  BY <1>3 DEF Kept
<1>5. /\ IsFiniteSet(Kept(A)) /\ Cardinality(Kept(A)) \in Nat /\ Earned(A).net = Cardinality(Kept(A))
      /\ IsFiniteSet(Kept(B)) /\ Cardinality(Kept(B)) \in Nat /\ Earned(B).net = Cardinality(Kept(B))
      /\ Earned(sales).net = Cardinality(Kept(sales))
  BY <1>2, NetsCount
<1>6. Cardinality(Kept(A) \cup Kept(B))
        = Cardinality(Kept(A)) + Cardinality(Kept(B)) - Cardinality(Kept(A) \cap Kept(B))
  BY <1>5, FS_Union
<1>7. Cardinality(Kept(A) \cap Kept(B)) = 0
  BY <1>4, FS_EmptySet
<1>8. Earned(sales).net = Earned(A).net + Earned(B).net
  BY <1>4, <1>5, <1>6, <1>7
<1> QED  BY <1>1, <1>8 DEF EarningsForKiosks, sales

LEMMA BarsAreDays ==
  ASSUME BooksInv, NEW window, NEW d \in DOMAIN EarningsByDay(Kiosks, window), TheDay(d) \subseteq window,
         window \subseteq 0..LastInstant
  PROVE  EarningsByDay(Kiosks, window)[d] = EarningsForKiosks(Kiosks, TheDay(d))
<1>1. EarningsByDay(Kiosks, window)[d]
        = Earned({i \in Sold(Kiosks, window) : DayOf(takings[i].captured_at) = d})
  BY DEF EarningsByDay
<1>2. {i \in Sold(Kiosks, window) : DayOf(takings[i].captured_at) = d} = Sold(Kiosks, TheDay(d))
  BY DEF Sold, Settled, TheDay
<1> QED  BY <1>1, <1>2 DEF EarningsForKiosks

LEMMA WindowsAreInstants == \A window \in Windows : window \in SUBSET (0..LastInstant)
<1>1. LastInstant \in Nat
  BY EarningsAssumption
<1> QED  BY <1>1 DEF Windows

LEMMA BooksAgree == BooksInv => ReportsAgree
<1>1. SUFFICES ASSUME BooksInv, NEW window \in Windows
               PROVE  LET total == EarningsForKiosks(Kiosks, window)
                          days == EarningsByDay(Kiosks, window)
                          platform == PlatformRevenue(window)
                      IN /\ SumOf(days) = total.net /\ SumOf(EarningsByKiosk(Kiosks, window)) = total.net
                         /\ platform.print_platform.net + platform.print_owners.net = total.net
                         /\ \A d \in DOMAIN days : TheDay(d) \subseteq window =>
                              days[d] = EarningsForKiosks(Kiosks, TheDay(d))
  BY DEF ReportsAgree
<1>2. window \in SUBSET (0..LastInstant)
  BY WindowsAreInstants
<1> QED  BY <1>1, <1>2, DaysAddUp, ShopsAddUp, BucketsAddUp, BarsAreDays

LEMMA ExportAgrees == BooksInv => ExportReconcilesUnlessParted
<1>1. SUFFICES ASSUME BooksInv, NEW k \in Kiosks, NEW window, PartsNothing(window),
                      \A i \in PaidOrders(k, window) : takings[i].status # "failed"
               PROVE  ExportReconciles(k, window)
  BY DEF ExportReconcilesUnlessParted
<1>2. PaidOrders(k, window) = Sold({k}, window)
  <2>1. \A i \in DOMAIN takings : takings[i].status \in SETTLED_PAYMENT_STATES \cup {"failed"}
    BY <1>1, TakingFields DEF Taking
  <2> QED  BY <1>1, <2>1 DEF PaidOrders, Sold, Settled, PartsNothing, SETTLED_PAYMENT_STATES
<1> QED  BY <1>2 DEF ExportReconciles, EarningsForKiosks, Earned

LEMMA BooksStart == EarningsInit => BooksInv
<1>1. SUFFICES ASSUME EarningsInit PROVE BooksInv
  OBVIOUS
<1>2. takings = <<>> /\ DOMAIN takings = {} /\ takings \in Seq(Taking)
  BY <1>1 DEF EarningsInit
<1>3. clock \in 0..LastInstant
  BY <1>1, EarningsAssumption DEF EarningsInit
<1> QED  BY <1>2, <1>3 DEF BooksInv, EarningsTypeOK

\* A payment that is taken, a row that changes.
LEMMA BooksGrow ==
  ASSUME BooksInv, NEW kind \in Kinds, NEW k \in Kiosks \cup {"none"}, NEW source \in Sources,
         NEW amount \in Amounts, NEW sold \in Nat, Taken(kind, k, source, amount, sold),
         kind = "print_order" => k \in Kiosks, clock' \in 0..LastInstant
  PROVE  /\ BooksInv' /\ Len(takings') = Len(takings) + 1
         /\ \A i \in DOMAIN takings : takings'[i] = takings[i]
         /\ takings'[Len(takings) + 1].captured_at = clock
<1> DEFINE row == [kind |-> kind, kiosk |-> k, source |-> source, amount |-> amount,
                   refunded |-> 0, captured_at |-> clock, paid_at |-> sold, status |-> "captured"]
<1>1. takings \in Seq(Taking) /\ takings' = Append(takings, row)
  BY DEF Taken, BooksInv, EarningsTypeOK
<1>2. row \in Taking
  <2>1. amount \in Nat \ {0}
    BY EarningsAssumption
  <2> QED  BY <2>1, TakingFields DEF Taking, SETTLED_PAYMENT_STATES
<1>3. row.refunded <= row.amount /\ (row.kind = "print_order" => row.kiosk \in Kiosks) /\ row.captured_at = clock
  BY EarningsAssumption
<1> HIDE DEF row
<1>4. /\ takings' \in Seq(Taking) /\ Len(takings') = Len(takings) + 1 /\ takings'[Len(takings) + 1] = row
      /\ DOMAIN takings' = DOMAIN takings \cup {Len(takings) + 1}
      /\ \A i \in DOMAIN takings : takings'[i] = takings[i]
  BY <1>1, <1>2, AppendProperties
<1> QED  BY <1>3, <1>4 DEF BooksInv, EarningsTypeOK

LEMMA BooksChange ==
  ASSUME BooksInv, NEW i \in DOMAIN takings, NEW row \in Taking, Becomes(i, row),
         row.refunded <= row.amount, row.kind = takings[i].kind, row.kiosk = takings[i].kiosk
  PROVE  /\ BooksInv' /\ DOMAIN takings' = DOMAIN takings /\ takings'[i] = row
         /\ \A j \in DOMAIN takings : j # i => takings'[j] = takings[j]
<1>1. /\ takings' \in Seq(Taking) /\ DOMAIN takings' = DOMAIN takings /\ takings'[i] = row
      /\ \A j \in DOMAIN takings : j # i => takings'[j] = takings[j]
      /\ clock' = clock
  BY DEF Becomes, BooksInv, EarningsTypeOK
<1> QED  BY <1>1 DEF BooksInv, EarningsTypeOK

\* What a refund, a late failure and a late capture write.
LEMMA RowsWritten ==
  ASSUME BooksInv, NEW i \in DOMAIN takings
  PROVE  /\ \A n \in 1..takings[i].amount : GiveBack(i, n) =>
              \E row \in Taking :
                 /\ Becomes(i, row) /\ row.refunded <= row.amount
                 /\ row.kind = takings[i].kind /\ row.kiosk = takings[i].kiosk
                 /\ row.amount = takings[i].amount /\ row.captured_at = takings[i].captured_at
                 /\ row.status \in SETTLED_PAYMENT_STATES /\ takings[i].status \in SETTLED_PAYMENT_STATES
         /\ FailLate(i) \/ CaptureLate(i) =>
              \E row \in Taking :
                 /\ Becomes(i, row) /\ row.refunded <= row.amount
                 /\ row.kind = takings[i].kind /\ row.kiosk = takings[i].kiosk
<1>1. takings[i] \in Taking /\ takings[i].refunded \in Nat /\ takings[i].amount \in Nat
      /\ takings[i].refunded <= takings[i].amount /\ clock \in Nat
  BY TakingFields
<1>2. ASSUME NEW n \in 1..takings[i].amount, GiveBack(i, n)
      PROVE  \E row \in Taking :
                 /\ Becomes(i, row) /\ row.refunded <= row.amount
                 /\ row.kind = takings[i].kind /\ row.kiosk = takings[i].kiosk
                 /\ row.amount = takings[i].amount /\ row.captured_at = takings[i].captured_at
                 /\ row.status \in SETTLED_PAYMENT_STATES /\ takings[i].status \in SETTLED_PAYMENT_STATES
  <2>1. PICK back : back = takings[i].refunded + n
    OBVIOUS
  <2>2. PICK status : status = IF back >= takings[i].amount THEN "refunded" ELSE "partially_refunded"
    OBVIOUS
  <2>3. PICK row : row = [takings[i] EXCEPT !.refunded = back, !.status = status]
    OBVIOUS
  <2>4. Becomes(i, row) /\ back <= takings[i].amount /\ takings[i].status \in {"captured", "partially_refunded"}
    BY <1>2, <2>1, <2>2, <2>3 DEF GiveBack
  <2>5. back \in Nat /\ status \in SETTLED_PAYMENT_STATES
    BY <1>1, <1>2, <2>1, <2>2 DEF SETTLED_PAYMENT_STATES
  <2>6. /\ row \in Taking /\ row.refunded = back /\ row.status = status
        /\ row.kind = takings[i].kind /\ row.kiosk = takings[i].kiosk
        /\ row.amount = takings[i].amount /\ row.captured_at = takings[i].captured_at
    BY <1>1, <2>3, <2>5 DEF Taking
  <2> QED  BY <2>4, <2>5, <2>6 DEF SETTLED_PAYMENT_STATES
<1>3. ASSUME FailLate(i) \/ CaptureLate(i)
      PROVE  \E row \in Taking :
                 /\ Becomes(i, row) /\ row.refunded <= row.amount
                 /\ row.kind = takings[i].kind /\ row.kiosk = takings[i].kiosk
  <2>1. CASE FailLate(i)
    <3>1. PICK row : row = [takings[i] EXCEPT !.status = "failed"]
      OBVIOUS
    <3>2. /\ row \in Taking /\ row.refunded = takings[i].refunded /\ row.amount = takings[i].amount
          /\ row.kind = takings[i].kind /\ row.kiosk = takings[i].kiosk
      BY <1>1, <3>1 DEF Taking
    <3> QED  BY <1>1, <2>1, <3>1, <3>2 DEF FailLate
  <2>2. CASE CaptureLate(i)
    <3>1. PICK row : row = [takings[i] EXCEPT !.status = "captured", !.captured_at = clock]
      OBVIOUS
    <3>2. /\ row \in Taking /\ row.refunded = takings[i].refunded /\ row.amount = takings[i].amount
          /\ row.kind = takings[i].kind /\ row.kiosk = takings[i].kiosk
      BY <1>1, <3>1 DEF Taking, SETTLED_PAYMENT_STATES
    <3> QED  BY <1>1, <2>2, <3>1, <3>2 DEF CaptureLate
  <2> QED  BY <1>3, <2>1, <2>2
<1> QED  BY <1>2, <1>3

\* For a shop the same is on row i as before.
SameSale(i) ==
    /\ i \in DOMAIN takings' /\ takings'[i].kind = takings[i].kind
    /\ takings[i].kind = "print_order" =>
          /\ takings'[i].kiosk = takings[i].kiosk /\ takings'[i].amount = takings[i].amount
          /\ takings'[i].captured_at = takings[i].captured_at
          /\ takings'[i].status \in SETTLED_PAYMENT_STATES <=> takings[i].status \in SETTLED_PAYMENT_STATES

\* Only instants to come can be added to.
LEMMA PastIsKept ==
  ASSUME BooksInv, clock' = clock, \A i \in DOMAIN takings : SameSale(i),
         \A i \in DOMAIN takings' \ DOMAIN takings : takings'[i].captured_at = clock
  PROVE  PastTakings' = PastTakings
<1>1. SUFFICES ASSUME NEW k \in Kiosks
               PROVE  EarningsForKiosks({k}, 0..(clock - 1))'.gross = EarningsForKiosks({k}, 0..(clock - 1)).gross
  BY DEF PastTakings
<1> DEFINE S == Sold({k}, 0..(clock - 1))
<1>2. PICK new : new = takings'
  OBVIOUS
<1>3. clock \in Nat /\ ~(clock \in 0..(clock - 1))
  BY TakingFields
<1>4. S' = {i \in DOMAIN takings' :
              /\ takings'[i].status \in SETTLED_PAYMENT_STATES /\ takings'[i].captured_at \in 0..(clock - 1)
              /\ takings'[i].kind = "print_order" /\ takings'[i].kiosk = k}
  BY DEF Sold, Settled
<1>5. S = {i \in DOMAIN takings :
              /\ takings[i].status \in SETTLED_PAYMENT_STATES /\ takings[i].captured_at \in 0..(clock - 1)
              /\ takings[i].kind = "print_order" /\ takings[i].kiosk = k}
  BY DEF Sold, Settled
<1>6. S' = S
  <2>1. \A i \in DOMAIN takings : i \in DOMAIN takings' /\ (i \in S' <=> i \in S)
    BY <1>4, <1>5 DEF SameSale
  <2>2. \A i \in DOMAIN takings' \ DOMAIN takings : i \notin S'
    BY <1>3, <1>4
  <2>3. S' \subseteq DOMAIN takings' /\ S \subseteq DOMAIN takings
    BY <1>4, <1>5
  <2> HIDE DEF S
  <2> QED  BY <2>1, <2>2, <2>3
<1>7. S \in SUBSET (DOMAIN takings) /\ \A i \in S : takings'[i].amount = takings[i].amount
  BY <1>5 DEF SameSale
<1> DEFINE f == [i \in S |-> takings[i].amount]
<1>8. IsFiniteSet(S) /\ \A i \in S : f[i] \in Nat /\ takings[i].amount = f[i] /\ new[i].amount = f[i]
  BY <1>2, <1>7, TakingFields, FS_Subset
<1>9. /\ EarningsForKiosks({k}, 0..(clock - 1))'.gross = MapThenSumSet(LAMBDA i : takings'[i].amount, S')
      /\ EarningsForKiosks({k}, 0..(clock - 1)).gross = MapThenSumSet(LAMBDA i : takings[i].amount, S)
  <2>1. EarningsForKiosks({k}, 0..(clock - 1)).gross = MapThenSumSet(LAMBDA i : takings[i].amount, S)
    BY DEF EarningsForKiosks, Earned
  <2>2. EarningsForKiosks({k}, 0..(clock - 1))' = Earned(S)'
    BY DEF EarningsForKiosks
  <2>3. Earned(S)'.gross = MapThenSumSet(LAMBDA i : takings'[i].amount, S')
    <3> HIDE DEF S
    <3> QED  BY DEF Earned, MapThenSumSet, MapThenFoldSet
  <2> QED  BY <2>1, <2>2, <2>3
<1> HIDE DEF S, f
<1>10. /\ MapThenSumSet(LAMBDA i : takings[i].amount, S) = Cardinality(Units(S, f))
       /\ MapThenSumSet(LAMBDA i : new[i].amount, S) = Cardinality(Units(S, f))
  BY <1>8, AmountsAdd
<1> QED  BY <1>2, <1>6, <1>9, <1>10

\* What a step does to the books, and to what was taken by now.
LEMMA BooksStep ==
  ASSUME BooksInv, [EarningsNext]_earningsVars
  PROVE  /\ BooksInv' /\ TakingsStand
<1>1. CASE UNCHANGED earningsVars
  <2>1. takings' = takings /\ clock' = clock
    BY <1>1 DEF earningsVars
  <2>2. BooksInv'
    BY <2>1 DEF BooksInv, EarningsTypeOK
  <2>3. PastTakings' = PastTakings
    BY <2>1, PastIsKept DEF SameSale
  <2> QED  BY <2>2, <2>3 DEF TakingsStand
<1>2. CASE Turn
  <2>1. takings' = takings /\ clock' = clock + 1 /\ clock \in Nat /\ clock' \in 0..LastInstant
    BY <1>2, TakingFields DEF Turn
  <2>2. BooksInv'
    BY <2>1 DEF BooksInv, EarningsTypeOK
  <2> QED  BY <2>1, <2>2 DEF TakingsStand
<1>3. ASSUME NEW kind \in Kinds, NEW k \in Kiosks \cup {"none"}, NEW source \in Sources,
             NEW amount \in Amounts, Taken(kind, k, source, amount, clock), clock' = clock,
             kind = "print_order" => k \in Kiosks
      PROVE  BooksInv' /\ TakingsStand
  <2>1. clock \in Nat /\ clock' \in 0..LastInstant
    BY <1>3, TakingFields
  <2>2. /\ BooksInv' /\ Len(takings') = Len(takings) + 1
        /\ \A i \in DOMAIN takings : takings'[i] = takings[i]
        /\ takings'[Len(takings) + 1].captured_at = clock
    BY <1>3, <2>1, BooksGrow
  <2>3. DOMAIN takings = 1..Len(takings) /\ Len(takings) \in Nat /\ DOMAIN takings' = 1..Len(takings')
    BY <2>2, TakingFields DEF BooksInv, EarningsTypeOK
  <2>4. \A i \in DOMAIN takings : SameSale(i)
    BY <2>2, <2>3 DEF SameSale
  <2>5. \A i \in DOMAIN takings' \ DOMAIN takings : takings'[i].captured_at = clock
    BY <2>2, <2>3
  <2> QED  BY <1>3, <2>2, <2>4, <2>5, PastIsKept DEF TakingsStand
<1>4. ASSUME NEW k \in Kiosks, NEW source \in Sources, NEW amount \in Amounts, ConfirmPrint(k, source, amount)
      PROVE  BooksInv' /\ TakingsStand
  <2>1. clock' = clock + 1 /\ clock \in Nat /\ clock' \in 0..LastInstant /\ clock' \in Nat
    BY <1>4, TakingFields DEF ConfirmPrint
  <2>2. Taken("print_order", k, source, amount, clock')
    BY <1>4 DEF ConfirmPrint
  <2>3. "print_order" \in Kinds
    BY DEF Kinds
  <2>4. BooksInv'
    BY <2>1, <2>2, <2>3, BooksGrow
  <2> QED  BY <2>1, <2>4 DEF TakingsStand
<1>5. ASSUME NEW i \in DOMAIN takings, NEW n \in 1..takings[i].amount, GiveBack(i, n)
      PROVE  BooksInv' /\ TakingsStand
  <2>1. PICK row \in Taking :
          /\ Becomes(i, row) /\ row.refunded <= row.amount
          /\ row.kind = takings[i].kind /\ row.kiosk = takings[i].kiosk
          /\ row.amount = takings[i].amount /\ row.captured_at = takings[i].captured_at
          /\ row.status \in SETTLED_PAYMENT_STATES /\ takings[i].status \in SETTLED_PAYMENT_STATES
    BY <1>5, RowsWritten
  <2>2. /\ BooksInv' /\ DOMAIN takings' = DOMAIN takings /\ takings'[i] = row
        /\ \A j \in DOMAIN takings : j # i => takings'[j] = takings[j]
    BY <2>1, BooksChange
  <2>3. clock' = clock
    BY <2>1 DEF Becomes
  <2>4. \A j \in DOMAIN takings : SameSale(j)
    BY <2>1, <2>2 DEF SameSale
  <2> QED  BY <2>2, <2>3, <2>4, PastIsKept DEF TakingsStand
<1>6. ASSUME NEW i \in DOMAIN takings, FailLate(i) \/ CaptureLate(i)
      PROVE  BooksInv' /\ TakingsStand
  <2>1. PICK row \in Taking :
          /\ Becomes(i, row) /\ row.refunded <= row.amount
          /\ row.kind = takings[i].kind /\ row.kiosk = takings[i].kiosk
    BY <1>6, RowsWritten
  <2>2. /\ BooksInv' /\ DOMAIN takings' = DOMAIN takings /\ takings'[i] = row
        /\ \A j \in DOMAIN takings : j # i => takings'[j] = takings[j]
    BY <2>1, BooksChange
  <2>3. CASE FailLate(i)
    BY <2>2, <2>3 DEF TakingsStand
  <2>4. CASE CaptureLate(i)
    <3>1. clock' = clock
      BY <2>1 DEF Becomes
    <3>2. takings[i].kind = "subscription"
      BY <2>4 DEF CaptureLate, SettlesAgain
    <3>3. \A j \in DOMAIN takings : SameSale(j)
      BY <2>1, <2>2, <3>2 DEF SameSale
    <3> QED  BY <2>2, <3>1, <3>3, PastIsKept DEF TakingsStand
  <2> QED  BY <1>6, <2>3, <2>4
<1>7. ASSUME NEW amount \in Amounts, NEW k \in Kiosks, NEW source \in Sources, TakePrint(k, source, amount)
      PROVE  BooksInv' /\ TakingsStand
  BY <1>3, <1>7 DEF TakePrint, Kinds
<1>8. ASSUME NEW amount \in Amounts, NEW kind \in Kinds \ {"print_order"}, TakeElse(kind, amount)
      PROVE  BooksInv' /\ TakingsStand
  BY <1>3, <1>8 DEF TakeElse, Sources
<1> QED  BY <1>1, <1>2, <1>4, <1>5, <1>6, <1>7, <1>8 DEF EarningsNext

\* The reports of one window agree, the export reconciles with them unless the window
\* parts a payment from its order, and what shops took by now changes with a late failure
\* alone, for any shops, amounts, days and payments (payments/earnings.py,
\* orders/views.py, charges.py).
THEOREM BillingBooksStand == MCSpec => BooksStand
<1>1. MCInit => BooksInv
  BY BooksStart DEF MCInit
<1>2. BooksInv /\ [MCNext]_mcVars => BooksInv' /\ [part = "books" => TakingsStand]_earningsVars
  <2>1. SUFFICES ASSUME BooksInv, [MCNext]_mcVars
                 PROVE  BooksInv' /\ TakingsStand
    OBVIOUS
  <2>2. [EarningsNext]_earningsVars
    BY <2>1 DEF MCNext, mcVars, earningsVars
  <2> QED  BY <2>1, <2>2, BooksStep
<1>3. BooksInv => (part = "books" => ReportsAgree /\ ExportReconcilesUnlessParted)
  BY BooksAgree, ExportAgrees
<1> QED  BY <1>1, <1>2, <1>3, PTL DEF MCSpec, BooksStand, mcVars

-----------------------------------------------------------------------------
(* Jobs and their paper.                                                   *)

\* Of a copy: the sheets, and of those the ones printed on both sides, which come first.
SheetsIn(duplex, selected) == IF duplex THEN (selected + 1) \div 2 ELSE selected
BothIn(duplex, selected) == IF duplex THEN selected \div 2 ELSE 0

LEMMA CopiesAreAlike ==
  ASSUME NEW duplex \in BOOLEAN, NEW selected \in Nat, NEW copies \in Nat
  PROVE  /\ SheetsIn(duplex, selected) \in Nat /\ BothIn(duplex, selected) \in Nat
         /\ BothIn(duplex, selected) <= SheetsIn(duplex, selected)
         /\ Layout(duplex, selected, copies) = (1..copies) \X (1..SheetsIn(duplex, selected))
<1> DEFINE n == SheetsIn(duplex, selected)
<1>1. n \in Nat /\ BothIn(duplex, selected) \in Nat /\ BothIn(duplex, selected) <= n
  BY DEF SheetsIn, BothIn
<1>2. \A k \in 1..selected : (IF duplex THEN (k + 1) \div 2 ELSE k) \in 1..n
  BY DEF SheetsIn
<1>3. \A s \in 1..n : \E k \in 1..selected : s = IF duplex THEN (k + 1) \div 2 ELSE k
  <2>1. TAKE s \in 1..n
  <2>2. CASE duplex
    <3>1. 2 * s - 1 \in 1..selected /\ s = ((2 * s - 1) + 1) \div 2
      BY <1>1, <2>2 DEF SheetsIn
    <3> QED  BY <2>2, <3>1
  <2>3. CASE ~duplex
    BY <2>3 DEF SheetsIn
  <2> QED  BY <2>2, <2>3
<1> DEFINE on(k) == IF duplex THEN (k + 1) \div 2 ELSE k
<1>4. Layout(duplex, selected, copies) = {<<c, on(k)>> : c \in 1..copies, k \in 1..selected}
  BY DEF Layout, SheetOf
<1>5. (\A k \in 1..selected : on(k) \in 1..n) /\ \A s \in 1..n : \E k \in 1..selected : s = on(k)
  BY <1>2, <1>3
<1> HIDE DEF n, on
<1>6. {<<c, on(k)>> : c \in 1..copies, k \in 1..selected} = (1..copies) \X (1..n)
  BY <1>5
<1> QED  BY <1>1, <1>4, <1>6 DEF n

LEMMA SidesPrinted ==
  ASSUME NEW duplex \in BOOLEAN, NEW selected \in Nat, NEW c, NEW s \in 1..SheetsIn(duplex, selected)
  PROVE  SidesOn(<<c, s>>, duplex, selected) = 2 <=> s <= BothIn(duplex, selected)
<1> DEFINE sides == {k \in 1..selected : SheetOf(duplex, c, k) = <<c, s>>}
<1>1. SidesOn(<<c, s>>, duplex, selected) = Cardinality(sides)
  BY DEF SidesOn
<1>2. \A k : Cardinality({k}) = 1 /\ IsFiniteSet({k})
  BY FS_Singleton
<1>3. CASE duplex /\ s <= BothIn(duplex, selected)
  <2>1. s \in Nat /\ s # 0 /\ 2 * s <= selected
    BY <1>3 DEF BothIn
  <2>2. \A k \in 1..selected : (k + 1) \div 2 = s <=> k \in {2 * s - 1, 2 * s}
    BY <2>1
  <2>3. sides = {2 * s - 1} \cup {2 * s} /\ 2 * s - 1 # 2 * s
    BY <1>3, <2>1, <2>2 DEF SheetOf
  <2>4. PICK a, b : sides = {a} \cup {b} /\ a # b
    BY <2>3
  <2>5. Cardinality({a} \cup {b}) = Cardinality({a}) + 1
    BY <1>2, <2>4, FS_AddElement
  <2>6. Cardinality({a}) = 1
    BY <1>2
  <2> HIDE DEF sides
  <2>7. Cardinality(sides) = 2
    BY <2>4, <2>5, <2>6
  <2> QED  BY <1>1, <1>3, <2>7
<1>4. CASE duplex /\ ~(s <= BothIn(duplex, selected))
  <2>1. s \in Nat /\ s # 0 /\ 2 * s = selected + 1
    BY <1>4 DEF BothIn, SheetsIn
  <2>2. \A k \in 1..selected : (k + 1) \div 2 = s <=> k = 2 * s - 1
    BY <2>1
  <2>3. sides = {2 * s - 1}
    BY <1>4, <2>1, <2>2 DEF SheetOf
  <2>4. Cardinality(sides) = 1
    BY <1>2, <2>3, Zenon
  <2> HIDE DEF sides
  <2>5. SidesOn(<<c, s>>, duplex, selected) # 2
    BY <1>1, <2>4
  <2> QED  BY <1>4, <2>5, Zenon
<1>5. CASE ~duplex
  <2>1. sides = {s} /\ ~(s <= BothIn(duplex, selected))
    BY <1>5 DEF SheetOf, SheetsIn, BothIn
  <2>2. Cardinality(sides) = 1
    BY <1>2, <2>1, Zenon
  <2> HIDE DEF sides
  <2> QED  BY <1>1, <2>1, <2>2
<1> QED  BY <1>3, <1>4, <1>5

\* The sheets after a up to b of every copy, at a rate each.
Block(copies, a, b) == (1..copies) \X ((a + 1)..b)
Times(a, b) == a * b

LEMMA TimesNat == \A a, b \in Nat : Times(a, b) \in Nat /\ Times(a, b) = Times(b, a)
  BY DEF Times

LEMMA TimesCounts ==
  ASSUME NEW S, NEW T, IsFiniteSet(S), IsFiniteSet(T)
  PROVE  IsFiniteSet(S \X T) /\ Cardinality(S \X T) = Times(Cardinality(S), Cardinality(T))
  BY FS_Product DEF Times

LEMMA Upto == ASSUME NEW n \in Nat PROVE IsFiniteSet(1..n) /\ Cardinality(1..n) = n
<1>1. 1 \in Int /\ n \in Int
  OBVIOUS
<1> QED  BY <1>1, FS_Interval

LEMMA BlockCounts ==
  ASSUME NEW copies \in Nat, NEW a \in Nat, NEW b \in Nat, a <= b
  PROVE  /\ IsFiniteSet(Block(copies, a, b))
         /\ Cardinality(Block(copies, a, b)) = Times(copies, b - a)
         /\ Times(copies, b - a) \in Nat
<1>1. a + 1 \in Int /\ b \in Int /\ b - a \in Nat
  OBVIOUS
<1>2. IsFiniteSet((a + 1)..b) /\ Cardinality((a + 1)..b) = b - a
  <2>1. /\ IsFiniteSet((a + 1)..b)
        /\ Cardinality((a + 1)..b) = IF a + 1 > b THEN 0 ELSE b - (a + 1) + 1
    BY <1>1, FS_Interval
  <2> QED  BY <2>1
<1>3. IsFiniteSet(1..copies) /\ Cardinality(1..copies) = copies
  BY Upto
<1>4. PICK U, V : U = 1..copies /\ V = (a + 1)..b
  OBVIOUS
<1>5. IsFiniteSet(U) /\ IsFiniteSet(V) /\ Cardinality(U) = copies /\ Cardinality(V) = b - a
  BY <1>2, <1>3, <1>4
<1>6. IsFiniteSet(U \X V) /\ Cardinality(U \X V) = Times(copies, b - a)
  BY <1>5, TimesCounts, Zenon
<1>7. Block(copies, a, b) = U \X V
  BY <1>4 DEF Block
<1>8. Times(copies, b - a) \in Nat
  BY <1>1, TimesNat
<1> QED  BY <1>6, <1>7, <1>8, Zenon

LEMMA BlockCosts ==
  ASSUME NEW T, IsFiniteSet(T), Cardinality(T) \in Nat, NEW n \in Nat
  PROVE  /\ IsFiniteSet(T \X (1..n))
         /\ Cardinality(T \X (1..n)) = Times(Cardinality(T), n)
         /\ Times(Cardinality(T), n) \in Nat
<1>1. PICK U : U = 1..n
  OBVIOUS
<1>2. IsFiniteSet(U) /\ Cardinality(U) = n
  BY <1>1, Upto
<1>3. IsFiniteSet(T \X U) /\ Cardinality(T \X U) = Times(Cardinality(T), n)
  BY <1>2, TimesCounts, Zenon
<1>4. Times(Cardinality(T), n) \in Nat
  BY TimesNat
<1> QED  BY <1>1, <1>3, <1>4, Zenon

\* In P there are f[i] of each i.
Counts(P, key, S, f) ==
    /\ IsFiniteSet(P) /\ Part(P, key, S) = P
    /\ \A i \in S : Cardinality(Part(P, key, {i})) = f[i]

LEMMA UnitsCount ==
  ASSUME NEW S, IsFiniteSet(S), NEW f \in [S -> Nat]
  PROVE  \E key : Counts(Units(S, f), key, S, f)
<1>1. IsFiniteSet(Units(S, f))
  BY UnitsAreFinite
<1>2. PICK key : key = [p \in Units(S, f) |-> p[1]]
  OBVIOUS
<1>3. Part(Units(S, f), key, S) = Units(S, f)
  BY <1>2 DEF Part, Units
<1>4. ASSUME NEW i \in S
      PROVE  Cardinality(Part(Units(S, f), key, {i})) = f[i]
  <2>1. Cardinality(Part(Units(S, f), [p \in Units(S, f) |-> p[1]], {i})) = f[i]
    BY UnitsOfOne
  <2> QED  BY <1>2, <2>1, Zenon
<1>5. Counts(Units(S, f), key, S, f)
  BY <1>1, <1>3, <1>4 DEF Counts
<1> QED  BY <1>5

\* f[i] is the rate of the sheet i.
Priced(f, S, duplex, selected, double, single) ==
    \A i \in S : f[i] = IF SidesOn(i, duplex, selected) = 2 THEN double ELSE single

\* Sheets as units of their rates: those of every copy printed on both sides, and the rest.
LEMMA PaperCosts ==
  ASSUME NEW duplex \in BOOLEAN, NEW selected \in Nat, NEW copies \in Nat,
         NEW single \in Nat, NEW double \in Nat,
         NEW S, S = Layout(duplex, selected, copies),
         NEW x, x = Times(copies, BothIn(duplex, selected)),
         NEW y, y = Times(copies, SheetsIn(duplex, selected) - BothIn(duplex, selected))
  PROVE  /\ x \in Nat /\ y \in Nat /\ IsFiniteSet(S) /\ Cardinality(S) = x + y
         /\ \E P, key, f : /\ Counts(P, key, S, f) /\ Priced(f, S, duplex, selected, double, single)
                           /\ Cardinality(P) = Times(x, double) + Times(y, single)
<1> DEFINE price(sheet) == IF SidesOn(sheet, duplex, selected) = 2 THEN double ELSE single
<1>1. PICK n, h : n = SheetsIn(duplex, selected) /\ h = BothIn(duplex, selected)
  OBVIOUS
<1>2. n \in Nat /\ h \in Nat /\ h <= n /\ S = (1..copies) \X (1..n)
  BY <1>1, CopiesAreAlike
<1>3. \A c \in 1..copies, s \in 1..n : price(<<c, s>>) = IF s <= h THEN double ELSE single
  BY <1>1, SidesPrinted
<1>4. PICK both, one : both = Block(copies, 0, h) /\ one = Block(copies, h, n)
  OBVIOUS
<1> DEFINE A == both \X (1..double)
           B == one \X (1..single)
<1>5. /\ IsFiniteSet(both) /\ Cardinality(both) = x /\ x \in Nat
      /\ IsFiniteSet(A) /\ Cardinality(A) = Times(x, double) /\ Times(x, double) \in Nat
  <2>1. 0 \in Nat /\ 0 <= h /\ h \in Nat /\ h - 0 = h
    BY <1>2
  <2>2. IsFiniteSet(both) /\ Cardinality(both) = x /\ x \in Nat
    BY <1>1, <1>4, <2>1, BlockCounts
  <2> QED  BY <2>1, <2>2, BlockCosts
<1>6. /\ IsFiniteSet(one) /\ Cardinality(one) = y /\ y \in Nat
      /\ IsFiniteSet(B) /\ Cardinality(B) = Times(y, single) /\ Times(y, single) \in Nat
  <2>1. IsFiniteSet(one) /\ Cardinality(one) = y /\ y \in Nat
    BY <1>1, <1>2, <1>4, BlockCounts
  <2> QED  BY <2>1, BlockCosts
<1>7. S = both \cup one /\ both \cap one = {}
  BY <1>2, <1>4 DEF Block
<1>8. /\ \A sheet \in both : price(sheet) = double
      /\ \A sheet \in one : price(sheet) = single
  BY <1>2, <1>3, <1>4 DEF Block
<1>9. IsFiniteSet(S) /\ Cardinality(S) = x + y
  <2>1. /\ IsFiniteSet(both \cup one)
        /\ Cardinality(both \cup one) = Cardinality(both) + Cardinality(one) - Cardinality(both \cap one)
    BY <1>5, <1>6, FS_Union
  <2>2. Cardinality(both \cap one) = 0
    BY <1>7, FS_EmptySet
  <2> QED  BY <1>5, <1>6, <1>7, <2>1, <2>2
<1>10. PICK f, P : f = [sheet \in S |-> price(sheet)] /\ P = Units(S, f)
  OBVIOUS
<1>11. \A sheet \in S : f[sheet] = price(sheet) /\ f[sheet] \in Nat
  BY <1>10
<1>15. Priced(f, S, duplex, selected, double, single)
  BY <1>11 DEF Priced
<1>16. f \in [S -> Nat]
  BY <1>10, <1>11
<1> HIDE DEF price
<1>12. P = A \cup B /\ A \cap B = {}
  BY <1>7, <1>8, <1>10, <1>11 DEF Units
<1>13. Cardinality(P) = Times(x, double) + Times(y, single)
  <2> HIDE DEF A, B
  <2>1. Cardinality(A \cup B) = Cardinality(A) + Cardinality(B) - Cardinality(A \cap B)
    BY <1>5, <1>6, FS_Union
  <2>2. Cardinality(A \cap B) = 0
    BY <1>12, FS_EmptySet
  <2> QED  BY <1>5, <1>6, <1>12, <2>1, <2>2
<1>14. PICK key : Counts(P, key, S, f)
  BY <1>9, <1>10, <1>16, UnitsCount
<1> QED  BY <1>5, <1>6, <1>9, <1>13, <1>14, <1>15

\* What is laid out costs what there is of each sheet.
LEMMA LaidOutCounts ==
  ASSUME NEW duplex, NEW selected, NEW copies, NEW rates,
         NEW S, S = Layout(duplex, selected, copies), IsFiniteSet(S),
         NEW P, NEW key, NEW f, Counts(P, key, S, f), NEW double, NEW single,
         rates.double = double, rates.single = single,
         Priced(f, S, duplex, selected, double, single)
  PROVE  LaidOutAmount(duplex, selected, copies, rates) = Cardinality(P)
<1> DEFINE Iter(g) == g = [x \in SUBSET S |->
                             IF x = {} THEN 0
                             ELSE (IF SidesOn(CHOOSE c \in x : TRUE, duplex, selected) = 2
                                   THEN rates.double ELSE rates.single) + g[x \ {CHOOSE c \in x : TRUE}]]
           sum == CHOOSE g : Iter(g)
<1>1. LaidOutAmount(duplex, selected, copies, rates) = sum[S]
  BY DEF LaidOutAmount, MapThenSumSet, MapThenFoldSet
<1>2. \A g : Iter(g) <=> AddsUp(g, P, key, S)
  <2>1. TAKE g
  <2>2. \A x \in SUBSET S : x # {} => (CHOOSE c \in x : TRUE) \in S
    OBVIOUS
  <2>3. \A x \in SUBSET S : x # {} =>
            (IF SidesOn(CHOOSE c \in x : TRUE, duplex, selected) = 2 THEN rates.double ELSE rates.single)
                = Cardinality(Part(P, key, {CHOOSE c \in x : TRUE}))
    BY <2>2 DEF Counts, Priced
  <2>4. [x \in SUBSET S |->
            IF x = {} THEN 0
            ELSE (IF SidesOn(CHOOSE c \in x : TRUE, duplex, selected) = 2
                  THEN rates.double ELSE rates.single) + g[x \ {CHOOSE c \in x : TRUE}]]
        = [x \in SUBSET S |->
            IF x = {} THEN 0
            ELSE Cardinality(Part(P, key, {CHOOSE c \in x : TRUE})) + g[x \ {CHOOSE c \in x : TRUE}]]
    BY <2>3
  <2> QED  BY <2>4, Zenon DEF AddsUp
<1>3. \E g : Iter(g)
  <2>1. PICK g : AddsUp(g, P, key, S)
    BY SumsCount DEF Counts
  <2> HIDE DEF Iter
  <2> QED  BY <1>2, <2>1
<1>4. Iter(sum)
  <2> HIDE DEF Iter
  <2> QED  BY <1>3, Zenon
<1> HIDE DEF sum, Iter
<1>5. sum[S] = Cardinality(P)
  BY <1>2, <1>4, SumsCount DEF Counts
<1> QED  BY <1>1, <1>5

\* The sheets counted and charged are those the job is laid out on.
LEMMA JobsAreLaidOut ==
  ASSUME NEW duplex \in BOOLEAN, NEW selected \in Nat, NEW copies \in Nat,
         NEW rates \in [single : Nat, double : Nat]
  PROVE  /\ Sheets(duplex, selected, copies) = Cardinality(Layout(duplex, selected, copies))
         /\ Amount(duplex, selected, copies, rates) = LaidOutAmount(duplex, selected, copies, rates)
         /\ Amount(duplex, selected, copies, rates) \in Nat
<1>1. PICK S, h, n, x, y, double, single :
         /\ S = Layout(duplex, selected, copies)
         /\ h = BothIn(duplex, selected) /\ n = SheetsIn(duplex, selected)
         /\ x = Times(copies, h) /\ y = Times(copies, n - h)
         /\ double = rates.double /\ single = rates.single
  OBVIOUS
<1>2. double \in Nat /\ single \in Nat /\ n \in Nat /\ h \in Nat
  BY <1>1, CopiesAreAlike
<1>3. x \in Nat /\ y \in Nat /\ IsFiniteSet(S) /\ Cardinality(S) = x + y
  BY <1>1, <1>2, PaperCosts
<1>4. PICK P, key, f : /\ Counts(P, key, S, f) /\ Priced(f, S, duplex, selected, double, single)
                       /\ Cardinality(P) = Times(x, double) + Times(y, single)
  BY <1>1, <1>2, PaperCosts, SMTT(30)
<1>5. LaidOutAmount(duplex, selected, copies, rates) = Cardinality(P)
  BY <1>1, <1>3, <1>4, LaidOutCounts
<1>6. BothSides(duplex, selected, copies) = x /\ OneSide(duplex, selected, copies) = y
  <2>1. CASE duplex
    <3>1. h = selected \div 2 /\ n - h = selected % 2
      BY <1>1, <2>1 DEF SheetsIn, BothIn
    <3>2. h * copies = x /\ (n - h) * copies = y
      BY <1>1, <1>2 DEF Times
    <3> QED  BY <2>1, <3>1, <3>2 DEF BothSides, OneSide
  <2>2. CASE ~duplex
    <3>1. h = 0 /\ n = selected
      BY <1>1, <2>2 DEF SheetsIn, BothIn
    <3>2. x = 0 /\ selected * copies = y
      BY <1>1, <3>1 DEF Times
    <3> QED  BY <2>2, <3>2 DEF BothSides, OneSide
  <2> QED  BY <2>1, <2>2
<1>7. /\ Sheets(duplex, selected, copies) = x + y
      /\ Amount(duplex, selected, copies, rates) = Times(double, x) + Times(single, y)
  BY <1>1, <1>6 DEF Times, Sheets, Amount
<1>8. /\ Times(x, double) = Times(double, x) /\ Times(y, single) = Times(single, y)
      /\ Times(x, double) \in Nat /\ Times(y, single) \in Nat
  BY <1>2, <1>3, TimesNat
<1>9. Times(x, double) + Times(y, single) \in Nat
  BY <1>8
<1> QED  BY <1>1, <1>3, <1>4, <1>5, <1>7, <1>8, <1>9

\* The pages of a job that is accepted.
LEMMA PagesSelected ==
  ASSUME NEW job \in Job, ~Refused(job), NEW pages, pages = Selected(job.range, job.total)
  PROVE  /\ job.total \in Nat /\ job.copies \in Nat /\ job.duplex \in BOOLEAN
         /\ pages \in SUBSET (1..job.total) /\ IsFiniteSet(pages) /\ Cardinality(pages) \in Nat
<1>1. /\ job.total \in Nat /\ job.copies \in Nat /\ job.duplex \in BOOLEAN
      /\ job.range \in {Unset} \cup Seq(Int \X Int)
  BY DEF Job
<1>2. pages \in SUBSET (1..job.total)
  <2>1. CASE job.range = Unset
    BY <2>1 DEF Selected
  <2>2. CASE job.range # Unset
    <3>1. \A i \in DOMAIN job.range : job.range[i] \in Int \X Int
      BY <1>1, <2>2
    <3>2. \A i \in DOMAIN job.range : 1 <= job.range[i][1] /\ job.range[i][2] <= job.total
      BY <1>1, <2>2, <3>1 DEF Refused
    <3>3. \A i \in DOMAIN job.range : job.range[i][1]..job.range[i][2] \subseteq 1..job.total
      BY <1>1, <3>1, <3>2
    <3> QED  BY <2>2, <3>3 DEF Selected
  <2> QED  BY <2>1, <2>2
<1>3. IsFiniteSet(1..job.total)
  BY <1>1, Upto
<1> QED  BY <1>1, <1>2, <1>3, FS_Subset, FS_CardinalityType

\* Every page is in a run, and runs are apart.
LEMMA RunsCover ==
  ASSUME NEW total \in Nat, NEW pages \in SUBSET (1..total)
  PROVE  /\ \A p \in pages : \E r \in PageRuns(pages) : p \in r[1]..r[2]
         /\ \A r \in PageRuns(pages) : /\ r = <<r[1], r[2]>> /\ r[1] \in pages /\ r[2] \in pages
                                   /\ r[1] \in Nat /\ r[2] \in Nat /\ r[1] <= r[2]
                                   /\ r[1]..r[2] \subseteq pages
         /\ \A r, q \in PageRuns(pages) : r[1] < q[1] => q[1] > r[2] + 1
         /\ \A r, q \in PageRuns(pages) : r[1] = q[1] => r = q
<1>1. \A p \in pages : p \in Nat /\ p <= total
  OBVIOUS
<1>2. ASSUME NEW r \in PageRuns(pages)
      PROVE  /\ r = <<r[1], r[2]>> /\ r[1] \in pages /\ r[2] \in pages
             /\ r[1] \in Nat /\ r[2] \in Nat /\ r[1] <= r[2] /\ r[1]..r[2] \subseteq pages
             /\ r[1] - 1 \notin pages /\ r[2] + 1 \notin pages
  <2>1. /\ r \in pages \X pages /\ r[1]..r[2] \subseteq pages /\ r[1] <= r[2]
        /\ r[1] - 1 \notin pages /\ r[2] + 1 \notin pages
    BY DEF PageRuns
  <2>2. r = <<r[1], r[2]>> /\ r[1] \in pages /\ r[2] \in pages
    BY <2>1
  <2>3. r[1] \in Nat /\ r[2] \in Nat
    BY <1>1, <2>2
  <2> QED  BY <2>1, <2>2, <2>3
<1>3. ASSUME NEW r \in PageRuns(pages), NEW q \in PageRuns(pages), r[1] < q[1], q[1] <= r[2] + 1 PROVE FALSE
  <2>1. q[1] - 1 \in r[1]..r[2]
    BY <1>2, <1>3
  <2> QED  BY <1>2, <2>1
<1>4. ASSUME NEW r \in PageRuns(pages), NEW q \in PageRuns(pages), r[1] = q[1], r[2] < q[2] PROVE FALSE
  <2>1. r[2] + 1 \in q[1]..q[2]
    BY <1>2, <1>4
  <2> QED  BY <1>2, <2>1
<1>5. ASSUME NEW p \in pages
      PROVE  \E r \in PageRuns(pages) : p \in r[1]..r[2]
  <2> DEFINE starts == {a \in Nat : a <= p /\ a..p \subseteq pages}
             after == {b \in Nat : p <= b /\ b + 1 \notin pages}
  <2>1. p \in Nat /\ p \in starts
    BY <1>1, <1>5
  <2>2. PICK a \in starts : \A c \in starts : ~(c < a)
    <3>1. starts \in SUBSET Nat /\ starts # {}
      BY <2>1
    <3> HIDE DEF starts
    <3> QED  BY <3>1, LowestOf
  <2>3. total \in after
    BY <1>1, <1>5
  <2>4. PICK b \in after : \A c \in after : ~(c < b)
    <3>1. after \in SUBSET Nat /\ after # {}
      BY <2>3
    <3> HIDE DEF after
    <3> QED  BY <3>1, LowestOf
  <2>5. a \in Nat /\ a <= p /\ a..p \subseteq pages /\ a \in pages
    BY <2>1, <2>2
  <2>6. a - 1 \notin pages
    <3>1. SUFFICES ASSUME a - 1 \in pages PROVE FALSE
      OBVIOUS
    <3>2. a - 1 \in Nat /\ (a - 1)..p \subseteq pages
      BY <1>1, <2>1, <2>5, <3>1
    <3>3. a - 1 \in starts
      BY <2>1, <2>5, <3>2
    <3> QED  BY <2>2, <2>5, <3>3
  <2>7. b \in Nat /\ p <= b /\ b + 1 \notin pages
    BY <2>4
  <2>8. p..b \subseteq pages
    <3>1. SUFFICES ASSUME NEW c \in p..b, c \notin pages PROVE FALSE
      OBVIOUS
    <3>2. c \in Nat /\ c # p /\ c - 1 \in Nat /\ p <= c - 1 /\ c - 1 < b /\ (c - 1) + 1 = c
      BY <1>5, <2>1, <2>7, <3>1
    <3>3. c - 1 \in after
      BY <3>1, <3>2
    <3> QED  BY <2>4, <3>2, <3>3
  <2>9. a..b \subseteq pages /\ b \in pages /\ a <= b
    BY <2>1, <2>5, <2>7, <2>8
  <2>10. <<a, b>> \in PageRuns(pages) /\ p \in a..b
    BY <2>1, <2>5, <2>6, <2>7, <2>9 DEF PageRuns
  <2> QED  BY <2>10
<1>6. \A r, q \in PageRuns(pages) : r[1] = q[1] => r = q
  <2>1. SUFFICES ASSUME NEW r \in PageRuns(pages), NEW q \in PageRuns(pages), r[1] = q[1] PROVE r[2] = q[2]
    BY <1>2
  <2> QED  BY <1>2, <1>4, <2>1
<1>7. \A r, q \in PageRuns(pages) : r[1] < q[1] => q[1] > r[2] + 1
  BY <1>2, <1>3
<1> QED  BY <1>2, <1>5, <1>6, <1>7

\* Finitely many numbers have places, in order.
Ranks(rank, T) ==
    /\ rank \in [T -> 1..Cardinality(T)]
    /\ \A n \in 1..Cardinality(T) : \E t \in T : rank[t] = n
    /\ \A t, u \in T : t[1] < u[1] <=> rank[t] < rank[u]

LEMMA RunsHaveRanks ==
  ASSUME NEW T, IsFiniteSet(T), \A t \in T : t[1] \in Nat, \A t, u \in T : t[1] = u[1] => t = u
  PROVE  \E rank : Ranks(rank, T)
<1> DEFINE below(t) == {u \in T : u[1] <= t[1]}
           n == Cardinality(T)
<1>1. PICK rank : rank = [t \in T |-> Cardinality(below(t))]
  OBVIOUS
<1>2. n \in Nat /\ IsFiniteSet(1..n) /\ Cardinality(1..n) = n
  BY FS_CardinalityType, Upto
<1>3. \A t \in T : IsFiniteSet(below(t)) /\ Cardinality(below(t)) \in 1..n
  <2>1. TAKE t \in T
  <2>2. below(t) \in SUBSET T /\ t \in below(t)
    OBVIOUS
  <2> HIDE DEF below
  <2>3. IsFiniteSet(below(t)) /\ Cardinality(below(t)) <= n
    BY <2>2, FS_Subset
  <2>4. Cardinality(below(t)) \in Nat /\ Cardinality(below(t)) # 0
    BY <2>2, <2>3, FS_CardinalityType, FS_EmptySet
  <2> QED  BY <1>2, <2>3, <2>4
<1>4. ASSUME NEW t \in T, NEW u \in T, t[1] < u[1]
      PROVE  Cardinality(below(t)) < Cardinality(below(u))
  <2>1. below(t) \in SUBSET below(u) /\ u \in below(u) /\ u \notin below(t)
    BY <1>4
  <2>2. IsFiniteSet(below(u)) /\ Cardinality(below(u)) \in Nat /\ Cardinality(below(t)) \in Nat
    BY <1>3
  <2> HIDE DEF below
  <2>3. /\ Cardinality(below(t)) <= Cardinality(below(u))
        /\ Cardinality(below(u)) = Cardinality(below(t)) => below(u) = below(t)
    BY <2>1, <2>2, FS_Subset
  <2> QED  BY <2>1, <2>2, <2>3
<1> HIDE DEF below
<1>5. rank \in [T -> 1..n] /\ \A t \in T : rank[t] = Cardinality(below(t))
  BY <1>1, <1>3
<1> HIDE DEF n
<1>6. \A t, u \in T : t[1] < u[1] => rank[t] < rank[u]
  BY <1>4, <1>5
<1>7. \A t, u \in T : rank[t] < rank[u] => t[1] < u[1]
  <2>1. SUFFICES ASSUME NEW t \in T, NEW u \in T, rank[t] < rank[u], ~(t[1] < u[1]) PROVE FALSE
    OBVIOUS
  <2>2. rank[t] \in Nat /\ rank[u] \in Nat
    BY <1>2, <1>5
  <2>3. t[1] \in Nat /\ u[1] \in Nat
    OBVIOUS
  <2>4. t = u \/ u[1] < t[1]
    BY <2>1, <2>3
  <2> QED  BY <1>6, <2>1, <2>2, <2>4
<1>8. rank \in Injection(T, 1..n)
  <2>1. ASSUME NEW t \in T, NEW u \in T, rank[t] = rank[u] PROVE t = u
    <3>1. t[1] \in Nat /\ u[1] \in Nat /\ rank[t] \in Nat /\ rank[u] \in Nat
      BY <1>2, <1>5
    <3>2. ~(t[1] < u[1]) /\ ~(u[1] < t[1])
      BY <1>6, <2>1, <3>1
    <3> QED  BY <3>1, <3>2
  <2> QED  BY <1>5, <2>1 DEF Injection, IsInjective
<1>9. rank \in Surjection(T, 1..n)
  <2>1. Cardinality(T) = Cardinality(1..n)
    BY <1>2 DEF n
  <2> QED  BY <1>2, <1>8, <2>1, FS_Injection
<1>10. \A m \in 1..n : \E t \in T : rank[t] = m
  BY <1>9 DEF Surjection
<1>11. Ranks(rank, T)
  BY <1>5, <1>6, <1>7, <1>10 DEF Ranks, n
<1> QED  BY <1>11

\* The form of a range: all its pages, ascending, no run touching the next.
LEMMA FormatsAreRuns ==
  ASSUME NEW total \in Nat, NEW pages \in SUBSET (1..total)
  PROVE  /\ Format(pages) # Unset
         /\ Selected(Format(pages), total) = pages
         /\ \A j \in 2..Len(Format(pages)) : Format(pages)[j][1] > Format(pages)[j - 1][2] + 1
<1> DEFINE T == PageRuns(pages)
           n == Cardinality(T)
           Ascending(range) == \A i, j \in DOMAIN range : i < j => range[i][1] < range[j][1]
<1>1. /\ \A p \in pages : \E r \in T : p \in r[1]..r[2]
      /\ \A r \in T : /\ r = <<r[1], r[2]>> /\ r[1] \in pages /\ r[2] \in pages
                      /\ r[1] \in Nat /\ r[2] \in Nat /\ r[1] <= r[2] /\ r[1]..r[2] \subseteq pages
      /\ \A r, q \in T : r[1] < q[1] => q[1] > r[2] + 1
      /\ \A r, q \in T : r[1] = q[1] => r = q
  BY RunsCover
<1>2. IsFiniteSet(T)
  <2>1. IsFiniteSet(pages)
    BY Upto, FS_Subset
  <2>2. IsFiniteSet(pages \X pages)
    BY <2>1, FS_Product
  <2>3. T \in SUBSET (pages \X pages)
    BY DEF PageRuns
  <2> QED  BY <2>2, <2>3, FS_Subset
<1>3. Format(pages) = CHOOSE range \in [1..n -> T] : Ascending(range)
  BY DEF Format
<1> HIDE DEF T
<1>4. n \in Nat
  BY <1>2, FS_CardinalityType
<1>5. PICK rank : Ranks(rank, T)
  BY <1>1, <1>2, RunsHaveRanks
<1>6. /\ rank \in [T -> 1..n] /\ \A m \in 1..n : \E t \in T : rank[t] = m
      /\ \A t, u \in T : t[1] < u[1] <=> rank[t] < rank[u]
  BY <1>5 DEF Ranks
<1> HIDE DEF n
<1>7. PICK range : range = [m \in 1..n |-> CHOOSE t \in T : rank[t] = m]
  OBVIOUS
<1>8. \A m \in 1..n : range[m] \in T /\ rank[range[m]] = m
  <2>1. TAKE m \in 1..n
  <2>2. range[m] = CHOOSE t \in T : rank[t] = m
    BY <1>7
  <2>3. \E t \in T : rank[t] = m
    BY <1>6
  <2> QED  BY <2>2, <2>3
<1>9. range \in [1..n -> T]
  BY <1>7, <1>8
<1>10. Ascending(range)
  BY <1>6, <1>8, <1>9
<1>11. PICK form : form = Format(pages)
  OBVIOUS
<1>12. form \in [1..n -> T] /\ Ascending(form)
  <2> HIDE DEF Ascending
  <2>1. \E r \in [1..n -> T] : Ascending(r)
    BY <1>9, <1>10
  <2> QED  BY <1>3, <1>11, <2>1
<1>13. DOMAIN form = 1..n /\ \A i, j \in 1..n : i < j => form[i][1] < form[j][1]
  BY <1>12
<1>14. Len(form) = n
  BY <1>4, <1>13
<1>15. \A t \in T : \E i \in 1..n : form[i] = t
  <2>1. form \in Injection(1..n, T)
    <3>1. \A i, j \in 1..n : form[i] = form[j] => i = j
      <4>1. \A i \in 1..n : form[i][1] \in Nat /\ i \in Int
        BY <1>1, <1>4, <1>12
      <4> QED  BY <1>13, <4>1
    <3> QED  BY <1>12, <3>1 DEF Injection, IsInjective
  <2>2. IsFiniteSet(1..n) /\ Cardinality(1..n) = Cardinality(T)
    BY <1>4, Upto DEF n
  <2>3. form \in Surjection(1..n, T)
    BY <1>2, <2>1, <2>2, FS_Injection
  <2> QED  BY <2>3 DEF Surjection
<1>16. UNION {form[i][1]..form[i][2] : i \in 1..n} = pages
  <2>1. \A i \in 1..n : form[i][1]..form[i][2] \subseteq pages
    BY <1>1, <1>12
  <2>2. \A p \in pages : \E i \in 1..n : p \in form[i][1]..form[i][2]
    BY <1>1, <1>15
  <2> QED  BY <2>1, <2>2
<1>17. form # Unset
  <2>1. \A i \in 1..n : form[i] \in Int \X Int
    BY <1>1, <1>12
  <2>2. form \in Seq(Int \X Int)
    BY <1>4, <1>12, <2>1
  <2> QED  BY <2>2, JobsAssumption
<1>18. Selected(form, total) = pages
  BY <1>13, <1>16, <1>17 DEF Selected
<1>19. \A j \in 2..n : form[j][1] > form[j - 1][2] + 1
  <2>1. TAKE j \in 2..n
  <2>2. j - 1 \in 1..n /\ j \in 1..n /\ j - 1 < j
    BY <1>4
  <2>3. form[j - 1] \in T /\ form[j] \in T /\ form[j - 1][1] < form[j][1]
    BY <1>12, <1>13, <2>2
  <2> QED  BY <1>1, <2>3
<1> QED  BY <1>11, <1>14, <1>17, <1>19, <1>18

\* What an order is, once placed: each line as its paper, and the fee on top of them.
LineStands(line, rates) ==
    LET pages == Cardinality(Selected(line.job.range, line.job.total))
    IN  /\ line.sheets = Cardinality(Layout(line.job.duplex, pages, line.job.copies))
        /\ line.amount = LaidOutAmount(line.job.duplex, pages, line.job.copies, rates)
        /\ Selected(line.range, line.job.total) = Selected(line.job.range, line.job.total)
        /\ line.range # Unset => \A j \in 2..Len(line.range) :
              line.range[j][1] > line.range[j - 1][2] + 1

Subtotal(lines) == MapThenSumSet(LAMBDA i : lines[i].amount, DOMAIN lines)

OrderStands(o) ==
    /\ \A i \in DOMAIN o.lines : LineStands(o.lines[i], o.rates)
    /\ o.total \in Subtotal(o.lines)..(Subtotal(o.lines) + FeeCap)

\* Prices in the shop and in hand are prices.
PricesTyped ==
    /\ shop \in Shop /\ desk = [d \in Desks |-> desk[d]]
    /\ \A d \in Desks : Serving(d, "shop") => desk[d].seen \in Shop /\ desk[d].new \in Shop

JobsInv == PricesTyped /\ (order # Unset => OrderStands(order))

LEMMA LinesStand ==
  ASSUME NEW job \in Job, ~Refused(job), shop \in Shop, NEW rates, rates = Effective(shop),
         NEW line, line = Line(job)
  PROVE  LineStands(line, rates) /\ line.amount \in Nat
<1>1. PICK chosen, pages : chosen = Selected(job.range, job.total) /\ pages = Cardinality(chosen)
  OBVIOUS
<1>2. /\ job.total \in Nat /\ job.copies \in Nat /\ job.duplex \in BOOLEAN
      /\ chosen \in SUBSET (1..job.total) /\ IsFiniteSet(chosen) /\ pages \in Nat
  BY <1>1, PagesSelected
<1>3. rates \in [single : Nat, double : Nat]
  BY ShopFields
<1>4. PICK range : range = Normalised(job)
  OBVIOUS
<1>5. line = [job |-> job, range |-> range, sheets |-> Sheets(job.duplex, pages, job.copies),
              amount |-> Amount(job.duplex, pages, job.copies, rates)]
  BY <1>1, <1>4 DEF Line
<1>6. /\ line.job = job /\ line.range = range /\ line.sheets = Sheets(job.duplex, pages, job.copies)
      /\ line.amount = Amount(job.duplex, pages, job.copies, rates)
  BY <1>5
<1>7. /\ line.sheets = Cardinality(Layout(job.duplex, pages, job.copies))
      /\ line.amount = LaidOutAmount(job.duplex, pages, job.copies, rates)
      /\ line.amount \in Nat
  BY <1>2, <1>3, <1>6, JobsAreLaidOut
<1>8. /\ Selected(range, job.total) = chosen
      /\ range # Unset => \A j \in 2..Len(range) : range[j][1] > range[j - 1][2] + 1
  <2>1. CASE chosen = 1..job.total
    <3>1. range = Unset
      BY <1>1, <1>4, <2>1 DEF Normalised
    <3> QED  BY <2>1, <3>1 DEF Selected
  <2>2. CASE chosen # 1..job.total
    <3>1. range = Format(chosen)
      BY <1>1, <1>4, <2>2 DEF Normalised
    <3> QED  BY <1>2, <3>1, FormatsAreRuns
  <2> QED  BY <2>1, <2>2
<1> QED  BY <1>1, <1>6, <1>7, <1>8 DEF LineStands

LEMMA FeeIsCapped ==
  ASSUME NEW subtotal \in Nat, NEW byWallet \in BOOLEAN
  PROVE  Fee(subtotal, byWallet) \in 0..FeeCap
<1>1. FeeCap \in Nat
  BY JobsAssumption
<1>2. HalfUp(2 * subtotal, 100) \in Nat
  BY DEF HalfUp
<1> QED  BY <1>1, <1>2 DEF Fee

LEMMA SubtotalNat ==
  ASSUME NEW n \in Nat, NEW lines, DOMAIN lines = 1..n, \A i \in 1..n : lines[i].amount \in Nat
  PROVE  Subtotal(lines) \in Nat
<1>1. PICK f, S : S = 1..n /\ f = [i \in S |-> lines[i].amount]
  OBVIOUS
<1>2. IsFiniteSet(S) /\ \A i \in S : f[i] \in Nat /\ lines[i].amount = f[i]
  BY <1>1, Upto
<1>3. MapThenSumSet(LAMBDA i : lines[i].amount, S) = Cardinality(Units(S, f))
  BY <1>2, AmountsAdd
<1>4. Cardinality(Units(S, f)) \in Nat
  BY <1>2, UnitsAreFinite, FS_CardinalityType
<1> QED  BY <1>1, <1>3, <1>4 DEF Subtotal

LEMMA OrderPlaced ==
  ASSUME PricesTyped, NEW basket \in Baskets, NEW byWallet \in BOOLEAN, PlaceOrder(basket, byWallet)
  PROVE  OrderStands(order')
<1>1. PICK lines, rates : lines = [i \in DOMAIN basket |-> Line(basket[i])] /\ rates = Effective(shop)
  OBVIOUS
<1>2. PICK subtotal : subtotal = Subtotal(lines)
  OBVIOUS
<1>3. order' = [lines |-> lines, rates |-> rates, total |-> subtotal + Fee(subtotal, byWallet)]
  BY <1>1, <1>2 DEF PlaceOrder, Subtotal
<1>4. basket \in Seq(Job) /\ \A i \in DOMAIN basket : ~Refused(basket[i])
  BY PricingAssumption DEF PlaceOrder
<1>5. PICK n \in Nat : DOMAIN basket = 1..n
  BY <1>4
<1>6. \A i \in 1..n : LineStands(lines[i], rates) /\ lines[i].amount \in Nat
  <2>1. TAKE i \in 1..n
  <2>2. basket[i] \in Job /\ ~Refused(basket[i]) /\ lines[i] = Line(basket[i])
    BY <1>1, <1>4, <1>5
  <2> QED  BY <1>1, <2>2, LinesStand DEF PricesTyped
<1>7. DOMAIN lines = 1..n
  BY <1>1, <1>5
<1>8. subtotal \in Nat
  BY <1>2, <1>6, <1>7, SubtotalNat
<1>9. Fee(subtotal, byWallet) \in 0..FeeCap /\ FeeCap \in Nat
  BY <1>8, FeeIsCapped, JobsAssumption
<1>10. PICK total : total = subtotal + Fee(subtotal, byWallet)
  OBVIOUS
<1>11. total \in subtotal..(subtotal + FeeCap)
  BY <1>8, <1>9, <1>10
<1>12. PICK o : o = order'
  OBVIOUS
<1>13. o.lines = lines /\ o.rates = rates /\ o.total = total
  BY <1>3, <1>10, <1>12
<1>14. OrderStands(o)
  BY <1>2, <1>6, <1>7, <1>11, <1>13 DEF OrderStands
<1> QED  BY <1>12, <1>14

LEMMA PricesStayTyped ==
  ASSUME PricesTyped, PricingNext
  PROVE  PricesTyped'
<1>1. ASSUME UNCHANGED <<shop, desk>> PROVE PricesTyped'
  BY <1>1 DEF PricesTyped, Serving
<1>2. ASSUME shop' \in Shop, NEW d \in Desks, NEW q, SetDesk(d, q),
             q.on = "shop" => q.seen \in Shop /\ q.new \in Shop
      PROVE  PricesTyped'
  <2>1. desk' = [e \in Desks |-> IF e = d THEN q ELSE desk[e]]
    <3>1. desk' = [desk EXCEPT ![d] = q]
      BY <1>2 DEF SetDesk
    <3>2. desk = [e \in Desks |-> desk[e]]
      BY DEF PricesTyped
    <3> QED  BY <3>1, <3>2
  <2>2. desk' = [e \in Desks |-> desk'[e]] /\ \A e \in Desks : desk'[e] = IF e = d THEN q ELSE desk[e]
    BY <2>1
  <2> QED  BY <1>2, <2>2 DEF PricesTyped, Serving
<1>3. ASSUME NEW d \in Desks, NEW edit \in PlanEdits, UpdatePlan(d, edit) PROVE PricesTyped'
  <2>1. PICK q : SetDesk(d, q) /\ q.on = "plan"
    BY <1>3 DEF UpdatePlan
  <2> QED  BY <1>2, <1>3, <2>1 DEF UpdatePlan, PricesTyped
<1>4. ASSUME NEW d \in Desks, NEW owner \in BOOLEAN, NEW months \in Months, NEW percent \in Discounts,
             SetDiscount(d, owner, months, percent)
      PROVE  PricesTyped'
  <2>1. PICK q : SetDesk(d, q) /\ q.on = "rate"
    BY <1>4 DEF SetDiscount
  <2> QED  BY <1>2, <1>4, <2>1 DEF SetDiscount, PricesTyped
<1>5. ASSUME NEW d \in Desks, NEW given \in [single : Rates \cup {Unset}, double : Rates \cup {Unset}],
             SetPricing(d, given)
      PROVE  PricesTyped'
  <2>1. PICK new : new = Given(given, shop)
    OBVIOUS
  <2>2. PICK q : q = [on |-> "shop", seen |-> shop, new |-> new]
    OBVIOUS
  <2>3. SetDesk(d, q) /\ UNCHANGED shop /\ DuplexIsFair(Given(given, Effective(shop)))
    BY <1>5, <2>1, <2>2 DEF SetPricing
  <2>4. given \in [single : Nat \cup {Unset}, double : Nat \cup {Unset}] /\ shop \in Shop
    BY PricingAssumption DEF PricesTyped
  <2>5. new \in Shop
    BY <2>1, <2>3, <2>4, GivenFields
  <2>6. q.seen = shop /\ q.new = new
    BY <2>2
  <2> QED  BY <1>2, <2>3, <2>4, <2>5, <2>6
<1>6. ASSUME NEW d \in Desks, WritePlan(d) \/ WriteDiscount(d) \/ LeaveDesk(d) PROVE PricesTyped'
  <2>1. Free.on = "nothing"
    BY DEF Free
  <2> QED  BY <1>2, <1>6, <2>1 DEF WritePlan, WriteDiscount, LeaveDesk, PricesTyped
<1>7. ASSUME NEW d \in Desks, WritePricing(d) PROVE PricesTyped'
  <2>1. Free.on = "nothing" /\ SetDesk(d, Free)
    BY <1>7 DEF Free, WritePricing
  <2>2. PICK seen, new : seen = desk[d].seen /\ new = desk[d].new
    OBVIOUS
  <2>3. shop' = Written(shop, seen, new) /\ shop \in Shop /\ seen \in Shop /\ new \in Shop
    BY <1>7, <2>2 DEF WritePricing, PricesTyped
  <2>4. Written(shop, seen, new) \in Shop
    <3>1. PICK single, double :
            /\ single = IF new.single # seen.single THEN new.single ELSE shop.single
            /\ double = IF new.double # seen.double THEN new.double ELSE shop.double
      OBVIOUS
    <3>2. /\ DOMAIN shop = {"single", "double"}
          /\ single \in Nat \cup {Unset} /\ double \in Nat \cup {Unset}
      BY <2>3, <3>1, ShopFields
    <3>3. Written(shop, seen, new) = [c \in {"single", "double"} |-> IF c = "single" THEN single ELSE double]
      BY <3>1, <3>2 DEF Written
    <3>4. Written(shop, seen, new) = [single |-> single, double |-> double]
      BY <3>3
    <3> QED  BY <3>2, <3>4 DEF Shop, Cost
  <2> QED  BY <1>2, <2>1, <2>3, <2>4
<1>8. ASSUME \/ Subscribe \/ \E months \in Months : ClearOwnerDiscount(months)
             \/ \E basket \in Baskets, byWallet \in BOOLEAN : PlaceOrder(basket, byWallet)
      PROVE  PricesTyped'
  BY <1>1, <1>8 DEF Subscribe, ClearOwnerDiscount, PlaceOrder
<1> QED  BY <1>3, <1>4, <1>5, <1>6, <1>7, <1>8 DEF PricingNext

LEMMA JobsStart == PricingInit => JobsInv
<1> SUFFICES ASSUME PricingInit PROVE JobsInv
  OBVIOUS
<1>1. shop = [single |-> Unset, double |-> Unset] /\ desk = [d \in Desks |-> Free] /\ order = Unset
  BY DEF PricingInit
<1>2. shop \in Shop
  BY <1>1 DEF Shop, Cost
<1>3. Free.on = "nothing"
  BY DEF Free
<1>4. desk = [d \in Desks |-> desk[d]] /\ \A d \in Desks : ~Serving(d, "shop")
  BY <1>1, <1>3 DEF Serving
<1> QED  BY <1>1, <1>2, <1>4 DEF JobsInv, PricesTyped

LEMMA JobsStep == JobsInv /\ [PricingNext]_pricingVars => JobsInv'
<1> SUFFICES ASSUME JobsInv, [PricingNext]_pricingVars PROVE JobsInv'
  OBVIOUS
<1>1. CASE UNCHANGED pricingVars
  BY <1>1 DEF pricingVars, JobsInv, PricesTyped, Serving
<1>2. CASE PricingNext
  <2>1. PricesTyped'
    BY <1>2, PricesStayTyped DEF JobsInv
  <2>2. ASSUME NEW basket \in Baskets, NEW byWallet \in BOOLEAN, PlaceOrder(basket, byWallet)
        PROVE  JobsInv'
    BY <2>1, <2>2, OrderPlaced DEF JobsInv
  <2>3. ASSUME UNCHANGED order PROVE JobsInv'
    BY <2>1, <2>3 DEF JobsInv
  <2> QED
    BY <1>2, <2>2, <2>3 DEF PricingNext, Subscribe, ClearOwnerDiscount, UpdatePlan, SetPricing,
                            SetDiscount, WritePlan, WriteDiscount, WritePricing, LeaveDesk
<1> QED  BY <1>1, <1>2

\* Whatever is asked for in whatever order, crossed or not: an order costs what its pages
\* come to sheet by sheet, with at most the capped fee, and the range stored says the
\* pages that were priced, for any documents, ranges, copies and prices
\* (orders/quotes.py, printing/options.py).
THEOREM BillingJobsPayForTheirPaper == MCSpec => []JobsPayForTheirPaper
<1>1. MCInit => JobsInv
  BY JobsStart DEF MCInit
<1>2. JobsInv /\ [MCNext]_mcVars => JobsInv'
  <2>1. SUFFICES ASSUME JobsInv, [MCNext]_mcVars PROVE JobsInv'
    OBVIOUS
  <2>2. [PricingNext]_pricingVars
    BY <2>1 DEF MCNext, mcVars, pricingVars
  <2> QED  BY <2>1, <2>2, JobsStep
<1>3. JobsInv => JobsPayForTheirPaper
  <2> SUFFICES ASSUME OrderStands(order) PROVE OrdersPayForTheirPaper /\ StoredRangesPrintTheSame
    BY DEF JobsInv, JobsPayForTheirPaper, OrdersPayForTheirPaper, StoredRangesPrintTheSame
  <2>1. StoredRangesPrintTheSame
    BY DEF OrderStands, LineStands, StoredRangesPrintTheSame
  <2>2. OrdersPayForTheirPaper
    BY DEF OrderStands, LineStands, OrdersPayForTheirPaper, Subtotal
  <2> QED  BY <2>1, <2>2
<1> QED  BY <1>1, <1>2, <1>3, PTL DEF MCSpec, mcVars

=============================================================================
