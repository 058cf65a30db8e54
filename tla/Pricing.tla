------------------------------ MODULE Pricing ------------------------------
(***************************************************************************)
(* Prices, from the plan down to the order.  An admin sets what a plan      *)
(* costs and the band it puts on a page (billing/plans.py), the list's and  *)
(* an owner's own discounts (billing/discounts.py); an owner sets the       *)
(* prices of a shop inside the band of the plan (kiosks/pricing.py); a      *)
(* student's order is quoted by them once (orders/quotes.py).               *)
(*                                                                         *)
(* A request loads a row, is judged by it, and writes at its commit the     *)
(* columns that differ from what it loaded: two of them can each be right   *)
(* and together be wrong.  One colour: the other has columns of its own and *)
(* the same rules.                                                          *)
(***************************************************************************)
EXTENDS PrintJobs

CONSTANTS Months,    \* ALLOWED_DURATIONS
          PlanEdits, \* what an admin may ask of a plan at once, Unset for what is not given
          Rates,     \* what a page may cost
          Discounts, \* percents asked for
          Defaults,  \* DEFAULT_PRICES
          Baskets,   \* what students order: sequences of jobs
          Desks,     \* requests that can be in flight together
          MaxChanges \* bound: commits of a change

Cost == Nat \cup {Unset}
Plan == [monthly : Nat, floor : Cost, ceiling : Cost, active : BOOLEAN]
PlanEdit == [monthly : Cost, floor : Cost, ceiling : Cost, active : {Unset, TRUE, FALSE}]
Shop == [single : Cost, double : Cost]

ASSUME PricingAssumption ==
    /\ Unset \notin Nat /\ PlanEdits \subseteq PlanEdit
    /\ Rates \subseteq Nat /\ Discounts \subseteq Int /\ Baskets \subseteq Seq(Job)
    /\ Defaults \in [single : Nat, double : Nat]
    /\ MaxChanges \in Nat

VARIABLES plan,       \* the plan the owner is on
          subscribed, \* active_subscription names it
          ladder,     \* PlanDiscount, by months
          promised,   \* OwnerDiscount, by months
          shop,       \* the prices the kiosk has of its own
          order,      \* the order placed last, or Unset
          changes,
          desk        \* desk[d]: the request d serves, with the row it loaded

pricingVars == <<plan, subscribed, ladder, promised, shop, order, changes, desk>>

Free == [on |-> "nothing"]
Serving(d, what) == desk[d].on = what
SetDesk(d, request) == desk' = [desk EXCEPT ![d] = request]

\* What is written to a row: the columns that differ from the row loaded.
Written(row, seen, new) ==
    [c \in DOMAIN row |-> IF new[c] # seen[c] THEN new[c] ELSE row[c]]

Given(edit, row) ==
    [c \in DOMAIN row |-> IF c \in DOMAIN edit /\ edit[c] # Unset THEN edit[c] ELSE row[c]]

\* effective_prices
Effective(row) ==
    [c \in DOMAIN row |-> IF row[c] = Unset THEN Defaults[c] ELSE row[c]]

\* _check_band
AdmitsAPrice(p) == p.floor # Unset /\ p.ceiling # Unset => p.floor <= p.ceiling

\* price_band_for: unbounded without a subscription.
Within(price) ==
    subscribed => /\ plan.floor # Unset => price >= plan.floor
                  /\ plan.ceiling # Unset => price <= plan.ceiling

\* A sheet printed on both sides costs no less than one printed on one side, and no
\* more than two of them.
DuplexIsFair(rates) == rates.single <= rates.double /\ rates.double <= 2 * rates.single

ASSUME DefaultsAreFair == DuplexIsFair(Defaults)

PricingInit ==
    /\ plan \in [monthly : {CHOOSE r \in Rates : TRUE}, floor : {Unset}, ceiling : {Unset}, active : {TRUE}]
    /\ subscribed = FALSE
    /\ ladder = [m \in Months |-> Unset] /\ promised = [m \in Months |-> Unset]
    /\ shop = [single |-> Unset, double |-> Unset]
    /\ order = Unset
    /\ changes = 0
    /\ desk = [d \in Desks |-> Free]

\* A subscription comes into force or lapses.
Subscribe ==
    /\ subscribed' = ~subscribed
    /\ UNCHANGED <<plan, ladder, promised, shop, order, changes, desk>>

-----------------------------------------------------------------------------
(* An admin's changes.                                                     *)

\* Mutant: a band is judged by what the request gives alone.
UpdatePlanAsGiven(d, edit) ==
    /\ Serving(d, "nothing") /\ changes < MaxChanges
    /\ AdmitsAPrice(edit)
    /\ SetDesk(d, [on |-> "plan", seen |-> plan, new |-> Given(edit, plan)])
    /\ UNCHANGED <<plan, subscribed, ladder, promised, shop, order, changes>>

\* What is not given stays as it was loaded, and the whole is judged.
UpdatePlan(d, edit) ==
    /\ Serving(d, "nothing") /\ changes < MaxChanges
    /\ LET new == Given(edit, plan)
       IN  /\ AdmitsAPrice(new)
           /\ SetDesk(d, [on |-> "plan", seen |-> plan, new |-> new])
    /\ UNCHANGED <<plan, subscribed, ladder, promised, shop, order, changes>>

WritePlan(d) ==
    /\ Serving(d, "plan")
    /\ plan' = Written(plan, desk[d].seen, desk[d].new)
    /\ changes' = changes + 1
    /\ SetDesk(d, Free)
    /\ UNCHANGED <<subscribed, ladder, promised, shop, order>>

\* One rate for each duration: the row found is changed, and one is added when none is.
SetDiscount(d, owner, months, percent) ==
    /\ Serving(d, "nothing") /\ changes < MaxChanges
    /\ percent \in 0..100
    /\ SetDesk(d, [on |-> "rate", owner |-> owner, months |-> months, percent |-> percent,
                   seen |-> IF owner THEN promised[months] ELSE ladder[months]])
    /\ UNCHANGED <<plan, subscribed, ladder, promised, shop, order, changes>>

\* A row added meanwhile refuses another, and one cleared meanwhile is not found.
WriteDiscount(d) ==
    LET r == desk[d]
        row == IF r.owner THEN promised[r.months] ELSE ladder[r.months]
    IN  /\ Serving(d, "rate") /\ (r.seen = Unset) = (row = Unset)
        /\ IF r.owner
           THEN promised' = [promised EXCEPT ![r.months] = r.percent] /\ UNCHANGED ladder
           ELSE ladder' = [ladder EXCEPT ![r.months] = r.percent] /\ UNCHANGED promised
        /\ changes' = changes + 1
        /\ SetDesk(d, Free)
        /\ UNCHANGED <<plan, subscribed, shop, order>>

ClearOwnerDiscount(months) ==
    /\ promised[months] # Unset
    /\ promised' = [promised EXCEPT ![months] = Unset]
    /\ UNCHANGED <<plan, subscribed, ladder, shop, order, changes, desk>>

\* Mutant: the list's discount, when there is one.
DiscountForList(months) ==
    IF ladder[months] # Unset THEN ladder[months]
    ELSE IF promised[months] # Unset THEN promised[months] ELSE 0

\* _discount_for: what the owner was promised, or else the list's, or none.
DiscountFor(months) ==
    IF promised[months] # Unset THEN promised[months]
    ELSE IF ladder[months] # Unset THEN ladder[months] ELSE 0

\* quote_subscription, at the plan's price; Billing adds a negotiated one.
Total(months) == HalfUp(plan.monthly * months * (100 - DiscountFor(months)), 100)

-----------------------------------------------------------------------------
(* The shop and its students.                                              *)

\* Prices given are judged by the band, and the pair they make with those of the
\* shop by what it means; all are judged before any is written.
SetPricing(d, given) ==
    /\ Serving(d, "nothing") /\ changes < MaxChanges
    /\ \E c \in DOMAIN given : given[c] # Unset
    /\ \A c \in DOMAIN given : given[c] # Unset => Within(given[c])
    /\ DuplexIsFair(Given(given, Effective(shop)))
    /\ SetDesk(d, [on |-> "shop", seen |-> shop, new |-> Given(given, shop)])
    /\ UNCHANGED <<plan, subscribed, ladder, promised, shop, order, changes>>

WritePricing(d) ==
    /\ Serving(d, "shop")
    /\ shop' = Written(shop, desk[d].seen, desk[d].new)
    /\ changes' = changes + 1
    /\ SetDesk(d, Free)
    /\ UNCHANGED <<plan, subscribed, ladder, promised, order>>

\* place_order: one line for each job.  The rates are kept for the properties.
Line(job) ==
    LET pages == Cardinality(Selected(job.range, job.total))
    IN  [job |-> job, range |-> Normalised(job),
         sheets |-> Sheets(job.duplex, pages, job.copies),
         amount |-> Amount(job.duplex, pages, job.copies, Effective(shop))]

PlaceOrder(basket, byWallet) ==
    /\ basket # <<>> /\ \A i \in DOMAIN basket : ~Refused(basket[i])
    /\ LET lines == [i \in DOMAIN basket |-> Line(basket[i])]
           subtotal == MapThenSumSet(LAMBDA i : lines[i].amount, DOMAIN lines)
       IN  order' = [lines |-> lines, rates |-> Effective(shop),
                     total |-> subtotal + Fee(subtotal, byWallet)]
    /\ UNCHANGED <<plan, subscribed, ladder, promised, shop, changes, desk>>

LeaveDesk(d) ==
    /\ ~Serving(d, "nothing")
    /\ SetDesk(d, Free)
    /\ UNCHANGED <<plan, subscribed, ladder, promised, shop, order, changes>>

-----------------------------------------------------------------------------

PricingNext ==
    \/ Subscribe
    \/ \E months \in Months : ClearOwnerDiscount(months)
    \/ \E basket \in Baskets, byWallet \in BOOLEAN : PlaceOrder(basket, byWallet)
    \/ \E d \in Desks :
          \/ \E edit \in PlanEdits : UpdatePlan(d, edit)
          \/ \E given \in [single : Rates \cup {Unset}, double : Rates \cup {Unset}] : SetPricing(d, given)
          \/ \E owner \in BOOLEAN, months \in Months, percent \in Discounts :
                SetDiscount(d, owner, months, percent)
          \/ WritePlan(d) \/ WriteDiscount(d) \/ WritePricing(d) \/ LeaveDesk(d)

PricingSpec == PricingInit /\ [][PricingNext]_pricingVars

-----------------------------------------------------------------------------
(* Properties                                                              *)

PricingTypeOK ==
    /\ plan \in Plan /\ subscribed \in BOOLEAN
    /\ ladder \in [Months -> {Unset} \cup 0..100] /\ promised \in [Months -> {Unset} \cup 0..100]
    /\ shop \in Shop
    /\ changes \in Nat

\* No plan has a band no price fits in, however its two ends are moved one by one
\* (plans._check_band, "a baffling 400 on a pricing form a long way from the plan").
BandsAdmitAPrice == AdmitsAPrice(plan)

\* Whatever prices a shop was given, one by one, with its band where it was then: a
\* job never costs more double-sided than single-sided, and never less for another
\* page (pricing.set_pricing, "duplex is a trap rather than a saving").
DuplexPays ==
    \A selected \in 1..4, copies \in 1..2 :
        LET cost(duplex, n) == Amount(duplex, n, copies, Effective(shop))
        IN  /\ cost(TRUE, selected) <= cost(FALSE, selected)
            /\ \A duplex \in BOOLEAN : cost(duplex, selected) <= cost(duplex, selected + 1)

\* An order costs what its pages come to when they are laid out sheet by sheet at the
\* prices of its moment, with at most the capped fee, and takes that many sheets from
\* the tray, whatever is edited later (orders/quotes.py).
OrdersPayForTheirPaper ==
    order # Unset =>
        /\ \A i \in DOMAIN order.lines :
              LET line == order.lines[i]
                  pages == Cardinality(Selected(line.job.range, line.job.total))
              IN  /\ line.sheets = Cardinality(Layout(line.job.duplex, pages, line.job.copies))
                  /\ line.amount = LaidOutAmount(line.job.duplex, pages, line.job.copies, order.rates)
        /\ LET subtotal == MapThenSumSet(LAMBDA i : order.lines[i].amount, DOMAIN order.lines)
           IN  order.total \in subtotal..(subtotal + FeeCap)

\* The range that was stored says the pages that were priced, in the one form it has:
\* ascending, no two of its runs touching (options.format_page_range, "the string
\* stored, the string priced against, and the string sent to the printer").
StoredRangesPrintTheSame ==
    order # Unset => \A i \in DOMAIN order.lines :
        LET line == order.lines[i]
        IN  /\ Selected(line.range, line.job.total) = Selected(line.job.range, line.job.total)
            /\ line.range # Unset => \A j \in 2..Len(line.range) :
                  line.range[j][1] > line.range[j - 1][2] + 1

\* What an owner was promised stands, whatever becomes of the list (discounts.
\* set_owner_discount, "overriding the published ladder").
PromisesStand ==
    [][\A months \in Months :
          promised[months] # Unset /\ promised'[months] = promised[months]
          /\ plan'.monthly = plan.monthly => Total(months)' = Total(months)]_pricingVars

\* Not held, one request at a time: a shop that set no price of its own charges the
\* default, and a band that moves leaves the prices where they are.
PricesStayInTheBand ==
    \A c \in DOMAIN shop : Within(Effective(shop)[c])
=============================================================================
