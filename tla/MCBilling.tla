----------------------------- MODULE MCBilling -----------------------------
(***************************************************************************)
(* Billing of one owner, the prices of the shop and the books of what it    *)
(* took: the three share no row, so a behaviour is of one part.  crossed    *)
(* tells the behaviours in which two requests that decide about one thing   *)
(* ever overlapped; rate is the price negotiated while nothing was being    *)
(* bought, for as long as renewals and extensions follow one another.      *)
(***************************************************************************)
EXTENDS Billing, Pricing, Earnings, TLC

VARIABLES part, crossed, rate

MCPlanEdits ==
    {e \in [monthly : {Unset, 3}, floor : {Unset, 2, 3}, ceiling : {Unset, 2, 3}, active : {Unset, FALSE}] :
        Cardinality({c \in DOMAIN e : e[c] # Unset}) = 1}

J(total, duplex, copies, range) == [total |-> total, duplex |-> duplex, copies |-> copies, range |-> range]

MCBaskets ==
    {<<J(3, duplex, copies, Unset)>> : duplex \in BOOLEAN, copies \in {2, 4}}
    \cup {<<J(4, TRUE, 1, range)>> :
            range \in {<<>>, <<<<3, 2>>>>, <<<<4, 5>>>>, <<<<0, 1>>>>, <<<<4, 4>>, <<1, 2>>>>, <<<<2, 4>>, <<1, 1>>>>}}
    \cup {<<>>, <<J(3, TRUE, 3, Unset), J(2, FALSE, 1, <<<<2, 2>>>>)>>}

MCDefaults == [single |-> 2, double |-> 3]

\* Two that place a term or a trial in time, two that put one purchase in force by
\* copies loaded together, or one that cancels the purchase another puts in force.
Crossed == \E s, r \in Sessions :
    /\ s # r
    /\ \/ session[s].pc \in {"term", "trial"} /\ session[r].pc \in {"term", "trial"}
       \/ At(s, "term") /\ At(r, "capture") /\ session[s].row = session[r].row
       \/ At(s, "buying") /\ session[r].pc \in {"capture", "term"}
          /\ session[s].row = session[r].row

\* Two changes of one row.
PricesCrossed == \E d, e \in Desks : d # e /\ ~Serving(d, "nothing") /\ desk[d].on = desk[e].on

\* The prices just negotiated, of those in force.
JustNegotiated == {rows'[i].negotiated : i \in {j \in InForce : rows'[j].negotiated # rows[j].negotiated}}

\* Nothing is in force, or a trial was added to a term.
RateIsUnclear ==
    \/ InForce' = {}
    \/ \E i, j \in InForce' : i < j /\ rows'[i].total > 0 /\ rows'[j].total = 0

\* A set of one price, empty while the rate is unclear, and when it is set while a
\* purchase is open.
RateAfter ==
    IF RateIsUnclear THEN {}
    ELSE IF JustNegotiated = {} THEN rate
    ELSE IF Pending = {} /\ \A s \in Sessions : ~At(s, "buying") THEN JustNegotiated ELSE {}

MCInit == Init /\ PricingInit /\ EarningsInit /\ part \in {"terms", "prices", "books"} /\ crossed = FALSE /\ rate = {}

MCNext ==
    /\ ~crossed /\ part' = part
    /\ \/ /\ part = "terms" /\ Next
          /\ crossed' = Crossed' /\ rate' = RateAfter /\ UNCHANGED <<pricingVars, earningsVars>>
       \/ /\ part = "prices" /\ PricingNext
          /\ crossed' = PricesCrossed' /\ UNCHANGED <<vars, earningsVars, rate>>
       \/ /\ part = "books" /\ EarningsNext
          /\ UNCHANGED <<vars, pricingVars, crossed, rate>>

MCSpec == MCInit /\ [][MCNext]_<<vars, pricingVars, earningsVars, part, crossed, rate>>

\* Unless they crossed: terms follow one another, captured money keeps its term, trials do
\* not pile up, and no delivery moves a term (purchase.py, subscriptions.py).
TermsStandUnlessCrossed ==
    /\ [](~crossed => TermsApart /\ CapturedMoneyHasItsTerm /\ OneTrialUnlessBought)
    /\ [][~crossed' => ~TermsMove]_<<vars, crossed, rate>>

\* Unless they crossed: a band admits a price, and duplex pays.
PricesAreFairUnlessCrossed == part = "prices" /\ ~crossed => BandsAdmitAPrice /\ DuplexPays

\* An order pays for the paper it takes, and the range stored prints what was priced.
JobsPayForTheirPaper == part = "prices" => OrdersPayForTheirPaper /\ StoredRangesPrintTheSame

\* A negotiated price goes with the owner from one term to the next
\* (purchase.start_purchase, "the rate this owner has already been promised").
RenewalsKeepTheRate ==
    rate # {} /\ ~crossed => \A i \in Current(InForce) : Negotiated(i) \in rate

\* What an owner was promised stands: the price negotiated, and the rate.
PromisedRatesStand == []RenewalsKeepTheRate /\ PromisesStand

\* The books an owner does accounts by: the reports agree with each other, the export
\* reconciles with them, and what they said of the past stands (payments/earnings.py).
BooksStand ==
    /\ [](part = "books" => ReportsAgree /\ ExportReconcilesUnlessParted)
    /\ [][part = "books" => TakingsStand]_earningsVars

Symmetry == Permutations(Sessions)
=============================================================================
