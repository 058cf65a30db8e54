----------------------------- MODULE PrintJobs -----------------------------
(***************************************************************************)
(* What a print job comes to: the pages it selects (printing/options.py),   *)
(* the sheets they take, and their price (orders/quotes.py, core/money.py). *)
(* Operators only; Pricing places orders with them.  Money is in paise.     *)
(*                                                                         *)
(* A page range is a sequence of tokens <<first, last>>, or Unset for every  *)
(* page; how one is spelt is left out.                                      *)
(***************************************************************************)
EXTENDS Money, Sequences, FiniteSets, FiniteSetsExt

CONSTANTS Unset,     \* no value
          MAX_COPIES,
          FeeCap     \* FEE_CAP_INR

ASSUME JobsAssumption == FeeCap \in Nat /\ Unset \notin Seq(Int \X Int)

\* total: the pages of the document.  range: as typed.
Job == [total : Nat, duplex : BOOLEAN, copies : Nat, range : {Unset} \cup Seq(Int \X Int)]

\* Only pages the document has, written forwards, and at least one of them.
Refused(job) ==
    \/ job.total < 1 \/ job.copies \notin 1..MAX_COPIES
    \/ job.range = <<>>
    \/ job.range # Unset /\ \E i \in DOMAIN job.range :
          LET first == job.range[i][1]
              last == job.range[i][2]
          IN  first < 1 \/ last < first \/ last > job.total

\* parse_page_range: the pages selected, each once.
Selected(range, total) ==
    IF range = Unset THEN 1..total
    ELSE UNION {range[i][1]..range[i][2] : i \in DOMAIN range}

\* The runs of consecutive pages.
PageRuns(pages) ==
    {r \in pages \X pages : /\ r[1]..r[2] \subseteq pages /\ r[1] <= r[2]
                            /\ r[1] - 1 \notin pages /\ r[2] + 1 \notin pages}

\* format_page_range: the runs, ascending.
Format(pages) ==
    CHOOSE range \in [1..Cardinality(PageRuns(pages)) -> PageRuns(pages)] :
        \A i, j \in DOMAIN range : i < j => range[i][1] < range[j][1]

\* PrintOptions.create: every page has one form, Unset.
Normalised(job) ==
    LET pages == Selected(job.range, job.total)
    IN  IF pages = 1..job.total THEN Unset ELSE Format(pages)

\* workload: sheets printed on both sides, and on one.
BothSides(duplex, selected, copies) == IF duplex THEN (selected \div 2) * copies ELSE 0

\* Mutant: copies share a sheet.
OneSideShared(duplex, selected, copies) ==
    IF duplex THEN (selected * copies) % 2 ELSE selected * copies

\* Each copy ends on a sheet of its own.
OneSide(duplex, selected, copies) ==
    IF duplex THEN (selected % 2) * copies ELSE selected * copies

Sheets(duplex, selected, copies) ==
    BothSides(duplex, selected, copies) + OneSide(duplex, selected, copies)

\* quote_line, by the two rates of the kiosk: a sheet printed on one side is charged
\* as such whatever the job asked for.
Amount(duplex, selected, copies, rates) ==
    rates.double * BothSides(duplex, selected, copies)
    + rates.single * OneSide(duplex, selected, copies)

\* gateway_fee: two percent, and no more than the cap.  A wallet pays none.
Fee(subtotal, byWallet) ==
    IF byWallet THEN 0
    ELSE LET percent == HalfUp(2 * subtotal, 100)
         IN  IF percent < FeeCap THEN percent ELSE FeeCap

-----------------------------------------------------------------------------
(* Reference definitions: the job laid out on paper, side by side.         *)

\* The k-th page selected, in copy c, is on this sheet.
SheetOf(duplex, c, k) == <<c, IF duplex THEN (k + 1) \div 2 ELSE k>>

Layout(duplex, selected, copies) ==
    {SheetOf(duplex, c, k) : c \in 1..copies, k \in 1..selected}

SidesOn(sheet, duplex, selected) ==
    Cardinality({k \in 1..selected : SheetOf(duplex, sheet[1], k) = sheet})

LaidOutAmount(duplex, selected, copies, rates) ==
    MapThenSumSet(LAMBDA sheet : IF SidesOn(sheet, duplex, selected) = 2
                                 THEN rates.double ELSE rates.single,
                  Layout(duplex, selected, copies))
=============================================================================
