------------------------------- MODULE Alerts -------------------------------
(***************************************************************************)
(* What operators are told (ops/alerts.py, jobs/tasks.py, notifying.py).    *)
(* A sweep looks at the shops that sell, raises or bumps an alert for each  *)
(* that is in trouble and writes to people when it is new, and stands down  *)
(* the alert of each that is well.  A request whose mail does not go out    *)
(* raises an alert in its own transaction.  Of a key at most one alert is   *)
(* open: a partial unique index, which decides between two inserts.         *)
(***************************************************************************)
EXTENDS Integers, Transactions

CONSTANTS Shops, Mail, \* what an alert can be about: a shop, or mail as a whole
          Works        \* what requests do besides, and answer for

ASSUME AlertsAssumption == Mail \notin Shops /\ None \notin Shops \cup {Mail}

MaxUnaccounted == 2 \* bound: mails counted beyond the alerts they are about

VARIABLES open,     \* the keys of the open alerts
          troubled, \* shops offline, or low on paper
          selling,  \* shops at the stage LIVE
          told,     \* told[k]: mails about shop k, less the alerts of it ever committed
          undone,   \* shops somebody was written to about in a transaction rolled back
          answered, \* work somebody was told is done
          kept      \* work that was committed

alertVars == <<open, troubled, selling, told, undone, answered, kept, session>>
shopVars == <<troubled, selling>>

AlertsInit ==
    /\ open = {} /\ troubled = {} /\ selling = {}
    /\ told = [k \in Shops |-> 0] /\ undone = {}
    /\ answered = {} /\ kept = {}
    /\ NobodyServed

\* A transaction: the keys it has still to look at, the one it is inserting, the alerts
\* it has inserted and closed, and work of its own, if it has not been rolled back.
Transaction(what, todo, work) ==
    [on |-> what, todo |-> todo, at |-> None, new |-> {}, closed |-> {},
     work |-> work, asked |-> work]

Open(s) == session[s].on \in {"sweep", "work"}
InsertedBy(s) == IF Open(s) THEN session[s].new ELSE {}
Set(s, state) == session' = [session EXCEPT ![s] = state]
Told(k) == IF k \in Shops /\ told[k] < MaxUnaccounted THEN [told EXCEPT ![k] = @ + 1] ELSE told

\* watch_offline_kiosks and watch_paper, one at a time by the lock of the job.
StartSweep(s) ==
    /\ selling # {} /\ \A r \in Sessions : ~Serving(r, "sweep")
    /\ Start(s, Transaction("sweep", selling, {}))
    /\ UNCHANGED <<open, shopVars, told, undone, answered, kept>>

\* A registration, a reset, an invitation: its rows are written, its mail did not go out.
StartRequest(s, w) ==
    /\ w \notin answered /\ \A r \in Sessions : Serving(r, "work") => w \notin session[r].asked
    /\ Start(s, Transaction("work", {Mail}, {w}))
    /\ UNCHANGED <<open, shopVars, told, undone, answered, kept>>

Looks(s, k) == Open(s) /\ session[s].at = None /\ k \in session[s].todo
Trouble(k) == k = Mail \/ k \in troubled

\* resolve_by_key of what the sweep finds well.
StandDown(s, k) ==
    /\ Looks(s, k) /\ ~Trouble(k)
    /\ Set(s, [session[s] EXCEPT !.todo = @ \ {k}, !.closed = @ \cup ({k} \cap open)])
    /\ UNCHANGED <<open, shopVars, told, undone, answered, kept>>

\* Mutant: every pass writes to people.
BumpTold(s, k) ==
    /\ Looks(s, k) /\ Trouble(k) /\ k \in open
    /\ Set(s, [session[s] EXCEPT !.todo = @ \ {k}])
    /\ told' = Told(k)
    /\ UNCHANGED <<open, shopVars, undone, answered, kept>>

\* raise_alert finds one open: it is counted, and nobody is written to.
Bump(s, k) ==
    /\ Looks(s, k) /\ Trouble(k) /\ k \in open
    /\ Set(s, [session[s] EXCEPT !.todo = @ \ {k}])
    /\ UNCHANGED <<open, shopVars, told, undone, answered, kept>>

\* It finds none, and is about to insert one.
FindNone(s, k) ==
    /\ Looks(s, k) /\ Trouble(k) /\ k \notin open
    /\ Set(s, [session[s] EXCEPT !.at = k])
    /\ UNCHANGED <<open, shopVars, told, undone, answered, kept>>

\* The insert waits while another transaction holds the key.  About a shop people are
\* written to at once; a mail that fails is one more thing to raise.
Insert(s, mailFails) ==
    LET k == session[s].at
    IN  /\ Open(s) /\ k # None /\ k \notin open
        /\ \A r \in Sessions \ {s} : k \notin InsertedBy(r)
        /\ mailFails => k \in Shops /\ Mail \notin session[s].new
        /\ Set(s, [session[s] EXCEPT !.at = None, !.new = @ \cup {k},
                      !.todo = (@ \ {k}) \cup IF mailFails THEN {Mail} ELSE {}])
        /\ told' = Told(k)
        /\ UNCHANGED <<open, shopVars, undone, answered, kept>>

\* Another one is there: the transaction is rolled back, all of it, and the handler goes
\* on with the row that won.
InsertRefused(s) ==
    /\ Open(s) /\ session[s].at # None /\ session[s].at \in open
    /\ Set(s, [session[s] EXCEPT !.at = None, !.new = {}, !.closed = {}, !.work = {}])
    /\ undone' = undone \cup (session[s].new \cap Shops)
    /\ UNCHANGED <<open, shopVars, told, answered, kept>>

CommitAlerts(s) ==
    /\ Open(s) /\ session[s].at = None /\ session[s].todo = {}
    /\ open' = (open \ session[s].closed) \cup session[s].new
    /\ told' = [k \in Shops |-> told[k] - IF k \in session[s].new THEN 1 ELSE 0]
    /\ kept' = kept \cup session[s].work
    /\ answered' = answered \cup session[s].asked
    /\ Finish(s)
    /\ UNCHANGED <<shopVars, undone>>

\* A sweep that raises, or a worker that dies, after people were written to.
AlertsFail(s) ==
    /\ Open(s)
    /\ Finish(s)
    /\ undone' = undone \cup (session[s].new \cap Shops)
    /\ UNCHANGED <<open, shopVars, told, answered, kept>>

\* An operator closes an alert.
Resolve(k) ==
    /\ k \in open
    /\ open' = open \ {k}
    /\ UNCHANGED <<shopVars, told, undone, answered, kept, session>>

ShopTurns(k) ==
    /\ troubled' = IF k \in troubled THEN troubled \ {k} ELSE troubled \cup {k}
    /\ UNCHANGED <<open, selling, told, undone, answered, kept, session>>

ShopMoves(k) ==
    /\ selling' = IF k \in selling THEN selling \ {k} ELSE selling \cup {k}
    /\ UNCHANGED <<open, troubled, told, undone, answered, kept, session>>

AlertsNext ==
    \/ \E k \in Shops : ShopTurns(k) \/ ShopMoves(k)
    \/ \E k \in Shops \cup {Mail} : Resolve(k)
    \/ \E s \in Sessions :
          \/ StartSweep(s) \/ \E w \in Works : StartRequest(s, w)
          \/ \E k \in Shops \cup {Mail} : StandDown(s, k) \/ Bump(s, k) \/ FindNone(s, k)
          \/ \E mailFails \in BOOLEAN : Insert(s, mailFails)
          \/ InsertRefused(s) \/ CommitAlerts(s) \/ AlertsFail(s)

AlertsSpec == AlertsInit /\ [][AlertsNext]_alertVars

-----------------------------------------------------------------------------
(* Properties                                                              *)

AlertsTypeOK ==
    /\ open \subseteq Shops \cup {Mail}
    /\ troubled \subseteq Shops /\ selling \subseteq Shops /\ undone \subseteq Shops
    /\ told \in [Shops -> 0..MaxUnaccounted]
    /\ answered \subseteq Works /\ kept \subseteq answered

\* People hear once of one trouble, not once per sweep (tasks.watch_offline_kiosks,
\* watch_paper), unless a transaction that had written to them was rolled back.
ToldOnceAnAlert ==
    \A k \in Shops \ undone : told[k] = IF \E s \in Sessions : k \in InsertedBy(s) THEN 1 ELSE 0

\* What a request answered for is there: two reporters who race "roll back to before the
\* insert" (alerts.raise_alert).
WorkIsKept == answered \subseteq kept
=============================================================================
