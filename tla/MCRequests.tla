----------------------------- MODULE MCRequests -----------------------------
(***************************************************************************)
(* Seven things that the requests and jobs of one server do, for TLC.  They *)
(* share no row, so a behaviour is about one of them.                      *)
(***************************************************************************)
EXTENDS Links, PaymentKeys, Commands, Documents, Alerts, Sweeps, RateLimits, TLC

VARIABLES part,    \* which of the seven
          crossed  \* two requests about the same thing have been open together

linkRows == <<links, barred, holder, staff, uses, left>>
keyRows == <<config, changes, requests>>
commandRows == <<rowVars, wakeVars>>
documentRows == <<rows, files, old, order, task>>
alertRows == <<open, shopVars, told, undone, answered, kept>>
limitRows == <<shared, reachable, counts, passed, blind>>

vars == <<linkRows, keyRows, commandRows, documentRows, alertRows, limitRows, sweepVars,
          session, part, crossed>>

Parts == {"links", "keys", "commands", "documents", "alerts", "limits", "sweeps"}

\* One account counts for itself, or all of an address for one.
MCRules == <<"minute", "hour">>
MCCeiling == <<1, 1>>

MCInit ==
    /\ part \in Parts /\ crossed = FALSE
    /\ LinksInit /\ KeysInit /\ CommandsInit /\ DocumentsInit /\ AlertsInit /\ LimitsInit /\ SweepsInit
    /\ shared => part = "limits"

\* What a request is about: links of one kind, the keys, a kind of command or a result, a
\* document.  A claim locks its rows, and crosses nothing; neither do the other parts.
About(s) ==
    CASE part = "links" ->
            {IF Serving(s, "issue") THEN session[s].kind ELSE links[session[s].link].kind}
      [] part = "keys" -> {"keys"}
      [] part = "commands" ->
            {IF session[s].on \in {"claim", "wake"} THEN s
             ELSE IF Serving(s, "ask") THEN session[s].kind ELSE "results"}
      [] part = "documents" -> session[s].docs
      [] OTHER -> {}

Busy == {s \in Sessions : session[s] # Idle}

\* A file is being deleted whose document has an order: the order is not paid yet.
DeletedUnderAnOrder ==
    /\ part = "documents"
    /\ \E s \in Busy : /\ session[s].on \in {"purge", "purged", "delete"}
                       /\ \E d \in session[s].docs : order[d] = "placed"

Crosses ==
    \/ \E s, r \in Busy : s # r /\ About(s) \cap About(r) # {}
    \/ DeletedUnderAnOrder

\* A worker dies between what it did to the disk and its commit.
LeavesTheDisk ==
    /\ part = "documents"
    /\ \E s \in Busy : session[s].on \in {"upload", "delete", "purged"} /\ DocumentFails(s)

Still(one, rest) == IF part = one THEN TRUE ELSE UNCHANGED rest

Elsewhere ==
    /\ Still("links", linkRows) /\ Still("keys", keyRows) /\ Still("commands", commandRows)
    /\ Still("documents", documentRows) /\ Still("alerts", alertRows)
    /\ Still("limits", limitRows) /\ Still("sweeps", sweepVars)
    /\ part = "sweeps" => UNCHANGED session
    /\ part' = part
    /\ crossed' = (crossed \/ Crosses \/ LeavesTheDisk)

\* Once two have crossed the commands and the documents go on: there is more to hold there.
MCNext ==
    /\ crossed => part \in {"commands", "documents"}
    /\ \/ part = "links" /\ LinksNext
       \/ part = "keys" /\ KeysNext
       \/ part = "commands" /\ CommandsNext
       \/ part = "documents" /\ DocumentsNext
       \/ part = "alerts" /\ AlertsNext
       \/ part = "limits" /\ LimitsNext
       \/ part = "sweeps" /\ SweepsNext
    /\ Elsewhere

\* The machine asks again, the watch and the jobs come round.
ComesRound ==
    /\ \/ part = "commands" /\ \E s \in Sessions : ClaimCommands(s)
       \/ part = "alerts" /\ \E s \in Sessions : StartSweep(s)
       \/ part = "sweeps" /\ \E w \in Workers : RunDue(w)
    /\ Elsewhere

\* And what is begun again and again is not rolled back every time.
GetsDone ==
    /\ \/ part = "commands" /\ \E s \in Sessions, arrives \in BOOLEAN : CommitClaim(s, arrives)
       \/ part = "alerts" /\ \E s \in Sessions : Serving(s, "sweep") /\ CommitAlerts(s)
       \/ part = "sweeps" /\ \E w \in Workers : CommitSweep(w)
    /\ Elsewhere

LooksAround == part = "alerts" /\ (\E s \in Sessions, k \in Shops : StandDown(s, k)) /\ Elsewhere

\* Time passes, workers come up, requests and jobs end one way or another.
Ends(s) ==
    /\ \/ part = "commands" /\ CommandFails(s)
       \/ part = "alerts" /\ AlertsFail(s)
    /\ Elsewhere

JobEnds(w) == part = "sweeps" /\ (RecordSweep(w) \/ SweepFails(w)) /\ Elsewhere
Boots(w) == part = "sweeps" /\ Boot(w) /\ Elsewhere
TimePasses == part = "sweeps" /\ Pass /\ Elsewhere

Fairness ==
    /\ SF_vars(ComesRound) /\ SF_vars(LooksAround) /\ SF_vars(GetsDone)
    /\ \A s \in Sessions : WF_vars(Ends(s))
    /\ \A w \in Workers : WF_vars(JobEnds(w)) /\ WF_vars(Boots(w))
    /\ WF_vars(TimePasses)

MCSpec == MCInit /\ [][MCNext]_vars /\ Fairness

-----------------------------------------------------------------------------
(* Properties                                                              *)

\* Of requests about the same thing served one after the other: a link, a code and an
\* invitation work once and only the newest of them, and so does an approval of new keys.
WorkOnceUnlessCrossed ==
    ~crossed => /\ LinksWorkOnce /\ OneLiveLink /\ StaffWereInvitedSince /\ NewestMachineHolds
                /\ KeysMoveByApproval /\ OneRequestWaits

\* A paid print finds its file, and files and rows agree, when nobody's file is deleted
\* under an unpaid order and no worker dies between the disk and the database.
FilesStandUnlessCrossed ==
    part = "documents" /\ ~crossed => PaidPrintsHaveTheirFile /\ FilesFollowRows

\* Nobody sleeps on work it was told of; and of two presses of one button, and two
\* results, one after the other: one command waits, and the first result stands.
CommandsStandUnlessCrossed ==
    /\ []NobodySleepsOnWork
    /\ [](~crossed => OneOfAKindWaits)
    /\ [][~crossed => \A i \in DOMAIN commands :
              i \notin OpenCommands => commands'[i].state = commands[i].state]_commandVars

\* Nobody spends more than their bucket, account or address.
CeilingsHold == AccountsKeepToTheirShare /\ AddressesKeepToTheirs

\* A command is handed out or expires while the kiosk has a machine: "the device polls on
\* its own schedule regardless".
CommandsReachTheMachine == []<>(part = "commands" => Waiting = {} \/ ~enrolled)

\* A trouble that is over does not stay on the console of a shop that sells: "the watchers
\* stand down" (jobs/tasks.py).
TroubleIsStoodDown ==
    \A k \in Shops : []<>(part = "alerts" => k \notin open \/ k \in troubled \/ k \notin selling)

\* The sweep comes round, whichever worker does it and whatever they die of: the lock is
\* never left behind.
SweepsComeRound == []<>(part = "sweeps" => \E w \in Workers : job[w] = "done")

\* What is left to those that come round gets done.
WorkComesRound == CommandsReachTheMachine /\ TroubleIsStoodDown /\ SweepsComeRound
=============================================================================
