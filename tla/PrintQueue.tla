----------------------------- MODULE PrintQueue -----------------------------
(***************************************************************************)
(* One kiosk's print queue: app/modules/printing (claims.py, tasks.py), the *)
(* tray of app/modules/kiosks/paper.py, and the orders that follow their    *)
(* prints (app/modules/orders/service.py).  A device claims tasks and       *)
(* reports on them, a sweep fails the ones whose device went quiet, and an   *)
(* operator may say that a failed print came out after all.                 *)
(*                                                                         *)
(* A request is one transaction at READ COMMITTED in the steps between      *)
(* which another can commit: it loads its rows; it writes its tasks, which   *)
(* locks them, and reads the tray; it writes the tray, which locks it, and   *)
(* derives the order; it commits.  Columns are written from what was loaded, *)
(* and only those whose value changed.                                      *)
(***************************************************************************)
EXTENDS Integers, Sequences, FiniteSets, FiniteSetsExt

CONSTANTS Orders,    \* orders placed at this kiosk
          Items,     \* Items[o]: the documents of o, in position order
          Predicted, \* the sheets workload() predicts of one print
          Reports,   \* what a device may say it used; Unsaid when it cannot say
          Capacity,  \* sheets in a full tray
          Agents,    \* sessions that serve the kiosk's device
          Sweepers,  \* sessions of the scheduler
          Desk,      \* sessions of operators
          Mortal,    \* sessions whose requests may fail before they commit
          Returnable, \* orders whose money may go back
          None       \* no order

Unsaid == -1

ASSUME PrintQueueAssumption ==
    /\ IsFiniteSet(Orders)
    /\ \A o \in Orders : Len(Items[o]) \in Nat \ {0}
    /\ Predicted \in Nat /\ Capacity \in Nat
    /\ Reports \subseteq Nat \cup {Unsaid}
    /\ Returnable \subseteq Orders /\ None \notin Orders

VARIABLES orders,  \* orders[o]: state, when placed and paid (0: not yet), money returned
          tasks,   \* tasks[t]: the print task t, and what the refill log says it took
          used,    \* sheets used of the tray
          quiet,   \* tasks whose device has stopped answering
          session  \* session[s]: the request s serves

vars == <<orders, tasks, used, quiet, session>>

Sessions == Agents \cup Sweepers \cup Desk

\* A task is one document of one order: the order and its position.
Tasks == UNION {{o} \X (1..Len(Items[o])) : o \in Orders}
DocOf(t) == Items[t[1]][t[2]]
DocsOf(o) == {Items[o][i] : i \in 1..Len(Items[o])}

OrderState == {"unplaced", "awaiting_payment", "paid", "dispatched", "completed",
               "partially_failed", "refunded"}
Order == [state : OrderState, placed : Nat, paid : Nat, returned : BOOLEAN]

TaskState == {"none", "queued", "sent_to_device", "printing", "printed", "failed", "blocked"}
Task == [state : TaskState, lapsed : BOOLEAN, attempts : Nat, actual : Nat \cup {Unsaid},
         taken : Nat]

InHand == {"sent_to_device", "printing"}
Terminal == {"printed", "failed"}

PC == {"idle", "record", "confirm", "derive", "commit"}
Kind == {"none", "claim", "report", "sweep", "confirm"}
SessionState == [pc : PC, kind : Kind, on : SUBSET Tasks, seen : TaskState, to : TaskState,
                 sheets : Nat \cup {Unsaid}, tray : Nat, order : Orders \cup {None},
                 todo : SUBSET Tasks, outcome : [Orders -> OrderState \cup {"same"}]]

Idle == [pc |-> "idle", kind |-> "none", on |-> {}, seen |-> "none", to |-> "none",
         sheets |-> Unsaid, tray |-> 0, order |-> None, todo |-> {},
         outcome |-> [o \in Orders |-> "same"]]

-----------------------------------------------------------------------------

At(s, pc) == session[s].pc = pc
Set(s, new) == session' = [session EXCEPT ![s] = new]

\* The clock of created_at and paid_at: one tick per order placed or paid.
Now == 1 + Cardinality({o \in Orders : orders[o].placed > 0})
         + Cardinality({o \in Orders : orders[o].paid > 0})

InFlight(state) == state \in {"paid", "dispatched"}

Used(sheets, unsaid) == IF sheets = Unsaid THEN unsaid ELSE sheets

\* Mutant: a confirmed print is charged in full, on top of what the device reported.
TakenInFull(s, t) ==
    CASE session[s].kind = "report" /\ session[s].to = "printed" ->
            Used(session[s].sheets, Predicted)
      [] session[s].kind = "report" /\ session[s].to = "failed" -> Used(session[s].sheets, 0)
      [] session[s].kind = "confirm" -> Predicted
      [] OTHER -> 0

\* What the tray loses to a task's print by the request of s.
Taken(s, t) ==
    CASE session[s].kind = "report" /\ session[s].to = "printed" ->
            Used(session[s].sheets, Predicted)
      [] session[s].kind = "report" /\ session[s].to = "failed" -> Used(session[s].sheets, 0)
      [] session[s].kind = "confirm" -> Max({0, Predicted - Used(tasks[t].actual, 0)})
      [] OTHER -> 0

\* All the tasks of the request together.
TakenByAll(s) == MapThenSumSet(LAMBDA t : Taken(s, t), session[s].on)

\* Mutant: the tray is not bounded by its size.
TrayAfterUnbounded(s) == session[s].tray + TakenByAll(s)

\* consume_paper, of the tray as it was read, for each of the request's tasks.
TrayAfter(s) == Min({Capacity, session[s].tray + TakenByAll(s)})
WritesTray(s) == session[s].kind \in {"report", "confirm"} /\ TrayAfter(s) # session[s].tray

\* Row locks, from the write to the commit.  An order's is sure to be taken only
\* when its request goes on to the next task: at its last, "commit" stands for the
\* moment before the order's write as well as after it.
HoldsTask(s, t) == t \in session[s].on /\ session[s].pc \in {"derive", "commit"}
TaskFree(s, t) == \A r \in Sessions \ {s} : ~HoldsTask(r, t)
TrayFree(s) == \A r \in Sessions \ {s} : ~(At(r, "commit") /\ WritesTray(r))
OrderFree(s, o) == \A r \in Sessions \ {s} : ~(At(r, "derive") /\ session[r].outcome[o] # "same")

Init ==
    /\ orders = [o \in Orders |-> [state |-> "unplaced", placed |-> 0, paid |-> 0,
                                   returned |-> FALSE]]
    /\ tasks = [t \in Tasks |-> [state |-> "none", lapsed |-> FALSE, attempts |-> 0,
                                 actual |-> Unsaid, taken |-> 0]]
    /\ used \in 0..Capacity
    /\ quiet = {}
    /\ session = [s \in Sessions |-> Idle]

-----------------------------------------------------------------------------
(* Orders: placed, paid, refunded.                                         *)

PlaceOrder(o) ==
    /\ orders[o].state = "unplaced"
    /\ orders' = [orders EXCEPT ![o].state = "awaiting_payment", ![o].placed = Now]
    /\ UNCHANGED <<tasks, used, quiet, session>>

\* mark_paid: the order is PAID and its prints are queued, in one commit.
MarkPaid(o) ==
    /\ orders[o].state = "awaiting_payment"
    /\ orders' = [orders EXCEPT ![o].state = "paid", ![o].paid = Now]
    /\ tasks' = [t \in Tasks |-> IF t[1] = o THEN [tasks[t] EXCEPT !.state = "queued"]
                                             ELSE tasks[t]]
    /\ UNCHANGED <<used, quiet, session>>

\* Some of the order's money goes back, or all of it, which closes the order.
Refund(o) ==
    /\ o \in Returnable
    /\ orders[o].paid > 0 /\ orders[o].state # "refunded"
    /\ OrderFree(None, o)
    /\ \/ /\ ~orders[o].returned
          /\ orders' = [orders EXCEPT ![o].returned = TRUE]
       \/ orders' = [orders EXCEPT ![o].returned = TRUE, ![o].state = "refunded"]
    /\ UNCHANGED <<tasks, used, quiet, session>>

-----------------------------------------------------------------------------
(* The device's side of a task: claims, heartbeats, silence.               *)

\* The order tasks are handed out in: position first, then age.
Before(t, u) == t[2] < u[2] \/ (t[2] = u[2] /\ orders[t[1]].paid < orders[u[1]].paid)
First(S, t) == t \in S /\ \A u \in S \ {t} : Before(t, u)

Claim(s, t) ==
    Set(s, [Idle EXCEPT !.pc = "commit", !.kind = "claim", !.on = {t}, !.to = "sent_to_device"])

\* Mutant: the queue is read without FOR UPDATE SKIP LOCKED.
ClaimNextTaskUnlocked(s) ==
    /\ At(s, "idle")
    /\ LET waiting == {t \in Tasks : tasks[t].state = "queued"}
       IN  \E t \in Tasks : First(waiting, t) /\ Claim(s, t)
    /\ UNCHANGED <<orders, tasks, used, quiet>>

\* UPDATE ... WHERE id = (SELECT ... FOR UPDATE SKIP LOCKED LIMIT 1).
ClaimNextTask(s) ==
    /\ At(s, "idle")
    /\ LET waiting == {t \in Tasks : tasks[t].state = "queued" /\ TaskFree(s, t)}
       IN  \E t \in Tasks : First(waiting, t) /\ Claim(s, t)
    /\ UNCHANGED <<orders, tasks, used, quiet>>

\* Fifteen minutes have passed since the lease was taken or renewed.
LeaseRunsOut(t) ==
    /\ tasks[t].state \in InHand /\ ~tasks[t].lapsed
    /\ tasks' = [tasks EXCEPT ![t].lapsed = TRUE]
    /\ UNCHANGED <<orders, used, quiet, session>>

\* renew_held_lease, from a heartbeat that names the task.
RenewHeldLease(t) ==
    /\ t \notin quiet
    /\ tasks[t].state \in InHand /\ tasks[t].lapsed
    /\ TaskFree(None, t)
    /\ tasks' = [tasks EXCEPT ![t].lapsed = FALSE]
    /\ UNCHANGED <<orders, used, quiet, session>>

\* The machine crashes, restarts or is unplugged, or never got the answer to its
\* claim: it will not be heard from about this task again.
GoQuiet(t) ==
    /\ t \notin quiet
    /\ tasks[t].state \in InHand
    /\ quiet' = quiet \cup {t}
    /\ UNCHANGED <<orders, tasks, used, session>>

-----------------------------------------------------------------------------
(* What happened to a task: the device's report, the sweep, the operator.  *)

\* _require_in_hand, of the task as loaded.
ReportStatus(s, t) ==
    /\ At(s, "idle")
    /\ t \notin quiet
    /\ tasks[t].state \in InHand
    /\ \E to \in {"printing", "printed", "failed", "blocked"}, sheets \in Reports \cup {Unsaid} :
          /\ to \in {"printing", "blocked"} => sheets = Unsaid
          /\ to \in {"printed", "failed"} => sheets \in Reports
          /\ Set(s, [Idle EXCEPT !.pc = "record", !.kind = "report", !.on = {t},
                                 !.seen = tasks[t].state, !.to = to, !.sheets = sheets])
    /\ UNCHANGED <<orders, tasks, used, quiet>>

\* Mutant: the sweep takes only work that was being sent.
SettleLostTasksSentOnly(s) ==
    /\ At(s, "idle")
    /\ LET stale == {t \in Tasks : tasks[t].state = "sent_to_device" /\ tasks[t].lapsed}
       IN  stale # {} /\ Set(s, [Idle EXCEPT !.pc = "record", !.kind = "sweep", !.on = stale,
                                             !.to = "failed"])
    /\ UNCHANGED <<orders, tasks, used, quiet>>

\* fail_expired: selects, and fails what it selected.
SettleLostTasks(s) ==
    /\ At(s, "idle")
    /\ LET stale == {t \in Tasks : tasks[t].state \in InHand /\ tasks[t].lapsed}
       IN  stale # {} /\ Set(s, [Idle EXCEPT !.pc = "record", !.kind = "sweep", !.on = stale,
                                             !.to = "failed"])
    /\ UNCHANGED <<orders, tasks, used, quiet>>

\* Mutant: what the device reported is recorded and the order is not told.
RecordUntold(s) ==
    /\ At(s, "record")
    /\ \A t \in session[s].on : TaskFree(s, t)
    /\ Set(s, [session[s] EXCEPT !.pc = "commit", !.tray = used])
    /\ UNCHANGED <<orders, tasks, used, quiet>>

\* The tasks are written, when no other request holds them, and the tray is read.
\* A report of BLOCKED touches neither the tray nor the order.
Record(s) ==
    /\ At(s, "record")
    /\ \A t \in session[s].on : TaskFree(s, t)
    /\ Set(s, IF session[s].to = "blocked"
              THEN [session[s] EXCEPT !.pc = "commit", !.tray = used]
              ELSE [session[s] EXCEPT !.pc = "derive", !.tray = used, !.todo = session[s].on])
    /\ UNCHANGED <<orders, tasks, used, quiet>>

\* One order's prints, as _one_orders has them: its documents, at this kiosk, not
\* older than the order.
PrintsOf(o) ==
    {t \in Tasks : /\ tasks[t].state # "none"
                   /\ DocOf(t) \in DocsOf(o)
                   /\ orders[t[1]].paid >= orders[o].placed}

\* An operator confirms a partly failed order whose money has not gone back.
ConfirmOrderPrinted(s, o) ==
    /\ At(s, "idle")
    /\ orders[o].state = "partially_failed" /\ ~orders[o].returned
    /\ Set(s, [Idle EXCEPT !.pc = "confirm", !.kind = "confirm", !.to = "printed", !.order = o])
    /\ UNCHANGED <<orders, tasks, used, quiet>>

\* failed_tasks_at, FOR UPDATE: it waits for whoever holds one of the rows, and
\* takes those that are still failed.  None left: refused.
LockFailed(s) ==
    /\ At(s, "confirm")
    /\ LET failed == {t \in PrintsOf(session[s].order) : tasks[t].state = "failed"}
       IN  /\ \A t \in failed : TaskFree(s, t)
           /\ Set(s, IF failed = {} THEN Idle
                     ELSE [session[s] EXCEPT !.pc = "derive", !.on = failed, !.tray = used,
                                             !.todo = failed])
    /\ UNCHANGED <<orders, tasks, used, quiet>>

-----------------------------------------------------------------------------
(* How an order follows its prints.                                        *)

\* A state column is written when it differs from the one loaded.
WritesState(s) == session[s].seen # session[s].to

\* A print's state and an order's, as the transaction of s sees them.
TaskSeen(s, t) == IF t \in session[s].on /\ WritesState(s) THEN session[s].to ELSE tasks[t].state
OrderSeen(s, o) == IF session[s].outcome[o] = "same" THEN orders[o].state ELSE session[s].outcome[o]

\* _derive_from_prints.
Derived(states) ==
    IF \E state \in states : state \notin Terminal THEN "dispatched"
    ELSE IF states = {"printed"} THEN "completed" ELSE "partially_failed"

\* refresh_order_state: the newest order in flight that has the task's document.
\* A confirm derives the order it was asked about.
OrdersBehind(s, t) ==
    IF session[s].kind = "confirm" THEN {session[s].order}
    ELSE {o \in Orders : InFlight(OrderSeen(s, o)) /\ DocOf(t) \in DocsOf(o)}
Newest(S) == CHOOSE o \in S : \A p \in S : orders[p].paid <= orders[o].paid

\* The order as loaded: a confirm loaded it before its prints were locked.
OrderLoaded(s, o) == IF session[s].kind = "confirm" THEN "partially_failed" ELSE OrderSeen(s, o)

\* The tray is written first, when no other request holds it; then the order behind
\* each task is derived, one after another.
Derive(s, t) ==
    /\ At(s, "derive") /\ t \in session[s].todo
    /\ WritesTray(s) => TrayFree(s)
    /\ LET behind == OrdersBehind(s, t)
           todo == IF session[s].kind = "confirm" THEN {} ELSE session[s].todo \ {t}
           told == IF behind = {} THEN session[s].outcome
                   ELSE LET o == Newest(behind)
                            new == Derived({TaskSeen(s, u) : u \in PrintsOf(o)})
                        IN  IF new = OrderLoaded(s, o) THEN session[s].outcome
                            ELSE [session[s].outcome EXCEPT ![o] = new]
       IN  Set(s, [session[s] EXCEPT !.outcome = told, !.todo = todo,
                                     !.pc = IF todo = {} THEN "commit" ELSE "derive"])
    /\ UNCHANGED <<orders, tasks, used, quiet>>

\* A task as the request of s leaves it.
Written(s, t) ==
    [tasks[t] EXCEPT
        !.state = IF WritesState(s) THEN session[s].to ELSE @,
        !.lapsed = FALSE,
        !.attempts = IF session[s].kind = "claim" THEN @ + 1 ELSE @,
        !.actual = IF session[s].kind = "confirm" THEN Max({Used(@, 0), Predicted})
                   ELSE IF session[s].sheets # Unsaid THEN session[s].sheets ELSE @,
        !.taken = @ + Taken(s, t)]

\* What the transaction wrote becomes visible.
Commit(s) ==
    /\ At(s, "commit")
    /\ \A o \in Orders : session[s].outcome[o] # "same" => OrderFree(s, o)
    /\ tasks' = [t \in Tasks |-> IF t \in session[s].on THEN Written(s, t) ELSE tasks[t]]
    /\ orders' = [o \in Orders |-> [orders[o] EXCEPT !.state =
                      IF session[s].outcome[o] = "same" THEN @ ELSE session[s].outcome[o]]]
    /\ used' = IF WritesTray(s) THEN TrayAfter(s) ELSE used
    /\ Set(s, Idle)
    /\ UNCHANGED quiet

\* The handler raised, or its worker died: nothing it wrote stays.
Rollback(s) ==
    /\ s \in Mortal
    /\ ~At(s, "idle")
    /\ Set(s, Idle)
    /\ UNCHANGED <<orders, tasks, used, quiet>>

\* reset_paper, set_paper, mark_out_of_paper: a person says what is in the tray.
SetPaper ==
    /\ TrayFree(None)
    /\ used' \in (0..Capacity) \ {used}
    /\ UNCHANGED <<orders, tasks, quiet, session>>

-----------------------------------------------------------------------------

Device(s) == ClaimNextTask(s) \/ \E t \in Tasks : ReportStatus(s, t)

Work(s) ==
    \/ Record(s)
    \/ LockFailed(s)
    \/ \E t \in Tasks : Derive(s, t)
    \/ Commit(s)

Next ==
    \/ \E o \in Orders : PlaceOrder(o) \/ MarkPaid(o) \/ Refund(o)
    \/ \E t \in Tasks : LeaseRunsOut(t) \/ RenewHeldLease(t) \/ GoQuiet(t)
    \/ SetPaper
    \/ \E s \in Agents : Device(s)
    \/ \E s \in Sweepers : SettleLostTasks(s)
    \/ \E s \in Desk, o \in Orders : ConfirmOrderPrinted(s, o)
    \/ \E s \in Sessions : Work(s) \/ Rollback(s)

Spec == Init /\ [][Next]_vars

\* Time passes, every request ends, the scheduler sweeps again every minute, and a
\* sweep that waits for a row gets it: Postgres serves waiters in turn.
FairSpec ==
    /\ Spec
    /\ \A t \in Tasks : WF_vars(LeaseRunsOut(t))
    /\ \A s \in Sessions : WF_vars(Work(s) \/ Rollback(s))
    /\ \A s \in Sweepers : SF_vars(SettleLostTasks(s)) /\ SF_vars(Work(s))

-----------------------------------------------------------------------------
(* Properties                                                              *)

TypeOK ==
    /\ orders \in [Orders -> Order]
    /\ tasks \in [Tasks -> Task]
    /\ used \in 0..Capacity
    /\ quiet \subseteq Tasks
    /\ session \in [Sessions -> SessionState]

\* A task is handed to a device once, ever: however many agents ask together,
\* whatever they report, and however often its device goes quiet.
HandedOutOnce == \A t \in Tasks : tasks[t].attempts <= 1

\* The tray loses what a finished print used, once: what the device reported, what
\* was predicted when it could not say, and the rest when an operator confirms,
\* however many operators press the button together.
PaperTakenOnce ==
    \A t \in Tasks :
        tasks[t].taken = IF tasks[t].state = "printed" THEN Used(tasks[t].actual, Predicted)
                         ELSE Used(tasks[t].actual, 0)

\* Between requests an order says what became of its prints: in flight while one
\* is unfinished, completed when all came out, partly failed when they finished
\* and some did not.  An order that is paid and never settles is one nobody can
\* tell from an order that never printed.
OrdersFollowTheirPrints ==
    (\A s \in Sessions : At(s, "idle")) =>
        \A o \in Orders :
            LET states == {tasks[t].state : t \in {u \in Tasks : u[1] = o}}
            IN  /\ InFlight(orders[o].state) => \E state \in states : state \notin Terminal
                /\ orders[o].state = "completed" => states = {"printed"}
                /\ orders[o].state = "partially_failed" =>
                      states \subseteq Terminal /\ states # {"printed"}

\* A task whose device went quiet is settled, and does not hold its order open.
LostTasksAreSettled ==
    \A t \in Tasks : t \in quiet /\ tasks[t].state \in InHand ~> tasks[t].state \notin InHand

\* A finished task stays finished: a late report does not resurrect one.  Only an
\* operator moves a failed print, and only to printed.
FinishedTasksStayFinished ==
    [][\A t \in Tasks :
          tasks[t].state \in Terminal =>
              \/ tasks'[t].state = tasks[t].state
              \/ \E s \in Desk : At(s, "commit") /\ ~At(s, "commit")']_vars

\* Only silence expires a lease: the sweep fails no task whose lease was renewed.
OnlySilenceExpiresALease ==
    [][\A s \in Sweepers : Commit(s) => \A t \in session[s].on : tasks[t].lapsed]_vars

\* A refunded order stays refunded, whatever a device reports late.
RefundedOrdersStay ==
    [][\A o \in Orders : orders[o].state = "refunded" => orders'[o].state = "refunded"]_vars

\* A blocked task runs once the tray is filled.
BlockedTasksRunAgain ==
    \A t \in Tasks : tasks[t].state = "blocked" /\ used = 0 ~> tasks[t].state # "blocked"
=============================================================================
