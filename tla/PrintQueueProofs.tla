-------------------------- MODULE PrintQueueProofs --------------------------
(***************************************************************************)
(* Proofs about PrintQueue for every set of orders, documents and sessions, *)
(* any tray and any report.                                                *)
(*                                                                         *)
(* The types rest on what a request's tasks take adding up to a number      *)
(* (SumOfSheets).  PaperTakenOnce needs to know what each request in flight *)
(* found of its tasks, and that it still is so (Speaks).                    *)
(* OrdersFollowTheirPrints needs to know, besides, how the prints and the   *)
(* order of each request in flight will stand when it commits (Tells).      *)
(*                                                                         *)
(* HandedOutOnce is not inductive: a task that is waiting must not have    *)
(* been handed out before (QueuedOnlyOnce), two claims in flight must not   *)
(* be of one task, and no other request may hold a task that is waiting,    *)
(* or its commit would put the task back (RequestsHoldTheirTasks).          *)
(***************************************************************************)
EXTENDS PrintQueue, FiniteSetTheorems, TLAPS

Waiting == {"none", "queued"}
Unpaid == {"unplaced", "awaiting_payment"}
Derivable == {"same", "dispatched", "completed", "partially_failed"}

\* Records of which only some fields matter here; the others are whatever they are.
OrderRow(row) ==
    [state : OrderState, placed : {row.placed}, paid : {row.paid}, returned : {row.returned}]
TaskRow(row) ==
    [state : TaskState, lapsed : {row.lapsed}, attempts : Nat, actual : {row.actual},
     taken : {row.taken}]
RequestRow(row) ==
    [pc : PC, kind : Kind, on : SUBSET Tasks, seen : TaskState, to : TaskState,
     sheets : {row.sheets}, tray : {row.tray}, order : {row.order}, todo : {row.todo},
     outcome : [Orders -> Derivable]]

Shape ==
    /\ orders = [o \in Orders |-> orders[o]]
    /\ \A o \in Orders : orders[o] \in OrderRow(orders[o])
    /\ tasks = [t \in Tasks |-> tasks[t]]
    /\ \A t \in Tasks : tasks[t] \in TaskRow(tasks[t])
    /\ session = [s \in Sessions |-> session[s]]
    /\ \A s \in Sessions : session[s] \in RequestRow(session[s])

\* What is waiting was never handed out, and nothing waits for an unpaid order.
QueuedOnlyOnce ==
    \A t \in Tasks :
        /\ tasks[t].state \in Waiting => tasks[t].attempts = 0
        /\ orders[t[1]].state \in Unpaid => tasks[t].state = "none"

\* A claim holds one queued task; any other request holds tasks that do not wait,
\* and will not make them wait.
Holds(st, row) ==
    /\ st.kind = "claim" =>
          /\ st.pc = "commit" /\ st.to = "sent_to_device" /\ st.seen = "none"
          /\ \E t \in Tasks : st.on = {t}
          /\ \A t \in st.on : row[t].state = "queued"
    /\ st.kind # "claim" =>
          \A t \in st.on : st.to \notin Waiting /\ row[t].state \notin Waiting
    /\ st.pc = "confirm" => st.to = "printed"

RequestsHoldTheirTasks ==
    /\ \A s \in Sessions : Holds(session[s], tasks)
    /\ \A r, s \in Sessions :
          r # s /\ session[r].kind = "claim" /\ session[s].kind = "claim" =>
              session[r].on \cap session[s].on = {}

QueueInv == Shape /\ HandedOutOnce /\ QueuedOnlyOnce /\ RequestsHoldTheirTasks

-----------------------------------------------------------------------------

LEMMA TaskOfOrder == \A t \in Tasks : t[1] \in Orders
  BY DEF Tasks

LEMMA IdleHolds == Idle \in RequestRow(Idle) /\ Idle.kind = "none" /\ Idle.on = {}
                   /\ Idle.pc = "idle"
  BY DEF Idle, RequestRow, PC, Kind, TaskState, Derivable

LEMMA LeaseWrite ==
  ASSUME NEW row, row \in TaskRow(row), NEW lapsed
  PROVE  LET new == [row EXCEPT !.lapsed = lapsed]
         IN  new \in TaskRow(new) /\ new.state = row.state /\ new.attempts = row.attempts
  BY DEF TaskRow

LEMMA StateWrite ==
  ASSUME NEW row, row \in TaskRow(row), NEW state \in TaskState
  PROVE  LET new == [row EXCEPT !.state = state]
         IN  new \in TaskRow(new) /\ new.state = state /\ new.attempts = row.attempts
  BY DEF TaskRow

LEMMA OrderWrites ==
  ASSUME NEW row, row \in OrderRow(row), NEW state \in OrderState, NEW time
  PROVE  /\ LET new == [row EXCEPT !.state = state, !.placed = time]
            IN  new \in OrderRow(new) /\ new.state = state
         /\ LET new == [row EXCEPT !.state = state]
            IN  new \in OrderRow(new) /\ new.state = state
         /\ LET new == [row EXCEPT !.returned = TRUE]
            IN  new \in OrderRow(new) /\ new.state = row.state
         /\ LET new == [row EXCEPT !.returned = TRUE, !.state = state]
            IN  new \in OrderRow(new) /\ new.state = state
  BY DEF OrderRow

LEMMA PaidWrite ==
  ASSUME NEW row, row \in OrderRow(row), NEW time
  PROVE  LET new == [row EXCEPT !.state = "paid", !.paid = time]
         IN  new \in OrderRow(new) /\ new.state = "paid"
  BY DEF OrderRow, OrderState

\* A step that only changes what the request of s is about to do.
LEMMA RequestStep ==
  ASSUME QueueInv, NEW s \in Sessions, NEW new, new \in RequestRow(new), Holds(new, tasks),
         new.kind = "claim" =>
             \A r \in Sessions \ {s} : session[r].kind = "claim" => new.on \cap session[r].on = {},
         session' = [session EXCEPT ![s] = new], orders' = orders, tasks' = tasks
  PROVE  QueueInv'
  <1>1. /\ session' = [r \in Sessions |-> session'[r]]
        /\ session'[s] = new /\ \A r \in Sessions \ {s} : session'[r] = session[r]
    BY DEF QueueInv, Shape
  <1>2. Shape'
    <2>1. \A r \in Sessions : session'[r] \in RequestRow(session'[r])
      BY <1>1 DEF QueueInv, Shape
    <2>2. QED
      BY <1>1, <2>1 DEF QueueInv, Shape
  <1>3. HandedOutOnce' /\ QueuedOnlyOnce'
    BY DEF QueueInv, HandedOutOnce, QueuedOnlyOnce
  <1>4. \A r \in Sessions : Holds(session'[r], tasks)
    BY <1>1 DEF QueueInv, RequestsHoldTheirTasks
  <1>5. \A q, r \in Sessions :
            q # r /\ session'[q].kind = "claim" /\ session'[r].kind = "claim" =>
                session'[q].on \cap session'[r].on = {}
    BY <1>1 DEF QueueInv, RequestsHoldTheirTasks
  <1>6. RequestsHoldTheirTasks'
    BY <1>4, <1>5 DEF RequestsHoldTheirTasks
  <1>7. QED
    BY <1>2, <1>3, <1>6 DEF QueueInv

\* A step that changes orders and no task: no order goes back to being unpaid.
LEMMA OrdersStep ==
  ASSUME QueueInv, NEW o \in Orders, NEW new, new \in OrderRow(new),
         new.state \in Unpaid => orders[o].state \in Unpaid,
         orders' = [orders EXCEPT ![o] = new], tasks' = tasks, session' = session
  PROVE  QueueInv'
  <1>1. /\ orders' = [p \in Orders |-> orders'[p]]
        /\ orders'[o] = new /\ \A p \in Orders \ {o} : orders'[p] = orders[p]
    BY DEF QueueInv, Shape
  <1>2. Shape'
    <2>1. \A p \in Orders : orders'[p] \in OrderRow(orders'[p])
      BY <1>1 DEF QueueInv, Shape
    <2>2. QED
      BY <1>1, <2>1 DEF QueueInv, Shape
  <1>3. QueuedOnlyOnce'
    BY <1>1, TaskOfOrder DEF QueueInv, QueuedOnlyOnce
  <1>4. HandedOutOnce' /\ RequestsHoldTheirTasks'
    BY DEF QueueInv, HandedOutOnce, RequestsHoldTheirTasks
  <1>5. QED
    BY <1>2, <1>3, <1>4 DEF QueueInv

\* A step that moves one task's lease.
LEMMA LeaseStep ==
  ASSUME QueueInv, NEW t \in Tasks, NEW lapsed,
         tasks' = [tasks EXCEPT ![t] = [tasks[t] EXCEPT !.lapsed = lapsed]],
         orders' = orders, session' = session
  PROVE  QueueInv'
  <1>1. tasks[t] \in TaskRow(tasks[t])
    BY DEF QueueInv, Shape
  <1>2. \A u \in Tasks : /\ tasks'[u] \in TaskRow(tasks'[u])
                         /\ tasks'[u].state = tasks[u].state
                         /\ tasks'[u].attempts = tasks[u].attempts
    <2>1. TAKE u \in Tasks
    <2>2. CASE u = t
      <3>1. tasks'[t] = [tasks[t] EXCEPT !.lapsed = lapsed]
        BY DEF QueueInv, Shape
      <3>2. QED
        BY <1>1, <2>2, <3>1, LeaseWrite
    <2>3. CASE u # t
      BY <2>3 DEF QueueInv, Shape
    <2>4. QED
      BY <2>2, <2>3
  <1>3. tasks' = [u \in Tasks |-> tasks'[u]]
    BY DEF QueueInv, Shape
  <1>4. Shape'
    BY <1>2, <1>3 DEF QueueInv, Shape
  <1>5. HandedOutOnce' /\ QueuedOnlyOnce'
    BY <1>2 DEF QueueInv, HandedOutOnce, QueuedOnlyOnce
  <1>6. \A s \in Sessions : session[s] \in RequestRow(session[s])
    BY DEF QueueInv, Shape
  <1>7. \A s \in Sessions : session[s].on \subseteq Tasks
    BY <1>6 DEF RequestRow
  <1>8. RequestsHoldTheirTasks'
    BY <1>2, <1>7 DEF QueueInv, RequestsHoldTheirTasks, Holds
  <1>9. QED
    BY <1>4, <1>5, <1>8 DEF QueueInv

LEMMA InitInv == Init => QueueInv
  <1> SUFFICES ASSUME Init PROVE QueueInv
    OBVIOUS
  <1>1. \A o \in Orders : orders[o] \in OrderRow(orders[o]) /\ orders[o].state = "unplaced"
    BY DEF Init, OrderRow, OrderState
  <1>2. \A t \in Tasks : /\ tasks[t] \in TaskRow(tasks[t])
                         /\ tasks[t].state = "none" /\ tasks[t].attempts = 0
    BY DEF Init, TaskRow, TaskState
  <1>3. \A s \in Sessions : session[s] = Idle
    BY DEF Init
  <1>4. Shape
    BY <1>1, <1>2, <1>3, IdleHolds DEF Shape, Init
  <1>5. HandedOutOnce /\ QueuedOnlyOnce
    BY <1>2 DEF HandedOutOnce, QueuedOnlyOnce
  <1>6. RequestsHoldTheirTasks
    BY <1>3, IdleHolds DEF RequestsHoldTheirTasks, Holds
  <1>7. QED
    BY <1>4, <1>5, <1>6 DEF QueueInv

\* The rows that are read, as an action finds them.
LEMMA Rows ==
  ASSUME QueueInv
  PROVE  /\ \A o \in Orders : orders[o] \in OrderRow(orders[o]) /\ orders[o].state \in OrderState
         /\ \A t \in Tasks : /\ tasks[t] \in TaskRow(tasks[t])
                             /\ tasks[t].state \in TaskState /\ tasks[t].attempts \in Nat
         /\ \A s \in Sessions : /\ session[s] \in RequestRow(session[s])
                                /\ session[s].on \in SUBSET Tasks
                                /\ session[s].to \in TaskState
                                /\ session[s].outcome \in [Orders -> Derivable]
                                /\ Holds(session[s], tasks)
  <1>1. /\ \A o \in Orders : orders[o] \in OrderRow(orders[o])
        /\ \A t \in Tasks : tasks[t] \in TaskRow(tasks[t])
        /\ \A s \in Sessions : session[s] \in RequestRow(session[s])
    BY DEF QueueInv, Shape
  <1>2. \A o \in Orders : orders[o].state \in OrderState
    BY <1>1 DEF OrderRow
  <1>3. \A t \in Tasks : tasks[t].state \in TaskState /\ tasks[t].attempts \in Nat
    BY <1>1 DEF TaskRow
  <1>4. \A s \in Sessions : /\ session[s].on \in SUBSET Tasks /\ session[s].to \in TaskState
                            /\ session[s].outcome \in [Orders -> Derivable]
    BY <1>1 DEF RequestRow
  <1>5. \A s \in Sessions : Holds(session[s], tasks)
    BY DEF QueueInv, RequestsHoldTheirTasks
  <1>6. QED
    BY <1>1, <1>2, <1>3, <1>4, <1>5

LEMMA PlaceOrderInv ==
  ASSUME QueueInv, NEW o \in Orders, PlaceOrder(o) PROVE QueueInv'
  <1>1. orders[o] \in OrderRow(orders[o]) /\ "awaiting_payment" \in OrderState
    BY Rows DEF OrderState
  <1> DEFINE new == [orders[o] EXCEPT !.state = "awaiting_payment", !.placed = Now]
  <1>2. new \in OrderRow(new)
    BY <1>1, OrderWrites
  <1>3. orders[o].state \in Unpaid /\ tasks' = tasks /\ session' = session
        /\ orders' = [orders EXCEPT ![o] = new]
    BY DEF PlaceOrder, Unpaid
  <1>4. QED
    BY <1>2, <1>3, OrdersStep

LEMMA RefundInv ==
  ASSUME QueueInv, NEW o \in Orders, Refund(o) PROVE QueueInv'
  <1>1. orders[o] \in OrderRow(orders[o]) /\ "refunded" \in OrderState
    BY Rows DEF OrderState
  <1>2. CASE orders' = [orders EXCEPT ![o].returned = TRUE]
    <2> DEFINE new == [orders[o] EXCEPT !.returned = TRUE]
    <2>1. new \in OrderRow(new) /\ new.state = orders[o].state
      BY <1>1, OrderWrites
    <2>2. orders' = [orders EXCEPT ![o] = new] /\ tasks' = tasks /\ session' = session
      BY <1>2 DEF Refund
    <2> HIDE DEF new
    <2>3. QED
      BY <2>1, <2>2, OrdersStep
  <1>3. CASE orders' = [orders EXCEPT ![o].returned = TRUE, ![o].state = "refunded"]
    <2> DEFINE new == [orders[o] EXCEPT !.returned = TRUE, !.state = "refunded"]
    <2>1. new \in OrderRow(new) /\ new.state = "refunded"
      BY <1>1, OrderWrites
    <2>2. orders' = [orders EXCEPT ![o] = new] /\ tasks' = tasks /\ session' = session
      BY <1>3 DEF Refund
    <2>3. new.state \notin Unpaid
      BY <2>1 DEF Unpaid
    <2> HIDE DEF new
    <2>4. QED
      BY <2>1, <2>2, <2>3, OrdersStep
  <1>4. QED
    BY <1>2, <1>3 DEF Refund

\* The prints of an order that is being paid wait for nobody yet.
LEMMA MarkPaidInv ==
  ASSUME QueueInv, NEW o \in Orders, MarkPaid(o) PROVE QueueInv'
  <1> DEFINE new == [orders[o] EXCEPT !.state = "paid", !.paid = Now]
  <1>1. orders[o] \in OrderRow(orders[o]) /\ "paid" \in OrderState /\ "queued" \in TaskState
    BY Rows DEF OrderState, TaskState
  <1>2. new \in OrderRow(new) /\ new.state = "paid"
    BY <1>1, PaidWrite
  <1>3. orders[o].state \in Unpaid /\ orders' = [orders EXCEPT ![o] = new] /\ session' = session
    BY DEF MarkPaid, Unpaid
  <1> HIDE DEF new
  <1>4. /\ orders' = [p \in Orders |-> orders'[p]]
        /\ orders'[o] = new /\ \A p \in Orders \ {o} : orders'[p] = orders[p]
    BY <1>3 DEF QueueInv, Shape
  <1>5. \A p \in Orders : orders'[p] \in OrderRow(orders'[p])
    BY <1>2, <1>4 DEF QueueInv, Shape
  <1>6. \A t \in Tasks : t[1] = o => tasks[t].state = "none" /\ tasks[t].attempts = 0
    BY <1>3 DEF QueueInv, QueuedOnlyOnce, Waiting
  <1>7. \A t \in Tasks : t[1] = o => /\ tasks'[t] \in TaskRow(tasks'[t])
                                     /\ tasks'[t].state = "queued" /\ tasks'[t].attempts = 0
    <2>1. TAKE t \in Tasks
    <2>2. HAVE t[1] = o
    <2>3. tasks'[t] = [tasks[t] EXCEPT !.state = "queued"]
      BY <2>2 DEF MarkPaid
    <2>4. QED
      BY <1>1, <1>6, <2>2, <2>3, Rows, StateWrite
  <1>8. \A t \in Tasks : t[1] # o => tasks'[t] = tasks[t]
    BY DEF MarkPaid
  <1>9. Shape'
    <2>1. tasks' = [t \in Tasks |-> tasks'[t]]
      BY DEF MarkPaid
    <2>2. \A t \in Tasks : tasks'[t] \in TaskRow(tasks'[t])
      BY <1>7, <1>8, Rows
    <2>3. QED
      BY <1>3, <1>4, <1>5, <2>1, <2>2 DEF QueueInv, Shape
  <1>10. HandedOutOnce'
    BY <1>7, <1>8 DEF QueueInv, HandedOutOnce
  <1>11. QueuedOnlyOnce'
    BY <1>2, <1>4, <1>7, <1>8, TaskOfOrder DEF QueueInv, QueuedOnlyOnce, Unpaid
  <1>12. \A s \in Sessions : \A t \in session[s].on : tasks'[t] = tasks[t]
    BY <1>6, <1>8, Rows DEF Holds, Waiting
  <1>13. RequestsHoldTheirTasks'
    BY <1>3, <1>12 DEF QueueInv, RequestsHoldTheirTasks, Holds
  <1>14. QED
    BY <1>9, <1>10, <1>11, <1>13 DEF QueueInv

-----------------------------------------------------------------------------
(* The steps of a request.                                                 *)

\* SKIP LOCKED: the task claimed is one no other request has claimed.
LEMMA ClaimInv ==
  ASSUME QueueInv, NEW s \in Sessions, ClaimNextTask(s) PROVE QueueInv'
  <1>1. PICK t \in Tasks : tasks[t].state = "queued" /\ TaskFree(s, t) /\ Claim(s, t)
    BY DEF ClaimNextTask, First
  <1> DEFINE new == [Idle EXCEPT !.pc = "commit", !.kind = "claim", !.on = {t},
                                 !.to = "sent_to_device"]
  <1>2. /\ new \in RequestRow(new) /\ new.kind = "claim" /\ new.on = {t}
        /\ new.pc = "commit" /\ new.to = "sent_to_device" /\ new.seen = "none"
    BY DEF Idle, RequestRow, PC, Kind, TaskState, Derivable
  <1>3. session' = [session EXCEPT ![s] = new] /\ orders' = orders /\ tasks' = tasks
    BY <1>1 DEF ClaimNextTask, Claim, Set
  <1> HIDE DEF new
  <1>4. Holds(new, tasks)
    BY <1>1, <1>2 DEF Holds
  <1>5. \A r \in Sessions \ {s} : session[r].kind = "claim" => new.on \cap session[r].on = {}
    <2>1. \A r \in Sessions \ {s} : session[r].kind = "claim" => session[r].pc = "commit"
      BY Rows DEF Holds
    <2>2. \A r \in Sessions \ {s} : session[r].kind = "claim" => t \notin session[r].on
      BY <1>1, <2>1 DEF TaskFree, HoldsTask
    <2>3. QED
      BY <1>2, <2>2
  <1>6. QED
    BY <1>2, <1>3, <1>4, <1>5, RequestStep

LEMMA ReportInv ==
  ASSUME QueueInv, NEW s \in Sessions, NEW t \in Tasks, ReportStatus(s, t) PROVE QueueInv'
  <1>1. PICK to \in {"printing", "printed", "failed", "blocked"}, sheets \in Reports \cup {Unsaid} :
            Set(s, [Idle EXCEPT !.pc = "record", !.kind = "report", !.on = {t},
                                !.seen = tasks[t].state, !.to = to, !.sheets = sheets])
    BY DEF ReportStatus
  <1> DEFINE new == [Idle EXCEPT !.pc = "record", !.kind = "report", !.on = {t},
                                 !.seen = tasks[t].state, !.to = to, !.sheets = sheets]
  <1>2. tasks[t].state \in InHand /\ tasks[t].state \in TaskState
    BY Rows DEF ReportStatus
  <1>3. /\ new \in RequestRow(new) /\ new.kind = "report" /\ new.on = {t} /\ new.to = to
        /\ new.pc = "record"
    BY <1>2 DEF Idle, RequestRow, PC, Kind, TaskState, Derivable
  <1>4. session' = [session EXCEPT ![s] = new] /\ orders' = orders /\ tasks' = tasks
    BY <1>1 DEF ReportStatus, Set
  <1> HIDE DEF new
  <1>5. Holds(new, tasks)
    BY <1>2, <1>3 DEF Holds, InHand, Waiting
  <1>6. QED
    BY <1>3, <1>4, <1>5, RequestStep

LEMMA SweepInv ==
  ASSUME QueueInv, NEW s \in Sessions, SettleLostTasks(s) PROVE QueueInv'
  <1> DEFINE stale == {t \in Tasks : tasks[t].state \in InHand /\ tasks[t].lapsed}
             new == [Idle EXCEPT !.pc = "record", !.kind = "sweep", !.on = stale, !.to = "failed"]
  <1>1. session' = [session EXCEPT ![s] = new] /\ orders' = orders /\ tasks' = tasks
    BY DEF SettleLostTasks, Set
  <1>2. stale \in SUBSET Tasks /\ \A t \in stale : tasks[t].state \in InHand
    OBVIOUS
  <1> HIDE DEF stale
  <1>3. new \in RequestRow(new) /\ new.kind = "sweep" /\ new.on = stale /\ new.to = "failed"
        /\ new.pc = "record"
    BY <1>2 DEF Idle, RequestRow, PC, Kind, TaskState, Derivable
  <1> HIDE DEF new
  <1>4. Holds(new, tasks)
    BY <1>2, <1>3 DEF Holds, InHand, Waiting
  <1>5. QED
    BY <1>1, <1>3, <1>4, RequestStep

LEMMA ConfirmInv ==
  ASSUME QueueInv, NEW s \in Sessions, NEW o \in Orders, ConfirmOrderPrinted(s, o) PROVE QueueInv'
  <1> DEFINE new == [Idle EXCEPT !.pc = "confirm", !.kind = "confirm", !.to = "printed",
                                 !.order = o]
  <1>1. session' = [session EXCEPT ![s] = new] /\ orders' = orders /\ tasks' = tasks
    BY DEF ConfirmOrderPrinted, Set
  <1>2. new \in RequestRow(new) /\ new.kind = "confirm" /\ new.on = {} /\ new.to = "printed"
    BY DEF Idle, RequestRow, PC, Kind, TaskState, Derivable
  <1> HIDE DEF new
  <1>3. Holds(new, tasks)
    BY <1>2 DEF Holds
  <1>4. QED
    BY <1>1, <1>2, <1>3, RequestStep

LEMMA IdleInv ==
  ASSUME QueueInv, NEW s \in Sessions, Set(s, Idle), orders' = orders, tasks' = tasks
  PROVE  QueueInv'
  <1>1. Holds(Idle, tasks)
    BY IdleHolds DEF Holds
  <1>2. QED
    BY <1>1, IdleHolds, RequestStep DEF Set

\* A request that goes on with the tasks it has, or lets them be.
LEMMA KeepTasks ==
  ASSUME QueueInv, NEW s \in Sessions, NEW new, new \in RequestRow(new),
         session[s].kind # "claim", new.pc # "confirm", new.kind = session[s].kind, new.on = session[s].on,
         new.to = session[s].to,
         session' = [session EXCEPT ![s] = new], orders' = orders, tasks' = tasks
  PROVE  QueueInv'
  <1>1. Holds(new, tasks)
    BY Rows DEF Holds
  <1>2. QED
    BY <1>1, RequestStep

LEMMA RecordInv ==
  ASSUME QueueInv, NEW s \in Sessions, Record(s) PROVE QueueInv'
  <1>1. /\ session[s] \in RequestRow(session[s]) /\ session[s].kind # "claim"
        /\ session[s].outcome \in [Orders -> Derivable] /\ session[s].on \in SUBSET Tasks
        /\ {"commit", "derive"} \subseteq PC
    BY Rows DEF Record, At, Holds, PC
  <1>2. orders' = orders /\ tasks' = tasks
    BY DEF Record
  <1>3. CASE session[s].to = "blocked"
    <2> DEFINE new == [session[s] EXCEPT !.pc = "commit", !.tray = used]
    <2>1. session' = [session EXCEPT ![s] = new]
      BY <1>3 DEF Record, Set
    <2>2. /\ new \in RequestRow(new) /\ new.on = session[s].on /\ new.kind = session[s].kind
          /\ new.to = session[s].to /\ new.pc = "commit"
      BY <1>1 DEF RequestRow, PC
    <2> HIDE DEF new
    <2>3. QED
      BY <1>1, <1>2, <2>1, <2>2, KeepTasks
  <1>4. CASE session[s].to # "blocked"
    <2> DEFINE new == [session[s] EXCEPT !.pc = "derive", !.tray = used, !.todo = session[s].on]
    <2>1. session' = [session EXCEPT ![s] = new]
      BY <1>4 DEF Record, Set
    <2>2. /\ new \in RequestRow(new) /\ new.on = session[s].on /\ new.kind = session[s].kind
          /\ new.to = session[s].to /\ new.pc = "derive"
      BY <1>1 DEF RequestRow, PC
    <2> HIDE DEF new
    <2>3. QED
      BY <1>1, <1>2, <2>1, <2>2, KeepTasks
  <1>5. QED
    BY <1>3, <1>4

LEMMA LockFailedInv ==
  ASSUME QueueInv, NEW s \in Sessions, LockFailed(s) PROVE QueueInv'
  <1> DEFINE failed == {t \in PrintsOf(session[s].order) : tasks[t].state = "failed"}
             new == [session[s] EXCEPT !.pc = "derive", !.on = failed, !.tray = used,
                                       !.todo = failed]
  <1>1. /\ session[s] \in RequestRow(session[s]) /\ session[s].kind # "claim"
        /\ session[s].to = "printed" /\ session[s].outcome \in [Orders -> Derivable]
        /\ "derive" \in PC
    BY Rows DEF LockFailed, At, Holds, PC
  <1>2. failed \in SUBSET Tasks /\ \A t \in failed : tasks[t].state = "failed"
    BY DEF PrintsOf
  <1>3. orders' = orders /\ tasks' = tasks
        /\ (Set(s, Idle) \/ session' = [session EXCEPT ![s] = new])
    BY DEF LockFailed, Set
  <1> HIDE DEF failed
  <1>4. /\ new \in RequestRow(new) /\ new.on = failed /\ new.kind = session[s].kind
        /\ new.to = session[s].to /\ new.pc = "derive"
    BY <1>1, <1>2 DEF RequestRow, PC
  <1> HIDE DEF new
  <1>5. Holds(new, tasks)
    BY <1>1, <1>2, <1>4 DEF Holds, Waiting
  <1>6. QED
    BY <1>1, <1>3, <1>4, <1>5, IdleInv, RequestStep

LEMMA DerivedType == \A states : Derived(states) \in Derivable
  BY DEF Derived, Derivable

LEMMA DeriveInv ==
  ASSUME QueueInv, NEW s \in Sessions, NEW t \in Tasks, Derive(s, t) PROVE QueueInv'
  <1>1. /\ session[s] \in RequestRow(session[s]) /\ session[s].kind # "claim"
        /\ session[s].outcome \in [Orders -> Derivable] /\ session[s].on \in SUBSET Tasks
        /\ {"commit", "derive"} \subseteq PC
    BY Rows DEF Derive, At, Holds, PC
  <1>2. PICK outcome, todo, pc :
            /\ outcome \in [Orders -> Derivable] /\ pc \in {"commit", "derive"}
            /\ session' = [session EXCEPT ![s] =
                   [session[s] EXCEPT !.outcome = outcome, !.todo = todo, !.pc = pc]]
    <2> DEFINE behind == OrdersBehind(s, t)
               rest == IF session[s].kind = "confirm" THEN {} ELSE session[s].todo \ {t}
               state == Derived({TaskSeen(s, u) : u \in PrintsOf(Newest(behind))})
               told == IF behind = {} THEN session[s].outcome
                       ELSE IF state = OrderLoaded(s, Newest(behind)) THEN session[s].outcome
                            ELSE [session[s].outcome EXCEPT ![Newest(behind)] = state]
               at == IF rest = {} THEN "commit" ELSE "derive"
    <2>1. session' = [session EXCEPT ![s] =
              [session[s] EXCEPT !.outcome = told, !.todo = rest, !.pc = at]]
      BY DEF Derive, Set
    <2>2. state \in Derivable
      BY DerivedType
    <2>3. told \in [Orders -> Derivable]
      <3> HIDE DEF state, behind
      <3>1. QED
        BY <1>1, <2>2
    <2>4. at \in {"commit", "derive"}
      OBVIOUS
    <2> HIDE DEF told, rest, at
    <2>5. QED
      BY <2>1, <2>3, <2>4
  <1> DEFINE new == [session[s] EXCEPT !.outcome = outcome, !.todo = todo, !.pc = pc]
  <1>3. orders' = orders /\ tasks' = tasks /\ session' = [session EXCEPT ![s] = new]
    BY <1>2 DEF Derive
  <1>4. /\ new \in RequestRow(new) /\ new.on = session[s].on /\ new.kind = session[s].kind
        /\ new.to = session[s].to /\ new.pc = pc
    BY <1>1, <1>2 DEF RequestRow, PC
  <1>5. new.pc # "confirm"
    BY <1>2, <1>4
  <1> HIDE DEF new
  <1>6. QED
    BY <1>1, <1>3, <1>4, <1>5, KeepTasks

\* What a commit leaves of a task and of an order.
LEMMA WrittenRow ==
  ASSUME QueueInv, NEW s \in Sessions, NEW t \in Tasks
  PROVE  /\ Written(s, t) \in TaskRow(Written(s, t))
         /\ Written(s, t).state = IF WritesState(s) THEN session[s].to ELSE tasks[t].state
         /\ Written(s, t).attempts = IF session[s].kind = "claim" THEN tasks[t].attempts + 1
                                     ELSE tasks[t].attempts
  <1> DEFINE state == IF WritesState(s) THEN session[s].to ELSE tasks[t].state
             attempts == IF session[s].kind = "claim" THEN tasks[t].attempts + 1
                         ELSE tasks[t].attempts
  <1>1. /\ tasks[t] \in TaskRow(tasks[t]) /\ state \in TaskState /\ attempts \in Nat
    BY Rows
  <1>2. PICK actual, taken :
            Written(s, t) = [tasks[t] EXCEPT !.state = state, !.lapsed = FALSE,
                                             !.attempts = attempts, !.actual = actual,
                                             !.taken = taken]
    BY DEF Written
  <1> HIDE DEF state, attempts
  <1>3. /\ Written(s, t) \in TaskRow(Written(s, t))
        /\ Written(s, t).state = state /\ Written(s, t).attempts = attempts
    BY <1>1, <1>2 DEF TaskRow
  <1>4. QED
    BY <1>3 DEF state, attempts

LEMMA CommitInv ==
  ASSUME QueueInv, NEW s \in Sessions, Commit(s) PROVE QueueInv'
  <1> DEFINE mine == session[s].on
             claims == session[s].kind = "claim"
  <1>1. /\ mine \in SUBSET Tasks /\ session[s].to \in TaskState
        /\ session[s].outcome \in [Orders -> Derivable] /\ Holds(session[s], tasks)
    BY Rows
  <1>2. /\ \A t \in Tasks : tasks'[t] = IF t \in mine THEN Written(s, t) ELSE tasks[t]
        /\ tasks' = [t \in Tasks |-> tasks'[t]]
        /\ session' = [session EXCEPT ![s] = Idle]
    BY DEF Commit, Set
  <1>3. \A t \in Tasks : /\ tasks'[t] \in TaskRow(tasks'[t])
                         /\ t \notin mine => tasks'[t] = tasks[t]
    BY <1>2, WrittenRow, Rows
  <1>4. claims => \A t \in mine : /\ tasks[t].state = "queued" /\ tasks'[t].attempts = 1
                                  /\ tasks'[t].state = "sent_to_device"
    <2>1. SUFFICES ASSUME claims, NEW t \in mine
                   PROVE  /\ tasks[t].state = "queued" /\ tasks'[t].attempts = 1
                          /\ tasks'[t].state = "sent_to_device"
      OBVIOUS
    <2>2. t \in Tasks /\ tasks[t].state = "queued" /\ session[s].to = "sent_to_device"
          /\ session[s].seen = "none"
      BY <1>1, <2>1 DEF Holds
    <2>3. tasks[t].attempts = 0
      BY <2>2 DEF QueueInv, QueuedOnlyOnce, Waiting
    <2>4. tasks'[t] = Written(s, t)
      BY <1>2, <2>1, <2>2
    <2>5. QED
      BY <2>1, <2>2, <2>3, <2>4, WrittenRow DEF WritesState
  <1>5. ~claims => \A t \in mine : /\ tasks[t].state \notin Waiting /\ tasks'[t].state \notin Waiting
                                   /\ tasks'[t].attempts = tasks[t].attempts
    <2>1. SUFFICES ASSUME ~claims, NEW t \in mine
                   PROVE  /\ tasks[t].state \notin Waiting /\ tasks'[t].state \notin Waiting
                          /\ tasks'[t].attempts = tasks[t].attempts
      OBVIOUS
    <2>2. t \in Tasks /\ tasks[t].state \notin Waiting /\ session[s].to \notin Waiting
      BY <1>1, <2>1 DEF Holds
    <2>3. tasks'[t] = Written(s, t)
      BY <1>2, <2>1, <2>2
    <2>4. QED
      BY <2>1, <2>2, <2>3, WrittenRow
  <1>6. \A o \in Orders : /\ orders'[o] \in OrderRow(orders'[o])
                          /\ orders'[o].state \in Unpaid => orders[o].state \in Unpaid
    <2>1. TAKE o \in Orders
    <2> DEFINE state == IF session[s].outcome[o] = "same" THEN orders[o].state
                        ELSE session[s].outcome[o]
    <2>2. orders'[o] = [orders[o] EXCEPT !.state = state]
      BY DEF Commit
    <2>3. session[s].outcome[o] \in Derivable /\ orders[o] \in OrderRow(orders[o])
          /\ orders[o].state \in OrderState
      BY <1>1, Rows
    <2>4. state \in OrderState /\ (state \in Unpaid => orders[o].state \in Unpaid)
      BY <2>3 DEF Derivable, OrderState, Unpaid
    <2> HIDE DEF state
    <2>5. orders'[o] \in OrderRow(orders'[o]) /\ orders'[o].state = state
      BY <2>2, <2>3, <2>4 DEF OrderRow
    <2>6. QED
      BY <2>4, <2>5
  <1>7. Shape'
    <2>1. orders' = [o \in Orders |-> orders'[o]]
      BY DEF Commit
    <2>2. session' = [r \in Sessions |-> session'[r]]
      BY <1>2 DEF QueueInv, Shape
    <2>3. \A r \in Sessions : session'[r] \in RequestRow(session'[r])
      BY <1>2, Rows, IdleHolds DEF QueueInv, Shape
    <2>4. QED
      BY <1>2, <1>3, <1>6, <2>1, <2>2, <2>3 DEF Shape
  <1>8. HandedOutOnce'
    BY <1>3, <1>4, <1>5 DEF QueueInv, HandedOutOnce
  <1>9. QueuedOnlyOnce'
    <2>1. \A t \in Tasks : tasks'[t].state \in Waiting => t \notin mine
      BY <1>4, <1>5 DEF Waiting
    <2>2. \A t \in Tasks : orders'[t[1]].state \in Unpaid => tasks[t].state = "none"
      BY <1>6, TaskOfOrder DEF QueueInv, QueuedOnlyOnce
    <2>3. \A t \in Tasks : tasks[t].state = "none" => t \notin mine
      BY <1>4, <1>5 DEF Waiting
    <2>4. QED
      BY <1>3, <2>1, <2>2, <2>3 DEF QueueInv, QueuedOnlyOnce
  <1>10. \A r \in Sessions : Holds(session'[r], tasks')
    <2>1. SUFFICES ASSUME NEW r \in Sessions, r # s PROVE Holds(session[r], tasks')
      BY <1>2, IdleHolds DEF Holds, QueueInv, Shape
    <2>2. Holds(session[r], tasks) /\ session[r].on \in SUBSET Tasks
      BY Rows
    <2>3. CASE session[r].kind = "claim"
      <3>1. \A t \in session[r].on : t \notin mine
        <4>1. claims => session[r].on \cap mine = {}
          BY <2>1, <2>3 DEF QueueInv, RequestsHoldTheirTasks
        <4>2. ~claims => \A t \in session[r].on : t \notin mine
          BY <1>5, <2>2, <2>3 DEF Holds, Waiting
        <4>3. QED
          BY <4>1, <4>2
      <3>2. \A t \in session[r].on : tasks'[t] = tasks[t]
        BY <1>3, <2>2, <3>1
      <3>3. QED
        BY <2>2, <2>3, <3>2 DEF Holds
    <2>4. CASE session[r].kind # "claim"
      <3>1. \A t \in session[r].on : tasks'[t].state \notin Waiting
        BY <1>3, <1>4, <1>5, <2>2, <2>4 DEF Holds, Waiting
      <3>2. QED
        BY <2>2, <2>4, <3>1 DEF Holds
    <2>5. QED
      BY <2>3, <2>4
  <1>11. RequestsHoldTheirTasks'
    <2>1. \A r \in Sessions : session'[r].kind = "claim" => r # s /\ session'[r] = session[r]
      BY <1>2, IdleHolds DEF QueueInv, Shape
    <2>2. \A q, r \in Sessions :
              q # r /\ session'[q].kind = "claim" /\ session'[r].kind = "claim" =>
                  session'[q].on \cap session'[r].on = {}
      BY <2>1 DEF QueueInv, RequestsHoldTheirTasks
    <2>3. QED
      BY <1>10, <2>2 DEF RequestsHoldTheirTasks
  <1>12. QED
    BY <1>7, <1>8, <1>9, <1>11 DEF QueueInv

-----------------------------------------------------------------------------

LEMMA NextInv == QueueInv /\ [Next]_vars => QueueInv'
  <1> SUFFICES ASSUME QueueInv, [Next]_vars PROVE QueueInv'
    OBVIOUS
  <1>1. CASE \E o \in Orders : PlaceOrder(o) \/ MarkPaid(o) \/ Refund(o)
    BY <1>1, PlaceOrderInv, MarkPaidInv, RefundInv
  <1>2. CASE \E t \in Tasks : LeaseRunsOut(t) \/ RenewHeldLease(t)
    <2>1. PICK t \in Tasks, lapsed \in BOOLEAN :
              /\ tasks' = [tasks EXCEPT ![t] = [tasks[t] EXCEPT !.lapsed = lapsed]]
              /\ orders' = orders /\ session' = session
      BY <1>2 DEF LeaseRunsOut, RenewHeldLease
    <2>2. QED
      BY <2>1, LeaseStep
  <1>3. CASE (\E t \in Tasks : GoQuiet(t)) \/ SetPaper \/ UNCHANGED vars
    <2>1. orders' = orders /\ tasks' = tasks /\ session' = session
      BY <1>3 DEF GoQuiet, SetPaper, vars
    <2>2. QED
      BY <2>1 DEF QueueInv, Shape, HandedOutOnce, QueuedOnlyOnce, RequestsHoldTheirTasks
  <1>4. CASE \E s \in Agents : Device(s)
    BY <1>4, ClaimInv, ReportInv DEF Device, Sessions
  <1>5. CASE \E s \in Sweepers : SettleLostTasks(s)
    BY <1>5, SweepInv DEF Sessions
  <1>6. CASE \E s \in Desk, o \in Orders : ConfirmOrderPrinted(s, o)
    BY <1>6, ConfirmInv DEF Sessions
  <1>7. CASE \E s \in Sessions : Work(s)
    BY <1>7, RecordInv, LockFailedInv, DeriveInv, CommitInv DEF Work
  <1>8. CASE \E s \in Sessions : Rollback(s)
    BY <1>8, IdleInv DEF Rollback
  <1>9. QED
    BY <1>1, <1>2, <1>3, <1>4, <1>5, <1>6, <1>7, <1>8 DEF Next

\* However many sessions serve a kiosk's device, and whatever is reported, swept,
\* confirmed or rolled back meanwhile, claim_next_task hands each task out once.
THEOREM QueueHandedOutOnce == Spec => []HandedOutOnce
  <1>1. Init => QueueInv
    BY InitInv
  <1>2. QueueInv /\ [Next]_vars => QueueInv'
    BY NextInv
  <1>3. QueueInv => HandedOutOnce
    BY DEF QueueInv
  <1>4. QED
    BY <1>1, <1>2, <1>3, PTL DEF Spec

-----------------------------------------------------------------------------
(* What a request takes from the tray adds up to a number of sheets.  The  *)
(* sum is a fold over a set: it is defined for every finite set, by        *)
(* induction on how many tasks there are.                                  *)

Less == {p \in Nat \X Nat : p[1] < p[2]}

LEMMA LessIsWellFounded == IsWellFoundedOn(Less, Nat)
  <1>1. OpToRel(<, Nat) = Less
    BY DEF OpToRel, Less
  <1>2. QED
    BY <1>1, NatLessThanWellFounded

\* A set of naturals with 0 and every successor is all of Nat.
LEMMA Induction ==
  ASSUME NEW T, 0 \in T, \A n \in Nat : n \in T => n + 1 \in T
  PROVE  Nat \subseteq T
  <1> SUFFICES ASSUME Nat \ T # {} PROVE FALSE
    OBVIOUS
  <1>1. PICK m \in Nat \ T : \A n \in Nat \ T : ~(<<n, m>> \in Less)
    <2>1. \E m \in Nat \ T : \A n \in Nat \ T : ~(<<n, m>> \in Less)
      BY LessIsWellFounded, WFMin
    <2>2. QED
      BY <2>1
  <1>2. m # 0
    OBVIOUS
  <1>3. m - 1 \in Nat /\ m - 1 < m
    BY <1>2
  <1>4. m - 1 \notin T
    BY <1>3
  <1>5. <<m - 1, m>> \in Less
    BY <1>3 DEF Less
  <1>6. QED
    BY <1>1, <1>3, <1>4, <1>5

\* An element taken from x as the folds take it, and what is left.
Chosen(x) == CHOOSE y \in x : TRUE
Rest(x) == x \ {Chosen(x)}

\* f adds up what the request of q takes for every subset of S of n tasks at most.
Sums(f, q, S, n) ==
    f = [x \in {y \in SUBSET S : Cardinality(y) <= n} |->
            IF x = {} THEN 0 ELSE Taken(q, Chosen(x)) + f[Rest(x)]]

LEMMA RestIsSmaller ==
  ASSUME NEW S, IsFiniteSet(S), NEW x \in SUBSET S, x # {}
  PROVE  /\ Chosen(x) \in x /\ Rest(x) \in SUBSET S
         /\ Cardinality(x) \in Nat \ {0} /\ Cardinality(Rest(x)) = Cardinality(x) - 1
  <1>1. Chosen(x) \in x
    BY DEF Chosen
  <1>2. IsFiniteSet(x)
    BY FS_Subset
  <1>3. Cardinality(x) \in Nat /\ Cardinality(x) # 0
    BY <1>2, FS_CardinalityType, FS_EmptySet
  <1>4. Cardinality(Rest(x)) = Cardinality(x) - 1
    BY <1>1, <1>2, FS_RemoveElement DEF Rest
  <1>5. QED
    BY <1>1, <1>3, <1>4 DEF Rest

LEMMA SumsExist ==
  ASSUME NEW S, IsFiniteSet(S), NEW q
  PROVE  \A n \in Nat : \E f : Sums(f, q, S, n)
  <1> DEFINE T == {n \in Nat : \E f : Sums(f, q, S, n)}
  <1>1. \A x \in SUBSET S : Cardinality(x) \in Nat /\ (Cardinality(x) = 0 <=> x = {})
    BY FS_Subset, FS_CardinalityType, FS_EmptySet
  <1>2. 0 \in T
    <2> DEFINE D == {y \in SUBSET S : Cardinality(y) <= 0}
               f == [x \in D |-> 0]
    <2>1. \A x \in D : x = {}
      BY <1>1
    <2>2. f = [x \in D |-> IF x = {} THEN 0 ELSE Taken(q, Chosen(x)) + f[Rest(x)]]
      BY <2>1
    <2>3. Sums(f, q, S, 0)
      BY <2>2 DEF Sums
    <2>4. QED
      BY <2>3
  <1>3. ASSUME NEW n \in Nat, n \in T
        PROVE  n + 1 \in T
    <2>1. PICK f : Sums(f, q, S, n)
      BY <1>3
    <2> DEFINE D == {y \in SUBSET S : Cardinality(y) <= n}
               E == {y \in SUBSET S : Cardinality(y) <= n + 1}
               g == [x \in E |-> IF x = {} THEN 0 ELSE Taken(q, Chosen(x)) + f[Rest(x)]]
    <2>2. f = [x \in D |-> IF x = {} THEN 0 ELSE Taken(q, Chosen(x)) + f[Rest(x)]]
      BY <2>1 DEF Sums
    <2>3. \A x \in D : f[x] = g[x]
      <3>1. \A x \in D : x \in E
        BY <1>1
      <3>2. \A x \in D : f[x] = IF x = {} THEN 0 ELSE Taken(q, Chosen(x)) + f[Rest(x)]
        BY <2>2
      <3>3. QED
        BY <3>1, <3>2
    <2>4. \A x \in E : x # {} => Rest(x) \in D
      BY RestIsSmaller
    <2>5. \A x \in E : x # {} => f[Rest(x)] = g[Rest(x)]
      BY <2>3, <2>4
    <2>6. g = [x \in E |-> IF x = {} THEN 0 ELSE Taken(q, Chosen(x)) + g[Rest(x)]]
      BY <2>5
    <2>7. Sums(g, q, S, n + 1)
      BY <2>6 DEF Sums
    <2>8. QED
      BY <2>7
  <1>4. Nat \subseteq T
    <2> HIDE DEF T
    <2>1. QED
      BY <1>2, <1>3, Induction
  <1>5. QED
    BY <1>4

\* The sum the tray loses is a number of sheets.
LEMMA SumOfSheets ==
  ASSUME NEW q, IsFiniteSet(session[q].on), \A t \in session[q].on : Taken(q, t) \in Nat
  PROVE  TakenByAll(q) \in Nat
  <1> DEFINE S == session[q].on
             Iter(f) == f = [x \in SUBSET S |->
                          IF x = {} THEN 0 ELSE Taken(q, CHOOSE y \in x : TRUE)
                                                 + f[x \ {CHOOSE y \in x : TRUE}]]
             sum == CHOOSE f : Iter(f)
  <1>0. IsFiniteSet(S) /\ \A t \in S : Taken(q, t) \in Nat
    OBVIOUS
  <1>1. TakenByAll(q) = sum[S]
    BY DEF TakenByAll, MapThenSumSet, MapThenFoldSet
  <1>2. Cardinality(S) \in Nat /\ \A x \in SUBSET S : Cardinality(x) <= Cardinality(S)
    BY FS_CardinalityType, FS_Subset
  <1>3. \E f : Iter(f)
    <2>1. PICK f : Sums(f, q, S, Cardinality(S))
      BY <1>2, SumsExist
    <2>2. {y \in SUBSET S : Cardinality(y) <= Cardinality(S)} = SUBSET S
      BY <1>2
    <2>3. f = [x \in SUBSET S |-> IF x = {} THEN 0 ELSE Taken(q, Chosen(x)) + f[Rest(x)]]
      BY <2>1, <2>2 DEF Sums
    <2>4. Iter(f)
      BY <2>3 DEF Chosen, Rest
    <2>5. QED
      BY <2>4
  <1>4. Iter(sum)
    <2> HIDE DEF Iter
    <2>1. QED
      BY <1>3, Zenon
  <1>5. \A x \in SUBSET S : sum[x] = IF x = {} THEN 0 ELSE Taken(q, Chosen(x)) + sum[Rest(x)]
    <2> HIDE DEF sum
    <2>1. QED
      BY <1>4 DEF Chosen, Rest
  <1> HIDE DEF sum, Iter, S
  <1> DEFINE T == {n \in Nat : \A x \in SUBSET S : Cardinality(x) = n => sum[x] \in Nat}
  <1>6. 0 \in T
    <2>1. \A x \in SUBSET S : Cardinality(x) = 0 => x = {}
      BY <1>0, FS_Subset, FS_EmptySet
    <2>2. sum[{}] = 0
      BY <1>5
    <2>3. \A x \in SUBSET S : Cardinality(x) = 0 => sum[x] \in Nat
      BY <2>1, <2>2
    <2>4. QED
      BY <2>3
  <1>7. ASSUME NEW n \in Nat, n \in T PROVE n + 1 \in T
    <2>1. SUFFICES ASSUME NEW x \in SUBSET S, Cardinality(x) = n + 1 PROVE sum[x] \in Nat
      OBVIOUS
    <2>2. x # {}
      BY <2>1, FS_EmptySet
    <2>3. Chosen(x) \in S /\ Rest(x) \in SUBSET S /\ Cardinality(Rest(x)) = n
      BY <1>0, <2>1, <2>2, RestIsSmaller
    <2>4. sum[Rest(x)] \in Nat
      BY <1>7, <2>3
    <2>5. QED
      BY <1>0, <1>5, <2>2, <2>3, <2>4
  <1>8. Cardinality(S) \in T
    <2> HIDE DEF T
    <2>1. QED
      BY <1>2, <1>6, <1>7, Induction
  <1>9. QED
    BY <1>1, <1>8

-----------------------------------------------------------------------------
(* Types.                                                                  *)

LEMMA TasksAreFinite == IsFiniteSet(Tasks)
  <1> DEFINE rows == [o \in Orders |-> {o} \X (1..Len(Items[o]))]
             all == {{o} \X (1..Len(Items[o])) : o \in Orders}
  <1>1. \A o \in Orders : IsFiniteSet({o} \X (1..Len(Items[o])))
    <2>1. TAKE o \in Orders
    <2>2. IsFiniteSet({o})
      BY FS_Singleton
    <2>3. IsFiniteSet(1..Len(Items[o]))
      BY PrintQueueAssumption, FS_Interval
    <2>4. QED
      BY <2>2, <2>3, FS_Product
  <1>2. rows \in Surjection(Orders, all)
    BY DEF Surjection
  <1>3. IsFiniteSet(all)
    BY <1>2, PrintQueueAssumption, FS_Surjection
  <1>4. QED
    BY <1>1, <1>3, FS_UNION DEF Tasks

LEMMA NowType == ASSUME TypeOK PROVE Now \in Nat
  <1>1. \A S \in SUBSET Orders : Cardinality(S) \in Nat
    BY PrintQueueAssumption, FS_Subset, FS_CardinalityType
  <1>2. QED
    BY <1>1 DEF Now

LEMMA UsedType ==
  ASSUME NEW sheets \in Nat \cup {Unsaid}, NEW unsaid \in Nat
  PROVE  Used(sheets, unsaid) \in Nat
  BY DEF Used, Unsaid

LEMMA MaxOfTwo ==
  ASSUME NEW m \in Int, NEW n \in Int
  PROVE  Max({m, n}) = IF m >= n THEN m ELSE n
  <1>1. \E x \in {m, n} : \A y \in {m, n} : x >= y
    OBVIOUS
  <1>2. Max({m, n}) \in {m, n} /\ \A y \in {m, n} : Max({m, n}) >= y
    BY <1>1, Zenon DEF Max
  <1>3. QED
    BY <1>2

LEMMA MinOfTwo ==
  ASSUME NEW m \in Int, NEW n \in Int
  PROVE  Min({m, n}) = IF m <= n THEN m ELSE n
  <1>1. \E x \in {m, n} : \A y \in {m, n} : x <= y
    OBVIOUS
  <1>2. Min({m, n}) \in {m, n} /\ \A y \in {m, n} : Min({m, n}) <= y
    BY <1>1, Zenon DEF Min
  <1>3. QED
    BY <1>2

LEMMA SessionType ==
  ASSUME TypeOK, NEW s \in Sessions
  PROVE  session[s] \in SessionState
  BY DEF TypeOK

LEMMA TakenType ==
  ASSUME TypeOK, NEW s \in Sessions, NEW t \in Tasks
  PROVE  Taken(s, t) \in Nat
  <1>1. session[s].sheets \in Nat \cup {Unsaid} /\ tasks[t].actual \in Nat \cup {Unsaid}
        /\ Predicted \in Nat
    BY SessionType, PrintQueueAssumption DEF TypeOK, SessionState, Task
  <1>2. /\ Used(session[s].sheets, Predicted) \in Nat /\ Used(session[s].sheets, 0) \in Nat
        /\ Used(tasks[t].actual, 0) \in Nat
    BY <1>1, UsedType
  <1>3. Max({0, Predicted - Used(tasks[t].actual, 0)}) \in Nat
    BY <1>1, <1>2, MaxOfTwo
  <1>4. QED
    BY <1>2, <1>3 DEF Taken

\* consume_paper: the tray never loses more than it can hold.
LEMMA TrayType ==
  ASSUME TypeOK, NEW s \in Sessions
  PROVE  TrayAfter(s) \in 0..Capacity
  <1>1. session[s].on \in SUBSET Tasks /\ session[s].tray \in Nat /\ Capacity \in Nat
    BY SessionType, PrintQueueAssumption DEF SessionState
  <1>2. IsFiniteSet(session[s].on)
    BY <1>1, TasksAreFinite, FS_Subset
  <1>3. TakenByAll(s) \in Nat
    BY <1>1, <1>2, TakenType, SumOfSheets
  <1>4. QED
    BY <1>1, <1>3, MinOfTwo DEF TrayAfter

LEMMA IdleType == Idle \in SessionState
  BY DEF Idle, SessionState, PC, Kind, TaskState, OrderState

\* A step that only changes what the request of s is about to do.
LEMMA RequestType ==
  ASSUME TypeOK, NEW s \in Sessions, NEW new \in SessionState, Set(s, new),
         UNCHANGED <<orders, tasks, used, quiet>>
  PROVE  TypeOK'
  BY DEF TypeOK, Set

LEMMA OrderType ==
  ASSUME TypeOK, NEW o \in Orders, PlaceOrder(o) \/ MarkPaid(o) \/ Refund(o)
  PROVE  TypeOK'
  <1>1. /\ orders \in [Orders -> Order] /\ tasks \in [Tasks -> Task] /\ Now \in Nat
        /\ {"awaiting_payment", "paid", "refunded"} \subseteq OrderState
        /\ "queued" \in TaskState
    BY NowType DEF TypeOK, OrderState, TaskState
  <1>2. CASE PlaceOrder(o)
    <2>1. orders' \in [Orders -> Order]
      BY <1>1, <1>2 DEF PlaceOrder, Order
    <2>2. QED
      BY <1>2, <2>1 DEF PlaceOrder, TypeOK
  <1>3. CASE MarkPaid(o)
    <2>1. orders' \in [Orders -> Order]
      BY <1>1, <1>3 DEF MarkPaid, Order
    <2>2. tasks' \in [Tasks -> Task]
      BY <1>1, <1>3 DEF MarkPaid, Task
    <2>3. QED
      BY <1>3, <2>1, <2>2 DEF MarkPaid, TypeOK
  <1>4. CASE Refund(o)
    <2>1. orders[o] \in Order
      BY <1>1
    <2>2. /\ [orders[o] EXCEPT !.returned = TRUE] \in Order
          /\ [orders[o] EXCEPT !.returned = TRUE, !.state = "refunded"] \in Order
      BY <1>1, <2>1 DEF Order
    <2>3. \/ orders' = [orders EXCEPT ![o] = [orders[o] EXCEPT !.returned = TRUE]]
          \/ orders' = [orders EXCEPT ![o] = [orders[o] EXCEPT !.returned = TRUE,
                                                               !.state = "refunded"]]
      BY <1>1, <1>4 DEF Refund
    <2>4. orders' \in [Orders -> Order]
      BY <1>1, <2>2, <2>3
    <2>5. QED
      BY <1>4, <2>4 DEF Refund, TypeOK
  <1>5. QED
    BY <1>2, <1>3, <1>4

LEMMA LeaseType ==
  ASSUME TypeOK, NEW t \in Tasks, LeaseRunsOut(t) \/ RenewHeldLease(t) \/ GoQuiet(t)
  PROVE  TypeOK'
  <1>1. CASE GoQuiet(t)
    BY <1>1 DEF GoQuiet, TypeOK
  <1>2. CASE LeaseRunsOut(t) \/ RenewHeldLease(t)
    <2>1. tasks' \in [Tasks -> Task]
      BY <1>2 DEF LeaseRunsOut, RenewHeldLease, TypeOK, Task
    <2>2. QED
      BY <1>2, <2>1 DEF LeaseRunsOut, RenewHeldLease, TypeOK
  <1>3. QED
    BY <1>1, <1>2

LEMMA BeginType ==
  ASSUME TypeOK, NEW s \in Sessions,
         \/ ClaimNextTask(s)
         \/ \E t \in Tasks : ReportStatus(s, t)
         \/ SettleLostTasks(s)
         \/ \E o \in Orders : ConfirmOrderPrinted(s, o)
  PROVE  TypeOK'
  <1>1. ASSUME ClaimNextTask(s) PROVE TypeOK'
    <2>1. PICK t \in Tasks : Claim(s, t)
      BY <1>1 DEF ClaimNextTask
    <2> DEFINE new == [Idle EXCEPT !.pc = "commit", !.kind = "claim", !.on = {t},
                                   !.to = "sent_to_device"]
    <2>2. new \in SessionState
      BY DEF Idle, SessionState, PC, Kind, TaskState, OrderState
    <2>3. Set(s, new)
      BY <2>1 DEF Claim
    <2> HIDE DEF new
    <2>4. QED
      BY <1>1, <2>2, <2>3, RequestType DEF ClaimNextTask
  <1>2. ASSUME NEW t \in Tasks, ReportStatus(s, t) PROVE TypeOK'
    <2>1. PICK to \in {"printing", "printed", "failed", "blocked"}, sheets \in Reports \cup {Unsaid} :
              Set(s, [Idle EXCEPT !.pc = "record", !.kind = "report", !.on = {t},
                                  !.seen = tasks[t].state, !.to = to, !.sheets = sheets])
      BY <1>2 DEF ReportStatus
    <2> DEFINE new == [Idle EXCEPT !.pc = "record", !.kind = "report", !.on = {t},
                                   !.seen = tasks[t].state, !.to = to, !.sheets = sheets]
    <2>2. sheets \in Nat \cup {Unsaid} /\ tasks[t].state \in TaskState
      BY PrintQueueAssumption DEF TypeOK, Task
    <2>3. new \in SessionState
      BY <2>2 DEF Idle, SessionState, PC, Kind, TaskState, OrderState
    <2>4. Set(s, new)
      BY <2>1
    <2> HIDE DEF new
    <2>5. QED
      BY <1>2, <2>3, <2>4, RequestType DEF ReportStatus
  <1>3. ASSUME SettleLostTasks(s) PROVE TypeOK'
    <2> DEFINE stale == {t \in Tasks : tasks[t].state \in InHand /\ tasks[t].lapsed}
               new == [Idle EXCEPT !.pc = "record", !.kind = "sweep", !.on = stale,
                                   !.to = "failed"]
    <2>1. Set(s, new)
      BY <1>3 DEF SettleLostTasks
    <2>2. stale \in SUBSET Tasks
      OBVIOUS
    <2> HIDE DEF stale
    <2>3. new \in SessionState
      BY <2>2 DEF Idle, SessionState, PC, Kind, TaskState, OrderState
    <2> HIDE DEF new
    <2>4. QED
      BY <1>3, <2>1, <2>3, RequestType DEF SettleLostTasks
  <1>4. ASSUME NEW o \in Orders, ConfirmOrderPrinted(s, o) PROVE TypeOK'
    <2> DEFINE new == [Idle EXCEPT !.pc = "confirm", !.kind = "confirm", !.to = "printed",
                                   !.order = o]
    <2>1. Set(s, new)
      BY <1>4 DEF ConfirmOrderPrinted
    <2>2. new \in SessionState
      BY DEF Idle, SessionState, PC, Kind, TaskState, OrderState
    <2> HIDE DEF new
    <2>3. QED
      BY <1>4, <2>1, <2>2, RequestType DEF ConfirmOrderPrinted
  <1>5. QED
    BY <1>1, <1>2, <1>3, <1>4

LEMMA RecordType ==
  ASSUME TypeOK, NEW s \in Sessions, Record(s) \/ LockFailed(s)
  PROVE  TypeOK'
  <1>1. session[s] \in SessionState /\ used \in Nat /\ session[s].on \in SUBSET Tasks
    BY SessionType, PrintQueueAssumption DEF TypeOK, SessionState
  <1>2. CASE Record(s)
    <2> DEFINE told == [session[s] EXCEPT !.pc = "commit", !.tray = used]
               goes == [session[s] EXCEPT !.pc = "derive", !.tray = used, !.todo = session[s].on]
    <2>1. told \in SessionState /\ goes \in SessionState
      BY <1>1 DEF SessionState, PC
    <2>2. Set(s, told) \/ Set(s, goes)
      BY <1>2 DEF Record
    <2> HIDE DEF told, goes
    <2>3. QED
      BY <1>2, <2>1, <2>2, RequestType DEF Record
  <1>3. CASE LockFailed(s)
    <2> DEFINE failed == {t \in PrintsOf(session[s].order) : tasks[t].state = "failed"}
               new == [session[s] EXCEPT !.pc = "derive", !.on = failed, !.tray = used,
                                         !.todo = failed]
    <2>1. failed \in SUBSET Tasks
      BY DEF PrintsOf
    <2>2. Set(s, Idle) \/ Set(s, new)
      BY <1>3 DEF LockFailed
    <2> HIDE DEF failed
    <2>3. new \in SessionState
      BY <1>1, <2>1 DEF SessionState, PC
    <2> HIDE DEF new
    <2>4. QED
      BY <1>3, <2>2, <2>3, IdleType, RequestType DEF LockFailed
  <1>4. QED
    BY <1>2, <1>3

LEMMA DeriveType ==
  ASSUME TypeOK, NEW s \in Sessions, NEW t \in Tasks, Derive(s, t)
  PROVE  TypeOK'
  <1>1. /\ session[s] \in SessionState /\ session[s].todo \in SUBSET Tasks
        /\ session[s].outcome \in [Orders -> OrderState \cup {"same"}]
    BY SessionType DEF SessionState
  <1> DEFINE behind == OrdersBehind(s, t)
             rest == IF session[s].kind = "confirm" THEN {} ELSE session[s].todo \ {t}
             state == Derived({TaskSeen(s, u) : u \in PrintsOf(Newest(behind))})
             told == IF behind = {} THEN session[s].outcome
                     ELSE IF state = OrderLoaded(s, Newest(behind)) THEN session[s].outcome
                          ELSE [session[s].outcome EXCEPT ![Newest(behind)] = state]
             at == IF rest = {} THEN "commit" ELSE "derive"
             new == [session[s] EXCEPT !.outcome = told, !.todo = rest, !.pc = at]
  <1>2. Set(s, new) /\ UNCHANGED <<orders, tasks, used, quiet>>
    BY DEF Derive
  <1>3. state \in OrderState \cup {"same"}
    BY DerivedType DEF Derivable, OrderState
  <1>4. told \in [Orders -> OrderState \cup {"same"}]
    <2> HIDE DEF state, behind
    <2>1. QED
      BY <1>1, <1>3
  <1>5. rest \in SUBSET Tasks /\ at \in PC
    BY <1>1 DEF PC
  <1> HIDE DEF told, rest, at
  <1>6. new \in SessionState
    BY <1>1, <1>4, <1>5 DEF SessionState
  <1> HIDE DEF new
  <1>7. QED
    BY <1>2, <1>6, RequestType

LEMMA WrittenType ==
  ASSUME TypeOK, NEW s \in Sessions, NEW t \in Tasks
  PROVE  Written(s, t) \in Task
  <1> DEFINE state == IF WritesState(s) THEN session[s].to ELSE tasks[t].state
             attempts == IF session[s].kind = "claim" THEN tasks[t].attempts + 1
                         ELSE tasks[t].attempts
             actual == IF session[s].kind = "confirm"
                       THEN Max({Used(tasks[t].actual, 0), Predicted})
                       ELSE IF session[s].sheets # Unsaid THEN session[s].sheets
                            ELSE tasks[t].actual
             taken == tasks[t].taken + Taken(s, t)
  <1>1. tasks[t] \in Task /\ session[s] \in SessionState
    BY DEF TypeOK
  <1>2. /\ tasks[t].actual \in Nat \cup {Unsaid} /\ session[s].sheets \in Nat \cup {Unsaid}
        /\ tasks[t].taken \in Nat /\ tasks[t].state \in TaskState /\ tasks[t].attempts \in Nat
        /\ session[s].to \in TaskState
    BY <1>1 DEF Task, SessionState
  <1>3. state \in TaskState /\ attempts \in Nat
    BY <1>2
  <1>4. actual \in Nat \cup {Unsaid}
    <2>1. Used(tasks[t].actual, 0) \in Nat /\ Predicted \in Nat
      BY <1>2, UsedType, PrintQueueAssumption
    <2>2. Max({Used(tasks[t].actual, 0), Predicted}) \in Nat
      BY <2>1, MaxOfTwo
    <2>3. QED
      BY <1>2, <2>2
  <1>5. taken \in Nat
    BY <1>2, TakenType
  <1>6. Written(s, t) = [tasks[t] EXCEPT !.state = state, !.lapsed = FALSE,
                                         !.attempts = attempts, !.actual = actual,
                                         !.taken = taken]
    BY DEF Written
  <1> HIDE DEF state, attempts, actual, taken
  <1>7. QED
    BY <1>1, <1>3, <1>4, <1>5, <1>6 DEF Task

LEMMA CommitType ==
  ASSUME TypeOK, NEW s \in Sessions, Commit(s)
  PROVE  TypeOK'
  <1>1. tasks' \in [Tasks -> Task]
    BY WrittenType DEF Commit, TypeOK
  <1>2. orders' \in [Orders -> Order]
    <2>1. session[s].outcome \in [Orders -> OrderState \cup {"same"}]
      BY SessionType DEF SessionState
    <2>2. \A o \in Orders : [orders[o] EXCEPT !.state =
              IF session[s].outcome[o] = "same" THEN @ ELSE session[s].outcome[o]] \in Order
      BY <2>1 DEF TypeOK, Order
    <2>3. QED
      BY <2>2 DEF Commit
  <1>3. used' \in 0..Capacity
    BY TrayType DEF Commit, TypeOK
  <1>4. session' \in [Sessions -> SessionState]
    BY IdleType DEF Commit, Set, TypeOK
  <1>5. QED
    BY <1>1, <1>2, <1>3, <1>4 DEF Commit, TypeOK

LEMMA InitType == Init => TypeOK
  <1> SUFFICES ASSUME Init PROVE TypeOK
    OBVIOUS
  <1>1. orders \in [Orders -> Order]
    BY DEF Init, Order, OrderState
  <1>2. tasks \in [Tasks -> Task]
    BY DEF Init, Task, TaskState
  <1>3. QED
    BY <1>1, <1>2, IdleType DEF Init, TypeOK

LEMMA NextType == TypeOK /\ [Next]_vars => TypeOK'
  <1> SUFFICES ASSUME TypeOK, [Next]_vars PROVE TypeOK'
    OBVIOUS
  <1>1. CASE \E o \in Orders : PlaceOrder(o) \/ MarkPaid(o) \/ Refund(o)
    BY <1>1, OrderType
  <1>2. CASE \E t \in Tasks : LeaseRunsOut(t) \/ RenewHeldLease(t) \/ GoQuiet(t)
    BY <1>2, LeaseType
  <1>3. CASE SetPaper \/ UNCHANGED vars
    BY <1>3 DEF SetPaper, vars, TypeOK
  <1>4. CASE \E s \in Agents : Device(s)
    BY <1>4, BeginType DEF Device, Sessions
  <1>5. CASE \E s \in Sweepers : SettleLostTasks(s)
    BY <1>5, BeginType DEF Sessions
  <1>6. CASE \E s \in Desk, o \in Orders : ConfirmOrderPrinted(s, o)
    BY <1>6, BeginType DEF Sessions
  <1>7. CASE \E s \in Sessions : Work(s)
    BY <1>7, RecordType, DeriveType, CommitType DEF Work
  <1>8. CASE \E s \in Sessions : Rollback(s)
    BY <1>8, IdleType, RequestType DEF Rollback
  <1>9. QED
    BY <1>1, <1>2, <1>3, <1>4, <1>5, <1>6, <1>7, <1>8 DEF Next

\* Orders, tasks, the tray and the requests in flight keep their types: whatever is
\* reported and however stale the tray was when it was read, consume_paper leaves it
\* between empty and full.
THEOREM QueueTypeOK == Spec => []TypeOK
  <1>1. QED
    BY InitType, NextType, PTL DEF Spec

-----------------------------------------------------------------------------
(* Paper is taken once.                                                    *)
(*                                                                         *)
(* True where one session serves the device and the sweep: two reports of a *)
(* task that overlap both take its paper.  Operators confirm beside it, as  *)
(* many as like.  What a request found of its tasks is then still so when   *)
(* it commits.                                                              *)

ServedInTurn == \A a, b \in Agents \cup Sweepers : a = b

\* What the tray lost to a task is what became of its print.
Exact(row) ==
    row.taken = IF row.state = "printed" THEN Used(row.actual, Predicted) ELSE Used(row.actual, 0)

\* What a print used is known at its end and no sooner.
Unsaying(row) == row.state \notin Terminal => row.actual = Unsaid

\* What a request means to write, and the state its tasks are in until then.
Speaks(st, row) ==
    /\ st.kind = "none" => st.on = {}
    /\ st.pc = "confirm" => st.kind = "confirm"
    /\ st.kind = "claim" =>
          /\ st.seen = "none" /\ st.to = "sent_to_device" /\ st.sheets = Unsaid
          /\ \A t \in st.on : row[t].state = "queued"
    /\ st.kind = "report" =>
          /\ st.to \in {"printing", "blocked", "printed", "failed"}
          /\ st.to \in {"printing", "blocked"} => st.sheets = Unsaid
          /\ \A t \in st.on : row[t].state \in InHand /\ row[t].state = st.seen
    /\ st.kind = "sweep" =>
          /\ st.seen = "none" /\ st.to = "failed" /\ st.sheets = Unsaid
          /\ \A t \in st.on : row[t].state \in InHand
    /\ st.kind = "confirm" =>
          /\ st.seen = "none" /\ st.to = "printed" /\ st.sheets = Unsaid
          /\ st.on # {} => st.pc \in {"derive", "commit"}
          /\ \A t \in st.on : row[t].state = "failed"

ConfirmsApart ==
    \A r, s \in Sessions :
        r # s /\ session[r].kind = "confirm" /\ session[s].kind = "confirm" =>
            session[r].on \cap session[s].on = {}

OfDevice == {"claim", "report", "sweep"}

PaperInv ==
    /\ TypeOK /\ QueueInv
    /\ \A t \in Tasks : Exact(tasks[t]) /\ Unsaying(tasks[t])
    /\ \A s \in Sessions : Speaks(session[s], tasks)
    /\ \A s \in Sessions : session[s].kind \in OfDevice => s \in Agents \cup Sweepers
    /\ ConfirmsApart

LEMMA IdleSpeaks == Speaks(Idle, tasks) /\ Idle.kind = "none" /\ Idle.on = {}
  BY DEF Idle, Speaks

\* A step that only changes what the request of s is about to do.
LEMMA PaperRequest ==
  ASSUME PaperInv, TypeOK', QueueInv', NEW s \in Sessions, NEW new,
         Speaks(new, tasks), Set(s, new), tasks' = tasks,
         new.kind \in OfDevice => s \in Agents \cup Sweepers,
         new.kind = "confirm" => \A r \in Sessions \ {s} :
             session[r].kind = "confirm" => new.on \cap session[r].on = {}
  PROVE  PaperInv'
  <1>1. session'[s] = new /\ \A r \in Sessions \ {s} : session'[r] = session[r]
    BY DEF PaperInv, TypeOK, Set
  <1>2. \A r \in Sessions : Speaks(session'[r], tasks')
    BY <1>1 DEF PaperInv
  <1>3. \A r \in Sessions : session'[r].kind \in OfDevice => r \in Agents \cup Sweepers
    BY <1>1 DEF PaperInv
  <1>4. ConfirmsApart'
    BY <1>1 DEF PaperInv, ConfirmsApart
  <1>5. \A t \in Tasks : Exact(tasks'[t]) /\ Unsaying(tasks'[t])
    BY DEF PaperInv
  <1>6. QED
    BY <1>2, <1>3, <1>4, <1>5 DEF PaperInv

\* A step that changes no request, and of a task only what nothing here reads, or
\* the state of one that is in no request's hands.
LEMMA PaperTasks ==
  ASSUME PaperInv, TypeOK', QueueInv', session' = session,
         \A t \in Tasks :
             /\ tasks'[t].actual = tasks[t].actual /\ tasks'[t].taken = tasks[t].taken
             /\ \/ tasks'[t].state = tasks[t].state
                \/ tasks[t].state = "none" /\ tasks'[t].state = "queued"
  PROVE  PaperInv'
  <1>1. \A t \in Tasks : Exact(tasks'[t]) /\ Unsaying(tasks'[t])
    BY DEF PaperInv, Exact, Unsaying, Terminal
  <1>2. \A s \in Sessions : session[s].on \in SUBSET Tasks
    BY SessionType DEF PaperInv, SessionState
  <1>3. \A s \in Sessions : Speaks(session'[s], tasks')
    <2>1. TAKE s \in Sessions
    <2>2. Speaks(session[s], tasks)
      BY DEF PaperInv
    <2>3. session[s].kind # "none" => \A t \in session[s].on : tasks'[t].state = tasks[t].state
      BY <1>2, <2>2, SessionType DEF PaperInv, Speaks, InHand, SessionState, Kind
    <2>4. QED
      BY <2>2, <2>3 DEF Speaks
  <1>4. QED
    BY <1>1, <1>3 DEF PaperInv, ConfirmsApart

\* What a commit leaves of a task it holds.
LEMMA PaperWritten ==
  ASSUME PaperInv, NEW s \in Sessions, NEW t \in session[s].on
  PROVE  Exact(Written(s, t)) /\ Unsaying(Written(s, t))
  <1> DEFINE actual == IF session[s].kind = "confirm"
                       THEN Max({Used(tasks[t].actual, 0), Predicted})
                       ELSE IF session[s].sheets # Unsaid THEN session[s].sheets
                            ELSE tasks[t].actual
             state == IF WritesState(s) THEN session[s].to ELSE tasks[t].state
  <1>0. PICK w : w = Written(s, t)
    OBVIOUS
  <1> SUFFICES Exact(w) /\ Unsaying(w)
    BY <1>0
  <1>1. /\ t \in Tasks /\ tasks[t] \in Task /\ session[s] \in SessionState
        /\ Speaks(session[s], tasks) /\ Exact(tasks[t]) /\ Unsaying(tasks[t])
    BY SessionType DEF PaperInv, TypeOK, SessionState
  <1>2. /\ w.state = state /\ w.actual = actual /\ w.taken = tasks[t].taken + Taken(s, t)
    BY <1>0, <1>1 DEF Written, Task
  <1>3. /\ tasks[t].actual \in Nat \cup {Unsaid} /\ session[s].sheets \in Nat \cup {Unsaid}
        /\ tasks[t].taken \in Nat /\ Predicted \in Nat /\ session[s].kind \in Kind
    BY <1>1, PrintQueueAssumption DEF Task, SessionState
  <1>4. CASE session[s].kind \in {"claim", "sweep"}
    <2>1. Taken(s, t) = 0 /\ tasks[t].actual = Unsaid /\ tasks[t].taken = 0
      BY <1>1, <1>3, <1>4 DEF Taken, Speaks, Exact, Unsaying, Terminal, InHand, Used
    <2>2. w.state \in {"sent_to_device", "failed"} /\ w.actual = Unsaid /\ w.taken = 0
      BY <1>1, <1>2, <1>4, <2>1 DEF Speaks, WritesState
    <2>3. QED
      BY <2>2 DEF Exact, Unsaying, Used
  <1>5. CASE session[s].kind = "report"
    <2>1. tasks[t].actual = Unsaid /\ tasks[t].taken = 0 /\ tasks[t].state \in InHand
      BY <1>1, <1>3, <1>5 DEF Speaks, Exact, Unsaying, Terminal, InHand, Used
    <2>2. w.actual = session[s].sheets /\ w.taken = Taken(s, t)
      BY <1>2, <1>3, <1>5, <2>1, TakenType, <1>1 DEF PaperInv
    <2>3. w.state = session[s].to
      BY <1>1, <1>2, <1>5 DEF Speaks, WritesState
    <2>4. CASE session[s].to \in {"printing", "blocked"}
      BY <1>1, <1>5, <2>2, <2>3, <2>4 DEF Speaks, Taken, Exact, Unsaying, Terminal, Used
    <2>5. CASE session[s].to = "printed"
      BY <1>5, <2>2, <2>3, <2>5 DEF Taken, Exact, Unsaying, Terminal
    <2>6. CASE session[s].to = "failed"
      BY <1>5, <2>2, <2>3, <2>6 DEF Taken, Exact, Unsaying, Terminal
    <2>7. QED
      BY <1>1, <1>5, <2>4, <2>5, <2>6 DEF Speaks
  <1>6. CASE session[s].kind = "confirm"
    <2>1. /\ tasks[t].state = "failed" /\ tasks[t].taken = Used(tasks[t].actual, 0)
          /\ w.state = "printed"
      BY <1>1, <1>2, <1>6 DEF Speaks, Exact, WritesState
    <2>2. Used(tasks[t].actual, 0) \in Nat
      BY <1>3, UsedType
    <2>3. /\ Max({0, Predicted - Used(tasks[t].actual, 0)}) =
                 IF Predicted >= Used(tasks[t].actual, 0)
                 THEN Predicted - Used(tasks[t].actual, 0) ELSE 0
          /\ Max({Used(tasks[t].actual, 0), Predicted}) =
                 IF Predicted >= Used(tasks[t].actual, 0)
                 THEN Predicted ELSE Used(tasks[t].actual, 0)
      <3>1. Predicted - Used(tasks[t].actual, 0) \in Int
        BY <1>3, <2>2
      <3>2. QED
        BY <1>3, <2>2, <3>1, MaxOfTwo
    <2>4. Taken(s, t) = Max({0, Predicted - Used(tasks[t].actual, 0)})
      BY <1>6 DEF Taken
    <2>5. w.taken = w.actual /\ w.actual \in Nat
      BY <1>2, <1>3, <1>6, <2>1, <2>2, <2>3, <2>4
    <2>6. QED
      BY <2>1, <2>5 DEF Exact, Unsaying, Terminal, Used, Unsaid
  <1>7. QED
    BY <1>1, <1>3, <1>4, <1>5, <1>6 DEF Kind, Speaks

LEMMA PaperCommit ==
  ASSUME ServedInTurn, PaperInv, TypeOK', QueueInv', NEW s \in Sessions, Commit(s)
  PROVE  PaperInv'
  <1> DEFINE mine == session[s].on
  <1>1. mine \in SUBSET Tasks /\ Speaks(session[s], tasks) /\ session[s].kind \in Kind
    BY SessionType DEF PaperInv, SessionState
  <1>2. /\ \A t \in Tasks : tasks'[t] = IF t \in mine THEN Written(s, t) ELSE tasks[t]
        /\ session' = [session EXCEPT ![s] = Idle]
    BY DEF Commit, Set
  <1>3. session'[s] = Idle /\ \A r \in Sessions \ {s} : session'[r] = session[r]
    BY <1>2 DEF PaperInv, TypeOK
  <1>4. \A t \in Tasks : Exact(tasks'[t]) /\ Unsaying(tasks'[t])
    BY <1>2, PaperWritten DEF PaperInv
  <1>5. \A r \in Sessions \ {s} : session[r].on \cap mine = {}
    <2>1. SUFFICES ASSUME NEW r \in Sessions \ {s}, NEW t \in session[r].on \cap mine
                   PROVE  FALSE
      OBVIOUS
    <2>2. Speaks(session[r], tasks) /\ session[r].kind \in Kind
      BY SessionType DEF PaperInv, SessionState
    <2>3. CASE session[r].kind \in OfDevice /\ session[s].kind \in OfDevice
      BY <2>1, <2>3 DEF PaperInv, ServedInTurn
    <2>4. CASE session[r].kind = "confirm" /\ session[s].kind = "confirm"
      BY <2>1, <2>4 DEF PaperInv, ConfirmsApart
    <2>5. session[r].kind # "none" /\ session[s].kind # "none"
      BY <1>1, <2>1, <2>2 DEF Speaks
    <2>6. CASE session[r].kind = "confirm" /\ session[s].kind \in OfDevice
      BY <1>1, <2>1, <2>2, <2>6 DEF Speaks, OfDevice, InHand
    <2>7. CASE session[r].kind \in OfDevice /\ session[s].kind = "confirm"
      BY <1>1, <2>1, <2>2, <2>7 DEF Speaks, OfDevice, InHand
    <2>8. QED
      BY <1>1, <2>2, <2>3, <2>4, <2>5, <2>6, <2>7 DEF Kind, OfDevice
  <1>6. \A r \in Sessions : Speaks(session'[r], tasks')
    <2>1. TAKE r \in Sessions
    <2>2. CASE r = s
      BY <1>3, <2>2 DEF Idle, Speaks
    <2>3. CASE r # s
      <3>1. session[r].on \in SUBSET Tasks /\ Speaks(session[r], tasks)
        BY SessionType DEF PaperInv, SessionState
      <3>2. \A t \in session[r].on : tasks'[t] = tasks[t]
        BY <1>2, <1>5, <2>3, <3>1
      <3>3. Speaks(session[r], tasks')
        BY <3>1, <3>2 DEF Speaks
      <3>4. QED
        BY <1>3, <2>3, <3>3
    <2>4. QED
      BY <2>2, <2>3
  <1>7. \A r \in Sessions : session'[r].kind \in OfDevice => r \in Agents \cup Sweepers
    BY <1>3, IdleSpeaks DEF PaperInv, OfDevice
  <1>8. ConfirmsApart'
    BY <1>3, IdleSpeaks DEF PaperInv, ConfirmsApart
  <1>9. QED
    BY <1>4, <1>6, <1>7, <1>8 DEF PaperInv

LEMMA PaperBegin ==
  ASSUME PaperInv, TypeOK', QueueInv', NEW s \in Sessions,
         \/ s \in Agents /\ ClaimNextTask(s)
         \/ s \in Agents /\ \E t \in Tasks : ReportStatus(s, t)
         \/ s \in Sweepers /\ SettleLostTasks(s)
         \/ \E o \in Orders : ConfirmOrderPrinted(s, o)
  PROVE  PaperInv'
  <1>1. ASSUME s \in Agents, ClaimNextTask(s) PROVE PaperInv'
    <2>1. PICK t \in Tasks : tasks[t].state = "queued" /\ Claim(s, t)
      BY <1>1 DEF ClaimNextTask, First
    <2> DEFINE new == [Idle EXCEPT !.pc = "commit", !.kind = "claim", !.on = {t},
                                   !.to = "sent_to_device"]
    <2>2. Speaks(new, tasks) /\ new.kind = "claim"
      BY <2>1 DEF Idle, Speaks
    <2>3. Set(s, new) /\ tasks' = tasks
      BY <1>1, <2>1 DEF Claim, ClaimNextTask
    <2> HIDE DEF new
    <2>4. QED
      BY <1>1, <2>2, <2>3, PaperRequest
  <1>2. ASSUME s \in Agents, NEW t \in Tasks, ReportStatus(s, t) PROVE PaperInv'
    <2>1. PICK to \in {"printing", "printed", "failed", "blocked"}, sheets \in Reports \cup {Unsaid} :
              /\ to \in {"printing", "blocked"} => sheets = Unsaid
              /\ Set(s, [Idle EXCEPT !.pc = "record", !.kind = "report", !.on = {t},
                                     !.seen = tasks[t].state, !.to = to, !.sheets = sheets])
      BY <1>2 DEF ReportStatus
    <2> DEFINE new == [Idle EXCEPT !.pc = "record", !.kind = "report", !.on = {t},
                                   !.seen = tasks[t].state, !.to = to, !.sheets = sheets]
    <2>2. tasks[t].state \in InHand /\ tasks' = tasks
      BY <1>2 DEF ReportStatus
    <2>3. Speaks(new, tasks) /\ new.kind = "report"
      BY <2>1, <2>2 DEF Idle, Speaks
    <2>4. Set(s, new)
      BY <2>1
    <2> HIDE DEF new
    <2>5. QED
      BY <1>2, <2>2, <2>3, <2>4, PaperRequest
  <1>3. ASSUME s \in Sweepers, SettleLostTasks(s) PROVE PaperInv'
    <2> DEFINE stale == {t \in Tasks : tasks[t].state \in InHand /\ tasks[t].lapsed}
               new == [Idle EXCEPT !.pc = "record", !.kind = "sweep", !.on = stale,
                                   !.to = "failed"]
    <2>1. Set(s, new) /\ tasks' = tasks
      BY <1>3 DEF SettleLostTasks
    <2>2. \A t \in stale : tasks[t].state \in InHand
      OBVIOUS
    <2> HIDE DEF stale
    <2>3. Speaks(new, tasks) /\ new.kind = "sweep"
      BY <2>2 DEF Idle, Speaks
    <2> HIDE DEF new
    <2>4. QED
      BY <1>3, <2>1, <2>3, PaperRequest
  <1>4. ASSUME NEW o \in Orders, ConfirmOrderPrinted(s, o) PROVE PaperInv'
    <2> DEFINE new == [Idle EXCEPT !.pc = "confirm", !.kind = "confirm", !.to = "printed",
                                   !.order = o]
    <2>1. Set(s, new) /\ tasks' = tasks
      BY <1>4 DEF ConfirmOrderPrinted
    <2>2. Speaks(new, tasks) /\ new.kind = "confirm" /\ new.on = {}
      BY DEF Idle, Speaks
    <2> HIDE DEF new
    <2>3. QED
      BY <2>1, <2>2, PaperRequest DEF OfDevice
  <1>5. QED
    BY <1>1, <1>2, <1>3, <1>4

\* A request that goes on with what it has says the same of it.
LEMMA PaperGoesOn ==
  ASSUME PaperInv, TypeOK', QueueInv', NEW s \in Sessions, NEW new, Set(s, new), tasks' = tasks,
         new.kind = session[s].kind, new.on = session[s].on, new.to = session[s].to,
         new.seen = session[s].seen, new.sheets = session[s].sheets,
         new.pc \in {"derive", "commit"}
  PROVE  PaperInv'
  <1>1. Speaks(session[s], tasks)
    BY DEF PaperInv
  <1>2. Speaks(new, tasks)
    BY <1>1 DEF Speaks
  <1>3. QED
    BY <1>2, PaperRequest DEF PaperInv, ConfirmsApart

LEMMA PaperRecord ==
  ASSUME PaperInv, TypeOK', QueueInv', NEW s \in Sessions, Record(s)
  PROVE  PaperInv'
  <1> DEFINE told == [session[s] EXCEPT !.pc = "commit", !.tray = used]
             goes == [session[s] EXCEPT !.pc = "derive", !.tray = used, !.todo = session[s].on]
  <1>1. session[s] \in SessionState /\ tasks' = tasks
    BY SessionType DEF PaperInv, Record
  <1>2. /\ told.kind = session[s].kind /\ told.on = session[s].on /\ told.to = session[s].to
        /\ told.seen = session[s].seen /\ told.sheets = session[s].sheets /\ told.pc = "commit"
        /\ goes.kind = session[s].kind /\ goes.on = session[s].on /\ goes.to = session[s].to
        /\ goes.seen = session[s].seen /\ goes.sheets = session[s].sheets /\ goes.pc = "derive"
    BY <1>1 DEF SessionState
  <1>3. Set(s, told) \/ Set(s, goes)
    BY DEF Record
  <1> HIDE DEF told, goes
  <1>4. QED
    BY <1>1, <1>2, <1>3, PaperGoesOn

\* The failed tasks are locked: nobody else's confirm has one of them.
LEMMA PaperLock ==
  ASSUME PaperInv, TypeOK', QueueInv', NEW s \in Sessions, LockFailed(s)
  PROVE  PaperInv'
  <1> DEFINE failed == {t \in PrintsOf(session[s].order) : tasks[t].state = "failed"}
             new == [session[s] EXCEPT !.pc = "derive", !.on = failed, !.tray = used,
                                       !.todo = failed]
  <1>1. session[s] \in SessionState /\ Speaks(session[s], tasks) /\ tasks' = tasks
    BY SessionType DEF PaperInv, LockFailed
  <1>2. CASE Set(s, Idle)
    BY <1>1, <1>2, IdleSpeaks, PaperRequest DEF OfDevice
  <1>3. CASE Set(s, new) /\ \A t \in failed : TaskFree(s, t)
    <2>1. \A t \in failed : tasks[t].state = "failed"
      OBVIOUS
    <2> HIDE DEF failed
    <2>2. /\ new.kind = session[s].kind /\ new.on = failed /\ new.to = session[s].to
          /\ new.seen = session[s].seen /\ new.sheets = session[s].sheets /\ new.pc = "derive"
      BY <1>1 DEF SessionState
    <2> HIDE DEF new
    <2>3. session[s].kind = "confirm"
      BY <1>1 DEF LockFailed, At, Speaks
    <2>4. Speaks(new, tasks)
      BY <1>1, <2>1, <2>2, <2>3 DEF Speaks
    <2>5. \A r \in Sessions \ {s} :
              session[r].kind = "confirm" => new.on \cap session[r].on = {}
      BY <1>3, <2>2 DEF PaperInv, Speaks, TaskFree, HoldsTask
    <2>6. QED
      BY <1>1, <1>3, <2>2, <2>3, <2>4, <2>5, PaperRequest DEF OfDevice
  <1>4. QED
    BY <1>2, <1>3 DEF LockFailed

LEMMA PaperDerive ==
  ASSUME PaperInv, TypeOK', QueueInv', NEW s \in Sessions, NEW t \in Tasks, Derive(s, t)
  PROVE  PaperInv'
  <1>1. session[s] \in SessionState /\ tasks' = tasks
    BY SessionType DEF PaperInv, Derive
  <1>2. PICK outcome, todo, pc :
            /\ pc \in {"commit", "derive"}
            /\ Set(s, [session[s] EXCEPT !.outcome = outcome, !.todo = todo, !.pc = pc])
    <2> DEFINE rest == IF session[s].kind = "confirm" THEN {} ELSE session[s].todo \ {t}
               at == IF rest = {} THEN "commit" ELSE "derive"
    <2>1. \E told : Set(s, [session[s] EXCEPT !.outcome = told, !.todo = rest, !.pc = at])
      BY DEF Derive
    <2>2. at \in {"commit", "derive"}
      OBVIOUS
    <2> HIDE DEF rest, at
    <2>3. QED
      BY <2>1, <2>2
  <1> DEFINE new == [session[s] EXCEPT !.outcome = outcome, !.todo = todo, !.pc = pc]
  <1>3. /\ new.kind = session[s].kind /\ new.on = session[s].on /\ new.to = session[s].to
        /\ new.seen = session[s].seen /\ new.sheets = session[s].sheets /\ new.pc = pc
    BY <1>1 DEF SessionState
  <1>4. Set(s, new)
    BY <1>2
  <1> HIDE DEF new
  <1>5. QED
    BY <1>1, <1>2, <1>3, <1>4, PaperGoesOn

LEMMA PaperInit == Init => PaperInv
  <1> SUFFICES ASSUME Init PROVE PaperInv
    OBVIOUS
  <1>1. \A t \in Tasks : Exact(tasks[t]) /\ Unsaying(tasks[t])
    BY DEF Init, Exact, Unsaying, Used
  <1>2. \A s \in Sessions : session[s] = Idle
    BY DEF Init
  <1>3. \A s \in Sessions : /\ Speaks(session[s], tasks)
                            /\ session[s].kind \notin OfDevice /\ session[s].kind # "confirm"
    BY <1>2, IdleSpeaks DEF OfDevice
  <1>4. QED
    BY <1>1, <1>3, InitInv, InitType DEF PaperInv, ConfirmsApart

LEMMA PaperNext ==
  ASSUME ServedInTurn
  PROVE  PaperInv /\ [Next]_vars => PaperInv'
  <1> SUFFICES ASSUME PaperInv, [Next]_vars PROVE PaperInv'
    OBVIOUS
  <1>1. TypeOK' /\ QueueInv'
    BY NextInv, NextType DEF PaperInv
  <1>2. CASE \E o \in Orders : PlaceOrder(o) \/ MarkPaid(o) \/ Refund(o)
    <2>1. PICK o \in Orders : PlaceOrder(o) \/ MarkPaid(o) \/ Refund(o)
      BY <1>2
    <2>2. session' = session
      BY <2>1 DEF PlaceOrder, MarkPaid, Refund
    <2>3. CASE PlaceOrder(o) \/ Refund(o)
      BY <1>1, <2>2, <2>3, PaperTasks DEF PlaceOrder, Refund
    <2>4. CASE MarkPaid(o)
      <3>1. \A t \in Tasks : t[1] = o => tasks[t].state = "none"
        BY <2>4 DEF MarkPaid, PaperInv, QueueInv, QueuedOnlyOnce, Unpaid
      <3>2. \A t \in Tasks :
                tasks'[t] = IF t[1] = o THEN [tasks[t] EXCEPT !.state = "queued"] ELSE tasks[t]
        BY <2>4 DEF MarkPaid
      <3>3. \A t \in Tasks : tasks[t] \in Task
        BY DEF PaperInv, TypeOK
      <3>4. \A t \in Tasks :
                /\ tasks'[t].actual = tasks[t].actual /\ tasks'[t].taken = tasks[t].taken
                /\ \/ tasks'[t].state = tasks[t].state
                   \/ tasks[t].state = "none" /\ tasks'[t].state = "queued"
        BY <3>1, <3>2, <3>3 DEF Task
      <3>5. QED
        BY <1>1, <2>2, <3>4, PaperTasks
    <2>5. QED
      BY <2>1, <2>3, <2>4
  <1>3. CASE \E t \in Tasks : LeaseRunsOut(t) \/ RenewHeldLease(t) \/ GoQuiet(t)
    <2>1. session' = session
      BY <1>3 DEF LeaseRunsOut, RenewHeldLease, GoQuiet
    <2>2. \A t \in Tasks : tasks[t] \in Task /\ tasks \in [Tasks -> Task]
      BY DEF PaperInv, TypeOK
    <2>3. \A t \in Tasks :
              /\ tasks'[t].actual = tasks[t].actual /\ tasks'[t].taken = tasks[t].taken
              /\ tasks'[t].state = tasks[t].state
      BY <1>3, <2>2 DEF LeaseRunsOut, RenewHeldLease, GoQuiet, Task
    <2>4. QED
      BY <1>1, <2>1, <2>3, PaperTasks
  <1>4. CASE SetPaper \/ UNCHANGED vars
    <2>1. session' = session /\ tasks' = tasks
      BY <1>4 DEF SetPaper, vars
    <2>2. QED
      BY <1>1, <2>1, PaperTasks
  <1>5. CASE \E s \in Agents : Device(s)
    BY <1>1, <1>5, PaperBegin DEF Device, Sessions
  <1>6. CASE \E s \in Sweepers : SettleLostTasks(s)
    BY <1>1, <1>6, PaperBegin DEF Sessions
  <1>7. CASE \E s \in Desk, o \in Orders : ConfirmOrderPrinted(s, o)
    BY <1>1, <1>7, PaperBegin DEF Sessions
  <1>8. CASE \E s \in Sessions : Work(s)
    BY <1>1, <1>8, PaperRecord, PaperLock, PaperDerive, PaperCommit DEF Work
  <1>9. CASE \E s \in Sessions : Rollback(s)
    BY <1>1, <1>9, IdleSpeaks, PaperRequest DEF Rollback, OfDevice
  <1>10. QED
    BY <1>2, <1>3, <1>4, <1>5, <1>6, <1>7, <1>8, <1>9 DEF Next

\* Where one session serves the device and the sweep, the tray loses what a print used,
\* once: consume_paper is told the whole of a report, or the prediction, and a confirm
\* the rest of it, however many operators confirm at a time.
THEOREM QueuePaperTakenOnce ==
  ASSUME ServedInTurn
  PROVE  Spec => []PaperTakenOnce
  <1>1. Init => PaperInv
    BY PaperInit
  <1>2. PaperInv /\ [Next]_vars => PaperInv'
    BY PaperNext
  <1>3. PaperInv => PaperTakenOnce
    BY DEF PaperInv, PaperTakenOnce, Exact
  <1>4. QED
    BY <1>1, <1>2, <1>3, PTL DEF Spec

-----------------------------------------------------------------------------
(* Orders follow their prints.                                             *)
(*                                                                         *)
(* True where one session serves the device and the sweep, and no file is   *)
(* in two orders.  Of what is committed it then holds at every moment, not  *)
(* only between requests: a request derives an order from its prints as     *)
(* they will be when it commits, and nobody else moves them meanwhile       *)
(* (Tells).  An operator's confirm is beside the device only at an order    *)
(* all of whose prints are finished (Confirms).                             *)

DocsApart == \A t, u \in Tasks : DocOf(t) = DocOf(u) => t[1] = u[1]

TasksOf(o) == {u \in Tasks : u[1] = o}

Follows(state, states) ==
    /\ InFlight(state) => \E x \in states : x \notin Terminal
    /\ state = "completed" => states = {"printed"}
    /\ state = "partially_failed" => states \subseteq Terminal /\ states # {"printed"}

\* A print and an order as the request st would leave them now.
Prints(st, row, t) == IF t \in st.on /\ st.seen # st.to THEN st.to ELSE row[t].state
Leaves(st, rows, o) == IF st.outcome[o] = "same" THEN rows[o].state ELSE st.outcome[o]

\* The tasks whose order the request has derived.
Done(st) == st.on \ st.todo

\* An order's prints are found by their documents, once it is paid: none of them is older.
Timely ==
    \A o \in Orders :
        /\ orders[o].placed <= Now
        /\ orders[o].state \in Unpaid => orders[o].paid = 0
        /\ orders[o].state \notin Unpaid =>
              /\ orders[o].placed <= orders[o].paid
              /\ \A t \in TasksOf(o) : tasks[t].state # "none"

Tells(st, rows, row) ==
    /\ st.todo \subseteq st.on
    /\ st.pc # "derive" => st.todo = {}
    /\ st.pc \notin {"derive", "commit"} => \A o \in Orders : st.outcome[o] = "same"
    /\ \A o \in Orders : st.outcome[o] # "same" => \E t \in Done(st) : t[1] = o
    /\ st.pc \in {"derive", "commit"} => \A t \in Done(st) :
          Follows(Leaves(st, rows, t[1]), {Prints(st, row, u) : u \in TasksOf(t[1])})

Confirms(st, rows, row) ==
    st.kind = "confirm" =>
        /\ st.order \in Orders /\ st.pc # "record"
        /\ rows[st.order].state \in {"partially_failed", "completed", "refunded"}
        /\ \A t \in TasksOf(st.order) : row[t].state \in Terminal
        /\ st.pc \in {"derive", "commit"} =>
              st.on # {} /\ st.on = {t \in TasksOf(st.order) : row[t].state = "failed"}

FollowInv ==
    /\ PaperInv /\ Timely
    /\ \A o \in Orders : Follows(orders[o].state, {tasks[t].state : t \in TasksOf(o)})
    /\ \A s \in Sessions : Tells(session[s], orders, tasks) /\ Confirms(session[s], orders, tasks)

LEMMA IdleTells == Tells(Idle, orders, tasks) /\ Confirms(Idle, orders, tasks)
  BY DEF Idle, Tells, Confirms, Done

\* _derive_from_prints says of an order what became of the prints it was given.
LEMMA DerivedFollows == \A states : Follows(Derived(states), states)
  BY DEF Derived, Follows, InFlight, Terminal

LEMMA PaidPrints ==
  ASSUME DocsApart, Timely, NEW o \in Orders, orders[o].state \notin Unpaid
  PROVE  PrintsOf(o) = TasksOf(o)
  <1>1. ASSUME NEW t \in TasksOf(o) PROVE t \in PrintsOf(o)
    <2>1. t \in Tasks /\ t[1] = o
      BY <1>1 DEF TasksOf
    <2>2. t[2] \in 1..Len(Items[o])
      BY <2>1 DEF Tasks
    <2>3. DocOf(t) \in DocsOf(o)
      BY <2>1, <2>2 DEF DocOf, DocsOf
    <2>4. tasks[t].state # "none" /\ orders[t[1]].paid >= orders[o].placed
      BY <1>1, <2>1 DEF Timely
    <2>5. QED
      BY <2>1, <2>3, <2>4 DEF PrintsOf
  <1>2. ASSUME NEW t \in PrintsOf(o) PROVE t \in TasksOf(o)
    <2>1. t \in Tasks /\ DocOf(t) \in DocsOf(o)
      BY DEF PrintsOf
    <2>2. PICK i \in 1..Len(Items[o]) : DocOf(t) = Items[o][i]
      BY <2>1 DEF DocsOf
    <2>3. <<o, i>> \in Tasks /\ DocOf(<<o, i>>) = Items[o][i]
      BY <2>2 DEF Tasks, DocOf
    <2>4. QED
      BY <2>1, <2>2, <2>3 DEF DocsApart, TasksOf
  <1>3. QED
    BY <1>1, <1>2

-----------------------------------------------------------------------------

\* The clock never goes back: nothing is unplaced or unpaid again.
LEMMA NowGrows ==
  ASSUME TypeOK, TypeOK',
         \A o \in Orders : /\ orders[o].placed > 0 => orders'[o].placed > 0
                           /\ orders[o].paid > 0 => orders'[o].paid > 0
  PROVE  Now <= Now' /\ Now \in Nat /\ Now' \in Nat
  <1> DEFINE A == {o \in Orders : orders[o].placed > 0}
             B == {o \in Orders : orders[o].paid > 0}
             C == {o \in Orders : orders'[o].placed > 0}
             D == {o \in Orders : orders'[o].paid > 0}
  <1>1. A \subseteq C /\ B \subseteq D
    OBVIOUS
  <1>2. IsFiniteSet(C) /\ IsFiniteSet(D)
    BY PrintQueueAssumption, FS_Subset
  <1>3. /\ Cardinality(A) <= Cardinality(C) /\ Cardinality(B) <= Cardinality(D)
        /\ IsFiniteSet(A) /\ IsFiniteSet(B)
    BY <1>1, <1>2, FS_Subset
  <1>4. /\ Cardinality(A) \in Nat /\ Cardinality(B) \in Nat
        /\ Cardinality(C) \in Nat /\ Cardinality(D) \in Nat
    BY <1>2, <1>3, FS_CardinalityType
  <1>5. Now = 1 + Cardinality(A) + Cardinality(B)
    BY DEF Now
  <1>6. Now' = 1 + Cardinality(C) + Cardinality(D)
    BY DEF Now
  <1> HIDE DEF A, B, C, D
  <1>7. QED
    BY <1>3, <1>4, <1>5, <1>6

\* A step that places and pays nothing.
LEMMA TimelyStep ==
  ASSUME TypeOK, TypeOK', Timely,
         \A o \in Orders :
             /\ orders'[o].placed = orders[o].placed /\ orders'[o].paid = orders[o].paid
             /\ orders'[o].state \in Unpaid <=> orders[o].state \in Unpaid,
         \A t \in Tasks : tasks[t].state # "none" => tasks'[t].state # "none"
  PROVE  Timely'
  <1>1. Now <= Now' /\ Now \in Nat /\ Now' \in Nat
    BY NowGrows
  <1>2. \A o \in Orders : orders[o].placed \in Nat /\ orders'[o].placed \in Nat
    BY DEF TypeOK, Order
  <1>3. \A o \in Orders : orders'[o].placed <= Now'
    BY <1>1, <1>2 DEF Timely
  <1>4. QED
    BY <1>3 DEF Timely, TasksOf

\* Another step leaves what a request tells of the orders it has derived: it moves no
\* print of theirs, and an order only when it is refunded.
LEMMA TellsKept ==
  ASSUME NEW st, NEW rows, NEW row, NEW new, NEW now, Tells(st, rows, row),
         \A t \in Done(st) :
             /\ \A u \in TasksOf(t[1]) : now[u].state = row[u].state
             /\ new[t[1]].state \in {rows[t[1]].state, "refunded"}
  PROVE  Tells(st, new, now)
  <1>1. ASSUME st.pc \in {"derive", "commit"}, NEW t \in Done(st)
        PROVE  Follows(Leaves(st, new, t[1]), {Prints(st, now, u) : u \in TasksOf(t[1])})
    <2>1. \A u \in TasksOf(t[1]) : Prints(st, now, u) = Prints(st, row, u)
      BY <1>1 DEF Prints
    <2>2. {Prints(st, now, u) : u \in TasksOf(t[1])} = {Prints(st, row, u) : u \in TasksOf(t[1])}
      BY <2>1
    <2>3. Leaves(st, new, t[1]) \in {Leaves(st, rows, t[1]), "refunded"}
      BY <1>1 DEF Leaves
    <2>4. Follows(Leaves(st, rows, t[1]), {Prints(st, row, u) : u \in TasksOf(t[1])})
      BY <1>1 DEF Tells
    <2>5. \A states : Follows("refunded", states)
      BY DEF Follows, InFlight
    <2>6. QED
      BY <2>2, <2>3, <2>4, <2>5
  <1>2. QED
    BY <1>1 DEF Tells

LEMMA ConfirmsKept ==
  ASSUME NEW st, NEW rows, NEW row, NEW new, NEW now, Confirms(st, rows, row),
         st.kind = "confirm" =>
             /\ \A u \in TasksOf(st.order) : now[u].state = row[u].state
             /\ new[st.order].state \in {rows[st.order].state, "completed", "partially_failed",
                                         "refunded"}
  PROVE  Confirms(st, new, now)
  <1>1. SUFFICES ASSUME st.kind = "confirm" PROVE Confirms(st, new, now)
    BY DEF Confirms
  <1>2. {u \in TasksOf(st.order) : now[u].state = "failed"}
            = {u \in TasksOf(st.order) : row[u].state = "failed"}
    BY <1>1
  <1>3. QED
    BY <1>1, <1>2 DEF Confirms

\* A request that is served by nobody else's rows: only what s is about to do changes.
LEMMA FollowRequest ==
  ASSUME FollowInv, PaperInv', NEW s \in Sessions, NEW new, Set(s, new),
         Tells(new, orders, tasks), Confirms(new, orders, tasks),
         orders' = orders, tasks' = tasks
  PROVE  FollowInv'
  <1>1. session'[s] = new /\ \A r \in Sessions \ {s} : session'[r] = session[r]
    BY DEF FollowInv, PaperInv, TypeOK, Set
  <1>2. \A r \in Sessions : /\ Tells(session'[r], orders', tasks')
                            /\ Confirms(session'[r], orders', tasks')
    BY <1>1 DEF FollowInv
  <1>3. Timely'
    BY TimelyStep DEF FollowInv, PaperInv
  <1>4. \A o \in Orders : Follows(orders'[o].state, {tasks'[t].state : t \in TasksOf(o)})
    BY DEF FollowInv
  <1>5. QED
    BY <1>2, <1>3, <1>4 DEF FollowInv

\* The orders a request holds tasks of are paid, and have no print that waits to be paid.
LEMMA HeldArePaid ==
  ASSUME FollowInv, NEW s \in Sessions, NEW t \in session[s].on
  PROVE  /\ t \in Tasks /\ t[1] \in Orders /\ tasks[t].state # "none"
         /\ orders[t[1]].state \notin Unpaid
  <1>1. t \in Tasks /\ Speaks(session[s], tasks) /\ session[s].kind \in Kind
    BY SessionType DEF FollowInv, PaperInv, SessionState
  <1>2. tasks[t].state # "none"
    BY <1>1 DEF Speaks, InHand, Kind
  <1>3. QED
    BY <1>1, <1>2, TaskOfOrder DEF FollowInv, PaperInv, QueueInv, QueuedOnlyOnce
\* A step outside the requests: what they hold keeps its state, and an order they hold
\* tasks of, or confirm, changes only when it is refunded.
LEMMA FollowOutside ==
  ASSUME FollowInv, PaperInv', Timely', session' = session, NEW o \in Orders,
         \A p \in Orders \ {o} : orders'[p].state = orders[p].state,
         \A t \in Tasks : t[1] # o => tasks'[t].state = tasks[t].state,
         Follows(orders'[o].state, {tasks'[t].state : t \in TasksOf(o)}),
         \/ orders[o].state \in Unpaid
         \/ /\ orders'[o].state \in {orders[o].state, "refunded"}
            /\ \A t \in TasksOf(o) : tasks'[t].state = tasks[t].state
  PROVE  FollowInv'
  <1>1. \A p \in Orders : Follows(orders'[p].state, {tasks'[t].state : t \in TasksOf(p)})
    <2>1. TAKE p \in Orders
    <2>2. CASE p = o
      BY <2>2
    <2>3. CASE p # o
      <3>1. \A t \in TasksOf(p) : tasks'[t].state = tasks[t].state
        BY <2>3 DEF TasksOf
      <3>2. {tasks'[t].state : t \in TasksOf(p)} = {tasks[t].state : t \in TasksOf(p)}
        BY <3>1
      <3>3. orders'[p].state = orders[p].state
        BY <2>3
      <3>4. Follows(orders[p].state, {tasks[t].state : t \in TasksOf(p)})
        BY DEF FollowInv
      <3>5. QED
        BY <3>2, <3>3, <3>4
    <2>4. QED
      BY <2>2, <2>3
  <1>2. \A p \in Orders : orders[p].state \notin Unpaid =>
            /\ \A u \in TasksOf(p) : tasks'[u].state = tasks[u].state
            /\ orders'[p].state \in {orders[p].state, "refunded"}
    BY DEF TasksOf
  <1>3. \A s \in Sessions : Tells(session[s], orders', tasks')
    <2>1. TAKE s \in Sessions
    <2>2. \A t \in Done(session[s]) : t[1] \in Orders /\ orders[t[1]].state \notin Unpaid
      BY HeldArePaid DEF Done
    <2>3. Tells(session[s], orders, tasks)
      BY DEF FollowInv
    <2>4. QED
      BY <1>2, <2>2, <2>3, TellsKept
  <1>4. \A s \in Sessions : Confirms(session[s], orders', tasks')
    <2>1. TAKE s \in Sessions
    <2>2. Confirms(session[s], orders, tasks)
      BY DEF FollowInv
    <2>3. session[s].kind = "confirm" =>
              session[s].order \in Orders /\ orders[session[s].order].state \notin Unpaid
      BY <2>2 DEF Confirms, Unpaid
    <2>4. QED
      BY <1>2, <2>2, <2>3, ConfirmsKept
  <1>5. QED
    BY <1>1, <1>3, <1>4 DEF FollowInv

LEMMA FollowPlace ==
  ASSUME FollowInv, PaperInv', NEW o \in Orders, PlaceOrder(o)
  PROVE  FollowInv'
  <1>1. /\ orders' = [orders EXCEPT ![o].state = "awaiting_payment", ![o].placed = Now]
        /\ orders[o].state = "unplaced" /\ tasks' = tasks /\ session' = session
    BY DEF PlaceOrder
  <1>2. TypeOK /\ TypeOK' /\ orders \in [Orders -> Order]
    BY DEF FollowInv, PaperInv, TypeOK
  <1>3. /\ orders'[o].state = "awaiting_payment" /\ orders'[o].placed = Now
        /\ orders'[o].paid = orders[o].paid
        /\ \A p \in Orders \ {o} : orders'[p] = orders[p]
    BY <1>1, <1>2 DEF Order
  <1>4. Now \in Nat /\ Now > 0
    <2>1. \A S \in SUBSET Orders : Cardinality(S) \in Nat
      BY PrintQueueAssumption, FS_Subset, FS_CardinalityType
    <2>2. QED
      BY <2>1 DEF Now
  <1>5. Now <= Now' /\ Now' \in Nat
    BY <1>2, <1>3, <1>4, NowGrows
  <1>6. \A p \in Orders : orders[p].placed \in Nat /\ orders[p].placed <= Now
    BY <1>2 DEF FollowInv, Timely, Order
  <1>7. \A p \in Orders : orders'[p].placed <= Now'
    BY <1>3, <1>4, <1>5, <1>6
  <1>8. Timely'
    BY <1>1, <1>3, <1>7 DEF FollowInv, Timely, Unpaid
  <1>9. Follows(orders'[o].state, {tasks'[t].state : t \in TasksOf(o)})
    BY <1>3 DEF Follows, InFlight
  <1>10. QED
    BY <1>1, <1>3, <1>8, <1>9, FollowOutside DEF Unpaid

\* An order just paid has prints, all of them queued.
LEMMA FollowPaid ==
  ASSUME FollowInv, PaperInv', NEW o \in Orders, MarkPaid(o)
  PROVE  FollowInv'
  <1>1. /\ orders' = [orders EXCEPT ![o].state = "paid", ![o].paid = Now]
        /\ orders[o].state = "awaiting_payment" /\ session' = session
        /\ \A t \in Tasks : tasks'[t] = IF t[1] = o THEN [tasks[t] EXCEPT !.state = "queued"]
                                        ELSE tasks[t]
    BY DEF MarkPaid
  <1>2. /\ TypeOK /\ TypeOK' /\ orders \in [Orders -> Order] /\ \A t \in Tasks : tasks[t] \in Task
    BY DEF FollowInv, PaperInv, TypeOK
  <1>3. /\ orders'[o].state = "paid" /\ orders'[o].paid = Now
        /\ orders'[o].placed = orders[o].placed
        /\ \A p \in Orders \ {o} : orders'[p] = orders[p]
    BY <1>1, <1>2 DEF Order
  <1>4. Now \in Nat /\ Now > 0
    <2>1. \A S \in SUBSET Orders : Cardinality(S) \in Nat
      BY PrintQueueAssumption, FS_Subset, FS_CardinalityType
    <2>2. QED
      BY <2>1 DEF Now
  <1>5. Now <= Now' /\ Now' \in Nat
    BY <1>2, <1>3, <1>4, NowGrows
  <1>6. \A p \in Orders : orders[p].placed \in Nat /\ orders[p].placed <= Now
    BY <1>2 DEF FollowInv, Timely, Order
  <1>7. \A t \in TasksOf(o) : tasks'[t].state = "queued"
    BY <1>1, <1>2 DEF TasksOf, Task
  <1>8. \A t \in Tasks : t[1] # o => tasks'[t] = tasks[t]
    BY <1>1
  <1>9. Timely'
    <2>1. TypeOK' /\ \A p \in Orders : orders'[p].placed <= Now'
      BY <1>2, <1>3, <1>5, <1>6, <1>4
    <2>2. orders'[o].placed <= orders'[o].paid
      BY <1>3, <1>6
    <2>3. \A p \in Orders \ {o} : \A t \in TasksOf(p) : tasks'[t] = tasks[t]
      BY <1>8 DEF TasksOf
    <2>4. QED
      BY <1>3, <1>7, <2>1, <2>2, <2>3 DEF FollowInv, Timely, Unpaid
  <1>10. Follows(orders'[o].state, {tasks'[t].state : t \in TasksOf(o)})
    <2>1. <<o, 1>> \in TasksOf(o)
      BY PrintQueueAssumption DEF Tasks, TasksOf
    <2>2. \E x \in {tasks'[t].state : t \in TasksOf(o)} : x \notin Terminal
      BY <1>7, <2>1 DEF Terminal
    <2>3. QED
      BY <1>3, <2>2 DEF Follows
  <1>11. QED
    BY <1>1, <1>3, <1>8, <1>9, <1>10, FollowOutside DEF Unpaid

LEMMA FollowRefund ==
  ASSUME FollowInv, PaperInv', NEW o \in Orders, Refund(o)
  PROVE  FollowInv'
  <1>1. /\ orders[o].paid > 0 /\ tasks' = tasks /\ session' = session
        /\ \/ orders' = [orders EXCEPT ![o].returned = TRUE]
           \/ orders' = [orders EXCEPT ![o].returned = TRUE, ![o].state = "refunded"]
    BY DEF Refund
  <1>2. TypeOK /\ TypeOK' /\ orders \in [Orders -> Order]
    BY DEF FollowInv, PaperInv, TypeOK
  <1>3. /\ orders'[o].state \in {orders[o].state, "refunded"}
        /\ orders'[o].placed = orders[o].placed /\ orders'[o].paid = orders[o].paid
        /\ \A p \in Orders \ {o} : orders'[p] = orders[p]
    BY <1>1, <1>2 DEF Order
  <1>4. orders[o].state \notin Unpaid
    BY <1>1 DEF FollowInv, Timely
  <1>5. Timely'
    <2>1. \A p \in Orders : orders'[p].state \in Unpaid <=> orders[p].state \in Unpaid
      BY <1>3, <1>4 DEF Unpaid
    <2>2. QED
      BY <1>1, <1>2, <1>3, <2>1, TimelyStep DEF FollowInv
  <1>6. Follows(orders'[o].state, {tasks'[t].state : t \in TasksOf(o)})
    <2>1. Follows(orders[o].state, {tasks'[t].state : t \in TasksOf(o)})
      BY <1>1 DEF FollowInv
    <2>2. \A states : Follows("refunded", states)
      BY DEF Follows, InFlight
    <2>3. QED
      BY <1>3, <2>1, <2>2
  <1>7. QED
    BY <1>1, <1>3, <1>5, <1>6, FollowOutside

\* A step that leaves requests, orders and the states of tasks as they are.
LEMMA FollowSame ==
  ASSUME FollowInv, PaperInv', session' = session, orders' = orders,
         \A t \in Tasks : tasks'[t].state = tasks[t].state
  PROVE  FollowInv'
  <1>1. Timely'
    BY TimelyStep DEF FollowInv, PaperInv
  <1>2. \A o \in Orders : \A t \in TasksOf(o) : tasks'[t].state = tasks[t].state
    BY DEF TasksOf
  <1>3. \A o \in Orders : Follows(orders'[o].state, {tasks'[t].state : t \in TasksOf(o)})
    <2>1. TAKE o \in Orders
    <2>2. {tasks'[t].state : t \in TasksOf(o)} = {tasks[t].state : t \in TasksOf(o)}
      BY <1>2
    <2>3. QED
      BY <2>2 DEF FollowInv
  <1>4. \A s \in Sessions : Tells(session[s], orders, tasks')
    <2>1. TAKE s \in Sessions
    <2>2. \A t \in Done(session[s]) : t[1] \in Orders
      BY HeldArePaid DEF Done
    <2>3. QED
      BY <1>2, <2>2, TellsKept DEF FollowInv
  <1>5. \A s \in Sessions : Confirms(session[s], orders, tasks')
    BY <1>2, ConfirmsKept DEF FollowInv, Confirms
  <1>6. QED
    BY <1>1, <1>3, <1>4, <1>5 DEF FollowInv
-----------------------------------------------------------------------------

\* What a request begins with: an operator's confirm finds an order whose prints are
\* finished, and a claim has derived nothing, for what it holds is on its way.
LEMMA FollowBegin ==
  ASSUME FollowInv, PaperInv', NEW s \in Sessions,
         \/ ClaimNextTask(s)
         \/ \E t \in Tasks : ReportStatus(s, t)
         \/ SettleLostTasks(s)
         \/ \E o \in Orders : ConfirmOrderPrinted(s, o)
  PROVE  FollowInv'
  <1>1. ASSUME ClaimNextTask(s) PROVE FollowInv'
    <2>1. PICK t \in Tasks : tasks[t].state = "queued" /\ Claim(s, t)
      BY <1>1 DEF ClaimNextTask, First
    <2> DEFINE new == [Idle EXCEPT !.pc = "commit", !.kind = "claim", !.on = {t},
                                   !.to = "sent_to_device"]
    <2>2. Set(s, new) /\ orders' = orders /\ tasks' = tasks
      BY <1>1, <2>1 DEF Claim, ClaimNextTask
    <2>3. /\ new.pc = "commit" /\ new.kind = "claim" /\ new.on = {t} /\ new.todo = {}
          /\ new.seen = "none" /\ new.to = "sent_to_device"
          /\ \A o \in Orders : new.outcome[o] = "same"
      BY DEF Idle
    <2> HIDE DEF new
    <2>4. t[1] \in Orders /\ t \in TasksOf(t[1])
      BY TaskOfOrder DEF TasksOf
    <2>5. Prints(new, tasks, t) \notin Terminal
      BY <2>3 DEF Prints, Terminal
    <2>6. Follows(orders[t[1]].state, {tasks[u].state : u \in TasksOf(t[1])})
      BY <2>4 DEF FollowInv
    <2>7. orders[t[1]].state \notin {"completed", "partially_failed"}
      BY <2>1, <2>4, <2>6 DEF Follows, Terminal
    <2>8. Leaves(new, orders, t[1]) = orders[t[1]].state
      BY <2>3, <2>4 DEF Leaves
    <2>9. Follows(Leaves(new, orders, t[1]), {Prints(new, tasks, u) : u \in TasksOf(t[1])})
      BY <2>4, <2>5, <2>7, <2>8 DEF Follows
    <2>10. Tells(new, orders, tasks) /\ Confirms(new, orders, tasks)
      BY <2>3, <2>9 DEF Tells, Confirms, Done
    <2>11. QED
      BY <2>2, <2>10, FollowRequest
  <1>2. ASSUME NEW t \in Tasks, ReportStatus(s, t) PROVE FollowInv'
    <2>1. PICK to \in {"printing", "printed", "failed", "blocked"}, sheets \in Reports \cup {Unsaid} :
              Set(s, [Idle EXCEPT !.pc = "record", !.kind = "report", !.on = {t},
                                  !.seen = tasks[t].state, !.to = to, !.sheets = sheets])
      BY <1>2 DEF ReportStatus
    <2> DEFINE new == [Idle EXCEPT !.pc = "record", !.kind = "report", !.on = {t},
                                   !.seen = tasks[t].state, !.to = to, !.sheets = sheets]
    <2>2. Set(s, new) /\ orders' = orders /\ tasks' = tasks
      BY <1>2, <2>1 DEF ReportStatus
    <2>3. /\ new.pc = "record" /\ new.kind = "report" /\ new.todo = {}
          /\ \A o \in Orders : new.outcome[o] = "same"
      BY DEF Idle
    <2> HIDE DEF new
    <2>4. Tells(new, orders, tasks) /\ Confirms(new, orders, tasks)
      BY <2>3 DEF Tells, Confirms
    <2>5. QED
      BY <2>2, <2>4, FollowRequest
  <1>3. ASSUME SettleLostTasks(s) PROVE FollowInv'
    <2> DEFINE stale == {t \in Tasks : tasks[t].state \in InHand /\ tasks[t].lapsed}
               new == [Idle EXCEPT !.pc = "record", !.kind = "sweep", !.on = stale,
                                   !.to = "failed"]
    <2>1. Set(s, new) /\ orders' = orders /\ tasks' = tasks
      BY <1>3 DEF SettleLostTasks
    <2> HIDE DEF stale
    <2>2. /\ new.pc = "record" /\ new.kind = "sweep" /\ new.todo = {}
          /\ \A o \in Orders : new.outcome[o] = "same"
      BY DEF Idle
    <2> HIDE DEF new
    <2>3. Tells(new, orders, tasks) /\ Confirms(new, orders, tasks)
      BY <2>2 DEF Tells, Confirms
    <2>4. QED
      BY <2>1, <2>3, FollowRequest
  <1>4. ASSUME NEW o \in Orders, ConfirmOrderPrinted(s, o) PROVE FollowInv'
    <2> DEFINE new == [Idle EXCEPT !.pc = "confirm", !.kind = "confirm", !.to = "printed",
                                   !.order = o]
    <2>1. Set(s, new) /\ orders' = orders /\ tasks' = tasks
          /\ orders[o].state = "partially_failed"
      BY <1>4 DEF ConfirmOrderPrinted
    <2>2. /\ new.pc = "confirm" /\ new.kind = "confirm" /\ new.todo = {} /\ new.order = o
          /\ \A p \in Orders : new.outcome[p] = "same"
      BY DEF Idle
    <2> HIDE DEF new
    <2>3. {tasks[u].state : u \in TasksOf(o)} \subseteq Terminal
      BY <2>1 DEF FollowInv, Follows
    <2>4. Tells(new, orders, tasks) /\ Confirms(new, orders, tasks)
      BY <2>1, <2>2, <2>3 DEF Tells, Confirms
    <2>5. QED
      BY <2>1, <2>4, FollowRequest
  <1>5. QED
    BY <1>1, <1>2, <1>3, <1>4

\* A report of BLOCKED derives nothing: its task is not finished, before or after.
LEMMA FollowRecord ==
  ASSUME FollowInv, PaperInv', NEW s \in Sessions, Record(s)
  PROVE  FollowInv'
  <1> DEFINE told == [session[s] EXCEPT !.pc = "commit", !.tray = used]
             goes == [session[s] EXCEPT !.pc = "derive", !.tray = used, !.todo = session[s].on]
  <1>0. PICK st : st = session[s]
    OBVIOUS
  <1>1. /\ st \in SessionState /\ st.pc = "record" /\ orders' = orders /\ tasks' = tasks
        /\ Speaks(st, tasks) /\ Tells(st, orders, tasks) /\ Confirms(st, orders, tasks)
    BY <1>0, SessionType DEF FollowInv, PaperInv, Record, At
  <1>2. /\ st.kind \in {"none", "claim", "report", "sweep"} /\ st.todo = {}
        /\ \A o \in Orders : st.outcome[o] = "same"
    BY <1>1 DEF SessionState, Kind, Confirms, Tells
  <1>3. CASE st.to = "blocked"
    <2>1. Set(s, told)
      BY <1>0, <1>3 DEF Record
    <2>2. /\ told.pc = "commit" /\ told.kind = st.kind /\ told.on = st.on /\ told.todo = {}
          /\ told.seen = st.seen /\ told.to = "blocked"
          /\ \A o \in Orders : told.outcome[o] = "same"
      BY <1>0, <1>1, <1>2, <1>3 DEF SessionState
    <2> HIDE DEF told
    <2>3. \A t \in st.on :
              /\ t \in Tasks /\ t[1] \in Orders /\ t \in TasksOf(t[1])
              /\ tasks[t].state \notin Terminal
      BY <1>0, <1>1, <1>2, <1>3, HeldArePaid DEF Speaks, InHand, Terminal, TasksOf
    <2>4. ASSUME NEW t \in st.on
          PROVE  Follows(Leaves(told, orders, t[1]), {Prints(told, tasks, u) : u \in TasksOf(t[1])})
      <3>1. Prints(told, tasks, t) \notin Terminal
        BY <2>2, <2>3 DEF Prints, Terminal
      <3>2. Follows(orders[t[1]].state, {tasks[u].state : u \in TasksOf(t[1])})
        BY <2>3 DEF FollowInv
      <3>3. orders[t[1]].state \notin {"completed", "partially_failed"}
        BY <2>3, <3>2 DEF Follows, Terminal
      <3>4. Leaves(told, orders, t[1]) = orders[t[1]].state
        BY <2>2, <2>3 DEF Leaves
      <3>5. QED
        BY <2>3, <3>1, <3>3, <3>4 DEF Follows
    <2>5. Tells(told, orders, tasks) /\ Confirms(told, orders, tasks)
      BY <1>2, <2>2, <2>4 DEF Tells, Confirms, Done
    <2>6. QED
      BY <1>1, <2>1, <2>5, FollowRequest
  <1>4. CASE st.to # "blocked"
    <2>1. Set(s, goes)
      BY <1>0, <1>4 DEF Record
    <2>2. /\ goes.pc = "derive" /\ goes.kind = st.kind /\ goes.on = st.on /\ goes.todo = st.on
          /\ \A o \in Orders : goes.outcome[o] = "same"
      BY <1>0, <1>1, <1>2 DEF SessionState
    <2> HIDE DEF goes
    <2>3. Tells(goes, orders, tasks) /\ Confirms(goes, orders, tasks)
      BY <1>2, <2>2 DEF Tells, Confirms, Done
    <2>4. QED
      BY <1>1, <2>1, <2>3, FollowRequest
  <1>5. QED
    BY <1>3, <1>4

\* failed_tasks_at finds the order's own failed prints.
LEMMA FollowLock ==
  ASSUME DocsApart, FollowInv, PaperInv', NEW s \in Sessions, LockFailed(s)
  PROVE  FollowInv'
  <1> DEFINE failed == {t \in PrintsOf(session[s].order) : tasks[t].state = "failed"}
             new == [session[s] EXCEPT !.pc = "derive", !.on = failed, !.tray = used,
                                       !.todo = failed]
  <1>0. PICK st : st = session[s]
    OBVIOUS
  <1>1. /\ st \in SessionState /\ st.pc = "confirm" /\ orders' = orders /\ tasks' = tasks
        /\ Speaks(st, tasks) /\ Tells(st, orders, tasks) /\ Confirms(st, orders, tasks)
    BY <1>0, SessionType DEF FollowInv, PaperInv, LockFailed, At
  <1>2. /\ st.kind = "confirm" /\ \A o \in Orders : st.outcome[o] = "same"
    BY <1>1 DEF Speaks, Tells
  <1>3. st.order \in Orders /\ orders[st.order].state \notin Unpaid
    BY <1>1, <1>2 DEF Confirms, Unpaid
  <1>4. PrintsOf(session[s].order) = TasksOf(st.order)
    BY <1>0, <1>3, PaidPrints DEF FollowInv
  <1>5. CASE Set(s, Idle)
    BY <1>1, <1>5, IdleTells, FollowRequest
  <1>6. CASE failed # {} /\ Set(s, new)
    <2>1. failed = {t \in TasksOf(st.order) : tasks[t].state = "failed"}
      BY <1>4
    <2> HIDE DEF failed
    <2>2. /\ new.pc = "derive" /\ new.kind = st.kind /\ new.on = failed /\ new.todo = failed
          /\ new.order = st.order /\ new.outcome = st.outcome
      BY <1>0, <1>1 DEF SessionState
    <2> HIDE DEF new
    <2>3. Tells(new, orders, tasks) /\ Confirms(new, orders, tasks)
      BY <1>1, <1>2, <1>6, <2>1, <2>2 DEF Tells, Confirms, Done
    <2>4. QED
      BY <1>1, <1>6, <2>3, FollowRequest
  <1>7. QED
    BY <1>5, <1>6 DEF LockFailed
\* The order behind a task: its own, when it is in flight.
LEMMA OwnOrder ==
  ASSUME DocsApart, NEW s \in Sessions, session[s].kind # "confirm", NEW t \in Tasks
  PROVE  OrdersBehind(s, t) = IF InFlight(OrderSeen(s, t[1])) THEN {t[1]} ELSE {}
  <1>1. t[1] \in Orders /\ DocOf(t) \in DocsOf(t[1])
    BY DEF Tasks, DocOf, DocsOf
  <1>2. ASSUME NEW o \in Orders, DocOf(t) \in DocsOf(o) PROVE o = t[1]
    <2>1. PICK i \in 1..Len(Items[o]) : DocOf(t) = Items[o][i]
      BY <1>2 DEF DocsOf
    <2>2. <<o, i>> \in Tasks /\ DocOf(<<o, i>>) = Items[o][i]
      BY <2>1 DEF Tasks, DocOf
    <2>3. QED
      BY <2>1, <2>2 DEF DocsApart
  <1>3. QED
    BY <1>1, <1>2 DEF OrdersBehind

LEMMA NewestOfOne == \A o \in Orders : Newest({o}) = o
  BY DEF Newest

\* The outcomes refresh_order_state leaves, once it has seen to the task.
Told(s, t) ==
    LET behind == OrdersBehind(s, t)
        o == Newest(behind)
        state == Derived({TaskSeen(s, u) : u \in PrintsOf(o)})
    IN  IF behind = {} THEN session[s].outcome
        ELSE IF state = OrderLoaded(s, o) THEN session[s].outcome
             ELSE [session[s].outcome EXCEPT ![o] = state]

\* What refresh_order_state leaves of a task's order follows its prints as they will be.
LEMMA DerivedOrder ==
  ASSUME DocsApart, FollowInv, NEW s \in Sessions, NEW t \in session[s].todo,
         NEW outcome, At(s, "derive"), outcome = Told(s, t)
  PROVE  /\ \A p \in Orders \ {t[1]} : outcome[p] = session[s].outcome[p]
         /\ Follows(IF outcome[t[1]] = "same" THEN orders[t[1]].state ELSE outcome[t[1]],
                    {Prints(session[s], tasks, u) : u \in TasksOf(t[1])})
  <1> DEFINE behind == OrdersBehind(s, t)
             states == {Prints(session[s], tasks, u) : u \in TasksOf(t[1])}
  <1>0. PICK st, o : st = session[s] /\ o = t[1]
    OBVIOUS
  <1>1. /\ st \in SessionState /\ st.kind \in Kind /\ st.pc = "derive" /\ t \in st.todo
        /\ st.outcome \in [Orders -> OrderState \cup {"same"}]
        /\ Speaks(st, tasks) /\ Tells(st, orders, tasks) /\ Confirms(st, orders, tasks)
    BY <1>0, SessionType DEF FollowInv, PaperInv, SessionState, At
  <1>2. t \in st.on /\ t \in Tasks /\ o \in Orders /\ t \in TasksOf(o)
        /\ orders[o].state \notin Unpaid
    BY <1>0, <1>1, HeldArePaid DEF Tells, TasksOf
  <1>3. {TaskSeen(s, u) : u \in PrintsOf(o)} = states
    <2>1. PrintsOf(o) = TasksOf(o)
      BY <1>2, PaidPrints DEF FollowInv
    <2>2. \A u \in TasksOf(o) : TaskSeen(s, u) = Prints(session[s], tasks, u)
      BY DEF TaskSeen, Prints, WritesState
    <2>3. QED
      BY <1>0, <2>1, <2>2
  <1>4. OrderSeen(s, o) = Leaves(st, orders, o)
    BY <1>0 DEF OrderSeen, Leaves
  <1>5. Follows(Derived(states), states) /\ Derived(states) # "same"
    <2>1. Derived(states) \in {"dispatched", "completed", "partially_failed"}
      BY DEF Derived
    <2>2. QED
      BY <2>1, DerivedFollows
  <1>6. CASE behind = {o}
    <2>1. Newest(behind) = o
      BY <1>2, <1>6, NewestOfOne
    <2>2. outcome = IF Derived(states) = OrderLoaded(s, o) THEN st.outcome
                    ELSE [st.outcome EXCEPT ![o] = Derived(states)]
      BY <1>0, <1>3, <1>6, <2>1 DEF Told
    <2> HIDE DEF states, behind
    <2>3. \A p \in Orders \ {o} : outcome[p] = st.outcome[p]
      BY <1>1, <1>2, <2>2
    <2>4. (IF outcome[o] = "same" THEN orders[o].state ELSE outcome[o]) = Derived(states)
      <3>1. CASE st.kind = "confirm"
        <4>1. o = st.order /\ \A u \in st.on : u[1] = o
          BY <1>0, <1>1, <1>2, <3>1 DEF Confirms, TasksOf
        <4>2. \A u \in TasksOf(o) : Prints(st, tasks, u) = "printed"
          <5>1. TAKE u \in TasksOf(o)
          <5>2. tasks[u].state \in {"printed", "failed"}
            BY <1>1, <3>1, <4>1 DEF Confirms, Terminal
          <5>3. tasks[u].state = "failed" => u \in st.on
            BY <1>1, <3>1, <4>1 DEF Confirms
          <5>4. st.to = "printed" /\ st.seen = "none"
            BY <1>1, <3>1 DEF Speaks
          <5>5. QED
            BY <5>2, <5>3, <5>4 DEF Prints
        <4>3. states = {"printed"}
          BY <1>0, <1>2, <4>2 DEF states
        <4>4. Derived(states) = "completed"
          BY <4>3 DEF Derived, Terminal
        <4>5. OrderLoaded(s, o) = "partially_failed"
          BY <1>0, <3>1 DEF OrderLoaded
        <4>6. QED
          BY <1>1, <1>2, <2>2, <4>4, <4>5
      <3>2. CASE st.kind # "confirm"
        <4>1. OrderLoaded(s, o) = Leaves(st, orders, o)
          BY <1>0, <1>4, <3>2 DEF OrderLoaded
        <4>2. CASE Derived(states) = Leaves(st, orders, o)
          BY <2>2, <4>1, <4>2 DEF Leaves
        <4>3. CASE Derived(states) # Leaves(st, orders, o)
          <5>1. outcome[o] = Derived(states)
            BY <1>1, <1>2, <2>2, <4>1, <4>3
          <5>2. QED
            BY <1>5, <5>1
        <4>4. QED
          BY <4>2, <4>3
      <3>3. QED
        BY <3>1, <3>2
    <2>5. Follows(IF outcome[o] = "same" THEN orders[o].state ELSE outcome[o], states)
      BY <1>5, <2>4
    <2>6. QED
      BY <1>0, <2>3, <2>5 DEF states
  <1>7. CASE behind = {} /\ st.kind # "confirm"
    <2>1. outcome = st.outcome /\ ~InFlight(Leaves(st, orders, o))
      BY <1>0, <1>2, <1>4, <1>7, OwnOrder DEF Told
    <2>2. ASSUME st.outcome[o] = "same" PROVE Follows(orders[o].state, states)
      <3>1. st.kind \in {"report", "sweep"} /\ tasks[t].state \notin Terminal
        <4>1. st.kind # "none" /\ st.kind # "claim"
          BY <1>0, <1>1, <1>2, Rows DEF Speaks, Holds, FollowInv, PaperInv
        <4>2. st.kind \in {"report", "sweep"}
          BY <1>1, <1>7, <4>1 DEF Kind
        <4>3. QED
          BY <1>1, <1>2, <4>2 DEF Speaks, InHand, Terminal
      <3>2. Follows(orders[o].state, {tasks[u].state : u \in TasksOf(o)})
        BY <1>2 DEF FollowInv
      <3>3. orders[o].state \notin {"completed", "partially_failed"}
        BY <1>2, <3>1, <3>2 DEF Follows, Terminal
      <3>4. ~InFlight(orders[o].state)
        BY <2>1, <2>2 DEF Leaves
      <3>5. QED
        BY <3>3, <3>4 DEF Follows
    <2>3. ASSUME st.outcome[o] # "same" PROVE Follows(st.outcome[o], states)
      <3>1. PICK u \in Done(st) : u[1] = o
        BY <1>1, <1>2, <2>3 DEF Tells
      <3>2. Follows(Leaves(st, orders, o), {Prints(st, tasks, v) : v \in TasksOf(o)})
        BY <1>1, <3>1 DEF Tells
      <3>3. QED
        BY <1>0, <2>3, <3>2 DEF Leaves
    <2>4. QED
      BY <1>0, <2>1, <2>2, <2>3
  <1>8. \/ behind = {o}
        \/ behind = {} /\ st.kind # "confirm"
    <2>1. CASE st.kind = "confirm"
      <3>1. o = st.order
        BY <1>0, <1>1, <1>2, <2>1 DEF Confirms, TasksOf
      <3>2. QED
        BY <1>0, <2>1, <3>1 DEF OrdersBehind
    <2>2. CASE st.kind # "confirm"
      BY <1>0, <1>2, <2>2, OwnOrder
    <2>3. QED
      BY <2>1, <2>2
  <1>9. QED
    BY <1>6, <1>7, <1>8

LEMMA FollowDerive ==
  ASSUME DocsApart, FollowInv, PaperInv', NEW s \in Sessions, NEW t \in Tasks, Derive(s, t)
  PROVE  FollowInv'
  <1>0. PICK st, o : st = session[s] /\ o = t[1]
    OBVIOUS
  <1>1. /\ st \in SessionState /\ st.pc = "derive" /\ t \in st.todo
        /\ orders' = orders /\ tasks' = tasks /\ t \in session[s].todo /\ At(s, "derive")
        /\ Tells(st, orders, tasks) /\ Confirms(st, orders, tasks)
    BY <1>0, SessionType DEF FollowInv, PaperInv, Derive, At
  <1>2. PICK outcome, todo, pc :
            /\ outcome = Told(s, t)
            /\ todo = IF st.kind = "confirm" THEN {} ELSE st.todo \ {t}
            /\ pc = IF todo = {} THEN "commit" ELSE "derive"
            /\ Set(s, [st EXCEPT !.outcome = outcome, !.todo = todo, !.pc = pc])
    BY <1>0 DEF Derive, Told
  <1>3. /\ \A p \in Orders \ {o} : outcome[p] = st.outcome[p]
        /\ Follows(IF outcome[o] = "same" THEN orders[o].state ELSE outcome[o],
                   {Prints(st, tasks, u) : u \in TasksOf(o)})
    <2>1. /\ \A p \in Orders \ {t[1]} : outcome[p] = session[s].outcome[p]
          /\ Follows(IF outcome[t[1]] = "same" THEN orders[t[1]].state ELSE outcome[t[1]],
                     {Prints(session[s], tasks, u) : u \in TasksOf(t[1])})
      BY <1>1, <1>2, DerivedOrder
    <2>2. QED
      BY <1>0, <2>1
  <1> DEFINE new == [st EXCEPT !.outcome = outcome, !.todo = todo, !.pc = pc]
  <1>4. /\ new.kind = st.kind /\ new.on = st.on /\ new.to = st.to /\ new.seen = st.seen
        /\ new.order = st.order /\ new.outcome = outcome /\ new.todo = todo /\ new.pc = pc
        /\ Set(s, new)
    BY <1>1, <1>2 DEF SessionState
  <1> HIDE DEF new
  <1>5. /\ t \in Done(new) /\ Done(st) \subseteq Done(new) /\ todo \subseteq st.on
        /\ \A u \in Done(new) : u \in Done(st) \/ u[1] = o
    <2>1. CASE st.kind = "confirm"
      <3>1. \A u \in st.on : u[1] = st.order
        BY <1>1, <2>1 DEF Confirms, TasksOf
      <3>2. QED
        BY <1>0, <1>1, <1>2, <1>4, <2>1, <3>1 DEF Done, Tells
    <2>2. CASE st.kind # "confirm"
      BY <1>0, <1>1, <1>2, <1>4, <2>2 DEF Done, Tells
    <2>3. QED
      BY <2>1, <2>2
  <1>6. \A u \in Done(new) : u[1] \in Orders
    BY <1>0, <1>4, HeldArePaid DEF Done
  <1>7. ASSUME NEW u \in Done(new)
        PROVE  Follows(Leaves(new, orders, u[1]), {Prints(new, tasks, v) : v \in TasksOf(u[1])})
    <2>1. \A v : Prints(new, tasks, v) = Prints(st, tasks, v)
      BY <1>4 DEF Prints
    <2>2. CASE u[1] = o
      BY <1>3, <1>4, <2>1, <2>2 DEF Leaves
    <2>3. CASE u[1] # o
      <3>1. u \in Done(st) /\ Leaves(new, orders, u[1]) = Leaves(st, orders, u[1])
        BY <1>3, <1>4, <1>5, <1>6, <2>3 DEF Leaves
      <3>2. Follows(Leaves(st, orders, u[1]), {Prints(st, tasks, v) : v \in TasksOf(u[1])})
        BY <1>1, <3>1 DEF Tells
      <3>3. QED
        BY <2>1, <3>1, <3>2
    <2>4. QED
      BY <2>2, <2>3
  <1>8. \A p \in Orders : outcome[p] # "same" => \E u \in Done(new) : u[1] = p
    BY <1>0, <1>1, <1>3, <1>5 DEF Tells
  <1>9. Tells(new, orders, tasks)
    BY <1>2, <1>4, <1>5, <1>7, <1>8 DEF Tells
  <1>10. Confirms(new, orders, tasks)
    BY <1>1, <1>2, <1>4 DEF Confirms
  <1>11. QED
    BY <1>1, <1>4, <1>9, <1>10, FollowRequest
\* Two requests never hold tasks of one order: the device and the sweep are served in
\* turn, no print of an order being confirmed is unfinished, and a second confirm of the
\* order waits for the first at its prints.
LEMMA HeldApart ==
  ASSUME ServedInTurn, FollowInv, NEW s \in Sessions, NEW r \in Sessions \ {s},
         NEW t \in session[s].on, NEW u \in session[r].on
  PROVE  t[1] # u[1]
  <1>1. \A q \in Sessions :
            /\ session[q].kind \in Kind /\ Speaks(session[q], tasks)
            /\ Confirms(session[q], orders, tasks)
            /\ session[q].kind \in OfDevice => q \in Agents \cup Sweepers
    BY SessionType DEF FollowInv, PaperInv, SessionState
  <1>2. t \in Tasks /\ u \in Tasks
    BY HeldArePaid
  <1>3. \A q \in Sessions : \A v \in session[q].on :
            session[q].kind = "confirm" =>
                /\ v[1] = session[q].order
                /\ \A w \in TasksOf(v[1]) : tasks[w].state \in Terminal
    BY <1>1 DEF Confirms, Speaks, TasksOf
  <1>4. \A q \in Sessions : \A v \in session[q].on :
            session[q].kind \in OfDevice => tasks[v].state \notin Terminal
    BY <1>1 DEF Speaks, OfDevice, InHand, Terminal
  <1>5. session[s].kind # "none" /\ session[r].kind # "none"
    BY <1>1 DEF Speaks
  <1>6. CASE session[s].kind \in OfDevice /\ session[r].kind \in OfDevice
    BY <1>1, <1>6 DEF ServedInTurn
  <1>7. CASE session[s].kind \in OfDevice /\ session[r].kind = "confirm"
    BY <1>2, <1>3, <1>4, <1>7 DEF TasksOf
  <1>8. CASE session[s].kind = "confirm" /\ session[r].kind \in OfDevice
    BY <1>2, <1>3, <1>4, <1>8 DEF TasksOf
  <1>9. CASE session[s].kind = "confirm" /\ session[r].kind = "confirm"
    <2>1. session[s].pc \in {"derive", "commit"} /\ session[r].pc \in {"derive", "commit"}
      BY <1>1, <1>9 DEF Speaks
    <2>2. t[1] = u[1] => session[s].on = session[r].on
      BY <1>1, <1>3, <1>9, <2>1 DEF Confirms
    <2>3. session[s].on \cap session[r].on = {}
      BY <1>9 DEF FollowInv, PaperInv, ConfirmsApart
    <2>4. QED
      BY <2>2, <2>3
  <1>10. QED
    BY <1>1, <1>5, <1>6, <1>7, <1>8, <1>9 DEF Kind, OfDevice

LEMMA FollowCommit ==
  ASSUME ServedInTurn, FollowInv, PaperInv', NEW s \in Sessions, Commit(s)
  PROVE  FollowInv'
  <1>0. PICK st : st = session[s]
    OBVIOUS
  <1>1. /\ st \in SessionState /\ st.pc = "commit" /\ st.kind \in Kind /\ st.on \in SUBSET Tasks
        /\ Speaks(st, tasks) /\ Tells(st, orders, tasks) /\ Confirms(st, orders, tasks)
    BY <1>0, SessionType DEF FollowInv, PaperInv, Commit, At, SessionState
  <1>2. st.outcome \in [Orders -> Derivable] /\ Holds(st, tasks)
    BY <1>0, Rows DEF FollowInv, PaperInv
  <1>3. Done(st) = st.on
    BY <1>1 DEF Tells, Done
  <1>4. \A t \in Tasks : tasks'[t].state = Prints(st, tasks, t)
    <2>1. TAKE t \in Tasks
    <2>2. tasks'[t] = IF t \in st.on THEN Written(s, t) ELSE tasks[t]
      BY <1>0 DEF Commit
    <2>3. Written(s, t).state = IF WritesState(s) THEN st.to ELSE tasks[t].state
      BY <1>0, WrittenRow DEF FollowInv, PaperInv
    <2>4. QED
      BY <1>0, <2>2, <2>3 DEF Prints, WritesState
  <1>5. \A o \in Orders : /\ orders'[o].state = Leaves(st, orders, o)
                          /\ orders'[o].placed = orders[o].placed
                          /\ orders'[o].paid = orders[o].paid
    <2>1. TAKE o \in Orders
    <2>2. orders[o] \in Order
      BY DEF FollowInv, PaperInv, TypeOK
    <2>3. orders'[o] = [orders[o] EXCEPT !.state = Leaves(st, orders, o)]
      BY <1>0 DEF Commit, Leaves
    <2>4. QED
      BY <2>2, <2>3 DEF Order
  <1>6. \A o \in Orders : st.outcome[o] # "same" => \E t \in st.on : t[1] = o
    BY <1>1, <1>3 DEF Tells
  <1>7. \A o \in Orders : (\A t \in st.on : t[1] # o) =>
            /\ orders'[o].state = orders[o].state
            /\ \A u \in TasksOf(o) : tasks'[u].state = tasks[u].state
    BY <1>4, <1>5, <1>6 DEF Leaves, Prints, TasksOf
  <1>8. \A o \in Orders : Follows(orders'[o].state, {tasks'[t].state : t \in TasksOf(o)})
    <2>1. TAKE o \in Orders
    <2>2. CASE \A t \in st.on : t[1] # o
      <3>1. {tasks'[t].state : t \in TasksOf(o)} = {tasks[t].state : t \in TasksOf(o)}
        BY <1>7, <2>2
      <3>2. QED
        BY <1>7, <2>2, <3>1 DEF FollowInv
    <2>3. ASSUME NEW t \in st.on, t[1] = o
          PROVE  Follows(orders'[o].state, {tasks'[u].state : u \in TasksOf(o)})
      <3>1. Follows(Leaves(st, orders, o), {Prints(st, tasks, u) : u \in TasksOf(o)})
        BY <1>1, <1>3, <2>3 DEF Tells
      <3>2. {tasks'[u].state : u \in TasksOf(o)} = {Prints(st, tasks, u) : u \in TasksOf(o)}
        BY <1>4 DEF TasksOf
      <3>3. QED
        BY <1>5, <3>1, <3>2
    <2>4. QED
      BY <2>2, <2>3
  <1>9. Timely'
    <2>1. \A o \in Orders : orders'[o].state \in Unpaid <=> orders[o].state \in Unpaid
      <3>1. TAKE o \in Orders
      <3>2. CASE st.outcome[o] = "same"
        BY <1>5, <3>2 DEF Leaves
      <3>3. CASE st.outcome[o] # "same"
        <4>1. orders[o].state \notin Unpaid
          BY <1>0, <1>6, <3>3, HeldArePaid
        <4>2. st.outcome[o] \notin Unpaid
          BY <1>2, <3>3 DEF Derivable, Unpaid
        <4>3. QED
          BY <1>5, <3>3, <4>1, <4>2 DEF Leaves
      <3>4. QED
        BY <3>2, <3>3
    <2>2. \A t \in Tasks : tasks[t].state # "none" => tasks'[t].state # "none"
      BY <1>1, <1>2, <1>4 DEF Prints, Holds, Waiting
    <2>3. QED
      BY <1>5, <2>1, <2>2, TimelyStep DEF FollowInv, PaperInv
  <1>10. session'[s] = Idle /\ \A r \in Sessions \ {s} : session'[r] = session[r]
    BY DEF Commit, Set, FollowInv, PaperInv, TypeOK
  <1>11. ASSUME NEW r \in Sessions \ {s}
         PROVE  Tells(session[r], orders', tasks') /\ Confirms(session[r], orders', tasks')
    <2>1. Tells(session[r], orders, tasks) /\ Confirms(session[r], orders, tasks)
          /\ Speaks(session[r], tasks)
      BY DEF FollowInv, PaperInv
    <2>2. \A t \in session[r].on : t[1] \in Orders /\ \A u \in st.on : u[1] # t[1]
      BY <1>0, HeldApart, HeldArePaid
    <2>3. Tells(session[r], orders', tasks')
      BY <1>7, <2>1, <2>2, TellsKept DEF Done
    <2>4. CASE session[r].kind # "confirm"
      BY <2>3, <2>4 DEF Confirms
    <2>5. CASE session[r].kind = "confirm" /\ \A u \in st.on : u[1] # session[r].order
      <3>1. session[r].order \in Orders
        BY <2>1, <2>5 DEF Confirms
      <3>2. QED
        BY <1>7, <2>1, <2>3, <2>5, <3>1, ConfirmsKept
    <2>6. ASSUME session[r].kind = "confirm", NEW u \in st.on, u[1] = session[r].order
          PROVE  Confirms(session[r], orders', tasks')
      <3> DEFINE o == session[r].order
      <3>1. /\ o \in Orders /\ u \in TasksOf(o) /\ \A t \in TasksOf(o) : tasks[t].state \in Terminal
        BY <1>1, <2>1, <2>6 DEF Confirms, TasksOf
      <3>2. session[r].pc \notin {"derive", "commit", "record"}
        <4>1. session[r].on = {}
          <5>1. \A t \in session[r].on : t[1] = o
            BY <2>1, <2>6 DEF Confirms, Speaks, TasksOf
          <5>2. QED
            BY <2>2, <2>6, <5>1
        <4>2. QED
          BY <2>1, <2>6, <4>1 DEF Confirms
      <3>3. st.kind = "confirm"
        BY <1>1, <3>1 DEF Speaks, Kind, InHand, Terminal
      <3>4. \A t \in TasksOf(o) : Prints(st, tasks, t) \in Terminal
        BY <1>1, <3>1, <3>3 DEF Prints, Speaks, Terminal
      <3>5. \A t \in TasksOf(o) : tasks'[t].state \in Terminal
        BY <1>4, <3>4 DEF TasksOf
      <3>6. orders'[o].state \in {"partially_failed", "completed", "refunded"}
        <4>1. orders[o].state \in {"partially_failed", "completed", "refunded"}
          BY <2>1, <2>6 DEF Confirms
        <4>2. ~InFlight(orders'[o].state)
          BY <1>8, <3>1, <3>5 DEF Follows
        <4>3. st.outcome[o] \in Derivable
          BY <1>2, <3>1
        <4>4. QED
          BY <1>5, <3>1, <4>1, <4>2, <4>3 DEF Leaves, Derivable, InFlight
      <3>7. QED
        BY <2>6, <3>1, <3>2, <3>5, <3>6 DEF Confirms
    <2>7. QED
      BY <2>3, <2>4, <2>5, <2>6
  <1>12. \A r \in Sessions : /\ Tells(session'[r], orders', tasks')
                             /\ Confirms(session'[r], orders', tasks')
    <2>1. Tells(Idle, orders', tasks') /\ Confirms(Idle, orders', tasks')
      BY DEF Idle, Tells, Confirms, Done
    <2>2. QED
      BY <1>10, <1>11, <2>1
  <1>13. QED
    BY <1>8, <1>9, <1>12 DEF FollowInv

LEMMA FollowInit == Init => FollowInv
  <1> SUFFICES ASSUME Init PROVE FollowInv
    OBVIOUS
  <1>1. /\ \A o \in Orders : /\ orders[o].state = "unplaced" /\ orders[o].placed = 0
                             /\ orders[o].paid = 0
        /\ \A s \in Sessions : session[s] = Idle
    BY DEF Init
  <1>2. Now \in Nat /\ 0 <= Now
    BY InitType, NowType
  <1>3. Timely
    BY <1>1, <1>2 DEF Timely, Unpaid
  <1>4. \A o \in Orders : Follows(orders[o].state, {tasks[t].state : t \in TasksOf(o)})
    BY <1>1 DEF Follows, InFlight
  <1>5. QED
    BY <1>1, <1>3, <1>4, IdleTells, PaperInit DEF FollowInv

LEMMA FollowNext ==
  ASSUME ServedInTurn, DocsApart
  PROVE  FollowInv /\ [Next]_vars => FollowInv'
  <1> SUFFICES ASSUME FollowInv, [Next]_vars PROVE FollowInv'
    OBVIOUS
  <1>1. PaperInv'
    BY PaperNext DEF FollowInv
  <1>2. CASE \E o \in Orders : PlaceOrder(o) \/ MarkPaid(o) \/ Refund(o)
    BY <1>1, <1>2, FollowPlace, FollowPaid, FollowRefund
  <1>3. CASE \E t \in Tasks : LeaseRunsOut(t) \/ RenewHeldLease(t) \/ GoQuiet(t)
    <2>1. session' = session /\ orders' = orders
      BY <1>3 DEF LeaseRunsOut, RenewHeldLease, GoQuiet
    <2>2. tasks \in [Tasks -> Task]
      BY DEF FollowInv, PaperInv, TypeOK
    <2>3. \A t \in Tasks : tasks'[t].state = tasks[t].state
      BY <1>3, <2>2 DEF LeaseRunsOut, RenewHeldLease, GoQuiet, Task
    <2>4. QED
      BY <1>1, <2>1, <2>3, FollowSame
  <1>4. CASE SetPaper \/ UNCHANGED vars
    <2>1. session' = session /\ orders' = orders /\ tasks' = tasks
      BY <1>4 DEF SetPaper, vars
    <2>2. QED
      BY <1>1, <2>1, FollowSame
  <1>5. CASE \E s \in Agents : Device(s)
    BY <1>1, <1>5, FollowBegin DEF Device, Sessions
  <1>6. CASE \E s \in Sweepers : SettleLostTasks(s)
    BY <1>1, <1>6, FollowBegin DEF Sessions
  <1>7. CASE \E s \in Desk, o \in Orders : ConfirmOrderPrinted(s, o)
    BY <1>1, <1>7, FollowBegin DEF Sessions
  <1>8. CASE \E s \in Sessions : Work(s)
    BY <1>1, <1>8, FollowRecord, FollowLock, FollowDerive, FollowCommit DEF Work
  <1>9. CASE \E s \in Sessions : Rollback(s)
    BY <1>1, <1>9, IdleTells, FollowRequest DEF Rollback
  <1>10. QED
    BY <1>2, <1>3, <1>4, <1>5, <1>6, <1>7, <1>8, <1>9 DEF Next

\* Where one session serves the device and the sweep and no file is in two orders, an
\* order says what became of its prints whenever nothing is in flight: reports, sweeps,
\* rolled back requests, refunds and any number of operators' confirms leave no order
\* open whose prints are finished, and none settled otherwise than they came out.
THEOREM QueueOrdersFollowTheirPrints ==
  ASSUME ServedInTurn, DocsApart
  PROVE  Spec => []OrdersFollowTheirPrints
  <1>1. Init => FollowInv
    BY FollowInit
  <1>2. FollowInv /\ [Next]_vars => FollowInv'
    BY FollowNext
  <1>3. FollowInv => OrdersFollowTheirPrints
    <2>1. SUFFICES ASSUME FollowInv, NEW o \in Orders
                   PROVE  Follows(orders[o].state, {tasks[t].state : t \in {u \in Tasks : u[1] = o}})
      BY DEF OrdersFollowTheirPrints, Follows
    <2>2. QED
      BY <2>1 DEF FollowInv, TasksOf
  <1>4. QED
    BY <1>1, <1>2, <1>3, PTL DEF Spec
=============================================================================
