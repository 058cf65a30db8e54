----------------------------- MODULE ShopProofs -----------------------------
(***************************************************************************)
(* Proofs about Shop, for any number of requests and device rows.          *)
(*                                                                         *)
(* What a machine's claim on the shop promises needs no more than the       *)
(* types: the claim, the stage and the alert are written by one commit, and *)
(* a person who moves the stage leaves a mark.  What opens a shop needs     *)
(* what each request in flight has judged (Judged), and holds until two of  *)
(* them overlap (Earned).                                                  *)
(***************************************************************************)
EXTENDS MCShop, TLAPS

\* A request asks for a stage or for a type, and a machine's report is of a device.
RequestsAsk ==
  \A s \in Sessions :
    /\ session[s].kind = "stage" => session[s].to \in Stage
    /\ session[s].kind = "type" => session[s].to \in Type
    /\ session[s].kind = "stuck" => session[s].row # 0

\* The conjunction that is inductive.
ShopInv == TypeOK /\ RequestsAsk /\ JammedShopsAreClosed /\ ClosuresAreAnnounced

\* A request that ends leaves every session well typed.
LEMMA IdleIsTyped == ASSUME ShopAssumption PROVE Idle \in SessionState /\ Idle.kind = "none"
  BY DEF ShopAssumption, Idle, SessionState, Kind, Kiosk, Type, Stage

LEMMA EndsTyped ==
  ASSUME ShopAssumption, TypeOK, RequestsAsk, NEW s \in Sessions, Set(s, Idle)
  PROVE  session' \in [Sessions -> SessionState] /\ RequestsAsk'
  BY IdleIsTyped DEF TypeOK, Set, RequestsAsk

\* A request that begins keeps them so.
LEMMA BeginsTyped ==
  ASSUME TypeOK, RequestsAsk, NEW s \in Sessions, NEW new \in SessionState, Set(s, new),
         new.kind = "stage" => new.to \in Stage, new.kind = "type" => new.to \in Type,
         new.kind = "stuck" => new.row # 0
  PROVE  session' \in [Sessions -> SessionState] /\ RequestsAsk'
  BY DEF TypeOK, Set, RequestsAsk

\* The history of a move is a history.
LEMMA MovedIsTyped ==
  ASSUME TypeOK, NEW s \in Sessions, NEW stage \in Stage, NEW who \in {"person", "machine"}
  PROVE  /\ MovedTo(s, stage, who) \in History
         /\ MovedTo(s, stage, who).touched <=> who = "person"
  <1>1. session[s].checked \in BOOLEAN BY DEF TypeOK, SessionState
  <1>2. history \in History BY DEF TypeOK
  <1>3. QED BY <1>1, <1>2 DEF MovedTo, History

-----------------------------------------------------------------------------

LEMMA InitTyped == ASSUME ShopAssumption, Init PROVE ShopInv
  <1>1. session \in [Sessions -> SessionState] BY IdleIsTyped DEF Init
  <1>2. history \in History BY DEF Init, History
  <1>3. device \in Device /\ device.row \in {0, device.rows} /\ ~device.stuck
    BY DEF Init, Device, ShopAssumption
  <1>4. kiosk \in Kiosk BY DEF Init, Kiosk, Stage
  <1>5. RequestsAsk BY IdleIsTyped DEF Init, RequestsAsk
  <1>6. QED BY <1>1, <1>2, <1>3, <1>4, <1>5
            DEF Init, ShopInv, TypeOK, JammedShopsAreClosed, ClosuresAreAnnounced

LEMMA StepInv ==
  ASSUME ShopAssumption, ShopInv, [Next]_vars
  PROVE  ShopInv'
  <1>t. TypeOK /\ RequestsAsk BY DEF ShopInv
  <1>c. JammedShopsAreClosed /\ ClosuresAreAnnounced BY DEF ShopInv
  <1>r. /\ device.row \in 0..MaxRows /\ 0 \in 0..MaxRows /\ device.rows \in 0..MaxRows
        /\ kiosk \in Kiosk /\ kiosk.type \in Type /\ kiosk.stage \in Stage /\ history \in History
    BY <1>t DEF TypeOK, Device, Kiosk, ShopAssumption
  <1>1. CASE UNCHANGED vars
    BY <1>1, <1>t, <1>c
    DEF vars, ShopInv, TypeOK, RequestsAsk, JammedShopsAreClosed, ClosuresAreAnnounced
  <1>2. CASE MoveGate
    <2>1. UNCHANGED <<kiosk, device, alert, history, session>> /\ collects' \in BOOLEAN
      BY <1>2 DEF MoveGate
    <2>2. QED BY <2>1, <1>t, <1>c
              DEF ShopInv, TypeOK, RequestsAsk, JammedShopsAreClosed, ClosuresAreAnnounced
  <1>3. CASE ResolveAlert
    BY <1>3, <1>t, <1>c
    DEF ResolveAlert, ShopInv, TypeOK, RequestsAsk, JammedShopsAreClosed, ClosuresAreAnnounced
  <1>4. CASE RegisterDevice \/ RevokeDevice
    <2>1. device' \in Device /\ device'.row \in {0, device'.rows} /\ ~device'.stuck
      <3>1. CASE RegisterDevice
        <4>1. device.rows < MaxRows BY <3>1 DEF RegisterDevice
        <4>2. device.rows + 1 \in 0..MaxRows BY <4>1, <1>r DEF ShopAssumption
        <4>3. device' = [row |-> device.rows + 1, rows |-> device.rows + 1, stuck |-> FALSE]
          BY <3>1 DEF RegisterDevice
        <4>4. QED BY <4>2, <4>3 DEF Device
      <3>2. CASE RevokeDevice BY <3>2, <1>r DEF RevokeDevice, Device
      <3>3. QED BY <1>4, <3>1, <3>2
    <2>2. UNCHANGED <<kiosk, alert, collects, history, session>>
      BY <1>4 DEF RegisterDevice, RevokeDevice
    <2>3. QED BY <2>1, <2>2, <1>t
              DEF ShopInv, TypeOK, RequestsAsk, JammedShopsAreClosed, ClosuresAreAnnounced
  <1>5. ASSUME NEW s \in Sessions, NEW stage \in Stage, MoveTo(s, stage) PROVE ShopInv'
    <2> DEFINE new == Request("stage", stage, 0, OwnerCollects(kiosk.type))
    <2>1. new \in SessionState /\ new.kind = "stage" /\ new.to = stage
      BY <1>r DEF Request, SessionState, Kind, OwnerCollects
    <2>2. Set(s, new) /\ UNCHANGED <<kiosk, device, alert, collects, history>> BY <1>5 DEF MoveTo
    <2> HIDE DEF new
    <2>3. session' \in [Sessions -> SessionState] /\ RequestsAsk' BY <2>1, <2>2, <1>t, BeginsTyped
    <2>4. QED BY <2>2, <2>3, <1>t, <1>c
              DEF ShopInv, TypeOK, JammedShopsAreClosed, ClosuresAreAnnounced
  <1>6. ASSUME NEW s \in Sessions, NEW type \in Type, ChangeType(s, type) PROVE ShopInv'
    <2> DEFINE new == Request("type", type, 0, FALSE)
    <2>1. new \in SessionState /\ new.kind = "type" /\ new.to = type
      BY <1>r DEF Request, SessionState, Kind
    <2>2. Set(s, new) /\ UNCHANGED <<kiosk, device, alert, collects, history>> BY <1>6 DEF ChangeType
    <2> HIDE DEF new
    <2>3. session' \in [Sessions -> SessionState] /\ RequestsAsk' BY <2>1, <2>2, <1>t, BeginsTyped
    <2>4. QED BY <2>2, <2>3, <1>t, <1>c
              DEF ShopInv, TypeOK, JammedShopsAreClosed, ClosuresAreAnnounced
  <1>7. ASSUME NEW s \in Sessions, ReportStuck(s) PROVE ShopInv'
    <2> DEFINE new == Request("stuck", "maintenance", device.row, FALSE)
    <2>1. new \in SessionState /\ new.kind = "stuck" /\ new.row # 0
      BY <1>7, <1>r DEF ReportStuck, Authenticated, Request, SessionState, Kind, Stage
    <2>2. Set(s, new) /\ UNCHANGED <<kiosk, device, alert, collects, history>> BY <1>7 DEF ReportStuck
    <2> HIDE DEF new
    <2>3. session' \in [Sessions -> SessionState] /\ RequestsAsk' BY <2>1, <2>2, <1>t, BeginsTyped
    <2>4. QED BY <2>2, <2>3, <1>t, <1>c
              DEF ShopInv, TypeOK, JammedShopsAreClosed, ClosuresAreAnnounced
  <1>8. ASSUME NEW s \in Sessions, ReportRecovered(s) PROVE ShopInv'
    <2> DEFINE new == Request("recovered", "live", device.row, OwnerCollects(kiosk.type))
    <2>1. new \in SessionState /\ new.kind = "recovered"
      BY <1>r DEF Request, SessionState, Kind, Stage, OwnerCollects
    <2>2. Set(s, new) /\ UNCHANGED <<kiosk, device, alert, collects, history>>
      BY <1>8 DEF ReportRecovered
    <2> HIDE DEF new
    <2>3. session' \in [Sessions -> SessionState] /\ RequestsAsk' BY <2>1, <2>2, <1>t, BeginsTyped
    <2>4. QED BY <2>2, <2>3, <1>t, <1>c
              DEF ShopInv, TypeOK, JammedShopsAreClosed, ClosuresAreAnnounced
  <1>9. ASSUME NEW s \in Sessions, WriteStage(s) PROVE ShopInv'
    <2>1. session' \in [Sessions -> SessionState] /\ RequestsAsk'
      BY <1>9, <1>t, EndsTyped DEF WriteStage
    <2>2. session[s].to \in Stage BY <1>9, <1>t DEF WriteStage, Serves, RequestsAsk
    <2>3. history' \in History /\ history'.touched
      BY <1>9, <1>t, <2>2, MovedIsTyped DEF WriteStage
    <2>4. kiosk' \in Kiosk BY <1>9, <1>r, <2>2 DEF WriteStage, Kiosk
    <2>5. UNCHANGED <<device, alert, collects>> BY <1>9 DEF WriteStage
    <2>6. QED BY <2>1, <2>3, <2>4, <2>5, <1>t, <1>c
              DEF ShopInv, TypeOK, JammedShopsAreClosed, ClosuresAreAnnounced
  <1>10. ASSUME NEW s \in Sessions, WriteType(s) PROVE ShopInv'
    <2>1. session' \in [Sessions -> SessionState] /\ RequestsAsk'
      BY <1>10, <1>t, EndsTyped DEF WriteType
    <2>2. session[s].to \in Type BY <1>10, <1>t DEF WriteType, Serves, RequestsAsk
    <2>3. MovedTo(s, "approved", "person") \in History BY <1>t, MovedIsTyped DEF Stage
    <2>4. history' \in History /\ history'.touched
      BY <1>10, <1>r, <2>3 DEF WriteType, History
    <2>5. kiosk' \in Kiosk BY <1>10, <1>r, <2>2 DEF WriteType, Kiosk, Stage
    <2>6. UNCHANGED <<device, alert, collects>> BY <1>10 DEF WriteType
    <2>7. QED BY <2>1, <2>4, <2>5, <2>6, <1>t, <1>c
              DEF ShopInv, TypeOK, JammedShopsAreClosed, ClosuresAreAnnounced
  <1>11. ASSUME NEW s \in Sessions, WriteStuck(s) PROVE ShopInv'
    <2>1. session' \in [Sessions -> SessionState] /\ RequestsAsk'
      BY <1>11, <1>t, EndsTyped DEF WriteStuck
    <2>2. history' \in History BY <1>11, <1>t, MovedIsTyped DEF WriteStuck, Stage
    <2>3. kiosk' \in Kiosk /\ kiosk'.stage = "maintenance" BY <1>11, <1>r DEF WriteStuck, Kiosk, Stage
    <2>4. device' \in Device /\ device'.row = device.row /\ device'.rows = device.rows
      BY <1>11, <1>t DEF WriteStuck, TypeOK, Device
    <2>5. device.row # 0 BY <1>11, <1>t DEF WriteStuck, Serves, RequestsAsk
    <2>6. alert' = "open" /\ UNCHANGED collects BY <1>11 DEF WriteStuck
    <2>7. QED BY <2>1, <2>2, <2>3, <2>4, <2>5, <2>6, <1>t
              DEF ShopInv, TypeOK, JammedShopsAreClosed, ClosuresAreAnnounced
  <1>12. ASSUME NEW s \in Sessions, WriteRecovered(s) PROVE ShopInv'
    <2>1. session' \in [Sessions -> SessionState] /\ RequestsAsk'
      BY <1>12, <1>t, EndsTyped DEF WriteRecovered
    <2>2. MovedTo(s, "live", "machine") \in History BY <1>t, MovedIsTyped DEF Stage
    <2>3. history' \in History BY <1>12, <1>r, <2>2 DEF WriteRecovered
    <2>4. kiosk' \in Kiosk BY <1>12, <1>r DEF WriteRecovered, Kiosk, Stage
    <2>5. device' \in Device /\ device'.row = device.row /\ device'.rows = device.rows /\ ~device'.stuck
      BY <1>12, <1>t DEF WriteRecovered, TypeOK, Device
    <2>6. alert' \in {"none", "open", "answered"} /\ UNCHANGED collects
      BY <1>12, <1>t DEF WriteRecovered, TypeOK
    <2>7. QED BY <2>1, <2>3, <2>4, <2>5, <2>6, <1>t
              DEF ShopInv, TypeOK, JammedShopsAreClosed, ClosuresAreAnnounced
  <1>13. ASSUME NEW s \in Sessions, Rollback(s) PROVE ShopInv'
    <2>1. session' \in [Sessions -> SessionState] /\ RequestsAsk'
      BY <1>13, <1>t, EndsTyped DEF Rollback
    <2>2. QED BY <2>1, <1>13, <1>t, <1>c
              DEF Rollback, ShopInv, TypeOK, JammedShopsAreClosed, ClosuresAreAnnounced
  <1>14. QED BY <1>1, <1>2, <1>3, <1>4, <1>5, <1>6, <1>7, <1>8, <1>9, <1>10, <1>11, <1>12, <1>13
             DEF Next

LEMMA InvHolds == ASSUME ShopAssumption PROVE Spec => []ShopInv
  <1>1. Init => ShopInv BY InitTyped
  <1>2. ShopInv /\ [Next]_vars => ShopInv' BY StepInv
  <1>3. QED BY <1>1, <1>2, PTL DEF Spec

-----------------------------------------------------------------------------

\* Type correctness; its content is that a claim on a shop is always a device's that is
\* still registered (kiosks/commands.py, devices.py).
THEOREM ShopTypeOK == ASSUME ShopAssumption PROVE Spec => []TypeOK
  <1>1. ShopInv => TypeOK BY DEF ShopInv
  <1>2. QED BY <1>1, InvHolds, PTL

\* However reports, moves and revocations overlap, a shop whose printer is stuck is not
\* LIVE unless a person moved it after the report (commands.report_stuck), and has its
\* alert, open or answered, for as long as the claim stands (api/device/commands.py,
\* printer_health).
THEOREM ShopJamsCloseAndTell == ASSUME ShopAssumption PROVE Spec => []JamsCloseAndTell
  <1>1. ShopInv => JamsCloseAndTell BY DEF ShopInv, JamsCloseAndTell
  <1>2. QED BY <1>1, InvHolds, PTL

-----------------------------------------------------------------------------
(* What opens a shop, of requests served one at a time.                     *)

Sold == {"configured", "live", "maintenance", "suspended_billing"}

\* What a request read of the kiosk and of its device is still so when it writes.
Judged(st) ==
    /\ st.kind # "none" => st.seen = kiosk
    /\ st.kind = "stage" =>
          st.to \in TRANSITIONS[kiosk.stage] /\ st.checked = OwnerCollects(kiosk.type)
    /\ st.kind = "stuck" => kiosk.stage = "live"
    /\ st.kind = "recovered" =>
          /\ st.row # 0 /\ st.row <= device.rows /\ (device.row = st.row => device.stuck)
          /\ st.checked = OwnerCollects(kiosk.type)

\* A claim that stands was made when the machine closed the shop, or a person has
\* moved the shop since.
Earned ==
    /\ kiosk.stage \in Sold => history.configured
    /\ kiosk.stage = "live" /\ OwnerCollects(kiosk.type) => history.passed
    /\ device.stuck => history.closed = "machine" \/ history.touched
    /\ \A s \in Sessions : Judged(session[s])

Alone == ~raced => ~Together /\ Earned

\* What the step of this action may do to a shop on sale.
OpensItsOwn == Reopens => history.closed = "machine" \/ history.touched

LEMMA IdleIsJudged == Idle.kind = "none"
  BY DEF Idle

LEMMA NothingJudged == \A st : st.kind = "none" => Judged(st)
  BY DEF Judged

\* A step of the world around the requests that leaves the kiosk alone.
LEMMA AroundStep ==
  ASSUME Earned, UNCHANGED <<kiosk, history, session>>,
         device'.stuck => device.stuck,
         \A s \in Sessions : session[s].kind = "recovered" =>
             /\ session[s].row <= device'.rows
             /\ device'.row = session[s].row => device'.stuck
  PROVE  Earned' /\ OpensItsOwn
  <1>1. \A s \in Sessions : Judged(session[s])'
    BY DEF Earned, Judged
  <1>2. Earned'
    BY <1>1 DEF Earned
  <1>3. QED
    BY <1>2 DEF OpensItsOwn, Reopens

\* A request that begins by judging the kiosk as it is.
LEMMA BeginStep ==
  ASSUME TypeOK, Earned, NEW s \in Sessions, NEW new, Set(s, new), Judged(new),
         UNCHANGED <<kiosk, device, history>>
  PROVE  Earned' /\ OpensItsOwn
  <1>1. session \in [Sessions -> SessionState] /\ session' = [session EXCEPT ![s] = new]
    BY DEF TypeOK, Set
  <1>2. ASSUME NEW r \in Sessions
        PROVE  Judged(session[r])'
    <2>1. Judged(session'[r])
      <3>1. CASE r = s
        BY <1>1, <3>1
      <3>2. CASE r # s
        BY <1>1, <3>2 DEF Earned
      <3>3. QED
        BY <3>1, <3>2
    <2>2. QED
      BY <2>1 DEF Judged
  <1>3. Earned'
    BY <1>2 DEF Earned
  <1>4. QED
    BY <1>3 DEF OpensItsOwn, Reopens

\* A request that ends was the only one.
LEMMA LastOne ==
  ASSUME TypeOK, ~Together, NEW s \in Sessions, ~Serves(s, "none"), Set(s, Idle)
  PROVE  \A r \in Sessions : Judged(session[r])'
  <1>1. session \in [Sessions -> SessionState] /\ session' = [session EXCEPT ![s] = Idle]
    BY DEF TypeOK, Set
  <1>2. ASSUME NEW r \in Sessions
        PROVE  session'[r].kind = "none"
    <2>1. CASE r = s
      BY <1>1, <2>1, IdleIsJudged
    <2>2. CASE r # s
      BY <1>1, <2>2 DEF Together, Serves
    <2>3. QED
      BY <2>1, <2>2
  <1>3. QED
    BY <1>2 DEF Judged

LEMMA StageEarned ==
  ASSUME TypeOK, RequestsAsk, Earned, ~Together, NEW s \in Sessions, WriteStage(s)
  PROVE  Earned' /\ OpensItsOwn
  <1>1. /\ Serves(s, "stage") /\ kiosk' = [kiosk EXCEPT !.stage = session[s].to]
        /\ history' = MovedTo(s, session[s].to, "person")
        /\ Set(s, Idle) /\ UNCHANGED device
    BY DEF WriteStage
  <1>2. /\ kiosk \in Kiosk /\ kiosk.stage \in Stage /\ session \in [Sessions -> SessionState]
        /\ session[s].to \in Stage
    BY <1>1 DEF TypeOK, Kiosk, RequestsAsk, Serves
  <1>3. kiosk'.stage = session[s].to /\ kiosk'.type = kiosk.type
    BY <1>1, <1>2 DEF Kiosk
  <1>4. /\ session[s].to \in TRANSITIONS[kiosk.stage]
        /\ session[s].checked = OwnerCollects(kiosk.type)
    BY <1>1 DEF Earned, Judged, Serves
  <1>5. session[s].to \in Sold => session[s].to = "configured" \/ kiosk.stage \in Sold
    BY <1>2, <1>4 DEF TRANSITIONS, Sold, Stage
  <1>6. /\ history'.configured = (\/ session[s].to = "configured"
                                  \/ history.configured /\ session[s].to \notin {"registered", "approved"})
        /\ session[s].to = "live" => history'.passed = session[s].checked
        /\ history'.touched
    BY <1>1 DEF MovedTo
  <1>7. \A r \in Sessions : Judged(session[r])'
    BY <1>1, LastOne DEF Serves
  <1>8. Earned'
    BY <1>1, <1>3, <1>4, <1>5, <1>6, <1>7 DEF Earned, Sold, OwnerCollects
  <1>9. ~Reopens
    <2>1. \A r \in Sessions : r # s => session'[r] = session[r]
      BY <1>1, <1>2 DEF Set
    <2>2. QED
      BY <1>1, <2>1 DEF Reopens, Serves
  <1>10. QED
    BY <1>8, <1>9 DEF OpensItsOwn

LEMMA TypeEarned ==
  ASSUME TypeOK, Earned, ~Together, NEW s \in Sessions, WriteType(s)
  PROVE  Earned' /\ OpensItsOwn
  <1> DEFINE drops == DropsBack(s)
  <1>1. /\ Serves(s, "type")
        /\ kiosk' = [type |-> session[s].to, stage |-> IF drops THEN "approved" ELSE kiosk.stage]
        /\ history' = [(IF drops THEN MovedTo(s, "approved", "person") ELSE history)
                          EXCEPT !.passed = FALSE, !.touched = TRUE]
        /\ Set(s, Idle) /\ UNCHANGED device
    BY DEF WriteType
  <1>2. /\ kiosk'.type = session[s].to
        /\ kiosk'.stage = IF drops THEN "approved" ELSE kiosk.stage
        /\ session[s].seen = kiosk
    BY <1>1 DEF Earned, Judged, Serves
  <1>3. drops <=> OwnerCollects(session[s].to) /\ kiosk.stage \in {"live", "maintenance", "configured"}
    BY <1>2 DEF DropsBack
  <1> HIDE DEF drops
  <1>4. history \in History
    BY DEF TypeOK
  <1>5. /\ history'.touched
        /\ ~drops => history'.configured = history.configured
    BY <1>1, <1>4 DEF History, MovedTo
  <1>6. \A r \in Sessions : Judged(session[r])'
    BY <1>1, LastOne DEF Serves
  <1>7. kiosk'.stage \in Sold => history'.configured
    BY <1>2, <1>5 DEF Sold, Earned
  <1>8. kiosk'.stage = "live" => ~OwnerCollects(session[s].to)
    BY <1>2, <1>3
  <1>9. (OwnerCollects(kiosk.type))' <=> OwnerCollects(session[s].to)
    BY <1>2 DEF OwnerCollects
  <1>10. Earned'
    BY <1>5, <1>6, <1>7, <1>8, <1>9 DEF Earned
  <1>11. kiosk'.stage = "live" => kiosk.stage = "live"
    BY <1>2
  <1>12. QED
    BY <1>10, <1>11 DEF OpensItsOwn, Reopens

LEMMA StuckEarned ==
  ASSUME TypeOK, Earned, ~Together, NEW s \in Sessions, WriteStuck(s)
  PROVE  Earned' /\ OpensItsOwn
  <1>1. /\ Serves(s, "stuck") /\ kiosk' = [kiosk EXCEPT !.stage = "maintenance"]
        /\ history' = MovedTo(s, "maintenance", "machine") /\ Set(s, Idle)
    BY DEF WriteStuck
  <1>2. kiosk.stage = "live" /\ kiosk \in Kiosk
    BY <1>1 DEF Earned, Judged, Serves, TypeOK
  <1>3. kiosk'.stage = "maintenance"
    BY <1>1, <1>2 DEF Kiosk
  <1>4. history.configured
    BY <1>2 DEF Earned, Sold
  <1>5. history'.configured /\ history'.closed = "machine"
    BY <1>1, <1>2, <1>4 DEF MovedTo
  <1>6. \A r \in Sessions : Judged(session[r])'
    BY <1>1, LastOne DEF Serves
  <1>7. Earned'
    BY <1>3, <1>5, <1>6 DEF Earned
  <1>8. QED
    BY <1>3, <1>7 DEF OpensItsOwn, Reopens

LEMMA RecoveredEarned ==
  ASSUME TypeOK, Earned, ~Together, NEW s \in Sessions, WriteRecovered(s)
  PROVE  Earned' /\ OpensItsOwn
  <1>1. /\ Serves(s, "recovered") /\ device.row = session[s].row
        /\ device' = [device EXCEPT !.stuck = FALSE] /\ Set(s, Idle)
    BY DEF WriteRecovered
  <1>2. /\ device.stuck /\ session[s].seen = kiosk
        /\ session[s].checked = OwnerCollects(kiosk.type)
    BY <1>1 DEF Earned, Judged, Serves
  <1>3. ~device'.stuck
    BY <1>1 DEF TypeOK, Device
  <1>4. \A r \in Sessions : Judged(session[r])'
    BY <1>1, LastOne DEF Serves
  <1>5. OpensItsOwn
    BY <1>2 DEF OpensItsOwn, Earned
  <1>6. CASE kiosk.stage = "maintenance"
    <2>1. kiosk' = [kiosk EXCEPT !.stage = "live"] /\ history' = MovedTo(s, "live", "machine")
      BY <1>2, <1>6 DEF WriteRecovered
    <2>2. kiosk'.stage = "live" /\ kiosk'.type = kiosk.type
      BY <2>1 DEF TypeOK, Kiosk
    <2>3. history.configured
      BY <1>6 DEF Earned, Sold
    <2>4. history'.configured /\ history'.passed = session[s].checked
      BY <2>1, <2>3 DEF MovedTo
    <2>5. Earned'
      BY <1>2, <1>3, <1>4, <2>2, <2>4 DEF Earned, OwnerCollects
    <2>6. QED
      BY <1>5, <2>5
  <1>7. CASE kiosk.stage # "maintenance"
    <2>1. UNCHANGED <<kiosk, history>>
      BY <1>2, <1>7 DEF WriteRecovered
    <2>2. Earned'
      BY <1>3, <1>4, <2>1 DEF Earned
    <2>3. QED
      BY <1>5, <2>2
  <1>8. QED
    BY <1>6, <1>7

LEMMA EarnedStep ==
  ASSUME ShopAssumption, ShopInv, Earned, ~Together, Next
  PROVE  Earned' /\ OpensItsOwn
  <1>t. TypeOK /\ RequestsAsk
    BY DEF ShopInv
  <1>d. /\ device \in Device /\ device.row \in 0..MaxRows /\ device.rows \in 0..MaxRows
        /\ device.row \in {0, device.rows} /\ (device.stuck => device.row # 0)
        /\ \A s \in Sessions : session[s].row \in 0..MaxRows
    BY <1>t DEF TypeOK, Device, SessionState, ShopAssumption
  <1>1. CASE MoveGate \/ ResolveAlert
    <2>1. UNCHANGED <<kiosk, device, history, session>>
      BY <1>1 DEF MoveGate, ResolveAlert
    <2>2. QED
      BY <2>1, AroundStep DEF Earned, Judged
  <1>2. CASE RegisterDevice
    <2>1. /\ device' = [row |-> device.rows + 1, rows |-> device.rows + 1, stuck |-> FALSE]
          /\ UNCHANGED <<kiosk, history, session>>
      BY <1>2 DEF RegisterDevice
    <2>2. ASSUME NEW s \in Sessions, session[s].kind = "recovered"
          PROVE  session[s].row <= device'.rows /\ device'.row # session[s].row
      <3>1. session[s].row <= device.rows
        BY <2>2 DEF Earned, Judged
      <3>2. device'.rows = device.rows + 1 /\ device'.row = device.rows + 1
        BY <2>1
      <3>3. QED
        BY <1>d, <3>1, <3>2, ShopAssumption
    <2>3. QED
      BY <2>1, <2>2, AroundStep
  <1>3. CASE RevokeDevice
    <2>1. /\ device' = [row |-> 0, rows |-> device.rows, stuck |-> FALSE]
          /\ UNCHANGED <<kiosk, history, session>>
      BY <1>3 DEF RevokeDevice
    <2>2. \A s \in Sessions : session[s].kind = "recovered" =>
              session[s].row <= device'.rows /\ device'.row # session[s].row
      BY <2>1 DEF Earned, Judged
    <2>3. QED
      BY <2>1, <2>2, AroundStep
  <1>4. ASSUME NEW s \in Sessions, NEW stage \in Stage, MoveTo(s, stage)
        PROVE  Earned' /\ OpensItsOwn
    <2> DEFINE new == Request("stage", stage, 0, OwnerCollects(kiosk.type))
    <2>1. Judged(new)
      BY <1>4 DEF MoveTo, Allowed, Request, Judged
    <2>2. Set(s, new) /\ UNCHANGED <<kiosk, device, history>>
      BY <1>4 DEF MoveTo
    <2> HIDE DEF new
    <2>3. QED
      BY <1>t, <2>1, <2>2, BeginStep
  <1>5. ASSUME NEW s \in Sessions, NEW type \in Type, ChangeType(s, type)
        PROVE  Earned' /\ OpensItsOwn
    <2> DEFINE new == Request("type", type, 0, FALSE)
    <2>1. Judged(new)
      BY DEF Request, Judged
    <2>2. Set(s, new) /\ UNCHANGED <<kiosk, device, history>>
      BY <1>5 DEF ChangeType
    <2> HIDE DEF new
    <2>3. QED
      BY <1>t, <2>1, <2>2, BeginStep
  <1>6. ASSUME NEW s \in Sessions, ReportStuck(s)
        PROVE  Earned' /\ OpensItsOwn
    <2> DEFINE new == Request("stuck", "maintenance", device.row, FALSE)
    <2>1. Judged(new)
      BY <1>6 DEF ReportStuck, MayClose, Request, Judged
    <2>2. Set(s, new) /\ UNCHANGED <<kiosk, device, history>>
      BY <1>6 DEF ReportStuck
    <2> HIDE DEF new
    <2>3. QED
      BY <1>t, <2>1, <2>2, BeginStep
  <1>7. ASSUME NEW s \in Sessions, ReportRecovered(s)
        PROVE  Earned' /\ OpensItsOwn
    <2> DEFINE new == Request("recovered", "live", device.row, OwnerCollects(kiosk.type))
    <2>1. device.stuck /\ device.row # 0 /\ device.row <= device.rows
      BY <1>7, <1>d, ShopAssumption DEF ReportRecovered, Authenticated
    <2>2. Judged(new)
      BY <2>1 DEF Request, Judged
    <2>3. Set(s, new) /\ UNCHANGED <<kiosk, device, history>>
      BY <1>7 DEF ReportRecovered
    <2> HIDE DEF new
    <2>4. QED
      BY <1>t, <2>2, <2>3, BeginStep
  <1>8. ASSUME NEW s \in Sessions, Rollback(s)
        PROVE  Earned' /\ OpensItsOwn
    <2>1. Judged(Idle)
      BY IdleIsJudged, NothingJudged
    <2>2. QED
      BY <1>8, <1>t, <2>1, BeginStep DEF Rollback
  <1>9. ASSUME NEW s \in Sessions,
               WriteStage(s) \/ WriteType(s) \/ WriteStuck(s) \/ WriteRecovered(s)
        PROVE  Earned' /\ OpensItsOwn
    BY <1>9, <1>t, StageEarned, TypeEarned, StuckEarned, RecoveredEarned
  <1>10. QED
    BY <1>1, <1>2, <1>3, <1>4, <1>5, <1>6, <1>7, <1>8, <1>9 DEF Next

LEMMA InitEarned == MCInit => Alone
  <1> SUFFICES ASSUME MCInit PROVE ~Together /\ Earned
    BY DEF Alone
  <1>1. \A s \in Sessions : session[s].kind = "none"
    BY IdleIsJudged DEF MCInit, Init
  <1>2. ~Together
    BY <1>1 DEF Together, Serves
  <1>3. kiosk.stage = "registered" /\ ~device.stuck
    BY DEF MCInit, Init
  <1>4. QED
    BY <1>1, <1>2, <1>3, NothingJudged DEF Earned, Sold

\* Until two requests overlap, no move of a person or a machine puts a shop on sale
\* that has not earned it, and a machine reopens no shop but one it closed, or one a
\* person took over from it (onboarding.move_to, registry.change_type,
\* commands.report_recovered).
THEOREM ShopOpeningsAreEarned ==
  ASSUME ShopAssumption PROVE MCSpec => OpeningsAreEarnedUnlessRaced
  <1> DEFINE Inv == ShopInv /\ Alone
  <1>1. MCInit => Inv
    BY InitTyped, InitEarned DEF MCInit
  <1>2. Inv /\ [MCNext]_<<vars, raced>> =>
            Inv' /\ (~(UNCHANGED <<vars, raced>>) => (~raced' => OpensItsOwn))
    <2> SUFFICES ASSUME Inv, [MCNext]_<<vars, raced>>
                 PROVE  Inv' /\ (~(UNCHANGED <<vars, raced>>) => (~raced' => OpensItsOwn))
      OBVIOUS
    <2>1. [Next]_vars
      BY DEF MCNext
    <2>2. ShopInv'
      BY <2>1, StepInv
    <2>3. CASE MCNext
      <3>1. ASSUME ~raced' PROVE ~Together' /\ Earned' /\ OpensItsOwn
        <4>1. ~raced /\ ~Together' /\ Next
          BY <2>3, <3>1 DEF MCNext
        <4>2. ~Together /\ Earned
          BY <4>1 DEF Alone
        <4>3. QED
          BY <4>1, <4>2, EarnedStep
      <3>2. QED
        BY <2>2, <3>1 DEF Alone
    <2>4. CASE UNCHANGED <<vars, raced>>
      BY <2>2, <2>4 DEF Alone, Together, Serves, Earned, Judged, vars
    <2>5. QED
      BY <2>3, <2>4
  <1>3. Inv => SellingIsEarnedUnlessRaced
    BY DEF Alone, Earned, Sold, SellingIsEarnedUnlessRaced, SellingIsEarned
  <1>4. (~(UNCHANGED <<vars, raced>>) => (~raced' => OpensItsOwn))
        => [~raced' /\ Reopens => history.closed = "machine" \/ history.touched]_<<vars, raced>>
    BY DEF OpensItsOwn
  <1> HIDE DEF Inv
  <1>5. MCSpec => []Inv
    BY <1>1, <1>2, PTL DEF MCSpec
  <1>6. QED
    BY <1>1, <1>2, <1>3, <1>4, PTL
    DEF MCSpec, OpeningsAreEarnedUnlessRaced, ReopensItsOwnUnlessRaced
=============================================================================
