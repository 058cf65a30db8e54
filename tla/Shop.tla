-------------------------------- MODULE Shop --------------------------------
(***************************************************************************)
(* Whether one shop sells: the onboarding stages of its kiosk, the moves    *)
(* people make (app/modules/kiosks/onboarding.py, registry.py) and the      *)
(* moves its machine makes when the printer jams and when it prints again   *)
(* (kiosks/commands.py, api/device/commands.py), with the alert they raise. *)
(*                                                                         *)
(* A request loads the kiosk and its device, judges by them, and writes     *)
(* the columns it changed when it commits; nothing is locked in between.    *)
(***************************************************************************)
EXTENDS Integers

CONSTANTS Sessions, \* requests that can be in flight together
          MaxRows   \* bound: device rows ever created

ASSUME ShopAssumption == MaxRows \in Nat

VARIABLES kiosk,    \* its type and onboarding_stage
          device,   \* the row of its machine (0: none), and stuck_since
          alert,    \* the alert of a stuck printer; answered: an operator closed it
          collects, \* whether the owner has a subscription and usable keys
          history,  \* for the properties: see History
          session   \* session[s]: the request s serves, and what it loaded

vars == <<kiosk, device, alert, collects, history, session>>

Type == {"platform", "sold", "saas"}
Stage == {"registered", "approved", "configured", "live", "maintenance",
          "suspended_billing", "retired"}
Kiosk == [type : Type, stage : Stage]
Device == [row : 0..MaxRows, rows : 0..MaxRows, stuck : BOOLEAN]

\* passed: the gate said yes to this type.  configured: CONFIGURED was reached since
\* the shop was last approved.  closed: who put it into MAINTENANCE.  touched: a
\* person moved it since its machine closed it.
History == [passed : BOOLEAN, configured : BOOLEAN, closed : {"nobody", "person", "machine"},
            touched : BOOLEAN]

Kind == {"none", "stage", "type", "stuck", "recovered"}
SessionState == [kind : Kind, seen : Kiosk, to : Type \cup Stage, row : 0..MaxRows,
                 checked : BOOLEAN]

OwnerCollects(type) == type # "platform"

TRANSITIONS ==
    [registered |-> {"approved", "retired"},
     approved |-> {"configured", "registered", "retired"},
     configured |-> {"live", "approved", "retired"},
     live |-> {"maintenance", "suspended_billing", "retired"},
     maintenance |-> {"live", "suspended_billing", "retired"},
     suspended_billing |-> {"live", "maintenance", "retired"},
     retired |-> {}]

-----------------------------------------------------------------------------

Request(kind, to, row, checked) ==
    [kind |-> kind, seen |-> kiosk, to |-> to, row |-> row, checked |-> checked]

Idle == [kind |-> "none", seen |-> [type |-> "platform", stage |-> "registered"],
         to |-> "registered", row |-> 0, checked |-> FALSE]

Serves(s, kind) == session[s].kind = kind
Set(s, new) == session' = [session EXCEPT ![s] = new]

\* A stage as it is written, by whom.
MovedTo(s, stage, who) ==
    [passed |-> IF stage = "live" THEN session[s].checked ELSE history.passed,
     configured |-> \/ stage = "configured"
                    \/ history.configured /\ stage \notin {"registered", "approved"},
     closed |-> IF stage # "maintenance" THEN "nobody"
                ELSE IF kiosk.stage = "maintenance" THEN history.closed ELSE who,
     touched |-> who = "person"]

Init ==
    /\ kiosk \in [type : Type, stage : {"registered"}]
    /\ device = [row |-> 0, rows |-> 0, stuck |-> FALSE]
    /\ alert = "none"
    /\ collects \in BOOLEAN
    /\ history = [passed |-> FALSE, configured |-> FALSE, closed |-> "nobody", touched |-> FALSE]
    /\ session = [s \in Sessions |-> Idle]

-----------------------------------------------------------------------------
(* What a person does.                                                     *)

\* The subscription begins or lapses, the keys come or go.
MoveGate ==
    /\ collects' = ~collects
    /\ UNCHANGED <<kiosk, device, alert, history, session>>

\* move_to: a defined transition, and LIVE only when the owner can collect.
Allowed(stage) ==
    /\ stage \in TRANSITIONS[kiosk.stage]
    /\ stage = "live" /\ OwnerCollects(kiosk.type) => collects

\* set_stage, of an admin; set_status, of an owner, asks for two of the stages.
MoveTo(s, stage) ==
    /\ Serves(s, "none") /\ Allowed(stage)
    /\ Set(s, Request("stage", stage, 0, OwnerCollects(kiosk.type)))
    /\ UNCHANGED <<kiosk, device, alert, collects, history>>

WriteStage(s) ==
    /\ Serves(s, "stage")
    /\ kiosk' = [kiosk EXCEPT !.stage = session[s].to]
    /\ history' = MovedTo(s, session[s].to, "person")
    /\ Set(s, Idle)
    /\ UNCHANGED <<device, alert, collects>>

ChangeType(s, type) ==
    /\ Serves(s, "none") /\ type # kiosk.type
    /\ Set(s, Request("type", type, 0, FALSE))
    /\ UNCHANGED <<kiosk, device, alert, collects, history>>

\* Into an owner's account, a shop that was selling has to earn LIVE again.
DropsBack(s) ==
    OwnerCollects(session[s].to) /\ session[s].seen.stage \in {"live", "maintenance", "configured"}

WriteType(s) ==
    /\ Serves(s, "type")
    /\ kiosk' = [type |-> session[s].to,
                 stage |-> IF DropsBack(s) THEN "approved" ELSE kiosk.stage]
    /\ LET moved == IF DropsBack(s) THEN MovedTo(s, "approved", "person") ELSE history
       IN  history' = [moved EXCEPT !.passed = FALSE, !.touched = TRUE]
    /\ Set(s, Idle)
    /\ UNCHANGED <<device, alert, collects>>

\* alerts.resolve.
ResolveAlert ==
    /\ alert = "open"
    /\ alert' = "answered"
    /\ UNCHANGED <<kiosk, device, collects, history, session>>

\* register_device, of the first machine; another replaces it in the same row and
\* keeps stuck_since.
RegisterDevice ==
    /\ device.row = 0 /\ kiosk.stage # "retired" /\ device.rows < MaxRows
    /\ device' = [row |-> device.rows + 1, rows |-> device.rows + 1, stuck |-> FALSE]
    /\ UNCHANGED <<kiosk, alert, collects, history, session>>

\* revoke_device deletes the row, and what it said of the shop with it.
RevokeDevice ==
    /\ device.row # 0
    /\ device' = [row |-> 0, rows |-> device.rows, stuck |-> FALSE]
    /\ UNCHANGED <<kiosk, alert, collects, history, session>>

-----------------------------------------------------------------------------
(* What its machine does.                                                  *)

\* authenticate_device.
Authenticated == device.row # 0 /\ kiosk.stage # "retired"

\* Mutant: stuck_since is recorded before the stage is looked at.
MayCloseBeforeLooking == ~device.stuck /\ kiosk.stage \in {"live", "maintenance"}

\* report_stuck closes a shop that is LIVE, and no other.
MayClose == ~device.stuck /\ kiosk.stage = "live"

ReportStuck(s) ==
    /\ Serves(s, "none") /\ Authenticated /\ MayClose
    /\ Set(s, Request("stuck", "maintenance", device.row, FALSE))
    /\ UNCHANGED <<kiosk, device, alert, collects, history>>

\* The claim, the stage and the alert are one commit.  A row deleted meanwhile
\* cannot be written: see Rollback.
WriteStuck(s) ==
    /\ Serves(s, "stuck") /\ device.row = session[s].row
    /\ device' = [device EXCEPT !.stuck = TRUE]
    /\ kiosk' = [kiosk EXCEPT !.stage = "maintenance"]
    /\ alert' = "open"
    /\ history' = MovedTo(s, "maintenance", "machine")
    /\ Set(s, Idle)
    /\ UNCHANGED collects

\* report_recovered.  In MAINTENANCE the way back is move_to's, which refuses the
\* whole request while the owner cannot collect.
ReportRecovered(s) ==
    /\ Serves(s, "none") /\ Authenticated /\ device.stuck
    /\ kiosk.stage = "maintenance" => Allowed("live")
    /\ Set(s, Request("recovered", "live", device.row, OwnerCollects(kiosk.type)))
    /\ UNCHANGED <<kiosk, device, alert, collects, history>>

\* Mutant: the shop reopens and the claim on it stays.
WriteRecoveredClaiming(s) ==
    /\ Serves(s, "recovered") /\ device.row = session[s].row
    /\ IF session[s].seen.stage = "maintenance"
       THEN /\ kiosk' = [kiosk EXCEPT !.stage = "live"]
            /\ alert' = IF alert = "open" THEN "none" ELSE alert
            /\ history' = MovedTo(s, "live", "machine")
            /\ UNCHANGED device
       ELSE /\ device' = [device EXCEPT !.stuck = FALSE]
            /\ UNCHANGED <<kiosk, alert, history>>
    /\ Set(s, Idle)
    /\ UNCHANGED collects

\* The claim is released whatever the stage; the shop is reopened, and the alert
\* stood down, when it was in MAINTENANCE.
WriteRecovered(s) ==
    /\ Serves(s, "recovered") /\ device.row = session[s].row
    /\ device' = [device EXCEPT !.stuck = FALSE]
    /\ IF session[s].seen.stage = "maintenance"
       THEN /\ kiosk' = [kiosk EXCEPT !.stage = "live"]
            /\ alert' = IF alert = "open" THEN "none" ELSE alert
            /\ history' = MovedTo(s, "live", "machine")
       ELSE UNCHANGED <<kiosk, alert, history>>
    /\ Set(s, Idle)
    /\ UNCHANGED collects

\* The handler raised, or its worker died: nothing it wrote stays.
Rollback(s) ==
    /\ ~Serves(s, "none")
    /\ Set(s, Idle)
    /\ UNCHANGED <<kiosk, device, alert, collects, history>>

-----------------------------------------------------------------------------

Next ==
    \/ MoveGate \/ ResolveAlert \/ RegisterDevice \/ RevokeDevice
    \/ \E s \in Sessions :
          \/ \E stage \in Stage : MoveTo(s, stage)
          \/ \E type \in Type : ChangeType(s, type)
          \/ ReportStuck(s) \/ ReportRecovered(s)
          \/ WriteStage(s) \/ WriteType(s) \/ WriteStuck(s) \/ WriteRecovered(s)
          \/ Rollback(s)

Spec == Init /\ [][Next]_vars

-----------------------------------------------------------------------------
(* Properties                                                              *)

TypeOK ==
    /\ kiosk \in Kiosk
    /\ device \in Device /\ device.row \in {0, device.rows}
    /\ device.stuck => device.row # 0
    /\ alert \in {"none", "open", "answered"}
    /\ collects \in BOOLEAN
    /\ history \in History
    /\ session \in [Sessions -> SessionState]

\* A jammed shop does not sell (commands.report_stuck), whatever reports and moves
\* overlap, unless a person opened it again.
JammedShopsAreClosed == device.stuck /\ ~history.touched => kiosk.stage # "live"

\* A shop its machine closed is on an operator's list until the operator takes it
\* off or the machine prints again (printer_health).
ClosuresAreAnnounced == device.stuck => alert # "none"

\* The two together: what a jam does is done, however reports and moves overlap.
JamsCloseAndTell == JammedShopsAreClosed /\ ClosuresAreAnnounced

\* The step by which the machine reopens the shop.
Reopens == \E s \in Sessions :
    /\ Serves(s, "recovered") /\ ~Serves(s, "recovered")'
    /\ kiosk.stage # "live" /\ kiosk'.stage = "live"

\* A shop that sells went through CONFIGURED, and if its owner collects, the gate
\* said so since the kiosk got its type (enums.TRANSITIONS, registry.change_type).
SellingIsEarned ==
    kiosk.stage = "live" => history.configured /\ (OwnerCollects(kiosk.type) => history.passed)

\* "An owner who put their own shop into maintenance to change a cartridge must not
\* have it reopened by a queue clearing" (commands.py): not held, since the claim
\* outlives a person who opens the shop and closes it again.
PersonsClosuresStand == [][Reopens => history.closed = "machine"]_vars

\* "The alert is [...] stood down when the condition clears" (printer_health): not
\* held when a person opened the shop first.
AlertsStandDown == alert = "open" => device.stuck
=============================================================================
