------------------------------- MODULE Links -------------------------------
(***************************************************************************)
(* What is sent to somebody to be used once: the links that verify an       *)
(* address or reset a password (identity/tokens.py), the code that enrols a *)
(* machine (kiosks/devices.py) and the invitation to work at a shop         *)
(* (kiosks/staffing.py).  One account, one kiosk, one address and role.     *)
(*                                                                         *)
(* Issuing closes what is open by an UPDATE of the rows it finds; using one *)
(* reads its row, and writes it without looking again.                     *)
(***************************************************************************)
EXTENDS Integers, Sequences, Transactions

CONSTANT MaxLinks \* bound: rows

Kind == {"token", "code", "invite"}
Link == [kind : Kind, state : {"open", "closed", "used"}, lapsed : BOOLEAN]

VARIABLES links,   \* the rows, by id
          barred,  \* kinds refused: the account is inactive, the kiosk RETIRED
          holder,  \* the code behind the token of the kiosk's device, 0 for no device
          staff,   \* whether the person is assigned to the kiosk
          uses,    \* uses[i]: how often link i was accepted
          left     \* how many links there were when the person was last taken off

linkVars == <<links, barred, holder, staff, uses, left, session>>

OpenLinks(kind) == {i \in DOMAIN links : links[i].kind = kind /\ links[i].state = "open"}

LinksInit ==
    /\ links = <<>> /\ barred = {}
    /\ holder = 0 /\ staff = FALSE
    /\ uses = <<>> /\ left = 0
    /\ NobodyServed

\* What the UPDATE of tokens.issue, issue_enrolment_code and invite_staff finds; who
\* works here already is not invited.
Issue(s, kind) ==
    /\ kind = "invite" => ~staff
    /\ Start(s, [on |-> "issue", kind |-> kind, found |-> OpenLinks(kind)])
    /\ UNCHANGED <<links, barred, holder, staff, uses, left>>

\* Of those found, the ones still open are closed; one is added.
WriteLink(s) ==
    /\ Serving(s, "issue") /\ Len(links) < MaxLinks
    /\ links' = Append([i \in DOMAIN links |->
                           IF i \in session[s].found /\ links[i].state = "open"
                           THEN [links[i] EXCEPT !.state = "closed"] ELSE links[i]],
                       [kind |-> session[s].kind, state |-> "open", lapsed |-> FALSE])
    /\ uses' = Append(uses, 0)
    /\ Finish(s)
    /\ UNCHANGED <<barred, holder, staff, left>>

\* Mutant: a link counts until its time is over.
RedeemUntilLapsed(s, i) ==
    /\ ~links[i].lapsed /\ links[i].kind \notin barred
    /\ Start(s, [on |-> "redeem", link |-> i])
    /\ UNCHANGED <<links, barred, holder, staff, uses, left>>

\* redeem, register_device and accept_invite: open and not over.
Redeem(s, i) ==
    /\ links[i].state = "open" /\ ~links[i].lapsed
    /\ links[i].kind \notin barred
    /\ Start(s, [on |-> "redeem", link |-> i])
    /\ UNCHANGED <<links, barred, holder, staff, uses, left>>

Accepted(i) == [links EXCEPT ![i].state = "used"]

\* A machine that enrols takes the device row over, and the token it had dies.
Spend(s) ==
    LET i == session[s].link
    IN  /\ Serving(s, "redeem")
        /\ links' = Accepted(i)
        /\ uses' = [uses EXCEPT ![i] = @ + 1]
        /\ holder' = IF links[i].kind = "code" THEN i ELSE holder
        /\ staff' = (staff \/ links[i].kind = "invite")
        /\ Finish(s)
        /\ UNCHANGED <<barred, left>>

RevokeDeviceRow ==
    /\ holder # 0
    /\ holder' = 0
    /\ UNCHANGED <<links, barred, staff, uses, left, session>>

Unassign ==
    /\ staff
    /\ staff' = FALSE /\ left' = Len(links)
    /\ UNCHANGED <<links, barred, holder, uses, session>>

\* An account is deactivated and activated; a kiosk is retired for good.
Bar(kind) ==
    /\ kind \in {"token", "code"}
    /\ barred' = IF kind \notin barred THEN barred \cup {kind} ELSE barred \ {kind}
    /\ kind = "code" => kind \notin barred
    /\ UNCHANGED <<links, holder, staff, uses, left, session>>

Expire(i) ==
    /\ links[i].state = "open" /\ ~links[i].lapsed
    /\ links' = [links EXCEPT ![i].lapsed = TRUE]
    /\ UNCHANGED <<barred, holder, staff, uses, left, session>>

LinkFails(s) == GiveUp(s) /\ UNCHANGED <<links, barred, holder, staff, uses, left>>

LinksNext ==
    \/ RevokeDeviceRow \/ Unassign
    \/ \E kind \in Kind : Bar(kind)
    \/ \E i \in DOMAIN links : Expire(i)
    \/ \E s \in Sessions :
          \/ \E kind \in Kind : Issue(s, kind)
          \/ \E i \in DOMAIN links : Redeem(s, i)
          \/ WriteLink(s) \/ Spend(s) \/ LinkFails(s)

LinksSpec == LinksInit /\ [][LinksNext]_linkVars

-----------------------------------------------------------------------------
(* Properties                                                              *)

LinksTypeOK ==
    /\ links \in Seq(Link) /\ Len(uses) = Len(links)
    /\ barred \subseteq Kind
    /\ holder \in 0..Len(links) /\ staff \in BOOLEAN /\ left \in 0..Len(links)

\* A link, a code and an invitation work once (tokens.py, "single-use, so a link
\* forwarded or left in a mailbox stops working").
LinksWorkOnce == \A i \in DOMAIN uses : uses[i] <= 1

\* Only the newest of a kind is open: "pressing resend three times does not leave three
\* live links", "two live codes for one kiosk means two machines could enrol".
OneLiveLink == \A kind \in Kind : \A i, j \in OpenLinks(kind) : i = j

\* Whoever works here accepted an invitation sent after they were last taken off
\* (staffing.unassign).
StaffWereInvitedSince ==
    staff => \E i \in DOMAIN links : links[i].kind = "invite" /\ uses[i] > 0 /\ i > left

\* The machine that has the kiosk is the one installed last: no code issued before its
\* own was used is ever accepted after it.
NewestMachineHolds ==
    \A i \in DOMAIN links : links[i].kind = "code" /\ uses[i] > 0 /\ holder # 0 => i <= holder
=============================================================================
