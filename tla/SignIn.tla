------------------------------- MODULE SignIn -------------------------------
(***************************************************************************)
(* The sessions of one account (app/modules/identity/sessions.py) and the  *)
(* routes that start, renew and end them.  A session is a chain of refresh *)
(* tokens: each is exchanged for the next and goes on working for a        *)
(* minute, so that two tabs may exchange it together.  A new password and  *)
(* an admin who switches the account off end every session at once.        *)
(*                                                                         *)
(* A request is one transaction at READ COMMITTED: it judges by the rows   *)
(* it loaded and writes when it commits.  What ends every session writes   *)
(* first, and holds those rows until it commits.  A browser has one cookie *)
(* and any number of tabs.                                                 *)
(***************************************************************************)
EXTENDS Integers, Sequences, FiniteSets

CONSTANTS Browsers,     \* browsers of the account's owner
          Sessions,     \* requests that can be in flight together
          None,         \* no browser: an admin's request
          MaxTokens,    \* bound: refresh tokens ever issued
          MaxEvictions  \* bound: how often every session is ended

ASSUME SignInAssumption ==
    None \notin Browsers /\ MaxTokens \in Nat /\ MaxEvictions \in Nat

VARIABLES account, \* the user row; evictions counts how often every session was ended
          refresh, \* the refresh tokens, in the order issued
          browser, \* what each browser keeps
          session  \* session[s]: the request s serves, and what it has read

vars == <<account, refresh, browser, session>>

Account == [state : {"absent", "active", "off"}, evictions : 0..MaxEvictions]

\* A token revoked now works for a minute more; one revoked with no grace is dead.
\* For the properties: the evictions its request had seen, and whether it escaped
\* one that overlapped that request.
Token == [state : {"live", "grace", "dead", "lapsed"}, born : 0..MaxEvictions,
          escaped : BOOLEAN]

\* Cookie 0 is none.  lost: the last answer to this browser never arrived.
Browser == [cookie : 0..MaxTokens, lost : BOOLEAN]

PC == {"idle", "save", "evict", "commit", "answer"}
Kind == {"none", "register", "login", "refresh", "logout", "password", "deactivate"}

\* row is the token to exchange or, while every session is being ended, the last
\* token there was to end.  token is the cookie of the answer.
SessionState ==
    [pc : PC, kind : Kind, from : Browsers \cup {None}, born : 0..MaxEvictions,
     row : 0..MaxTokens, live : BOOLEAN, token : 0..MaxTokens]

Request(pc, kind, b, born, row, live, token) ==
    [pc |-> pc, kind |-> kind, from |-> b, born |-> born, row |-> row, live |-> live,
     token |-> token]
Idle == Request("idle", "none", None, 0, 0, FALSE, 0)

-----------------------------------------------------------------------------

At(s, pc) == session[s].pc = pc
Serves(s, kind) == session[s].kind = kind
Set(s, new) == session' = [session EXCEPT ![s] = new]
Begin(pc, kind, b) == Request(pc, kind, b, account.evictions, 0, FALSE, 0)
Answer(s, row, token) ==
    Set(s, Request("answer", session[s].kind, session[s].from, 0, row, FALSE, token))

\* The account and the tokens are written and not committed.
Holds(r) == At(r, "commit")
HoldsToken(r, i) == Holds(r) /\ i <= session[r].row
AccountFree == \A r \in Sessions : ~Holds(r)
TokenFree(i) == \A r \in Sessions : ~HoldsToken(r, i)

Room == Len(refresh) < MaxTokens
NewToken(s) == [state |-> "live", born |-> session[s].born,
                escaped |-> session[s].born # account.evictions]
\* An expired token stays refused, whatever is written about its revocation.
Revoked(row, state) == IF row.state = "lapsed" THEN row ELSE [row EXCEPT !.state = state]

Init ==
    /\ account \in [state : {"absent", "active"}, evictions : {0}]
    /\ refresh = <<>>
    /\ browser = [b \in Browsers |-> [cookie |-> 0, lost |-> FALSE]]
    /\ session = [s \in Sessions |-> Idle]

-----------------------------------------------------------------------------
(* Signing in.                                                             *)

\* register; sign_in_with_google, of somebody who has no account.
Register(s, b) ==
    /\ At(s, "idle") /\ account.state = "absent"
    /\ Set(s, Begin("save", "register", b))
    /\ UNCHANGED <<account, refresh, browser>>

\* authenticate; sign_in_with_google, of somebody who has one.
Login(s, b) ==
    /\ At(s, "idle") /\ account.state = "active"
    /\ Set(s, Begin("save", "login", b))
    /\ UNCHANGED <<account, refresh, browser>>

\* The unique index on the address decides between two who create the account.
SaveSignIn(s) ==
    /\ At(s, "save") /\ session[s].kind \in {"register", "login"}
    /\ IF Serves(s, "register") /\ account.state # "absent"
       THEN Set(s, Idle) /\ UNCHANGED <<account, refresh>>
       ELSE /\ Room
            /\ account' = [account EXCEPT !.state = IF @ = "absent" THEN "active" ELSE @]
            /\ refresh' = Append(refresh, NewToken(s))
            /\ Answer(s, 0, Len(refresh) + 1)
    /\ UNCHANGED browser

-----------------------------------------------------------------------------
(* The session behind a cookie.                                            *)

\* rotate_refresh, refused: the client drops its cookie and goes to the sign-in
\* page.  Ending the token's whole family is undone with the refused request.
RefreshRefused(b) ==
    /\ browser[b].cookie # 0
    /\ \/ refresh[browser[b].cookie].state \in {"dead", "lapsed"}
       \/ account.state = "off"
    /\ browser' = [browser EXCEPT ![b].cookie = 0]
    /\ UNCHANGED <<account, refresh, session>>

Refresh(s, b) ==
    /\ At(s, "idle") /\ account.state = "active" /\ browser[b].cookie # 0
    /\ LET c == browser[b].cookie
       IN  /\ refresh[c].state \in {"live", "grace"}
           /\ Set(s, Request("save", "refresh", b, account.evictions, c,
                             refresh[c].state = "live", 0))
    /\ UNCHANGED <<account, refresh, browser>>

\* Mutant: the exchanged token is revoked with no grace.
SaveRefreshNoGrace(s) ==
    /\ At(s, "save") /\ Serves(s, "refresh")
    /\ session[s].live => TokenFree(session[s].row)
    /\ Room
    /\ refresh' = Append([refresh EXCEPT ![session[s].row] = Revoked(@, "dead")], NewToken(s))
    /\ Answer(s, session[s].row, Len(refresh) + 1)
    /\ UNCHANGED <<account, browser>>

\* A token that was live when it was loaded is revoked now, whatever was written
\* about it since; one that was not keeps its time.  A new one joins it.
SaveRefresh(s) ==
    /\ At(s, "save") /\ Serves(s, "refresh")
    /\ session[s].live => TokenFree(session[s].row)
    /\ Room
    /\ LET row == refresh[session[s].row]
           rotated == IF session[s].live
                      THEN [Revoked(row, "grace") EXCEPT
                               !.escaped = @ \/ session[s].born # account.evictions]
                      ELSE row
       IN  refresh' = Append([refresh EXCEPT ![session[s].row] = rotated], NewToken(s))
    /\ Answer(s, session[s].row, Len(refresh) + 1)
    /\ UNCHANGED <<account, browser>>

\* revoke_refresh, with no grace; the answer takes the cookie away.
LogOut(s, b) ==
    /\ At(s, "idle") /\ browser[b].cookie # 0
    /\ TokenFree(browser[b].cookie)
    /\ refresh' = [refresh EXCEPT ![browser[b].cookie] = Revoked(@, "dead")]
    /\ Set(s, Request("answer", "logout", b, 0, 0, FALSE, 0))
    /\ UNCHANGED <<account, browser>>

-----------------------------------------------------------------------------
(* What ends every session.                                                *)

\* complete_reset, of somebody who can read the account's mail, and
\* change_password, of somebody who knows the password.
NewPassword(s, b) ==
    /\ At(s, "idle") /\ account.state = "active"
    /\ Set(s, Begin("evict", "password", b))
    /\ UNCHANGED <<account, refresh, browser>>

Deactivate(s) ==
    /\ At(s, "idle") /\ account.state # "absent"
    /\ Set(s, Begin("evict", "deactivate", None))
    /\ UNCHANGED <<account, refresh, browser>>

\* revoke_all writes the account and every token it finds, and holds them.
RevokeAll(s) ==
    /\ At(s, "evict") /\ AccountFree
    /\ Set(s, [session[s] EXCEPT !.pc = "commit", !.row = Len(refresh)])
    /\ UNCHANGED <<account, refresh, browser>>

\* Mutant: only the tokens of live sessions are ended, those in grace stay.
EvictedLiveOnly(s) ==
    [i \in DOMAIN refresh |->
        IF i <= session[s].row
        THEN IF refresh[i].state = "live" THEN Revoked(refresh[i], "dead") ELSE refresh[i]
        ELSE [refresh[i] EXCEPT !.escaped = TRUE]]

\* A token that was not there to be found escapes.
Evicted(s) ==
    [i \in DOMAIN refresh |->
        IF i <= session[s].row THEN [Revoked(refresh[i], "dead") EXCEPT !.escaped = FALSE]
        ELSE [refresh[i] EXCEPT !.escaped = TRUE]]

\* The commit.  A new password signs its own browser in again.
EndSessions(s) ==
    /\ At(s, "commit") /\ account.evictions < MaxEvictions
    /\ LET now == account.evictions + 1
       IN  IF Serves(s, "deactivate")
           THEN /\ account' = [state |-> "off", evictions |-> now]
                /\ refresh' = Evicted(s)
                /\ Set(s, Idle)
           ELSE /\ Room
                /\ account' = [account EXCEPT !.evictions = now]
                /\ refresh' = Append(Evicted(s),
                                     [state |-> "live", born |-> now, escaped |-> FALSE])
                /\ Answer(s, 0, Len(refresh) + 1)
    /\ UNCHANGED browser

\* set_active, back on: the sessions stay as they are.
Activate ==
    /\ account.state = "off" /\ AccountFree
    /\ account' = [account EXCEPT !.state = "active"]
    /\ UNCHANGED <<refresh, browser, session>>

-----------------------------------------------------------------------------
(* Answers, failures, time.                                                *)

\* The answer sets the browser's cookie, or is lost on its way.
Deliver(s) ==
    /\ At(s, "answer")
    /\ \/ browser' = [browser EXCEPT ![session[s].from] =
                         [cookie |-> session[s].token, lost |-> FALSE]]
       \/ browser' = [browser EXCEPT ![session[s].from].lost = TRUE]
    /\ Set(s, Idle)
    /\ UNCHANGED <<account, refresh>>

\* The handler raised, or its worker died: nothing it wrote stays.
Rollback(s) ==
    /\ session[s].pc \in {"save", "evict", "commit"}
    /\ Set(s, Idle)
    /\ UNCHANGED <<account, refresh, browser>>

\* A minute passes, which is longer than an answer takes.
GraceEnds(i) ==
    /\ refresh[i].state = "grace"
    /\ \A s \in Sessions : At(s, "answer") => session[s].row # i
    /\ refresh' = [refresh EXCEPT ![i].state = "dead"]
    /\ UNCHANGED <<account, browser, session>>

\* Thirty days pass.
Lapse(i) ==
    /\ refresh[i].state \in {"live", "grace"}
    /\ refresh' = [refresh EXCEPT ![i].state = "lapsed"]
    /\ UNCHANGED <<account, browser, session>>

-----------------------------------------------------------------------------

Ask(s) ==
    \/ \E b \in Browsers :
          Register(s, b) \/ Login(s, b) \/ Refresh(s, b) \/ LogOut(s, b) \/ NewPassword(s, b)
    \/ Deactivate(s)

Serve(s) == SaveSignIn(s) \/ SaveRefresh(s) \/ RevokeAll(s) \/ EndSessions(s) \/ Deliver(s)

Next ==
    \/ \E s \in Sessions : Ask(s) \/ Serve(s) \/ Rollback(s)
    \/ \E b \in Browsers : RefreshRefused(b)
    \/ Activate
    \/ \E i \in DOMAIN refresh : GraceEnds(i) \/ Lapse(i)

Spec == Init /\ [][Next]_vars

-----------------------------------------------------------------------------
(* Properties                                                              *)

\* A cookie, and every token a request speaks of, is a token that was issued.
TypeOK ==
    /\ account \in Account
    /\ refresh \in Seq(Token) /\ Len(refresh) <= MaxTokens
    /\ browser \in [Browsers -> Browser]
    /\ \A b \in Browsers : browser[b].cookie <= Len(refresh)
    /\ session \in [Sessions -> SessionState]
    /\ \A s \in Sessions :
          session[s].row <= Len(refresh) /\ session[s].token <= Len(refresh)

\* sessions.revoke_all ends every session there is: a token that still works was
\* issued after the last new password or deactivation, or by a request that was in
\* flight with it.  Letting the account back in restores none.
EvictedSessionsStayOut ==
    \A i \in DOMAIN refresh :
        refresh[i].state \in {"live", "grace"} /\ ~refresh[i].escaped
            => refresh[i].born = account.evictions

\* The grace window of sessions.rotate_refresh: two tabs that exchange one token
\* together both stay signed in.  A browser is sent to the sign-in page only when
\* it signed out, when its session lapsed or was ended with all the others, when
\* its account is off, or when an answer never reached it.
NobodyIsSignedOutByChance ==
    [][\A b \in Browsers :
          LET c == browser[b].cookie
          IN  c # 0 /\ browser'[b].cookie = 0 =>
                 \/ \E s \in Sessions : session[s].from = b /\ Serves(s, "logout")
                 \/ browser[b].lost \/ account.state = "off"
                 \/ refresh[c].state = "lapsed" \/ refresh[c].born < account.evictions]_vars

\* auth.reset_password: "the pair issued here is the only one alive afterwards".
\* Not held: an exchange loaded before the reset commits after it.
EvictionEndsEverySession == \A i \in DOMAIN refresh : ~refresh[i].escaped
=============================================================================
