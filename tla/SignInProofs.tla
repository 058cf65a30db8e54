---------------------------- MODULE SignInProofs ----------------------------
(***************************************************************************)
(* Proofs about SignIn for every number of browsers and requests and any   *)
(* bound on tokens.                                                        *)
(*                                                                         *)
(* EvictedSessionsStayOut is not inductive: an exchange that was loaded    *)
(* before an eviction may bring its token back.  What holds it together is *)
(* that a request knows how many evictions it had seen (RequestsKnow), and *)
(* while none came between, the token it loaded is one that may live.      *)
(*                                                                         *)
(* That nobody is signed out by chance needs more: every token belongs to  *)
(* one browser, a token on its way to its browser is nobody else's and     *)
(* works, and a cookie that stopped working has an excuse (ChanceInv).     *)
(***************************************************************************)
EXTENDS SignIn, TLAPS

Working(row) == row.state \in {"live", "grace"}

\* A token that may be exchanged, or that nothing brings back.
Kept(row, now) == row.state = "lapsed" \/ row.escaped \/ row.born = now

TokensKept(rows, now) == \A i \in 1..Len(rows) : Working(rows[i]) => Kept(rows[i], now)

\* What the request st has seen, against the tokens and the evictions there are.
Knows(st, rows, now) ==
    /\ st.born <= now /\ st.row <= Len(rows) /\ st.token <= Len(rows)
    /\ st.pc = "save" /\ st.kind = "refresh" =>
          /\ st.row \in 1..Len(rows)
          /\ st.live /\ st.born = now => Kept(rows[st.row], now)

RequestsKnow == \A s \in Sessions : Knows(session[s], refresh, account.evictions)

SignInInv == TypeOK /\ TokensKept(refresh, account.evictions) /\ RequestsKnow

-----------------------------------------------------------------------------

LEMMA IdleKnows ==
  ASSUME NEW rows \in Seq(Token), NEW now \in 0..MaxEvictions
  PROVE  Idle \in SessionState /\ Knows(Idle, rows, now)
  <1>1. 0 \in 0..MaxTokens /\ 0 \in 0..MaxEvictions /\ "idle" \in PC /\ "none" \in Kind
    BY SignInAssumption DEF PC, Kind
  <1>2. /\ Idle \in SessionState /\ Idle.pc = "idle"
        /\ Idle.born = 0 /\ Idle.row = 0 /\ Idle.token = 0
    BY <1>1 DEF Idle, Request, SessionState
  <1>3. QED
    BY <1>2 DEF Knows

LEMMA AppendToken ==
  ASSUME NEW rows \in Seq(Token), NEW row \in Token
  PROVE  /\ Append(rows, row) \in Seq(Token)
         /\ Len(Append(rows, row)) = Len(rows) + 1
         /\ \A i \in 1..Len(rows) : Append(rows, row)[i] = rows[i]
         /\ Append(rows, row)[Len(rows) + 1] = row
  OBVIOUS

LEMMA WriteToken ==
  ASSUME NEW rows \in Seq(Token), NEW i \in 1..Len(rows), NEW row \in Token
  PROVE  /\ [rows EXCEPT ![i] = row] \in Seq(Token)
         /\ Len([rows EXCEPT ![i] = row]) = Len(rows)
         /\ \A j \in 1..Len(rows) : [rows EXCEPT ![i] = row][j] = IF j = i THEN row ELSE rows[j]
  OBVIOUS

LEMMA RevokedToken ==
  ASSUME NEW row \in Token, NEW state \in {"grace", "dead"}
  PROVE  /\ Revoked(row, state) \in Token
         /\ Revoked(row, state).born = row.born /\ Revoked(row, state).escaped = row.escaped
         /\ Revoked(row, state).state = IF row.state = "lapsed" THEN "lapsed" ELSE state
  BY DEF Revoked, Token

LEMMA TypeFacts ==
  ASSUME TypeOK
  PROVE  /\ MaxTokens \in Nat /\ MaxEvictions \in Nat
         /\ account.state \in {"absent", "active", "off"} /\ account.evictions \in 0..MaxEvictions
         /\ refresh \in Seq(Token) /\ Len(refresh) \in 0..MaxTokens /\ DOMAIN refresh = 1..Len(refresh)
         /\ \A i \in 1..Len(refresh) : refresh[i] \in Token
         /\ \A s \in Sessions : /\ session[s] \in SessionState
                                /\ session[s].born \in 0..MaxEvictions
                                /\ session[s].row \in Nat /\ session[s].token \in Nat
         /\ \A b \in Browsers : browser[b].cookie \in 0..Len(refresh)
  <1>1. \A st \in SessionState : st.born \in 0..MaxEvictions /\ st.row \in 0..MaxTokens /\ st.token \in 0..MaxTokens
    BY DEF SessionState
  <1>2. \A b \in Browsers : browser[b] \in Browser /\ browser[b].cookie \in 0..MaxTokens
    BY DEF TypeOK, Browser
  <1>3. MaxTokens \in Nat /\ MaxEvictions \in Nat
    BY SignInAssumption
  <1>4. refresh \in Seq(Token) /\ Len(refresh) \in Nat /\ Len(refresh) <= MaxTokens
    BY DEF TypeOK
  <1>5. account \in Account
    BY DEF TypeOK
  <1>6. account.state \in {"absent", "active", "off"} /\ account.evictions \in 0..MaxEvictions
    BY <1>5 DEF Account
  <1>7. \A s \in Sessions : session[s] \in SessionState
    BY DEF TypeOK
  <1>8. \A b \in Browsers : browser[b].cookie <= Len(refresh)
    BY DEF TypeOK
  <1>9. QED
    BY <1>1, <1>2, <1>3, <1>4, <1>6, <1>7, <1>8

-----------------------------------------------------------------------------
(* The two shapes of a step: tokens change while the evictions do not, and *)
(* a request moves on.                                                     *)

\* Tokens written by a request that ends no session.
Extends(rows, new, now) ==
    /\ new \in Seq(Token) /\ Len(rows) <= Len(new) /\ Len(new) <= MaxTokens
    /\ \A i \in 1..Len(rows) : Kept(rows[i], now) => Kept(new[i], now)
    /\ TokensKept(new, now)

LEMMA KnowsMore ==
  ASSUME NEW rows \in Seq(Token), NEW new, NEW now \in 0..MaxEvictions,
         Extends(rows, new, now), NEW st \in SessionState, Knows(st, rows, now)
  PROVE  Knows(st, new, now)
  BY DEF Extends, Knows, SessionState

LEMMA RequestStep ==
  ASSUME SignInInv, NEW s \in Sessions, NEW st \in SessionState,
         session' = [session EXCEPT ![s] = st],
         account' \in Account, account'.evictions = account.evictions,
         Extends(refresh, refresh', account.evictions),
         Knows(st, refresh', account.evictions),
         browser' \in [Browsers -> Browser],
         \A b \in Browsers : browser'[b].cookie <= Len(refresh')
  PROVE  SignInInv'
  <1> DEFINE now == account.evictions
  <1>1. refresh \in Seq(Token) /\ now \in 0..MaxEvictions /\ \A r \in Sessions : session[r] \in SessionState
    BY TypeFacts DEF SignInInv
  <1>2. \A r \in Sessions : session'[r] = IF r = s THEN st ELSE session[r]
    BY DEF SignInInv, TypeOK
  <1>3. \A r \in Sessions : Knows(session[r], refresh', now)
    <2> TAKE r \in Sessions
    <2>1. Knows(session[r], refresh, now) /\ session[r] \in SessionState
      BY <1>1 DEF SignInInv, RequestsKnow
    <2> HIDE DEF now
    <2>2. QED
      BY <1>1, <2>1, KnowsMore DEF now
  <1>4. \A r \in Sessions : Knows(session'[r], refresh', account'.evictions)
    BY <1>2, <1>3
  <1>5. session' \in [Sessions -> SessionState]
    BY DEF SignInInv, TypeOK
  <1>6. TokensKept(refresh', account'.evictions) /\ refresh' \in Seq(Token) /\ Len(refresh') <= MaxTokens
    BY DEF Extends
  <1>7. \A r \in Sessions : session'[r].row <= Len(refresh') /\ session'[r].token <= Len(refresh')
    BY <1>4 DEF Knows
  <1>8. QED
    BY <1>4, <1>5, <1>6, <1>7 DEF SignInInv, TypeOK, RequestsKnow

LEMMA SameTokens ==
  ASSUME SignInInv, UNCHANGED refresh
  PROVE  Extends(refresh, refresh', account.evictions)
  BY TypeFacts DEF SignInInv, Extends, TokensKept

LEMMA BrowsersStay ==
  ASSUME TypeOK, UNCHANGED browser, NEW rows, Len(rows) \in Nat, Len(refresh) <= Len(rows)
  PROVE  browser' \in [Browsers -> Browser] /\ \A b \in Browsers : browser'[b].cookie <= Len(rows)
  <1>1. \A b \in Browsers : browser[b].cookie \in Nat /\ browser[b].cookie <= Len(refresh) /\ Len(refresh) \in Nat
    BY TypeFacts
  <1>2. QED
    BY <1>1 DEF TypeOK

LEMMA BeginType ==
  ASSUME TypeOK, NEW pc \in {"save", "evict"}, NEW kind \in Kind, NEW b \in Browsers \cup {None}
  PROVE  /\ Begin(pc, kind, b) \in SessionState
         /\ Begin(pc, kind, b).pc = pc /\ Begin(pc, kind, b).kind = kind
         /\ Begin(pc, kind, b).born = account.evictions
         /\ Begin(pc, kind, b).row = 0 /\ Begin(pc, kind, b).token = 0
  <1>1. account.evictions \in 0..MaxEvictions /\ 0 \in 0..MaxTokens /\ pc \in PC
    BY TypeFacts DEF PC
  <1>2. QED
    BY <1>1 DEF Begin, Request, SessionState

-----------------------------------------------------------------------------
(* Every step keeps the invariant.                                         *)

\* A request that has only loaded: not yet an exchange.
LEMMA BeginInv ==
  ASSUME SignInInv, NEW s \in Sessions, NEW pc \in {"save", "evict"}, NEW kind \in Kind \ {"refresh"},
         NEW b \in Browsers \cup {None}, Set(s, Begin(pc, kind, b)),
         UNCHANGED <<account, refresh, browser>>
  PROVE  SignInInv'
  <1>1. Extends(refresh, refresh', account.evictions)
    BY SameTokens
  <1>2. /\ Begin(pc, kind, b) \in SessionState
        /\ Knows(Begin(pc, kind, b), refresh', account.evictions)
    BY BeginType, TypeFacts DEF SignInInv, Knows
  <1>3. account' \in Account /\ account'.evictions = account.evictions
    BY DEF SignInInv, TypeOK
  <1>4. browser' \in [Browsers -> Browser] /\ \A x \in Browsers : browser'[x].cookie <= Len(refresh')
    BY DEF SignInInv, TypeOK
  <1>5. session' = [session EXCEPT ![s] = Begin(pc, kind, b)]
    BY DEF Set
  <1>6. QED
    BY <1>1, <1>2, <1>3, <1>4, <1>5, RequestStep

LEMMA RefreshInv ==
  ASSUME SignInInv, NEW s \in Sessions, NEW b \in Browsers, Refresh(s, b)
  PROVE  SignInInv'
  <1> DEFINE c == browser[b].cookie
             now == account.evictions
             st == Request("save", "refresh", b, now, c, refresh[c].state = "live", 0)
  <1>1. c \in 1..Len(refresh) /\ c \in 0..MaxTokens /\ Working(refresh[c])
    BY TypeFacts DEF SignInInv, Refresh, Working
  <1>2. Kept(refresh[c], now)
    BY <1>1 DEF SignInInv, TokensKept
  <1>3. /\ st \in SessionState /\ st.pc = "save" /\ st.kind = "refresh"
        /\ st.row = c /\ st.born = now /\ st.token = 0
    <2>1. /\ now \in 0..MaxEvictions /\ 0 \in 0..MaxTokens /\ "save" \in PC /\ "refresh" \in Kind
          /\ (refresh[c].state = "live") \in BOOLEAN
      BY TypeFacts DEF SignInInv, PC, Kind
    <2> HIDE DEF now, c
    <2>2. QED
      BY <1>1, <2>1 DEF Request, SessionState
  <1>4. Knows(st, refresh, now)
    <2>1. Len(refresh) \in Nat /\ now \in Nat /\ 1 <= c /\ c <= Len(refresh)
      BY <1>1, TypeFacts DEF SignInInv
    <2> HIDE DEF st, now, c
    <2>2. QED
      BY ONLY <1>1, <1>2, <1>3, <2>1 DEF Knows
  <1>5. Extends(refresh, refresh', now) /\ Knows(st, refresh', now)
    <2>1. refresh' = refresh
      BY DEF Refresh
    <2>2. QED
      BY <2>1, <1>4, SameTokens
  <1>6. account' \in Account /\ account'.evictions = now
    BY DEF SignInInv, TypeOK, Refresh
  <1>7. browser' \in [Browsers -> Browser] /\ \A x \in Browsers : browser'[x].cookie <= Len(refresh')
    BY DEF SignInInv, TypeOK, Refresh
  <1>8. session' = [session EXCEPT ![s] = st]
    BY DEF Set, Refresh
  <1>9. QED
    BY <1>3, <1>5, <1>6, <1>7, <1>8, RequestStep

\* The request that answers: nothing it knows is at stake any more.
LEMMA AnswerType ==
  ASSUME TypeOK, NEW s \in Sessions, NEW row \in 0..MaxTokens, NEW token \in 0..MaxTokens,
         NEW rows, row <= Len(rows), token <= Len(rows), NEW now \in 0..MaxEvictions
  PROVE  /\ Request("answer", session[s].kind, session[s].from, 0, row, FALSE, token)
               \in SessionState
         /\ Knows(Request("answer", session[s].kind, session[s].from, 0, row, FALSE, token),
                  rows, now)
  <1> DEFINE st == Request("answer", session[s].kind, session[s].from, 0, row, FALSE, token)
  <1>1. session[s].kind \in Kind /\ session[s].from \in Browsers \cup {None}
        /\ 0 \in 0..MaxEvictions /\ "answer" \in PC
    BY TypeFacts DEF SessionState, PC
  <1>2. st \in SessionState /\ st.pc = "answer" /\ st.born = 0 /\ st.row = row /\ st.token = token
    BY <1>1 DEF Request, SessionState
  <1>3. 0 <= now
    BY SignInAssumption
  <1> HIDE DEF st
  <1>4. st \in SessionState /\ Knows(st, rows, now)
    BY <1>2, <1>3 DEF Knows
  <1>5. QED
    BY <1>4 DEF st

LEMMA NewTokenKept ==
  ASSUME TypeOK, NEW s \in Sessions
  PROVE  NewToken(s) \in Token /\ Kept(NewToken(s), account.evictions)
  BY TypeFacts DEF NewToken, Token, Kept

\* A token joins those there are, of which some were changed.
LEMMA TokenJoins ==
  ASSUME TypeOK, Room, NEW mid, Extends(refresh, mid, account.evictions),
         Len(mid) = Len(refresh), NEW row \in Token, Kept(row, account.evictions)
  PROVE  /\ Extends(refresh, Append(mid, row), account.evictions)
         /\ Len(Append(mid, row)) = Len(refresh) + 1 /\ Len(refresh) + 1 \in 0..MaxTokens
  <1>1. Len(refresh) \in 0..MaxTokens /\ MaxTokens \in Nat /\ mid \in Seq(Token)
    BY TypeFacts DEF Extends
  <1>2. Len(refresh) + 1 \in 0..MaxTokens
    BY <1>1 DEF Room
  <1>3. /\ Append(mid, row) \in Seq(Token) /\ Len(Append(mid, row)) = Len(refresh) + 1
        /\ \A i \in 1..Len(refresh) : Append(mid, row)[i] = mid[i]
        /\ Append(mid, row)[Len(refresh) + 1] = row
    BY <1>1, AppendToken
  <1>4. \A i \in 1..(Len(refresh) + 1) : i \in 1..Len(refresh) \/ i = Len(refresh) + 1
    BY <1>1
  <1>5. TokensKept(Append(mid, row), account.evictions)
    BY <1>3, <1>4 DEF TokensKept, Extends
  <1>6. QED
    BY <1>1, <1>2, <1>3, <1>5 DEF Extends

LEMMA SaveSignInInv ==
  ASSUME SignInInv, NEW s \in Sessions, SaveSignIn(s)
  PROVE  SignInInv'
  <1>1. CASE session' = [session EXCEPT ![s] = Idle] /\ UNCHANGED <<account, refresh>>
    <2>1. Extends(refresh, refresh', account.evictions)
      BY <1>1, SameTokens
    <2>2. Idle \in SessionState /\ Knows(Idle, refresh', account.evictions)
      BY <1>1, IdleKnows, TypeFacts DEF SignInInv
    <2>3. account' \in Account /\ account'.evictions = account.evictions
      BY <1>1 DEF SignInInv, TypeOK
    <2>4. browser' \in [Browsers -> Browser] /\ \A x \in Browsers : browser'[x].cookie <= Len(refresh')
      BY <1>1 DEF SignInInv, TypeOK, SaveSignIn
    <2>5. QED
      BY <1>1, <2>1, <2>2, <2>3, <2>4, RequestStep
  <1>2. CASE /\ Room /\ Answer(s, 0, Len(refresh) + 1)
             /\ account' = [account EXCEPT !.state = IF @ = "absent" THEN "active" ELSE @]
             /\ refresh' = Append(refresh, NewToken(s))
    <2>1. /\ Extends(refresh, refresh', account.evictions)
          /\ Len(refresh') = Len(refresh) + 1 /\ Len(refresh) + 1 \in 0..MaxTokens
      <3>1. Extends(refresh, refresh, account.evictions)
        BY TypeFacts DEF SignInInv, Extends, TokensKept
      <3>2. QED
        BY <1>2, <3>1, NewTokenKept, TokenJoins DEF SignInInv
    <2>2. account' \in Account /\ account'.evictions = account.evictions
      BY <1>2 DEF SignInInv, TypeOK, Account
    <2>3. browser' \in [Browsers -> Browser] /\ \A x \in Browsers : browser'[x].cookie <= Len(refresh')
      BY <2>1, TypeFacts, BrowsersStay DEF SignInInv, SaveSignIn
    <2> DEFINE st == Request("answer", session[s].kind, session[s].from, 0, 0, FALSE, Len(refresh) + 1)
    <2>4. st \in SessionState /\ Knows(st, refresh', account.evictions)
      <3>1. 0 \in 0..MaxTokens /\ 0 <= Len(refresh') /\ Len(refresh) + 1 <= Len(refresh')
            /\ account.evictions \in 0..MaxEvictions
        BY <2>1, TypeFacts DEF SignInInv
      <3>2. QED
        BY <2>1, <3>1, AnswerType DEF SignInInv
    <2>5. session' = [session EXCEPT ![s] = st]
      BY <1>2 DEF Answer, Set
    <2>6. QED
      BY <2>1, <2>2, <2>3, <2>4, <2>5, RequestStep
  <1>3. QED
    BY <1>1, <1>2 DEF SaveSignIn, Set

\* The exchanged token may still be exchanged for a minute, if no eviction came
\* between; otherwise it has escaped one.
LEMMA SaveRefreshInv ==
  ASSUME SignInInv, NEW s \in Sessions, SaveRefresh(s)
  PROVE  SignInInv'
  <1> DEFINE i == session[s].row
             row == refresh[i]
             now == account.evictions
             grace == Revoked(row, "grace")
             late == [grace EXCEPT !.escaped = grace.escaped \/ session[s].born # now]
             rotated == IF session[s].live THEN late ELSE row
             mid == [refresh EXCEPT ![i] = rotated]
             st == Request("answer", session[s].kind, session[s].from, 0, i, FALSE, Len(refresh) + 1)
  <1>1. /\ i \in 1..Len(refresh) /\ i \in 0..MaxTokens /\ row \in Token
        /\ session[s].live /\ session[s].born = now => Kept(row, now)
    BY TypeFacts DEF SignInInv, RequestsKnow, Knows, SaveRefresh, At, Serves
  <1>2. grace \in Token /\ grace.born = row.born /\ grace.escaped = row.escaped
        /\ grace.state = IF row.state = "lapsed" THEN "lapsed" ELSE "grace"
    BY <1>1, RevokedToken
  <1>3. /\ late \in Token /\ late.state = grace.state /\ late.born = row.born
        /\ late.escaped = (row.escaped \/ session[s].born # now)
    BY <1>2 DEF Token
  <1>4. rotated \in Token
    BY <1>1, <1>3
  <1>5. Kept(row, now) => Kept(rotated, now)
    BY <1>2, <1>3 DEF Kept
  <1>6. Working(rotated) => Kept(rotated, now)
    <2>1. CASE session[s].live
      BY <2>1, <1>1, <1>2, <1>3 DEF Kept
    <2>2. CASE ~session[s].live
      BY <2>2, <1>1 DEF SignInInv, TokensKept
    <2>3. QED
      BY <2>1, <2>2
  <1>7. /\ mid \in Seq(Token) /\ Len(mid) = Len(refresh) /\ Len(refresh) \in 0..MaxTokens
        /\ \A j \in 1..Len(refresh) : mid[j] = IF j = i THEN rotated ELSE refresh[j]
    <2>1. refresh \in Seq(Token) /\ Len(refresh) \in 0..MaxTokens
      BY TypeFacts DEF SignInInv
    <2> HIDE DEF i, rotated
    <2>2. QED
      BY <2>1, <1>1, <1>4, WriteToken DEF mid
  <1>8. Extends(refresh, mid, now)
    <2> HIDE DEF rotated, mid, now
    <2>1. \A j \in 1..Len(refresh) : Working(refresh[j]) => Kept(refresh[j], now)
      BY DEF SignInInv, TokensKept, now
    <2>2. MaxTokens \in Nat
      BY SignInAssumption
    <2>3. QED
      BY <1>5, <1>6, <1>7, <2>1, <2>2 DEF Extends, TokensKept, row
  <1>9. refresh' = Append(mid, NewToken(s)) /\ Room /\ Answer(s, i, Len(refresh) + 1)
        /\ UNCHANGED <<account, browser>>
    BY <1>1, <1>2 DEF SaveRefresh
  <1>10. /\ Extends(refresh, refresh', now)
         /\ Len(refresh') = Len(refresh) + 1 /\ Len(refresh) + 1 \in 0..MaxTokens
    <2> HIDE DEF mid
    <2>1. QED
      BY <1>7, <1>8, <1>9, NewTokenKept, TokenJoins DEF SignInInv
  <1>11. account' \in Account /\ account'.evictions = now
    BY <1>9 DEF SignInInv, TypeOK
  <1>12. browser' \in [Browsers -> Browser] /\ \A x \in Browsers : browser'[x].cookie <= Len(refresh')
    BY <1>9, <1>10, TypeFacts, BrowsersStay DEF SignInInv
  <1>13. st \in SessionState /\ Knows(st, refresh', now)
    <2>1. i <= Len(refresh') /\ Len(refresh) + 1 <= Len(refresh') /\ now \in 0..MaxEvictions
      BY <1>1, <1>10, TypeFacts DEF SignInInv
    <2> HIDE DEF i, now
    <2>2. QED
      BY <1>1, <1>10, <2>1, AnswerType DEF SignInInv
  <1>14. session' = [session EXCEPT ![s] = st]
    BY <1>9 DEF Answer, Set
  <1>15. QED
    BY <1>10, <1>11, <1>12, <1>13, <1>14, RequestStep

\* A token that only loses what it had.
LEMMA TokenStops ==
  ASSUME TypeOK, TokensKept(refresh, account.evictions), NEW i \in 1..Len(refresh), NEW row \in Token,
         ~Working(row), row.born = refresh[i].born, row.escaped = refresh[i].escaped,
         refresh[i].state = "lapsed" => row.state = "lapsed"
  PROVE  /\ Extends(refresh, [refresh EXCEPT ![i] = row], account.evictions)
         /\ Len([refresh EXCEPT ![i] = row]) = Len(refresh)
  <1> DEFINE new == [refresh EXCEPT ![i] = row]
  <1>1. refresh \in Seq(Token) /\ Len(refresh) \in 0..MaxTokens /\ MaxTokens \in Nat
    BY TypeFacts
  <1>2. /\ new \in Seq(Token) /\ Len(new) = Len(refresh)
        /\ \A j \in 1..Len(refresh) : new[j] = IF j = i THEN row ELSE refresh[j]
    BY <1>1, WriteToken
  <1> HIDE DEF new
  <1>3. \A j \in 1..Len(refresh) : Kept(refresh[j], account.evictions) => Kept(new[j], account.evictions)
    BY <1>2 DEF Kept
  <1>4. TokensKept(new, account.evictions)
    BY <1>2 DEF TokensKept
  <1>5. Extends(refresh, new, account.evictions)
    BY <1>1, <1>2, <1>3, <1>4 DEF Extends
  <1>6. QED
    BY <1>2, <1>5 DEF new

LEMMA LogOutInv ==
  ASSUME SignInInv, NEW s \in Sessions, NEW b \in Browsers, LogOut(s, b)
  PROVE  SignInInv'
  <1> DEFINE c == browser[b].cookie
             dead == Revoked(refresh[c], "dead")
             st == Request("answer", "logout", b, 0, 0, FALSE, 0)
  <1>1. c \in 1..Len(refresh) /\ refresh[c] \in Token
    BY TypeFacts DEF SignInInv, LogOut
  <1>2. /\ dead \in Token /\ ~Working(dead)
        /\ dead.born = refresh[c].born /\ dead.escaped = refresh[c].escaped
        /\ refresh[c].state = "lapsed" => dead.state = "lapsed"
    BY <1>1, RevokedToken DEF Working
  <1>3. refresh' = [refresh EXCEPT ![c] = dead]
    BY DEF LogOut
  <1>4. Extends(refresh, refresh', account.evictions) /\ Len(refresh') = Len(refresh)
    <2> HIDE DEF c, dead
    <2>1. QED
      BY <1>1, <1>2, <1>3, TokenStops DEF SignInInv, dead
  <1>5. st \in SessionState /\ Knows(st, refresh', account.evictions)
    <2>1. 0 \in 0..MaxEvictions /\ 0 \in 0..MaxTokens /\ Len(refresh') \in Nat
          /\ 0 <= account.evictions
      BY <1>4, TypeFacts DEF SignInInv
    <2>2. /\ st \in SessionState /\ st.pc = "answer"
          /\ st.born = 0 /\ st.row = 0 /\ st.token = 0
      BY <2>1 DEF Request, SessionState, PC, Kind
    <2> HIDE DEF st
    <2>3. QED
      BY <2>1, <2>2 DEF Knows
  <1>6. account' \in Account /\ account'.evictions = account.evictions
    BY DEF SignInInv, TypeOK, LogOut
  <1>7. browser' \in [Browsers -> Browser] /\ \A x \in Browsers : browser'[x].cookie <= Len(refresh')
    BY <1>4, TypeFacts, BrowsersStay DEF SignInInv, LogOut
  <1>8. session' = [session EXCEPT ![s] = st]
    BY DEF LogOut, Set
  <1>9. QED
    BY <1>4, <1>5, <1>6, <1>7, <1>8, RequestStep

\* A step of no request: time, or an admin, or a browser that gives up.
LEMMA QuietStep ==
  ASSUME SignInInv, UNCHANGED session,
         account' \in Account, account'.evictions = account.evictions,
         Extends(refresh, refresh', account.evictions),
         browser' \in [Browsers -> Browser],
         \A b \in Browsers : browser'[b].cookie <= Len(refresh')
  PROVE  SignInInv'
  <1> DEFINE now == account.evictions
  <1>1. refresh \in Seq(Token) /\ now \in 0..MaxEvictions /\ \A r \in Sessions : session[r] \in SessionState
    BY TypeFacts DEF SignInInv
  <1>2. \A r \in Sessions : Knows(session[r], refresh', now)
    <2> TAKE r \in Sessions
    <2>1. Knows(session[r], refresh, now) /\ session[r] \in SessionState
      BY <1>1 DEF SignInInv, RequestsKnow
    <2> HIDE DEF now
    <2>2. QED
      BY <1>1, <2>1, KnowsMore DEF now
  <1>3. \A r \in Sessions : Knows(session'[r], refresh', account'.evictions)
    BY <1>2
  <1>4. session' \in [Sessions -> SessionState]
    BY DEF SignInInv, TypeOK
  <1>5. TokensKept(refresh', account'.evictions) /\ refresh' \in Seq(Token) /\ Len(refresh') <= MaxTokens
    BY DEF Extends
  <1>6. \A r \in Sessions : session'[r].row <= Len(refresh') /\ session'[r].token <= Len(refresh')
    BY <1>3 DEF Knows
  <1>7. QED
    BY <1>3, <1>4, <1>5, <1>6 DEF SignInInv, TypeOK, RequestsKnow

LEMMA TimeInv ==
  ASSUME SignInInv, NEW i \in DOMAIN refresh, GraceEnds(i) \/ Lapse(i)
  PROVE  SignInInv'
  <1>1. i \in 1..Len(refresh) /\ refresh[i] \in Token
    BY TypeFacts DEF SignInInv
  <1> DEFINE dead == [refresh[i] EXCEPT !.state = "dead"]
             lapsed == [refresh[i] EXCEPT !.state = "lapsed"]
  <1>2. /\ dead \in Token /\ dead.state = "dead" /\ dead.born = refresh[i].born
        /\ dead.escaped = refresh[i].escaped
        /\ lapsed \in Token /\ lapsed.state = "lapsed" /\ lapsed.born = refresh[i].born
        /\ lapsed.escaped = refresh[i].escaped
    BY <1>1 DEF Token
  <1>3. CASE GraceEnds(i)
    <2>1. refresh' = [refresh EXCEPT ![i] = dead] /\ refresh[i].state # "lapsed"
      BY <1>3 DEF GraceEnds
    <2>2. Extends(refresh, refresh', account.evictions) /\ Len(refresh') = Len(refresh)
      <3> HIDE DEF dead
      <3>1. QED
        BY <1>1, <1>2, <2>1, TokenStops DEF SignInInv, Working
    <2>3. account' \in Account /\ account'.evictions = account.evictions
      BY <1>3 DEF SignInInv, TypeOK, GraceEnds
    <2>4. browser' \in [Browsers -> Browser] /\ \A x \in Browsers : browser'[x].cookie <= Len(refresh')
      BY <1>3, <2>2, TypeFacts, BrowsersStay DEF SignInInv, GraceEnds
    <2>5. QED
      BY <1>3, <2>2, <2>3, <2>4, QuietStep DEF GraceEnds
  <1>4. CASE Lapse(i)
    <2>1. refresh' = [refresh EXCEPT ![i] = lapsed]
      BY <1>4 DEF Lapse
    <2>2. Extends(refresh, refresh', account.evictions) /\ Len(refresh') = Len(refresh)
      <3> HIDE DEF lapsed
      <3>1. QED
        BY <1>1, <1>2, <2>1, TokenStops DEF SignInInv, Working
    <2>3. account' \in Account /\ account'.evictions = account.evictions
      BY <1>4 DEF SignInInv, TypeOK, Lapse
    <2>4. browser' \in [Browsers -> Browser] /\ \A x \in Browsers : browser'[x].cookie <= Len(refresh')
      BY <1>4, <2>2, TypeFacts, BrowsersStay DEF SignInInv, Lapse
    <2>5. QED
      BY <1>4, <2>2, <2>3, <2>4, QuietStep DEF Lapse
  <1>5. QED
    BY <1>3, <1>4

LEMMA RefreshRefusedInv ==
  ASSUME SignInInv, NEW b \in Browsers, RefreshRefused(b)
  PROVE  SignInInv'
  <1>1. Extends(refresh, refresh', account.evictions)
    BY SameTokens DEF RefreshRefused
  <1>2. browser[b] \in Browser /\ Len(refresh') \in Nat /\ 0 \in 0..MaxTokens
    BY TypeFacts DEF RefreshRefused, SignInInv, TypeOK
  <1>3. [browser[b] EXCEPT !.cookie = 0] \in Browser /\ [browser[b] EXCEPT !.cookie = 0].cookie = 0
    BY <1>2 DEF Browser
  <1>4. browser' = [browser EXCEPT ![b] = [browser[b] EXCEPT !.cookie = 0]]
    BY DEF RefreshRefused
  <1>5. browser' \in [Browsers -> Browser] /\ \A x \in Browsers : browser'[x].cookie <= Len(refresh')
    BY <1>2, <1>3, <1>4 DEF SignInInv, TypeOK, RefreshRefused
  <1>6. account' \in Account /\ account'.evictions = account.evictions /\ UNCHANGED session
    BY DEF SignInInv, TypeOK, RefreshRefused
  <1>7. QED
    BY <1>1, <1>5, <1>6, QuietStep

LEMMA ActivateInv ==
  ASSUME SignInInv, Activate
  PROVE  SignInInv'
  <1>1. Extends(refresh, refresh', account.evictions)
    BY SameTokens DEF Activate
  <1>2. browser' \in [Browsers -> Browser] /\ \A x \in Browsers : browser'[x].cookie <= Len(refresh')
    BY DEF SignInInv, TypeOK, Activate
  <1>3. account' \in Account /\ account'.evictions = account.evictions /\ UNCHANGED session
    BY DEF SignInInv, TypeOK, Account, Activate
  <1>4. QED
    BY <1>1, <1>2, <1>3, QuietStep

\* The request is over: it was answered, or it died.
LEMMA EndInv ==
  ASSUME SignInInv, NEW s \in Sessions, Deliver(s) \/ Rollback(s)
  PROVE  SignInInv'
  <1>1. Extends(refresh, refresh', account.evictions)
    BY SameTokens DEF Deliver, Rollback
  <1>2. Idle \in SessionState /\ Knows(Idle, refresh', account.evictions)
    BY IdleKnows, TypeFacts DEF SignInInv, Deliver, Rollback
  <1>3. account' \in Account /\ account'.evictions = account.evictions
    BY DEF SignInInv, TypeOK, Deliver, Rollback
  <1>4. browser' \in [Browsers -> Browser] /\ \A x \in Browsers : browser'[x].cookie <= Len(refresh')
    <2>1. CASE UNCHANGED browser
      BY <2>1 DEF SignInInv, TypeOK, Deliver, Rollback
    <2>2. CASE ~UNCHANGED browser
      <3> DEFINE f == session[s].from
                 kept == [cookie |-> session[s].token, lost |-> FALSE]
                 lost == [browser[f] EXCEPT !.lost = TRUE]
      <3>1. Deliver(s) /\ UNCHANGED refresh
        BY <2>2 DEF Rollback, Deliver
      <3>2. \/ browser' = [browser EXCEPT ![f] = kept]
            \/ browser' = [browser EXCEPT ![f] = lost]
        BY <3>1 DEF Deliver
      <3>3. session[s].token \in 0..MaxTokens /\ session[s].token <= Len(refresh)
        BY DEF SignInInv, TypeOK, SessionState
      <3>4. kept \in Browser /\ kept.cookie <= Len(refresh)
        BY <3>3 DEF Browser
      <3>5. f \in Browsers => lost \in Browser /\ lost.cookie <= Len(refresh)
        <4>1. f \in Browsers => browser[f] \in Browser /\ browser[f].cookie <= Len(refresh)
          BY DEF SignInInv, TypeOK
        <4> HIDE DEF f
        <4>2. QED
          BY <4>1 DEF Browser
      <3>6. \A x \in Browsers : browser[x] \in Browser /\ browser[x].cookie <= Len(refresh)
        BY DEF SignInInv, TypeOK
      <3>7. browser \in [Browsers -> Browser]
        BY DEF SignInInv, TypeOK
      <3> HIDE DEF f, kept, lost
      <3>8. QED
        BY <3>1, <3>2, <3>4, <3>5, <3>6, <3>7
    <2>3. QED
      BY <2>1, <2>2
  <1>5. session' = [session EXCEPT ![s] = Idle]
    BY DEF Deliver, Rollback, Set
  <1>6. QED
    BY <1>1, <1>2, <1>3, <1>4, <1>5, RequestStep

LEMMA RevokeAllInv ==
  ASSUME SignInInv, NEW s \in Sessions, RevokeAll(s)
  PROVE  SignInInv'
  <1> DEFINE st == [session[s] EXCEPT !.pc = "commit", !.row = Len(refresh)]
  <1>1. Extends(refresh, refresh', account.evictions)
    BY SameTokens DEF RevokeAll
  <1>2. Len(refresh) \in 0..MaxTokens /\ session[s] \in SessionState
    BY TypeFacts DEF SignInInv
  <1>3. /\ st \in SessionState /\ st.pc = "commit" /\ st.row = Len(refresh)
        /\ st.born = session[s].born /\ st.token = session[s].token
    BY <1>2 DEF SessionState, PC
  <1>4. session[s].born <= account.evictions /\ session[s].token <= Len(refresh)
    BY DEF SignInInv, RequestsKnow, Knows
  <1>5. st \in SessionState /\ Knows(st, refresh', account.evictions)
    <2> HIDE DEF st
    <2>1. QED
      BY <1>2, <1>3, <1>4 DEF Knows, RevokeAll
  <1>6. account' \in Account /\ account'.evictions = account.evictions
    BY DEF SignInInv, TypeOK, RevokeAll
  <1>7. browser' \in [Browsers -> Browser] /\ \A x \in Browsers : browser'[x].cookie <= Len(refresh')
    BY DEF SignInInv, TypeOK, RevokeAll
  <1>8. session' = [session EXCEPT ![s] = st]
    BY DEF RevokeAll, Set
  <1>9. QED
    BY <1>1, <1>5, <1>6, <1>7, <1>8, RequestStep

-----------------------------------------------------------------------------
(* An eviction: what it found is dead, what it did not find has escaped,   *)
(* and every request in flight has now seen one eviction too few.          *)

LEMMA EvictedRows ==
  ASSUME SignInInv, NEW s \in Sessions, NEW now \in Nat
  PROVE  /\ Evicted(s) \in Seq(Token) /\ Len(Evicted(s)) = Len(refresh)
         /\ TokensKept(Evicted(s), now)
  <1>1. refresh \in Seq(Token) /\ Len(refresh) \in Nat /\ DOMAIN refresh = 1..Len(refresh)
        /\ \A i \in 1..Len(refresh) : refresh[i] \in Token
    BY TypeFacts DEF SignInInv
  <1> DEFINE dead(i) == Revoked(refresh[i], "dead")
             ended(i) == [dead(i) EXCEPT !.escaped = FALSE]
             missed(i) == [refresh[i] EXCEPT !.escaped = TRUE]
             row(i) == IF i <= session[s].row THEN ended(i) ELSE missed(i)
  <1>2. \A i \in 1..Len(refresh) : row(i) \in Token /\ (Working(row(i)) => Kept(row(i), now))
    <2> TAKE i \in 1..Len(refresh)
    <2>1. dead(i) \in Token /\ dead(i).state \in {"lapsed", "dead"}
      BY <1>1, RevokedToken
    <2>2. ended(i) \in Token /\ ended(i).state = dead(i).state
      <3> HIDE DEF dead
      <3>1. QED
        BY <2>1 DEF Token
    <2>3. missed(i) \in Token /\ missed(i).escaped
      BY <1>1 DEF Token
    <2> HIDE DEF dead, ended, missed
    <2>4. QED
      BY <2>1, <2>2, <2>3 DEF Working, Kept
  <1>3. Evicted(s) = [i \in 1..Len(refresh) |-> row(i)]
    BY <1>1 DEF Evicted
  <1> HIDE DEF row
  <1>4. Evicted(s) \in Seq(Token) /\ Len(Evicted(s)) = Len(refresh)
        /\ \A i \in 1..Len(refresh) : Evicted(s)[i] = row(i)
    BY <1>1, <1>2, <1>3
  <1>5. QED
    BY <1>2, <1>4 DEF TokensKept

\* However the request s itself goes on.
LEMMA EvictionStep ==
  ASSUME SignInInv, NEW s \in Sessions, NEW st \in SessionState,
         session' = [session EXCEPT ![s] = st],
         account' \in Account, account'.evictions = account.evictions + 1,
         refresh' \in Seq(Token), Len(refresh') <= MaxTokens, Len(refresh) <= Len(refresh'),
         TokensKept(refresh', account'.evictions),
         Knows(st, refresh', account'.evictions), UNCHANGED browser
  PROVE  SignInInv'
  <1>1. /\ account.evictions \in Nat /\ Len(refresh) \in Nat /\ Len(refresh') \in Nat
        /\ \A r \in Sessions : session[r].born \in Nat /\ session[r].row \in Nat /\ session[r].token \in Nat
    BY TypeFacts DEF SignInInv
  <1>2. \A r \in Sessions : session'[r] = IF r = s THEN st ELSE session[r]
    BY DEF SignInInv, TypeOK
  <1>3. \A r \in Sessions : Knows(session[r], refresh', account'.evictions)
    <2> TAKE r \in Sessions
    <2>1. Knows(session[r], refresh, account.evictions)
      BY DEF SignInInv, RequestsKnow
    <2>2. session[r].born # account'.evictions
      BY <1>1, <2>1 DEF Knows
    <2>3. QED
      BY <1>1, <2>1, <2>2 DEF Knows
  <1>4. \A r \in Sessions : Knows(session'[r], refresh', account'.evictions)
    BY <1>2, <1>3
  <1>5. session' \in [Sessions -> SessionState]
    BY DEF SignInInv, TypeOK
  <1>6. browser' \in [Browsers -> Browser] /\ \A x \in Browsers : browser'[x].cookie <= Len(refresh')
    BY <1>1, BrowsersStay DEF SignInInv
  <1>7. \A r \in Sessions : session'[r].row <= Len(refresh') /\ session'[r].token <= Len(refresh')
    BY <1>4 DEF Knows
  <1>8. QED
    BY <1>4, <1>5, <1>6, <1>7 DEF SignInInv, TypeOK, RequestsKnow

LEMMA EndSessionsInv ==
  ASSUME SignInInv, NEW s \in Sessions, EndSessions(s)
  PROVE  SignInInv'
  <1> DEFINE now == account.evictions + 1
  <1>1. /\ account \in Account /\ account.evictions \in Nat /\ now \in 0..MaxEvictions /\ now \in Nat
        /\ Len(refresh) \in 0..MaxTokens /\ MaxTokens \in Nat
    <2>1. account.evictions \in 0..MaxEvictions /\ MaxEvictions \in Nat
          /\ Len(refresh) \in 0..MaxTokens /\ MaxTokens \in Nat
      BY TypeFacts DEF SignInInv
    <2>2. account.evictions < MaxEvictions /\ account \in Account
      BY DEF EndSessions, SignInInv, TypeOK
    <2>3. QED
      BY <2>1, <2>2
  <1> HIDE DEF now
  <1>2. Evicted(s) \in Seq(Token) /\ Len(Evicted(s)) = Len(refresh) /\ TokensKept(Evicted(s), now)
    BY <1>1, EvictedRows
  <1>3. CASE Serves(s, "deactivate")
    <2>1. /\ account' = [state |-> "off", evictions |-> now] /\ refresh' = Evicted(s)
          /\ session' = [session EXCEPT ![s] = Idle] /\ UNCHANGED browser
      BY <1>3 DEF EndSessions, Set, now
    <2>2. account' \in Account /\ account'.evictions = now
      BY <1>1, <2>1 DEF Account
    <2>3. Idle \in SessionState /\ Knows(Idle, refresh', now)
      BY <1>1, <1>2, <2>1, IdleKnows
    <2>4. /\ refresh' \in Seq(Token) /\ TokensKept(refresh', now)
          /\ Len(refresh') <= MaxTokens /\ Len(refresh) <= Len(refresh')
      BY <1>1, <1>2, <2>1
    <2>5. QED
      BY <2>1, <2>2, <2>3, <2>4, EvictionStep DEF now
  <1>4. CASE ~Serves(s, "deactivate")
    <2> DEFINE new == [state |-> "live", born |-> now, escaped |-> FALSE]
               st == Request("answer", session[s].kind, session[s].from, 0, 0, FALSE, Len(refresh) + 1)
    <2>1. /\ Room /\ account' = [account EXCEPT !.evictions = now]
          /\ refresh' = Append(Evicted(s), new)
          /\ session' = [session EXCEPT ![s] = st] /\ UNCHANGED browser
      BY <1>4 DEF EndSessions, Answer, Set, now
    <2>2. account' \in Account /\ account'.evictions = now
      BY <1>1, <2>1 DEF Account
    <2>3. new \in Token /\ Kept(new, now)
      BY <1>1 DEF Token, Kept
    <2>4. /\ refresh' \in Seq(Token) /\ Len(refresh') = Len(refresh) + 1
          /\ \A i \in 1..Len(refresh) : refresh'[i] = Evicted(s)[i]
          /\ refresh'[Len(refresh) + 1] = new
      <3> HIDE DEF new
      <3>1. QED
        BY <1>2, <2>1, <2>3, AppendToken
    <2>5. Len(refresh) + 1 \in 0..MaxTokens
      BY <1>1, <2>1 DEF Room
    <2>6. TokensKept(refresh', now)
      <3>1. \A i \in 1..Len(refresh') : i \in 1..Len(refresh) \/ i = Len(refresh) + 1
        BY <1>1, <2>4
      <3> HIDE DEF new
      <3>2. QED
        BY <1>2, <2>3, <2>4, <3>1 DEF TokensKept
    <2>7. st \in SessionState /\ Knows(st, refresh', now)
      <3>1. 0 \in 0..MaxTokens /\ 0 <= Len(refresh') /\ Len(refresh) + 1 <= Len(refresh')
        BY <1>1, <2>4
      <3>2. QED
        BY <1>1, <2>5, <3>1, AnswerType DEF SignInInv
    <2>8. Len(refresh') <= MaxTokens /\ Len(refresh) <= Len(refresh')
      BY <1>1, <2>4, <2>5
    <2> HIDE DEF st, new
    <2>9. QED
      BY <1>1, <2>1, <2>2, <2>4, <2>6, <2>7, <2>8, EvictionStep DEF now
  <1>5. QED
    BY <1>3, <1>4

-----------------------------------------------------------------------------

LEMMA InitInv == Init => SignInInv
  <1> SUFFICES ASSUME Init PROVE SignInInv
    OBVIOUS
  <1>1. /\ account \in Account /\ account.evictions = 0 /\ refresh \in Seq(Token) /\ Len(refresh) = 0
        /\ MaxTokens \in Nat /\ 0 \in 0..MaxTokens /\ 0 \in 0..MaxEvictions
    BY SignInAssumption DEF Init, Account
  <1>2. \A s \in Sessions : session[s] = Idle
    BY DEF Init
  <1>3. Idle \in SessionState /\ Knows(Idle, refresh, 0)
    BY <1>1, IdleKnows
  <1>4. browser \in [Browsers -> Browser] /\ \A b \in Browsers : browser[b].cookie = 0
    BY <1>1 DEF Init, Browser
  <1>5. session \in [Sessions -> SessionState]
    BY <1>3 DEF Init
  <1>6. \A s \in Sessions : session[s].row <= Len(refresh) /\ session[s].token <= Len(refresh)
    BY <1>2, <1>3 DEF Knows
  <1>7. QED
    BY <1>1, <1>2, <1>3, <1>4, <1>5, <1>6 DEF SignInInv, TypeOK, TokensKept, RequestsKnow

LEMMA AskInv ==
  ASSUME SignInInv, NEW s \in Sessions, Ask(s)
  PROVE  SignInInv'
  <1>1. ASSUME NEW b \in Browsers, Register(s, b) PROVE SignInInv'
    BY <1>1, BeginInv DEF Register, Kind
  <1>2. ASSUME NEW b \in Browsers, Login(s, b) PROVE SignInInv'
    BY <1>2, BeginInv DEF Login, Kind
  <1>3. ASSUME NEW b \in Browsers, NewPassword(s, b) PROVE SignInInv'
    BY <1>3, BeginInv DEF NewPassword, Kind
  <1>4. ASSUME Deactivate(s) PROVE SignInInv'
    BY <1>4, BeginInv DEF Deactivate, Kind
  <1>5. QED
    BY <1>1, <1>2, <1>3, <1>4, RefreshInv, LogOutInv DEF Ask

LEMMA NextInv == SignInInv /\ [Next]_vars => SignInInv'
  <1> SUFFICES ASSUME SignInInv, [Next]_vars PROVE SignInInv'
    OBVIOUS
  <1>1. ASSUME NEW s \in Sessions, Serve(s) PROVE SignInInv'
    BY <1>1, SaveSignInInv, SaveRefreshInv, RevokeAllInv, EndSessionsInv, EndInv DEF Serve
  <1>2. CASE UNCHANGED vars
    BY <1>2 DEF vars, SignInInv, TypeOK, RequestsKnow
  <1>3. QED
    BY <1>1, <1>2, AskInv, EndInv, RefreshRefusedInv, ActivateInv, TimeInv DEF Next

LEMMA InvHolds == Spec => []SignInInv
  BY InitInv, NextInv, PTL DEF Spec

-----------------------------------------------------------------------------

\* The account, the tokens, the cookies and the requests of sessions.py keep their
\* types: every cookie and every request speaks of a token that was issued.
THEOREM SignInTypeOK == Spec => []TypeOK
  <1>1. SignInInv => TypeOK
    BY DEF SignInInv
  <1>2. QED
    BY <1>1, InvHolds, PTL

\* sessions.revoke_all: for any number of browsers, tabs and requests, a token that
\* still works was issued after the last eviction or overlapped it.
THEOREM SignInEvictedStayOut == Spec => []EvictedSessionsStayOut
  <1>1. SignInInv => EvictedSessionsStayOut
    <2> SUFFICES ASSUME SignInInv PROVE EvictedSessionsStayOut
      OBVIOUS
    <2>1. DOMAIN refresh = 1..Len(refresh)
      BY TypeFacts DEF SignInInv
    <2>2. QED
      BY <2>1 DEF SignInInv, TokensKept, Working, Kept, EvictedSessionsStayOut
  <1>2. QED
    BY <1>1, InvHolds, PTL

-----------------------------------------------------------------------------
(* Why a browser's cookie may have stopped working.                        *)

\* A token that still works, unless time or an eviction ended it.
Alive(row, now) ==
    row.state \in {"live", "lapsed"} \/ (row.state = "dead" /\ row.born < now)

\* A token of an answer that is on its way is nobody else's.
Unclaimed(s, t) ==
    /\ \A b \in Browsers : browser[b].cookie # t
    /\ \A r \in Sessions : /\ r # s => session[r].token # t
                           /\ session[r].kind = "refresh" => session[r].row # t

TokensInFlight ==
    \A s \in Sessions :
        session[s].token # 0 =>
            /\ session[s].pc = "answer"
            /\ Unclaimed(s, session[s].token)
            /\ Alive(refresh[session[s].token], account.evictions)

KindsFit ==
    \A s \in Sessions :
        /\ session[s].pc = "answer" => session[s].kind = "logout" \/ session[s].token # 0
        /\ session[s].pc \in {"evict", "commit"} => session[s].kind # "refresh"
        /\ session[s].kind = "refresh" => session[s].row # 0

\* A token is one browser's, and so is its exchange.
Owned ==
    /\ \A s \in Sessions, b \in Browsers :
          session[s].kind = "refresh" /\ session[s].row = browser[b].cookie => session[s].from = b
    /\ \A a, b \in Browsers :
          a # b /\ browser[a].cookie # 0 => browser[a].cookie # browser[b].cookie

LoggingOut(b) == \E s \in Sessions :
    session[s].pc = "answer" /\ session[s].kind = "logout" /\ session[s].from = b
Exchanging(b, c) == \E s \in Sessions :
    /\ session[s].pc = "answer" /\ session[s].kind = "refresh"
    /\ session[s].from = b /\ session[s].row = c

\* A cookie whose token ended, or will in a minute, has its excuse: the answer that
\* replaces it is on its way, or was lost.
Excused(b, rows, now) ==
    LET c == browser[b].cookie
    IN  c # 0 =>
          /\ rows[c].state = "dead" => browser[b].lost \/ rows[c].born < now \/ LoggingOut(b)
          /\ rows[c].state = "grace" => browser[b].lost \/ Exchanging(b, c)

BornKnown(rows, now) == \A i \in 1..Len(rows) : rows[i].born <= now

ChanceInv ==
    /\ TokensInFlight
    /\ KindsFit
    /\ Owned
    /\ \A b \in Browsers : Excused(b, refresh, account.evictions)
    /\ BornKnown(refresh, account.evictions)

LEMMA ChanceTypes ==
  ASSUME SignInInv
  PROVE  /\ \A b \in Browsers : browser[b].cookie \in 0..Len(refresh)
         /\ \A s \in Sessions : /\ session[s].row \in 0..Len(refresh)
                                /\ session[s].token \in 0..Len(refresh)
         /\ Len(refresh) \in Nat /\ refresh \in Seq(Token) /\ account.evictions \in Nat
         /\ session \in [Sessions -> SessionState] /\ browser \in [Browsers -> Browser]
         /\ DOMAIN refresh = 1..Len(refresh)
  <1>1. TypeOK
    BY DEF SignInInv
  <1>2. Len(refresh) \in Nat /\ refresh \in Seq(Token) /\ account.evictions \in Nat
        /\ DOMAIN refresh = 1..Len(refresh)
    BY <1>1, TypeFacts
  <1>3. \A s \in Sessions : session[s].row <= Len(refresh) /\ session[s].token <= Len(refresh)
    BY <1>1 DEF TypeOK
  <1>4. \A s \in Sessions : session[s].row \in Nat /\ session[s].token \in Nat
    BY <1>1, TypeFacts
  <1>5. QED
    BY <1>1, <1>2, <1>3, <1>4, TypeFacts DEF TypeOK

\* A request moves on, before it answers, and no answer arrives.
LEMMA ChanceStep ==
  ASSUME SignInInv, ChanceInv, NEW s \in Sessions, NEW st,
         session' = [session EXCEPT ![s] = st], browser' = browser,
         session[s].pc # "answer",
         st.token # 0 => /\ st.pc = "answer" /\ st.token = Len(refresh) + 1
                         /\ Alive(refresh'[st.token], account'.evictions),
         st.pc = "answer" => st.kind = "logout" \/ st.token # 0,
         st.pc \in {"evict", "commit"} => st.kind # "refresh",
         st.kind = "refresh" =>
             /\ st.row \in 1..Len(refresh)
             /\ \/ session[s].kind = "refresh" /\ session[s].row = st.row /\ session[s].from = st.from
                \/ \E b \in Browsers : st.from = b /\ st.row = browser[b].cookie,
         \A r \in Sessions :
             session[r].token # 0 => Alive(refresh'[session[r].token], account'.evictions),
         BornKnown(refresh', account'.evictions),
         \A b \in Browsers :
             LET c == browser[b].cookie
             IN  c # 0 =>
                   /\ refresh'[c].state = "dead" =>
                         \/ browser[b].lost \/ refresh'[c].born < account'.evictions \/ LoggingOut(b)
                         \/ st.pc = "answer" /\ st.kind = "logout" /\ st.from = b
                   /\ refresh'[c].state = "grace" =>
                         \/ browser[b].lost \/ Exchanging(b, c)
                         \/ st.pc = "answer" /\ st.kind = "refresh" /\ st.from = b /\ st.row = c
  PROVE  ChanceInv'
  <1>1. /\ \A b \in Browsers : browser[b].cookie \in 0..Len(refresh)
        /\ \A r \in Sessions : session[r].row \in 0..Len(refresh) /\ session[r].token \in 0..Len(refresh)
        /\ Len(refresh) \in Nat
    BY ChanceTypes
  <1>2. \A r \in Sessions : session'[r] = IF r = s THEN st ELSE session[r]
    BY ChanceTypes
  <1>3. ASSUME NEW r \in Sessions, session'[r].token # 0
        PROVE  /\ session'[r].pc = "answer"
               /\ \A b \in Browsers : browser'[b].cookie # session'[r].token
               /\ \A q \in Sessions : /\ q # r => session'[q].token # session'[r].token
                                      /\ session'[q].kind = "refresh" => session'[q].row # session'[r].token
               /\ Alive(refresh'[session'[r].token], account'.evictions)
    <2>1. CASE r = s
      <3>1. /\ session'[r].token = Len(refresh) + 1 /\ session'[r].pc = "answer"
            /\ Alive(refresh'[session'[r].token], account'.evictions)
        BY <1>2, <1>3, <2>1
      <3>2. \A b \in Browsers : browser'[b].cookie # Len(refresh) + 1
        BY <1>1
      <3>3. \A q \in Sessions : /\ q # r => session'[q].token # Len(refresh) + 1
                                /\ session'[q].kind = "refresh" => session'[q].row # Len(refresh) + 1
        BY <1>1, <1>2, <2>1
      <3>4. QED
        BY <3>1, <3>2, <3>3
    <2>2. CASE r # s
      <3> DEFINE t == session[r].token
      <3>1. session'[r] = session[r] /\ t # 0 /\ t \in 0..Len(refresh)
        BY <1>1, <1>2, <1>3, <2>2
      <3>2. session[r].pc = "answer" /\ Unclaimed(r, t) /\ Alive(refresh'[t], account'.evictions)
        BY <3>1 DEF ChanceInv, TokensInFlight
      <3> HIDE DEF t
      <3>3. \A b \in Browsers : browser'[b].cookie # t
        BY <3>2 DEF Unclaimed
      <3>4. st.token # t
        BY <1>1, <3>1
      <3>5. st.kind = "refresh" => st.row # t
        BY <3>2 DEF Unclaimed
      <3>6. \A q \in Sessions : /\ q # r => session'[q].token # t
                                /\ session'[q].kind = "refresh" => session'[q].row # t
        BY <1>2, <3>2, <3>4, <3>5 DEF Unclaimed
      <3>7. QED
        BY <3>1, <3>2, <3>3, <3>6 DEF t
    <2>3. QED
      BY <2>1, <2>2
  <1>4. TokensInFlight'
    BY <1>3 DEF TokensInFlight, Unclaimed
  <1>5. KindsFit'
    BY <1>2 DEF ChanceInv, KindsFit
  <1>6. Owned'
    <2>1. ASSUME NEW r \in Sessions, NEW b \in Browsers,
                 session'[r].kind = "refresh", session'[r].row = browser'[b].cookie
          PROVE  session'[r].from = b
      <3>1. CASE r # s
        BY <1>2, <2>1, <3>1 DEF ChanceInv, Owned
      <3>2. CASE r = s
        BY <1>1, <1>2, <2>1, <3>2 DEF ChanceInv, Owned
      <3>3. QED
        BY <3>1, <3>2
    <2>2. QED
      BY <2>1 DEF ChanceInv, Owned
  <1>7. \A b \in Browsers : LoggingOut(b) \/ (st.pc = "answer" /\ st.kind = "logout" /\ st.from = b)
                            => LoggingOut(b)'
    BY <1>2 DEF LoggingOut
  <1>8. ASSUME NEW b \in Browsers, NEW c,
               \/ Exchanging(b, c)
               \/ st.pc = "answer" /\ st.kind = "refresh" /\ st.from = b /\ st.row = c
        PROVE  \E r \in Sessions : /\ session'[r].pc = "answer" /\ session'[r].kind = "refresh"
                                   /\ session'[r].from = b /\ session'[r].row = c
    BY <1>2, <1>8 DEF Exchanging
  <1>9. ASSUME NEW b \in Browsers
        PROVE  Excused(b, refresh, account.evictions)'
    <2> DEFINE c == browser[b].cookie
    <2>1. c # 0 /\ refresh'[c].state = "dead" =>
             browser[b].lost \/ refresh'[c].born < account'.evictions \/ LoggingOut(b)'
      BY <1>7
    <2>2. ASSUME c # 0, refresh'[c].state = "grace"
          PROVE  \/ browser[b].lost
                 \/ \E r \in Sessions : /\ session'[r].pc = "answer" /\ session'[r].kind = "refresh"
                                        /\ session'[r].from = b /\ session'[r].row = c
      <3>1. \/ browser[b].lost \/ Exchanging(b, c)
            \/ st.pc = "answer" /\ st.kind = "refresh" /\ st.from = b /\ st.row = c
        BY <2>2
      <3> HIDE DEF c
      <3>2. QED
        BY <3>1, <1>8
    <2>3. browser' = browser
      OBVIOUS
    <2>4. QED
      BY <2>1, <2>2, <2>3 DEF Excused, Exchanging
  <1>10. QED
    BY <1>4, <1>5, <1>6, <1>9 DEF ChanceInv

\* Tokens as they are excuse the same cookies.
LEMMA SameExcuses ==
  ASSUME SignInInv, ChanceInv, NEW rows, NEW now,
         \A i \in 1..Len(refresh) : rows[i] = refresh[i], now = account.evictions
  PROVE  /\ \A r \in Sessions : session[r].token # 0 => Alive(rows[session[r].token], now)
         /\ \A b \in Browsers :
               LET c == browser[b].cookie
               IN  c # 0 =>
                     /\ rows[c].state = "dead" =>
                           browser[b].lost \/ rows[c].born < now \/ LoggingOut(b)
                     /\ rows[c].state = "grace" => browser[b].lost \/ Exchanging(b, c)
  <1>1. \A r \in Sessions : session[r].token # 0 => rows[session[r].token] = refresh[session[r].token]
    BY ChanceTypes
  <1>2. \A b \in Browsers : browser[b].cookie # 0 => rows[browser[b].cookie] = refresh[browser[b].cookie]
    BY ChanceTypes
  <1>3. QED
    BY <1>1, <1>2 DEF ChanceInv, TokensInFlight, Excused

\* A request that loads, holds, or ends without an answer.
LEMMA LoadStep ==
  ASSUME SignInInv, ChanceInv, NEW s \in Sessions, NEW st,
         session' = [session EXCEPT ![s] = st], UNCHANGED <<browser, refresh>>,
         account'.evictions = account.evictions,
         session[s].pc # "answer", st.token = 0, st.pc # "answer",
         st.pc \in {"evict", "commit"} => st.kind # "refresh",
         st.kind = "refresh" => \E b \in Browsers :
             st.from = b /\ st.row = browser[b].cookie /\ st.row # 0
  PROVE  ChanceInv'
  <1>1. /\ \A r \in Sessions :
              session[r].token # 0 => Alive(refresh'[session[r].token], account'.evictions)
        /\ \A b \in Browsers :
              LET c == browser[b].cookie
              IN  c # 0 =>
                    /\ refresh'[c].state = "dead" =>
                          browser[b].lost \/ refresh'[c].born < account'.evictions \/ LoggingOut(b)
                    /\ refresh'[c].state = "grace" => browser[b].lost \/ Exchanging(b, c)
    BY SameExcuses
  <1>2. BornKnown(refresh', account'.evictions)
    BY DEF ChanceInv
  <1>3. st.kind = "refresh" => st.row \in 1..Len(refresh)
    BY ChanceTypes
  <1>4. QED
    BY <1>1, <1>2, <1>3, ChanceStep

LEMMA IdleFields ==
  Idle.pc = "idle" /\ Idle.kind = "none" /\ Idle.token = 0
  BY DEF Idle, Request

LEMMA EndsQuietly ==
  ASSUME SignInInv, ChanceInv, NEW s \in Sessions, Set(s, Idle), session[s].pc # "answer",
         UNCHANGED <<browser, refresh>>, account'.evictions = account.evictions
  PROVE  ChanceInv'
  BY IdleFields, LoadStep DEF Set

LEMMA BeginChance ==
  ASSUME SignInInv, ChanceInv, NEW s \in Sessions, NEW pc \in {"save", "evict"},
         NEW kind \in Kind \ {"refresh"}, NEW b \in Browsers \cup {None},
         Set(s, Begin(pc, kind, b)), session[s].pc # "answer",
         UNCHANGED <<account, refresh, browser>>
  PROVE  ChanceInv'
  <1> DEFINE st == Begin(pc, kind, b)
  <1>1. st.pc = pc /\ st.kind = kind /\ st.token = 0
    BY BeginType DEF SignInInv
  <1>2. session' = [session EXCEPT ![s] = st]
    BY DEF Set
  <1> HIDE DEF st
  <1>3. QED
    BY <1>1, <1>2, LoadStep

LEMMA RefreshChance ==
  ASSUME SignInInv, ChanceInv, NEW s \in Sessions, NEW b \in Browsers, Refresh(s, b)
  PROVE  ChanceInv'
  <1> DEFINE c == browser[b].cookie
             st == Request("save", "refresh", b, account.evictions, c, refresh[c].state = "live", 0)
  <1>1. /\ st.pc = "save" /\ st.kind = "refresh" /\ st.token = 0 /\ st.from = b /\ st.row = c
        /\ c # 0
    BY DEF Refresh, Request
  <1>2. session' = [session EXCEPT ![s] = st]
    BY DEF Set, Refresh
  <1> HIDE DEF st
  <1>3. QED
    BY <1>1, <1>2, LoadStep DEF Refresh, At

LEMMA RevokeAllChance ==
  ASSUME SignInInv, ChanceInv, NEW s \in Sessions, RevokeAll(s)
  PROVE  ChanceInv'
  <1> DEFINE st == [session[s] EXCEPT !.pc = "commit", !.row = Len(refresh)]
  <1>1. session[s] \in SessionState /\ session[s].pc = "evict"
    BY ChanceTypes DEF RevokeAll, At
  <1>2. session[s].token = 0 /\ session[s].kind # "refresh"
    BY <1>1 DEF ChanceInv, TokensInFlight, KindsFit
  <1>3. st.pc = "commit" /\ st.kind = session[s].kind /\ st.token = session[s].token
    BY <1>1 DEF SessionState
  <1>4. session' = [session EXCEPT ![s] = st]
    BY DEF Set, RevokeAll
  <1> HIDE DEF st
  <1>5. QED
    BY <1>1, <1>2, <1>3, <1>4, LoadStep DEF RevokeAll

\* What a request answers with.
LEMMA AnswerFields ==
  ASSUME NEW kind, NEW b, NEW row, NEW token
  PROVE  LET st == Request("answer", kind, b, 0, row, FALSE, token)
         IN  st.pc = "answer" /\ st.kind = kind /\ st.from = b /\ st.row = row /\ st.token = token
  BY DEF Request

LEMMA NewTokenAlive ==
  ASSUME SignInInv, NEW s \in Sessions
  PROVE  Alive(NewToken(s), account.evictions) /\ NewToken(s).born <= account.evictions
  BY DEF NewToken, Alive, SignInInv, RequestsKnow, Knows

LEMMA SaveSignInChance ==
  ASSUME SignInInv, ChanceInv, NEW s \in Sessions, SaveSignIn(s)
  PROVE  ChanceInv'
  <1>1. session[s].pc = "save" /\ session[s].kind \in {"register", "login"} /\ browser' = browser
    BY DEF SaveSignIn, At
  <1>2. CASE Set(s, Idle) /\ UNCHANGED <<account, refresh>>
    BY <1>1, <1>2, EndsQuietly
  <1>3. CASE /\ Answer(s, 0, Len(refresh) + 1)
             /\ account' = [account EXCEPT !.state = IF @ = "absent" THEN "active" ELSE @]
             /\ refresh' = Append(refresh, NewToken(s))
    <2> DEFINE st == Request("answer", session[s].kind, session[s].from, 0, 0, FALSE, Len(refresh) + 1)
    <2>0. session' = [session EXCEPT ![s] = st]
      BY <1>3 DEF Answer, Set
    <2>1. st.pc = "answer" /\ st.kind = session[s].kind /\ st.token = Len(refresh) + 1
      BY DEF Request
    <2> HIDE DEF st
    <2>2. account'.evictions = account.evictions
      BY <1>3 DEF SignInInv, TypeOK, Account
    <2>3. /\ Len(refresh') = Len(refresh) + 1 /\ Len(refresh) \in Nat
          /\ \A i \in 1..Len(refresh) : refresh'[i] = refresh[i]
          /\ refresh'[Len(refresh) + 1] = NewToken(s)
      BY <1>3, ChanceTypes, NewTokenKept, AppendToken DEF SignInInv
    <2>4. Alive(refresh'[st.token], account'.evictions)
      <3>1. Alive(NewToken(s), account.evictions)
        BY NewTokenAlive
      <3>2. QED
        BY <2>1, <2>2, <2>3, <3>1
    <2>8. BornKnown(refresh', account'.evictions)
      <3>1. ASSUME NEW i \in 1..Len(refresh')
            PROVE  refresh'[i].born <= account'.evictions
        <4>1. CASE i <= Len(refresh)
          BY <2>2, <2>3, <4>1 DEF ChanceInv, BornKnown
        <4>2. CASE i = Len(refresh) + 1
          BY <2>2, <2>3, <4>2, NewTokenAlive
        <4>3. QED
          BY <2>3, <4>1, <4>2
      <3>2. QED
        BY <3>1 DEF BornKnown
    <2>5. /\ \A r \in Sessions :
                session[r].token # 0 => Alive(refresh'[session[r].token], account'.evictions)
          /\ \A b \in Browsers :
                LET c == browser[b].cookie
                IN  c # 0 =>
                      /\ refresh'[c].state = "dead" =>
                            browser[b].lost \/ refresh'[c].born < account'.evictions \/ LoggingOut(b)
                      /\ refresh'[c].state = "grace" => browser[b].lost \/ Exchanging(b, c)
      BY <2>2, <2>3, SameExcuses
    <2>6. st.token # 0 /\ st.kind # "refresh"
      BY <1>1, <2>1, <2>3
    <2>7. QED
      BY <1>1, <2>0, <2>1, <2>4, <2>5, <2>6, <2>8, ChanceStep
  <1>4. QED
    BY <1>2, <1>3 DEF SaveSignIn

\* The exchanged token is nobody's but this browser's, which gets its successor.
LEMMA SaveRefreshChance ==
  ASSUME SignInInv, ChanceInv, NEW s \in Sessions, SaveRefresh(s)
  PROVE  ChanceInv'
  <1> DEFINE i == session[s].row
             row == refresh[i]
             grace == Revoked(row, "grace")
             late == [grace EXCEPT !.escaped = grace.escaped \/ session[s].born # account.evictions]
             rotated == IF session[s].live THEN late ELSE row
             mid == [refresh EXCEPT ![i] = rotated]
             st == Request("answer", session[s].kind, session[s].from, 0, i, FALSE, Len(refresh) + 1)
  <1>1. /\ session[s].pc = "save" /\ session[s].kind = "refresh"
        /\ i \in 1..Len(refresh) /\ row \in Token
    BY TypeFacts DEF SignInInv, RequestsKnow, Knows, SaveRefresh, At, Serves
  <1>2. grace \in Token /\ grace.born = row.born
        /\ grace.state = IF row.state = "lapsed" THEN "lapsed" ELSE "grace"
    BY <1>1, RevokedToken
  <1>3. late \in Token /\ late.state = grace.state /\ late.born = row.born
    BY <1>2 DEF Token
  <1>4. /\ rotated \in Token /\ rotated.born = row.born
        /\ rotated.state = "dead" => row.state = "dead"
    BY <1>1, <1>2, <1>3
  <1>5. /\ refresh' = Append(mid, NewToken(s)) /\ UNCHANGED <<account, browser>>
        /\ session' = [session EXCEPT ![s] = st]
    BY <1>1, <1>2 DEF SaveRefresh, Answer, Set
  <1>6. /\ mid \in Seq(Token) /\ Len(mid) = Len(refresh)
        /\ \A j \in 1..Len(refresh) : mid[j] = IF j = i THEN rotated ELSE refresh[j]
    <2> HIDE DEF i, rotated
    <2>1. QED
      BY <1>1, <1>4, ChanceTypes, WriteToken DEF mid
  <1>7. st.pc = "answer" /\ st.kind = "refresh" /\ st.from = session[s].from
        /\ st.row = i /\ st.token = Len(refresh) + 1
    BY <1>1 DEF Request
  <1> HIDE DEF i, row, grace, late, rotated, mid, st
  <1>8. /\ Len(refresh') = Len(refresh) + 1 /\ Len(refresh) \in Nat
        /\ \A j \in 1..Len(refresh) : refresh'[j] = IF j = i THEN rotated ELSE refresh[j]
        /\ refresh'[Len(refresh) + 1] = NewToken(s)
    BY <1>5, <1>6, ChanceTypes, NewTokenKept, AppendToken DEF SignInInv
  <1>9. Alive(refresh'[st.token], account'.evictions)
    <2>1. Alive(NewToken(s), account.evictions)
      BY NewTokenAlive
    <2>2. QED
      BY <1>5, <1>7, <1>8, <2>1
  <1>10. BornKnown(refresh', account'.evictions)
    <2>1. ASSUME NEW j \in 1..Len(refresh')
          PROVE  refresh'[j].born <= account'.evictions
      <3>1. CASE j <= Len(refresh)
        <4>1. j \in 1..Len(refresh) /\ refresh[j].born <= account.evictions
          BY <1>8, <3>1 DEF ChanceInv, BornKnown
        <4>2. QED
          BY <1>4, <1>5, <1>8, <4>1 DEF row
      <3>2. CASE j = Len(refresh) + 1
        BY <1>5, <1>8, <3>2, NewTokenAlive
      <3>3. QED
        BY <1>8, <3>1, <3>2
    <2>2. QED
      BY <2>1 DEF BornKnown
  <1>11. ASSUME NEW r \in Sessions, session[r].token # 0
         PROVE  Alive(refresh'[session[r].token], account'.evictions)
    <2> DEFINE t == session[r].token
    <2>1. t \in 1..Len(refresh) /\ Unclaimed(r, t) /\ Alive(refresh[t], account.evictions)
      BY <1>11, ChanceTypes DEF ChanceInv, TokensInFlight
    <2>2. t # i
      BY <1>1, <2>1 DEF Unclaimed, i
    <2> HIDE DEF t
    <2>3. Alive(refresh'[t], account'.evictions)
      BY <1>5, <1>8, <2>1, <2>2
    <2>4. QED
      BY <2>3 DEF t
  <1>12. ASSUME NEW b \in Browsers, browser[b].cookie # 0
         PROVE  LET c == browser[b].cookie
                IN  /\ refresh'[c].state = "dead" =>
                          browser[b].lost \/ refresh'[c].born < account'.evictions \/ LoggingOut(b)
                    /\ refresh'[c].state = "grace" =>
                          \/ browser[b].lost \/ Exchanging(b, c)
                          \/ st.pc = "answer" /\ st.kind = "refresh" /\ st.from = b /\ st.row = c
    <2> DEFINE c == browser[b].cookie
    <2>1. /\ c \in 1..Len(refresh)
          /\ refresh[c].state = "dead" =>
                browser[b].lost \/ refresh[c].born < account.evictions \/ LoggingOut(b)
          /\ refresh[c].state = "grace" => browser[b].lost \/ Exchanging(b, c)
      BY <1>12, ChanceTypes DEF ChanceInv, Excused
    <2>2. c = i => session[s].from = b
      BY <1>1 DEF ChanceInv, Owned, i
    <2> HIDE DEF c
    <2>3. /\ refresh'[c].state = "dead" =>
                browser[b].lost \/ refresh'[c].born < account'.evictions \/ LoggingOut(b)
          /\ refresh'[c].state = "grace" =>
                \/ browser[b].lost \/ Exchanging(b, c)
                \/ st.pc = "answer" /\ st.kind = "refresh" /\ st.from = b /\ st.row = c
      <3>1. CASE c = i
        BY <1>4, <1>5, <1>7, <1>8, <2>1, <2>2, <3>1 DEF row
      <3>2. CASE c # i
        BY <1>5, <1>8, <2>1, <3>2
      <3>3. QED
        BY <3>1, <3>2
    <2>4. QED
      BY <2>3 DEF c
  <1>13. st.row \in 1..Len(refresh) /\ session[s].row = st.row /\ session[s].from = st.from
    BY <1>1, <1>7 DEF i
  <1>14. st.token # 0
    BY <1>7, <1>8
  <1>15. QED
    BY <1>1, <1>5, <1>7, <1>9, <1>10, <1>11, <1>12, <1>13, <1>14, ChanceStep

\* Signing out ends a token no answer is on its way with, and says whose it was.
LEMMA LogOutChance ==
  ASSUME SignInInv, ChanceInv, NEW s \in Sessions, NEW x \in Browsers, LogOut(s, x)
  PROVE  ChanceInv'
  <1> DEFINE i == browser[x].cookie
             dead == Revoked(refresh[i], "dead")
             st == Request("answer", "logout", x, 0, 0, FALSE, 0)
  <1>1. /\ i \in 1..Len(refresh) /\ refresh[i] \in Token /\ session[s].pc = "idle"
        /\ UNCHANGED <<account, browser>>
    BY TypeFacts DEF SignInInv, LogOut, At
  <1>2. dead \in Token /\ dead.born = refresh[i].born /\ dead.state \in {"dead", "lapsed"}
    BY <1>1, RevokedToken
  <1>3. refresh' = [refresh EXCEPT ![i] = dead] /\ session' = [session EXCEPT ![s] = st]
    BY DEF LogOut, Set
  <1>4. st.pc = "answer" /\ st.kind = "logout" /\ st.from = x /\ st.token = 0
    BY DEF Request
  <1> HIDE DEF i, dead, st
  <1>5. /\ Len(refresh') = Len(refresh) /\ Len(refresh) \in Nat
        /\ \A j \in 1..Len(refresh) : refresh'[j] = IF j = i THEN dead ELSE refresh[j]
    BY <1>1, <1>2, <1>3, ChanceTypes, WriteToken
  <1>6. BornKnown(refresh', account'.evictions)
    BY <1>1, <1>2, <1>5 DEF ChanceInv, BornKnown
  <1>7. ASSUME NEW r \in Sessions, session[r].token # 0
        PROVE  Alive(refresh'[session[r].token], account'.evictions)
    <2> DEFINE t == session[r].token
    <2>1. t \in 1..Len(refresh) /\ Unclaimed(r, t) /\ Alive(refresh[t], account.evictions)
      BY <1>7, ChanceTypes DEF ChanceInv, TokensInFlight
    <2>2. t # i
      BY <2>1 DEF Unclaimed, i
    <2> HIDE DEF t
    <2>3. Alive(refresh'[t], account'.evictions)
      BY <1>1, <1>5, <2>1, <2>2
    <2>4. QED
      BY <2>3 DEF t
  <1>8. ASSUME NEW b \in Browsers, browser[b].cookie # 0
        PROVE  LET c == browser[b].cookie
               IN  /\ refresh'[c].state = "dead" =>
                         \/ browser[b].lost \/ refresh'[c].born < account'.evictions \/ LoggingOut(b)
                         \/ st.pc = "answer" /\ st.kind = "logout" /\ st.from = b
                   /\ refresh'[c].state = "grace" => browser[b].lost \/ Exchanging(b, c)
    <2> DEFINE c == browser[b].cookie
    <2>1. /\ c \in 1..Len(refresh)
          /\ refresh[c].state = "dead" =>
                browser[b].lost \/ refresh[c].born < account.evictions \/ LoggingOut(b)
          /\ refresh[c].state = "grace" => browser[b].lost \/ Exchanging(b, c)
      BY <1>8, ChanceTypes DEF ChanceInv, Excused
    <2>2. c = i => b = x
      BY <1>8 DEF ChanceInv, Owned, i
    <2> HIDE DEF c
    <2>3. /\ refresh'[c].state = "dead" =>
                \/ browser[b].lost \/ refresh'[c].born < account'.evictions \/ LoggingOut(b)
                \/ st.pc = "answer" /\ st.kind = "logout" /\ st.from = b
          /\ refresh'[c].state = "grace" => browser[b].lost \/ Exchanging(b, c)
      BY <1>1, <1>2, <1>4, <1>5, <2>1, <2>2
    <2>4. QED
      BY <2>3 DEF c
  <1>9. QED
    BY <1>1, <1>3, <1>4, <1>6, <1>7, <1>8, ChanceStep

\* After an eviction, every token there was is older than it.
LEMMA EvictedRow ==
  ASSUME SignInInv, NEW s \in Sessions, NEW i \in 1..Len(refresh)
  PROVE  /\ Evicted(s)[i].born = refresh[i].born
         /\ \/ Evicted(s)[i].state = refresh[i].state
            \/ Evicted(s)[i].state \in {"dead", "lapsed"}
  <1> DEFINE dead == Revoked(refresh[i], "dead")
             ended == [dead EXCEPT !.escaped = FALSE]
             missed == [refresh[i] EXCEPT !.escaped = TRUE]
  <1>1. refresh[i] \in Token /\ DOMAIN refresh = 1..Len(refresh)
    BY TypeFacts DEF SignInInv
  <1>2. dead \in Token /\ dead.born = refresh[i].born /\ dead.state \in {"dead", "lapsed"}
    BY <1>1, RevokedToken
  <1>3. Evicted(s)[i] = IF i <= session[s].row THEN ended ELSE missed
    BY <1>1 DEF Evicted
  <1>4. missed.born = refresh[i].born /\ missed.state = refresh[i].state
    BY <1>1 DEF Token
  <1> HIDE DEF dead
  <1>5. ended.born = refresh[i].born /\ ended.state \in {"dead", "lapsed"}
    BY <1>2 DEF Token
  <1> HIDE DEF ended, missed
  <1>6. QED
    BY <1>3, <1>4, <1>5

\* However the request goes on that ended every session.
LEMMA EvictionChance ==
  ASSUME SignInInv, ChanceInv, NEW s \in Sessions, NEW st, session[s].pc = "commit",
         session' = [session EXCEPT ![s] = st], browser' = browser,
         account'.evictions = account.evictions + 1,
         Len(refresh') >= Len(refresh), Len(refresh') \in Nat,
         \A i \in 1..Len(refresh) : refresh'[i] = Evicted(s)[i],
         \A i \in 1..Len(refresh') :
             i > Len(refresh) => refresh'[i].state = "live" /\ refresh'[i].born = account'.evictions,
         st.pc \in {"idle", "answer"}, st.kind # "refresh",
         st.token # 0 => st.pc = "answer" /\ st.token = Len(refresh) + 1 /\ st.token = Len(refresh'),
         st.pc = "answer" => st.token # 0
  PROVE  ChanceInv'
  <1>1. /\ account.evictions \in Nat /\ Len(refresh) \in Nat
        /\ \A i \in 1..Len(refresh) : refresh[i] \in Token /\ refresh[i].born <= account.evictions
    BY ChanceTypes, TypeFacts DEF SignInInv, ChanceInv, BornKnown
  <1>2. ASSUME NEW i \in 1..Len(refresh)
        PROVE  /\ refresh'[i].born < account'.evictions
               /\ refresh'[i].state = refresh[i].state \/ refresh'[i].state \in {"dead", "lapsed"}
               /\ refresh[i].state \in {"live", "grace", "dead", "lapsed"}
    <2>1. refresh'[i].born = refresh[i].born /\ refresh[i].born \in 0..MaxEvictions
      BY <1>1, EvictedRow DEF Token
    <2>2. refresh'[i].state = refresh[i].state \/ refresh'[i].state \in {"dead", "lapsed"}
      BY EvictedRow
    <2>3. QED
      BY <1>1, <2>1, <2>2, SignInAssumption DEF Token
  <1>3. BornKnown(refresh', account'.evictions)
    <2>1. ASSUME NEW i \in 1..Len(refresh')
          PROVE  refresh'[i].born <= account'.evictions
      <3>1. CASE i <= Len(refresh)
        <4>1. i \in 1..Len(refresh)
          BY <1>1, <3>1
        <4>2. refresh'[i].born = refresh[i].born /\ refresh[i].born \in 0..MaxEvictions
          BY <1>1, <4>1, EvictedRow DEF Token
        <4>3. QED
          BY <1>1, <1>2, <4>1, <4>2, SignInAssumption
      <3>2. CASE i > Len(refresh)
        BY <1>1, <3>2
      <3>3. QED
        BY <1>1, <3>1, <3>2
    <2>2. QED
      BY <2>1 DEF BornKnown
  <1>4. ASSUME NEW r \in Sessions, session[r].token # 0
        PROVE  Alive(refresh'[session[r].token], account'.evictions)
    <2> DEFINE t == session[r].token
    <2>1. t \in 1..Len(refresh) /\ Alive(refresh[t], account.evictions)
      BY <1>4, ChanceTypes DEF ChanceInv, TokensInFlight
    <2> HIDE DEF t
    <2>2. Alive(refresh'[t], account'.evictions)
      BY <1>2, <2>1 DEF Alive
    <2>3. QED
      BY <2>2 DEF t
  <1>5. ASSUME NEW b \in Browsers, browser[b].cookie # 0
        PROVE  LET c == browser[b].cookie
               IN  /\ refresh'[c].state = "dead" =>
                         browser[b].lost \/ refresh'[c].born < account'.evictions \/ LoggingOut(b)
                   /\ refresh'[c].state = "grace" => browser[b].lost \/ Exchanging(b, c)
    <2> DEFINE c == browser[b].cookie
    <2>1. c \in 1..Len(refresh) /\ (refresh[c].state = "grace" => browser[b].lost \/ Exchanging(b, c))
      BY <1>5, ChanceTypes DEF ChanceInv, Excused
    <2> HIDE DEF c
    <2>2. /\ refresh'[c].state = "dead" =>
                browser[b].lost \/ refresh'[c].born < account'.evictions \/ LoggingOut(b)
          /\ refresh'[c].state = "grace" => browser[b].lost \/ Exchanging(b, c)
      BY <1>2, <2>1
    <2>3. QED
      BY <2>2 DEF c
  <1>6. st.token # 0 => Alive(refresh'[st.token], account'.evictions)
    BY <1>1 DEF Alive
  <1>7. session[s].pc # "answer" /\ st.pc \notin {"evict", "commit"}
    OBVIOUS
  <1>8. QED
    BY <1>3, <1>4, <1>5, <1>6, <1>7, ChanceStep

LEMMA EndSessionsChance ==
  ASSUME SignInInv, ChanceInv, NEW s \in Sessions, EndSessions(s)
  PROVE  ChanceInv'
  <1> DEFINE now == account.evictions + 1
  <1>1. session[s].pc = "commit" /\ browser' = browser /\ session[s].kind # "refresh"
    BY DEF EndSessions, At, ChanceInv, KindsFit
  <1>2. Evicted(s) \in Seq(Token) /\ Len(Evicted(s)) = Len(refresh)
        /\ Len(refresh) \in Nat /\ now \in 0..MaxEvictions
    <2>1. 0 \in Nat /\ Len(refresh) \in Nat /\ account.evictions \in 0..MaxEvictions /\ MaxEvictions \in Nat
      BY TypeFacts DEF SignInInv
    <2>2. account.evictions < MaxEvictions
      BY DEF EndSessions
    <2>3. QED
      BY <2>1, <2>2, EvictedRows
  <1>3. CASE Serves(s, "deactivate")
    <2>1. /\ account' = [state |-> "off", evictions |-> now] /\ refresh' = Evicted(s)
          /\ session' = [session EXCEPT ![s] = Idle]
      BY <1>3 DEF EndSessions, Set
    <2>2. account'.evictions = account.evictions + 1 /\ Len(refresh') = Len(refresh)
          /\ \A i \in 1..Len(refresh) : refresh'[i] = Evicted(s)[i]
      BY <1>2, <2>1
    <2>3. /\ Len(refresh') >= Len(refresh) /\ Len(refresh') \in Nat
          /\ \A i \in 1..Len(refresh') : ~(i > Len(refresh))
      BY <1>2, <2>2
    <2>4. /\ Idle.pc \in {"idle", "answer"} /\ Idle.kind # "refresh" /\ Idle.token = 0
          /\ Idle.pc # "answer"
      BY IdleFields
    <2>5. QED
      BY <1>1, <2>1, <2>2, <2>3, <2>4, EvictionChance
  <1>4. CASE ~Serves(s, "deactivate")
    <2> DEFINE new == [state |-> "live", born |-> now, escaped |-> FALSE]
               st == Request("answer", session[s].kind, session[s].from, 0, 0, FALSE, Len(refresh) + 1)
    <2>1. /\ account' = [account EXCEPT !.evictions = now]
          /\ refresh' = Append(Evicted(s), new)
          /\ session' = [session EXCEPT ![s] = st]
      BY <1>4 DEF EndSessions, Answer, Set
    <2>2. account'.evictions = now
      BY <2>1 DEF SignInInv, TypeOK, Account
    <2>3. new \in Token /\ new.state = "live" /\ new.born = now
      BY <1>2 DEF Token
    <2>4. st.pc = "answer" /\ st.kind = session[s].kind /\ st.token = Len(refresh) + 1
      BY DEF Request
    <2> HIDE DEF new, st
    <2>5. /\ Len(refresh') = Len(refresh) + 1
          /\ \A i \in 1..Len(refresh) : refresh'[i] = Evicted(s)[i]
          /\ refresh'[Len(refresh) + 1] = new
      BY <1>2, <2>1, <2>3, AppendToken
    <2>6. \A i \in 1..Len(refresh') :
              i > Len(refresh) => refresh'[i].state = "live" /\ refresh'[i].born = account'.evictions
      <3>1. \A i \in 1..Len(refresh') : i > Len(refresh) => i = Len(refresh) + 1
        BY <1>2, <2>5
      <3>2. QED
        BY <2>2, <2>3, <2>5, <3>1
    <2>7. /\ Len(refresh') >= Len(refresh) /\ Len(refresh') \in Nat
          /\ st.token # 0 /\ st.token = Len(refresh')
          /\ account'.evictions = account.evictions + 1
      BY <1>2, <2>2, <2>4, <2>5
    <2>8. st.pc \in {"idle", "answer"} /\ st.kind # "refresh"
      BY <1>1, <2>4
    <2>9. QED
      BY <1>1, <2>1, <2>4, <2>5, <2>6, <2>7, <2>8, EvictionChance
  <1>5. QED
    BY <1>3, <1>4

-----------------------------------------------------------------------------
(* Time, an admin, a browser that gives up, an answer.                     *)

\* A step of no request: tokens stop, cookies are dropped.
LEMMA ChanceQuiet ==
  ASSUME SignInInv, ChanceInv, session' = session, account'.evictions = account.evictions,
         Len(refresh') = Len(refresh),
         \A i \in 1..Len(refresh) :
             /\ refresh'[i].born = refresh[i].born
             /\ \/ refresh'[i].state = refresh[i].state
                \/ refresh'[i].state = "lapsed"
                \/ /\ refresh'[i].state = "dead" /\ refresh[i].state = "grace"
                   /\ \A s \in Sessions : session[s].pc = "answer" => session[s].row # i,
         \A b \in Browsers : /\ browser'[b].cookie \in {0, browser[b].cookie}
                             /\ browser'[b].lost = browser[b].lost
  PROVE  ChanceInv'
  <1>1. ASSUME NEW s \in Sessions, session'[s].token # 0
        PROVE  /\ session'[s].pc = "answer"
               /\ \A b \in Browsers : browser'[b].cookie # session'[s].token
               /\ \A r \in Sessions : /\ r # s => session'[r].token # session'[s].token
                                      /\ session'[r].kind = "refresh" => session'[r].row # session'[s].token
               /\ Alive(refresh'[session'[s].token], account'.evictions)
    <2> DEFINE t == session[s].token
    <2>1. /\ t \in 1..Len(refresh) /\ t # 0 /\ session[s].pc = "answer" /\ Unclaimed(s, t)
          /\ Alive(refresh[t], account.evictions) /\ session'[s].token = t
      BY <1>1, ChanceTypes DEF ChanceInv, TokensInFlight
    <2> HIDE DEF t
    <2>2. Alive(refresh'[t], account'.evictions)
      BY <2>1 DEF Alive
    <2>3. \A b \in Browsers : browser'[b].cookie # t
      BY <2>1 DEF Unclaimed
    <2>4. QED
      BY <2>1, <2>2, <2>3 DEF Unclaimed
  <1>2. TokensInFlight'
    BY <1>1 DEF TokensInFlight, Unclaimed
  <1>3. KindsFit'
    BY DEF ChanceInv, KindsFit
  <1>4. Owned'
    <2>1. ASSUME NEW s \in Sessions, NEW b \in Browsers,
                 session'[s].kind = "refresh", session'[s].row = browser'[b].cookie
          PROVE  session'[s].from = b
      BY <2>1 DEF ChanceInv, Owned, KindsFit
    <2>2. QED
      BY <2>1 DEF ChanceInv, Owned
  <1>5. ASSUME NEW b \in Browsers
        PROVE  Excused(b, refresh, account.evictions)'
    <2> DEFINE c == browser[b].cookie
    <2>1. CASE browser'[b].cookie = 0
      BY <2>1 DEF Excused
    <2>2. CASE browser'[b].cookie # 0
      <3>1. /\ c \in 1..Len(refresh) /\ browser'[b].cookie = c
            /\ refresh[c].state = "dead" =>
                  browser[b].lost \/ refresh[c].born < account.evictions \/ LoggingOut(b)
            /\ refresh[c].state = "grace" => browser[b].lost \/ Exchanging(b, c)
        BY <2>2, ChanceTypes DEF ChanceInv, Excused
      <3> HIDE DEF c
      <3>2. LoggingOut(b)' = LoggingOut(b)
        BY DEF LoggingOut
      <3>3. (\E s \in Sessions : /\ session'[s].pc = "answer" /\ session'[s].kind = "refresh"
                                 /\ session'[s].from = b /\ session'[s].row = c)
            <=> Exchanging(b, c)
        BY DEF Exchanging
      <3>4. refresh'[c].state = "dead" =>
                browser'[b].lost \/ refresh'[c].born < account'.evictions \/ LoggingOut(b)
        BY <3>1 DEF Exchanging
      <3>5. refresh'[c].state = "grace" => browser'[b].lost \/ Exchanging(b, c)
        BY <3>1
      <3>6. QED
        BY <3>1, <3>2, <3>3, <3>4, <3>5 DEF Excused, Exchanging
    <2>3. QED
      BY <2>1, <2>2
  <1>6. BornKnown(refresh', account'.evictions)
    BY DEF ChanceInv, BornKnown
  <1>7. QED
    BY <1>2, <1>3, <1>4, <1>5, <1>6 DEF ChanceInv

LEMMA TimeChance ==
  ASSUME SignInInv, ChanceInv, NEW i \in DOMAIN refresh, GraceEnds(i) \/ Lapse(i)
  PROVE  ChanceInv'
  <1> DEFINE dead == [refresh[i] EXCEPT !.state = "dead"]
             lapsed == [refresh[i] EXCEPT !.state = "lapsed"]
  <1>1. /\ i \in 1..Len(refresh) /\ refresh[i] \in Token
        /\ UNCHANGED <<account, browser, session>>
    BY TypeFacts DEF SignInInv, GraceEnds, Lapse
  <1>2. /\ dead \in Token /\ dead.state = "dead" /\ dead.born = refresh[i].born
        /\ lapsed \in Token /\ lapsed.state = "lapsed" /\ lapsed.born = refresh[i].born
    BY <1>1 DEF Token
  <1>3. CASE GraceEnds(i)
    <2>1. refresh' = [refresh EXCEPT ![i] = dead] /\ refresh[i].state = "grace"
          /\ \A s \in Sessions : session[s].pc = "answer" => session[s].row # i
      BY <1>3 DEF GraceEnds, At
    <2> HIDE DEF dead
    <2>2. /\ Len(refresh') = Len(refresh)
          /\ \A j \in 1..Len(refresh) : refresh'[j] = IF j = i THEN dead ELSE refresh[j]
      BY <1>1, <1>2, <2>1, ChanceTypes, WriteToken
    <2>3. QED
      BY <1>1, <1>2, <2>1, <2>2, ChanceQuiet
  <1>4. CASE Lapse(i)
    <2>1. refresh' = [refresh EXCEPT ![i] = lapsed]
      BY <1>4 DEF Lapse
    <2> HIDE DEF lapsed
    <2>2. /\ Len(refresh') = Len(refresh)
          /\ \A j \in 1..Len(refresh) : refresh'[j] = IF j = i THEN lapsed ELSE refresh[j]
      BY <1>1, <1>2, <2>1, ChanceTypes, WriteToken
    <2>3. QED
      BY <1>1, <1>2, <2>2, ChanceQuiet
  <1>5. QED
    BY <1>3, <1>4

LEMMA RefusedChance ==
  ASSUME SignInInv, ChanceInv, NEW x \in Browsers, RefreshRefused(x)
  PROVE  ChanceInv'
  <1> DEFINE gone == [browser[x] EXCEPT !.cookie = 0]
  <1>1. gone.cookie = 0 /\ gone.lost = browser[x].lost
    BY ChanceTypes DEF Browser
  <1>2. browser' = [browser EXCEPT ![x] = gone] /\ UNCHANGED <<account, refresh, session>>
    BY DEF RefreshRefused
  <1> HIDE DEF gone
  <1>3. \A b \in Browsers : browser'[b] = IF b = x THEN gone ELSE browser[b]
    BY <1>2, ChanceTypes
  <1>4. QED
    BY <1>1, <1>2, <1>3, ChanceQuiet

LEMMA ActivateChance ==
  ASSUME SignInInv, ChanceInv, Activate
  PROVE  ChanceInv'
  <1>1. account'.evictions = account.evictions /\ UNCHANGED <<refresh, browser, session>>
    BY DEF Activate, SignInInv, TypeOK, Account
  <1>2. QED
    BY <1>1, ChanceQuiet

\* What an answer does to a browser.
LEMMA Delivered ==
  ASSUME SignInInv, NEW s \in Sessions, Deliver(s), NEW b \in Browsers
  PROVE  IF session[s].from = b
         THEN \/ browser'[b].cookie = session[s].token
              \/ browser'[b].cookie = browser[b].cookie /\ browser'[b].lost
         ELSE browser'[b] = browser[b]
  <1> DEFINE f == session[s].from
             kept == [cookie |-> session[s].token, lost |-> FALSE]
             missed == [browser[f] EXCEPT !.lost = TRUE]
  <1>1. \/ browser' = [browser EXCEPT ![f] = kept]
        \/ browser' = [browser EXCEPT ![f] = missed]
    BY DEF Deliver
  <1>2. kept.cookie = session[s].token
    OBVIOUS
  <1>3. f = b => missed.cookie = browser[b].cookie /\ missed.lost
    <2>1. browser[b] \in Browser
      BY ChanceTypes
    <2> HIDE DEF f
    <2>2. QED
      BY <2>1 DEF Browser
  <1>4. browser \in [Browsers -> Browser]
    BY ChanceTypes
  <1> HIDE DEF kept, missed
  <1>5. QED
    BY <1>1, <1>2, <1>3, <1>4

LEMMA DeliverChance ==
  ASSUME SignInInv, ChanceInv, NEW s \in Sessions, Deliver(s)
  PROVE  ChanceInv'
  <1> DEFINE f == session[s].from
             t == session[s].token
  <1>1. /\ session[s].pc = "answer" /\ UNCHANGED <<account, refresh>>
        /\ \A r \in Sessions : session'[r] = IF r = s THEN Idle ELSE session[r]
    BY ChanceTypes DEF Deliver, At, Set
  <1>2. \A b \in Browsers :
            IF f = b
            THEN \/ browser'[b].cookie = t
                 \/ browser'[b].cookie = browser[b].cookie /\ browser'[b].lost
            ELSE browser'[b] = browser[b]
    BY Delivered
  <1>3. t # 0 => Unclaimed(s, t) /\ Alive(refresh[t], account.evictions)
    BY DEF ChanceInv, TokensInFlight
  <1>4. Idle.pc = "idle" /\ Idle.kind = "none" /\ Idle.token = 0
    BY IdleFields
  <1> HIDE DEF f, t
  <1>5. ASSUME NEW r \in Sessions, session'[r].token # 0
        PROVE  /\ session'[r].pc = "answer"
               /\ \A b \in Browsers : browser'[b].cookie # session'[r].token
               /\ \A q \in Sessions : /\ q # r => session'[q].token # session'[r].token
                                      /\ session'[q].kind = "refresh" => session'[q].row # session'[r].token
               /\ Alive(refresh'[session'[r].token], account'.evictions)
    <2> DEFINE u == session[r].token
    <2>1. r # s /\ session'[r] = session[r] /\ u # 0
      BY <1>1, <1>4, <1>5
    <2>2. /\ session[r].pc = "answer" /\ Unclaimed(r, u) /\ Alive(refresh[u], account.evictions)
      BY <2>1 DEF ChanceInv, TokensInFlight
    <2>3. t # u
      BY <2>1, <2>2 DEF Unclaimed, t
    <2> HIDE DEF u
    <2>4. \A b \in Browsers : browser'[b].cookie # u
      BY <1>2, <2>2, <2>3 DEF Unclaimed
    <2>5. \A q \in Sessions : /\ q # r => session'[q].token # u
                              /\ session'[q].kind = "refresh" => session'[q].row # u
      BY <1>1, <1>4, <2>1, <2>2 DEF Unclaimed
    <2>6. QED
      BY <1>1, <2>1, <2>2, <2>4, <2>5 DEF u
  <1>6. TokensInFlight'
    BY <1>5 DEF TokensInFlight, Unclaimed
  <1>7. KindsFit'
    BY <1>1, <1>4 DEF ChanceInv, KindsFit
  <1>8. Owned'
    <2>1. ASSUME NEW r \in Sessions, NEW b \in Browsers,
                 session'[r].kind = "refresh", session'[r].row = browser'[b].cookie
          PROVE  session'[r].from = b
      <3>1. session'[r] = session[r] /\ session[r].row # 0
        BY <1>1, <1>4, <2>1 DEF ChanceInv, KindsFit
      <3>2. browser'[b].cookie # t \/ browser'[b].cookie = browser[b].cookie
        BY <1>3, <2>1, <3>1 DEF Unclaimed
      <3>3. browser'[b].cookie = browser[b].cookie
        BY <1>2, <3>2
      <3>4. QED
        BY <2>1, <3>1, <3>3 DEF ChanceInv, Owned
    <2>2. ASSUME NEW a \in Browsers, NEW b \in Browsers, a # b, browser'[a].cookie # 0
          PROVE  browser'[a].cookie # browser'[b].cookie
      <3>1. \A x \in Browsers : browser'[x].cookie = browser[x].cookie
                                \/ (f = x /\ browser'[x].cookie = t)
        BY <1>2
      <3>2. t # 0 => browser[a].cookie # t /\ browser[b].cookie # t
        BY <1>3 DEF Unclaimed
      <3>3. browser[a].cookie # 0 => browser[a].cookie # browser[b].cookie
        BY <2>2 DEF ChanceInv, Owned
      <3>4. QED
        BY <2>2, <3>1, <3>2, <3>3
    <2>3. QED
      BY <2>1, <2>2 DEF Owned
  <1>9. ASSUME NEW b \in Browsers
        PROVE  Excused(b, refresh, account.evictions)'
    <2> DEFINE c == browser[b].cookie
    <2>1. CASE browser'[b].cookie = 0
      BY <2>1 DEF Excused
    <2>2. CASE browser'[b].cookie # 0 /\ browser'[b].cookie = t /\ f = b
      <3>1. Alive(refresh'[t], account'.evictions)
        BY <1>1, <1>3, <2>2
      <3>2. QED
        BY <2>2, <3>1 DEF Excused, Alive
    <2>3. CASE browser'[b].cookie = c /\ browser'[b].lost
      BY <2>3 DEF Excused
    <2>4. CASE browser'[b] = browser[b] /\ c # 0 /\ f # b
      <3>1. /\ refresh[c].state = "dead" =>
                  browser[b].lost \/ refresh[c].born < account.evictions \/ LoggingOut(b)
            /\ refresh[c].state = "grace" => browser[b].lost \/ Exchanging(b, c)
        BY <2>4 DEF ChanceInv, Excused
      <3> HIDE DEF c
      <3>2. LoggingOut(b) => LoggingOut(b)'
        BY <1>1, <2>4 DEF LoggingOut, f
      <3>3. Exchanging(b, c) =>
              \E r \in Sessions : /\ session'[r].pc = "answer" /\ session'[r].kind = "refresh"
                                  /\ session'[r].from = b /\ session'[r].row = c
        BY <1>1, <2>4 DEF Exchanging, f
      <3>4. browser'[b].cookie = c
        BY <2>4 DEF c
      <3>5. QED
        BY <1>1, <2>4, <3>1, <3>2, <3>3, <3>4 DEF Excused, Exchanging
    <2>5. QED
      BY <1>2, <2>1, <2>2, <2>3, <2>4
  <1>10. BornKnown(refresh', account'.evictions)
    BY <1>1 DEF ChanceInv
  <1>11. QED
    BY <1>6, <1>7, <1>8, <1>9, <1>10 DEF ChanceInv

-----------------------------------------------------------------------------

LEMMA InitChance == Init => ChanceInv
  <1> SUFFICES ASSUME Init PROVE ChanceInv
    OBVIOUS
  <1>1. /\ \A s \in Sessions : session[s] = Idle
        /\ \A b \in Browsers : browser[b].cookie = 0
        /\ Len(refresh) = 0
    BY DEF Init
  <1>2. Idle.pc = "idle" /\ Idle.kind = "none" /\ Idle.token = 0
    BY IdleFields
  <1>3. TokensInFlight /\ KindsFit /\ Owned
    BY <1>1, <1>2 DEF TokensInFlight, KindsFit, Owned
  <1>4. (\A b \in Browsers : Excused(b, refresh, account.evictions))
        /\ BornKnown(refresh, account.evictions)
    BY <1>1 DEF Excused, BornKnown
  <1>5. QED
    BY <1>3, <1>4 DEF ChanceInv

LEMMA AskChance ==
  ASSUME SignInInv, ChanceInv, NEW s \in Sessions, Ask(s)
  PROVE  ChanceInv'
  <1>1. ASSUME NEW b \in Browsers, Register(s, b) PROVE ChanceInv'
    BY <1>1, BeginChance DEF Register, Kind, At
  <1>2. ASSUME NEW b \in Browsers, Login(s, b) PROVE ChanceInv'
    BY <1>2, BeginChance DEF Login, Kind, At
  <1>3. ASSUME NEW b \in Browsers, NewPassword(s, b) PROVE ChanceInv'
    BY <1>3, BeginChance DEF NewPassword, Kind, At
  <1>4. ASSUME Deactivate(s) PROVE ChanceInv'
    BY <1>4, BeginChance DEF Deactivate, Kind, At
  <1>5. QED
    BY <1>1, <1>2, <1>3, <1>4, RefreshChance, LogOutChance DEF Ask

LEMMA RollbackChance ==
  ASSUME SignInInv, ChanceInv, NEW s \in Sessions, Rollback(s)
  PROVE  ChanceInv'
  BY EndsQuietly DEF Rollback

LEMMA NextChance ==
  ASSUME SignInInv, ChanceInv, [Next]_vars
  PROVE  ChanceInv'
  <1>1. ASSUME NEW s \in Sessions, Serve(s) PROVE ChanceInv'
    BY <1>1, SaveSignInChance, SaveRefreshChance, RevokeAllChance, EndSessionsChance, DeliverChance
    DEF Serve
  <1>2. CASE UNCHANGED vars
    BY <1>2, ChanceQuiet DEF vars
  <1>3. QED
    BY <1>1, <1>2, AskChance, RollbackChance, RefusedChance, ActivateChance, TimeChance DEF Next

LEMMA ChanceHolds == Spec => [](SignInInv /\ ChanceInv)
  <1>1. SignInInv /\ ChanceInv /\ [Next]_vars => (SignInInv /\ ChanceInv)'
    BY NextInv, NextChance
  <1>2. QED
    BY <1>1, InitInv, InitChance, PTL DEF Spec

\* No step but a refused exchange and an answer writes a cookie.
LEMMA CookieSteps ==
  ASSUME [Next]_vars, browser' # browser
  PROVE  \/ \E b \in Browsers : RefreshRefused(b)
         \/ \E s \in Sessions : Deliver(s)
  BY DEF Next, vars, Ask, Serve, Rollback, Activate, GraceEnds, Lapse, Register, Login, Refresh,
         LogOut, NewPassword, Deactivate, SaveSignIn, SaveRefresh, RevokeAll, EndSessions

LEMMA LosesItsCookie ==
  ASSUME SignInInv, ChanceInv, [Next]_vars, NEW b \in Browsers,
         browser[b].cookie # 0, browser'[b].cookie = 0
  PROVE  LET c == browser[b].cookie
         IN  \/ \E s \in Sessions : session[s].from = b /\ Serves(s, "logout")
             \/ browser[b].lost \/ account.state = "off"
             \/ refresh[c].state = "lapsed" \/ refresh[c].born < account.evictions
  <1>1. ASSUME NEW x \in Browsers, RefreshRefused(x)
        PROVE  LET c == browser[b].cookie
               IN  \/ \E s \in Sessions : session[s].from = b /\ Serves(s, "logout")
                   \/ browser[b].lost \/ account.state = "off"
                   \/ refresh[c].state = "lapsed" \/ refresh[c].born < account.evictions
    <2>1. browser' = [browser EXCEPT ![x] = [browser[x] EXCEPT !.cookie = 0]]
      BY <1>1 DEF RefreshRefused
    <2>2. x = b
      BY <2>1, ChanceTypes
    <2>3. refresh[browser[b].cookie].state \in {"dead", "lapsed"} \/ account.state = "off"
      BY <1>1, <2>2 DEF RefreshRefused
    <2>4. refresh[browser[b].cookie].state = "dead" =>
             browser[b].lost \/ refresh[browser[b].cookie].born < account.evictions \/ LoggingOut(b)
      BY DEF ChanceInv, Excused
    <2>5. LoggingOut(b) => \E s \in Sessions : session[s].from = b /\ Serves(s, "logout")
      BY DEF LoggingOut, Serves
    <2>6. QED
      BY <2>3, <2>4, <2>5
  <1>2. ASSUME NEW s \in Sessions, Deliver(s)
        PROVE  \E r \in Sessions : session[r].from = b /\ Serves(r, "logout")
    <2>1. session[s].from = b /\ session[s].token = 0
      BY <1>2, Delivered
    <2>2. session[s].kind = "logout"
      BY <1>2, <2>1 DEF Deliver, At, ChanceInv, KindsFit
    <2>3. QED
      BY <2>1, <2>2 DEF Serves
  <1>3. QED
    BY <1>1, <1>2, CookieSteps

\* The grace window of sessions.rotate_refresh, for any number of browsers, tabs and
\* requests: a browser is sent to the sign-in page only when it signed out, when its
\* session lapsed or was ended with all the others, when its account is off, or when an
\* answer never reached it.  Two tabs that exchange one token together stay signed in.
THEOREM SignInNobodyOutByChance == Spec => NobodyIsSignedOutByChance
  <1> DEFINE Excuses ==
        \A b \in Browsers :
            LET c == browser[b].cookie
            IN  c # 0 /\ browser'[b].cookie = 0 =>
                   \/ \E s \in Sessions : session[s].from = b /\ Serves(s, "logout")
                   \/ browser[b].lost \/ account.state = "off"
                   \/ refresh[c].state = "lapsed" \/ refresh[c].born < account.evictions
  <1>1. SignInInv /\ ChanceInv /\ [Next]_vars => [Excuses]_vars
    <2> SUFFICES ASSUME SignInInv, ChanceInv, [Next]_vars PROVE Excuses
      OBVIOUS
    <2>1. QED
      BY LosesItsCookie
  <1>2. QED
    BY <1>1, ChanceHolds, PTL DEF Spec, NobodyIsSignedOutByChance
=============================================================================
