---------------------------- MODULE WalletProofs ----------------------------
(***************************************************************************)
(* Proofs about Wallet for every set of students, sessions and requests.   *)
(*                                                                         *)
(* LedgerExplainsBalance is not inductive alone: a step that commits must  *)
(* know that the balance it writes was computed from the balance that is   *)
(* still there.  WritersHoldTheRow says so -- from its UPDATE to its       *)
(* commit a request holds the wallet row, so nobody moved it meanwhile.    *)
(* A carry's number rests on adjustments that only become more             *)
(* (NumbersAreKnown).                                                      *)
(***************************************************************************)
EXTENDS Wallet, FiniteSetTheorems, TLAPS

\* A request that has moved the balance holds the row and knows its value.
WritersHoldTheRow ==
    \A s \in Sessions : session[s].pc \in {"insert", "moved"} =>
        /\ locked[UserOf(s)] = s
        /\ session[s].after = balance[UserOf(s)] + session[s].amount

\* A request past its INSERT carries a reference the ledger does not have.
MovedIsFresh ==
    \A s \in Sessions : At(s, "moved") => session[s].ref \notin Written(UserOf(s))

LockInv == TypeOK /\ WritersHoldTheRow /\ MovedIsFresh

\* No cutover is running: wallets move through credit and debit alone.
NoCutover == \A r \in Requests : r.kind # "carry"

\* A credit or debit in flight moves what it was asked to move, and a debit past
\* its UPDATE leaves a balance that is not negative.
AsRequested(st) ==
    st.pc # "idle" =>
        /\ st.pc \notin {"measure", "count"}
        /\ st.ref = st.req.ref
        /\ st.req.kind = "credit" => st.amount = st.req.amount
        /\ st.req.kind = "debit" => st.amount = -st.req.amount
        /\ (st.req.kind = "debit" /\ st.pc \in {"insert", "moved"}) => st.after >= 0

MovesAreFunded == \A s \in Sessions : AsRequested(session[s])

-----------------------------------------------------------------------------

LEMMA IdleType == Idle \in SessionState
  <1>1. \A r \in Requests : [pc |-> "idle", req |-> r, amount |-> 0, ref |-> <<"none", 0>>,
                             after |-> 0] \in SessionState
    BY WalletAssumption DEF SessionState, PC, Reference
  <1>2. (CHOOSE r \in Requests : TRUE) \in Requests
    BY WalletAssumption
  <1>3. QED
    BY <1>1, <1>2, Zenon DEF Idle

LEMMA RequestType ==
  ASSUME NEW r \in Requests
  PROVE  r.user \in Users /\ r.kind \in Kinds /\ r.amount \in Nat /\ r.ref \in Reference
  BY WalletAssumption DEF Request

LEMMA SessionType ==
  ASSUME TypeOK, NEW s \in Sessions
  PROVE  /\ session[s] \in SessionState
         /\ session[s].pc \in PC /\ session[s].req \in Requests /\ session[s].amount \in Int
         /\ session[s].ref \in Reference /\ session[s].after \in Int
         /\ UserOf(s) \in Users
  BY RequestType DEF TypeOK, SessionState, UserOf

\* A statement changes some fields of its request's record and keeps the rest.
LEMMA StepType ==
  ASSUME NEW st \in SessionState, NEW pc \in PC, NEW n \in Int, NEW ref \in Reference
  PROVE  /\ [st EXCEPT !.pc = pc] \in SessionState
         /\ [st EXCEPT !.amount = n, !.pc = pc] \in SessionState
         /\ [st EXCEPT !.after = n, !.pc = pc] \in SessionState
         /\ [st EXCEPT !.ref = ref, !.pc = pc] \in SessionState
  BY DEF SessionState

LEMMA AdjustmentsType ==
  ASSUME TypeOK, NEW u \in Users
  PROVE  Adjustments(u) \in Nat
  <1>1. Len(entries[u]) \in Nat
    BY DEF TypeOK
  <1>2. IsFiniteSet(1..Len(entries[u]))
    BY <1>1, FS_Interval
  <1>3. {i \in 1..Len(entries[u]) : entries[u][i].ref[1] \in {"carry", "admin"}}
            \subseteq 1..Len(entries[u])
    OBVIOUS
  <1>4. QED
    BY <1>2, <1>3, FS_Subset, FS_CardinalityType DEF Adjustments

\* What one request does to its own record leaves every other one alone.
LEMMA SetType ==
  ASSUME TypeOK, NEW s \in Sessions, NEW new \in SessionState, Set(s, new)
  PROVE  /\ session' \in [Sessions -> SessionState]
         /\ session'[s] = new
         /\ \A t \in Sessions \ {s} : session'[t] = session[t]
  BY DEF Set, TypeOK

LEMMA LockType ==
  ASSUME TypeOK, NEW s \in Sessions, Unlock(s)
  PROVE  locked' \in [Users -> Sessions \cup {None}]
  BY DEF Unlock, TypeOK

LEMMA InitLockInv == Init => LockInv
  <1> SUFFICES ASSUME Init PROVE LockInv
    OBVIOUS
  <1>1. TypeOK
    BY IdleType DEF Init, TypeOK
  <1>2. \A s \in Sessions : session[s].pc = "idle"
    BY DEF Init, Idle
  <1>3. QED
    BY <1>1, <1>2 DEF LockInv, WritersHoldTheRow, MovedIsFresh, At

LEMMA NextTypeOK == TypeOK /\ [Next]_vars => TypeOK'
  <1> SUFFICES ASSUME TypeOK, [Next]_vars PROVE TypeOK'
    OBVIOUS
  <1>1. ASSUME NEW s \in Sessions, NEW r \in Requests, Credit(s, r)
        PROVE  TypeOK'
    <2>1. [pc |-> WalletFor(r), req |-> r, amount |-> r.amount, ref |-> r.ref, after |-> 0] \in SessionState
      BY RequestType DEF WalletFor, SessionState, PC
    <2>2. QED
      BY <1>1, <2>1, SetType DEF Credit, TypeOK
  <1>2. ASSUME NEW s \in Sessions, NEW r \in Requests, Debit(s, r)
        PROVE  TypeOK'
    <2>1. [pc |-> "move", req |-> r, amount |-> -r.amount, ref |-> r.ref, after |-> 0] \in SessionState
      BY RequestType DEF SessionState, PC
    <2>2. QED
      BY <1>2, <2>1, SetType DEF Debit, TypeOK
  <1>3. ASSUME NEW s \in Sessions, NEW r \in Requests, CarryBalance(s, r)
        PROVE  TypeOK'
    <2>1. [pc |-> WalletFor(r), req |-> r, amount |-> 0, ref |-> r.ref, after |-> 0] \in SessionState
      BY RequestType DEF WalletFor, SessionState, PC
    <2>2. QED
      BY <1>3, <2>1, SetType DEF CarryBalance, TypeOK
  <1>4. ASSUME NEW s \in Sessions, CreateWallet(s)
        PROVE  TypeOK'
    <2>1. [session[s] EXCEPT !.pc = IF session[s].req.kind = "carry" THEN "measure" ELSE "move"] \in SessionState
      BY SessionType, StepType DEF PC
    <2>2. session' \in [Sessions -> SessionState]
      BY <1>4, <2>1, IdleType, SetType DEF CreateWallet
    <2>3. QED
      BY <1>4, <2>2, SessionType DEF CreateWallet, TypeOK
  <1>5. ASSUME NEW s \in Sessions, MeasureGap(s)
        PROVE  TypeOK'
    <2> DEFINE gap == session[s].req.amount - balance[UserOf(s)]
    <2>1. gap \in Int
      BY SessionType, RequestType DEF TypeOK
    <2>2. [session[s] EXCEPT !.amount = gap, !.pc = IF gap = 0 THEN "unmoved" ELSE "count"] \in SessionState
      BY <2>1, SessionType, StepType DEF PC
    <2>3. session' \in [Sessions -> SessionState]
      BY <1>5, <2>2, SetType DEF MeasureGap
    <2>4. QED
      BY <1>5, <2>3 DEF MeasureGap, TypeOK
  <1>6. ASSUME NEW s \in Sessions, NumberCarry(s)
        PROVE  TypeOK'
    <2>1. <<"carry", Adjustments(UserOf(s))>> \in Reference
      BY WalletAssumption, SessionType, AdjustmentsType DEF Reference
    <2>2. [session[s] EXCEPT !.ref = <<"carry", Adjustments(UserOf(s))>>, !.pc = "move"] \in SessionState
      BY <2>1, SessionType, StepType DEF PC
    <2>3. QED
      BY <1>6, <2>2, SetType DEF NumberCarry, TypeOK
  <1>7. ASSUME NEW s \in Sessions, MoveBalance(s)
        PROVE  TypeOK'
    <2>1. balance[UserOf(s)] + session[s].amount \in Int
      BY SessionType DEF TypeOK
    <2>2. [session[s] EXCEPT !.after = balance[UserOf(s)] + session[s].amount, !.pc = "insert"] \in SessionState
      BY <2>1, SessionType, StepType DEF PC
    <2>3. session' \in [Sessions -> SessionState]
      BY <1>7, <2>2, IdleType, SetType DEF MoveBalance
    <2>4. QED
      BY <1>7, <2>3, SessionType DEF MoveBalance, TypeOK
  <1>8. ASSUME NEW s \in Sessions, InsertEntry(s)
        PROVE  TypeOK'
    <2>1. /\ [session[s] EXCEPT !.pc = "unmoved"] \in SessionState
          /\ [session[s] EXCEPT !.pc = "moved"] \in SessionState
      BY SessionType, StepType DEF PC
    <2>2. session' \in [Sessions -> SessionState]
      BY <1>8, <2>1, SetType DEF InsertEntry
    <2>3. QED
      BY <1>8, <2>2, SessionType DEF InsertEntry, TypeOK
  <1>9. ASSUME NEW s \in Sessions, Commit(s)
        PROVE  TypeOK'
    <2> DEFINE row == [ref |-> session[s].ref, amount |-> session[s].amount, after |-> session[s].after]
    <2>1. row \in Entry
      BY SessionType DEF Entry
    <2>2. /\ session' \in [Sessions -> SessionState]
          /\ locked' \in [Users -> Sessions \cup {None}]
      BY <1>9, IdleType, SetType, LockType DEF Commit
    <2>3. CASE At(s, "moved")
      <3>1. /\ balance' = [balance EXCEPT ![UserOf(s)] = session[s].after]
            /\ entries' = [entries EXCEPT ![UserOf(s)] = Append(@, row)]
            /\ opened' = opened \cup {UserOf(s)}
        BY <1>9, <2>3 DEF Commit
      <3>2. Append(entries[UserOf(s)], row) \in Seq(Entry)
        BY <2>1, SessionType DEF TypeOK
      <3>3. QED
        BY <2>2, <3>1, <3>2, SessionType DEF TypeOK
    <2>4. CASE ~At(s, "moved")
      <3>1. /\ UNCHANGED <<balance, entries>>
            /\ opened' = opened \cup {UserOf(s)}
        BY <1>9, <2>4 DEF Commit
      <3>2. QED
        BY <2>2, <3>1, SessionType DEF TypeOK
    <2>5. QED
      BY <2>3, <2>4
  <1>10. ASSUME NEW s \in Sessions, Rollback(s)
         PROVE  TypeOK'
    BY <1>10, IdleType, SetType, LockType DEF Rollback, TypeOK
  <1>11. CASE UNCHANGED vars
    BY <1>11 DEF vars, TypeOK
  <1>12. QED
    BY <1>1, <1>2, <1>3, <1>4, <1>5, <1>6, <1>7, <1>8, <1>9, <1>10, <1>11
       DEF Next, Begin, Statement

\* Every state has the type TypeOK gives it.
THEOREM WalletTypeOK == Spec => []TypeOK
  <1>1. Init => TypeOK
    BY InitLockInv DEF LockInv
  <1>2. QED
    BY <1>1, NextTypeOK, PTL DEF Spec

-----------------------------------------------------------------------------
(* The row lock.                                                           *)

Writing(s) == session[s].pc \in {"insert", "moved"}

\* Whatever request s does, a request t that holds a wallet row finds its own
\* record, that row's lock, that balance and that ledger as they were.
LEMMA OthersUndisturbed ==
  ASSUME LockInv, NEW s \in Sessions, Begin(s) \/ Statement(s) \/ Rollback(s),
         NEW t \in Sessions \ {s}
  PROVE  /\ session'[t] = session[t]
         /\ Writing(t) => /\ locked'[UserOf(t)] = t
                          /\ balance'[UserOf(t)] = balance[UserOf(t)]
                          /\ entries'[UserOf(t)] = entries[UserOf(t)]
  <1> USE DEF LockInv
  <1> UserOf(s) \in Users /\ UserOf(t) \in Users /\ t # None
    BY SessionType, WalletAssumption
  <1>0. /\ Writing(t) => locked[UserOf(t)] = t
        /\ Writing(s) => locked[UserOf(s)] = s
    BY DEF WritersHoldTheRow, Writing
  <1>1. ASSUME Begin(s)
        PROVE  session'[t] = session[t] /\ UNCHANGED <<locked, balance, entries>>
    BY <1>1 DEF Begin, Credit, Debit, CarryBalance, Set, TypeOK
  <1>2. CASE CreateWallet(s)
    BY <1>0, <1>2 DEF CreateWallet, Set, TypeOK
  <1>3. CASE MeasureGap(s) \/ NumberCarry(s)
    BY <1>0, <1>3 DEF MeasureGap, NumberCarry, Set, TypeOK
  <1>4. CASE MoveBalance(s)
    BY <1>0, <1>4 DEF MoveBalance, Set, TypeOK
  <1>5. CASE InsertEntry(s)
    <2>1. Writing(s)
      BY <1>5 DEF InsertEntry, At, Writing
    <2>2. QED
      BY <1>0, <1>5, <2>1 DEF InsertEntry, Set, TypeOK
  <1>6. CASE Commit(s)
    <2>1. At(s, "moved") => Writing(s)
      BY DEF At, Writing
    <2>2. session'[t] = session[t] /\ (Writing(t) => locked'[UserOf(t)] = t)
      BY <1>0, <1>6 DEF Commit, Unlock, Set, TypeOK
    <2>3. CASE At(s, "moved")
      BY <1>0, <1>6, <2>1, <2>2, <2>3 DEF Commit, TypeOK
    <2>4. CASE ~At(s, "moved")
      BY <1>6, <2>2, <2>4 DEF Commit
    <2>5. QED
      BY <2>3, <2>4
  <1>7. CASE Rollback(s)
    BY <1>0, <1>7 DEF Rollback, Unlock, Set, TypeOK
  <1>8. QED
    BY <1>0, <1>1, <1>2, <1>3, <1>4, <1>5, <1>6, <1>7 DEF Statement

\* A request that is writing after its own step has just moved the balance
\* under the lock, or has just found its reference unused.
LEMMA OwnStep ==
  ASSUME LockInv, NEW s \in Sessions, Begin(s) \/ Statement(s) \/ Rollback(s), Writing(s)'
  PROVE  /\ UserOf(s)' = UserOf(s) /\ UserOf(s) \in Users
         /\ UNCHANGED <<balance, entries>>
         /\ locked'[UserOf(s)] = s
         /\ session'[s].after = balance[UserOf(s)] + session'[s].amount
         /\ session'[s].amount = session[s].amount
         /\ session'[s].req = session[s].req
         /\ session'[s].ref = session[s].ref
         /\ At(s, "moved")' => session[s].ref \notin Written(UserOf(s))
         /\ \/ MoveBalance(s) /\ Affordable(s)
            \/ Writing(s) /\ session'[s].after = session[s].after
  <1> USE DEF LockInv
  <1> UserOf(s) \in Users /\ session[s] \in SessionState
    BY SessionType
  <1>1. ~Begin(s)
    BY RequestType DEF Begin, Credit, Debit, CarryBalance, WalletFor, Set, TypeOK, Writing
  <1>2. ~(CreateWallet(s) \/ MeasureGap(s) \/ NumberCarry(s))
    <2>1. ~CreateWallet(s)
      BY DEF CreateWallet, Set, TypeOK, Writing, Idle, SessionState
    <2>2. ~MeasureGap(s)
      <3>1. ASSUME NEW n \in Int, NEW pc \in PC
            PROVE  [session[s] EXCEPT !.amount = n, !.pc = pc].pc = pc
        BY DEF SessionState
      <3>2. session[s].req.amount - balance[UserOf(s)] \in Int
        BY SessionType, RequestType DEF TypeOK
      <3>3. MeasureGap(s) => session'[s].pc \in {"unmoved", "count"}
        BY <3>1, <3>2 DEF MeasureGap, Set, TypeOK, PC
      <3>4. QED
        BY <3>3 DEF Writing
    <2>3. ~NumberCarry(s)
      <3>1. [session[s] EXCEPT !.ref = <<"carry", Adjustments(UserOf(s))>>, !.pc = "move"].pc = "move"
        BY DEF SessionState
      <3>2. NumberCarry(s) => session'[s].pc = "move"
        BY <3>1 DEF NumberCarry, Set, TypeOK
      <3>3. QED
        BY <3>2 DEF Writing
    <2>4. QED
      BY <2>1, <2>2, <2>3
  <1>3. ~(Commit(s) \/ Rollback(s))
    BY DEF Commit, Rollback, Set, TypeOK, Writing, Idle
  <1>4. CASE MoveBalance(s)
    <2>1. Affordable(s)
      BY <1>4 DEF MoveBalance, Set, TypeOK, Writing, Idle
    <2>2. session' = [session EXCEPT ![s] =
             [session[s] EXCEPT !.after = balance[UserOf(s)] + session[s].amount, !.pc = "insert"]]
      BY <1>4, <2>1 DEF MoveBalance, Set
    <2>3. session'[s] = [session[s] EXCEPT !.after = balance[UserOf(s)] + session[s].amount,
                                           !.pc = "insert"]
      BY <2>2 DEF TypeOK
    <2>4. /\ session'[s].after = balance[UserOf(s)] + session[s].amount
          /\ session'[s].amount = session[s].amount /\ session'[s].req = session[s].req
          /\ session'[s].ref = session[s].ref /\ session'[s].pc = "insert"
      BY <2>3 DEF SessionState
    <2>5. QED
      BY <1>4, <2>1, <2>4 DEF MoveBalance, TypeOK, UserOf, At
  <1>5. CASE InsertEntry(s)
    <2>1. session[s].ref \notin Written(UserOf(s))
      BY <1>5 DEF InsertEntry, Set, TypeOK, Writing, SessionState
    <2>2. session'[s] = [session[s] EXCEPT !.pc = "moved"] /\ UNCHANGED <<balance, entries, locked>>
      BY <1>5, <2>1 DEF InsertEntry, Set, TypeOK
    <2>3. /\ session'[s].after = session[s].after
          /\ session'[s].amount = session[s].amount /\ session'[s].req = session[s].req
          /\ session'[s].ref = session[s].ref
      BY <2>2 DEF SessionState
    <2>4. Writing(s)
      BY <1>5 DEF InsertEntry, At, Writing
    <2>5. QED
      BY <2>1, <2>2, <2>3, <2>4 DEF WritersHoldTheRow, Writing, UserOf
  <1>6. QED
    BY <1>1, <1>2, <1>3, <1>4, <1>5 DEF Statement

LEMMA NextLockInv == LockInv /\ [Next]_vars => LockInv'
  <1> SUFFICES ASSUME LockInv, [Next]_vars PROVE LockInv'
    OBVIOUS
  <1>1. TypeOK'
    BY NextTypeOK DEF LockInv
  <1>2. ASSUME NEW s \in Sessions, Begin(s) \/ Statement(s) \/ Rollback(s), NEW t \in Sessions,
               Writing(t)'
        PROVE  /\ locked'[UserOf(t)'] = t
               /\ session'[t].after = balance'[UserOf(t)'] + session'[t].amount
               /\ At(t, "moved")' => session'[t].ref \notin Written(UserOf(t))'
    <2>1. CASE t = s
      BY <1>2, <2>1, OwnStep DEF Written
    <2>2. CASE t # s
      <3>1. session'[t] = session[t] /\ Writing(t) /\ UserOf(t)' = UserOf(t)
        BY <1>2, <2>2, OthersUndisturbed DEF Writing, UserOf
      <3>2. /\ locked'[UserOf(t)] = t
            /\ balance'[UserOf(t)] = balance[UserOf(t)]
            /\ entries'[UserOf(t)] = entries[UserOf(t)]
        BY <1>2, <2>2, <3>1, OthersUndisturbed
      <3>3. QED
        BY <3>1, <3>2 DEF LockInv, WritersHoldTheRow, MovedIsFresh, Writing, At, Written
    <2>3. QED
      BY <2>1, <2>2
  <1>3. CASE UNCHANGED vars
    <2>1. WritersHoldTheRow'
      BY <1>3 DEF vars, LockInv, WritersHoldTheRow, UserOf
    <2>2. MovedIsFresh'
      BY <1>3 DEF vars, LockInv, MovedIsFresh, At, UserOf, Written
    <2>3. QED
      BY <1>1, <2>1, <2>2 DEF LockInv
  <1>4. CASE Next
    <2>1. WritersHoldTheRow'
      BY <1>2, <1>4 DEF Next, WritersHoldTheRow, Writing
    <2>2. MovedIsFresh'
      BY <1>2, <1>4 DEF Next, MovedIsFresh, Writing, At
    <2>3. QED
      BY <1>1, <2>1, <2>2 DEF LockInv
  <1>5. QED
    BY <1>3, <1>4

THEOREM WalletLockInv == Spec => []LockInv
  BY InitLockInv, NextLockInv, PTL DEF Spec

-----------------------------------------------------------------------------
(* The ledger.                                                             *)

RowOf(s) == [ref |-> session[s].ref, amount |-> session[s].amount, after |-> session[s].after]

\* The books change in one way: a request that moved money commits, adding one
\* row with a new reference and setting the balance that row records.
LEMMA BooksChangeAtCommit ==
  ASSUME LockInv, [Next]_vars
  PROVE  \/ UNCHANGED <<balance, entries>>
         \/ \E s \in Sessions :
              /\ Commit(s) /\ At(s, "moved") /\ UserOf(s) \in Users
              /\ balance' = [balance EXCEPT ![UserOf(s)] = RowOf(s).after]
              /\ entries' = [entries EXCEPT ![UserOf(s)] = Append(entries[UserOf(s)], RowOf(s))]
              /\ RowOf(s).after = balance[UserOf(s)] + RowOf(s).amount
              /\ RowOf(s).ref \notin Written(UserOf(s))
  <1>1. ASSUME NEW s \in Sessions, Begin(s) \/ Rollback(s)
        PROVE  UNCHANGED <<balance, entries>>
    BY <1>1 DEF Begin, Credit, Debit, CarryBalance, Rollback
  <1>2. ASSUME NEW s \in Sessions,
               CreateWallet(s) \/ MeasureGap(s) \/ NumberCarry(s) \/ MoveBalance(s) \/ InsertEntry(s)
        PROVE  UNCHANGED <<balance, entries>>
    BY <1>2 DEF CreateWallet, MeasureGap, NumberCarry, MoveBalance, InsertEntry
  <1>3. ASSUME NEW s \in Sessions, Commit(s), ~At(s, "moved")
        PROVE  UNCHANGED <<balance, entries>>
    BY <1>3 DEF Commit
  <1>4. ASSUME NEW s \in Sessions, Commit(s), At(s, "moved")
        PROVE  /\ UserOf(s) \in Users
               /\ balance' = [balance EXCEPT ![UserOf(s)] = RowOf(s).after]
               /\ entries' = [entries EXCEPT ![UserOf(s)] = Append(entries[UserOf(s)], RowOf(s))]
               /\ RowOf(s).after = balance[UserOf(s)] + RowOf(s).amount
               /\ RowOf(s).ref \notin Written(UserOf(s))
    BY <1>4, SessionType DEF Commit, RowOf, At, LockInv, WritersHoldTheRow, MovedIsFresh
  <1>5. QED
    BY <1>1, <1>2, <1>3, <1>4 DEF Next, Statement, vars

\* What appending a row does to a ledger.
LEMMA AppendRow ==
  ASSUME NEW l \in Seq(Entry), NEW row \in Entry
  PROVE  /\ Append(l, row) \in Seq(Entry)
         /\ Len(l) \in Nat
         /\ Len(Append(l, row)) = Len(l) + 1
         /\ Append(l, row)[Len(l) + 1] = row
         /\ \A i \in 1..Len(l) : Append(l, row)[i] = l[i]
  OBVIOUS

LEMMA NextLedgerExplainsBalance ==
  ASSUME LockInv, LedgerExplainsBalance, [Next]_vars
  PROVE  LedgerExplainsBalance'
  <1>1. CASE UNCHANGED <<balance, entries>>
    BY <1>1 DEF LedgerExplainsBalance, BalanceAt
  <1>2. ASSUME NEW s \in Sessions, UserOf(s) \in Users,
               balance' = [balance EXCEPT ![UserOf(s)] = RowOf(s).after],
               entries' = [entries EXCEPT ![UserOf(s)] = Append(entries[UserOf(s)], RowOf(s))],
               RowOf(s).after = balance[UserOf(s)] + RowOf(s).amount
        PROVE  LedgerExplainsBalance'
    <2>0. PICK u \in Users, n \in Nat : u = UserOf(s) /\ n = Len(entries[u])
      BY <1>2 DEF LockInv, TypeOK
    <2>1. RowOf(s) \in Entry /\ entries[u] \in Seq(Entry)
      BY <1>2, <2>0, SessionType DEF RowOf, Entry, LockInv, TypeOK
    <2>2. /\ n \in Nat /\ Len(entries'[u]) = n + 1
          /\ entries'[u][n + 1] = RowOf(s)
          /\ \A i \in 1..n : entries'[u][i] = entries[u][i]
          /\ balance'[u] = RowOf(s).after
      BY <1>2, <2>0, <2>1, AppendRow DEF LockInv, TypeOK
    <2>3. \A v \in Users \ {u} : entries'[v] = entries[v] /\ balance'[v] = balance[v]
      BY <1>2, <2>0 DEF LockInv, TypeOK
    <2>4. ASSUME NEW v \in Users, NEW i \in 1..Len(entries'[v])
          PROVE  entries'[v][i].after = BalanceAt(v, i - 1)' + entries'[v][i].amount
      <3>1. CASE v # u
        BY <2>3, <3>1 DEF LedgerExplainsBalance, BalanceAt
      <3>2. CASE v = u /\ i \in 1..n
        <4>1. BalanceAt(u, i - 1)' = BalanceAt(u, i - 1)
          BY <2>2, <3>2 DEF BalanceAt
        <4>2. entries[u][i].after = BalanceAt(u, i - 1) + entries[u][i].amount
          BY <2>0, <3>2 DEF LedgerExplainsBalance
        <4>3. QED
          BY <2>2, <3>2, <4>1, <4>2
      <3>3. CASE v = u /\ i = n + 1
        <4>1. BalanceAt(u, n)' = BalanceAt(u, n)
          BY <2>2 DEF BalanceAt
        <4>2. balance[u] = BalanceAt(u, n)
          BY <1>2, <2>0 DEF LedgerExplainsBalance
        <4>3. QED
          BY <1>2, <2>0, <2>2, <3>3, <4>1, <4>2
      <3>4. QED
        BY <2>2, <3>1, <3>2, <3>3
    <2>5. ASSUME NEW v \in Users
          PROVE  balance'[v] = BalanceAt(v, Len(entries[v]))'
      <3>1. CASE v # u
        BY <2>3, <3>1 DEF LedgerExplainsBalance, BalanceAt
      <3>2. CASE v = u
        BY <2>2, <3>2 DEF BalanceAt
      <3>3. QED
        BY <3>1, <3>2
    <2>6. QED
      BY <2>4, <2>5 DEF LedgerExplainsBalance
  <1>3. QED
    BY <1>1, <1>2, BooksChangeAtCommit

\* Every balance is its ledger's last line, and every line follows from the one
\* before it, whatever requests run together.
THEOREM WalletLedgerExplainsBalance == Spec => []LedgerExplainsBalance
  <1>1. Init => LedgerExplainsBalance
    BY DEF Init, LedgerExplainsBalance, BalanceAt
  <1>2. LockInv /\ LedgerExplainsBalance /\ [Next]_vars => LedgerExplainsBalance'
    BY NextLedgerExplainsBalance
  <1>3. QED
    BY <1>1, <1>2, WalletLockInv, PTL DEF Spec

LEMMA NextReferenceMovesOnce ==
  ASSUME LockInv, ReferenceMovesOnce, [Next]_vars
  PROVE  ReferenceMovesOnce'
  <1>1. CASE UNCHANGED <<balance, entries>>
    BY <1>1 DEF ReferenceMovesOnce
  <1>2. ASSUME NEW s \in Sessions, UserOf(s) \in Users,
               entries' = [entries EXCEPT ![UserOf(s)] = Append(entries[UserOf(s)], RowOf(s))],
               RowOf(s).ref \notin Written(UserOf(s))
        PROVE  ReferenceMovesOnce'
    <2> DEFINE u == UserOf(s)
               n == Len(entries[u])
    <2>1. RowOf(s) \in Entry /\ entries[u] \in Seq(Entry)
      BY <1>2, SessionType DEF RowOf, Entry, LockInv, TypeOK
    <2>2. /\ n \in Nat /\ Len(entries'[u]) = n + 1
          /\ entries'[u][n + 1] = RowOf(s)
          /\ \A i \in 1..n : entries'[u][i] = entries[u][i]
      BY <1>2, <2>1, AppendRow DEF LockInv, TypeOK
    <2>3. \A v \in Users \ {u} : entries'[v] = entries[v]
      BY <1>2 DEF LockInv, TypeOK
    <2>4. \A i \in 1..n : entries'[u][i].ref # RowOf(s).ref
      BY <1>2, <2>2 DEF Written
    <2>5. ASSUME NEW v \in Users, NEW i \in 1..Len(entries'[v]), NEW j \in 1..Len(entries'[v]),
                 entries'[v][i].ref = entries'[v][j].ref
          PROVE  i = j
      <3>1. CASE v # u
        BY <2>3, <2>5, <3>1 DEF ReferenceMovesOnce
      <3>2. CASE v = u
        <4>1. i \in 1..n + 1 /\ j \in 1..n + 1
          BY <2>2, <3>2
        <4>2. CASE i \in 1..n /\ j \in 1..n
          <5>1. entries[u][i].ref = entries[u][j].ref
            BY <2>2, <2>5, <3>2, <4>2
          <5>2. QED
            BY <1>2, <4>2, <5>1 DEF ReferenceMovesOnce
        <4>3. CASE i = n + 1 \/ j = n + 1
          BY <2>2, <2>4, <2>5, <3>2, <4>1, <4>3
        <4>4. QED
          BY <2>2, <4>1, <4>2, <4>3
      <3>3. QED
        BY <3>1, <3>2
    <2>6. QED
      BY <2>5 DEF ReferenceMovesOnce
  <1>3. QED
    BY <1>1, <1>2, BooksChangeAtCommit

\* A reference moves money once, however often it is asked for and however many
\* copies of the request run together.
THEOREM WalletReferenceMovesOnce == Spec => []ReferenceMovesOnce
  <1>1. Init => ReferenceMovesOnce
    BY DEF Init, ReferenceMovesOnce
  <1>2. LockInv /\ ReferenceMovesOnce /\ [Next]_vars => ReferenceMovesOnce'
    BY NextReferenceMovesOnce
  <1>3. QED
    BY <1>1, <1>2, WalletLockInv, PTL DEF Spec

-----------------------------------------------------------------------------
(* Credits and debits alone: no overdraft, and the abstract ledger.        *)

LEMMA NextMovesAreFunded ==
  ASSUME NoCutover, LockInv, MovesAreFunded, [Next]_vars
  PROVE  MovesAreFunded'
  <1> USE DEF LockInv
  <1>1. AsRequested(Idle)
    BY DEF AsRequested, Idle
  <1>2. ASSUME NEW s \in Sessions, Begin(s) \/ Statement(s) \/ Rollback(s)
        PROVE  AsRequested(session'[s])
    <2> UserOf(s) \in Users /\ session[s] \in SessionState /\ AsRequested(session[s])
      BY SessionType DEF MovesAreFunded
    <2> session[s].req.kind \in {"credit", "debit"}
      BY SessionType, RequestType DEF NoCutover, Kinds
    <2>1. CASE Begin(s)
      <3>1. PICK r \in Requests : Credit(s, r) \/ Debit(s, r) \/ CarryBalance(s, r)
        BY <2>1 DEF Begin
      <3>2. r.kind # "carry" /\ r.amount \in Nat
        BY RequestType DEF NoCutover
      <3>3. CASE Credit(s, r)
        BY <3>2, <3>3 DEF Credit, WalletFor, Set, TypeOK, AsRequested
      <3>4. CASE Debit(s, r)
        BY <3>2, <3>4 DEF Debit, Set, TypeOK, AsRequested
      <3>5. QED
        BY <3>1, <3>2, <3>3, <3>4 DEF CarryBalance
    <2>2. CASE CreateWallet(s)
      <3>1. CASE UserOf(s) \in opened
        BY <1>1, <2>2, <3>1 DEF CreateWallet, Set, TypeOK
      <3>2. CASE UserOf(s) \notin opened
        <4>1. session'[s] = [session[s] EXCEPT !.pc = "move"]
          BY <2>2, <3>2 DEF CreateWallet, Set, TypeOK
        <4>2. QED
          BY <2>2, <4>1 DEF CreateWallet, At, AsRequested, SessionState
      <3>3. QED
        BY <3>1, <3>2
    <2>3. ~MeasureGap(s) /\ ~NumberCarry(s)
      BY DEF MeasureGap, NumberCarry, At, AsRequested
    <2>4. CASE MoveBalance(s)
      <3>1. CASE ~Affordable(s)
        BY <1>1, <2>4, <3>1 DEF MoveBalance, Set, TypeOK
      <3>2. CASE Affordable(s)
        <4>1. session'[s] = [session[s] EXCEPT !.after = balance[UserOf(s)] + session[s].amount,
                                               !.pc = "insert"]
          BY <2>4, <3>2 DEF MoveBalance, Set, TypeOK
        <4>2. /\ session'[s].after = balance[UserOf(s)] + session[s].amount
              /\ session'[s].amount = session[s].amount /\ session'[s].req = session[s].req
              /\ session'[s].ref = session[s].ref /\ session'[s].pc = "insert"
          BY <4>1 DEF SessionState
        <4>3. QED
          BY <2>4, <3>2, <4>2 DEF MoveBalance, At, AsRequested, Affordable
      <3>3. QED
        BY <3>1, <3>2
    <2>5. CASE InsertEntry(s)
      <3>1. PICK pc \in {"moved", "unmoved"} : session'[s] = [session[s] EXCEPT !.pc = pc]
        BY <2>5 DEF InsertEntry, Set, TypeOK
      <3>2. QED
        BY <2>5, <3>1 DEF InsertEntry, At, AsRequested, SessionState
    <2>6. CASE Commit(s) \/ Rollback(s)
      BY <1>1, <2>6 DEF Commit, Rollback, Set, TypeOK
    <2>7. QED
      BY <1>2, <2>1, <2>2, <2>3, <2>4, <2>5, <2>6 DEF Statement
  <1>3. CASE UNCHANGED vars
    BY <1>3 DEF vars, MovesAreFunded
  <1>4. CASE Next
    BY <1>2, <1>4, OthersUndisturbed DEF Next, MovesAreFunded
  <1>5. QED
    BY <1>3, <1>4

LEMMA NextNeverOverdrawn ==
  ASSUME NoCutover, LockInv, MovesAreFunded, NeverOverdrawn, [Next]_vars
  PROVE  NeverOverdrawn'
  <1>1. CASE UNCHANGED <<balance, entries>>
    BY <1>1 DEF NeverOverdrawn
  <1>2. ASSUME NEW s \in Sessions, UserOf(s) \in Users, At(s, "moved"),
               balance' = [balance EXCEPT ![UserOf(s)] = RowOf(s).after],
               RowOf(s).after = balance[UserOf(s)] + RowOf(s).amount
        PROVE  NeverOverdrawn'
    <2>1. session[s].req.kind \in {"credit", "debit"} /\ session[s].req.amount \in Nat
      BY SessionType, RequestType DEF NoCutover, Kinds, LockInv
    <2>2. AsRequested(session[s]) /\ session[s].pc = "moved"
      BY <1>2 DEF MovesAreFunded, At
    <2>3. session[s].after >= 0
      <3>1. CASE session[s].req.kind = "debit"
        BY <2>2, <3>1 DEF AsRequested
      <3>2. CASE session[s].req.kind = "credit"
        BY <1>2, <2>1, <2>2, <3>2 DEF AsRequested, RowOf, NeverOverdrawn, LockInv, TypeOK
      <3>3. QED
        BY <2>1, <3>1, <3>2
    <2>4. QED
      BY <1>2, <2>3 DEF NeverOverdrawn, RowOf, LockInv, TypeOK
  <1>3. QED
    BY <1>1, <1>2, BooksChangeAtCommit

LEMMA WalletMovesAreFunded ==
  ASSUME NoCutover
  PROVE  Spec => []MovesAreFunded
  <1>1. Init => MovesAreFunded
    BY DEF Init, Idle, MovesAreFunded, AsRequested
  <1>2. LockInv /\ MovesAreFunded /\ [Next]_vars => MovesAreFunded'
    BY NextMovesAreFunded
  <1>3. QED
    BY <1>1, <1>2, WalletLockInv, PTL DEF Spec

\* Outside a cutover no balance is ever negative: two spends that do not both
\* fit are never both let through.
THEOREM WalletNeverOverdrawn ==
  ASSUME NoCutover
  PROVE  Spec => []NeverOverdrawn
  <1>1. Init => NeverOverdrawn
    BY DEF Init, NeverOverdrawn
  <1>2. LockInv /\ MovesAreFunded /\ NeverOverdrawn /\ [Next]_vars => NeverOverdrawn'
    BY NextNeverOverdrawn
  <1>3. QED
    BY <1>1, <1>2, WalletLockInv, WalletMovesAreFunded, PTL DEF Spec

LEMMA WrittenAfterAppend ==
  ASSUME NEW l \in Seq(Entry), NEW row \in Entry
  PROVE  {Append(l, row)[i].ref : i \in 1..Len(Append(l, row))}
             = {l[i].ref : i \in 1..Len(l)} \cup {row.ref}
  BY AppendRow

\* Outside a cutover every step of the wallet is one movement of the abstract
\* ledger or none: savepoints, locks and retries are invisible from outside.
THEOREM WalletImplementsLedger ==
  ASSUME NoCutover
  PROVE  Spec => ImplementsLedger
  <1>1. Init => Ledger!Init
    BY DEF Init, Ledger!Init, Written
  <1>2. ASSUME LockInv, MovesAreFunded, NeverOverdrawn, NeverOverdrawn', [Next]_vars
        PROVE  [Ledger!Next]_Ledger!vars
    <2>1. CASE UNCHANGED <<balance, entries>>
      BY <2>1 DEF Ledger!vars, Written
    <2>2. ASSUME NEW s \in Sessions, UserOf(s) \in Users, At(s, "moved"),
                 balance' = [balance EXCEPT ![UserOf(s)] = RowOf(s).after],
                 entries' = [entries EXCEPT ![UserOf(s)] = Append(entries[UserOf(s)], RowOf(s))],
                 RowOf(s).after = balance[UserOf(s)] + RowOf(s).amount,
                 RowOf(s).ref \notin Written(UserOf(s))
          PROVE  Ledger!Next
      <3> DEFINE row == RowOf(s)
      <3>1. row \in Entry /\ entries[UserOf(s)] \in Seq(Entry)
        BY <2>2, <1>2, SessionType DEF RowOf, Entry, LockInv, TypeOK
      <3>2. /\ row.ref \in {r.ref : r \in Requests}
            /\ row.amount \in {r.amount : r \in Requests} \cup {-r.amount : r \in Requests}
        <4>1. session[s].req \in Requests /\ session[s].req.kind \in {"credit", "debit"}
          BY <1>2, SessionType, RequestType DEF NoCutover, Kinds, LockInv
        <4>2. AsRequested(session[s]) /\ session[s].pc = "moved"
          BY <1>2, <2>2 DEF MovesAreFunded, At
        <4>3. QED
          BY <4>1, <4>2 DEF AsRequested, RowOf
      <3>3. PICK u \in Users, e \in Entry :
               /\ balance' = [balance EXCEPT ![u] = balance[u] + e.amount]
               /\ entries' = [entries EXCEPT ![u] = Append(entries[u], e)]
               /\ e.ref \in {r.ref : r \in Requests}
               /\ e.amount \in {r.amount : r \in Requests} \cup {-r.amount : r \in Requests}
               /\ e.ref \notin Written(u)
        BY <2>2, <3>1, <3>2
      <3>4. \A v \in Users : Written(v)' = IF v = u THEN Written(v) \cup {e.ref} ELSE Written(v)
        <4> SUFFICES ASSUME NEW v \in Users
                     PROVE  Written(v)' = IF v = u THEN Written(v) \cup {e.ref} ELSE Written(v)
          OBVIOUS
        <4>1. entries \in [Users -> Seq(Entry)]
          BY <1>2 DEF LockInv, TypeOK
        <4>2. CASE v # u
          BY <3>3, <4>1, <4>2 DEF Written
        <4>3. CASE v = u
          <5>1. entries'[v] = Append(entries[v], e)
            BY <3>3, <4>1, <4>3
          <5>2. Written(v)' = {entries'[v][i].ref : i \in 1..Len(entries'[v])}
            BY DEF Written
          <5>3. QED
            BY <4>1, <4>3, <5>1, <5>2, WrittenAfterAppend DEF Written
        <4>4. QED
          BY <4>2, <4>3
      <3>5. balance[u] + e.amount >= 0
        BY <1>2, <3>3 DEF NeverOverdrawn, LockInv, TypeOK
      <3>6. [v \in Users |-> Written(v)'] =
               [[v \in Users |-> Written(v)] EXCEPT ![u] = Written(u) \cup {e.ref}]
        BY <3>4
      <3>7. Ledger!Move(u, e.ref, e.amount)
        BY <3>3, <3>5, <3>6 DEF Ledger!Move
      <3>8. QED
        BY <3>3, <3>7 DEF Ledger!Next
    <2>3. QED
      BY <1>2, <2>1, <2>2, BooksChangeAtCommit
  <1>3. QED
    BY <1>1, <1>2, WalletLockInv, WalletMovesAreFunded, WalletNeverOverdrawn, PTL
    DEF Spec, ImplementsLedger, Ledger!Spec

-----------------------------------------------------------------------------
(* The numbers of a cutover's entries.                                     *)

\* The number a request has taken is not above what is counted now.
NumbersAreKnown ==
    \A s \in Sessions :
        session[s].ref[1] = "carry" => session[s].ref[2] <= Adjustments(UserOf(s))

\* The rows of a ledger that Adjustments counts.
Counted(l) == {i \in 1..Len(l) : l[i].ref[1] \in {"carry", "admin"}}

\* A row that is written raises the count if it is an adjustment, and never lowers it.
LEMMA AdjustmentsAfterAppend ==
  ASSUME NEW l \in Seq(Entry), NEW row \in Entry
  PROVE  /\ Cardinality(Counted(l)) \in Nat /\ Cardinality(Counted(Append(l, row))) \in Nat
         /\ Cardinality(Counted(Append(l, row))) >= Cardinality(Counted(l))
         /\ row.ref[1] = "carry" =>
               Cardinality(Counted(Append(l, row))) = Cardinality(Counted(l)) + 1
  <1> DEFINE before == Counted(l)
             after == Counted(Append(l, row))
  <1>1. before \subseteq 1..Len(l) /\ Len(l) \in Nat
    BY AppendRow DEF Counted
  <1>2. IsFiniteSet(1..Len(l))
    BY <1>1, FS_Interval
  <1>3. IsFiniteSet(before) /\ Cardinality(before) \in Nat
    BY <1>1, <1>2, FS_Subset, FS_CardinalityType
  <1>4. Len(l) + 1 \notin before
    BY <1>1
  <1>5. CASE row.ref[1] \in {"carry", "admin"}
    <2>1. after = before \cup {Len(l) + 1}
      BY <1>1, <1>5, AppendRow DEF Counted
    <2>2. Cardinality(before \cup {Len(l) + 1}) = Cardinality(before) + 1
      BY <1>3, <1>4, FS_AddElement
    <2>3. QED
      BY <1>3, <2>1, <2>2
  <1>6. CASE row.ref[1] \notin {"carry", "admin"}
    <2>1. after = before
      BY <1>1, <1>6, AppendRow DEF Counted
    <2>2. QED
      BY <1>3, <1>6, <2>1
  <1>7. QED
    BY <1>5, <1>6

\* So the count of a student only grows, and by one for every carry.
LEMMA AdjustmentsGrow ==
  ASSUME LockInv, [Next]_vars, NEW u \in Users
  PROVE  /\ Adjustments(u) \in Nat /\ Adjustments(u)' \in Nat
         /\ Adjustments(u)' >= Adjustments(u)
         /\ \A ref \in Written(u)' :
               \/ ref \in Written(u)
               \/ /\ ref[1] = "carry" => Adjustments(u)' = Adjustments(u) + 1
                  /\ \E s \in Sessions : ref = session[s].ref /\ u = UserOf(s)
  <1>1. TypeOK /\ Adjustments(u) \in Nat
    BY AdjustmentsType DEF LockInv
  <1>2. ASSUME entries'[u] = entries[u]
        PROVE  Adjustments(u)' = Adjustments(u) /\ Written(u)' = Written(u)
    BY <1>2 DEF Adjustments, Written
  <1>3. ASSUME NEW s \in Sessions, UserOf(s) \in Users,
               entries' = [entries EXCEPT ![UserOf(s)] = Append(entries[UserOf(s)], RowOf(s))]
        PROVE  /\ Adjustments(u)' \in Nat /\ Adjustments(u)' >= Adjustments(u)
               /\ \A ref \in Written(u)' :
                     \/ ref \in Written(u)
                     \/ /\ ref[1] = "carry" => Adjustments(u)' = Adjustments(u) + 1
                        /\ ref = session[s].ref /\ u = UserOf(s)
    <2>1. CASE u # UserOf(s)
      <3>1. entries'[u] = entries[u]
        BY <1>1, <1>3, <2>1 DEF TypeOK
      <3>2. QED
        BY <1>1, <1>2, <3>1
    <2>2. CASE u = UserOf(s)
      <3> DEFINE l == entries[u]
                 row == RowOf(s)
      <3>1. /\ l \in Seq(Entry) /\ row \in Entry /\ row.ref = session[s].ref
            /\ entries'[u] = Append(l, row)
        <4>1. entries \in [Users -> Seq(Entry)]
          BY <1>1 DEF TypeOK
        <4>2. l \in Seq(Entry) /\ entries'[u] = Append(l, row)
          BY <1>3, <2>2, <4>1
        <4>3. row \in Entry /\ row.ref = session[s].ref
          BY <1>1, SessionType DEF RowOf, Entry
        <4>4. QED
          BY <4>2, <4>3
      <3>2. /\ Adjustments(u) = Cardinality(Counted(l))
            /\ Adjustments(u)' = Cardinality(Counted(Append(l, row)))
        BY <3>1 DEF Adjustments, Counted
      <3>3. Written(u)' = Written(u) \cup {row.ref}
        <4>1. Written(u)' = {entries'[u][i].ref : i \in 1..Len(entries'[u])}
          BY DEF Written
        <4>2. QED
          BY <3>1, <4>1, WrittenAfterAppend DEF Written
      <3> HIDE DEF l, row
      <3>4. /\ Adjustments(u)' \in Nat /\ Adjustments(u)' >= Adjustments(u)
            /\ row.ref[1] = "carry" => Adjustments(u)' = Adjustments(u) + 1
        BY <3>1, <3>2, AdjustmentsAfterAppend
      <3>5. QED
        BY <2>2, <3>1, <3>3, <3>4
    <2>3. QED
      BY <2>1, <2>2
  <1>4. CASE UNCHANGED <<balance, entries>>
    BY <1>1, <1>2, <1>4
  <1>5. QED
    BY <1>1, <1>3, <1>4, BooksChangeAtCommit

\* A request keeps its reference, or takes the number that is counted, or starts afresh
\* with one that is no carry's.
LEMMA NumbersAreTaken ==
  ASSUME LockInv, NEW s \in Sessions, Begin(s) \/ Statement(s) \/ Rollback(s)
  PROVE  \/ session'[s].ref[1] # "carry"
         \/ UserOf(s)' = UserOf(s) /\ session'[s].ref = session[s].ref
         \/ UserOf(s)' = UserOf(s) /\ session'[s].ref = <<"carry", Adjustments(UserOf(s))>>
  <1> USE DEF LockInv
  <1> session[s] \in SessionState
    BY SessionType
  <1>1. session' \in [Sessions -> SessionState] /\ Idle.ref[1] # "carry"
    BY NextTypeOK DEF Next, TypeOK, Idle
  <1>2. ASSUME NEW new, session' = [session EXCEPT ![s] = new]
        PROVE  session'[s] = new
    BY <1>2 DEF TypeOK
  <1>3. CASE Begin(s)
    <2>1. PICK r \in Requests : Credit(s, r) \/ Debit(s, r) \/ CarryBalance(s, r)
      BY <1>3 DEF Begin
    <2>2. session'[s].ref = r.ref
      BY <1>2, <2>1 DEF Credit, Debit, CarryBalance, Set, TypeOK
    <2>3. QED
      BY <2>2, WalletAssumption
  <1>4. ASSUME NEW pc, session'[s] = [session[s] EXCEPT !.pc = pc]
        PROVE  UserOf(s)' = UserOf(s) /\ session'[s].ref = session[s].ref
    BY <1>4 DEF UserOf, SessionState
  <1>5. CASE CreateWallet(s)
    <2>1. \/ session'[s] = Idle
          \/ session'[s] = [session[s] EXCEPT !.pc =
                              IF session[s].req.kind = "carry" THEN "measure" ELSE "move"]
      BY <1>5 DEF CreateWallet, Set, TypeOK
    <2>2. QED
      BY <1>1, <1>4, <2>1
  <1>6. CASE MeasureGap(s)
    <2>1. PICK gap, pc : session'[s] = [session[s] EXCEPT !.amount = gap, !.pc = pc]
      BY <1>6 DEF MeasureGap, Set, TypeOK
    <2>2. QED
      BY <2>1 DEF UserOf, SessionState
  <1>7. CASE NumberCarry(s)
    <2>1. session'[s] = [session[s] EXCEPT !.ref = <<"carry", Adjustments(UserOf(s))>>, !.pc = "move"]
      BY <1>7 DEF NumberCarry, Set, TypeOK
    <2>2. QED
      BY <2>1 DEF UserOf, SessionState
  <1>8. CASE MoveBalance(s)
    <2>1. \/ session'[s] = Idle
          \/ session'[s] = [session[s] EXCEPT !.after = balance[UserOf(s)] + session[s].amount,
                                              !.pc = "insert"]
      BY <1>8 DEF MoveBalance, Set, TypeOK
    <2>2. QED
      BY <1>1, <2>1 DEF UserOf, SessionState
  <1>9. CASE InsertEntry(s)
    <2>1. \E pc : session'[s] = [session[s] EXCEPT !.pc = pc]
      BY <1>9 DEF InsertEntry, Set, TypeOK
    <2>2. QED
      BY <1>4, <2>1
  <1>10. CASE Commit(s) \/ Rollback(s)
    BY <1>1, <1>2, <1>10 DEF Commit, Rollback, Set
  <1>11. QED
    BY <1>3, <1>5, <1>6, <1>7, <1>8, <1>9, <1>10 DEF Statement

LEMMA NextNumbersAreKnown ==
  ASSUME LockInv, NumbersAreKnown, [Next]_vars
  PROVE  NumbersAreKnown'
  <1>1. \A s \in Sessions : /\ UserOf(s) \in Users /\ session[s].ref \in Reference
                            /\ session[s].ref[2] \in Nat
    BY SessionType DEF LockInv, Reference
  <1>2. \A u \in Users : /\ Adjustments(u) \in Nat /\ Adjustments(u)' \in Nat
                         /\ Adjustments(u)' >= Adjustments(u)
    BY AdjustmentsGrow
  <1>3. ASSUME NEW s \in Sessions, UserOf(s)' = UserOf(s), session'[s].ref = session[s].ref
        PROVE  session'[s].ref[1] = "carry" => session'[s].ref[2] <= Adjustments(UserOf(s))'
    <2>1. Adjustments(UserOf(s))' >= Adjustments(UserOf(s))
      <3>1. \A u \in Users : u = UserOf(s) => Adjustments(u)' = Adjustments(UserOf(s))'
        BY <1>3 DEF Adjustments
      <3>2. QED
        BY <1>1, <1>2, <3>1
    <2>2. Adjustments(UserOf(s))' \in Nat
      BY <1>1, <1>2, <1>3 DEF Adjustments
    <2>3. QED
      BY <1>1, <1>2, <1>3, <2>1, <2>2 DEF NumbersAreKnown
  <1>4. ASSUME NEW s \in Sessions, UserOf(s)' = UserOf(s),
               session'[s].ref = <<"carry", Adjustments(UserOf(s))>>
        PROVE  session'[s].ref[2] <= Adjustments(UserOf(s))'
    <2>1. \A u \in Users : u = UserOf(s) => Adjustments(u)' = Adjustments(UserOf(s))'
      BY <1>4 DEF Adjustments
    <2>2. QED
      BY <1>1, <1>2, <1>4, <2>1
  <1>5. CASE UNCHANGED vars
    BY <1>3, <1>5 DEF vars, NumbersAreKnown, UserOf
  <1>6. ASSUME NEW t \in Sessions, Begin(t) \/ Statement(t) \/ Rollback(t)
        PROVE  NumbersAreKnown'
    <2>1. ASSUME NEW s \in Sessions
          PROVE  session'[s].ref[1] = "carry" => session'[s].ref[2] <= Adjustments(UserOf(s))'
      <3>1. CASE s = t
        BY <1>3, <1>4, <1>6, <3>1, NumbersAreTaken
      <3>2. CASE s # t
        <4>1. session'[s] = session[s] /\ UserOf(s)' = UserOf(s)
          BY <1>6, <3>2, OthersUndisturbed DEF UserOf
        <4>2. QED
          BY <1>3, <4>1
      <3>3. QED
        BY <3>1, <3>2
    <2>2. QED
      BY <2>1 DEF NumbersAreKnown
  <1>7. QED
    BY <1>5, <1>6 DEF Next

\* A carry's number is below every one still to come: a later pass that finds a fresh gap
\* writes its entry, whatever else administrators adjusted (wallet/imports.py).
THEOREM WalletCarriesAreNumbered == Spec => []CarriesAreNumbered
  <1>1. Init => NumbersAreKnown /\ CarriesAreNumbered
    BY DEF Init, Idle, NumbersAreKnown, CarriesAreNumbered, Written
  <1>2. LockInv /\ NumbersAreKnown /\ [Next]_vars => NumbersAreKnown'
    BY NextNumbersAreKnown
  <1>3. LockInv /\ NumbersAreKnown /\ CarriesAreNumbered /\ [Next]_vars => CarriesAreNumbered'
    <2> SUFFICES ASSUME LockInv, NumbersAreKnown, CarriesAreNumbered, [Next]_vars,
                        NEW u \in Users, NEW ref \in Written(u)', ref[1] = "carry"
                 PROVE  ref[2] < Adjustments(u)'
      BY DEF CarriesAreNumbered
    <2>1. /\ Adjustments(u) \in Nat /\ Adjustments(u)' \in Nat /\ Adjustments(u)' >= Adjustments(u)
          /\ \/ ref \in Written(u)
             \/ /\ Adjustments(u)' = Adjustments(u) + 1
                /\ \E s \in Sessions : ref = session[s].ref /\ u = UserOf(s)
      BY AdjustmentsGrow
    <2>2. ref[2] \in Nat
      <3>1. TypeOK'
        BY NextTypeOK DEF LockInv
      <3>2. \A i \in 1..Len(entries'[u]) : entries'[u][i] \in Entry
        BY <3>1 DEF TypeOK
      <3>3. ref \in Reference
        BY <3>2 DEF Written, Entry
      <3>4. QED
        BY <3>3 DEF Reference
    <2>3. CASE ref \in Written(u)
      BY <2>1, <2>2, <2>3 DEF CarriesAreNumbered
    <2>4. CASE ref \notin Written(u)
      BY <2>1, <2>2, <2>4 DEF NumbersAreKnown
    <2>5. QED
      BY <2>3, <2>4
  <1>4. QED
    BY <1>1, <1>2, <1>3, WalletLockInv, PTL DEF Spec
=============================================================================
