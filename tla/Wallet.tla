------------------------------- MODULE Wallet -------------------------------
(***************************************************************************)
(* The student wallet of app/modules/wallet: one balance column and one    *)
(* ledger table per student, moved by concurrent requests.  Every request  *)
(* is one database transaction at READ COMMITTED, and every statement in   *)
(* it is one step here, so other requests run between a request's lookup,  *)
(* its conditional UPDATE, its INSERT and its COMMIT.                      *)
(*                                                                         *)
(* balance, entries and opened are what is committed.  What a request has  *)
(* written and not committed is in its session, and only it sees it.       *)
(***************************************************************************)
EXTENDS Integers, Sequences, FiniteSets

CONSTANTS Users,    \* students
          Sessions, \* requests that can be in flight together
          Requests, \* the movements asked for, a retry being the same one again
          Causes,   \* what can cause a movement: the words a reference is made of
          None,     \* no session
          MaxCarries \* bound: adjustments of a student after which no cutover pass begins

\* A credit and a debit name their amount and reference; a carry names the
\* legacy balance that should end up in the wallet.
Kinds == {"credit", "debit", "carry"}
Reference == Causes \X Nat
Request == [user : Users, kind : Kinds, amount : Nat, ref : Reference]

ASSUME WalletAssumption ==
    /\ Requests \subseteq Request
    /\ Requests # {}
    /\ {"none", "carry"} \subseteq Causes
    /\ \A r \in Requests : r.ref[1] # "carry"
    /\ None \notin Sessions
    /\ MaxCarries \in Nat

VARIABLES opened,   \* students whose wallet row exists
          balance,  \* balance[u]: the balance column
          entries,  \* entries[u]: the ledger of u, in the order written
          locked,   \* locked[u]: the session holding the wallet row, or None
          session   \* session[s]: where request s is and what it has not committed

vars == <<opened, balance, entries, locked, session>>

Entry == [ref : Reference, amount : Int, after : Int]

PC == {"idle", "create", "measure", "count", "move", "insert", "moved", "unmoved"}

SessionState == [pc : PC, req : Requests, amount : Int, ref : Reference, after : Int]

-----------------------------------------------------------------------------

Written(u) == {entries[u][i].ref : i \in 1..Len(entries[u])}

\* Mutant: only what added money is counted.
AdjustmentsUpwards(u) ==
    Cardinality({i \in 1..Len(entries[u]) : entries[u][i].ref[1] \in {"carry", "admin"}
                                                /\ entries[u][i].amount > 0})

\* How many ADJUSTMENT rows the ledger of u holds: carries, and credits an administrator
\* made by hand.
Adjustments(u) ==
    Cardinality({i \in 1..Len(entries[u]) : entries[u][i].ref[1] \in {"carry", "admin"}})

Set(s, new) == session' = [session EXCEPT ![s] = new]
At(s, pc) == session[s].pc = pc
UserOf(s) == session[s].req.user

\* Idle sessions keep no trace of the request they served.
Idle == [pc |-> "idle", req |-> CHOOSE r \in Requests : TRUE,
         amount |-> 0, ref |-> <<"none", 0>>, after |-> 0]

Init ==
    /\ opened = {}
    /\ balance = [u \in Users |-> 0]
    /\ entries = [u \in Users |-> <<>>]
    /\ locked = [u \in Users |-> None]
    /\ session = [s \in Sessions |-> Idle]

-----------------------------------------------------------------------------
(* Opening a request: the lookup each entry point starts with.             *)

\* credit and carry_balance call wallet_for, which creates a missing wallet;
\* carry_balance then measures the gap before it moves anything.
WalletFor(r) == IF r.user \notin opened THEN "create"
                ELSE IF r.kind = "carry" THEN "measure" ELSE "move"

Credit(s, r) ==
    /\ At(s, "idle")
    /\ r.kind = "credit"
    /\ r.amount > 0
    /\ Set(s, [pc |-> WalletFor(r), req |-> r, amount |-> r.amount, ref |-> r.ref, after |-> 0])
    /\ UNCHANGED <<opened, balance, entries, locked>>

\* A debit never creates a wallet: no wallet means no money, and it is refused.
Debit(s, r) ==
    /\ At(s, "idle")
    /\ r.kind = "debit"
    /\ r.amount > 0
    /\ r.user \in opened
    /\ Set(s, [pc |-> "move", req |-> r, amount |-> -r.amount, ref |-> r.ref, after |-> 0])
    /\ UNCHANGED <<opened, balance, entries, locked>>

CarryBalance(s, r) ==
    /\ At(s, "idle")
    /\ r.kind = "carry"
    /\ Adjustments(r.user) < MaxCarries
    /\ Set(s, [pc |-> WalletFor(r), req |-> r, amount |-> 0, ref |-> r.ref, after |-> 0])
    /\ UNCHANGED <<opened, balance, entries, locked>>

\* The INSERT of wallet_for.  It waits on the unique user_id while another
\* request's row is uncommitted; when that row has been committed it is an
\* IntegrityError outside every savepoint, and the request is rolled back.
CreateWallet(s) ==
    /\ At(s, "create")
    /\ locked[UserOf(s)] = None
    /\ IF UserOf(s) \in opened
       THEN /\ Set(s, Idle)
            /\ UNCHANGED locked
       ELSE /\ locked' = [locked EXCEPT ![UserOf(s)] = s]
            /\ Set(s, [session[s] EXCEPT !.pc =
                              IF session[s].req.kind = "carry" THEN "measure" ELSE "move"])
    /\ UNCHANGED <<opened, balance, entries>>

-----------------------------------------------------------------------------
(* carry_balance: two reads, each of what is committed at that moment.     *)

\* The gap between the legacy balance and the committed one; none, no entry.
MeasureGap(s) ==
    /\ At(s, "measure")
    /\ LET gap == session[s].req.amount - balance[UserOf(s)]
       IN  Set(s, [session[s] EXCEPT !.amount = gap,
                                     !.pc = IF gap = 0 THEN "unmoved" ELSE "count"])
    /\ UNCHANGED <<opened, balance, entries, locked>>

\* The reference is numbered by the adjustments already written.
NumberCarry(s) ==
    /\ At(s, "count")
    /\ Set(s, [session[s] EXCEPT !.ref = <<"carry", Adjustments(UserOf(s))>>, !.pc = "move"])
    /\ UNCHANGED <<opened, balance, entries, locked>>

-----------------------------------------------------------------------------
(* _move: one savepoint around a conditional UPDATE and an INSERT.         *)

\* Mutant: the funds check is off by one rupee.
AffordableOffByOne(s) ==
    session[s].req.kind = "debit" => balance[UserOf(s)] + session[s].amount >= -1

Affordable(s) == session[s].req.kind = "debit" => balance[UserOf(s)] + session[s].amount >= 0

\* Mutant: the balance is read, compared and written back, with no row lock.
MoveBalanceUnlocked(s) ==
    /\ At(s, "move")
    /\ Affordable(s)
    /\ Set(s, [session[s] EXCEPT !.after = balance[UserOf(s)] + session[s].amount,
                                    !.pc = "insert"])
    /\ UNCHANGED <<opened, balance, entries, locked>>

\* The UPDATE waits for the row, then evaluates its WHERE against what the
\* last committed request left.  No row back: NOT_ENOUGH, and the request ends.
MoveBalance(s) ==
    /\ At(s, "move")
    /\ locked[UserOf(s)] \in {None, s}
    /\ IF Affordable(s)
       THEN /\ locked' = [locked EXCEPT ![UserOf(s)] = s]
            /\ Set(s, [session[s] EXCEPT !.after = balance[UserOf(s)] + session[s].amount,
                                    !.pc = "insert"])
       ELSE /\ Set(s, Idle)
            /\ UNCHANGED locked
    /\ UNCHANGED <<opened, balance, entries>>

\* Mutant: no unique constraint on the reference.
InsertEntryAgain(s) ==
    /\ At(s, "insert")
    /\ Set(s, [session[s] EXCEPT !.pc = "moved"])
    /\ UNCHANGED <<opened, balance, entries, locked>>

\* The INSERT under UNIQUE (wallet_id, reference).  A duplicate rolls back to
\* the savepoint: the balance change is undone, its row lock is given up and
\* the surrounding transaction goes on.  (A wallet this transaction created has
\* no entries to collide with.)
InsertEntry(s) ==
    /\ At(s, "insert")
    /\ IF session[s].ref \in Written(UserOf(s))
       THEN /\ Set(s, [session[s] EXCEPT !.pc = "unmoved"])
            /\ locked' = [locked EXCEPT ![UserOf(s)] = None]
       ELSE /\ Set(s, [session[s] EXCEPT !.pc = "moved"])
            /\ UNCHANGED locked
    /\ UNCHANGED <<opened, balance, entries>>

-----------------------------------------------------------------------------
(* How a request ends (api/deps.get_db).                                   *)

Unlock(s) == locked' = [u \in Users |-> IF locked[u] = s THEN None ELSE locked[u]]

\* Mutants: no savepoint, so a refused duplicate's balance change is committed;
\* and a commit that leaves the row locked.
CommitUnsaved(s) ==
    /\ session[s].pc \in {"moved", "unmoved"}
    /\ LET u == UserOf(s)
           row == [ref |-> session[s].ref, amount |-> session[s].amount, after |-> session[s].after]
       IN  /\ balance' = [balance EXCEPT ![u] = session[s].after]
           /\ entries' = [entries EXCEPT ![u] = IF At(s, "moved") THEN Append(@, row) ELSE @]
           /\ opened' = opened \cup {u}
    /\ Unlock(s)
    /\ Set(s, Idle)

CommitHolding(s) ==
    /\ At(s, "moved")
    /\ opened' = opened \cup {UserOf(s)}
    /\ Set(s, Idle)
    /\ UNCHANGED <<balance, entries, locked>>

\* The handler returned: what the transaction wrote becomes visible.
Commit(s) ==
    /\ session[s].pc \in {"moved", "unmoved"}
    /\ LET u == UserOf(s)
           row == [ref |-> session[s].ref, amount |-> session[s].amount, after |-> session[s].after]
       IN  IF At(s, "moved")
           THEN /\ balance' = [balance EXCEPT ![u] = session[s].after]
                /\ entries' = [entries EXCEPT ![u] = Append(@, row)]
                /\ opened' = opened \cup {u}
           ELSE /\ opened' = opened \cup {u}
                /\ UNCHANGED <<balance, entries>>
    /\ Unlock(s)
    /\ Set(s, Idle)

\* The handler raised, or the process died: nothing of it stays.
Rollback(s) ==
    /\ ~At(s, "idle")
    /\ Unlock(s)
    /\ Set(s, Idle)
    /\ UNCHANGED <<opened, balance, entries>>

-----------------------------------------------------------------------------

Begin(s) == \E r \in Requests : Credit(s, r) \/ Debit(s, r) \/ CarryBalance(s, r)

Statement(s) ==
    \/ CreateWallet(s)
    \/ MeasureGap(s)
    \/ NumberCarry(s)
    \/ MoveBalance(s)
    \/ InsertEntry(s)
    \/ Commit(s)

Next == \E s \in Sessions : Begin(s) \/ Statement(s) \/ Rollback(s)

Spec == Init /\ [][Next]_vars

\* A request that has started runs its next statement.  Strong fairness, since
\* a statement waiting for the row is enabled only between its holders: the
\* database grants a row lock in arrival order.
FairSpec == Spec /\ \A s \in Sessions : SF_vars(Statement(s))

-----------------------------------------------------------------------------
(* Properties                                                              *)

TypeOK ==
    /\ opened \subseteq Users
    /\ balance \in [Users -> Int]
    /\ entries \in [Users -> Seq(Entry)]
    /\ locked \in [Users -> Sessions \cup {None}]
    /\ session \in [Sessions -> SessionState]

\* The balance after the first i entries of u, as each entry recorded it.
BalanceAt(u, i) == IF i = 0 THEN 0 ELSE entries[u][i].after

\* The ledger explains the balance, entry by entry: each row's balance_after is
\* the row before it plus its own amount, and the last one is the balance
\* column.  This is sum(entries) = balance, and every statement line true, for
\* any interleaving of concurrent credits, spends, retries and rollbacks.
LedgerExplainsBalance ==
    \A u \in Users :
        /\ \A i \in 1..Len(entries[u]) :
              entries[u][i].after = BalanceAt(u, i - 1) + entries[u][i].amount
        /\ balance[u] = BalanceAt(u, Len(entries[u]))

\* A retried request, a redelivered webhook, two racing copies of either: the
\* reference moves money once.
ReferenceMovesOnce ==
    \A u \in Users : \A i, j \in 1..Len(entries[u]) :
        entries[u][i].ref = entries[u][j].ref => i = j

\* Two spends that each fit the balance never both succeed when together they
\* do not, however their statements interleave.
NeverOverdrawn == \A u \in Users : balance[u] >= 0

\* A carry has a number below every one still to come, whatever else was adjusted: "a
\* later pass that finds a fresh gap" never collides with an entry an earlier one wrote.
CarriesAreNumbered ==
    \A u \in Users : \A ref \in Written(u) : ref[1] = "carry" => ref[2] < Adjustments(u)

\* Every request that starts comes to an end: one row is the only thing a
\* request waits for, so requests cannot wait for each other in a circle.
RequestsEnd == \A s \in Sessions : ~At(s, "idle") ~> At(s, "idle")

\* Credits, spends and their retries implement the abstract ledger: seen from
\* outside, a whole transaction is one movement or nothing.
Ledger == INSTANCE WalletLedger
             WITH References <- {r.ref : r \in Requests},
                  Amounts <- {r.amount : r \in Requests} \cup {-r.amount : r \in Requests},
                  spent <- [u \in Users |-> Written(u)]

ImplementsLedger == Ledger!Spec
=============================================================================
