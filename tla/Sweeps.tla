------------------------------- MODULE Sweeps -------------------------------
(***************************************************************************)
(* One scheduled job and the workers that run it (jobs/scheduler.py,        *)
(* core/db.advisory_lock).  When a worker last ran the job is its own       *)
(* memory; the lock is Postgres', held on a connection of its own for as    *)
(* long as the job and its commit take.                                    *)
(***************************************************************************)
EXTENDS Integers

CONSTANTS Workers, NoWorker,
          Interval \* how long a job that ran is not due, in ticks of the loop

ASSUME SweepsAssumption == NoWorker \notin Workers /\ Interval \in Nat \ {0}

VARIABLES job,     \* job[w]: down, idle, running, or done: committed, not yet recorded
          since,   \* since[w]: since w recorded a run of its own; Interval once it is due
          taken,   \* taken[w]: since w began the run it is in
          swept,   \* swept[w]: since w began the last run that it committed
          lockedBy,  \* the worker with the lock
          severed  \* the lock's connection was lost while its job went on

sweepVars == <<job, since, taken, swept, lockedBy, severed>>

Later(n) == IF n < Interval THEN n + 1 ELSE Interval

SweepsInit ==
    /\ job = [w \in Workers |-> "down"]
    /\ since = [w \in Workers |-> Interval]
    /\ taken = [w \in Workers |-> 0]
    /\ swept = [w \in Workers |-> Interval]
    /\ lockedBy = NoWorker /\ severed = FALSE

Boot(w) ==
    /\ job[w] = "down"
    /\ job' = [job EXCEPT ![w] = "idle"]
    /\ UNCHANGED <<since, taken, swept, lockedBy, severed>>

\* Mutant: the lock is the first transaction's, and ends with it.
RunDueUnlocked(w) ==
    /\ job[w] = "idle" /\ since[w] = Interval /\ lockedBy = NoWorker
    /\ job' = [job EXCEPT ![w] = "running"] /\ taken' = [taken EXCEPT ![w] = 0]
    /\ UNCHANGED <<since, swept, lockedBy, severed>>

\* run_due: who does not get the lock goes back to sleep and asks again at its next tick.
RunDue(w) ==
    /\ job[w] = "idle" /\ since[w] = Interval /\ lockedBy = NoWorker
    /\ lockedBy' = w
    /\ job' = [job EXCEPT ![w] = "running"] /\ taken' = [taken EXCEPT ![w] = 0]
    /\ UNCHANGED <<since, swept, severed>>

\* session_scope commits the sweep.
CommitSweep(w) ==
    /\ job[w] = "running"
    /\ job' = [job EXCEPT ![w] = "done"] /\ swept' = [swept EXCEPT ![w] = taken[w]]
    /\ UNCHANGED <<since, taken, lockedBy, severed>>

Released(w) == IF lockedBy = w THEN NoWorker ELSE lockedBy

\* Recorded as of the moment it was due, then unlocked.
RecordSweep(w) ==
    /\ job[w] = "done"
    /\ job' = [job EXCEPT ![w] = "idle"] /\ since' = [since EXCEPT ![w] = taken[w]]
    /\ lockedBy' = Released(w)
    /\ UNCHANGED <<taken, swept, severed>>

\* It raised: rolled back, unlocked, not recorded.
SweepFails(w) ==
    /\ job[w] = "running"
    /\ job' = [job EXCEPT ![w] = "idle"]
    /\ lockedBy' = Released(w)
    /\ UNCHANGED <<since, taken, swept, severed>>

\* Mutant: the lock outlives the process.
CrashLocked(w) ==
    /\ job[w] # "down"
    /\ job' = [job EXCEPT ![w] = "down"] /\ since' = [since EXCEPT ![w] = Interval]
    /\ UNCHANGED <<taken, swept, lockedBy, severed>>

\* The process is gone, its connections with it, and what it remembered.
Crash(w) ==
    /\ job[w] # "down"
    /\ job' = [job EXCEPT ![w] = "down"] /\ since' = [since EXCEPT ![w] = Interval]
    /\ lockedBy' = Released(w)
    /\ UNCHANGED <<taken, swept, severed>>

\* Postgres closes the lock's connection, which waits idle while the job runs.
Sever(w) ==
    /\ lockedBy = w /\ job[w] = "running"
    /\ lockedBy' = NoWorker /\ severed' = TRUE
    /\ UNCHANGED <<job, since, taken, swept>>

Pass ==
    /\ since' = [w \in Workers |-> Later(since[w])]
    /\ taken' = [w \in Workers |-> IF job[w] \in {"running", "done"} THEN Later(taken[w]) ELSE 0]
    /\ swept' = [w \in Workers |-> Later(swept[w])]
    /\ UNCHANGED <<job, lockedBy, severed>>

SweepsNext ==
    \/ Pass
    \/ \E w \in Workers :
          \/ Boot(w) \/ RunDue(w) \/ CommitSweep(w) \/ RecordSweep(w)
          \/ SweepFails(w) \/ Crash(w) \/ Sever(w)

SweepsSpec == SweepsInit /\ [][SweepsNext]_sweepVars

-----------------------------------------------------------------------------
(* Properties                                                              *)

SweepsTypeOK ==
    /\ job \in [Workers -> {"down", "idle", "running", "done"}]
    /\ since \in [Workers -> 0..Interval] /\ taken \in [Workers -> 0..Interval]
    /\ swept \in [Workers -> 0..Interval]
    /\ lockedBy \in Workers \cup {NoWorker} /\ severed \in BOOLEAN

\* One sweep at a time, through crashes and failures: nobody takes the lock "and reads a
\* half-finished sweep" (scheduler._run_one).
OneSweepAtATime ==
    severed \/ \A w, v \in Workers : job[w] = "running" /\ job[v] \in {"running", "done"} => w = v

\* A worker that is not due again has itself committed the run it goes by.
RunsWereCommitted == \A w \in Workers : since[w] < Interval => swept[w] <= since[w]

\* The two together: sweeps take turns, and a turn that failed is not taken for one.
SweepsTakeTurns == OneSweepAtATime /\ RunsWereCommitted

\* As core/db.advisory_lock has it, "exactly one gets it, and the other three go back to
\* sleep instead of running the sweep three more times".  It does not hold: they wake up
\* when the lock is free again, still due.
OneSweepAnInterval ==
    [][\A w \in Workers : job[w] = "running" /\ job'[w] = "done"
          => \A v \in Workers : swept[v] = Interval]_sweepVars
=============================================================================
