--------------------------- MODULE RequestsProofs ---------------------------
(***************************************************************************)
(* Theorems about what one server's requests and jobs do: the scheduled    *)
(* jobs, the device commands and the alerts, each on its own; and links,    *)
(* payment keys, commands, documents and the ceilings of a route as         *)
(* MCRequests puts them together.                                          *)
(***************************************************************************)
EXTENDS MCRequests, SequenceTheorems, FiniteSetTheorems, TLAPS

\* A worker that sweeps is due all the while, and what it has committed it goes by.
SweepsInv ==
    /\ SweepsTypeOK
    /\ severed \/ \A w \in Workers : job[w] \in {"running", "done"} => lockedBy = w
    /\ \A w \in Workers :
          /\ job[w] \in {"running", "done"} => since[w] = Interval
          /\ job[w] = "done" => swept[w] = taken[w]
          /\ since[w] < Interval => swept[w] <= since[w]

LEMMA SweepsStart == SweepsInit => SweepsInv
<1> SUFFICES ASSUME SweepsInit PROVE SweepsInv
  OBVIOUS
<1>1. 0 \in 0..Interval /\ Interval \in 0..Interval /\ ~(Interval < Interval)
  BY SweepsAssumption
<1>2. SweepsTypeOK
  BY <1>1 DEF SweepsInit, SweepsTypeOK
<1>3. \A w \in Workers : job[w] = "down" /\ since[w] = Interval
  BY DEF SweepsInit
<1> QED  BY <1>1, <1>2, <1>3 DEF SweepsInv

LEMMA LaterBounds ==
    \A n \in 0..Interval : /\ Later(n) \in 0..Interval
                           /\ Later(n) < Interval => Later(n) = n + 1
                           /\ n = Interval => Later(n) = Interval
  BY SweepsAssumption DEF Later

LEMMA SweepsStep == SweepsInv /\ [SweepsNext]_sweepVars => SweepsInv'
<1> SUFFICES ASSUME SweepsInv, [SweepsNext]_sweepVars PROVE SweepsInv'
  OBVIOUS
<1> USE SweepsAssumption DEF SweepsInv, SweepsTypeOK
<1>1. CASE Pass
  <2>1. \A w \in Workers : /\ since[w] \in 0..Interval /\ since'[w] = Later(since[w])
                           /\ swept[w] \in 0..Interval /\ swept'[w] = Later(swept[w])
                           /\ taken[w] \in 0..Interval
                           /\ taken'[w] = IF job[w] \in {"running", "done"} THEN Later(taken[w]) ELSE 0
    BY <1>1 DEF Pass
  <2>2. SweepsTypeOK'
    <3>1. \A w \in Workers : since'[w] \in 0..Interval /\ swept'[w] \in 0..Interval /\ taken'[w] \in 0..Interval
      BY <2>1, LaterBounds
    <3> QED  BY <3>1, <1>1 DEF Pass
  <2>3. \A w \in Workers :
          /\ job[w] \in {"running", "done"} => since'[w] = Interval
          /\ job[w] = "done" => swept'[w] = taken'[w]
    BY <2>1, LaterBounds
  <2>4. \A w \in Workers : since'[w] < Interval => swept'[w] <= since'[w]
    BY <2>1 DEF Later
  <2> QED  BY <2>2, <2>3, <2>4, <1>1 DEF Pass
<1>2. ASSUME NEW w \in Workers, Boot(w) PROVE SweepsInv'
  BY <1>2 DEF Boot
<1>3. ASSUME NEW w \in Workers, RunDue(w) PROVE SweepsInv'
  BY <1>3 DEF RunDue
<1>4. ASSUME NEW w \in Workers, CommitSweep(w) PROVE SweepsInv'
  BY <1>4 DEF CommitSweep
<1>5. ASSUME NEW w \in Workers, RecordSweep(w) PROVE SweepsInv'
  BY <1>5 DEF RecordSweep, Released
<1>6. ASSUME NEW w \in Workers, SweepFails(w) PROVE SweepsInv'
  BY <1>6 DEF SweepFails, Released
<1>7. ASSUME NEW w \in Workers, Crash(w) PROVE SweepsInv'
  BY <1>7 DEF Crash, Released
<1>8. ASSUME NEW w \in Workers, Sever(w) PROVE SweepsInv'
  BY <1>8 DEF Sever
<1>9. CASE UNCHANGED sweepVars
  BY <1>9 DEF sweepVars
<1> QED  BY <1>1, <1>2, <1>3, <1>4, <1>5, <1>6, <1>7, <1>8, <1>9 DEF SweepsNext

\* Clocks and locks keep their types, for any number of workers (jobs/scheduler.py).
THEOREM SweepsKeepTypes == SweepsSpec => []SweepsTypeOK
<1>1. SweepsInv => SweepsTypeOK  BY DEF SweepsInv
<1> QED  BY <1>1, SweepsStart, SweepsStep, PTL DEF SweepsSpec

\* One sweep at a time, however many workers boot, fail and die, as long as the lock's
\* connection lives (core/db.advisory_lock); whoever is not due goes by a run it
\* committed, never by one that failed (scheduler.run_due).
THEOREM SweepsAlternate == SweepsSpec => []SweepsTakeTurns
<1>1. SweepsInv => SweepsTakeTurns
  BY DEF SweepsInv, SweepsTakeTurns, OneSweepAtATime, RunsWereCommitted
<1> QED  BY <1>1, SweepsStart, SweepsStep, PTL DEF SweepsSpec

-----------------------------------------------------------------------------
(* Device commands.                                                        *)

CommandRequest ==
    {Idle} \cup [on : {"ask"}, kind : CommandKinds] \cup [on : {"wake"}]
    \cup [on : {"claim"}, rows : SUBSET Nat, fresh : SUBSET Nat]
    \cup [on : {"report"}, command : Nat, result : {"succeeded", "failed"}]

\* What is queued was never run, the claims in flight hold rows of their own, and a
\* report is about what was run.
CommandsInv ==
    /\ CommandsTypeOK
    /\ runs \in Seq(Nat) /\ Len(runs) = Len(commands)
    /\ session \in [Sessions -> CommandRequest]
    /\ \A i \in DOMAIN commands : runs[i] <= 1 /\ (i \in Waiting => runs[i] = 0)
    /\ \A s \in Sessions : Serving(s, "claim") =>
          /\ session[s].rows \subseteq Waiting /\ session[s].fresh \subseteq session[s].rows
          /\ \A r \in Sessions : r # s /\ Serving(r, "claim") =>
                session[s].rows \cap session[r].rows = {}
    /\ \A s \in Sessions : Serving(s, "report") =>
          session[s].command \in DOMAIN commands \ Waiting

LEMMA IsASeqOfRows ==
  ASSUME NEW S, NEW n \in Nat, NEW f, f = [i \in 1..n |-> f[i]], \A i \in 1..n : f[i] \in S
  PROVE  f \in Seq(S) /\ Len(f) = n /\ DOMAIN f = 1..n
  OBVIOUS

LEMMA CommandChanged ==
  ASSUME NEW l \in Seq(Command), NEW i \in DOMAIN l, NEW c \in Command
  PROVE  LET new == [l EXCEPT ![i] = c]
         IN  /\ new \in Seq(Command) /\ Len(new) = Len(l) /\ DOMAIN new = DOMAIN l
             /\ new[i] = c /\ \A j \in DOMAIN l : j # i => new[j] = l[j]
  OBVIOUS

LEMMA CommandsStart == CommandsInit => CommandsInv
<1> SUFFICES ASSUME CommandsInit PROVE CommandsInv
  OBVIOUS
<1>0. <<>> \in Seq(Command) /\ <<>> \in Seq(Nat) /\ DOMAIN <<>> = {} /\ Len(<<>>) = 0
  BY EmptySeq
<1>1. commands = <<>> /\ runs = <<>> /\ CommandsTypeOK /\ runs \in Seq(Nat)
  BY <1>0 DEF CommandsInit, CommandsTypeOK
<1>2. session \in [Sessions -> CommandRequest] /\ \A s \in Sessions : session[s].on = "nothing"
  BY DEF CommandsInit, NobodyServed, CommandRequest, Idle
<1> QED  BY <1>0, <1>1, <1>2 DEF CommandsInv, Serving

LEMMA CommandsStep == CommandsInv /\ [CommandsNext]_commandVars => CommandsInv'
<1> SUFFICES ASSUME CommandsInv, [CommandsNext]_commandVars PROVE CommandsInv'
  OBVIOUS
<1> USE DEF CommandsInv, CommandsTypeOK
<1>1. CASE Connect
  BY <1>1 DEF Connect, rowVars, Waiting, Serving
<1>2. CASE Subscribe
  BY <1>2 DEF Subscribe, rowVars, Waiting, Serving
<1>3. CASE Disconnect
  BY <1>3 DEF Disconnect, rowVars, Waiting, Serving
<1>4. CASE FindNothing
  BY <1>4 DEF FindNothing, rowVars, Waiting, Serving
<1>5. CASE Enrolment
  BY <1>5 DEF Enrolment, wakeVars, Waiting, Serving
<1>6. ASSUME NEW i \in DOMAIN commands, Lapse(i) PROVE CommandsInv'
  <2> DEFINE c == [commands[i] EXCEPT !.late = TRUE]
  <2>0. c \in Command /\ c.state = commands[i].state
    <3>1. commands[i] \in Command
      OBVIOUS
    <3> QED  BY <3>1 DEF Command
  <2>a. commands' = [commands EXCEPT ![i] = c]
    BY <1>6 DEF Lapse
  <2> HIDE DEF c
  <2>1. commands' \in Seq(Command) /\ Len(commands') = Len(commands) /\ DOMAIN commands' = DOMAIN commands
    BY <2>0, <2>a, CommandChanged
  <2>2. \A j \in DOMAIN commands : commands'[j].state = commands[j].state
    BY <2>0, <2>a
  <2>3. Waiting' = Waiting
    BY <2>1, <2>2 DEF Waiting
  <2> QED  BY <2>1, <2>3, <1>6 DEF Lapse, wakeVars, Serving
<1>7. ASSUME NEW s \in Sessions, NEW kind \in CommandKinds, RequestCommand(s, kind) PROVE CommandsInv'
  BY <1>7 DEF RequestCommand, Start, rowVars, wakeVars, Waiting, Serving, Idle, CommandRequest
<1>8. ASSUME NEW s \in Sessions, CommitCommand(s) PROVE CommandsInv'
  <2> DEFINE n == Len(commands) + 1
  <2>1. session[s].kind \in CommandKinds
    BY <1>8 DEF CommitCommand, Serving, CommandRequest, Idle
  <2>2. /\ commands' \in Seq(Command) /\ runs' \in Seq(Nat)
        /\ Len(commands') = n /\ Len(runs') = n
        /\ DOMAIN commands' = 1..n /\ DOMAIN runs' = 1..n /\ DOMAIN commands = 1..(n - 1)
    BY <2>1, <1>8 DEF CommitCommand, Command
  <2>3. /\ \A i \in DOMAIN commands : commands'[i] = commands[i] /\ runs'[i] = runs[i]
        /\ commands'[n].state = "queued" /\ runs'[n] = 0
    BY <1>8 DEF CommitCommand
  <2>4. Waiting' = Waiting \cup {n} /\ Waiting \subseteq DOMAIN commands /\ n \notin DOMAIN commands
    BY <2>2, <2>3 DEF Waiting
  <2>5. session' \in [Sessions -> CommandRequest] /\ session'[s].on = "wake"
        /\ \A r \in Sessions \ {s} : session'[r] = session[r]
    BY <1>8 DEF CommitCommand, CommandRequest
  <2>6. CommandsTypeOK'
    BY <2>2, <1>8 DEF CommitCommand, wakeVars
  <2>7. \A i \in DOMAIN commands' : runs'[i] <= 1 /\ (i \in Waiting' => runs'[i] = 0)
    BY <2>2, <2>3, <2>4
  <2> HIDE DEF n
  <2>8. \A r \in Sessions : Serving(r, "claim")' =>
          /\ session'[r].rows \subseteq Waiting' /\ session'[r].fresh \subseteq session'[r].rows
          /\ \A q \in Sessions : q # r /\ Serving(q, "claim")' =>
                session'[r].rows \cap session'[q].rows = {}
    BY <2>4, <2>5 DEF Serving
  <2>9. DOMAIN commands \subseteq DOMAIN commands'
    BY <2>2
  <2>10. \A r \in Sessions : Serving(r, "report")' => session'[r].command \in DOMAIN commands' \ Waiting'
    BY <2>4, <2>5, <2>9 DEF Serving
  <2>11. runs' \in Seq(Nat) /\ Len(runs') = Len(commands') /\ session' \in [Sessions -> CommandRequest]
    BY <2>2, <2>5
  <2> QED  BY <2>6, <2>7, <2>8, <2>10, <2>11
<1>9. ASSUME NEW s \in Sessions, NEW heard \in BOOLEAN, Publish(s, heard) PROVE CommandsInv'
  BY <1>9 DEF Publish, Finish, rowVars, Waiting, Serving, Idle, CommandRequest
<1>10. ASSUME NEW s \in Sessions, ClaimCommands(s) PROVE CommandsInv'
  <2> DEFINE claimed == Waiting \ Locked
             fresh == {i \in claimed : ~commands[i].late}
  <2>1. claimed \subseteq Waiting /\ fresh \subseteq claimed /\ Waiting \subseteq Nat
    BY DEF Waiting
  <2>2. \A r \in Sessions : Serving(r, "claim") => claimed \cap session[r].rows = {}
    BY DEF Locked
  <2>3. /\ session[s].on = "nothing"
        /\ session' = [session EXCEPT ![s] = [on |-> "claim", rows |-> claimed, fresh |-> fresh]]
        /\ UNCHANGED <<commands, runs, enrolled, socket, missed>> /\ woken' = FALSE
    BY <1>10 DEF ClaimCommands, Start, rowVars, Idle
  <2>4. UNCHANGED Waiting
    BY <2>3 DEF Waiting
  <2> HIDE DEF claimed, fresh
  <2>5. session' \in [Sessions -> CommandRequest]
    BY <2>1, <2>3 DEF CommandRequest
  <2>6. \A r \in Sessions \ {s} : session'[r] = session[r]
    BY <2>3
  <2>7. session'[s].on = "claim" /\ session'[s].rows = claimed /\ session'[s].fresh = fresh
    BY <2>3
  <2>8. CommandsTypeOK'
    BY <2>3
  <2>9. \A r \in Sessions : Serving(r, "claim")' =>
          /\ session'[r].rows \subseteq Waiting /\ session'[r].fresh \subseteq session'[r].rows
          /\ \A q \in Sessions : q # r /\ Serving(q, "claim")' => session'[r].rows \cap session'[q].rows = {}
    <3> SUFFICES ASSUME NEW r \in Sessions, Serving(r, "claim")'
                 PROVE  /\ session'[r].rows \subseteq Waiting /\ session'[r].fresh \subseteq session'[r].rows
                        /\ \A q \in Sessions : q # r /\ Serving(q, "claim")' =>
                              session'[r].rows \cap session'[q].rows = {}
      OBVIOUS
    <3>1. CASE r = s
      BY <3>1, <2>1, <2>2, <2>6, <2>7 DEF Serving
    <3>2. CASE r # s
      <4>1. Serving(r, "claim") /\ session'[r] = session[r]
        BY <3>2, <2>6 DEF Serving
      <4>2. session[r].rows \cap claimed = {}
        BY <4>1, <2>2
      <4>3. \A q \in Sessions : q # r /\ q # s /\ Serving(q, "claim")' => session[r].rows \cap session'[q].rows = {}
        BY <4>1, <2>6 DEF Serving
      <4> QED  BY <4>1, <4>2, <4>3, <2>7
    <3> QED  BY <3>1, <3>2
  <2>10. \A r \in Sessions : Serving(r, "report")' => session'[r].command \in DOMAIN commands \ Waiting
    BY <2>6, <2>7 DEF Serving
  <2>11. UNCHANGED <<commands, runs>> /\ UNCHANGED Waiting
    BY <2>3, <2>4
  <2> HIDE DEF CommandsTypeOK
  <2> QED  BY <2>5, <2>8, <2>9, <2>10, <2>11
<1>11. ASSUME NEW s \in Sessions, NEW arrives \in BOOLEAN, CommitClaim(s, arrives) PROVE CommandsInv'
  <2> DEFINE claimed == session[s].rows
  <2>1. claimed \subseteq Waiting /\ session[s].fresh \subseteq claimed /\ Waiting \subseteq DOMAIN commands
    BY <1>11 DEF CommitClaim, Waiting
  <2>2. \A i \in DOMAIN commands : commands[i] \in Command
    OBVIOUS
  <2>3. \A i \in DOMAIN commands : commands'[i] \in Command
    BY <2>2, <1>11 DEF CommitClaim, Command
  <2>4. commands' = [i \in 1..Len(commands) |-> commands'[i]] /\ runs' = [i \in 1..Len(commands) |-> runs'[i]]
        /\ DOMAIN commands = 1..Len(commands) /\ Len(commands) \in Nat
    BY <1>11 DEF CommitClaim
  <2>5. \A i \in 1..Len(commands) : runs'[i] \in Nat
    BY <1>11 DEF CommitClaim
  <2>6. /\ commands' \in Seq(Command) /\ runs' \in Seq(Nat)
        /\ Len(commands') = Len(commands) /\ Len(runs') = Len(commands)
        /\ DOMAIN commands' = DOMAIN commands /\ DOMAIN runs' = DOMAIN commands
    <3>1. commands' \in Seq(Command) /\ Len(commands') = Len(commands) /\ DOMAIN commands' = 1..Len(commands)
      <4>1. \A i \in 1..Len(commands) : commands'[i] \in Command
        BY <2>3, <2>4
      <4> HIDE DEF CommandsInv, CommandsTypeOK
      <4> QED  BY <2>4, <4>1, IsASeqOfRows
    <3>2. runs' \in Seq(Nat) /\ Len(runs') = Len(commands) /\ DOMAIN runs' = 1..Len(commands)
      <4> HIDE DEF CommandsInv, CommandsTypeOK
      <4> QED  BY <2>4, <2>5, IsASeqOfRows
    <3> HIDE DEF CommandsInv, CommandsTypeOK
    <3> QED  BY <2>4, <3>1, <3>2
  <2>7. \A i \in DOMAIN commands : commands'[i].state = "queued" <=> i \in Waiting \ claimed
    BY <2>2, <1>11 DEF CommitClaim, Command, Waiting
  <2>8. Waiting' = Waiting \ claimed
    BY <2>1, <2>6, <2>7 DEF Waiting
  <2>9. \A i \in DOMAIN commands : runs'[i] <= 1 /\ (i \in Waiting' => runs'[i] = 0)
    BY <2>1, <2>8, <1>11 DEF CommitClaim
  <2>10. session' \in [Sessions -> CommandRequest] /\ session'[s].on = "nothing"
        /\ \A r \in Sessions \ {s} : session'[r] = session[r]
    BY <1>11 DEF CommitClaim, Finish, CommandRequest, Idle
  <2>11. CommandsTypeOK'
    BY <2>6, <1>11 DEF CommitClaim, wakeVars
  <2>12. \A r \in Sessions : r # s /\ Serving(r, "claim") => session[r].rows \cap claimed = {}
    BY <1>11 DEF CommitClaim
  <2>13. \A r \in Sessions : Serving(r, "claim")' =>
           /\ r # s /\ session'[r] = session[r] /\ Serving(r, "claim")
           /\ session[r].rows \subseteq Waiting'
    BY <2>8, <2>10, <2>12 DEF Serving
  <2>14. \A r \in Sessions : Serving(r, "claim")' =>
           /\ session'[r].rows \subseteq Waiting' /\ session'[r].fresh \subseteq session'[r].rows
           /\ \A q \in Sessions : q # r /\ Serving(q, "claim")' =>
                 session'[r].rows \cap session'[q].rows = {}
    BY <2>13
  <2>15. \A r \in Sessions : Serving(r, "report")' => session'[r].command \in DOMAIN commands' \ Waiting'
    BY <2>6, <2>8, <2>10 DEF Serving
  <2> HIDE DEF claimed, CommandsTypeOK
  <2> QED  BY <2>6, <2>9, <2>10, <2>11, <2>14, <2>15
<1>12. ASSUME NEW s \in Sessions, NEW i \in DOMAIN commands, NEW result \in {"succeeded", "failed"},
              ReportCommand(s, i, result)
       PROVE CommandsInv'
  BY <1>12 DEF ReportCommand, Start, rowVars, wakeVars, Waiting, OpenCommands, Serving, Idle, CommandRequest
<1>13. ASSUME NEW s \in Sessions, WriteResult(s) PROVE CommandsInv'
  <2> DEFINE i == session[s].command
  <2>1. i \in DOMAIN commands \ Waiting /\ session[s].result \in {"succeeded", "failed"}
    BY <1>13 DEF WriteResult, Serving, CommandRequest, Idle
  <2> DEFINE c == [commands[i] EXCEPT !.state = session[s].result]
  <2>0. c \in Command /\ c.state # "queued"
    <3>1. commands[i] \in Command
      BY <2>1
    <3> QED  BY <2>1, <3>1 DEF Command
  <2>2. commands' = [commands EXCEPT ![i] = c]
    BY <1>13 DEF WriteResult
  <2> HIDE DEF i, c
  <2>3. /\ commands' \in Seq(Command) /\ Len(commands') = Len(commands) /\ DOMAIN commands' = DOMAIN commands
        /\ commands'[i].state # "queued" /\ \A j \in DOMAIN commands : j # i => commands'[j] = commands[j]
    BY <2>0, <2>1, <2>2, CommandChanged
  <2>4. Waiting' = Waiting
    BY <2>1, <2>3 DEF Waiting
  <2>5. session' \in [Sessions -> CommandRequest] /\ session'[s].on = "nothing"
        /\ \A r \in Sessions \ {s} : session'[r] = session[r]
    BY <1>13 DEF WriteResult, Finish, CommandRequest, Idle
  <2>6. CommandsTypeOK'
    BY <2>3, <1>13 DEF WriteResult, wakeVars
  <2>7. runs' = runs
    BY <1>13 DEF WriteResult
  <2> QED  BY <2>3, <2>4, <2>5, <2>6, <2>7 DEF Serving
<1>14. ASSUME NEW s \in Sessions, CommandFails(s) PROVE CommandsInv'
  BY <1>14 DEF CommandFails, GiveUp, Finish, rowVars, Waiting, Serving, Idle, CommandRequest
<1>15. CASE UNCHANGED commandVars
  BY <1>15 DEF commandVars, Waiting, Serving
<1> QED
  BY <1>1, <1>2, <1>3, <1>4, <1>5, <1>6, <1>7, <1>8, <1>9, <1>10, <1>11, <1>12, <1>13, <1>14, <1>15
     DEF CommandsNext

\* Rows, sockets and wakes keep their types, for any number of requests at once
\* (kiosks/commands.py).
THEOREM CommandsKeepTypes == CommandsSpec => []CommandsTypeOK
<1>1. CommandsInv => CommandsTypeOK  BY DEF CommandsInv
<1> QED  BY <1>1, CommandsStart, CommandsStep, PTL DEF CommandsSpec

\* No command is handed to a machine twice, however many of its requests claim together
\* and whatever is reported meanwhile (commands.claim_commands).
THEOREM CommandsRunOnce == CommandsSpec => []RunOnce
<1>1. CommandsInv => RunOnce  BY DEF CommandsInv, CommandsTypeOK, RunOnce
<1> QED  BY <1>1, CommandsStart, CommandsStep, PTL DEF CommandsSpec

\* Served one after the other, a press finds nothing waiting and a result its command open.
CommandsApart ==
    /\ OneOfAKindWaits
    /\ \A s \in Sessions :
          /\ Serving(s, "ask") => InTheWay(session[s].kind) = {}
          /\ Serving(s, "report") => session[s].command \in OpenCommands

\* What a step does to the rows that are there: none is opened again, none grows younger.
RowsGoOn ==
    /\ DOMAIN commands \subseteq DOMAIN commands'
    /\ \A i \in DOMAIN commands :
          /\ commands'[i].kind = commands[i].kind
          /\ commands[i].late => commands'[i].late
          /\ i \in Waiting' => i \in Waiting
          /\ i \in OpenCommands' => i \in OpenCommands

LEMMA CommandsSettle ==
  ASSUME CommandsApart, RowsGoOn, DOMAIN commands' = DOMAIN commands,
         \A s \in Sessions :
            /\ Serving(s, "ask")' =>
                  \/ Serving(s, "ask") /\ session'[s] = session[s]
                  \/ InTheWay(session'[s].kind) = {}
            /\ Serving(s, "report")' => session'[s].command \in OpenCommands'
  PROVE  CommandsApart'
<1>1. OneOfAKindWaits'
  <2>1. OpenCommands' \subseteq OpenCommands /\ OpenCommands \subseteq DOMAIN commands
    BY DEF RowsGoOn, OpenCommands
  <2> QED  BY <2>1 DEF CommandsApart, OneOfAKindWaits, RowsGoOn
<1>2. \A s \in Sessions : Serving(s, "ask")' => InTheWay(session'[s].kind) = {}
  BY DEF CommandsApart, Serving
<1>3. \A s \in Sessions : Serving(s, "ask")' => InTheWay(session[s].kind)' = {}
  BY <1>2 DEF InTheWay, RowsGoOn, OpenCommands
<1> QED  BY <1>1, <1>3 DEF CommandsApart

LEMMA RowsStay ==
  commands' = commands =>
      /\ RowsGoOn /\ DOMAIN commands' = DOMAIN commands
      /\ OpenCommands' = OpenCommands /\ Waiting' = Waiting
BY DEF RowsGoOn, Waiting, OpenCommands

LEMMA CommandsUncrossed ==
  ASSUME part = "commands", ~Crosses, NEW s \in Sessions, NEW r \in Sessions, s # r
  PROVE  /\ Serving(s, "ask") /\ Serving(r, "ask") => session[s].kind # session[r].kind
         /\ Serving(s, "report") => ~Serving(r, "report")
<1>1. \A q \in Sessions : Serving(q, "ask") \/ Serving(q, "report") => q \in Busy
  BY DEF Busy, Serving, Idle
<1>2. s \in Busy /\ r \in Busy => About(s) \cap About(r) = {}
  BY DEF Crosses
<1>3. \A q \in Sessions : /\ Serving(q, "ask") => About(q) = {session[q].kind}
                          /\ Serving(q, "report") => About(q) = {"results"}
  BY DEF About, Serving
<1>4. Serving(s, "ask") /\ Serving(r, "ask") => session[s].kind # session[r].kind
  BY <1>1, <1>2, <1>3
<1>5. Serving(s, "report") => ~Serving(r, "report")
  BY <1>1, <1>2, <1>3
<1> QED  BY <1>4, <1>5

\* Somebody who presses, claims, reports or gives up, and the machine itself.
LEMMA CommandsQuiet ==
  ASSUME CommandsApart, commands' = commands,
         \A s \in Sessions :
            \/ session'[s] = session[s] \/ session'[s].on \notin {"ask", "report"}
            \/ session'[s].on = "ask" /\ InTheWay(session'[s].kind) = {}
            \/ session'[s].on = "report" /\ session'[s].command \in OpenCommands
  PROVE  CommandsApart'
<1>1. RowsGoOn /\ DOMAIN commands' = DOMAIN commands /\ OpenCommands' = OpenCommands
  BY RowsStay
<1>2. \A s \in Sessions :
         /\ Serving(s, "ask")' =>
               \/ Serving(s, "ask") /\ session'[s] = session[s]
               \/ InTheWay(session'[s].kind) = {}
         /\ Serving(s, "report")' => session'[s].command \in OpenCommands
  BY DEF CommandsApart, Serving
<1> QED  BY <1>1, <1>2, CommandsSettle

LEMMA CommandsStayApart ==
  ASSUME part = "commands", CommandsInv, CommandsApart, CommandsNext
  PROVE  /\ ~Crosses => CommandsApart'
         /\ \A i \in DOMAIN commands :
               i \notin OpenCommands => commands'[i].state = commands[i].state
<1> DEFINE Goal == /\ ~Crosses => CommandsApart'
                   /\ \A i \in DOMAIN commands :
                         i \notin OpenCommands => commands'[i].state = commands[i].state
<1>0. /\ session \in [Sessions -> CommandRequest] /\ commands \in Seq(Command)
      /\ DOMAIN commands = 1..Len(commands) /\ Len(commands) \in Nat
      /\ \A i \in DOMAIN commands : commands[i] \in Command
  <2>1. session \in [Sessions -> CommandRequest] /\ commands \in Seq(Command)
    BY DEF CommandsInv, CommandsTypeOK
  <2> QED  BY <2>1
<1>1. CASE Connect \/ Subscribe \/ Disconnect \/ FindNothing \/ Enrolment
  BY <1>1, CommandsQuiet DEF Connect, Subscribe, Disconnect, FindNothing, Enrolment, rowVars
<1>2. ASSUME NEW i \in DOMAIN commands, Lapse(i) PROVE Goal
  <2>1. commands' = [commands EXCEPT ![i].late = TRUE] /\ session' = session
    BY <1>2 DEF Lapse
  <2>2. /\ DOMAIN commands' = DOMAIN commands
        /\ \A j \in DOMAIN commands : /\ commands'[j].kind = commands[j].kind
                                      /\ commands'[j].state = commands[j].state
                                      /\ commands[j].late => commands'[j].late
    <3>1. DOMAIN commands' = DOMAIN commands
      BY <1>0, <2>1
    <3>2. \A j \in DOMAIN commands : commands'[j] =
             IF j = i THEN [commands[j] EXCEPT !.late = TRUE] ELSE commands[j]
      BY <1>0, <2>1
    <3> QED  BY <1>0, <3>1, <3>2 DEF Command
  <2>3. RowsGoOn /\ OpenCommands' = OpenCommands
    BY <2>2 DEF RowsGoOn, Waiting, OpenCommands
  <2>4. CommandsApart'
    BY <2>1, <2>2, <2>3, CommandsSettle DEF CommandsApart, Serving
  <2> QED  BY <2>2, <2>4
<1>3. ASSUME NEW s \in Sessions, NEW kind \in CommandKinds, RequestCommand(s, kind) PROVE Goal
  <2>1. /\ InTheWay(kind) = {} /\ session' = [session EXCEPT ![s] = [on |-> "ask", kind |-> kind]]
        /\ commands' = commands
    BY <1>3 DEF RequestCommand, Start, rowVars
  <2>2. session'[s].on = "ask" /\ session'[s].kind = kind
        /\ \A r \in Sessions \ {s} : session'[r] = session[r]
    BY <1>0, <2>1
  <2>3. CommandsApart'
    BY <2>1, <2>2, CommandsQuiet
  <2> QED  BY <2>1, <2>3
<1>4. ASSUME NEW s \in Sessions, CommitCommand(s) PROVE Goal
  <2> DEFINE n == Len(commands) + 1
             kind == session[s].kind
  <2>1. /\ kind \in CommandKinds /\ Serving(s, "ask") /\ n \in Nat
        /\ commands' = Append(commands, [kind |-> kind, late |-> FALSE, state |-> "queued"])
        /\ session' = [session EXCEPT ![s] = [on |-> "wake"]]
    BY <1>0, <1>4 DEF CommitCommand, Serving, CommandRequest, Idle
  <2>2. /\ DOMAIN commands' = DOMAIN commands \cup {n} /\ n \notin DOMAIN commands
        /\ commands'[n].kind = kind /\ commands'[n].state = "queued"
        /\ \A i \in DOMAIN commands : commands'[i] = commands[i]
    <3>1. [kind |-> kind, late |-> FALSE, state |-> "queued"] \in Command
      BY <2>1 DEF Command
    <3>2. /\ DOMAIN commands' = 1..n
          /\ commands'[n] = [kind |-> kind, late |-> FALSE, state |-> "queued"]
          /\ \A i \in DOMAIN commands : commands'[i] = commands[i]
      BY <1>0, <2>1, <3>1
    <3>3. 1..n = DOMAIN commands \cup {n} /\ n \notin DOMAIN commands
      BY <1>0
    <3> QED  BY <3>2, <3>3
  <2> HIDE DEF n, kind
  <2>3. OpenCommands' = OpenCommands \cup {n}
    BY <2>2 DEF OpenCommands
  <2>4. InTheWay(kind) = {}
    BY <2>1 DEF CommandsApart, kind
  <2>5. OneOfAKindWaits'
    <3>1. \A i \in OpenCommands : commands[i].kind = kind => commands[i].late
      BY <2>4 DEF InTheWay
    <3>2. OpenCommands \subseteq DOMAIN commands
      BY DEF OpenCommands
    <3>3. \A i, j \in OpenCommands :
              commands[i].kind = commands[j].kind /\ ~commands[i].late /\ ~commands[j].late => i = j
      BY DEF CommandsApart, OneOfAKindWaits
    <3> QED  BY <2>2, <2>3, <3>1, <3>2, <3>3 DEF OneOfAKindWaits
  <2>6. \A r \in Sessions : Serving(r, "ask")' \/ Serving(r, "report")' =>
            r # s /\ session'[r] = session[r] /\ (Serving(r, "ask")' <=> Serving(r, "ask"))
                  /\ (Serving(r, "report")' <=> Serving(r, "report"))
    BY <1>0, <2>1 DEF Serving
  <2>7. ASSUME ~Crosses
        PROVE  \A r \in Sessions : Serving(r, "ask")' => InTheWay(session[r].kind)' = {}
    <3>1. TAKE r \in Sessions
    <3>2. HAVE Serving(r, "ask")'
    <3>3. /\ session'[r] = session[r] /\ session[r].kind # kind
          /\ InTheWay(session[r].kind) = {}
      BY <2>1, <2>6, <2>7, <3>2, CommandsUncrossed DEF CommandsApart, kind
    <3>4. OpenCommands \subseteq DOMAIN commands
      BY DEF OpenCommands
    <3> QED  BY <2>2, <2>3, <3>3, <3>4 DEF InTheWay
  <2>8. \A r \in Sessions : Serving(r, "report")' => session'[r].command \in OpenCommands'
    BY <2>3, <2>6 DEF CommandsApart
  <2> QED  BY <2>2, <2>5, <2>7, <2>8 DEF CommandsApart
<1>5. ASSUME NEW s \in Sessions, NEW heard \in BOOLEAN, Publish(s, heard) PROVE Goal
  <2>1. \A r \in Sessions : session'[r] = session[r] \/ session'[r].on = "nothing"
    BY <1>0, <1>5 DEF Publish, Finish, Idle
  <2> QED  BY <1>5, <2>1, CommandsQuiet DEF Publish, rowVars
<1>6. ASSUME NEW s \in Sessions, ClaimCommands(s) PROVE Goal
  <2>1. \A r \in Sessions : session'[r] = session[r] \/ session'[r].on = "claim"
    BY <1>0, <1>6 DEF ClaimCommands, Start
  <2> QED  BY <1>6, <2>1, CommandsQuiet DEF ClaimCommands, rowVars
<1>7. ASSUME NEW s \in Sessions, NEW arrives \in BOOLEAN, CommitClaim(s, arrives) PROVE Goal
  <2>1. session[s].rows \subseteq Waiting
    BY <1>7 DEF CommandsInv, CommitClaim
  <2>2. /\ DOMAIN commands' = DOMAIN commands
        /\ \A i \in DOMAIN commands :
              /\ i \notin session[s].rows => commands'[i] = commands[i]
              /\ i \in session[s].rows => commands'[i].state \in {"sent", "expired"}
              /\ commands'[i].kind = commands[i].kind /\ commands'[i].late = commands[i].late
    <3>1. commands' = [i \in DOMAIN commands |->
                          IF i \notin session[s].rows THEN commands[i]
                          ELSE [commands[i] EXCEPT !.state =
                                   IF i \in session[s].fresh THEN "sent" ELSE "expired"]]
      BY <1>7 DEF CommitClaim
    <3> QED  BY <1>0, <3>1 DEF Command
  <2>3. /\ RowsGoOn
        /\ \A i \in DOMAIN commands : i \notin Waiting => commands'[i] = commands[i]
    BY <2>1, <2>2 DEF RowsGoOn, Waiting, OpenCommands
  <2>4. \A r \in Sessions : session'[r] = session[r] \/ session'[r].on = "nothing"
    BY <1>0, <1>7 DEF CommitClaim, Finish, Idle
  <2>5. \A r \in Sessions : Serving(r, "report")' =>
            session'[r] = session[r] /\ session[r].command \in OpenCommands \ Waiting
    BY <2>4 DEF CommandsInv, CommandsApart, Serving
  <2>6. \A i \in OpenCommands \ Waiting : i \in OpenCommands'
    BY <2>2, <2>3 DEF OpenCommands
  <2>7. CommandsApart'
    <3>1. \A r \in Sessions : Serving(r, "ask")' => Serving(r, "ask") /\ session'[r] = session[r]
      BY <2>4 DEF Serving
    <3> QED  BY <2>2, <2>3, <2>5, <2>6, <3>1, CommandsSettle
  <2>8. \A i \in DOMAIN commands : i \notin OpenCommands => i \notin Waiting
    BY DEF OpenCommands, Waiting
  <2> QED  BY <2>3, <2>7, <2>8
<1>8. ASSUME NEW s \in Sessions, NEW i \in DOMAIN commands, NEW result \in {"succeeded", "failed"},
             ReportCommand(s, i, result)
      PROVE  Goal
  <2>1. /\ i \in OpenCommands /\ commands' = commands
        /\ session' = [session EXCEPT ![s] = [on |-> "report", command |-> i, result |-> result]]
    BY <1>8 DEF ReportCommand, Start, rowVars
  <2>2. session'[s].on = "report" /\ session'[s].command = i
        /\ \A r \in Sessions \ {s} : session'[r] = session[r]
    BY <1>0, <2>1
  <2>3. CommandsApart'
    BY <2>1, <2>2, CommandsQuiet
  <2> QED  BY <2>1, <2>3
<1>9. ASSUME NEW s \in Sessions, WriteResult(s) PROVE Goal
  <2> DEFINE i == session[s].command
  <2>1. /\ Serving(s, "report") /\ i \in OpenCommands /\ i \in DOMAIN commands
        /\ session[s].result \in {"succeeded", "failed"}
        /\ commands' = [commands EXCEPT ![i].state = session[s].result]
        /\ session' = [session EXCEPT ![s] = Idle]
    BY <1>0, <1>9 DEF WriteResult, Finish, Serving, CommandRequest, Idle, CommandsApart, OpenCommands
  <2>2. /\ DOMAIN commands' = DOMAIN commands
        /\ commands'[i].state \in {"succeeded", "failed"}
        /\ \A j \in DOMAIN commands : /\ j # i => commands'[j] = commands[j]
                                      /\ commands'[j].kind = commands[j].kind
                                      /\ commands'[j].late = commands[j].late
    <3>1. DOMAIN commands' = DOMAIN commands
      BY <1>0, <2>1
    <3>2. \A j \in DOMAIN commands : commands'[j] =
             IF j = i THEN [commands[j] EXCEPT !.state = session[s].result] ELSE commands[j]
      BY <1>0, <2>1
    <3> HIDE DEF i
    <3> QED  BY <1>0, <2>1, <3>1, <3>2 DEF Command
  <2> HIDE DEF i
  <2>3. RowsGoOn
    BY <2>2 DEF RowsGoOn, Waiting, OpenCommands
  <2>4. \A r \in Sessions : (r # s => session'[r] = session[r]) /\ (r = s => session'[r].on = "nothing")
    BY <1>0, <2>1 DEF Idle
  <2>5. ASSUME ~Crosses
        PROVE  \A r \in Sessions :
                  /\ ~Serving(r, "report")'
                  /\ Serving(r, "ask")' => Serving(r, "ask") /\ session'[r] = session[r]
    BY <2>1, <2>4, <2>5, CommandsUncrossed DEF Serving
  <2>6. ASSUME ~Crosses PROVE CommandsApart'
    BY <2>2, <2>3, <2>5, <2>6, CommandsSettle
  <2> QED  BY <2>1, <2>2, <2>6
<1>10. ASSUME NEW s \in Sessions, CommandFails(s) PROVE Goal
  <2>1. \A r \in Sessions : session'[r] = session[r] \/ session'[r].on = "nothing"
    BY <1>0, <1>10 DEF CommandFails, GiveUp, Finish, Idle
  <2> QED  BY <1>10, <2>1, CommandsQuiet DEF CommandFails, rowVars
<1> QED
  BY <1>1, <1>2, <1>3, <1>4, <1>5, <1>6, <1>7, <1>8, <1>9, <1>10 DEF CommandsNext

\* What is queued and claimed by nobody never becomes more without a wake.
LEMMA NobodyFallsAsleep ==
  ASSUME CommandsInv, NobodySleepsOnWork, CommandsNext
  PROVE  NobodySleepsOnWork'
<1> DEFINE Claimed(r) == IF Serving(r, "claim") THEN session[r].rows ELSE {}
           Left == Waiting \ Locked
           Woken == \E r \in Sessions : Serving(r, "wake")
<1>0. /\ session \in [Sessions -> CommandRequest] /\ commands \in Seq(Command)
      /\ DOMAIN commands = 1..Len(commands) /\ Len(commands) \in Nat
      /\ \A i \in DOMAIN commands : commands[i] \in Command
  <2>1. session \in [Sessions -> CommandRequest] /\ commands \in Seq(Command)
    BY DEF CommandsInv, CommandsTypeOK
  <2> QED  BY <2>1
<1>1. /\ Left = {i \in Waiting : \A r \in Sessions : i \notin Claimed(r)}
      /\ Left' = {i \in Waiting' : \A r \in Sessions : i \notin Claimed(r)'}
  BY DEF Locked
<1>2. ASSUME Left' \subseteq Left, woken => woken' \/ missed', missed => missed',
             \A r \in Sessions : Serving(r, "wake") => Serving(r, "wake")'
      PROVE  NobodySleepsOnWork'
  BY <1>2 DEF NobodySleepsOnWork
<1>3. CASE Connect \/ Subscribe \/ Disconnect \/ FindNothing \/ Enrolment
  <2>1. commands' = commands /\ session' = session
    BY <1>3 DEF Connect, Subscribe, Disconnect, FindNothing, Enrolment, rowVars
  <2>2. Left' = Left /\ \A r \in Sessions : Serving(r, "wake") => Serving(r, "wake")'
    BY <2>1 DEF Waiting, Locked, Serving
  <2>3. \/ (woken => woken' \/ missed') /\ (missed => missed')
        \/ Left' = {}
    BY <1>3, <2>2 DEF Connect, Subscribe, Disconnect, FindNothing, Enrolment, wakeVars
  <2> QED  BY <1>2, <2>2, <2>3 DEF NobodySleepsOnWork
<1>4. ASSUME NEW i \in DOMAIN commands, Lapse(i) PROVE NobodySleepsOnWork'
  <2>1. /\ commands' = [commands EXCEPT ![i].late = TRUE] /\ session' = session
        /\ woken' = woken /\ missed' = missed
    BY <1>4 DEF Lapse, wakeVars
  <2>2. \A j \in DOMAIN commands : commands'[j] =
             IF j = i THEN [commands[j] EXCEPT !.late = TRUE] ELSE commands[j]
    BY <1>0, <2>1
  <2>3. Waiting' = Waiting
    BY <1>0, <2>1, <2>2 DEF Waiting, Command
  <2> QED  BY <1>1, <1>2, <2>1, <2>3 DEF Serving
<1>5. ASSUME NEW s \in Sessions, NEW kind \in CommandKinds, RequestCommand(s, kind)
      PROVE  NobodySleepsOnWork'
  <2>1. /\ session[s].on = "nothing" /\ session' = [session EXCEPT ![s] = [on |-> "ask", kind |-> kind]]
        /\ commands' = commands /\ woken' = woken /\ missed' = missed
    BY <1>5 DEF RequestCommand, Start, Idle, rowVars, wakeVars
  <2>2. \A r \in Sessions : /\ Serving(r, "wake")' <=> Serving(r, "wake")
                            /\ Claimed(r)' = Claimed(r)
    BY <1>0, <2>1 DEF Serving
  <2> QED  BY <1>1, <1>2, <2>1, <2>2, RowsStay
<1>6. ASSUME NEW s \in Sessions, CommitCommand(s) PROVE NobodySleepsOnWork'
  <2>1. Serving(s, "wake")'
    BY <1>0, <1>6 DEF CommitCommand, Serving
  <2> QED  BY <2>1 DEF NobodySleepsOnWork
<1>7. ASSUME NEW s \in Sessions, NEW heard \in BOOLEAN, Publish(s, heard) PROVE NobodySleepsOnWork'
  BY <1>7 DEF Publish, NobodySleepsOnWork
<1>8. ASSUME NEW s \in Sessions, ClaimCommands(s) PROVE NobodySleepsOnWork'
  <2>1. commands' = commands /\ Serving(s, "claim")' /\ session'[s].rows = Waiting \ Locked
        /\ session[s].on = "nothing" /\ \A r \in Sessions \ {s} : session'[r] = session[r]
    BY <1>0, <1>8 DEF ClaimCommands, Start, Idle, rowVars, Serving
  <2>2. /\ Claimed(s)' = Waiting \ Locked
        /\ \A r \in Sessions : Claimed(r) \subseteq Claimed(r)'
    BY <2>1 DEF Serving
  <2>3. Left' = {}
    BY <1>1, <2>1, <2>2, RowsStay
  <2> QED  BY <2>3 DEF NobodySleepsOnWork
<1>9. ASSUME NEW s \in Sessions, NEW arrives \in BOOLEAN, CommitClaim(s, arrives)
      PROVE  NobodySleepsOnWork'
  <2>1. /\ Serving(s, "claim") /\ session' = [session EXCEPT ![s] = Idle]
        /\ woken' = woken /\ missed' = missed
        /\ commands' = [i \in DOMAIN commands |->
                          IF i \notin session[s].rows THEN commands[i]
                          ELSE [commands[i] EXCEPT !.state =
                                   IF i \in session[s].fresh THEN "sent" ELSE "expired"]]
    BY <1>9 DEF CommitClaim, Finish, wakeVars
  <2>2. \A i \in DOMAIN commands : i \in session[s].rows => commands'[i].state # "queued"
    BY <1>0, <2>1 DEF Command
  <2>3. \A i \in Waiting' : i \in Waiting /\ i \notin session[s].rows
    BY <2>1, <2>2 DEF Waiting
  <2>4. \A r \in Sessions : /\ Serving(r, "wake") => Serving(r, "wake")'
                            /\ r # s => Claimed(r)' = Claimed(r)
    BY <1>0, <2>1 DEF Serving, Idle
  <2>5. Claimed(s) = session[s].rows
    BY <2>1
  <2>6. Left' \subseteq Left
    BY <1>1, <2>3, <2>4, <2>5
  <2> QED  BY <1>2, <2>1, <2>4, <2>6
<1>10. ASSUME NEW s \in Sessions, NEW i \in DOMAIN commands, NEW result \in {"succeeded", "failed"},
              ReportCommand(s, i, result)
       PROVE  NobodySleepsOnWork'
  <2>1. /\ session[s].on = "nothing"
        /\ session' = [session EXCEPT ![s] = [on |-> "report", command |-> i, result |-> result]]
        /\ commands' = commands /\ woken' = woken /\ missed' = missed
    BY <1>10 DEF ReportCommand, Start, Idle, rowVars, wakeVars
  <2>2. \A r \in Sessions : /\ Serving(r, "wake")' <=> Serving(r, "wake")
                            /\ Claimed(r)' = Claimed(r)
    BY <1>0, <2>1 DEF Serving
  <2> QED  BY <1>1, <1>2, <2>1, <2>2, RowsStay
<1>11. ASSUME NEW s \in Sessions, WriteResult(s) PROVE NobodySleepsOnWork'
  <2> DEFINE i == session[s].command
  <2>1. /\ Serving(s, "report") /\ i \in DOMAIN commands
        /\ session[s].result \in {"succeeded", "failed"}
        /\ commands' = [commands EXCEPT ![i].state = session[s].result]
        /\ session' = [session EXCEPT ![s] = Idle] /\ woken' = woken /\ missed' = missed
    BY <1>0, <1>11 DEF WriteResult, Finish, wakeVars, Serving, CommandRequest, Idle, CommandsInv
  <2> HIDE DEF i
  <2>2. \A j \in DOMAIN commands : commands'[j] =
             IF j = i THEN [commands[j] EXCEPT !.state = session[s].result] ELSE commands[j]
    BY <1>0, <2>1
  <2>3. Waiting' \subseteq Waiting
    <3>1. commands'[i].state # "queued" /\ DOMAIN commands' = DOMAIN commands
      BY <1>0, <2>1, <2>2 DEF Command
    <3> QED  BY <2>2, <3>1 DEF Waiting
  <2>4. \A r \in Sessions : /\ Serving(r, "wake") => Serving(r, "wake")'
                            /\ Claimed(r)' = Claimed(r)
    BY <1>0, <2>1 DEF Serving, Idle
  <2>5. Left' \subseteq Left
    BY <1>1, <2>3, <2>4
  <2> QED  BY <1>2, <2>1, <2>4, <2>5
<1>12. ASSUME NEW s \in Sessions, CommandFails(s) PROVE NobodySleepsOnWork'
  <2>1. /\ session' = [session EXCEPT ![s] = Idle] /\ commands' = commands /\ woken' = woken
        /\ missed' = (missed \/ session[s].on \in {"claim", "wake"})
    BY <1>12 DEF CommandFails, GiveUp, Finish, rowVars
  <2>2. CASE session[s].on \in {"claim", "wake"}
    BY <2>1, <2>2 DEF NobodySleepsOnWork
  <2>3. CASE session[s].on \notin {"claim", "wake"}
    <3>1. \A r \in Sessions : /\ Serving(r, "wake") => Serving(r, "wake")'
                              /\ Claimed(r)' = Claimed(r)
      BY <1>0, <2>1, <2>3 DEF Serving, Idle
    <3> QED  BY <1>1, <1>2, <2>1, <3>1, RowsStay
  <2> QED  BY <2>2, <2>3
<1> QED
  BY <1>3, <1>4, <1>5, <1>6, <1>7, <1>8, <1>9, <1>10, <1>11, <1>12 DEF CommandsNext

-----------------------------------------------------------------------------
(* Alerts.                                                                 *)

Key == Shops \cup {Mail}

AlertRequest ==
    {Idle} \cup [on : {"sweep", "work"}, todo : SUBSET Key, at : Key \cup {None}, new : SUBSET Key,
                closed : SUBSET Key, work : SUBSET Works, asked : SUBSET Works]

\* What a transaction inserted is open nowhere else and not to be looked at again; a
\* shop's was told at least once.
AlertsInv ==
    /\ AlertsTypeOK
    /\ session \in [Sessions -> AlertRequest]
    /\ \A s \in Sessions : Open(s) =>
          /\ session[s].new \cap session[s].todo = {} /\ session[s].new \cap open = {}
          /\ session[s].at # None => session[s].at \in session[s].todo
          /\ session[s].work \subseteq session[s].asked
          /\ \A k \in Shops : k \in session[s].new => told[k] >= 1
          /\ \A r \in Sessions : r # s /\ Open(r) => session[s].new \cap session[r].new = {}
    /\ \A k \in Shops \ undone :
          told[k] = IF \E s \in Sessions : Open(s) /\ k \in session[s].new THEN 1 ELSE 0

LEMMA AlertsStart == AlertsInit => AlertsInv
<1> SUFFICES ASSUME AlertsInit PROVE AlertsInv
  OBVIOUS
<1>1. session \in [Sessions -> AlertRequest] /\ \A s \in Sessions : ~Open(s)
  BY DEF AlertsInit, NobodyServed, AlertRequest, Idle, Open
<1>2. AlertsTypeOK /\ \A k \in Shops : told[k] = 0
  BY DEF AlertsInit, AlertsTypeOK, MaxUnaccounted
<1> QED  BY <1>1, <1>2 DEF AlertsInv

\* A transaction looks at one key after another, and commits nothing yet.
LEMMA TransactionGoesOn ==
  ASSUME AlertsInv, NEW s \in Sessions, NEW q \in AlertRequest, session' = [session EXCEPT ![s] = q],
         Open(s), q.on \in {"sweep", "work"}, q.new = session[s].new,
         q.todo \cap q.new = {}, q.at # None => q.at \in q.todo, q.work = session[s].work,
         q.asked = session[s].asked, UNCHANGED <<open, shopVars, told, undone, answered, kept>>
  PROVE  AlertsInv'
<1> USE DEF AlertsInv
<1>1. session' \in [Sessions -> AlertRequest] /\ session'[s] = q /\ \A r \in Sessions \ {s} : session'[r] = session[r]
  OBVIOUS
<1>2. \A r \in Sessions : (Open(r)' <=> Open(r)) /\ session'[r].new = session[r].new
  BY <1>1 DEF Open
<1>3. AlertsTypeOK'
  BY DEF AlertsTypeOK, shopVars
<1>4. \A k \in Shops \ undone :
          told[k] = IF \E r \in Sessions : Open(r)' /\ k \in session'[r].new THEN 1 ELSE 0
  BY <1>2
<1>5. \A r \in Sessions : Open(r)' =>
          /\ session'[r].new \cap session'[r].todo = {}
          /\ session'[r].at # None => session'[r].at \in session'[r].todo
          /\ session'[r].work \subseteq session'[r].asked
  BY <1>1, <1>2
<1>6. \A r \in Sessions : Open(r)' =>
          /\ session'[r].new \cap open = {}
          /\ \A k \in Shops : k \in session'[r].new => told[k] >= 1
          /\ \A t \in Sessions : t # r /\ Open(t)' => session'[r].new \cap session'[t].new = {}
  BY <1>2
<1> QED  BY <1>1, <1>3, <1>4, <1>5, <1>6

LEMMA AlertsStep == AlertsInv /\ [AlertsNext]_alertVars => AlertsInv'
<1> SUFFICES ASSUME AlertsInv, [AlertsNext]_alertVars PROVE AlertsInv'
  OBVIOUS
<1> USE AlertsAssumption DEF AlertsInv
<1>1. ASSUME NEW k \in Shops, ShopTurns(k) \/ ShopMoves(k) PROVE AlertsInv'
  BY <1>1 DEF ShopTurns, ShopMoves, AlertsTypeOK, Open
<1>2. ASSUME NEW k \in Key, Resolve(k) PROVE AlertsInv'
  BY <1>2 DEF Resolve, shopVars, AlertsTypeOK, Open
<1>3. ASSUME NEW s \in Sessions, StartSweep(s) \/ \E w \in Works : StartRequest(s, w) PROVE AlertsInv'
  <2>1. PICK q \in AlertRequest : /\ session' = [session EXCEPT ![s] = q] /\ q.on \in {"sweep", "work"}
                                 /\ q.new = {} /\ q.at = None /\ q.work = q.asked
    <3>1. CASE StartSweep(s)
      <4> DEFINE q == Transaction("sweep", selling, {})
      <4>1. q \in AlertRequest /\ q.on \in {"sweep", "work"} /\ q.new = {} /\ q.at = None /\ q.work = q.asked
        BY DEF Transaction, AlertRequest, AlertsTypeOK, Key
      <4> QED  BY <4>1, <3>1 DEF StartSweep, Start
    <3>2. ASSUME NEW w \in Works, StartRequest(s, w)
          PROVE \E q \in AlertRequest : /\ session' = [session EXCEPT ![s] = q] /\ q.on \in {"sweep", "work"}
                                        /\ q.new = {} /\ q.at = None /\ q.work = q.asked
      <4> DEFINE q == Transaction("work", {Mail}, {w})
      <4>1. q \in AlertRequest /\ q.on \in {"sweep", "work"} /\ q.new = {} /\ q.at = None /\ q.work = q.asked
        BY DEF Transaction, AlertRequest, Key
      <4> QED  BY <4>1, <3>2 DEF StartRequest, Start
    <3> QED  BY <3>1, <3>2, <1>3
  <2>2. ~Open(s) /\ UNCHANGED <<open, shopVars, told, undone, answered, kept>>
    <3>1. session[s] = Idle /\ UNCHANGED <<open, shopVars, told, undone, answered, kept>>
      BY <1>3 DEF StartSweep, StartRequest, Start
    <3> QED  BY <3>1 DEF Open, Idle
  <2>3. session'[s] = q /\ \A r \in Sessions \ {s} : session'[r] = session[r] /\ (Open(r)' <=> Open(r))
    BY <2>1 DEF Open
  <2>4. session' \in [Sessions -> AlertRequest] /\ AlertsTypeOK'
    BY <2>1, <2>2 DEF AlertsTypeOK, shopVars
  <2>5. \A k \in Shops \ undone :
          told[k] = IF \E r \in Sessions : Open(r)' /\ k \in session'[r].new THEN 1 ELSE 0
    BY <2>1, <2>2, <2>3
  <2> QED  BY <2>1, <2>2, <2>3, <2>4, <2>5
<1>4. ASSUME NEW s \in Sessions, NEW k \in Key, StandDown(s, k) \/ Bump(s, k) \/ FindNone(s, k)
      PROVE AlertsInv'
  <2>1. session[s] \in [on : {"sweep", "work"}, todo : SUBSET Key, at : Key \cup {None}, new : SUBSET Key,
                         closed : SUBSET Key, work : SUBSET Works, asked : SUBSET Works]
        /\ Open(s) /\ k \in session[s].todo /\ session[s].at = None
    BY <1>4 DEF StandDown, Bump, FindNone, Looks, Open, AlertRequest, Idle
  <2> DEFINE down == [session[s] EXCEPT !.todo = @ \ {k}, !.closed = @ \cup ({k} \cap open)]
             bump == [session[s] EXCEPT !.todo = @ \ {k}]
             none == [session[s] EXCEPT !.at = k]
  <2>2. PICK q \in {down, bump, none} : session' = [session EXCEPT ![s] = q]
    BY <1>4 DEF StandDown, Bump, FindNone, Set
  <2>3. q \in AlertRequest /\ q.on \in {"sweep", "work"} /\ q.new = session[s].new
        /\ q.todo \cap q.new = {} /\ (q.at # None => q.at \in q.todo)
        /\ q.work = session[s].work /\ q.asked = session[s].asked
    <3>0. session[s].new \cap session[s].todo = {}
      BY <2>1
    <3>1. CASE q = down
      <4>1. down \in [on : {"sweep", "work"}, todo : SUBSET Key, at : Key \cup {None}, new : SUBSET Key,
                      closed : SUBSET Key, work : SUBSET Works, asked : SUBSET Works]
        BY <2>1
      <4>2. /\ down.todo = session[s].todo \ {k} /\ down.new = session[s].new /\ down.at = None
            /\ down.work = session[s].work /\ down.asked = session[s].asked
        BY <2>1
      <4> HIDE DEF down
      <4> QED  BY <3>0, <3>1, <4>1, <4>2 DEF AlertRequest
    <3>2. CASE q = bump
      BY <2>1, <3>0, <3>2 DEF AlertRequest
    <3>3. CASE q = none
      BY <2>1, <3>0, <3>3 DEF AlertRequest
    <3> QED  BY <2>2, <3>1, <3>2, <3>3
  <2>5. UNCHANGED <<open, shopVars, told, undone, answered, kept>>
    BY <1>4 DEF StandDown, Bump, FindNone
  <2> HIDE DEF down, bump, none
  <2> QED  BY <2>1, <2>2, <2>3, <2>5, TransactionGoesOn
<1>5. ASSUME NEW s \in Sessions, NEW mailFails \in BOOLEAN, Insert(s, mailFails) PROVE AlertsInv'
  <2> DEFINE k == session[s].at
             q == [session[s] EXCEPT !.at = None, !.new = @ \cup {k},
                      !.todo = (@ \ {k}) \cup IF mailFails THEN {Mail} ELSE {}]
  <2>1. /\ session[s] \in [on : {"sweep", "work"}, todo : SUBSET Key, at : Key \cup {None}, new : SUBSET Key,
                            closed : SUBSET Key, work : SUBSET Works, asked : SUBSET Works]
        /\ Open(s) /\ k \in session[s].todo /\ k \in Key /\ k \notin session[s].new /\ k \notin open
        /\ \A r \in Sessions \ {s} : Open(r) => k \notin session[r].new
    BY <1>5 DEF Insert, Open, InsertedBy, AlertRequest, Idle
  <2>2. session' = [session EXCEPT ![s] = q] /\ told' = Told(k) /\ UNCHANGED <<open, shopVars, undone, answered, kept>>
    BY <1>5 DEF Insert, Set
  <2>3. /\ q \in AlertRequest /\ q.on \in {"sweep", "work"} /\ q.new = session[s].new \cup {k}
        /\ q.at = None /\ q.work = session[s].work /\ q.asked = session[s].asked
    BY <2>1 DEF AlertRequest, Key
  <2>4. q.todo \cap q.new = {}
    BY <1>5, <2>1 DEF Insert
  <2>5. told' \in [Shops -> 0..MaxUnaccounted]
        /\ \A j \in Shops : /\ j # k => told'[j] = told[j]
                            /\ j = k => told'[j] >= 1 /\ (told[j] = 0 => told'[j] = 1)
    BY <2>2 DEF Told, AlertsTypeOK, MaxUnaccounted
  <2> HIDE DEF q, k
  <2>6. session' \in [Sessions -> AlertRequest] /\ session'[s] = q /\ Open(s)'
        /\ \A r \in Sessions \ {s} : session'[r] = session[r] /\ (Open(r)' <=> Open(r))
    BY <2>2, <2>3 DEF Open
  <2>7. AlertsTypeOK'
    BY <2>2, <2>5 DEF AlertsTypeOK, shopVars
  <2>8. \A j \in Shops \ undone :
          told'[j] = IF \E r \in Sessions : Open(r)' /\ j \in session'[r].new THEN 1 ELSE 0
    <3> SUFFICES ASSUME NEW j \in Shops \ undone
                 PROVE told'[j] = IF \E r \in Sessions : Open(r)' /\ j \in session'[r].new THEN 1 ELSE 0
      OBVIOUS
    <3>1. CASE j = k
      <4>1. told[j] = 0
        BY <2>1, <3>1
      <4> QED  BY <4>1, <2>3, <2>5, <2>6, <3>1
    <3>2. CASE j # k
      <4>1. \A r \in Sessions : Open(r)' /\ j \in session'[r].new <=> Open(r) /\ j \in session[r].new
        BY <2>1, <2>3, <2>6, <3>2
      <4> QED  BY <4>1, <2>5, <3>2
    <3> QED  BY <3>1, <3>2
  <2>9. \A r \in Sessions : Open(r)' =>
          /\ session'[r].new \cap session'[r].todo = {} /\ session'[r].new \cap open = {}
          /\ session'[r].at # None => session'[r].at \in session'[r].todo
          /\ session'[r].work \subseteq session'[r].asked
    BY <2>1, <2>3, <2>4, <2>6
  <2>10. \A r \in Sessions : Open(r)' => \A j \in Shops : j \in session'[r].new => told'[j] >= 1
    BY <2>1, <2>3, <2>5, <2>6
  <2>11. \A r, t \in Sessions : t # r /\ Open(r)' /\ Open(t)' => session'[r].new \cap session'[t].new = {}
    BY <2>1, <2>3, <2>6
  <2> QED  BY <2>2, <2>6, <2>7, <2>8, <2>9, <2>10, <2>11
<1>6. ASSUME NEW s \in Sessions, InsertRefused(s) PROVE AlertsInv'
  <2> DEFINE q == [session[s] EXCEPT !.at = None, !.new = {}, !.closed = {}, !.work = {}]
  <2>1. /\ session[s] \in [on : {"sweep", "work"}, todo : SUBSET Key, at : Key \cup {None}, new : SUBSET Key,
                            closed : SUBSET Key, work : SUBSET Works, asked : SUBSET Works] /\ Open(s)
    BY <1>6 DEF InsertRefused, Open, AlertRequest, Idle
  <2>2. session' = [session EXCEPT ![s] = q] /\ undone' = undone \cup (session[s].new \cap Shops)
        /\ UNCHANGED <<open, shopVars, told, answered, kept>>
    BY <1>6 DEF InsertRefused, Set
  <2>3. q \in AlertRequest /\ q.on \in {"sweep", "work"} /\ q.new = {} /\ q.at = None /\ q.work = {}
    BY <2>1 DEF AlertRequest
  <2> HIDE DEF q
  <2>4. session' \in [Sessions -> AlertRequest] /\ session'[s] = q /\ Open(s)'
        /\ \A r \in Sessions \ {s} : session'[r] = session[r] /\ (Open(r)' <=> Open(r))
    BY <2>2, <2>3 DEF Open
  <2>5. AlertsTypeOK'
    BY <2>2 DEF AlertsTypeOK, shopVars
  <2>6. \A j \in Shops \ undone' :
          told[j] = IF \E r \in Sessions : Open(r)' /\ j \in session'[r].new THEN 1 ELSE 0
    BY <2>2, <2>3, <2>4
  <2> QED  BY <2>2, <2>3, <2>4, <2>5, <2>6
<1>7. ASSUME NEW s \in Sessions, CommitAlerts(s) PROVE AlertsInv'
  <2> DEFINE new == session[s].new
  <2>1. Open(s) /\ new \subseteq Key /\ session[s].work \subseteq session[s].asked /\ session[s].asked \subseteq Works
    BY <1>7 DEF CommitAlerts, Open, AlertRequest, Idle
  <2>2. /\ open' = (open \ session[s].closed) \cup new /\ UNCHANGED <<troubled, selling, undone>>
        /\ told' = [k \in Shops |-> told[k] - IF k \in new THEN 1 ELSE 0]
        /\ kept' = kept \cup session[s].work /\ answered' = answered \cup session[s].asked
        /\ session' = [session EXCEPT ![s] = Idle]
    BY <1>7 DEF CommitAlerts, Finish, shopVars
  <2>3. session' \in [Sessions -> AlertRequest] /\ ~Open(s)'
        /\ \A r \in Sessions \ {s} : session'[r] = session[r] /\ (Open(r)' <=> Open(r))
    BY <2>2 DEF Open, AlertRequest, Idle
  <2>4. \A j \in Shops : /\ told[j] \in 0..MaxUnaccounted
                         /\ j \in new => told[j] >= 1 /\ told'[j] = told[j] - 1
                         /\ j \notin new => told'[j] = told[j]
    BY <2>1, <2>2 DEF AlertsTypeOK, MaxUnaccounted
  <2>5. told' \in [Shops -> 0..MaxUnaccounted]
    <3>1. \A j \in Shops : told'[j] \in 0..MaxUnaccounted
      BY <2>4 DEF MaxUnaccounted
    <3> QED  BY <3>1, <2>2
  <2>6. AlertsTypeOK'
    BY <2>1, <2>2, <2>5 DEF AlertsTypeOK, Key
  <2>7. \A r \in Sessions : r # s /\ Open(r) => session[r].new \cap new = {}
    BY <2>1
  <2> HIDE DEF new
  <2>8. \A j \in Shops \ undone :
          told'[j] = IF \E r \in Sessions : Open(r)' /\ j \in session'[r].new THEN 1 ELSE 0
    <3> SUFFICES ASSUME NEW j \in Shops \ undone
                 PROVE told'[j] = IF \E r \in Sessions : Open(r)' /\ j \in session'[r].new THEN 1 ELSE 0
      OBVIOUS
    <3>1. CASE j \in new
      <4>1. told[j] = 1
        BY <2>1, <3>1 DEF new
      <4>2. \A r \in Sessions : ~(Open(r)' /\ j \in session'[r].new)
        BY <2>3, <2>7, <3>1
      <4> QED  BY <4>1, <4>2, <2>4, <3>1
    <3>2. CASE j \notin new
      <4>1. \A r \in Sessions : Open(r)' /\ j \in session'[r].new <=> Open(r) /\ j \in session[r].new
        BY <2>3, <3>2 DEF new
      <4> QED  BY <4>1, <2>4, <3>2
    <3> QED  BY <3>1, <3>2
  <2>9. \A r \in Sessions : Open(r)' =>
          /\ session'[r].new \cap session'[r].todo = {} /\ session'[r].new \cap open' = {}
          /\ session'[r].at # None => session'[r].at \in session'[r].todo
          /\ session'[r].work \subseteq session'[r].asked
          /\ \A j \in Shops : j \in session'[r].new => told'[j] >= 1
          /\ \A t \in Sessions : t # r /\ Open(t)' => session'[r].new \cap session'[t].new = {}
    BY <2>2, <2>3, <2>4, <2>7
  <2> QED  BY <2>2, <2>3, <2>6, <2>8, <2>9
<1>8. ASSUME NEW s \in Sessions, AlertsFail(s) PROVE AlertsInv'
  <2>1. session' = [session EXCEPT ![s] = Idle] /\ undone' = undone \cup (session[s].new \cap Shops)
        /\ UNCHANGED <<open, troubled, selling, told, answered, kept>> /\ Open(s)
    BY <1>8 DEF AlertsFail, Finish, shopVars
  <2>2. session' \in [Sessions -> AlertRequest] /\ ~Open(s)'
        /\ \A r \in Sessions \ {s} : session'[r] = session[r] /\ (Open(r)' <=> Open(r))
    BY <2>1 DEF Open, AlertRequest, Idle
  <2>3. AlertsTypeOK'
    BY <2>1 DEF AlertsTypeOK
  <2>4. \A j \in Shops \ undone' :
          told[j] = IF \E r \in Sessions : Open(r)' /\ j \in session'[r].new THEN 1 ELSE 0
    BY <2>1, <2>2
  <2> QED  BY <2>1, <2>2, <2>3, <2>4
<1>9. CASE UNCHANGED alertVars
  BY <1>9 DEF alertVars, AlertsTypeOK, Open
<1> QED  BY <1>1, <1>2, <1>3, <1>4, <1>5, <1>6, <1>7, <1>8, <1>9 DEF AlertsNext, Key

\* What is open, told, done and in hand keeps its type, for any number of shops and
\* requests (ops/alerts.py).
THEOREM AlertsKeepTypes == AlertsSpec => []AlertsTypeOK
<1>1. AlertsInv => AlertsTypeOK  BY DEF AlertsInv
<1> QED  BY <1>1, AlertsStart, AlertsStep, PTL DEF AlertsSpec

\* People hear once of each alert that is committed, however many requests and sweeps race
\* for its key, as long as none that told them of it was rolled back (alerts.raise_alert).
THEOREM AlertsToldOnce == AlertsSpec => []ToldOnceAnAlert
<1>1. AlertsInv => ToldOnceAnAlert  BY DEF AlertsInv, ToldOnceAnAlert, InsertedBy
<1> QED  BY <1>1, AlertsStart, AlertsStep, PTL DEF AlertsSpec

-----------------------------------------------------------------------------
(* Links, codes and invitations.                                           *)

LinkRequest ==
    {Idle} \cup [on : {"issue"}, kind : Kind, found : SUBSET (DOMAIN links)]
    \cup [on : {"redeem"}, link : DOMAIN links]

\* An open link is the newest of its kind and was never used; an open invitation is of
\* somebody who does not work here, and newer than their leaving.
LinksStand ==
    /\ LinksTypeOK /\ uses \in Seq(Nat)
    /\ \A i \in DOMAIN links :
          /\ uses[i] = IF links[i].state = "used" THEN 1 ELSE 0
          /\ links[i].state = "open" =>
                \A j \in DOMAIN links : links[j].kind = links[i].kind => j <= i
          /\ links[i].state = "open" /\ links[i].kind = "invite" => ~staff /\ i > left
    /\ StaffWereInvitedSince /\ NewestMachineHolds

\* What a request that is to issue or to accept found is still so.
LinkRequestsKnow ==
    /\ session \in [Sessions -> LinkRequest]
    /\ \A s \in Sessions :
          /\ Serving(s, "issue") =>
                /\ \A i \in session[s].found : links[i].kind = session[s].kind
                /\ \A i \in DOMAIN links :
                      links[i].kind = session[s].kind /\ links[i].state = "open" =>
                          i \in session[s].found
                /\ session[s].kind = "invite" => ~staff
          /\ Serving(s, "redeem") => links[session[s].link].state = "open"

\* No two requests about links of one kind.
OneOfAKind(s) ==
    LET kind == IF Serving(s, "issue") THEN session[s].kind ELSE links[session[s].link].kind
    IN  \A r \in Sessions \ {s} :
            /\ Serving(r, "issue") => session[r].kind # kind
            /\ Serving(r, "redeem") => links[session[r].link].kind # kind

LEMMA LinkIdle == Idle \in LinkRequest /\ Idle.on = "nothing"
BY DEF LinkRequest, Idle

LEMMA LinkShape ==
  ASSUME LinksStand
  PROVE  /\ links \in Seq(Link) /\ Len(links) \in Nat /\ DOMAIN links = 1..Len(links)
         /\ uses \in Seq(Nat) /\ DOMAIN uses = DOMAIN links /\ Len(uses) = Len(links)
         /\ \A i \in DOMAIN links :
               /\ links[i] \in Link /\ links[i].kind \in Kind
               /\ links[i].state \in {"open", "closed", "used"} /\ uses[i] \in Nat
<1>1. links \in Seq(Link) /\ uses \in Seq(Nat) /\ Len(uses) = Len(links)
  BY DEF LinksStand, LinksTypeOK
<1>2. /\ Len(links) \in Nat /\ DOMAIN links = 1..Len(links) /\ DOMAIN uses = DOMAIN links
      /\ \A i \in DOMAIN links : links[i] \in Link /\ uses[i] \in Nat
  BY <1>1
<1> QED  BY <1>1, <1>2 DEF Link

LEMMA LinkServed ==
  ASSUME LinksStand, LinkRequestsKnow, NEW s \in Sessions
  PROVE  /\ session[s] \in LinkRequest
         /\ Serving(s, "issue") => session[s].kind \in Kind /\ session[s].found \in SUBSET (DOMAIN links)
         /\ Serving(s, "redeem") => session[s].link \in DOMAIN links
BY LinkIdle DEF LinkRequestsKnow, LinkRequest, Serving

LEMMA LinksUncrossed ==
  ASSUME part = "links", ~Crosses, LinksStand, LinkRequestsKnow, NEW s \in Sessions,
         Serving(s, "issue") \/ Serving(s, "redeem")
  PROVE  OneOfAKind(s)
<1>1. \A r \in Sessions : Serving(r, "issue") \/ Serving(r, "redeem") => r \in Busy
  BY DEF Busy, Serving, Idle
<1>2. \A r \in Sessions \ {s} : r \in Busy => About(s) \cap About(r) = {}
  BY <1>1 DEF Crosses
<1>3. /\ Serving(s, "issue") => About(s) = {session[s].kind}
      /\ ~Serving(s, "issue") => About(s) = {links[session[s].link].kind}
  BY DEF About
<1>4. \A r \in Sessions \ {s} : /\ Serving(r, "issue") => session[r].kind \notin About(s)
                                /\ Serving(r, "redeem") => links[session[r].link].kind \notin About(s)
  <2>1. TAKE r \in Sessions \ {s}
  <2>2. /\ Serving(r, "issue") => About(r) = {session[r].kind}
        /\ Serving(r, "redeem") => About(r) = {links[session[r].link].kind}
    BY DEF About, Serving
  <2> QED  BY <1>1, <1>2, <2>1, <2>2
<1> QED  BY <1>3, <1>4 DEF OneOfAKind

\* A step of a request that leaves the links alone.
LEMMA LinkTalk ==
  ASSUME LinksStand, LinkRequestsKnow, NEW s \in Sessions, NEW new \in LinkRequest,
         session' = [session EXCEPT ![s] = new],
         UNCHANGED <<links, barred, holder, staff, uses, left>>,
         new.on = "issue" =>
             /\ new.found = OpenLinks(new.kind)
             /\ new.kind = "invite" => ~staff,
         new.on = "redeem" => links[new.link].state = "open"
  PROVE  LinksStand' /\ LinkRequestsKnow'
<1>1. LinksStand'
  BY DEF LinksStand, LinksTypeOK, StaffWereInvitedSince, NewestMachineHolds
<1>2. /\ session' \in [Sessions -> LinkRequest'] /\ session'[s] = new
      /\ \A r \in Sessions \ {s} : session'[r] = session[r]
  BY DEF LinkRequestsKnow, LinkRequest
<1>3. \A r \in Sessions :
          /\ session'[r].on = "issue" =>
                /\ \A i \in session'[r].found : links[i].kind = session'[r].kind
                /\ \A i \in DOMAIN links :
                      links[i].kind = session'[r].kind /\ links[i].state = "open" =>
                          i \in session'[r].found
                /\ session'[r].kind = "invite" => ~staff
          /\ session'[r].on = "redeem" => links[session'[r].link].state = "open"
  <2>1. TAKE r \in Sessions
  <2>2. CASE r = s
    BY <1>2, <2>2 DEF OpenLinks
  <2>3. CASE r # s
    BY <1>2, <2>3 DEF LinkRequestsKnow, Serving
  <2> QED  BY <2>2, <2>3
<1> QED  BY <1>1, <1>2, <1>3 DEF LinkRequestsKnow, Serving

LEMMA LinksBegin ==
  ASSUME LinksStand, LinkRequestsKnow, NEW s \in Sessions,
         \/ \E kind \in Kind : Issue(s, kind)
         \/ \E i \in DOMAIN links : Redeem(s, i)
         \/ LinkFails(s)
  PROVE  LinksStand' /\ LinkRequestsKnow'
<1>1. ASSUME NEW kind \in Kind, Issue(s, kind) PROVE LinksStand' /\ LinkRequestsKnow'
  <2> DEFINE new == [on |-> "issue", kind |-> kind, found |-> OpenLinks(kind)]
  <2>1. /\ new \in LinkRequest /\ new.on = "issue" /\ new.kind = kind
        /\ new.found = OpenLinks(kind)
    BY DEF LinkRequest, OpenLinks
  <2>2. /\ session' = [session EXCEPT ![s] = new]
        /\ kind = "invite" => ~staff
        /\ UNCHANGED <<links, barred, holder, staff, uses, left>>
    BY <1>1 DEF Issue, Start
  <2> HIDE DEF new
  <2> QED  BY <2>1, <2>2, LinkTalk
<1>2. ASSUME NEW i \in DOMAIN links, Redeem(s, i) PROVE LinksStand' /\ LinkRequestsKnow'
  <2> DEFINE new == [on |-> "redeem", link |-> i]
  <2>1. new \in LinkRequest /\ new.on = "redeem" /\ new.link = i
    BY DEF LinkRequest
  <2>2. /\ session' = [session EXCEPT ![s] = new] /\ links[i].state = "open"
        /\ UNCHANGED <<links, barred, holder, staff, uses, left>>
    BY <1>2 DEF Redeem, Start
  <2> HIDE DEF new
  <2> QED  BY <2>1, <2>2, LinkTalk
<1>3. ASSUME LinkFails(s) PROVE LinksStand' /\ LinkRequestsKnow'
  BY <1>3, LinkIdle, LinkTalk DEF LinkFails, GiveUp, Finish
<1> QED  BY <1>1, <1>2, <1>3

\* A person, an administrator or the clock; a link that lapses stays as open as it was.
LEMMA LinksTime ==
  ASSUME LinksStand, LinkRequestsKnow,
         \/ RevokeDeviceRow \/ Unassign
         \/ \E kind \in Kind : Bar(kind)
         \/ \E i \in DOMAIN links : Expire(i)
  PROVE  LinksStand' /\ LinkRequestsKnow'
<1>1. CASE RevokeDeviceRow
  <2>1. LinksStand'
    BY <1>1, LinkShape
    DEF RevokeDeviceRow, LinksStand, LinksTypeOK, StaffWereInvitedSince, NewestMachineHolds
  <2> QED  BY <1>1, <2>1 DEF RevokeDeviceRow, LinkRequestsKnow, LinkRequest, Serving
<1>2. CASE Unassign
  <2>1. /\ staff /\ staff' = FALSE /\ left' = Len(links)
        /\ UNCHANGED <<links, barred, holder, uses, session>>
    BY <1>2 DEF Unassign
  <2>2. \A i \in DOMAIN links : links[i].kind = "invite" => links[i].state # "open"
    BY <2>1 DEF LinksStand
  <2>3. left' \in 0..Len(links)
    BY <2>1, LinkShape
  <2>4. LinksTypeOK'
    BY <2>1, <2>3 DEF LinksStand, LinksTypeOK
  <2>5. LinksStand'
    BY <2>1, <2>2, <2>4 DEF LinksStand, StaffWereInvitedSince, NewestMachineHolds
  <2> QED  BY <1>2, <2>5 DEF Unassign, LinkRequestsKnow, LinkRequest, Serving
<1>3. ASSUME NEW kind \in Kind, Bar(kind) PROVE LinksStand' /\ LinkRequestsKnow'
  <2>1. LinksStand'
    BY <1>3 DEF Bar, LinksStand, LinksTypeOK, StaffWereInvitedSince, NewestMachineHolds
  <2> QED  BY <1>3, <2>1 DEF Bar, LinkRequestsKnow, LinkRequest, Serving
<1>4. ASSUME NEW i \in DOMAIN links, Expire(i) PROVE LinksStand' /\ LinkRequestsKnow'
  <2>1. /\ links' = [links EXCEPT ![i].lapsed = TRUE]
        /\ UNCHANGED <<barred, holder, staff, uses, left, session>>
    BY <1>4 DEF Expire
  <2>2. [links[i] EXCEPT !.lapsed = TRUE] \in Link
    BY LinkShape DEF Link
  <2>3. /\ links' \in Seq(Link) /\ Len(links') = Len(links) /\ DOMAIN links' = DOMAIN links
        /\ \A j \in DOMAIN links : links'[j].kind = links[j].kind /\ links'[j].state = links[j].state
    BY <2>1, <2>2, LinkShape DEF Link
  <2>4. LinksStand'
    BY <2>1, <2>3, LinkShape
    DEF LinksStand, LinksTypeOK, StaffWereInvitedSince, NewestMachineHolds
  <2>5. \A s \in Sessions : Serving(s, "issue") => \A j \in session[s].found : j \in DOMAIN links
    BY LinkServed
  <2> QED  BY <2>1, <2>3, <2>4, <2>5, LinkServed DEF LinkRequestsKnow, LinkRequest, Serving
<1> QED  BY <1>1, <1>2, <1>3, <1>4

LEMMA LinkWritten ==
  ASSUME part = "links", ~Crosses, LinksStand, LinkRequestsKnow, NEW s \in Sessions, WriteLink(s)
  PROVE  LinksStand' /\ LinkRequestsKnow'
<1> DEFINE n == Len(links)
           kind == session[s].kind
           closed(i) == IF i \in session[s].found /\ links[i].state = "open"
                        THEN [links[i] EXCEPT !.state = "closed"] ELSE links[i]
<1>1. /\ kind \in Kind /\ Serving(s, "issue") /\ session[s].found \subseteq DOMAIN links
      /\ n \in Nat /\ DOMAIN links = 1..n
  BY LinkServed, LinkShape DEF WriteLink
<1>2. OneOfAKind(s)
  BY <1>1, LinksUncrossed
<1>3. \A i \in 1..n : /\ closed(i) \in Link /\ closed(i).kind = links[i].kind
                      /\ closed(i).state = "used" <=> links[i].state = "used"
                      /\ closed(i).state = "open" => links[i].state = "open" /\ links[i].kind # kind
                      /\ links[i].kind # kind => closed(i) = links[i]
  <2>1. TAKE i \in 1..n
  <2>2. links[i] \in Link /\ (i \in session[s].found => links[i].kind = kind)
        /\ (links[i].kind = kind /\ links[i].state = "open" => i \in session[s].found)
    BY <1>1, LinkShape DEF LinkRequestsKnow
  <2>3. CASE i \in session[s].found /\ links[i].state = "open"
    <3>1. closed(i) = [links[i] EXCEPT !.state = "closed"]
      BY <2>3
    <3> HIDE DEF closed
    <3> QED  BY <2>2, <2>3, <3>1 DEF Link
  <2>4. CASE ~(i \in session[s].found /\ links[i].state = "open")
    <3>1. closed(i) = links[i]
      BY <2>4
    <3> HIDE DEF closed
    <3> QED  BY <2>2, <2>4, <3>1
  <2> QED  BY <2>3, <2>4
<1> DEFINE new == [kind |-> kind, state |-> "open", lapsed |-> FALSE]
           before == [i \in 1..n |-> closed(i)]
<1>4. /\ links' = Append(before, new) /\ uses' = Append(uses, 0)
      /\ session' = [session EXCEPT ![s] = Idle] /\ UNCHANGED <<barred, holder, staff, left>>
  BY <1>1 DEF WriteLink, Finish
<1>5. before \in Seq(Link) /\ Len(before) = n /\ DOMAIN before = 1..n
      /\ \A i \in 1..n : before[i] = closed(i)
  <2>1. \A i \in 1..n : before[i] = closed(i)
    OBVIOUS
  <2>2. \A i \in 1..n : before[i] \in Link
    BY <1>3, <2>1
  <2>3. before = [i \in 1..n |-> before[i]]
    OBVIOUS
  <2> HIDE DEF before
  <2> QED  BY <1>1, <2>1, <2>2, <2>3, IsASeqOfRows
<1>6. new \in Link /\ new.kind = kind /\ new.state = "open"
  BY <1>1 DEF Link
<1> HIDE DEF closed, before, new
<1>7. /\ links' \in Seq(Link) /\ Len(links') = n + 1 /\ DOMAIN links' = 1..(n + 1)
      /\ links'[n + 1] = new
      /\ \A i \in 1..n : links'[i] = closed(i)
  BY <1>1, <1>4, <1>5, <1>6
<1>8. /\ uses' \in Seq(Nat) /\ Len(uses') = n + 1 /\ DOMAIN uses' = 1..(n + 1)
      /\ uses'[n + 1] = 0
      /\ \A i \in 1..n : uses'[i] = uses[i]
  BY <1>1, <1>4, LinkShape
<1>9. LinksTypeOK'
  <2>1. holder \in 0..(n + 1) /\ left \in 0..(n + 1)
    BY <1>1 DEF LinksStand, LinksTypeOK
  <2> QED  BY <1>4, <1>7, <1>8, <2>1 DEF LinksStand, LinksTypeOK
<1>10. \A i \in 1..(n + 1) :
          /\ uses'[i] = IF links'[i].state = "used" THEN 1 ELSE 0
          /\ links'[i].state = "open" =>
                \A j \in 1..(n + 1) : links'[j].kind = links'[i].kind => j <= i
          /\ links'[i].state = "open" /\ links'[i].kind = "invite" => ~staff' /\ i > left'
  <2>1. TAKE i \in 1..(n + 1)
  <2>2. CASE i = n + 1
    <3>1. kind = "invite" => ~staff /\ n + 1 > left
      BY <1>1 DEF LinkRequestsKnow, LinksStand, LinksTypeOK
    <3> QED  BY <1>1, <1>4, <1>6, <1>7, <1>8, <2>2, <3>1
  <2>3. CASE i # n + 1
    <3>1. i \in 1..n
      BY <1>1, <2>1, <2>3
    <3>2. /\ uses[i] = IF links[i].state = "used" THEN 1 ELSE 0
          /\ links[i].state = "open" =>
                \A j \in 1..n : links[j].kind = links[i].kind => j <= i
          /\ links[i].state = "open" /\ links[i].kind = "invite" => ~staff /\ i > left
      BY <1>1, <3>1 DEF LinksStand
    <3>3. \A j \in 1..(n + 1) : j # n + 1 => j \in 1..n
      BY <1>1
    <3> QED  BY <1>3, <1>4, <1>6, <1>7, <1>8, <3>1, <3>2, <3>3
  <2> QED  BY <2>2, <2>3
<1>11. StaffWereInvitedSince'
  BY <1>1, <1>3, <1>4, <1>7, <1>8 DEF LinksStand, StaffWereInvitedSince
<1>12. NewestMachineHolds'
  <2>1. \A i \in 1..(n + 1) : i # n + 1 => i \in 1..n
    BY <1>1
  <2> QED  BY <1>1, <1>3, <1>4, <1>7, <1>8, <2>1 DEF LinksStand, NewestMachineHolds
<1>13. LinksStand'
  BY <1>7, <1>8, <1>9, <1>10, <1>11, <1>12 DEF LinksStand
<1>14. \A r \in Sessions \ {s} :
          /\ session'[r] = session[r] /\ session[r] \in LinkRequest'
          /\ Serving(r, "issue") =>
                /\ \A i \in session[r].found : links'[i].kind = session[r].kind
                /\ \A i \in DOMAIN links' :
                      links'[i].kind = session[r].kind /\ links'[i].state = "open" =>
                          i \in session[r].found
                /\ session[r].kind = "invite" => ~staff'
          /\ Serving(r, "redeem") => links'[session[r].link].state = "open"
  <2>1. TAKE r \in Sessions \ {s}
  <2>2. session'[r] = session[r]
    BY <1>4, <2>1 DEF LinkRequestsKnow
  <2>3. session[r] \in LinkRequest'
    <3>1. DOMAIN links \subseteq DOMAIN links'
      BY <1>1, <1>7
    <3> QED  BY <2>1, <3>1, LinkServed DEF LinkRequest
  <2>4. ASSUME Serving(r, "issue")
        PROVE  /\ \A i \in session[r].found : links'[i].kind = session[r].kind
               /\ \A i \in DOMAIN links' :
                     links'[i].kind = session[r].kind /\ links'[i].state = "open" =>
                         i \in session[r].found
               /\ session[r].kind = "invite" => ~staff'
    <3>1. session[r].kind # kind /\ session[r].found \subseteq 1..n
      BY <1>1, <1>2, <2>1, <2>4, LinkServed DEF OneOfAKind
    <3>2. /\ \A i \in session[r].found : links[i].kind = session[r].kind
          /\ \A i \in 1..n : links[i].kind = session[r].kind /\ links[i].state = "open" =>
                 i \in session[r].found
          /\ session[r].kind = "invite" => ~staff
      BY <1>1, <2>1, <2>4 DEF LinkRequestsKnow
    <3>3. \A i \in 1..(n + 1) : i # n + 1 => i \in 1..n
      BY <1>1
    <3> QED  BY <1>3, <1>4, <1>6, <1>7, <3>1, <3>2, <3>3
  <2>5. ASSUME Serving(r, "redeem") PROVE links'[session[r].link].state = "open"
    BY <1>1, <1>2, <1>3, <1>7, <2>1, <2>5, LinkServed DEF OneOfAKind, LinkRequestsKnow
  <2> QED  BY <2>2, <2>3, <2>4, <2>5
<1>15. LinkRequestsKnow'
  <2>1. session'[s] = Idle /\ Idle \in LinkRequest' /\ DOMAIN session' = Sessions
    BY <1>4 DEF LinkRequestsKnow, LinkRequest
  <2>2. session' = [r \in Sessions |-> session'[r]]
    BY <1>4 DEF LinkRequestsKnow
  <2>3. session' \in [Sessions -> LinkRequest']
    BY <1>14, <2>1, <2>2
  <2>4. /\ Serving(s, "issue")' => FALSE
        /\ Serving(s, "redeem")' => FALSE
    BY <2>1 DEF Serving, Idle
  <2>5. \A r \in Sessions \ {s} : session'[r] = session[r]
    BY <1>14
  <2> QED  BY <1>14, <2>3, <2>4, <2>5 DEF LinkRequestsKnow, Serving
<1> QED  BY <1>13, <1>15

LEMMA LinkSpent ==
  ASSUME part = "links", ~Crosses, LinksStand, LinkRequestsKnow, NEW s \in Sessions, Spend(s)
  PROVE  LinksStand' /\ LinkRequestsKnow'
<1> DEFINE n == Len(links)
           i == session[s].link
           kind == links[i].kind
<1>1. /\ Serving(s, "redeem") /\ i \in 1..n /\ links[i].state = "open"
      /\ n \in Nat /\ DOMAIN links = 1..n /\ kind \in Kind
  BY LinkServed, LinkShape DEF Spend, LinkRequestsKnow
<1>2. OneOfAKind(s) /\ ~Serving(s, "issue")
  BY <1>1, LinksUncrossed DEF Serving
<1>3. /\ links' = [links EXCEPT ![i].state = "used"] /\ uses' = [uses EXCEPT ![i] = @ + 1]
      /\ holder' = (IF kind = "code" THEN i ELSE holder)
      /\ staff' = (staff \/ kind = "invite")
      /\ session' = [session EXCEPT ![s] = Idle] /\ UNCHANGED <<barred, left>>
  BY DEF Spend, Accepted, Finish
<1> HIDE DEF i
<1>4. /\ links' \in Seq(Link) /\ Len(links') = n /\ DOMAIN links' = 1..n
      /\ links'[i].kind = kind /\ links'[i].state = "used"
      /\ \A j \in 1..n : j # i => links'[j] = links[j]
  <2>1. [links[i] EXCEPT !.state = "used"] \in Link
        /\ [links[i] EXCEPT !.state = "used"].kind = kind
        /\ [links[i] EXCEPT !.state = "used"].state = "used"
    BY <1>1, LinkShape DEF Link
  <2>2. links' = [links EXCEPT ![i] = [links[i] EXCEPT !.state = "used"]]
    BY <1>3
  <2> QED  BY <1>1, <2>1, <2>2, LinkShape
<1>5. /\ uses[i] = 0 /\ \A j \in 1..n : links[j].kind = kind => j <= i
      /\ kind = "invite" => ~staff /\ i > left
  BY <1>1 DEF LinksStand
<1>6. /\ uses' \in Seq(Nat) /\ Len(uses') = n /\ DOMAIN uses' = 1..n
      /\ uses'[i] = 1 /\ \A j \in 1..n : j # i => uses'[j] = uses[j]
  BY <1>1, <1>3, <1>5, LinkShape
<1>7. LinksTypeOK'
  <2>1. holder' \in 0..n /\ staff' \in BOOLEAN /\ left \in 0..n /\ barred \subseteq Kind
    BY <1>1, <1>3 DEF LinksStand, LinksTypeOK
  <2> QED  BY <1>3, <1>4, <1>6, <2>1 DEF LinksTypeOK
<1>8. \A j \in 1..n :
          /\ uses'[j] = IF links'[j].state = "used" THEN 1 ELSE 0
          /\ links'[j].state = "open" =>
                \A k \in 1..n : links'[k].kind = links'[j].kind => k <= j
          /\ links'[j].state = "open" /\ links'[j].kind = "invite" => ~staff' /\ j > left'
  <2>1. TAKE j \in 1..n
  <2>2. CASE j = i
    BY <1>4, <1>6, <2>2
  <2>3. CASE j # i
    <3>1. /\ uses[j] = IF links[j].state = "used" THEN 1 ELSE 0
          /\ links[j].state = "open" =>
                \A k \in 1..n : links[k].kind = links[j].kind => k <= j
          /\ links[j].state = "open" /\ links[j].kind = "invite" => ~staff /\ j > left
      BY <1>1, <2>1 DEF LinksStand
    <3>2. links[j].state = "open" => links[j].kind # kind
      BY <1>1, <1>5, <2>1, <2>3, <3>1
    <3> QED  BY <1>1, <1>3, <1>4, <1>6, <2>1, <2>3, <3>1, <3>2
  <2> QED  BY <2>2, <2>3
<1>9. StaffWereInvitedSince'
  <2>1. CASE kind = "invite"
    BY <1>1, <1>3, <1>4, <1>5, <1>6, <2>1 DEF StaffWereInvitedSince
  <2>2. CASE kind # "invite"
    BY <1>1, <1>3, <1>4, <1>6, <2>2 DEF LinksStand, StaffWereInvitedSince
  <2> QED  BY <2>1, <2>2
<1>10. NewestMachineHolds'
  <2>1. CASE kind = "code"
    BY <1>1, <1>3, <1>4, <1>5, <1>6, <2>1 DEF NewestMachineHolds
  <2>2. CASE kind # "code"
    BY <1>1, <1>3, <1>4, <1>6, <2>2 DEF LinksStand, NewestMachineHolds
  <2> QED  BY <2>1, <2>2
<1>11. LinksStand'
  BY <1>4, <1>6, <1>7, <1>8, <1>9, <1>10 DEF LinksStand
<1>12. \A r \in Sessions \ {s} :
          /\ session'[r] = session[r] /\ session[r] \in LinkRequest'
          /\ Serving(r, "issue") =>
                /\ \A j \in session[r].found : links'[j].kind = session[r].kind
                /\ \A j \in DOMAIN links' :
                      links'[j].kind = session[r].kind /\ links'[j].state = "open" =>
                          j \in session[r].found
                /\ session[r].kind = "invite" => ~staff'
          /\ Serving(r, "redeem") => links'[session[r].link].state = "open"
  <2>1. TAKE r \in Sessions \ {s}
  <2>2. session'[r] = session[r]
    BY <1>3, <2>1 DEF LinkRequestsKnow
  <2>3. session[r] \in LinkRequest'
    BY <1>1, <1>4, <2>1, LinkServed DEF LinkRequest
  <2>4. ASSUME Serving(r, "issue")
        PROVE  /\ \A j \in session[r].found : links'[j].kind = session[r].kind
               /\ \A j \in DOMAIN links' :
                     links'[j].kind = session[r].kind /\ links'[j].state = "open" =>
                         j \in session[r].found
               /\ session[r].kind = "invite" => ~staff'
    <3>1. session[r].kind # kind /\ session[r].found \subseteq 1..n
      BY <1>1, <1>2, <2>1, <2>4, LinkServed DEF OneOfAKind, i
    <3>2. /\ \A j \in session[r].found : links[j].kind = session[r].kind
          /\ \A j \in 1..n : links[j].kind = session[r].kind /\ links[j].state = "open" =>
                 j \in session[r].found
          /\ session[r].kind = "invite" => ~staff
      BY <1>1, <2>1, <2>4 DEF LinkRequestsKnow
    <3> QED  BY <1>3, <1>4, <3>1, <3>2
  <2>5. ASSUME Serving(r, "redeem") PROVE links'[session[r].link].state = "open"
    <3>1. links[session[r].link].kind # kind /\ session[r].link \in 1..n
      BY <1>1, <1>2, <2>1, <2>5, LinkServed DEF OneOfAKind, i
    <3> QED  BY <1>4, <2>1, <2>5, <3>1 DEF LinkRequestsKnow
  <2> QED  BY <2>2, <2>3, <2>4, <2>5
<1>13. LinkRequestsKnow'
  <2>1. session'[s] = Idle /\ Idle \in LinkRequest' /\ DOMAIN session' = Sessions
    BY <1>3 DEF LinkRequestsKnow, LinkRequest
  <2>2. session' = [r \in Sessions |-> session'[r]]
    BY <1>3 DEF LinkRequestsKnow
  <2>3. session' \in [Sessions -> LinkRequest']
    BY <1>12, <2>1, <2>2
  <2>4. /\ Serving(s, "issue")' => FALSE
        /\ Serving(s, "redeem")' => FALSE
    BY <2>1 DEF Serving, Idle
  <2>5. \A r \in Sessions \ {s} : session'[r] = session[r]
    BY <1>12
  <2> QED  BY <1>12, <2>3, <2>4, <2>5 DEF LinkRequestsKnow, Serving
<1> QED  BY <1>11, <1>13

LEMMA LinksStep ==
  ASSUME part = "links", ~Crosses, LinksStand, LinkRequestsKnow, LinksNext
  PROVE  LinksStand' /\ LinkRequestsKnow'
BY LinksTime, LinksBegin, LinkWritten, LinkSpent DEF LinksNext

LEMMA LinksStart == LinksInit => LinksStand /\ LinkRequestsKnow
<1> SUFFICES ASSUME LinksInit PROVE LinksStand /\ LinkRequestsKnow
  OBVIOUS
<1>1. links = <<>> /\ uses = <<>> /\ holder = 0 /\ staff = FALSE /\ left = 0 /\ barred = {}
  BY DEF LinksInit
<1>2. /\ links \in Seq(Link) /\ uses \in Seq(Nat) /\ Len(links) = 0 /\ Len(uses) = 0
      /\ DOMAIN links = {}
  BY <1>1
<1>3. LinksTypeOK
  <2>1. holder \in 0..Len(links) /\ left \in 0..Len(links) /\ staff \in BOOLEAN /\ barred \subseteq Kind
    <3>1. Len(<<>>) = 0
      OBVIOUS
    <3>2. 0 \in 0..0 /\ FALSE \in BOOLEAN /\ {} \subseteq Kind
      OBVIOUS
    <3> QED  BY <1>1, <3>1, <3>2, Zenon
  <2> QED  BY <1>2, <2>1 DEF LinksTypeOK
<1>4. StaffWereInvitedSince /\ NewestMachineHolds
  BY <1>1, <1>2 DEF StaffWereInvitedSince, NewestMachineHolds
<1>5. LinksStand
  BY <1>2, <1>3, <1>4 DEF LinksStand
<1>6. LinkRequestsKnow
  BY LinkIdle DEF LinksInit, NobodyServed, LinkRequestsKnow, Serving
<1> QED  BY <1>5, <1>6

\* What stands is what the module promises.
LEMMA LinksKeepTheirWord ==
  ASSUME LinksStand
  PROVE  LinksWorkOnce /\ OneLiveLink /\ StaffWereInvitedSince /\ NewestMachineHolds
<1>1. LinksWorkOnce
  BY LinkShape DEF LinksStand, LinksWorkOnce
<1>2. OneLiveLink
  <2>1. \A kind \in Kind : \A i, j \in OpenLinks(kind) : i <= j /\ i \in Nat
    BY LinkShape DEF LinksStand, OpenLinks
  <2> QED  BY <2>1 DEF OneLiveLink
<1> QED  BY <1>1, <1>2 DEF LinksStand

-----------------------------------------------------------------------------
(* Payment keys.                                                           *)

KeyRequest ==
    {Idle} \cup [on : {"request"}]
    \cup [on : {"review"}, request : DOMAIN requests, decision : {"approved", "rejected"}]
    \cup [on : {"keys"}, had : {"none", "secret", "keys"}, approval : {0} \cup DOMAIN requests]
    \cup [on : {"secret"}, had : {"none", "secret", "keys"}]

\* One request waits; no approval is used up by the first keys, and one by every change.
KeysStand ==
    /\ KeysTypeOK
    /\ \A i, j \in In("pending") : i = j
    /\ changes = 0 => In("used") = {}
    /\ KeysMoveByApproval

\* What a request loaded is still so.
KeyRequestsKnow ==
    /\ session \in [Sessions -> KeyRequest]
    /\ \A s \in Sessions :
          /\ Serving(s, "request") => In("pending") = {}
          /\ Serving(s, "review") => requests[session[s].request] = "pending"
          /\ Serving(s, "keys") =>
                IF session[s].approval = 0 THEN config # "keys"
                ELSE config = "keys" /\ requests[session[s].approval] = "approved"

LEMMA KeyIdle == Idle \in KeyRequest /\ Idle.on = "nothing"
BY DEF KeyRequest, Idle

LEMMA KeyShape ==
  ASSUME KeysStand
  PROVE  /\ requests \in Seq(RequestStatus) /\ Len(requests) \in Nat
         /\ DOMAIN requests = 1..Len(requests) /\ 0 \notin DOMAIN requests
         /\ \A i \in DOMAIN requests : requests[i] \in RequestStatus
         /\ \A status : In(status) \subseteq DOMAIN requests /\ IsFiniteSet(In(status))
<1>1. /\ requests \in Seq(RequestStatus) /\ Len(requests) \in Nat
      /\ DOMAIN requests = 1..Len(requests) /\ 0 \notin DOMAIN requests
      /\ \A i \in DOMAIN requests : requests[i] \in RequestStatus
  BY DEF KeysStand, KeysTypeOK
<1>2. \A status : In(status) \subseteq DOMAIN requests
  BY DEF In
<1>3. IsFiniteSet(DOMAIN requests)
  BY <1>1, FS_Interval
<1> QED  BY <1>1, <1>2, <1>3, FS_Subset

LEMMA KeyServed ==
  ASSUME KeyRequestsKnow, NEW s \in Sessions
  PROVE  /\ session[s] \in KeyRequest
         /\ Serving(s, "review") => /\ session[s].request \in DOMAIN requests
                                    /\ session[s].decision \in {"approved", "rejected"}
         /\ Serving(s, "keys") => session[s].approval \in {0} \cup DOMAIN requests
BY KeyIdle DEF KeyRequestsKnow, KeyRequest, Serving

LEMMA KeysUncrossed ==
  ASSUME part = "keys", ~Crosses, NEW s \in Sessions, session[s] # Idle
  PROVE  \A r \in Sessions \ {s} : session[r] = Idle
<1>1. \A r : About(r) = {"keys"}
  BY DEF About
<1>2. \A x, y : {x, y} = {"keys"} => {x} \cap {y} # {}
  OBVIOUS
<1> QED  BY <1>1 DEF Crosses, Busy

\* A step of a request that leaves the rows alone.
LEMMA KeyTalk ==
  ASSUME KeysStand, KeyRequestsKnow, NEW s \in Sessions, NEW new \in KeyRequest,
         session' = [session EXCEPT ![s] = new], UNCHANGED <<config, changes, requests>>,
         new.on = "request" => In("pending") = {},
         new.on = "review" => requests[new.request] = "pending",
         new.on = "keys" => IF new.approval = 0 THEN config # "keys"
                            ELSE config = "keys" /\ requests[new.approval] = "approved"
  PROVE  KeysStand' /\ KeyRequestsKnow'
<1>1. KeysStand'
  BY DEF KeysStand, KeysTypeOK, In, KeysMoveByApproval
<1>2. /\ session' \in [Sessions -> KeyRequest'] /\ session'[s] = new
      /\ \A r \in Sessions \ {s} : session'[r] = session[r]
  BY DEF KeyRequestsKnow, KeyRequest
<1>3. \A r \in Sessions :
          /\ session'[r].on = "request" => In("pending") = {}
          /\ session'[r].on = "review" => requests[session'[r].request] = "pending"
          /\ session'[r].on = "keys" =>
                IF session'[r].approval = 0 THEN config # "keys"
                ELSE config = "keys" /\ requests[session'[r].approval] = "approved"
  <2>1. TAKE r \in Sessions
  <2>2. CASE r = s
    BY <1>2, <2>2
  <2>3. CASE r # s
    BY <1>2, <2>3 DEF KeyRequestsKnow, Serving
  <2> QED  BY <2>2, <2>3
<1>4. In("pending")' = In("pending")
  BY DEF In
<1> QED  BY <1>1, <1>2, <1>3, <1>4 DEF KeyRequestsKnow, Serving

LEMMA KeysBegin ==
  ASSUME KeysStand, KeyRequestsKnow, NEW s \in Sessions,
         \/ RequestChange(s)
         \/ \E i \in DOMAIN requests, decision \in {"approved", "rejected"} :
                ReviewChange(s, i, decision)
         \/ SetFirstKeys(s) \/ ReplaceKeys(s) \/ SetWebhookSecret(s) \/ KeysFail(s)
  PROVE  KeysStand' /\ KeyRequestsKnow'
<1>1. CASE RequestChange(s)
  <2> DEFINE new == [on |-> "request"]
  <2>1. new \in KeyRequest /\ new.on = "request"
    BY DEF KeyRequest
  <2>2. In("pending") = {} /\ session' = [session EXCEPT ![s] = new]
        /\ UNCHANGED <<config, changes, requests>>
    BY <1>1 DEF RequestChange, Start
  <2> HIDE DEF new
  <2> QED  BY <2>1, <2>2, KeyTalk
<1>2. ASSUME NEW i \in DOMAIN requests, NEW decision \in {"approved", "rejected"},
             ReviewChange(s, i, decision)
      PROVE  KeysStand' /\ KeyRequestsKnow'
  <2> DEFINE new == [on |-> "review", request |-> i, decision |-> decision]
  <2>1. new \in KeyRequest /\ new.on = "review" /\ new.request = i
    BY DEF KeyRequest
  <2>2. requests[i] = "pending" /\ session' = [session EXCEPT ![s] = new]
        /\ UNCHANGED <<config, changes, requests>>
    BY <1>2 DEF ReviewChange, Start
  <2> HIDE DEF new
  <2> QED  BY <2>1, <2>2, KeyTalk
<1>3. CASE SetFirstKeys(s)
  <2> DEFINE new == [on |-> "keys", had |-> config, approval |-> 0]
  <2>1. new \in KeyRequest /\ new.on = "keys" /\ new.approval = 0
    BY DEF KeyRequest, KeysStand, KeysTypeOK
  <2>2. config # "keys" /\ session' = [session EXCEPT ![s] = new]
        /\ UNCHANGED <<config, changes, requests>>
    BY <1>3 DEF SetFirstKeys, Start
  <2> HIDE DEF new
  <2> QED  BY <2>1, <2>2, KeyTalk
<1>4. CASE ReplaceKeys(s)
  <2>1. PICK i \in In("approved") : Start(s, [on |-> "keys", had |-> config, approval |-> i])
    BY <1>4 DEF ReplaceKeys
  <2> DEFINE new == [on |-> "keys", had |-> config, approval |-> i]
  <2>2. new \in KeyRequest /\ new.on = "keys" /\ new.approval = i
    BY KeyShape DEF KeyRequest, KeysStand, KeysTypeOK
  <2>3. /\ config = "keys" /\ requests[i] = "approved" /\ i # 0
        /\ session' = [session EXCEPT ![s] = new]
        /\ UNCHANGED <<config, changes, requests>>
    BY <1>4, <2>1, KeyShape DEF ReplaceKeys, Start, In
  <2> HIDE DEF new
  <2> QED  BY <2>2, <2>3, KeyTalk
<1>5. CASE SetWebhookSecret(s)
  <2> DEFINE new == [on |-> "secret", had |-> config]
  <2>1. new \in KeyRequest /\ new.on = "secret"
    BY DEF KeyRequest, KeysStand, KeysTypeOK
  <2>2. session' = [session EXCEPT ![s] = new] /\ UNCHANGED <<config, changes, requests>>
    BY <1>5 DEF SetWebhookSecret, Start
  <2> HIDE DEF new
  <2> QED  BY <2>1, <2>2, KeyTalk
<1>6. CASE KeysFail(s)
  BY <1>6, KeyIdle, KeyTalk DEF KeysFail, GiveUp, Finish
<1> QED  BY <1>1, <1>2, <1>3, <1>4, <1>5, <1>6

\* Whoever writes was the only one: nobody is left who knows anything.
LEMMA KeysCommit ==
  ASSUME part = "keys", ~Crosses, KeyRequestsKnow, NEW s \in Sessions, session[s] # Idle, Finish(s)
  PROVE  KeyRequestsKnow'
<1>1. \A r \in Sessions : session'[r] = Idle
  BY KeysUncrossed DEF Finish, KeyRequestsKnow
<1>2. session' = [r \in Sessions |-> session'[r]]
  BY DEF Finish, KeyRequestsKnow
<1>3. Idle \in KeyRequest' /\ Idle.on = "nothing"
  BY DEF KeyRequest, Idle
<1>4. session' \in [Sessions -> KeyRequest']
  BY <1>1, <1>2, <1>3
<1> QED  BY <1>1, <1>3, <1>4 DEF KeyRequestsKnow, Serving

LEMMA KeysWritten ==
  ASSUME part = "keys", ~Crosses, KeysStand, KeyRequestsKnow, NEW s \in Sessions,
         WriteRequest(s) \/ WriteReview(s) \/ WriteKeys(s) \/ WriteSecret(s)
  PROVE  KeysStand' /\ KeyRequestsKnow'
<1>1. KeyRequestsKnow'
  BY KeysCommit, KeyIdle DEF WriteRequest, WriteReview, WriteKeys, WriteSecret, Serving
<1>2. CASE WriteRequest(s)
  <2>1. In("pending") = {} /\ requests' = Append(requests, "pending")
        /\ UNCHANGED <<config, changes>>
    BY <1>2 DEF WriteRequest, KeyRequestsKnow
  <2>2. requests' \in Seq(RequestStatus)
    BY <2>1, KeyShape DEF RequestStatus
  <2>3. In("used")' = In("used") /\ In("pending")' = {Len(requests) + 1}
    BY <2>1, KeyShape DEF In
  <2> QED  BY <1>1, <2>1, <2>2, <2>3 DEF KeysStand, KeysTypeOK, KeysMoveByApproval
<1>3. CASE WriteReview(s)
  <2> DEFINE i == session[s].request
             decision == session[s].decision
  <2>1. /\ i \in DOMAIN requests /\ decision \in {"approved", "rejected"}
        /\ requests[i] = "pending" /\ requests' = [requests EXCEPT ![i] = decision]
        /\ UNCHANGED <<config, changes>>
    BY <1>3, KeyServed DEF WriteReview, KeyRequestsKnow
  <2> HIDE DEF i, decision
  <2>2. requests' \in Seq(RequestStatus)
    BY <2>1, KeyShape DEF RequestStatus
  <2>3. In("used")' = In("used") /\ In("pending")' \subseteq In("pending")
    BY <2>1, KeyShape DEF In
  <2> QED  BY <1>1, <2>1, <2>2, <2>3 DEF KeysStand, KeysTypeOK, KeysMoveByApproval
<1>4. CASE WriteKeys(s)
  <2> DEFINE i == session[s].approval
  <2>1. /\ Serving(s, "keys") /\ i \in {0} \cup DOMAIN requests
        /\ config' = "keys" /\ changes' = changes + 1 /\ changes \in Nat
        /\ requests' = Consumed(i) /\ (config = "keys") = (changes > 0)
    BY <1>4, KeyServed DEF WriteKeys, KeysStand, KeysTypeOK
  <2>2. IF i = 0 THEN config # "keys" ELSE config = "keys" /\ requests[i] = "approved"
    BY <2>1 DEF KeyRequestsKnow
  <2> HIDE DEF i
  <2>3. CASE i = 0
    <3>1. requests' = requests /\ changes = 0 /\ changes' = 1 /\ In("used") = {}
      BY <2>1, <2>2, <2>3 DEF Consumed, KeysStand
    <3>2. In("used")' = In("used") /\ In("pending")' = In("pending")
      BY <3>1 DEF In
    <3>3. Cardinality({}) = 0
      BY FS_EmptySet
    <3>4. KeysMoveByApproval'
      BY <3>1, <3>2, <3>3 DEF KeysMoveByApproval
    <3> QED  BY <1>1, <2>1, <3>1, <3>2, <3>4 DEF KeysStand, KeysTypeOK
  <2>4. CASE i # 0
    <3>1. /\ requests' = [requests EXCEPT ![i] = "used"] /\ i \in DOMAIN requests
          /\ changes > 0 /\ changes = 1 + Cardinality(In("used"))
      BY <2>1, <2>2, <2>4 DEF Consumed, KeysStand, KeysMoveByApproval
    <3>2. requests' \in Seq(RequestStatus)
      BY <3>1, KeyShape DEF RequestStatus
    <3>3. /\ In("used")' = In("used") \cup {i} /\ i \notin In("used")
          /\ In("pending")' = In("pending")
      BY <2>2, <2>4, <3>1, KeyShape DEF In
    <3>4. Cardinality(In("used") \cup {i}) = Cardinality(In("used")) + 1
      BY <3>3, KeyShape, FS_AddElement
    <3>5. KeysMoveByApproval'
      <4>1. Cardinality(In("used")) \in Nat
        BY KeyShape, FS_CardinalityType
      <4> QED  BY <2>1, <3>1, <3>3, <3>4, <4>1 DEF KeysMoveByApproval
    <3>6. changes' # 0
      BY <2>1
    <3> QED  BY <1>1, <2>1, <3>1, <3>2, <3>3, <3>5, <3>6 DEF KeysStand, KeysTypeOK
  <2> QED  BY <2>3, <2>4
<1>5. CASE WriteSecret(s)
  <2>1. /\ config' = (IF config = "none" THEN "secret" ELSE config)
        /\ UNCHANGED <<changes, requests>>
    BY <1>5 DEF WriteSecret
  <2> QED  BY <1>1, <2>1 DEF KeysStand, KeysTypeOK, In, KeysMoveByApproval
<1> QED  BY <1>2, <1>3, <1>4, <1>5

LEMMA KeysStep ==
  ASSUME part = "keys", ~Crosses, KeysStand, KeyRequestsKnow, KeysNext
  PROVE  KeysStand' /\ KeyRequestsKnow'
BY KeysBegin, KeysWritten DEF KeysNext

LEMMA KeysStart == KeysInit => KeysStand /\ KeyRequestsKnow
<1> SUFFICES ASSUME KeysInit PROVE KeysStand /\ KeyRequestsKnow
  OBVIOUS
<1>1. \A status : In(status) = {}
  BY DEF KeysInit, In
<1>2. KeysStand
  BY <1>1 DEF KeysInit, KeysStand, KeysTypeOK, KeysMoveByApproval
<1>3. KeyRequestsKnow
  BY KeyIdle DEF KeysInit, NobodyServed, KeyRequestsKnow, Serving
<1> QED  BY <1>2, <1>3

LEMMA KeysKeepTheirWord ==
  ASSUME KeysStand
  PROVE  KeysMoveByApproval /\ OneRequestWaits
<1>1. CASE In("pending") = {}
  BY <1>1, FS_EmptySet DEF KeysStand, OneRequestWaits
<1>2. CASE In("pending") # {}
  <2>1. PICK i : In("pending") = {i}
    BY <1>2 DEF KeysStand
  <2>2. Cardinality({i}) = 1
    BY FS_Singleton
  <2> QED  BY <2>1, <2>2 DEF KeysStand, OneRequestWaits
<1> QED  BY <1>1, <1>2

-----------------------------------------------------------------------------
(* Files, their rows, and the orders that need them.                       *)

DocumentRequest ==
    {Idle} \cup [on : {"upload", "order", "delete", "purge", "purged"}, docs : SUBSET Docs]

\* What a request found of a document, and what it has done to its file since: true as
\* long as no other request is about it.
Found(on, row, has, ordered, print) ==
    /\ on = "upload" => row = "none" /\ has
    /\ on = "order" => row = "ready" /\ has /\ ordered \in {"none", "over"}
    /\ on = "delete" => row \in {"ready", "expired"} /\ ~has /\ ordered = "none"
    /\ on = "purge" => row = "ready" /\ has /\ print # "open"
    /\ on = "purged" => row = "ready" /\ ~has /\ print # "open"

\* What is to be paid or printed is ready, and a print that is open has its file.
Fits(row, has, ordered, print) ==
    /\ ordered = "placed" => row = "ready"
    /\ print = "open" => row = "ready" /\ has /\ ordered = "paid"

DocsOf(request) == IF request = Idle THEN {} ELSE request.docs
Knows(s, d) == Found(session[s].on, rows[d], d \in files, order[d], task[d])
Alone(s, d) == \A r \in Sessions \ {s} : d \notin DocsOf(session[r])

DocumentsStand ==
    /\ DocumentsTypeOK /\ session \in [Sessions -> DocumentRequest]
    /\ \A d \in Docs :
          /\ Fits(rows[d], d \in files, order[d], task[d])
          /\ (\A s \in Sessions : d \notin DocsOf(session[s])) => (d \in files <=> rows[d] = "ready")
    /\ \A s \in Sessions : \A d \in DocsOf(session[s]) : Alone(s, d) => Knows(s, d)

\* Two requests are not about one document, and no file goes whose order is to be paid.
Uncrossed ==
    \A s \in Sessions : \A d \in DocsOf(session[s]) :
        /\ Alone(s, d)
        /\ session[s].on \in {"purge", "purged", "delete"} => order[d] # "placed"

LEMMA DocumentIdle ==
  /\ Idle \in DocumentRequest /\ DocsOf(Idle) = {} /\ Idle.on = "nothing"
  /\ \A on, docs : /\ [on |-> on, docs |-> docs] # Idle
                   /\ DocsOf([on |-> on, docs |-> docs]) = docs
BY DEF DocumentRequest, DocsOf, Idle

LEMMA DocumentsUncrossed ==
  ASSUME DocumentsStand, part = "documents", ~Crosses
  PROVE  Uncrossed
<1>1. \A s \in Busy : About(s) = session[s].docs /\ DocsOf(session[s]) = session[s].docs
  BY DEF About, Busy, DocsOf
<1>2. \A s \in Sessions : \A d \in DocsOf(session[s]) : s \in Busy
  BY DEF Busy, DocsOf
<1>3. \A s, r \in Busy : s # r => session[s].docs \cap session[r].docs = {}
  BY <1>1 DEF Crosses
<1>4. \A s \in Sessions : \A d \in DocsOf(session[s]) : Alone(s, d)
  BY <1>1, <1>2, <1>3 DEF Alone
<1>5. \A s \in Sessions : \A d \in DocsOf(session[s]) :
          session[s].on \in {"purge", "purged", "delete"} => order[d] # "placed"
  BY <1>1, <1>2 DEF Crosses, DeletedUnderAnOrder
<1> QED  BY <1>4, <1>5 DEF Uncrossed

\* A step of a request that changes the documents in D: what it held and gives back, what
\* it takes up, or both.
LEMMA DocumentStep ==
  ASSUME DocumentsStand, Uncrossed, DocumentsTypeOK', NEW s \in Sessions, NEW D \in SUBSET Docs,
         NEW new \in DocumentRequest, session' = [session EXCEPT ![s] = new],
         D \subseteq DocsOf(session[s]) \cup DocsOf(new), DocsOf(session[s]) \ DocsOf(new) \subseteq D,
         \A d \in Docs \ D : /\ rows'[d] = rows[d] /\ (d \in files' <=> d \in files)
                             /\ order'[d] = order[d] /\ task'[d] = task[d],
         \A d \in D : /\ Fits(rows'[d], d \in files', order'[d], task'[d])
                      /\ d \notin DocsOf(new) => (d \in files' <=> rows'[d] = "ready"),
         \A d \in DocsOf(new) : (\A r \in Sessions \ {s} : d \notin DocsOf(session[r])) =>
             Found(new.on, rows'[d], d \in files', order'[d], task'[d])
  PROVE  DocumentsStand'
<1>1. /\ session' \in [Sessions -> DocumentRequest] /\ session'[s] = new
      /\ \A r \in Sessions \ {s} : session'[r] = session[r]
  BY DEF DocumentsStand
<1>2. \A d \in Docs : Fits(rows'[d], d \in files', order'[d], task'[d])
  <2>1. TAKE d \in Docs
  <2>2. CASE d \in D  BY <2>2
  <2>3. CASE d \notin D
    BY <2>3 DEF DocumentsStand, Fits
  <2> QED  BY <2>2, <2>3
<1>3. \A d \in Docs : (\A r \in Sessions : d \notin DocsOf(session'[r])) =>
          (d \in files' <=> rows'[d] = "ready")
  <2>1. SUFFICES ASSUME NEW d \in Docs, \A r \in Sessions : d \notin DocsOf(session'[r])
                 PROVE  d \in files' <=> rows'[d] = "ready"
    OBVIOUS
  <2>2. d \notin DocsOf(new)
    BY <1>1, <2>1
  <2>3. CASE d \in D  BY <2>2, <2>3
  <2>4. CASE d \notin D
    <3>1. \A r \in Sessions : d \notin DocsOf(session[r])
      BY <1>1, <2>1, <2>2, <2>4
    <3> QED  BY <2>4, <3>1 DEF DocumentsStand
  <2> QED  BY <2>3, <2>4
<1>4. \A r \in Sessions : \A d \in DocsOf(session'[r]) : Alone(r, d)' => Knows(r, d)'
  <2>1. SUFFICES ASSUME NEW r \in Sessions, NEW d \in DocsOf(session'[r]), Alone(r, d)'
                 PROVE  Found(session'[r].on, rows'[d], d \in files', order'[d], task'[d])
    BY DEF Knows
  <2>2. d \in Docs
    BY <1>1, <2>1 DEF DocumentRequest, DocsOf
  <2>3. CASE r = s
    <3>1. \A q \in Sessions \ {s} : d \notin DocsOf(session[q])
      BY <1>1, <2>1, <2>3 DEF Alone
    <3> QED  BY <1>1, <2>1, <2>3, <3>1
  <2>4. CASE r # s
    <3>1. d \in DocsOf(session[r]) /\ session'[r] = session[r] /\ d \notin DocsOf(new)
      BY <1>1, <2>1, <2>4 DEF Alone
    <3>2. d \notin DocsOf(session[s])
      BY <2>4, <3>1 DEF Uncrossed, Alone
    <3>3. d \notin D
      BY <3>1, <3>2
    <3>4. Knows(r, d)
      BY <3>1 DEF Uncrossed, DocumentsStand
    <3> QED  BY <2>2, <3>1, <3>3, <3>4 DEF Knows, Found
  <2> QED  BY <2>3, <2>4
<1> QED  BY <1>1, <1>2, <1>3, <1>4 DEF DocumentsStand

\* A step of the payment, the machine or the clock on one document.
LEMMA DocumentEvent ==
  ASSUME DocumentsStand, Uncrossed, DocumentsTypeOK', NEW d \in Docs,
         session' = session, rows' = rows, files' = files,
         \A e \in Docs \ {d} : order'[e] = order[e] /\ task'[e] = task[e],
         Fits(rows[d], d \in files, order'[d], task'[d]),
         \A s \in Sessions : d \in DocsOf(session[s]) /\ Knows(s, d) =>
             Found(session[s].on, rows[d], d \in files, order'[d], task'[d])
  PROVE  DocumentsStand'
<1>1. \A e \in Docs : Fits(rows'[e], e \in files', order'[e], task'[e])
  <2>1. TAKE e \in Docs
  <2>2. CASE e = d  BY <2>2
  <2>3. CASE e # d  BY <2>3 DEF DocumentsStand
  <2> QED  BY <2>2, <2>3
<1>2. \A e \in Docs : (\A s \in Sessions : e \notin DocsOf(session'[s])) =>
          (e \in files' <=> rows'[e] = "ready")
  BY DEF DocumentsStand
<1>3. \A s \in Sessions : \A e \in DocsOf(session'[s]) : Alone(s, e)' => Knows(s, e)'
  <2>1. SUFFICES ASSUME NEW s \in Sessions, NEW e \in DocsOf(session[s])
                 PROVE  Found(session[s].on, rows[e], e \in files, order'[e], task'[e])
    BY DEF Knows
  <2>2. e \in Docs /\ Knows(s, e)
    BY DEF DocumentsStand, DocumentRequest, DocsOf, Uncrossed
  <2>3. CASE e = d  BY <2>1, <2>2, <2>3
  <2>4. CASE e # d  BY <2>2, <2>4 DEF Knows
  <2> QED  BY <2>3, <2>4
<1> QED  BY <1>1, <1>2, <1>3 DEF DocumentsStand

\* Rows as an action finds them.
LEMMA DocumentRows ==
  ASSUME DocumentsStand
  PROVE  /\ \A d \in Docs : /\ rows[d] \in {"none", "ready", "expired", "deleted"}
                            /\ order[d] \in {"none", "placed", "paid", "over"}
                            /\ task[d] \in {"none", "open", "done"}
                            /\ rows[d] \in {"none", "deleted"} => order[d] = "none"
                            /\ order[d] = "none" => task[d] = "none"
                            /\ Fits(rows[d], d \in files, order[d], task[d])
         /\ \A s \in Sessions : DocsOf(session[s]) \in SUBSET Docs /\ session[s] \in DocumentRequest
<1>1. \A s \in Sessions : session[s] \in DocumentRequest
  BY DEF DocumentsStand
<1>2. \A s \in Sessions : DocsOf(session[s]) \in SUBSET Docs
  BY <1>1 DEF DocumentRequest, DocsOf
<1> QED  BY <1>1, <1>2 DEF DocumentsStand, DocumentsTypeOK

\* What a request that is about to write knows of the documents it writes.
LEMMA DocumentServed ==
  ASSUME DocumentsStand, Uncrossed, NEW s \in Sessions,
         session[s].on \in {"upload", "order", "delete", "purge", "purged"}
  PROVE  /\ session[s].docs = DocsOf(session[s]) /\ session[s].docs \in SUBSET Docs
         /\ \A d \in session[s].docs : Knows(s, d)
<1>1. session[s] # Idle
  BY DEF Idle
<1>2. session[s].docs = DocsOf(session[s])
  BY <1>1 DEF DocsOf
<1> QED  BY <1>2, DocumentRows DEF Uncrossed, DocumentsStand

\* A document nobody is about has a file if it is ready.
LEMMA DocumentFree ==
  ASSUME DocumentsStand, NEW s \in Sessions, session[s] = Idle, NEW d \in Docs,
         \A r \in Sessions \ {s} : d \notin DocsOf(session[r])
  PROVE  d \in files <=> rows[d] = "ready"
BY DocumentIdle DEF DocumentsStand

LEMMA DocumentsBegin ==
  ASSUME DocumentsStand, Uncrossed, NEW s \in Sessions,
         \/ \E d \in Docs : CreateDocument(s, d) \/ OrderDocument(s, d) \/ DeleteDocument(s, d)
         \/ PurgeExpiredFiles(s)
  PROVE  DocumentsStand'
<1>1. session[s] = Idle /\ DocsOf(session[s]) = {}
  BY DocumentIdle DEF CreateDocument, OrderDocument, DeleteDocument, PurgeExpiredFiles, Start
<1>2. ASSUME NEW d \in Docs, CreateDocument(s, d) PROVE DocumentsStand'
  <2> DEFINE new == [on |-> "upload", docs |-> {d}]
  <2>1. /\ new \in DocumentRequest /\ DocsOf(new) = {d} /\ new.on = "upload"
        /\ session' = [session EXCEPT ![s] = new]
    BY <1>2, DocumentIdle DEF CreateDocument, Start, DocumentRequest
  <2> HIDE DEF new
  <2>2. /\ rows' = rows /\ order' = order /\ task' = task /\ files' = files \cup {d}
        /\ old' = old /\ rows[d] = "none" /\ d \notin files
    BY <1>2 DEF CreateDocument
  <2>3. DocumentsTypeOK'
    BY <2>2 DEF DocumentsStand, DocumentsTypeOK
  <2>4. \A e \in {d} : Fits(rows'[e], e \in files', order'[e], task'[e])
    BY <2>2, DocumentRows DEF Fits
  <2>5. \A e \in DocsOf(new) : Found(new.on, rows'[e], e \in files', order'[e], task'[e])
    BY <2>1, <2>2 DEF Found
  <2>6. \A e \in Docs \ {d} : /\ rows'[e] = rows[e] /\ (e \in files' <=> e \in files)
                              /\ order'[e] = order[e] /\ task'[e] = task[e]
    BY <2>2
  <2>7. {d} \in SUBSET Docs /\ {d} \subseteq DocsOf(session[s]) \cup DocsOf(new)
        /\ DocsOf(session[s]) \ DocsOf(new) \subseteq {d}
    BY <1>1, <2>1
  <2>8. \A e \in {d} : e \notin DocsOf(new) => (e \in files' <=> rows'[e] = "ready")
    BY <2>1
  <2> QED  BY <2>1, <2>3, <2>4, <2>5, <2>6, <2>7, <2>8, DocumentStep
<1>3. ASSUME NEW d \in Docs, OrderDocument(s, d) PROVE DocumentsStand'
  <2> DEFINE new == [on |-> "order", docs |-> {d}]
  <2>1. /\ new \in DocumentRequest /\ DocsOf(new) = {d} /\ new.on = "order"
        /\ session' = [session EXCEPT ![s] = new]
    BY <1>3, DocumentIdle DEF OrderDocument, Start, DocumentRequest
  <2> HIDE DEF new
  <2>2. /\ rows' = rows /\ order' = order /\ task' = task /\ files' = files
        /\ old' = old /\ rows[d] = "ready" /\ order[d] \in {"none", "over"}
    BY <1>3 DEF OrderDocument
  <2>3. DocumentsTypeOK'
    BY <2>2 DEF DocumentsStand, DocumentsTypeOK
  <2>4. \A e \in {d} : Fits(rows'[e], e \in files', order'[e], task'[e])
    BY <2>2, DocumentRows
  <2>5. \A e \in DocsOf(new) : (\A r \in Sessions \ {s} : e \notin DocsOf(session[r])) =>
            Found(new.on, rows'[e], e \in files', order'[e], task'[e])
    BY <1>1, <2>1, <2>2, DocumentFree DEF Found
  <2> QED  BY <1>1, <2>1, <2>2, <2>3, <2>4, <2>5, DocumentStep
<1>4. ASSUME NEW d \in Docs, DeleteDocument(s, d) PROVE DocumentsStand'
  <2> DEFINE new == [on |-> "delete", docs |-> {d}]
  <2>1. /\ new \in DocumentRequest /\ DocsOf(new) = {d} /\ new.on = "delete"
        /\ session' = [session EXCEPT ![s] = new]
    BY <1>4, DocumentIdle DEF DeleteDocument, Start, DocumentRequest
  <2> HIDE DEF new
  <2>2. /\ rows' = rows /\ order' = order /\ task' = task /\ files' = files \ {d}
        /\ rows[d] \in {"ready", "expired"} /\ order[d] = "none" /\ task[d] = "none"
    BY <1>4 DEF DeleteDocument
  <2>3. DocumentsTypeOK'
    BY <1>4, <2>2 DEF DocumentsStand, DocumentsTypeOK, DeleteDocument
  <2>4. \A e \in {d} : Fits(rows'[e], e \in files', order'[e], task'[e])
    BY <2>2 DEF Fits
  <2>5. \A e \in DocsOf(new) : Found(new.on, rows'[e], e \in files', order'[e], task'[e])
    BY <2>1, <2>2 DEF Found
  <2> QED  BY <1>1, <2>1, <2>2, <2>3, <2>4, <2>5, DocumentStep
<1>5. ASSUME PurgeExpiredFiles(s) PROVE DocumentsStand'
  <2> DEFINE new == [on |-> "purge", docs |-> Stale]
  <2>1. Stale \in SUBSET Docs /\ \A d \in Stale : rows[d] = "ready" /\ task[d] # "open"
    BY DEF Stale, DocumentsStand, DocumentsTypeOK
  <2>2. /\ new \in DocumentRequest /\ DocsOf(new) = Stale /\ new.on = "purge"
        /\ session' = [session EXCEPT ![s] = new]
    BY <1>5, <2>1, DocumentIdle DEF PurgeExpiredFiles, Start, DocumentRequest
  <2> HIDE DEF new
  <2>3. rows' = rows /\ order' = order /\ task' = task /\ files' = files /\ old' = old
    BY <1>5 DEF PurgeExpiredFiles
  <2>4. DocumentsTypeOK'
    BY <2>3 DEF DocumentsStand, DocumentsTypeOK
  <2>5. \A e \in DocsOf(new) : (\A r \in Sessions \ {s} : e \notin DocsOf(session[r])) =>
            Found(new.on, rows'[e], e \in files', order'[e], task'[e])
    BY <1>1, <2>1, <2>2, <2>3, DocumentFree DEF Found
  <2> QED  BY <1>1, <2>2, <2>3, <2>4, <2>5, DocumentStep
<1> QED  BY <1>2, <1>3, <1>4, <1>5

LEMMA DocumentsWrite ==
  ASSUME DocumentsStand, Uncrossed, NEW s \in Sessions,
         \/ WriteDocument(s) \/ WriteOrder(s) \/ WriteDelete(s)
         \/ DeleteFiles(s) \/ WritePurged(s)
  PROVE  DocumentsStand'
<1> DEFINE D == session[s].docs
<1>1. session[s].on \in {"upload", "order", "delete", "purge", "purged"}
  BY DEF WriteDocument, WriteOrder, WriteDelete, DeleteFiles, WritePurged, Serving
<1>2. D = DocsOf(session[s]) /\ D \in SUBSET Docs /\ \A d \in D : Knows(s, d)
  BY <1>1, DocumentServed
<1>3. \A d \in D : session[s].on \in {"purge", "purged", "delete"} => order[d] # "placed"
  BY <1>2 DEF Uncrossed
<1>4. Idle \in DocumentRequest /\ DocsOf(Idle) = {}
  BY DocumentIdle
<1> HIDE DEF D
<1>5. CASE WriteDocument(s)
  <2>1. \A d \in D : rows[d] = "none" /\ d \in files
    BY <1>2, <1>5 DEF WriteDocument, Serving, Knows, Found
  <2>2. /\ rows' = [d \in Docs |-> IF d \in D THEN "ready" ELSE rows[d]]
        /\ order' = order /\ task' = task /\ files' = files /\ old' = old
        /\ session' = [session EXCEPT ![s] = Idle]
    BY <1>5 DEF WriteDocument, Finish, D
  <2>3. DocumentsTypeOK'
    BY <1>2, <2>1, <2>2 DEF DocumentsStand, DocumentsTypeOK
  <2>4. \A d \in D : /\ Fits(rows'[d], d \in files', order'[d], task'[d])
                     /\ d \in files' <=> rows'[d] = "ready"
    BY <1>2, <2>1, <2>2, DocumentRows DEF Fits
  <2> QED  BY <1>2, <1>4, <2>2, <2>3, <2>4, DocumentStep
<1>6. CASE WriteOrder(s)
  <2>1. \A d \in D : rows[d] = "ready" /\ d \in files /\ task[d] # "open"
    BY <1>2, <1>6, DocumentRows DEF WriteOrder, Serving, Knows, Found, Fits
  <2>2. /\ order' = [d \in Docs |-> IF d \in D THEN "placed" ELSE order[d]]
        /\ rows' = rows /\ task' = task /\ files' = files /\ old' = old
        /\ session' = [session EXCEPT ![s] = Idle]
    BY <1>6 DEF WriteOrder, Finish, D
  <2>3. DocumentsTypeOK'
    BY <1>2, <2>1, <2>2 DEF DocumentsStand, DocumentsTypeOK
  <2>4. \A d \in D : /\ Fits(rows'[d], d \in files', order'[d], task'[d])
                     /\ d \in files' <=> rows'[d] = "ready"
    BY <1>2, <2>1, <2>2 DEF Fits
  <2> QED  BY <1>2, <1>4, <2>2, <2>3, <2>4, DocumentStep
<1>7. CASE WriteDelete(s)
  <2>1. \A d \in D : d \notin files /\ order[d] = "none" /\ task[d] = "none"
    BY <1>2, <1>7, DocumentRows DEF WriteDelete, Serving, Knows, Found
  <2>2. /\ rows' = [d \in Docs |-> IF d \in D THEN "deleted" ELSE rows[d]]
        /\ order' = order /\ task' = task /\ files' = files /\ old' = old
        /\ session' = [session EXCEPT ![s] = Idle]
    BY <1>7 DEF WriteDelete, Finish, D
  <2>3. DocumentsTypeOK'
    BY <1>2, <2>1, <2>2 DEF DocumentsStand, DocumentsTypeOK
  <2>4. \A d \in D : /\ Fits(rows'[d], d \in files', order'[d], task'[d])
                     /\ d \in files' <=> rows'[d] = "ready"
    BY <1>2, <2>1, <2>2 DEF Fits
  <2> QED  BY <1>2, <1>4, <2>2, <2>3, <2>4, DocumentStep
<1>8. CASE DeleteFiles(s)
  <2> DEFINE new == [session[s] EXCEPT !.on = "purged"]
  <2>1. \A d \in D : rows[d] = "ready" /\ task[d] # "open"
    BY <1>2, <1>8 DEF DeleteFiles, Serving, Knows, Found
  <2>2. session[s] \in [on : {"upload", "order", "delete", "purge", "purged"}, docs : SUBSET Docs]
    BY <1>1, DocumentRows DEF DocumentRequest, Idle
  <2>3. new = [on |-> "purged", docs |-> D]
    BY <2>2 DEF D
  <2>4. /\ new \in DocumentRequest /\ DocsOf(new) = D /\ new.on = "purged"
    BY <1>2, <2>3, DocumentIdle DEF DocumentRequest
  <2>5. /\ rows' = rows /\ order' = order /\ task' = task /\ files' = files \ D /\ old' = old
        /\ session' = [session EXCEPT ![s] = new]
    BY <1>8 DEF DeleteFiles, D
  <2> HIDE DEF new
  <2>6. DocumentsTypeOK'
    BY <2>5 DEF DocumentsStand, DocumentsTypeOK
  <2>7. \A d \in D : Fits(rows'[d], d \in files', order'[d], task'[d])
    BY <1>2, <2>1, <2>5 DEF Fits
  <2>8. \A d \in DocsOf(new) : Found(new.on, rows'[d], d \in files', order'[d], task'[d])
    BY <2>1, <2>4, <2>5 DEF Found
  <2> QED  BY <1>2, <2>4, <2>5, <2>6, <2>7, <2>8, DocumentStep
<1>9. CASE WritePurged(s)
  <2>1. \A d \in D : d \notin files /\ task[d] # "open" /\ order[d] # "placed" /\ rows[d] = "ready"
    BY <1>2, <1>3, <1>9 DEF WritePurged, Serving, Knows, Found
  <2>2. /\ rows' = [d \in Docs |-> IF d \in D THEN "expired" ELSE rows[d]]
        /\ order' = order /\ task' = task /\ files' = files /\ old' = old
        /\ session' = [session EXCEPT ![s] = Idle]
    BY <1>9 DEF WritePurged, Finish, D
  <2>3. DocumentsTypeOK'
    BY <1>2, <2>1, <2>2 DEF DocumentsStand, DocumentsTypeOK
  <2>4. \A d \in D : /\ Fits(rows'[d], d \in files', order'[d], task'[d])
                     /\ d \in files' <=> rows'[d] = "ready"
    BY <1>2, <2>1, <2>2 DEF Fits
  <2> QED  BY <1>2, <1>4, <2>2, <2>3, <2>4, DocumentStep
<1> QED  BY <1>5, <1>6, <1>7, <1>8, <1>9

\* A worker that dies with nothing of it on the disk, or has not touched the file yet.
LEMMA DocumentsRoll ==
  ASSUME DocumentsStand, Uncrossed, part = "documents", ~LeavesTheDisk, NEW s \in Sessions,
         DocumentFails(s)
  PROVE  DocumentsStand'
<1> DEFINE D == DocsOf(session[s])
<1>1. session[s] # Idle /\ session[s].on \notin {"upload", "delete", "purged"}
  BY DEF DocumentFails, GiveUp, LeavesTheDisk, Busy
<1>2. session[s].on \in {"order", "purge"}
  BY <1>1, DocumentRows DEF DocumentRequest
<1>3. D \in SUBSET Docs /\ \A d \in D : rows[d] = "ready" /\ d \in files
  BY <1>2, DocumentServed DEF Knows, Found
<1>4. Idle \in DocumentRequest /\ DocsOf(Idle) = {} /\ session' = [session EXCEPT ![s] = Idle]
      /\ rows' = rows /\ order' = order /\ task' = task /\ files' = files /\ old' = old
  BY DocumentIdle DEF DocumentFails, GiveUp, Finish
<1>5. DocumentsTypeOK'
  BY <1>4 DEF DocumentsStand, DocumentsTypeOK
<1>6. \A d \in D : /\ Fits(rows'[d], d \in files', order'[d], task'[d])
                   /\ d \in files' <=> rows'[d] = "ready"
  BY <1>3, <1>4, DocumentRows
<1> HIDE DEF D
<1> QED  BY <1>3, <1>4, <1>5, <1>6, DocumentStep DEF D

LEMMA DocumentsTime ==
  ASSUME DocumentsStand, Uncrossed, NEW d \in Docs,
         Settle(d) \/ ExpireUnpaid(d) \/ FinishTask(d) \/ Age(d)
  PROVE  DocumentsStand'
<1>1. /\ order \in [Docs -> {"none", "placed", "paid", "over"}] /\ session' = session
      /\ task \in [Docs -> {"none", "open", "done"}] /\ rows' = rows /\ files' = files
  BY DEF DocumentsStand, DocumentsTypeOK, Settle, ExpireUnpaid, FinishTask, Age
<1>2. \A s \in Sessions : d \in DocsOf(session[s]) /\ order[d] = "placed" => ~Knows(s, d)
  <2>1. SUFFICES ASSUME NEW s \in Sessions, d \in DocsOf(session[s]), order[d] = "placed",
                        Knows(s, d)
                 PROVE  FALSE
    OBVIOUS
  <2>2. session[s].on \in {"upload", "order", "delete", "purge", "purged"}
    BY <2>1, DocumentRows, DocumentIdle DEF DocumentRequest, DocsOf
  <2>3. session[s].on \notin {"purge", "purged", "delete"}
    BY <2>1 DEF Uncrossed
  <2> QED  BY <2>1, <2>2, <2>3, DocumentRows DEF Knows, Found, Fits
<1>3. CASE Settle(d)
  <2>1. /\ order[d] = "placed" /\ order' = [order EXCEPT ![d] = "paid"]
        /\ task' = [task EXCEPT ![d] = "open"] /\ old' = old
    BY <1>3 DEF Settle
  <2>2. DocumentsTypeOK'
    BY <1>1, <2>1, DocumentRows DEF DocumentsStand, DocumentsTypeOK
  <2>3. rows[d] = "ready" /\ d \in files
    <3>1. rows[d] = "ready"
      BY <2>1, DocumentRows DEF Fits
    <3>2. \A s \in Sessions : d \notin DocsOf(session[s])
      BY <1>2, <2>1 DEF Uncrossed, DocumentsStand
    <3> QED  BY <3>1, <3>2 DEF DocumentsStand
  <2>4. Fits(rows[d], d \in files, order'[d], task'[d])
    BY <1>1, <2>1, <2>3 DEF Fits
  <2>5. \A e \in Docs \ {d} : order'[e] = order[e] /\ task'[e] = task[e]
    BY <1>1, <2>1
  <2> QED  BY <1>1, <1>2, <2>1, <2>2, <2>4, <2>5, DocumentEvent
<1>4. CASE ExpireUnpaid(d)
  <2>1. order[d] = "placed" /\ order' = [order EXCEPT ![d] = "over"] /\ task' = task /\ old' = old
    BY <1>4 DEF ExpireUnpaid
  <2>2. DocumentsTypeOK'
    BY <1>1, <2>1, DocumentRows DEF DocumentsStand, DocumentsTypeOK
  <2>3. Fits(rows[d], d \in files, order'[d], task'[d])
    BY <1>1, <2>1, DocumentRows DEF Fits
  <2>4. \A e \in Docs \ {d} : order'[e] = order[e] /\ task'[e] = task[e]
    BY <1>1, <2>1
  <2> QED  BY <1>1, <1>2, <2>1, <2>2, <2>3, <2>4, DocumentEvent
<1>5. CASE FinishTask(d)
  <2>1. /\ task[d] = "open" /\ order' = [order EXCEPT ![d] = "over"]
        /\ task' = [task EXCEPT ![d] = "done"] /\ old' = old
    BY <1>5 DEF FinishTask
  <2>2. order[d] # "none"
    BY <2>1, DocumentRows
  <2>3. DocumentsTypeOK'
    BY <1>1, <2>1, <2>2 DEF DocumentsStand, DocumentsTypeOK
  <2>4. Fits(rows[d], d \in files, order'[d], task'[d])
    BY <1>1, <2>1 DEF Fits
  <2>5. \A e \in Docs \ {d} : order'[e] = order[e] /\ task'[e] = task[e]
    BY <1>1, <2>1
  <2>6. \A s \in Sessions : d \in DocsOf(session[s]) /\ Knows(s, d) =>
            Found(session[s].on, rows[d], d \in files, order'[d], task'[d])
    BY <1>1, <2>1, <2>2, DocumentRows DEF Knows, Found, Fits
  <2> QED  BY <1>1, <2>3, <2>4, <2>5, <2>6, DocumentEvent
<1>6. CASE Age(d)
  <2>1. order' = order /\ task' = task /\ old' = old \cup {d}
    BY <1>6 DEF Age
  <2>2. DocumentsTypeOK'
    BY <1>1, <2>1 DEF DocumentsStand, DocumentsTypeOK
  <2>3. Fits(rows[d], d \in files, order'[d], task'[d])
    BY <2>1, DocumentRows
  <2> QED  BY <1>1, <2>1, <2>2, <2>3, DocumentEvent DEF Knows
<1> QED  BY <1>3, <1>4, <1>5, <1>6

LEMMA DocumentsStep ==
  ASSUME DocumentsStand, part = "documents", ~Crosses, ~LeavesTheDisk, DocumentsNext
  PROVE  DocumentsStand'
<1>1. Uncrossed
  BY DocumentsUncrossed
<1> QED  BY <1>1, DocumentsTime, DocumentsBegin, DocumentsWrite, DocumentsRoll DEF DocumentsNext

LEMMA DocumentsStart == DocumentsInit => DocumentsStand
<1> SUFFICES ASSUME DocumentsInit PROVE DocumentsStand
  OBVIOUS
<1>1. DocumentsTypeOK /\ \A d \in Docs : Fits(rows[d], d \in files, order[d], task[d])
  BY DEF DocumentsInit, DocumentsTypeOK, Fits
<1>2. session \in [Sessions -> DocumentRequest] /\ \A s \in Sessions : DocsOf(session[s]) = {}
  BY DocumentIdle DEF DocumentsInit, NobodyServed
<1> QED  BY <1>1, <1>2 DEF DocumentsInit, DocumentsStand

LEMMA DocumentsKeepTheirWord ==
  ASSUME DocumentsStand
  PROVE  PaidPrintsHaveTheirFile /\ FilesFollowRows
<1>1. PaidPrintsHaveTheirFile
  BY DEF DocumentsStand, Fits, PaidPrintsHaveTheirFile
<1>2. \A s \in Sessions : DocsOf(session[s]) = IF session[s] = Idle THEN {} ELSE session[s].docs
  BY DEF DocsOf
<1>3. FilesFollowRows
  BY <1>2 DEF DocumentsStand, FilesFollowRows
<1> QED  BY <1>1, <1>3

-----------------------------------------------------------------------------
(* All of them on one server.                                              *)

\* As long as nothing has crossed, what is used once stands, and so do the files.
RequestsInv ==
    ~crossed => /\ LinksStand /\ (part = "links" => LinkRequestsKnow)
                /\ KeysStand /\ (part = "keys" => KeyRequestsKnow)
                /\ part = "documents" => DocumentsStand

LEMMA RequestsStart == MCInit => RequestsInv
BY LinksStart, KeysStart, DocumentsStart DEF MCInit, RequestsInv

LEMMA RequestsStep == RequestsInv /\ [MCNext]_vars => RequestsInv'
<1> SUFFICES ASSUME RequestsInv, [MCNext]_vars, ~crossed' PROVE RequestsInv'
  BY DEF RequestsInv
<1>1. ASSUME linkRows' = linkRows PROVE UNCHANGED <<links, barred, holder, staff, uses, left>>
  BY <1>1 DEF linkRows
<1>2. ASSUME keyRows' = keyRows PROVE UNCHANGED <<config, changes, requests>>
  BY <1>2 DEF keyRows
<1>3. ASSUME LinksStand, linkRows' = linkRows PROVE LinksStand'
  BY <1>1, <1>3 DEF LinksStand, LinksTypeOK, StaffWereInvitedSince, NewestMachineHolds
<1>4. ASSUME KeysStand, keyRows' = keyRows PROVE KeysStand'
  BY <1>2, <1>4 DEF KeysStand, KeysTypeOK, In, KeysMoveByApproval
<1>5. CASE MCNext
  <2>1. /\ ~crossed /\ ~Crosses /\ ~LeavesTheDisk /\ part' = part
        /\ part # "links" => linkRows' = linkRows
        /\ part # "keys" => keyRows' = keyRows
    BY <1>5 DEF MCNext, Elsewhere, Still
  <2>2. LinksStand /\ KeysStand
    BY <2>1 DEF RequestsInv
  <2>3. CASE part = "links"
    BY <1>4, <1>5, <2>1, <2>2, <2>3, LinksStep DEF MCNext, RequestsInv
  <2>4. CASE part = "keys"
    BY <1>3, <1>5, <2>1, <2>2, <2>4, KeysStep DEF MCNext, RequestsInv
  <2>5. CASE part = "documents"
    BY <1>3, <1>4, <1>5, <2>1, <2>2, <2>5, DocumentsStep DEF MCNext, RequestsInv
  <2>6. CASE part \notin {"links", "keys", "documents"}
    BY <1>3, <1>4, <2>1, <2>2, <2>6 DEF RequestsInv
  <2> QED  BY <2>3, <2>4, <2>5, <2>6
<1>6. CASE UNCHANGED vars
  BY <1>3, <1>4, <1>6
  DEF vars, RequestsInv, linkRows, keyRows, documentRows, LinkRequestsKnow, LinkRequest,
      KeyRequestsKnow, KeyRequest, In, DocumentsStand, DocumentsTypeOK, Alone, Knows, Serving
<1> QED  BY <1>5, <1>6

\* Of requests about the same thing served one after the other, any number of them: a link,
\* a code and an invitation work once, and only the newest; a machine installed later is
\* not turned out by an older code, nobody works here who was not invited since they were
\* taken off, and an approval changes an owner's keys once (identity/tokens.py,
\* kiosks/devices.py, kiosks/staffing.py, payments/configs.py).
THEOREM RequestsWorkOnce == MCSpec => []WorkOnceUnlessCrossed
<1>1. RequestsInv => WorkOnceUnlessCrossed
  BY LinksKeepTheirWord, KeysKeepTheirWord DEF RequestsInv, WorkOnceUnlessCrossed
<1> QED  BY <1>1, RequestsStart, RequestsStep, PTL DEF MCSpec

\* A paid print finds its file, and files and rows agree, for any number of documents, as
\* long as nothing crosses (documents/service.py, documents/retention.py).
THEOREM RequestsKeepTheFiles == MCSpec => []FilesStandUnlessCrossed
<1>1. RequestsInv => FilesStandUnlessCrossed
  BY DocumentsKeepTheirWord DEF RequestsInv, FilesStandUnlessCrossed
<1> QED  BY <1>1, RequestsStart, RequestsStep, PTL DEF MCSpec

\* The commands, whatever else the server does.
AskedInv ==
    IF part = "commands"
    THEN CommandsInv /\ NobodySleepsOnWork /\ (~crossed => CommandsApart)
    ELSE commands = <<>>

LEMMA AskedStart == MCInit => AskedInv
<1> SUFFICES ASSUME MCInit PROVE AskedInv
  OBVIOUS
<1>1. CommandsInit /\ CommandsInv
  BY CommandsStart DEF MCInit
<1>2. commands = <<>> /\ DOMAIN commands = {}
  BY <1>1 DEF CommandsInit
<1>3. Waiting = {} /\ OpenCommands = {}
  BY <1>2 DEF Waiting, OpenCommands
<1>4. \A s \in Sessions : session[s].on = "nothing"
  BY <1>1 DEF CommandsInit, NobodyServed, Idle
<1>5. NobodySleepsOnWork /\ CommandsApart
  BY <1>3, <1>4 DEF NobodySleepsOnWork, CommandsApart, OneOfAKindWaits, Serving
<1> QED  BY <1>1, <1>2, <1>5 DEF AskedInv

\* What is over stays as it was reported, in such a step.
ResultsStay ==
    ~crossed => \A i \in DOMAIN commands :
                    i \notin OpenCommands => commands'[i].state = commands[i].state

LEMMA AskedStep == AskedInv /\ [MCNext]_vars => AskedInv' /\ [ResultsStay]_commandVars
<1> SUFFICES ASSUME AskedInv, [MCNext]_vars PROVE AskedInv' /\ [ResultsStay]_commandVars
  OBVIOUS
<1>1. CASE MCNext
  <2>1. /\ part' = part /\ crossed' = (crossed \/ Crosses \/ LeavesTheDisk)
        /\ part # "commands" => commandRows' = commandRows
    BY <1>1 DEF MCNext, Elsewhere, Still
  <2>2. CASE part = "commands"
    <3>1. CommandsNext /\ CommandsInv /\ NobodySleepsOnWork /\ (~crossed => CommandsApart)
      BY <1>1, <2>2 DEF MCNext, AskedInv
    <3>2. CommandsInv' /\ NobodySleepsOnWork'
      BY <3>1, CommandsStep, NobodyFallsAsleep
    <3>3. ~crossed' => CommandsApart'
      BY <2>1, <2>2, <3>1, CommandsStayApart
    <3>4. ResultsStay
      BY <2>2, <3>1, CommandsStayApart DEF ResultsStay
    <3> QED  BY <2>1, <2>2, <3>2, <3>3, <3>4 DEF AskedInv
  <2>3. CASE part # "commands"
    <3>1. commands' = commands /\ commands = <<>>
      BY <2>1, <2>3 DEF commandRows, rowVars, AskedInv
    <3> QED  BY <2>1, <2>3, <3>1 DEF AskedInv, ResultsStay
  <2> QED  BY <2>2, <2>3
<1>2. CASE UNCHANGED vars
  <2>1. /\ UNCHANGED <<commands, runs, enrolled, socket, woken, missed, session, part, crossed>>
        /\ UNCHANGED commandVars
    BY <1>2 DEF vars, commandRows, rowVars, wakeVars, commandVars
  <2>2. CommandsInv => CommandsInv'
    BY <2>1, CommandsStep
  <2>3. Waiting' = Waiting /\ Locked' = Locked /\ OpenCommands' = OpenCommands
    BY <2>1 DEF Waiting, Locked, OpenCommands, Serving
  <2>4. NobodySleepsOnWork => NobodySleepsOnWork'
    BY <2>1, <2>3 DEF NobodySleepsOnWork, Serving
  <2>5. CommandsApart => CommandsApart'
    BY <2>1, <2>3 DEF CommandsApart, OneOfAKindWaits, InTheWay, Serving
  <2> QED  BY <2>1, <2>2, <2>4, <2>5 DEF AskedInv
<1> QED  BY <1>1, <1>2

\* A machine that is asleep was not left with work it was to be told of; and of presses and
\* results one after the other one command of a kind waits, and the first result stands:
\* for any number of commands, requests and machines' claims at once (kiosks/commands.py).
THEOREM RequestsKeepTheCommands == MCSpec => CommandsStandUnlessCrossed
<1>1. AskedInv => NobodySleepsOnWork /\ (~crossed => OneOfAKindWaits)
  <2>1. commands = <<>> => Waiting = {} /\ OpenCommands = {}
    BY DEF Waiting, OpenCommands
  <2> QED  BY <2>1 DEF AskedInv, CommandsApart, NobodySleepsOnWork, OneOfAKindWaits
<1>2. MCSpec => []AskedInv
  BY AskedStart, AskedStep, PTL DEF MCSpec
<1>3. MCSpec => []NobodySleepsOnWork /\ [](~crossed => OneOfAKindWaits)
  BY <1>1, <1>2, PTL
<1>4. MCSpec => [][ResultsStay]_commandVars
  BY <1>2, AskedStep, PTL DEF MCSpec
<1> QED  BY <1>3, <1>4 DEF CommandsStandUnlessCrossed, ResultsStay

-----------------------------------------------------------------------------
(* The ceilings of a route.  What was let through is bounded by what was    *)
(* counted; both are counted by sets: of the hits of a bucket, one for each *)
(* counter and number it has passed, and of what was let through.          *)

SlotsOf(H, f, n) == {p \in H \X (1..n) : p[2] <= f[p[1]]}
PairsOf(S, f) == {p \in S \X Nat : p[2] \in 1..f[p[1]]}

LEMMA SlotsAreFinite ==
  ASSUME NEW H, IsFiniteSet(H), NEW f, NEW n \in Nat
  PROVE  /\ IsFiniteSet(SlotsOf(H, f, n)) /\ Cardinality(SlotsOf(H, f, n)) \in Nat
         /\ Cardinality(SlotsOf(H, f, n)) <= n * Cardinality(H)
<1>1. IsFiniteSet(1..n) /\ Cardinality(1..n) = n
  BY FS_Interval
<1>2. /\ IsFiniteSet(H \X (1..n))
      /\ Cardinality(H \X (1..n)) = Cardinality(H) * Cardinality(1..n)
  BY <1>1, FS_Product
<1>3. SlotsOf(H, f, n) \in SUBSET (H \X (1..n))
  BY DEF SlotsOf
<1>4. /\ IsFiniteSet(SlotsOf(H, f, n))
      /\ Cardinality(SlotsOf(H, f, n)) <= Cardinality(H \X (1..n))
  BY <1>2, <1>3, FS_Subset
<1>5. Cardinality(H) \in Nat /\ Cardinality(SlotsOf(H, f, n)) \in Nat
  BY <1>4, FS_CardinalityType
<1>6. Cardinality(H) * n = n * Cardinality(H)
  BY <1>5
<1> QED  BY <1>1, <1>2, <1>4, <1>5, <1>6

\* Counters only go up, and one that goes up below n takes a new slot of those.
LEMMA SlotsFillUp ==
  ASSUME NEW D, NEW H \in SUBSET D, IsFiniteSet(H), NEW n \in Nat,
         NEW f \in [D -> Nat], NEW g \in [D -> Nat], \A h \in D : f[h] <= g[h]
  PROVE  /\ Cardinality(SlotsOf(H, f, n)) <= Cardinality(SlotsOf(H, g, n))
         /\ \A h \in H : f[h] < g[h] /\ f[h] < n =>
                Cardinality(SlotsOf(H, f, n)) + 1 <= Cardinality(SlotsOf(H, g, n))
<1>1. /\ IsFiniteSet(SlotsOf(H, f, n)) /\ Cardinality(SlotsOf(H, f, n)) \in Nat
      /\ IsFiniteSet(SlotsOf(H, g, n)) /\ Cardinality(SlotsOf(H, g, n)) \in Nat
  BY SlotsAreFinite
<1>2. SlotsOf(H, f, n) \in SUBSET SlotsOf(H, g, n)
  <2>1. SUFFICES ASSUME NEW h \in H, NEW k \in 1..n, k <= f[h] PROVE k <= g[h]
    BY DEF SlotsOf
  <2>2. h \in D /\ f[h] \in Nat /\ g[h] \in Nat /\ f[h] <= g[h]
    OBVIOUS
  <2> QED  BY <2>1, <2>2
<1>3. ASSUME NEW h \in H, f[h] < g[h], f[h] < n
      PROVE  Cardinality(SlotsOf(H, f, n)) + 1 <= Cardinality(SlotsOf(H, g, n))
  <2>1. f[h] \in Nat /\ g[h] \in Nat
    OBVIOUS
  <2> DEFINE p == <<h, f[h] + 1>>
             more == SlotsOf(H, f, n) \cup {p}
  <2>2. p \in SlotsOf(H, g, n) /\ p \notin SlotsOf(H, f, n)
    BY <1>3, <2>1 DEF SlotsOf
  <2>3. more \in SUBSET SlotsOf(H, g, n)
    BY <1>2, <2>2
  <2>4. Cardinality(more) = Cardinality(SlotsOf(H, f, n)) + 1
    <3> HIDE DEF p
    <3> QED  BY <1>1, <2>2, FS_AddElement
  <2>5. Cardinality(more) <= Cardinality(SlotsOf(H, g, n))
    <3> HIDE DEF more
    <3> QED  BY <1>1, <2>3, FS_Subset
  <2> QED  BY <2>4, <2>5
<1> QED  BY <1>1, <1>2, <1>3, FS_Subset

\* The sum of f over S, as PassedBy takes it.
Total(f, S) ==
    LET sum[cs \in SUBSET S] ==
            IF cs = {} THEN 0
            ELSE LET c == CHOOSE c \in cs : TRUE IN f[c] + sum[cs \ {c}]
    IN  sum[S]

LEMMA PairsAdd ==
  ASSUME NEW S, IsFiniteSet(S), NEW f \in [S -> Nat], NEW x \in SUBSET S, IsFiniteSet(PairsOf(x, f)),
         NEW c \in S \ x
  PROVE  /\ IsFiniteSet(PairsOf(x \cup {c}, f))
         /\ Cardinality(PairsOf(x \cup {c}, f)) = f[c] + Cardinality(PairsOf(x, f))
<1> DEFINE one == {c} \X (1..f[c])
<1>1. f[c] \in Nat
  OBVIOUS
<1>2. IsFiniteSet(1..f[c]) /\ Cardinality(1..f[c]) = f[c]
  BY <1>1, FS_Interval
<1>3. IsFiniteSet({c}) /\ Cardinality({c}) = 1
  BY FS_Singleton
<1>4. IsFiniteSet(one) /\ Cardinality(one) = 1 * f[c]
  BY <1>2, <1>3, FS_Product
<1>5. PairsOf(x \cup {c}, f) = PairsOf(x, f) \cup one
  BY <1>1 DEF PairsOf
<1>6. PairsOf(x, f) \cap one = {}
  BY DEF PairsOf
<1>7. Cardinality(PairsOf(x, f)) \in Nat /\ Cardinality({}) = 0
  BY FS_CardinalityType, FS_EmptySet
<1> HIDE DEF one
<1>8. /\ IsFiniteSet(PairsOf(x, f) \cup one)
      /\ Cardinality(PairsOf(x, f) \cup one)
            = Cardinality(PairsOf(x, f)) + Cardinality(one) - Cardinality(PairsOf(x, f) \cap one)
  BY <1>4, FS_Union
<1>9. Cardinality(PairsOf(x, f) \cup one) = f[c] + Cardinality(PairsOf(x, f))
  <2>1. Cardinality(PairsOf(x, f) \cap one) = 0
    BY <1>6, <1>7, Zenon
  <2>2. Cardinality(one) = f[c]
    BY <1>1, <1>4
  <2>3. Cardinality(PairsOf(x, f) \cup one) = Cardinality(PairsOf(x, f)) + f[c] - 0
    BY <1>8, <2>1, <2>2
  <2> QED  BY <1>1, <1>7, <2>3
<1> QED  BY <1>5, <1>8, <1>9, Zenon

Less == {p \in Nat \X Nat : p[1] < p[2]}

LEMMA LessIsWellFounded == IsWellFoundedOn(Less, Nat)
<1>1. OpToRel(<, Nat) = Less
  BY DEF OpToRel, Less
<1> QED  BY <1>1, NatLessThanWellFounded

\* A set of numbers with none smallest is empty.
LEMMA SmallestOf ==
  ASSUME NEW T \in SUBSET Nat, T # {}
  PROVE  \E m \in T : \A n \in T : ~(n < m)
<1>1. PICK m \in T : \A n \in T : ~(<<n, m>> \in Less)
  <2>1. \E m \in T : \A n \in T : ~(<<n, m>> \in Less)
    BY LessIsWellFounded, WFMin
  <2> QED  BY <2>1
<1> QED  BY <1>1 DEF Less

LEMMA PairsAreFinite ==
  ASSUME NEW S, IsFiniteSet(S), NEW f \in [S -> Nat]
  PROVE  \A x \in SUBSET S : IsFiniteSet(PairsOf(x, f)) /\ Cardinality(PairsOf(x, f)) \in Nat
<1> DEFINE T == {n \in Nat : \E x \in SUBSET S : Cardinality(x) = n /\ ~IsFiniteSet(PairsOf(x, f))}
<1>1. \A x \in SUBSET S : IsFiniteSet(x) /\ Cardinality(x) \in Nat
  BY FS_Subset, FS_CardinalityType
<1>2. T = {}
  <2>1. SUFFICES ASSUME T # {} PROVE FALSE
    OBVIOUS
  <2>2. PICK m \in T : \A n \in T : ~(n < m)
    <3> HIDE DEF T
    <3>1. T \in SUBSET Nat
      BY DEF T
    <3> QED  BY <2>1, <3>1, SmallestOf
  <2>3. PICK x \in SUBSET S : Cardinality(x) = m /\ ~IsFiniteSet(PairsOf(x, f))
    BY <2>2
  <2>4. x # {}
    <3>1. PairsOf({}, f) = {}
      BY DEF PairsOf
    <3> QED  BY <2>3, <3>1, FS_EmptySet
  <2>5. PICK c : c \in x
    BY <2>4
  <2> DEFINE y == x \ {c}
  <2>6. y \in SUBSET S /\ c \in S \ y /\ x = y \cup {c}
    BY <2>5
  <2>7. Cardinality(y) = m - 1 /\ m - 1 \in Nat
    <3>1. Cardinality(y) = Cardinality(x) - 1 /\ Cardinality(y) \in Nat
      BY <1>1, <2>5, <2>6, FS_RemoveElement
    <3> QED  BY <2>3, <3>1
  <2> HIDE DEF y
  <2>8. IsFiniteSet(PairsOf(y, f))
    BY <2>2, <2>6, <2>7
  <2> QED  BY <2>3, <2>6, <2>8, PairsAdd
<1>3. \A x \in SUBSET S : IsFiniteSet(PairsOf(x, f))
  BY <1>1, <1>2
<1> QED  BY <1>3, FS_CardinalityType

\* A sum is a number of pairs.
LEMMA TotalIsPairs ==
  ASSUME NEW S, IsFiniteSet(S), NEW f \in [S -> Nat]
  PROVE  Total(f, S) = Cardinality(PairsOf(S, f))
<1> DEFINE Iter(g) == g = [cs \in SUBSET S |->
                             IF cs = {} THEN 0
                             ELSE f[CHOOSE c \in cs : TRUE] + g[cs \ {CHOOSE c \in cs : TRUE}]]
           sum == CHOOSE g : Iter(g)
           count == [cs \in SUBSET S |-> Cardinality(PairsOf(cs, f))]
<1>1. Total(f, S) = sum[S]
  BY DEF Total
<1>2. \A x \in SUBSET S : x # {} =>
        /\ (CHOOSE c \in x : TRUE) \in x
        /\ x \ {CHOOSE c \in x : TRUE} \in SUBSET S
        /\ Cardinality(PairsOf(x, f)) = f[CHOOSE c \in x : TRUE]
                                          + Cardinality(PairsOf(x \ {CHOOSE c \in x : TRUE}, f))
  <2>1. SUFFICES ASSUME NEW x \in SUBSET S, NEW c \in x, c = CHOOSE d \in x : TRUE
                 PROVE  /\ x \ {c} \in SUBSET S
                        /\ Cardinality(PairsOf(x, f)) = f[c] + Cardinality(PairsOf(x \ {c}, f))
    OBVIOUS
  <2> DEFINE y == x \ {c}
  <2>2. y \in SUBSET S /\ c \in S \ y /\ x = y \cup {c}
    OBVIOUS
  <2> HIDE DEF y
  <2>3. IsFiniteSet(PairsOf(y, f))
    BY <2>2, PairsAreFinite
  <2>4. Cardinality(PairsOf(x, f)) = f[c] + Cardinality(PairsOf(y, f))
    BY <2>2, <2>3, PairsAdd
  <2> QED  BY <2>2, <2>4 DEF y
<1>3. Iter(count)
  <2>1. PairsOf({}, f) = {} /\ Cardinality({}) = 0
    BY FS_EmptySet DEF PairsOf
  <2> QED  BY <1>2, <2>1
<1>4. Iter(sum)
  <2> HIDE DEF Iter, count
  <2> QED  BY <1>3, Zenon
<1>5. \A x \in SUBSET S :
        sum[x] = IF x = {} THEN 0
                 ELSE f[CHOOSE c \in x : TRUE] + sum[x \ {CHOOSE c \in x : TRUE}]
  <2> HIDE DEF sum
  <2> QED  BY <1>4
<1>6. \A x \in SUBSET S :
        count[x] = IF x = {} THEN 0
                   ELSE f[CHOOSE c \in x : TRUE] + count[x \ {CHOOSE c \in x : TRUE}]
  <2> HIDE DEF count
  <2> QED  BY <1>3
<1>7. count[S] = Cardinality(PairsOf(S, f))
  OBVIOUS
<1> HIDE DEF sum, count, Iter
<1> DEFINE T == {n \in Nat : \E x \in SUBSET S : Cardinality(x) = n /\ sum[x] # count[x]}
<1>8. \A x \in SUBSET S : IsFiniteSet(x) /\ Cardinality(x) \in Nat
  BY FS_Subset, FS_CardinalityType
<1>9. T = {}
  <2>1. SUFFICES ASSUME T # {} PROVE FALSE
    OBVIOUS
  <2>2. PICK m \in T : \A n \in T : ~(n < m)
    <3> HIDE DEF T
    <3>1. T \in SUBSET Nat
      BY DEF T
    <3> QED  BY <2>1, <3>1, SmallestOf
  <2>3. PICK x \in SUBSET S : Cardinality(x) = m /\ sum[x] # count[x]
    BY <2>2
  <2>4. x # {}
    BY <1>5, <1>6, <2>3
  <2>5. PICK c : c = CHOOSE d \in x : TRUE
    OBVIOUS
  <2>6. c \in x /\ x \ {c} \in SUBSET S
    BY <2>4, <2>5
  <2>7. sum[x] = f[c] + sum[x \ {c}] /\ count[x] = f[c] + count[x \ {c}]
    BY <1>5, <1>6, <2>4, <2>5
  <2>8. Cardinality(x \ {c}) = m - 1 /\ m - 1 \in Nat
    <3>1. Cardinality(x \ {c}) = Cardinality(x) - 1 /\ Cardinality(x \ {c}) \in Nat
      BY <1>8, <2>6, FS_RemoveElement
    <3> QED  BY <2>3, <3>1
  <2>9. sum[x \ {c}] = count[x \ {c}]
    BY <2>2, <2>6, <2>8
  <2> QED  BY <2>3, <2>7, <2>9
<1>10. sum[S] = count[S]
  BY <1>8, <1>9
<1> QED  BY <1>1, <1>7, <1>10

\* One more makes the sum one more; nothing adds up to nothing.
LEMMA TotalGrows ==
  ASSUME NEW S, IsFiniteSet(S), NEW f \in [S -> Nat]
  PROVE  /\ Total(f, S) \in Nat
         /\ \A c \in S : Total([f EXCEPT ![c] = @ + 1], S) = Total(f, S) + 1
         /\ (\A c \in S : f[c] = 0) => Total(f, S) = 0
<1>1. /\ Total(f, S) = Cardinality(PairsOf(S, f))
      /\ IsFiniteSet(PairsOf(S, f)) /\ Cardinality(PairsOf(S, f)) \in Nat
  BY PairsAreFinite, TotalIsPairs
<1>2. ASSUME NEW c \in S PROVE Total([f EXCEPT ![c] = @ + 1], S) = Total(f, S) + 1
  <2> DEFINE g == [f EXCEPT ![c] = @ + 1]
             p == <<c, f[c] + 1>>
  <2>1. g \in [S -> Nat] /\ f[c] \in Nat
    OBVIOUS
  <2>2. p \notin PairsOf(S, f) /\ PairsOf(S, g) = PairsOf(S, f) \cup {p}
    BY <2>1 DEF PairsOf
  <2>3. Cardinality(PairsOf(S, f) \cup {p}) = Cardinality(PairsOf(S, f)) + 1
    <3> HIDE DEF p
    <3> QED  BY <1>1, <2>2, FS_AddElement
  <2>4. Total(g, S) = Cardinality(PairsOf(S, g))
    <3> HIDE DEF g
    <3> QED  BY <2>1, TotalIsPairs
  <2> QED  BY <1>1, <2>2, <2>3, <2>4
<1>3. ASSUME \A c \in S : f[c] = 0 PROVE Total(f, S) = 0
  <2>1. PairsOf(S, f) = {}
    BY <1>3 DEF PairsOf
  <2> QED  BY <1>1, <2>1, FS_EmptySet
<1> QED  BY <1>1, <1>2, <1>3

Counter == Accounts \cup {Address}
AnyHome == Sessions \cup {None}

\* A request of the route is at its account's bucket or at the address'.
LimitRequest ==
    {r \in [on : {"limits"}, caller : Callers, rule : DOMAIN Rules,
            left : {<<a, Address>> : a \in Accounts} \cup {<<Address>>}] :
        r.left \in {Buckets(r.caller), <<Address>>}}

\* Requests of a that have passed its own bucket under rule i, and are to ask the address'.
Half(i, a) ==
    {s \in Sessions : /\ session[s].on = "limits" /\ session[s].caller = a
                      /\ session[s].rule = i /\ session[s].left = <<Address>>}

Slots(i, b, n) == SlotsOf(Homes, counts[i][b], n)

LimitsKnown ==
    /\ shared \in BOOLEAN /\ reachable \in BOOLEAN /\ blind \subseteq DOMAIN Rules
    /\ counts \in [DOMAIN Rules -> [Counter -> [AnyHome -> Nat]]]
    /\ passed \in [DOMAIN Rules -> [Callers -> Nat]]
    /\ session \in [Sessions -> LimitRequest \cup {Idle}]

\* What was let through, and what is half way, was counted below its limit.
Counted(i) ==
    /\ \A a \in Accounts :
          passed[i][a] + Cardinality(Half(i, a)) <= Cardinality(Slots(i, a, Ceiling[i]))
    /\ PassedBy(i, Callers) <= Cardinality(Slots(i, Address, Ceiling[i] * ADDRESS_FANOUT))
    /\ passed[i][None] <= Cardinality(Slots(i, Address, Ceiling[i]))

LimitsInv == LimitsKnown /\ \A i \in DOMAIN Rules \ blind : Counted(i)

LEMMA PassedByIsTotal == \A i : PassedBy(i, Callers) = Total(passed[i], Callers)
BY DEF PassedBy, Total

LEMMA PassedByIsTotalThen == \A i : PassedBy(i, Callers)' = Total(passed'[i], Callers)
BY DEF PassedBy, Total

LEMMA CallersAreFinite == IsFiniteSet(Callers)
BY LimitsAssumption, FS_AddElement DEF Callers

LEMMA HomesAreFinite ==
  ASSUME LimitsKnown
  PROVE  /\ IsFiniteSet(Homes) /\ Homes \in SUBSET AnyHome
         /\ \A s \in Sessions : Home(s) \in Homes
<1>1. IsFiniteSet({None})
  BY FS_Singleton
<1> QED  BY <1>1, LimitsAssumption DEF LimitsKnown, Homes, Home, AnyHome

LEMMA HomesAreFiniteThen ==
  ASSUME LimitsKnown'
  PROVE  IsFiniteSet(Homes')
<1>1. IsFiniteSet({None})
  BY FS_Singleton
<1> QED  BY <1>1, LimitsAssumption DEF LimitsKnown, Homes

LEMMA HalvesAreFiniteThen ==
  ASSUME NEW i, NEW a
  PROVE  IsFiniteSet(Half(i, a)') /\ Cardinality(Half(i, a)') \in Nat
<1>1. Half(i, a)' \in SUBSET Sessions
  BY DEF Half
<1> QED  BY <1>1, LimitsAssumption, FS_Subset, FS_CardinalityType

LEMMA HalvesAreFinite ==
  ASSUME NEW i, NEW a
  PROVE  IsFiniteSet(Half(i, a)) /\ Cardinality(Half(i, a)) \in Nat
BY LimitsAssumption, FS_Subset, FS_CardinalityType DEF Half

\* What the properties say follows, as a set of slots is no larger than their number.
LEMMA CountedIsWithin ==
  ASSUME LimitsInv
  PROVE  CeilingsHold
<1>1. IsFiniteSet(Homes) /\ Cardinality(Homes) \in Nat
  BY HomesAreFinite, FS_CardinalityType DEF LimitsInv
<1>2. \A i \in DOMAIN Rules : Ceiling[i] \in Nat /\ Ceiling[i] * ADDRESS_FANOUT \in Nat
  BY LimitsAssumption
<1>3. ASSUME NEW i \in DOMAIN Rules \ blind
      PROVE  /\ \A a \in Accounts : passed[i][a] <= Ceiling[i] * Cardinality(Homes)
             /\ PassedBy(i, Callers) <= Ceiling[i] * ADDRESS_FANOUT * Cardinality(Homes)
             /\ passed[i][None] <= Ceiling[i] * Cardinality(Homes)
  <2>1. Counted(i) /\ i \in DOMAIN Rules
    BY <1>3 DEF LimitsInv
  <2>2. passed[i] \in [Callers -> Nat] /\ IsFiniteSet(Callers)
    BY <1>3, CallersAreFinite DEF LimitsInv, LimitsKnown
  <2>3. PassedBy(i, Callers) \in Nat
    BY <2>2, PassedByIsTotal, TotalGrows
  <2>4. ASSUME NEW a \in Accounts PROVE passed[i][a] <= Ceiling[i] * Cardinality(Homes)
    <3>1. /\ Cardinality(Slots(i, a, Ceiling[i])) \in Nat
          /\ Cardinality(Slots(i, a, Ceiling[i])) <= Ceiling[i] * Cardinality(Homes)
      BY <1>1, <1>2, <2>1, SlotsAreFinite DEF Slots
    <3>2. Cardinality(Half(i, a)) \in Nat
      BY HalvesAreFinite
    <3>3. passed[i][a] \in Nat
      BY <2>2 DEF Callers
    <3>4. Ceiling[i] * Cardinality(Homes) \in Nat
      BY <1>1, <1>2, <2>1
    <3>5. passed[i][a] + Cardinality(Half(i, a)) <= Cardinality(Slots(i, a, Ceiling[i]))
      BY <2>1 DEF Counted
    <3> QED  BY <3>1, <3>2, <3>3, <3>4, <3>5
  <2>5. PassedBy(i, Callers) <= Ceiling[i] * ADDRESS_FANOUT * Cardinality(Homes)
    <3> DEFINE n == Ceiling[i] * ADDRESS_FANOUT
    <3>1. n \in Nat
      BY <1>2, <2>1
    <3>2. PassedBy(i, Callers) <= Cardinality(Slots(i, Address, n))
      BY <2>1 DEF Counted
    <3> HIDE DEF n
    <3>3. /\ Cardinality(Slots(i, Address, n)) \in Nat
          /\ Cardinality(Slots(i, Address, n)) <= n * Cardinality(Homes)
      BY <1>1, <3>1, SlotsAreFinite DEF Slots
    <3>4. n * Cardinality(Homes) \in Nat
      BY <1>1, <3>1
    <3>5. PassedBy(i, Callers) <= n * Cardinality(Homes)
      BY <2>3, <3>2, <3>3, <3>4
    <3> QED  BY <3>5 DEF n
  <2>6. passed[i][None] <= Ceiling[i] * Cardinality(Homes)
    <3>1. /\ Cardinality(Slots(i, Address, Ceiling[i])) \in Nat
          /\ Cardinality(Slots(i, Address, Ceiling[i])) <= Ceiling[i] * Cardinality(Homes)
      BY <1>1, <1>2, <2>1, SlotsAreFinite DEF Slots
    <3>2. passed[i][None] \in Nat
      BY <2>2 DEF Callers
    <3>3. Ceiling[i] * Cardinality(Homes) \in Nat
      BY <1>1, <1>2, <2>1
    <3>4. passed[i][None] <= Cardinality(Slots(i, Address, Ceiling[i]))
      BY <2>1 DEF Counted
    <3> QED  BY <3>1, <3>2, <3>3, <3>4
  <2> QED  BY <2>4, <2>5, <2>6
<1> QED  BY <1>3 DEF CeilingsHold, AccountsKeepToTheirShare, AddressesKeepToTheirs

LEMMA LimitsBuckets ==
  /\ Address \notin Callers /\ None \notin Accounts /\ None \in Callers /\ Accounts \subseteq Callers
  /\ Buckets(None) = <<Address>> /\ \A a \in Accounts : Buckets(a) = <<a, Address>>
  /\ \A c \in Callers : c \in Accounts \/ c = None
BY LimitsAssumption DEF Callers, Buckets

\* What a request of the route looks like.
LEMMA LimitRequests ==
  ASSUME LimitsKnown, NEW s \in Sessions, Serving(s, "limits")
  PROVE  /\ session[s] \in LimitRequest
         /\ session[s].on = "limits" /\ session[s].caller \in Callers /\ session[s].rule \in DOMAIN Rules
         /\ \/ session[s].left = <<Address>>
            \/ session[s].caller \in Accounts /\ session[s].left = <<session[s].caller, Address>>
<1>1. session[s] \in LimitRequest
  BY DEF LimitsKnown, Serving, Idle
<1>2. /\ session[s].on = "limits" /\ session[s].caller \in Callers /\ session[s].rule \in DOMAIN Rules
      /\ session[s].left \in {Buckets(session[s].caller), <<Address>>}
  BY <1>1 DEF LimitRequest
<1> QED  BY <1>1, <1>2, LimitsBuckets

LEMMA LimitIdle == Idle.on = "nothing"
BY DEF Idle

LEMMA OfTwo == \A x, y : Len(<<x, y>>) = 2 /\ Tail(<<x, y>>) = <<y>> /\ Head(<<x, y>>) = x
OBVIOUS

\* From its account's bucket it goes to the address', and from there to the next rule, if any.
LEMMA ProceedTo ==
  ASSUME LimitsKnown, NEW s \in Sessions, Serving(s, "limits"), Proceed(s)
  PROVE  \E q \in LimitRequest \cup {Idle} :
            /\ session' = [session EXCEPT ![s] = q]
            /\ session[s].left # <<Address>> =>
                  /\ q.on = "limits" /\ q.caller = session[s].caller
                  /\ q.rule = session[s].rule /\ q.left = <<Address>>
            /\ session[s].left = <<Address>> =>
                  q = Idle \/ (q.caller = session[s].caller /\ q.left = Buckets(q.caller))
<1>1. /\ session[s] \in LimitRequest
      /\ session[s].on = "limits" /\ session[s].caller \in Callers /\ session[s].rule \in DOMAIN Rules
      /\ \/ session[s].left = <<Address>>
         \/ session[s].caller \in Accounts /\ session[s].left = <<session[s].caller, Address>>
  BY LimitRequests
<1>2. CASE session[s].left # <<Address>>
  <2>1. Len(session[s].left) = 2 /\ Tail(session[s].left) = <<Address>>
    BY <1>1, <1>2, OfTwo
  <2>2. session' = [session EXCEPT ![s] = [session[s] EXCEPT !.left = <<Address>>]]
    <3>1. session' = [session EXCEPT ![s].left = Tail(@)]
      BY <2>1 DEF Proceed
    <3>2. session' = [session EXCEPT ![s].left = Tail(session[s].left)]
      BY <3>1
    <3> QED  BY <2>1, <3>2
  <2>3. [session[s] EXCEPT !.left = <<Address>>] \in LimitRequest
    BY <1>1 DEF LimitRequest
  <2> QED  BY <1>1, <1>2, <2>2, <2>3 DEF LimitRequest
<1>3. CASE session[s].left = <<Address>>
  <2>1. Len(session[s].left) = 1
    BY <1>3
  <2>2. CASE session[s].rule < Len(Rules)
    <3> DEFINE q == [session[s] EXCEPT !.rule = @ + 1, !.left = Buckets(session[s].caller)]
    <3>1. session' = [session EXCEPT ![s] = q]
      BY <2>1, <2>2 DEF Proceed
    <3>2. session[s].rule + 1 \in DOMAIN Rules
      BY <1>1, <2>2, LimitsAssumption
    <3>3. Buckets(session[s].caller) \in {<<a, Address>> : a \in Accounts} \cup {<<Address>>}
      BY <1>1, LimitsBuckets
    <3>4. q \in LimitRequest /\ q.caller = session[s].caller /\ q.left = Buckets(q.caller)
      BY <1>1, <3>2, <3>3 DEF LimitRequest
    <3> QED  BY <1>3, <3>1, <3>4
  <2>3. CASE ~(session[s].rule < Len(Rules))
    BY <1>3, <2>1, <2>3 DEF Proceed, Finish
  <2> QED  BY <2>2, <2>3
<1> QED  BY <1>2, <1>3

\* A counter goes up, and with it the hits that were counted.
LEMMA HitCounts ==
  ASSUME LimitsKnown, shared' = shared, NEW i \in DOMAIN Rules, NEW b \in Counter, NEW h \in Homes,
         NEW n \in Nat, counts[i][b][h] <= n, counts' = [counts EXCEPT ![i][b][h] = n]
  PROVE  /\ counts' \in [DOMAIN Rules -> [Counter -> [AnyHome -> Nat]]]
         /\ \A j \in DOMAIN Rules, c \in Counter, m \in Nat :
                Cardinality(Slots(j, c, m)) <= Cardinality(Slots(j, c, m))'
         /\ \A m \in Nat : counts[i][b][h] < n /\ counts[i][b][h] < m =>
                Cardinality(Slots(i, b, m)) + 1 <= Cardinality(Slots(i, b, m))'
<1>1. Homes' = Homes /\ Homes \in SUBSET AnyHome /\ IsFiniteSet(Homes) /\ h \in AnyHome
  BY HomesAreFinite DEF Homes
<1>2. counts \in [DOMAIN Rules -> [Counter -> [AnyHome -> Nat]]]
  BY DEF LimitsKnown
<1>3. counts' \in [DOMAIN Rules -> [Counter -> [AnyHome -> Nat]]]
  BY <1>1, <1>2
<1>4. \A j \in DOMAIN Rules, c \in Counter :
        /\ counts[j][c] \in [AnyHome -> Nat] /\ counts'[j][c] \in [AnyHome -> Nat]
        /\ \A x \in AnyHome : counts[j][c][x] <= counts'[j][c][x]
  <2>1. SUFFICES ASSUME NEW j \in DOMAIN Rules, NEW c \in Counter, NEW x \in AnyHome
                 PROVE  counts[j][c][x] <= counts'[j][c][x]
    BY <1>2, <1>3
  <2>2. counts[j][c][x] \in Nat
    BY <1>2
  <2>3. CASE j = i /\ c = b /\ x = h
    BY <1>1, <1>2, <2>3
  <2>4. CASE ~(j = i /\ c = b /\ x = h)
    <3>1. counts'[j][c][x] = counts[j][c][x]
      BY <1>1, <1>2, <2>4
    <3> QED  BY <2>2, <3>1
  <2> QED  BY <2>3, <2>4
<1>5. counts'[i][b][h] = n
  BY <1>1, <1>2
<1>6. \A j \in DOMAIN Rules, c \in Counter, m \in Nat :
          Cardinality(Slots(j, c, m)) <= Cardinality(Slots(j, c, m))'
  <2>1. SUFFICES ASSUME NEW j \in DOMAIN Rules, NEW c \in Counter, NEW m \in Nat
                 PROVE  Cardinality(Slots(j, c, m)) <= Cardinality(Slots(j, c, m))'
    OBVIOUS
  <2>2. PICK f \in [AnyHome -> Nat], g \in [AnyHome -> Nat] :
            f = counts[j][c] /\ g = counts'[j][c] /\ \A x \in AnyHome : f[x] <= g[x]
    BY <1>4
  <2>3. Cardinality(SlotsOf(Homes, f, m)) <= Cardinality(SlotsOf(Homes, g, m))
    BY <1>1, <2>2, SlotsFillUp
  <2> QED  BY <1>1, <2>2, <2>3 DEF Slots
<1>7. ASSUME NEW m \in Nat, counts[i][b][h] < n, counts[i][b][h] < m
      PROVE  Cardinality(Slots(i, b, m)) + 1 <= Cardinality(Slots(i, b, m))'
  <2>2. PICK f \in [AnyHome -> Nat], g \in [AnyHome -> Nat] :
            f = counts[i][b] /\ g = counts'[i][b] /\ \A x \in AnyHome : f[x] <= g[x]
    BY <1>4
  <2>3. f[h] < g[h] /\ f[h] < m
    BY <1>5, <1>7, <2>2
  <2>4. Cardinality(SlotsOf(Homes, f, m)) + 1 <= Cardinality(SlotsOf(Homes, g, m))
    BY <1>1, <2>2, <2>3, SlotsFillUp
  <2> QED  BY <1>1, <2>2, <2>4 DEF Slots
<1> QED  BY <1>3, <1>6, <1>7

LEMMA SlotsStay ==
  ASSUME LimitsKnown, shared' = shared, counts' = counts
  PROVE  \A i \in DOMAIN Rules, b \in Counter, m \in Nat :
            Cardinality(Slots(i, b, m)) <= Cardinality(Slots(i, b, m))'
<1>1. \A i \in DOMAIN Rules, b \in Counter, m \in Nat : Slots(i, b, m)' = Slots(i, b, m)
  BY DEF Slots, Homes
<1>2. \A i \in DOMAIN Rules, b \in Counter, m \in Nat : Cardinality(Slots(i, b, m)) \in Nat
  BY HomesAreFinite, SlotsAreFinite DEF Slots
<1> QED  BY <1>1, <1>2

\* The number of a hit, of those below the limit: one more than was counted.
LEMMA OneMoreIs ==
  ASSUME NEW i \in DOMAIN Rules, NEW b \in Counter, NEW k \in Nat
  PROVE  /\ OneMore(i, b, k) \in Nat /\ k <= OneMore(i, b, k)
         /\ b # Address /\ OneMore(i, b, k) <= Ceiling[i] => k < OneMore(i, b, k) /\ k < Ceiling[i]
         /\ b = Address /\ OneMore(i, b, k) <= Ceiling[i] * ADDRESS_FANOUT =>
                k < OneMore(i, b, k) /\ k < Ceiling[i] * ADDRESS_FANOUT
         /\ Ceiling[i] <= Ceiling[i] * ADDRESS_FANOUT
         /\ Ceiling[i] \in Nat /\ Ceiling[i] * ADDRESS_FANOUT \in Nat
<1> DEFINE n == Ceiling[i] * ADDRESS_FANOUT
<1>1. Ceiling[i] \in Nat /\ ADDRESS_FANOUT \in Nat /\ ADDRESS_FANOUT >= 1
  BY LimitsAssumption
<1>2. n \in Nat /\ Ceiling[i] <= n
  <2>1. \A c, f \in Nat : f >= 1 => c <= c * f /\ c * f \in Nat
    <3>1. SUFFICES ASSUME NEW c \in Nat, NEW f \in Nat, f >= 1 PROVE c <= c * f /\ c * f \in Nat
      OBVIOUS
    <3>2. c * f = c * (f - 1) + c /\ c * (f - 1) \in Nat /\ c * f \in Nat
      BY <3>1
    <3> QED  BY <3>2
  <2> QED  BY <1>1, <2>1
<1>3. b # Address => OneMore(i, b, k) = IF k <= Ceiling[i] THEN k + 1 ELSE k
  BY <1>1 DEF OneMore
<1>4. b = Address => OneMore(i, b, k) = IF k <= n THEN k + 1 ELSE k
  BY DEF OneMore
<1> HIDE DEF n
<1>5. OneMore(i, b, k) \in {k, k + 1}
  BY <1>3, <1>4
<1>6. b # Address /\ OneMore(i, b, k) <= Ceiling[i] => k < OneMore(i, b, k) /\ k < Ceiling[i]
  BY <1>1, <1>3
<1>7. b = Address /\ OneMore(i, b, k) <= n => k < OneMore(i, b, k) /\ k < n
  BY <1>2, <1>4
<1> QED  BY <1>1, <1>2, <1>5, <1>6, <1>7 DEF n

\* Who is half way after a step of s.
LEMMA HalvesThen ==
  ASSUME LimitsKnown, NEW s \in Sessions, NEW q, session' = [session EXCEPT ![s] = q],
         NEW i, NEW a
  PROVE  /\ q.on = "limits" /\ q.caller = a /\ q.rule = i /\ q.left = <<Address>> =>
                Cardinality(Half(i, a)') <= Cardinality(Half(i, a)) + 1
         /\ ~(q.on = "limits" /\ q.caller = a /\ q.rule = i /\ q.left = <<Address>>) =>
                Cardinality(Half(i, a)') <= Cardinality(Half(i, a))
<1>1. IsFiniteSet(Half(i, a)) /\ Cardinality(Half(i, a)) \in Nat
  BY HalvesAreFinite
<1>2. session \in [Sessions -> LimitRequest \cup {Idle}]
  BY DEF LimitsKnown
<1>3. session'[s] = q /\ \A r \in Sessions \ {s} : session'[r] = session[r]
  BY <1>2
<1>4. CASE q.on = "limits" /\ q.caller = a /\ q.rule = i /\ q.left = <<Address>>
  <2>1. Half(i, a)' = Half(i, a) \cup {s}
    BY <1>3, <1>4 DEF Half
  <2>2. Cardinality(Half(i, a) \cup {s}) \in {Cardinality(Half(i, a)), Cardinality(Half(i, a)) + 1}
    BY <1>1, FS_AddElement
  <2> QED  BY <1>1, <1>4, <2>1, <2>2
<1>5. CASE ~(q.on = "limits" /\ q.caller = a /\ q.rule = i /\ q.left = <<Address>>)
  <2>1. Half(i, a)' = Half(i, a) \ {s}
    BY <1>3, <1>5 DEF Half
  <2>2. Cardinality(Half(i, a) \ {s}) = IF s \in Half(i, a) THEN Cardinality(Half(i, a)) - 1
                                        ELSE Cardinality(Half(i, a))
    BY <1>1, FS_RemoveElement
  <2> QED  BY <1>1, <1>5, <2>1, <2>2
<1> QED  BY <1>4, <1>5

\* Nothing was let through, and no counter went down.
LEMMA CountedStays ==
  ASSUME LimitsKnown, NEW i \in DOMAIN Rules, Counted(i), passed'[i] = passed[i],
         \A a \in Accounts : Cardinality(Half(i, a)') <= Cardinality(Half(i, a)),
         \A b \in Counter, m \in Nat : Cardinality(Slots(i, b, m)) <= Cardinality(Slots(i, b, m))',
         LimitsKnown'
  PROVE  Counted(i)'
<1>1. /\ passed[i] \in [Callers -> Nat] /\ IsFiniteSet(Callers)
      /\ Ceiling[i] \in Nat /\ Ceiling[i] * ADDRESS_FANOUT \in Nat /\ Address \in Counter
  BY CallersAreFinite, LimitsAssumption DEF LimitsKnown, Counter
<1>2. IsFiniteSet(Homes) /\ IsFiniteSet(Homes')
  BY HomesAreFinite, HomesAreFiniteThen
<1>3. \A b \in Counter, m \in Nat :
          Cardinality(Slots(i, b, m)) \in Nat /\ Cardinality(Slots(i, b, m))' \in Nat
  BY <1>2, SlotsAreFinite DEF Slots
<1>4. PassedBy(i, Callers)' = PassedBy(i, Callers) /\ PassedBy(i, Callers) \in Nat
  BY <1>1, PassedByIsTotal, PassedByIsTotalThen, TotalGrows
<1>5. \A a \in Accounts : Cardinality(Half(i, a)) \in Nat /\ Cardinality(Half(i, a)') \in Nat
  BY HalvesAreFinite, HalvesAreFiniteThen
<1>6. ASSUME NEW a \in Accounts
      PROVE  passed'[i][a] + Cardinality(Half(i, a)') <= Cardinality(Slots(i, a, Ceiling[i]))'
  <2>1. a \in Counter /\ passed[i][a] \in Nat
    BY <1>1 DEF Counter, Callers
  <2>2. passed[i][a] + Cardinality(Half(i, a)) <= Cardinality(Slots(i, a, Ceiling[i]))
    BY DEF Counted
  <2> QED  BY <1>1, <1>3, <1>5, <2>1, <2>2
<1>7. PassedBy(i, Callers)' <= Cardinality(Slots(i, Address, Ceiling[i] * ADDRESS_FANOUT))'
  <2>1. PassedBy(i, Callers) <= Cardinality(Slots(i, Address, Ceiling[i] * ADDRESS_FANOUT))
    BY DEF Counted
  <2> QED  BY <1>1, <1>3, <1>4, <2>1
<1>8. passed'[i][None] <= Cardinality(Slots(i, Address, Ceiling[i]))'
  <2>1. passed[i][None] <= Cardinality(Slots(i, Address, Ceiling[i])) /\ passed[i][None] \in Nat
    BY <1>1 DEF Counted, Callers
  <2> QED  BY <1>1, <1>3, <2>1
<1> QED  BY <1>6, <1>7, <1>8 DEF Counted

LEMMA LimitsHit ==
  ASSUME LimitsInv, NEW s \in Sessions, Hit(s)
  PROVE  LimitsInv'
<1>1. LimitsKnown /\ Serving(s, "limits")
  BY DEF LimitsInv, Hit
<1>0. PICK c \in Callers : c = session[s].caller
  BY <1>1, LimitRequests
<1>2. PICK i \in DOMAIN Rules : i = session[s].rule
  BY <1>1, LimitRequests
<1>3. PICK b \in Counter : /\ b = Head(session[s].left)
                           /\ \/ session[s].left = <<Address>> /\ b = Address
                              \/ c \in Accounts /\ b = c /\ session[s].left # <<Address>>
  BY <1>0, <1>1, LimitRequests, OfTwo DEF Counter
<1>4. PICK h \in Homes : h = Home(s)
  BY <1>1, HomesAreFinite
<1>5. PICK k \in Nat : k = counts[i][b][h]
  BY <1>1, <1>4, HomesAreFinite DEF LimitsKnown
<1>6. PICK n \in Nat : n = OneMore(i, b, k) /\ k <= n
  BY <1>5, OneMoreIs
<1>7. Address \notin Callers /\ None \notin Accounts /\ None \in Callers /\ Accounts \subseteq Callers
      /\ c \in Callers /\ (c \in Accounts \/ c = None)
  BY LimitsBuckets
<1> DEFINE within == n <= LimitOf(i, c, b)
<1>8. /\ shared' = shared /\ reachable' = reachable /\ blind' = blind
      /\ counts' = IF shared \/ within THEN [counts EXCEPT ![i][b][h] = n] ELSE counts
      /\ ~within => Finish(s) /\ passed' = passed
      /\ within => Proceed(s) /\ PassOn(s)
  BY <1>0, <1>2, <1>3, <1>4, <1>5, <1>6 DEF Hit, Within
<1> HIDE DEF within
<1>9. /\ counts' \in [DOMAIN Rules -> [Counter -> [AnyHome -> Nat]]]
      /\ \A j \in DOMAIN Rules, d \in Counter, m \in Nat :
              Cardinality(Slots(j, d, m)) <= Cardinality(Slots(j, d, m))'
      /\ within => \A m \in Nat : k < n /\ k < m =>
              Cardinality(Slots(i, b, m)) + 1 <= Cardinality(Slots(i, b, m))'
  <2>1. CASE counts' = [counts EXCEPT ![i][b][h] = n]
    BY <1>1, <1>5, <1>6, <1>8, <2>1, HitCounts
  <2>2. CASE counts' = counts /\ ~within
    <3>1. \A j \in DOMAIN Rules, d \in Counter, m \in Nat : Slots(j, d, m)' = Slots(j, d, m)
      BY <1>8, <2>2 DEF Slots, Homes
    <3>2. \A j \in DOMAIN Rules, d \in Counter, m \in Nat : Cardinality(Slots(j, d, m)) \in Nat
      BY <1>1, HomesAreFinite, SlotsAreFinite DEF Slots
    <3> QED  BY <1>1, <2>2, <3>1, <3>2 DEF LimitsKnown
  <2> QED  BY <1>8, <2>1, <2>2
<1>10. PICK q \in LimitRequest \cup {Idle} :
          /\ session' = [session EXCEPT ![s] = q]
          /\ within /\ session[s].left # <<Address>> =>
                q.on = "limits" /\ q.caller = c /\ q.rule = i /\ q.left = <<Address>>
          /\ ~within \/ session[s].left = <<Address>> =>
                q = Idle \/ (q.caller = c /\ q.left = Buckets(c))
  <2>1. CASE within
    BY <1>0, <1>1, <1>2, <1>8, <2>1, ProceedTo
  <2>2. CASE ~within
    BY <1>8, <2>2 DEF Finish
  <2> QED  BY <2>1, <2>2
<1>11. /\ passed \in [DOMAIN Rules -> [Callers -> Nat]]
       /\ passed' = IF within /\ b = Address /\ i \notin blind
                    THEN [passed EXCEPT ![i][c] = @ + 1] ELSE passed
  BY <1>0, <1>1, <1>2, <1>3, <1>8 DEF LimitsKnown, PassOn
<1>12. passed' \in [DOMAIN Rules -> [Callers -> Nat]]
  BY <1>7, <1>11
<1>13. LimitsKnown'
  BY <1>1, <1>8, <1>9, <1>10, <1>12 DEF LimitsKnown
\* Only s can become half way, and only from its account's bucket.
<1>14. ASSUME NEW j, NEW a \in Accounts, ~(within /\ session[s].left # <<Address>> /\ a = c /\ j = i)
       PROVE  /\ Cardinality(Half(j, a)') <= Cardinality(Half(j, a))
              /\ s \in Half(j, a) => Cardinality(Half(j, a)') + 1 = Cardinality(Half(j, a))
  <2>1. ~(q.on = "limits" /\ q.caller = a /\ q.rule = j /\ q.left = <<Address>>)
    <3>1. CASE within /\ session[s].left # <<Address>>
      BY <1>10, <1>14, <3>1
    <3>2. CASE ~within \/ session[s].left = <<Address>>
      <4>1. a # None /\ Buckets(a) = <<a, Address>> /\ <<a, Address>> # <<Address>>
        BY LimitsBuckets, OfTwo
      <4> QED  BY <1>10, <3>2, <4>1, LimitIdle
    <3> QED  BY <3>1, <3>2
  <2>2. session' = [session EXCEPT ![s] = q]
    BY <1>10
  <2>3. Cardinality(Half(j, a)') <= Cardinality(Half(j, a))
    BY <1>1, <2>1, <2>2, HalvesThen
  <2>4. ASSUME s \in Half(j, a)
        PROVE  Cardinality(Half(j, a)') + 1 = Cardinality(Half(j, a))
    <3>1. Half(j, a)' = Half(j, a) \ {s}
      <4>1. session'[s] = q /\ \A r \in Sessions \ {s} : session'[r] = session[r]
        BY <1>1, <2>2 DEF LimitsKnown
      <4> QED  BY <2>1, <4>1 DEF Half
    <3>2. IsFiniteSet(Half(j, a)) /\ Cardinality(Half(j, a)) \in Nat
      BY HalvesAreFinite
    <3>3. Cardinality(Half(j, a) \ {s}) = Cardinality(Half(j, a)) - 1
      BY <2>4, <3>2, FS_RemoveElement
    <3> QED  BY <3>1, <3>2, <3>3
  <2> QED  BY <2>3, <2>4
<1>15. ASSUME NEW j \in DOMAIN Rules \ blind, passed'[j] = passed[j],
              j # i \/ ~within
       PROVE  Counted(j)'
  <2>1. Counted(j) /\ j \in DOMAIN Rules
    BY DEF LimitsInv
  <2>2. \A a \in Accounts : Cardinality(Half(j, a)') <= Cardinality(Half(j, a))
    BY <1>14, <1>15
  <2> QED  BY <1>1, <1>9, <1>13, <1>15, <2>1, <2>2, CountedStays
<1>16. ASSUME i \notin blind, within
       PROVE  Counted(i)'
  <2>1. Counted(i)
    BY <1>16 DEF LimitsInv
  <2>2. /\ IsFiniteSet(Homes) /\ IsFiniteSet(Homes')
        /\ Ceiling[i] \in Nat /\ Ceiling[i] * ADDRESS_FANOUT \in Nat
        /\ Ceiling[i] <= Ceiling[i] * ADDRESS_FANOUT
    BY <1>1, <1>13, HomesAreFinite, HomesAreFiniteThen, OneMoreIs
  <2>3. \A d \in Counter, m \in Nat :
            Cardinality(Slots(i, d, m)) \in Nat /\ Cardinality(Slots(i, d, m))' \in Nat
    BY <2>2, SlotsAreFinite DEF Slots
  <2>4. \A a \in Accounts : Cardinality(Half(i, a)) \in Nat /\ Cardinality(Half(i, a)') \in Nat
    BY HalvesAreFinite, HalvesAreFiniteThen
  <2>5. PassedBy(i, Callers) = Total(passed[i], Callers) /\ PassedBy(i, Callers)' = Total(passed'[i], Callers)
    BY PassedByIsTotal, PassedByIsTotalThen
  <2>6. passed[i] \in [Callers -> Nat] /\ IsFiniteSet(Callers) /\ Total(passed[i], Callers) \in Nat
    BY <1>11, CallersAreFinite, TotalGrows
  <2>7. /\ \A a \in Accounts :
              passed[i][a] + Cardinality(Half(i, a)) <= Cardinality(Slots(i, a, Ceiling[i]))
        /\ PassedBy(i, Callers) <= Cardinality(Slots(i, Address, Ceiling[i] * ADDRESS_FANOUT))
        /\ passed[i][None] <= Cardinality(Slots(i, Address, Ceiling[i]))
    BY <2>1 DEF Counted
  <2>8. Accounts \subseteq Counter /\ Address \in Counter /\ Accounts \subseteq Callers
    BY <1>7 DEF Counter
  \* At its account's bucket: what is half way is counted there.
  <2>9. CASE session[s].left # <<Address>>
    <3>1. b = c /\ c \in Accounts /\ b # Address /\ LimitOf(i, c, b) = Ceiling[i]
      BY <1>3, <1>7, <2>9 DEF LimitOf
    <3>2. k < n /\ k < Ceiling[i]
      BY <1>6, <1>16, <3>1, OneMoreIs DEF within
    <3>3. Cardinality(Slots(i, c, Ceiling[i])) + 1 <= Cardinality(Slots(i, c, Ceiling[i]))'
      BY <1>9, <1>16, <2>2, <3>1, <3>2
    <3>4. passed' = passed
      BY <1>11, <3>1
    <3>5. Cardinality(Half(i, c)') <= Cardinality(Half(i, c)) + 1
      BY <1>1, <1>10, <1>16, <2>9, HalvesThen
    <3>6. ASSUME NEW a \in Accounts
          PROVE  passed'[i][a] + Cardinality(Half(i, a)') <= Cardinality(Slots(i, a, Ceiling[i]))'
      <4>1. /\ passed[i][a] \in Nat /\ Cardinality(Half(i, a)) \in Nat /\ Cardinality(Half(i, a)') \in Nat
            /\ Cardinality(Slots(i, a, Ceiling[i])) \in Nat /\ Cardinality(Slots(i, a, Ceiling[i]))' \in Nat
            /\ passed[i][a] + Cardinality(Half(i, a)) <= Cardinality(Slots(i, a, Ceiling[i]))
        BY <2>2, <2>3, <2>4, <2>6, <2>7, <2>8
      <4>2. CASE a = c
        BY <3>3, <3>4, <3>5, <4>1, <4>2
      <4>3. CASE a # c
        <5>1. /\ Cardinality(Half(i, a)') <= Cardinality(Half(i, a))
              /\ Cardinality(Slots(i, a, Ceiling[i])) <= Cardinality(Slots(i, a, Ceiling[i]))'
          BY <1>9, <1>14, <2>2, <2>8, <4>3
        <5> QED  BY <3>4, <4>1, <5>1
      <4> QED  BY <4>2, <4>3
    <3>7. PassedBy(i, Callers)' <= Cardinality(Slots(i, Address, Ceiling[i] * ADDRESS_FANOUT))'
      <4>1. Cardinality(Slots(i, Address, Ceiling[i] * ADDRESS_FANOUT))
              <= Cardinality(Slots(i, Address, Ceiling[i] * ADDRESS_FANOUT))'
        BY <1>9, <2>2, <2>8
      <4> QED  BY <2>2, <2>3, <2>5, <2>6, <2>7, <2>8, <3>4, <4>1
    <3>8. passed'[i][None] <= Cardinality(Slots(i, Address, Ceiling[i]))'
      <4>1. Cardinality(Slots(i, Address, Ceiling[i])) <= Cardinality(Slots(i, Address, Ceiling[i]))'
        BY <1>9, <2>2, <2>8
      <4> QED  BY <1>7, <2>2, <2>3, <2>6, <2>7, <2>8, <3>4, <4>1
    <3> QED  BY <3>6, <3>7, <3>8 DEF Counted
  \* At the address': one more is let through, and it was counted.
  <2>10. CASE session[s].left = <<Address>>
    <3>1. b = Address /\ passed' = [passed EXCEPT ![i][c] = @ + 1]
      BY <1>3, <1>11, <1>16, <2>10
    <3>2. passed'[i] = [passed[i] EXCEPT ![c] = @ + 1]
      BY <1>11, <3>1
    <3>3. LimitOf(i, c, b) = IF c = None THEN Ceiling[i] ELSE Ceiling[i] * ADDRESS_FANOUT
      BY <3>1 DEF LimitOf
    <3>4. n <= LimitOf(i, c, b)
      BY <1>16 DEF within
    <3>5. n <= Ceiling[i] * ADDRESS_FANOUT
      BY <2>2, <3>3, <3>4
    <3>6. k < n /\ k < Ceiling[i] * ADDRESS_FANOUT /\ (c = None => k < Ceiling[i])
      BY <1>6, <2>2, <3>1, <3>3, <3>4, <3>5, OneMoreIs
    <3>7. PassedBy(i, Callers)' <= Cardinality(Slots(i, Address, Ceiling[i] * ADDRESS_FANOUT))'
      <4>1. Cardinality(Slots(i, Address, Ceiling[i] * ADDRESS_FANOUT)) + 1
              <= Cardinality(Slots(i, Address, Ceiling[i] * ADDRESS_FANOUT))'
        BY <1>9, <1>16, <2>2, <3>1, <3>6
      <4>2. Total(passed'[i], Callers) = Total(passed[i], Callers) + 1
        BY <1>7, <2>6, <3>2, TotalGrows
      <4> QED  BY <2>2, <2>3, <2>5, <2>6, <2>7, <2>8, <4>1, <4>2
    <3>8. passed'[i][None] <= Cardinality(Slots(i, Address, Ceiling[i]))'
      <4>1. CASE c = None
        <5>1. Cardinality(Slots(i, Address, Ceiling[i])) + 1 <= Cardinality(Slots(i, Address, Ceiling[i]))'
          BY <1>9, <1>16, <2>2, <3>1, <3>6, <4>1
        <5>2. passed'[i][None] = passed[i][None] + 1 /\ passed[i][None] \in Nat
          BY <1>7, <2>6, <3>2, <4>1
        <5> QED  BY <2>2, <2>3, <2>7, <2>8, <5>1, <5>2
      <4>2. CASE c # None
        <5>1. Cardinality(Slots(i, Address, Ceiling[i])) <= Cardinality(Slots(i, Address, Ceiling[i]))'
          BY <1>9, <2>2, <2>8
        <5>2. passed'[i][None] = passed[i][None] /\ passed[i][None] \in Nat
          BY <1>7, <2>6, <3>2, <4>2
        <5> QED  BY <2>2, <2>3, <2>7, <2>8, <5>1, <5>2
      <4> QED  BY <4>1, <4>2
    <3>9. ASSUME NEW a \in Accounts
          PROVE  passed'[i][a] + Cardinality(Half(i, a)') <= Cardinality(Slots(i, a, Ceiling[i]))'
      <4>1. /\ passed[i][a] \in Nat /\ Cardinality(Half(i, a)) \in Nat /\ Cardinality(Half(i, a)') \in Nat
            /\ Cardinality(Slots(i, a, Ceiling[i])) \in Nat /\ Cardinality(Slots(i, a, Ceiling[i]))' \in Nat
            /\ passed[i][a] + Cardinality(Half(i, a)) <= Cardinality(Slots(i, a, Ceiling[i]))
            /\ Cardinality(Slots(i, a, Ceiling[i])) <= Cardinality(Slots(i, a, Ceiling[i]))'
        BY <1>9, <2>2, <2>3, <2>4, <2>6, <2>7, <2>8
      <4>2. CASE a = c
        <5>1. s \in Half(i, c)
          BY <1>0, <1>1, <1>2, <2>10 DEF Half, Serving
        <5>2. Cardinality(Half(i, a)') + 1 = Cardinality(Half(i, a))
          BY <1>14, <2>10, <4>2, <5>1
        <5>3. passed'[i][a] = passed[i][a] + 1
          BY <2>6, <2>8, <3>2, <4>2
        <5> QED  BY <4>1, <5>2, <5>3
      <4>3. CASE a # c
        <5>1. Cardinality(Half(i, a)') <= Cardinality(Half(i, a))
          BY <1>14, <2>10
        <5>2. passed'[i][a] = passed[i][a]
          BY <2>6, <2>8, <3>2, <4>3
        <5> QED  BY <4>1, <5>1, <5>2
      <4> QED  BY <4>2, <4>3
    <3> QED  BY <3>7, <3>8, <3>9 DEF Counted
  <2> QED  BY <2>9, <2>10
<1>17. ASSUME NEW j \in DOMAIN Rules \ blind PROVE Counted(j)'
  <2>1. CASE j = i /\ within
    BY <1>16, <1>17, <2>1
  <2>2. CASE ~(j = i /\ within)
    <3>1. passed'[j] = passed[j]
      BY <1>11, <2>2
    <3> QED  BY <1>15, <2>2, <3>1
  <2> QED  BY <2>1, <2>2
<1> QED  BY <1>8, <1>13, <1>17 DEF LimitsInv

LEMMA LimitsArrive ==
  ASSUME LimitsInv, NEW s \in Sessions, NEW c \in Callers, Arrive(s, c)
  PROVE  LimitsInv'
<1>1. LimitsKnown
  BY DEF LimitsInv
<1> DEFINE q == [on |-> "limits", caller |-> c, rule |-> 1, left |-> Buckets(c)]
<1>2. /\ session[s] = Idle /\ session' = [session EXCEPT ![s] = q] /\ shared' = shared
      /\ UNCHANGED <<reachable, counts, passed, blind>>
  BY DEF Arrive, Start
<1>3. q \in LimitRequest
  <2>1. Buckets(c) \in {<<a, Address>> : a \in Accounts} \cup {<<Address>>} /\ 1 \in DOMAIN Rules
    BY LimitsBuckets, LimitsAssumption
  <2> QED  BY <2>1 DEF LimitRequest
<1>4. LimitsKnown'
  BY <1>1, <1>2, <1>3 DEF LimitsKnown
<1>5. ASSUME NEW i, NEW a \in Accounts
      PROVE  Cardinality(Half(i, a)') <= Cardinality(Half(i, a))
  <2>1. ~(q.caller = a /\ q.left = <<Address>>)
    BY LimitsBuckets, OfTwo
  <2> HIDE DEF q
  <2>2. session' = [session EXCEPT ![s] = q]
    BY <1>2
  <2> QED  BY <1>1, <2>1, <2>2, HalvesThen
<1>6. \A i \in DOMAIN Rules, b \in Counter, m \in Nat :
          Cardinality(Slots(i, b, m)) <= Cardinality(Slots(i, b, m))'
  BY <1>1, <1>2, SlotsStay
<1>7. ASSUME NEW i \in DOMAIN Rules \ blind PROVE Counted(i)'
  <2>1. Counted(i) /\ passed'[i] = passed[i]
    BY <1>2 DEF LimitsInv
  <2> QED  BY <1>1, <1>4, <1>5, <1>6, <2>1, CountedStays
<1> QED  BY <1>2, <1>4, <1>7 DEF LimitsInv

\* Where nothing was counted, no account is kept of the rule until its window ends.
LEMMA LimitsHitNothing ==
  ASSUME LimitsInv, NEW s \in Sessions, HitNothing(s)
  PROVE  LimitsInv'
<1>1. LimitsKnown /\ Serving(s, "limits")
  BY DEF LimitsInv, HitNothing
<1>2. PICK i \in DOMAIN Rules : i = session[s].rule
  BY <1>1, LimitRequests
<1>3. /\ shared' = shared /\ UNCHANGED <<reachable, counts>> /\ Proceed(s)
      /\ blind' = blind \cup {i} /\ passed' = [passed EXCEPT ![i] = [c \in Callers |-> 0]]
  BY <1>2 DEF HitNothing
<1>4. PICK q \in LimitRequest \cup {Idle} :
          /\ session' = [session EXCEPT ![s] = q]
          /\ session[s].left # <<Address>> => q.rule = i
          /\ session[s].left = <<Address>> =>
                q = Idle \/ (q.caller \in Callers /\ q.left = Buckets(q.caller))
  BY <1>1, <1>2, <1>3, LimitRequests, ProceedTo
<1>5. LimitsKnown'
  <2>1. passed' \in [DOMAIN Rules -> [Callers -> Nat]] /\ blind' \subseteq DOMAIN Rules
    BY <1>1, <1>3 DEF LimitsKnown
  <2> QED  BY <1>1, <1>3, <1>4, <2>1 DEF LimitsKnown
<1>6. ASSUME NEW j \in DOMAIN Rules, j # i, NEW a \in Accounts
      PROVE  Cardinality(Half(j, a)') <= Cardinality(Half(j, a))
  <2>1. ~(q.on = "limits" /\ q.caller = a /\ q.rule = j /\ q.left = <<Address>>)
    <3>1. a # None /\ Buckets(a) = <<a, Address>> /\ <<a, Address>> # <<Address>>
      BY LimitsBuckets, OfTwo
    <3> QED  BY <1>4, <1>6, <3>1, LimitIdle
  <2>2. session' = [session EXCEPT ![s] = q]
    BY <1>4
  <2> QED  BY <1>1, <2>1, <2>2, HalvesThen
<1>7. \A j \in DOMAIN Rules, b \in Counter, m \in Nat :
          Cardinality(Slots(j, b, m)) <= Cardinality(Slots(j, b, m))'
  BY <1>1, <1>3, SlotsStay
<1>8. ASSUME NEW j \in DOMAIN Rules \ blind' PROVE Counted(j)'
  <2>1. j \in DOMAIN Rules \ blind /\ j # i
    BY <1>3
  <2>2. Counted(j) /\ passed'[j] = passed[j]
    BY <1>1, <1>3, <2>1 DEF LimitsInv, LimitsKnown
  <2> QED  BY <1>1, <1>5, <1>6, <1>7, <2>1, <2>2, CountedStays
<1> QED  BY <1>5, <1>8 DEF LimitsInv

\* A window nobody is half way through when it begins has let through what it has counted.
LEMMA LimitsNewWindow ==
  ASSUME LimitsInv, NEW i \in DOMAIN Rules, NewWindow(i)
  PROVE  LimitsInv'
<1>1. LimitsKnown
  BY DEF LimitsInv
<1>2. /\ shared' = shared /\ UNCHANGED <<reachable, session>>
      /\ counts' = [j \in DOMAIN Rules |-> IF j <= i THEN NoHits ELSE counts[j]]
      /\ passed' = [j \in DOMAIN Rules |-> IF j <= i THEN [c \in Callers |-> 0] ELSE passed[j]]
      /\ blind' = (blind \ 1..i) \cup (HalfWay \cap 1..i)
  BY DEF NewWindow
<1>3. NoHits \in [Counter -> [AnyHome -> Nat]]
  BY DEF NoHits, Counter, AnyHome
<1>4. DOMAIN Rules = 1..Len(Rules) /\ Len(Rules) \in Nat
  BY LimitsAssumption
<1>5. LimitsKnown'
  <2>1. counts' \in [DOMAIN Rules -> [Counter -> [AnyHome -> Nat]]]
    BY <1>1, <1>2, <1>3 DEF LimitsKnown
  <2>2. passed' \in [DOMAIN Rules -> [Callers -> Nat]]
    BY <1>1, <1>2 DEF LimitsKnown
  <2>3. blind' \subseteq DOMAIN Rules
    BY <1>1, <1>2, <1>4 DEF LimitsKnown
  <2> QED  BY <1>1, <1>2, <2>1, <2>2, <2>3 DEF LimitsKnown
<1>6. \A j, a : Half(j, a)' = Half(j, a)
  BY <1>2 DEF Half
<1>7. ASSUME NEW j \in DOMAIN Rules \ blind', j <= i PROVE Counted(j)'
  <2>1. j \notin HalfWay
    BY <1>2, <1>4, <1>7
  <2>2. ASSUME NEW a \in Accounts PROVE Half(j, a)' = {}
    <3>1. a # None /\ Len(<<Address>>) = 1
      BY LimitsBuckets
    <3>2. Half(j, a) = {}
      BY <2>1, <3>1 DEF Half, HalfWay, Serving
    <3> QED  BY <1>6, <3>2
  <2>3. passed'[j] = [c \in Callers |-> 0] /\ passed'[j] \in [Callers -> Nat]
    BY <1>2, <1>7
  <2>4. PassedBy(j, Callers)' = 0
    <3>1. Total(passed'[j], Callers) = 0
      BY <2>3, CallersAreFinite, TotalGrows
    <3> QED  BY <3>1, PassedByIsTotalThen
  <2>5. \A b \in Counter, m \in Nat : Cardinality(Slots(j, b, m))' \in Nat
    BY <1>5, HomesAreFiniteThen, SlotsAreFinite DEF Slots
  <2>6. /\ Ceiling[j] \in Nat /\ Ceiling[j] * ADDRESS_FANOUT \in Nat /\ Address \in Counter
        /\ Accounts \subseteq Counter /\ None \in Callers /\ Accounts \subseteq Callers
    BY LimitsAssumption, LimitsBuckets DEF Counter
  <2>7. \A a \in Accounts :
            passed'[j][a] + Cardinality(Half(j, a)') <= Cardinality(Slots(j, a, Ceiling[j]))'
    <3>1. ASSUME NEW a \in Accounts
          PROVE  passed'[j][a] + Cardinality(Half(j, a)') <= Cardinality(Slots(j, a, Ceiling[j]))'
      <4>1. Cardinality(Half(j, a)') = 0
        BY <2>2, FS_EmptySet
      <4>2. passed'[j][a] = 0
        BY <2>3, <2>6
      <4>3. Cardinality(Slots(j, a, Ceiling[j]))' \in Nat
        BY <2>5, <2>6
      <4> QED  BY <4>1, <4>2, <4>3
    <3> QED  BY <3>1
  <2>8. passed'[j][None] = 0
    BY <2>3, <2>6
  <2>9. /\ Cardinality(Slots(j, Address, Ceiling[j] * ADDRESS_FANOUT))' \in Nat
        /\ Cardinality(Slots(j, Address, Ceiling[j]))' \in Nat
    BY <2>5, <2>6
  <2>10. /\ PassedBy(j, Callers)' <= Cardinality(Slots(j, Address, Ceiling[j] * ADDRESS_FANOUT))'
         /\ passed'[j][None] <= Cardinality(Slots(j, Address, Ceiling[j]))'
    BY <2>4, <2>8, <2>9
  <2> QED  BY <2>7, <2>10 DEF Counted
<1>8. ASSUME NEW j \in DOMAIN Rules \ blind', ~(j <= i) PROVE Counted(j)'
  <2>1. j \notin blind /\ counts'[j] = counts[j] /\ passed'[j] = passed[j]
    BY <1>2, <1>4, <1>8
  <2>2. Counted(j)
    BY <1>8, <2>1 DEF LimitsInv
  <2>3. \A b, m : Slots(j, b, m)' = Slots(j, b, m)
    BY <1>2, <2>1 DEF Slots, Homes
  <2>4. \A b \in Counter, m \in Nat : Cardinality(Slots(j, b, m)) <= Cardinality(Slots(j, b, m))'
    <3>1. \A b \in Counter, m \in Nat : Cardinality(Slots(j, b, m)) \in Nat
      BY <1>1, HomesAreFinite, SlotsAreFinite DEF Slots
    <3> QED  BY <2>3, <3>1
  <2>5. \A a \in Accounts : Cardinality(Half(j, a)') <= Cardinality(Half(j, a))
    BY <1>6, HalvesAreFinite
  <2> QED  BY <1>1, <1>5, <2>1, <2>2, <2>4, <2>5, CountedStays
<1> QED  BY <1>5, <1>7, <1>8 DEF LimitsInv

LEMMA LimitsStill ==
  ASSUME LimitsInv, reachable' \in BOOLEAN, UNCHANGED <<shared, counts, passed, blind, session>>
  PROVE  LimitsInv'
<1>1. LimitsKnown /\ LimitsKnown'
  BY DEF LimitsInv, LimitsKnown
<1>2. \A i \in DOMAIN Rules, b \in Counter, m \in Nat :
          Cardinality(Slots(i, b, m)) <= Cardinality(Slots(i, b, m))'
  BY <1>1, SlotsStay
<1>3. \A i, a : Cardinality(Half(i, a)') <= Cardinality(Half(i, a))
  <2>1. \A i, a : Half(i, a)' = Half(i, a)
    BY DEF Half
  <2> QED  BY <2>1, HalvesAreFinite
<1>4. ASSUME NEW i \in DOMAIN Rules \ blind PROVE Counted(i)'
  <2>1. Counted(i) /\ passed'[i] = passed[i]
    BY DEF LimitsInv
  <2> QED  BY <1>1, <1>2, <1>3, <2>1, CountedStays
<1> QED  BY <1>1, <1>4 DEF LimitsInv

LEMMA LimitsStep == LimitsInv /\ LimitsNext => LimitsInv'
<1> SUFFICES ASSUME LimitsInv, LimitsNext PROVE LimitsInv'
  OBVIOUS
<1>1. CASE RedisTurns
  BY <1>1, LimitsStill DEF RedisTurns
<1> QED  BY <1>1, LimitsArrive, LimitsHit, LimitsHitNothing, LimitsNewWindow DEF LimitsNext

LEMMA LimitsStart == LimitsInit => LimitsInv /\ \A i \in DOMAIN Rules : passed[i] = [c \in Callers |-> 0]
<1> SUFFICES ASSUME LimitsInit
             PROVE  LimitsInv /\ \A i \in DOMAIN Rules : passed[i] = [c \in Callers |-> 0]
  OBVIOUS
<1>1. NoHits \in [Counter -> [AnyHome -> Nat]]
  BY DEF NoHits, Counter, AnyHome
<1>2. LimitsKnown /\ \A i \in DOMAIN Rules : passed[i] = [c \in Callers |-> 0]
  BY <1>1 DEF LimitsInit, NobodyServed, LimitsKnown
<1>3. ASSUME NEW i \in DOMAIN Rules PROVE Counted(i)
  <2>1. passed[i] = [c \in Callers |-> 0] /\ passed[i] \in [Callers -> Nat]
    BY <1>2
  <2>2. PassedBy(i, Callers) = 0
    <3>1. Total(passed[i], Callers) = 0
      BY <2>1, CallersAreFinite, TotalGrows
    <3> QED  BY <3>1, PassedByIsTotal
  <2>3. \A b \in Counter, m \in Nat : Cardinality(Slots(i, b, m)) \in Nat
    BY <1>2, HomesAreFinite, SlotsAreFinite DEF Slots
  <2>4. /\ Ceiling[i] \in Nat /\ Ceiling[i] * ADDRESS_FANOUT \in Nat /\ Address \in Counter
        /\ Accounts \subseteq Counter /\ None \in Callers /\ Accounts \subseteq Callers
    BY LimitsAssumption, LimitsBuckets DEF Counter
  <2>5. ASSUME NEW a \in Accounts
        PROVE  passed[i][a] + Cardinality(Half(i, a)) <= Cardinality(Slots(i, a, Ceiling[i]))
    <3>1. Half(i, a) = {}
      BY DEF Half, LimitsInit, NobodyServed, Idle
    <3>2. Cardinality(Half(i, a)) = 0 /\ passed[i][a] = 0
      BY <2>1, <2>4, <3>1, FS_EmptySet
    <3>3. Cardinality(Slots(i, a, Ceiling[i])) \in Nat
      BY <2>3, <2>4
    <3> QED  BY <3>2, <3>3
  <2>6. passed[i][None] = 0
    BY <2>1, <2>4
  <2>7. /\ Cardinality(Slots(i, Address, Ceiling[i] * ADDRESS_FANOUT)) \in Nat
        /\ Cardinality(Slots(i, Address, Ceiling[i])) \in Nat
    BY <2>3, <2>4
  <2> QED  BY <2>2, <2>5, <2>6, <2>7 DEF Counted
<1> QED  BY <1>2, <1>3 DEF LimitsInv

\* The ceilings, whatever else the server does.
CeilingsInv ==
    IF part = "limits" THEN LimitsInv
    ELSE \A i \in DOMAIN Rules : passed[i] = [c \in Callers |-> 0]

LEMMA CeilingsStep == CeilingsInv /\ [MCNext]_vars => CeilingsInv'
<1> SUFFICES ASSUME CeilingsInv, [MCNext]_vars PROVE CeilingsInv'
  OBVIOUS
<1>1. CASE MCNext
  <2>1. /\ part' = part /\ (part = "limits" => LimitsNext)
        /\ part # "limits" => passed' = passed
    BY <1>1 DEF MCNext, Elsewhere, Still, limitRows
  <2>2. CASE part = "limits"
    BY <2>1, <2>2, LimitsStep DEF CeilingsInv
  <2>3. CASE part # "limits"
    BY <2>1, <2>3 DEF CeilingsInv
  <2> QED  BY <2>2, <2>3
<1>2. CASE UNCHANGED vars
  <2>1. UNCHANGED <<shared, reachable, counts, passed, blind, session, part>>
    BY <1>2 DEF vars, limitRows
  <2>2. CASE part = "limits"
    <3>1. LimitsInv /\ reachable' \in BOOLEAN
      BY <2>1, <2>2 DEF CeilingsInv, LimitsInv, LimitsKnown
    <3> QED  BY <2>1, <2>2, <3>1, LimitsStill DEF CeilingsInv
  <2>3. CASE part # "limits"
    BY <2>1, <2>3 DEF CeilingsInv
  <2> QED  BY <2>2, <2>3
<1> QED  BY <1>1, <1>2

LEMMA CeilingsAreHeld == CeilingsInv => CeilingsHold
<1> SUFFICES ASSUME CeilingsInv PROVE CeilingsHold
  OBVIOUS
<1>1. CASE part = "limits"
  BY <1>1, CountedIsWithin DEF CeilingsInv
<1>2. CASE part # "limits"
  <2>1. \A i \in DOMAIN Rules : passed[i] = [c \in Callers |-> 0]
    BY <1>2 DEF CeilingsInv
  <2>2. ASSUME NEW i \in DOMAIN Rules PROVE PassedBy(i, Callers) = 0
    <3>1. passed[i] = [c \in Callers |-> 0] /\ passed[i] \in [Callers -> Nat]
      BY <2>1
    <3>2. Total(passed[i], Callers) = 0
      BY <3>1, CallersAreFinite, TotalGrows
    <3> QED  BY <3>2, PassedByIsTotal
  <2>3. Cardinality(Homes) \in Nat
    <3>1. IsFiniteSet({None}) /\ IsFiniteSet(Sessions)
      BY FS_Singleton, LimitsAssumption
    <3> QED  BY <3>1, FS_CardinalityType DEF Homes
  <2>4. ASSUME NEW i \in DOMAIN Rules
        PROVE  0 <= Ceiling[i] * Cardinality(Homes) /\ 0 <= Ceiling[i] * ADDRESS_FANOUT * Cardinality(Homes)
    <3>1. Ceiling[i] \in Nat /\ Ceiling[i] * ADDRESS_FANOUT \in Nat
      BY LimitsAssumption
    <3>2. \A m, n \in Nat : 0 <= m * n
      OBVIOUS
    <3> QED  BY <2>3, <3>1, <3>2
  <2>5. \A i \in DOMAIN Rules, c \in Callers : passed[i][c] = 0
    BY <2>1
  <2> QED
    BY <2>2, <2>4, <2>5, LimitsBuckets DEF CeilingsHold, AccountsKeepToTheirShare, AddressesKeepToTheirs
<1> QED  BY <1>1, <1>2

\* However many accounts and workers, with Redis or without, while it comes and goes and
\* windows end between one bucket and the next: an account spends no more than its ceiling
\* and an address no more than its own (api/ratelimit.py, core/ratelimit.py).
THEOREM RequestsKeepToTheirCeilings == MCSpec => []CeilingsHold
<1>1. MCInit => CeilingsInv
  BY LimitsStart DEF MCInit, CeilingsInv
<1> QED  BY <1>1, CeilingsStep, CeilingsAreHeld, PTL DEF MCSpec
=============================================================================
