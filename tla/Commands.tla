------------------------------ MODULE Commands ------------------------------
(***************************************************************************)
(* Asking the machine of a kiosk to do something (kiosks/commands.py) and   *)
(* waking it (core/bus.py): the command is a row, claimed over HTTP under   *)
(* FOR UPDATE SKIP LOCKED; the wake is published after the commit, carries  *)
(* no work and may be lost; a machine that hears nothing polls.             *)
(***************************************************************************)
EXTENDS Integers, Sequences, Transactions

CONSTANTS CommandKinds, \* what an operator can ask for
          MaxCommands   \* bound: rows

Command == [kind : CommandKinds, late : BOOLEAN,
            state : {"queued", "sent", "succeeded", "failed", "expired"}]

VARIABLES commands, \* the rows, by id; late once ten minutes have passed
          runs,     \* runs[i]: how often the machine was told to run command i
          enrolled, \* the kiosk has a machine
          socket,   \* the machine's: closed, greeted, or subscribed to the bus
          woken,    \* a wake has reached the machine and it has not asked since
          missed    \* a wake was lost, or what the machine asked for came to nothing

commandVars == <<commands, runs, enrolled, socket, woken, missed, session>>
rowVars == <<commands, runs, enrolled>>
wakeVars == <<socket, woken, missed>>

Waiting == {i \in DOMAIN commands : commands[i].state = "queued"}
OpenCommands == {i \in DOMAIN commands : commands[i].state \in {"queued", "sent"}}

CommandsInit ==
    /\ commands = <<>> /\ runs = <<>> /\ enrolled = FALSE
    /\ socket = "closed" /\ woken = FALSE /\ missed = FALSE
    /\ NobodyServed

\* What request_command returns instead of queueing another.
InTheWay(kind) == {i \in OpenCommands : commands[i].kind = kind /\ ~commands[i].late}

RequestCommand(s, kind) ==
    /\ enrolled /\ InTheWay(kind) = {}
    /\ Start(s, [on |-> "ask", kind |-> kind])
    /\ UNCHANGED <<rowVars, wakeVars>>

\* The commit of get_db; the wake marked with it is still to be published.
CommitCommand(s) ==
    /\ Serving(s, "ask") /\ Len(commands) < MaxCommands
    /\ commands' = Append(commands, [kind |-> session[s].kind, late |-> FALSE,
                                     state |-> "queued"])
    /\ runs' = Append(runs, 0)
    /\ session' = [session EXCEPT ![s] = [on |-> "wake"]]
    /\ UNCHANGED <<enrolled, wakeVars>>

\* flush_wakes and Bus.wake: heard by a subscribed machine unless Redis is down.
Publish(s, heard) ==
    /\ Serving(s, "wake")
    /\ heard => socket = "open"
    /\ woken' = (woken \/ heard)
    /\ missed' = (missed \/ ~heard)
    /\ Finish(s)
    /\ UNCHANGED <<rowVars, socket>>

\* device_socket: the greeting, then the subscription.
Connect ==
    /\ enrolled /\ socket = "closed"
    /\ socket' = "greeted"
    /\ UNCHANGED <<rowVars, woken, missed, session>>

Subscribe ==
    /\ socket = "greeted"
    /\ socket' = "open"
    /\ UNCHANGED <<rowVars, woken, missed, session>>

Disconnect ==
    /\ socket # "closed"
    /\ socket' = "closed" /\ woken' = FALSE
    /\ missed' = (missed \/ woken)
    /\ UNCHANGED <<rowVars, session>>

Locked == UNION {session[s].rows : s \in {r \in Sessions : Serving(r, "claim")}}

\* Mutant: the rows are read, not locked.
ClaimCommandsUnlocked(s) ==
    /\ enrolled /\ Waiting # {}
    /\ Start(s, [on |-> "claim", rows |-> Waiting,
                 fresh |-> {i \in Waiting : ~commands[i].late}])
    /\ woken' = FALSE
    /\ UNCHANGED <<rowVars, socket, missed>>

\* The machine asks, woken or by its own clock: every queued row that is not locked;
\* whether one is late is judged now.
ClaimCommands(s) ==
    LET rows == Waiting \ Locked
    IN  /\ enrolled /\ rows # {}
        /\ Start(s, [on |-> "claim", rows |-> rows,
                     fresh |-> {i \in rows : ~commands[i].late}])
        /\ woken' = FALSE
        /\ UNCHANGED <<rowVars, socket, missed>>

\* There is nothing for it: the machine has spent its wake.
FindNothing ==
    /\ enrolled /\ woken /\ Waiting \ Locked = {}
    /\ woken' = FALSE
    /\ UNCHANGED <<rowVars, socket, missed, session>>

\* Sent or expired; what was sent is run if the answer arrives.
CommitClaim(s, arrives) ==
    /\ Serving(s, "claim")
    /\ commands' = [i \in DOMAIN commands |->
                       IF i \notin session[s].rows THEN commands[i]
                       ELSE [commands[i] EXCEPT !.state =
                                IF i \in session[s].fresh THEN "sent" ELSE "expired"]]
    /\ runs' = [i \in DOMAIN runs |->
                   IF arrives /\ i \in session[s].fresh THEN runs[i] + 1 ELSE runs[i]]
    /\ Finish(s)
    /\ UNCHANGED <<enrolled, wakeVars>>

\* Mutant: a result is taken whatever there is already.
ReportCommandAgain(s, i, result) ==
    /\ enrolled /\ runs[i] > 0
    /\ Start(s, [on |-> "report", command |-> i, result |-> result])
    /\ UNCHANGED <<rowVars, wakeVars>>

\* report_command: refused once it has finished, as far as this request has read.
ReportCommand(s, i, result) ==
    /\ enrolled /\ runs[i] > 0 /\ i \in OpenCommands
    /\ Start(s, [on |-> "report", command |-> i, result |-> result])
    /\ UNCHANGED <<rowVars, wakeVars>>

WriteResult(s) ==
    /\ Serving(s, "report")
    /\ commands' = [commands EXCEPT ![session[s].command].state = session[s].result]
    /\ Finish(s)
    /\ UNCHANGED <<runs, enrolled, wakeVars>>

Lapse(i) ==
    /\ i \in OpenCommands /\ ~commands[i].late
    /\ commands' = [commands EXCEPT ![i].late = TRUE]
    /\ UNCHANGED <<runs, enrolled, wakeVars, session>>

\* The device row is deleted, or written again by an enrolment.
Enrolment ==
    /\ enrolled' = ~enrolled
    /\ UNCHANGED <<commands, runs, wakeVars, session>>

\* A worker dies: before its commit nothing is written, after it the wake is lost.
CommandFails(s) ==
    /\ GiveUp(s)
    /\ missed' = (missed \/ session[s].on \in {"claim", "wake"})
    /\ UNCHANGED <<rowVars, socket, woken>>

CommandsNext ==
    \/ Connect \/ Subscribe \/ Disconnect \/ FindNothing \/ Enrolment
    \/ \E i \in DOMAIN commands : Lapse(i)
    \/ \E s \in Sessions :
          \/ \E kind \in CommandKinds : RequestCommand(s, kind)
          \/ CommitCommand(s)
          \/ \E heard \in BOOLEAN : Publish(s, heard)
          \/ ClaimCommands(s)
          \/ \E arrives \in BOOLEAN : CommitClaim(s, arrives)
          \/ \E i \in DOMAIN commands, result \in {"succeeded", "failed"} :
                ReportCommand(s, i, result)
          \/ WriteResult(s) \/ CommandFails(s)

CommandsSpec == CommandsInit /\ [][CommandsNext]_commandVars

-----------------------------------------------------------------------------
(* Properties                                                              *)

CommandsTypeOK ==
    /\ commands \in Seq(Command)
    /\ DOMAIN runs = DOMAIN commands /\ \A i \in DOMAIN runs : runs[i] \in Nat
    /\ enrolled \in BOOLEAN /\ woken \in BOOLEAN /\ missed \in BOOLEAN
    /\ socket \in {"closed", "greeted", "open"}

\* A machine that asks twice at once, or asks again, is not told to restart twice
\* (claim_commands).
RunOnce == \A i \in DOMAIN runs : runs[i] <= 1

\* "Asking twice does not queue twice" (commands.request_command).
OneOfAKindWaits ==
    \A i, j \in OpenCommands :
        commands[i].kind = commands[j].kind /\ ~commands[i].late /\ ~commands[j].late => i = j

\* A machine that is asleep has not been left with work it was to be told of: what is
\* queued has its wake on the way, or is being claimed (bus.flush_wakes, "after the commit").
NobodySleepsOnWork ==
    ~missed /\ Waiting \ Locked # {} => woken \/ \E s \in Sessions : Serving(s, "wake")

\* What is over stays as it was reported.
ResultsStand ==
    [][\A i \in DOMAIN commands :
          i \notin OpenCommands => commands'[i].state = commands[i].state]_commandVars
=============================================================================
