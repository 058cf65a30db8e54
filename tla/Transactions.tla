---------------------------- MODULE Transactions ----------------------------
(***************************************************************************)
(* A request of the API, as api/deps.get_db runs it: it loads its rows, is  *)
(* judged by what it loaded, and its writes are seen when it commits.       *)
(* session[s] is the request s serves, a record whose "on" says what it is  *)
(* about to commit.                                                        *)
(***************************************************************************)
CONSTANTS Sessions, \* requests that can be in flight together
          None      \* no value

VARIABLE session

Idle == [on |-> "nothing"]
Serving(s, what) == session[s].on = what

Start(s, request) == session[s] = Idle /\ session' = [session EXCEPT ![s] = request]
Finish(s) == session' = [session EXCEPT ![s] = Idle]

\* The handler raised, a statement was refused or the worker died.
GiveUp(s) == session[s] # Idle /\ Finish(s)

NobodyServed == session = [s \in Sessions |-> Idle]
=============================================================================
