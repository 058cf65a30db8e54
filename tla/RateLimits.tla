----------------------------- MODULE RateLimits -----------------------------
(***************************************************************************)
(* The ceilings on one route (api/ratelimit.py, core/ratelimit.py), for     *)
(* callers at one address.  A request spends one bucket after another, each *)
(* hit an atomic increment; with no Redis every worker counts for itself,   *)
(* and with Redis down nothing is counted and everything is let through.    *)
(***************************************************************************)
EXTENDS Integers, Sequences, FiniteSets, Transactions

CONSTANTS Accounts,       \* callers whose token is verified; None stands for the others
          Rules, Ceiling, \* the route's windows, shortest first, and their limits
          ADDRESS_FANOUT  \* how many accounts one address is worth

Callers == Accounts \cup {None}
Address == "address"

ASSUME LimitsAssumption ==
    /\ IsFiniteSet(Sessions) /\ IsFiniteSet(Accounts)
    /\ None \notin Accounts /\ Address \notin Callers
    /\ Len(Rules) \in Nat \ {0} /\ DOMAIN Rules = 1..Len(Rules)
    /\ Ceiling \in [DOMAIN Rules -> Nat] /\ ADDRESS_FANOUT \in Nat \ {0}

VARIABLES shared, \* whether there is a Redis to count in
          reachable, \* and it answers
          counts, \* counts[r][b][w]: hits of bucket b counted in the window of rule r, by w
          passed, \* passed[r][c]: hits of c let through to the address' bucket, and by it
          blind   \* rules in whose window something was let through that it did not count

limitVars == <<shared, reachable, counts, passed, blind, session>>

\* A session is served by a worker of its own; shared counts are kept under None.
Home(s) == IF shared THEN None ELSE s
Homes == IF shared THEN {None} ELSE Sessions

NoHits == [b \in Accounts \cup {Address} |-> [w \in Sessions \cup {None} |-> 0]]

LimitsInit ==
    /\ shared \in BOOLEAN /\ reachable = TRUE
    /\ counts = [i \in DOMAIN Rules |-> NoHits]
    /\ passed = [i \in DOMAIN Rules |-> [c \in Callers |-> 0]]
    /\ blind = {}
    /\ NobodyServed

\* Mutant: the address is asked first.
BucketsLoosestFirst(caller) ==
    IF caller = None THEN <<Address>> ELSE <<Address, caller>>

\* Tightest first.
Buckets(caller) == IF caller = None THEN <<Address>> ELSE <<caller, Address>>

LimitOf(i, caller, bucket) ==
    IF bucket = Address /\ caller # None THEN Ceiling[i] * ADDRESS_FANOUT ELSE Ceiling[i]

Arrive(s, caller) ==
    /\ Start(s, [on |-> "limits", caller |-> caller, rule |-> 1, left |-> Buckets(caller)])
    /\ UNCHANGED <<shared, reachable, counts, passed, blind>>

\* After a bucket the next one, after the buckets of a rule those of the next, and then
\* the route.
Proceed(s) ==
    LET r == session[s]
    IN  IF Len(r.left) > 1 THEN session' = [session EXCEPT ![s].left = Tail(@)]
        ELSE IF r.rule < Len(Rules)
        THEN session' = [session EXCEPT ![s] = [r EXCEPT !.rule = @ + 1, !.left = Buckets(r.caller)]]
        ELSE Finish(s)

Within(s, n) == n <= LimitOf(session[s].rule, session[s].caller, Head(session[s].left))

\* Of a window in which something went uncounted no account is kept.
PassOn(s) ==
    passed' = IF Head(session[s].left) = Address /\ session[s].rule \notin blind
              THEN [passed EXCEPT ![session[s].rule][session[s].caller] = @ + 1]
              ELSE passed

\* Hits beyond the loosest limit of a bucket are not told apart.
OneMore(i, bucket, n) ==
    LET most == Ceiling[i] * IF bucket = Address THEN ADDRESS_FANOUT ELSE 1
    IN  IF n <= most THEN n + 1 ELSE n

\* RedisCounter counts before it judges, MemoryCounter judges before it counts.
Hit(s) ==
    LET i == session[s].rule
        bucket == Head(session[s].left)
        n == OneMore(i, bucket, counts[i][bucket][Home(s)])
    IN  /\ Serving(s, "limits") /\ (shared => reachable)
        /\ counts' = IF shared \/ Within(s, n)
                     THEN [counts EXCEPT ![i][bucket][Home(s)] = n] ELSE counts
        /\ IF Within(s, n) THEN Proceed(s) /\ PassOn(s) ELSE Finish(s) /\ UNCHANGED passed
        /\ UNCHANGED <<shared, reachable, blind>>

HitNothing(s) ==
    /\ Serving(s, "limits") /\ shared /\ ~reachable
    /\ Proceed(s)
    /\ blind' = blind \cup {session[s].rule}
    /\ passed' = [passed EXCEPT ![session[s].rule] = [c \in Callers |-> 0]]
    /\ UNCHANGED <<shared, reachable, counts>>

\* Rules in which a request has passed its account's bucket and not the address'.
HalfWay == {session[s].rule : s \in {r \in Sessions :
                Serving(r, "limits") /\ session[r].caller # None /\ Len(session[r].left) = 1}}

\* Windows are aligned: where a long one ends the shorter ones do.
NewWindow(i) ==
    /\ counts' = [j \in DOMAIN Rules |-> IF j <= i THEN NoHits ELSE counts[j]]
    /\ passed' = [j \in DOMAIN Rules |-> IF j <= i THEN [c \in Callers |-> 0] ELSE passed[j]]
    /\ blind' = (blind \ 1..i) \cup (HalfWay \cap 1..i)
    /\ UNCHANGED <<shared, reachable, session>>

\* It goes away, or comes back with what it had counted.
RedisTurns ==
    /\ shared
    /\ reachable' = ~reachable
    /\ UNCHANGED <<shared, counts, passed, blind, session>>

LimitsNext ==
    \/ RedisTurns \/ \E i \in DOMAIN Rules : NewWindow(i)
    \/ \E s \in Sessions : (\E c \in Callers : Arrive(s, c)) \/ Hit(s) \/ HitNothing(s)

LimitsSpec == LimitsInit /\ [][LimitsNext]_limitVars

-----------------------------------------------------------------------------
(* Properties                                                              *)

LimitsTypeOK ==
    /\ shared \in BOOLEAN /\ reachable \in BOOLEAN /\ blind \subseteq DOMAIN Rules
    /\ \A i \in DOMAIN Rules, c \in Callers : passed[i][c] \in Nat
    /\ \A s \in Sessions : Serving(s, "limits") =>
          session[s].rule \in DOMAIN Rules /\ session[s].left \in Seq(Callers \cup {Address}) \ {<<>>}

PassedBy(i, callers) ==
    LET sum[cs \in SUBSET callers] ==
            IF cs = {} THEN 0
            ELSE LET c == CHOOSE c \in cs : TRUE IN passed[i][c] + sum[cs \ {c}]
    IN  sum[callers]

\* "One student's script spends its own budget": of what an address lets through, one
\* account gets its own ceiling and no more, per worker where workers count alone.
AccountsKeepToTheirShare ==
    \A i \in DOMAIN Rules \ blind : \A a \in Accounts :
        passed[i][a] <= Ceiling[i] * Cardinality(Homes)

\* One address gets ADDRESS_FANOUT times the ceiling for its accounts, and the ceiling for
\* whoever says nothing of who they are.
AddressesKeepToTheirs ==
    \A i \in DOMAIN Rules \ blind :
        /\ PassedBy(i, Callers) <= Ceiling[i] * ADDRESS_FANOUT * Cardinality(Homes)
        /\ passed[i][None] <= Ceiling[i] * Cardinality(Homes)

\* "The hall is untouched": a caller who has not signed in is refused only for what such
\* callers did.  It does not hold: they share a bucket with the signed-in.
AnonymousRefusedForTheirOwn ==
    \A i \in DOMAIN Rules \ blind :
        shared /\ passed[i][None] < Ceiling[i] => counts[i][Address][None] < Ceiling[i]
=============================================================================
