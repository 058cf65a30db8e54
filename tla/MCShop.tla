------------------------------- MODULE MCShop -------------------------------
(***************************************************************************)
(* Shop with two requests in flight.  raced tells the behaviours in which   *)
(* two requests ever overlapped from those served one at a time.            *)
(***************************************************************************)
EXTENDS Shop, TLC

VARIABLE raced

Together == \E s, r \in Sessions : s # r /\ ~Serves(s, "none") /\ ~Serves(r, "none")

MCInit == Init /\ raced = FALSE
MCNext == Next /\ raced' = (raced \/ Together')
MCSpec == MCInit /\ [][MCNext]_<<vars, raced>>

\* Of requests served one at a time, no move of a person or a machine puts a shop on
\* sale that has not earned it (registry.change_type, onboarding.move_to).
SellingIsEarnedUnlessRaced == ~raced => SellingIsEarned

\* A printer that clears its queue reopens no shop that a person closed, unless the
\* person had taken over a shop the machine closed (commands.report_stuck writes
\* stuck_since only when it closes the shop itself).
ReopensItsOwnUnlessRaced ==
    [][~raced' /\ Reopens => history.closed = "machine" \/ history.touched]_<<vars, raced>>

\* Nothing opens a shop but what may: both of the above.
OpeningsAreEarnedUnlessRaced == []SellingIsEarnedUnlessRaced /\ ReopensItsOwnUnlessRaced

Symmetry == Permutations(Sessions)
=============================================================================
