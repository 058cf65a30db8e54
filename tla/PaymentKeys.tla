---------------------------- MODULE PaymentKeys ----------------------------
(***************************************************************************)
(* Where an owner's takings go (payments/configs.py): keys are set once,    *)
(* and replaced only on a change request an admin approved, which the       *)
(* replacement uses up.  One owner; several of its requests and several     *)
(* admins at once, none of which locks a row.                               *)
(***************************************************************************)
EXTENDS Integers, Sequences, FiniteSets, Transactions

CONSTANT MaxRequests \* bound: change requests, and changes of the keys

RequestStatus == {"pending", "approved", "rejected", "used"}

VARIABLES config,   \* the row: none, the webhook secret only, or the keys too
          changes,  \* how often the keys were written
          requests  \* statuses of the change requests, by id

keyVars == <<config, changes, requests, session>>

In(status) == {i \in DOMAIN requests : requests[i] = status}

KeysInit ==
    /\ config = "none" /\ changes = 0
    /\ requests = <<>>
    /\ NobodyServed

RequestChange(s) ==
    /\ In("pending") = {}
    /\ Start(s, [on |-> "request"])
    /\ UNCHANGED <<config, changes, requests>>

WriteRequest(s) ==
    /\ Serving(s, "request") /\ Len(requests) < MaxRequests
    /\ requests' = Append(requests, "pending")
    /\ Finish(s)
    /\ UNCHANGED <<config, changes>>

\* review_change: only what was loaded PENDING.
ReviewChange(s, i, decision) ==
    /\ requests[i] = "pending"
    /\ Start(s, [on |-> "review", request |-> i, decision |-> decision])
    /\ UNCHANGED <<config, changes, requests>>

WriteReview(s) ==
    /\ Serving(s, "review")
    /\ requests' = [requests EXCEPT ![session[s].request] = session[s].decision]
    /\ Finish(s)
    /\ UNCHANGED <<config, changes>>

\* set_keys, the first time: no approval, 0.
SetFirstKeys(s) ==
    /\ config # "keys"
    /\ Start(s, [on |-> "keys", had |-> config, approval |-> 0])
    /\ UNCHANGED <<config, changes, requests>>

\* set_keys, to replace them: whichever approved request the query returns first.
ReplaceKeys(s) ==
    /\ config = "keys"
    /\ \E i \in In("approved") : Start(s, [on |-> "keys", had |-> config, approval |-> i])
    /\ UNCHANGED <<config, changes, requests>>

Consumed(i) == IF i = 0 THEN requests ELSE [requests EXCEPT ![i] = "used"]

\* Two inserts of the owner's row: the second is refused by its unique user.
WriteKeys(s) ==
    /\ Serving(s, "keys") /\ changes <= MaxRequests
    /\ session[s].had = "none" => config = "none"
    /\ config' = "keys" /\ changes' = changes + 1
    /\ requests' = Consumed(session[s].approval)
    /\ Finish(s)

\* set_webhook_secret, behind no approval.
SetWebhookSecret(s) ==
    /\ Start(s, [on |-> "secret", had |-> config])
    /\ UNCHANGED <<config, changes, requests>>

WriteSecret(s) ==
    /\ Serving(s, "secret")
    /\ session[s].had = "none" => config = "none"
    /\ config' = IF config = "none" THEN "secret" ELSE config
    /\ Finish(s)
    /\ UNCHANGED <<changes, requests>>

KeysFail(s) == GiveUp(s) /\ UNCHANGED <<config, changes, requests>>

KeysNext == \E s \in Sessions :
    \/ RequestChange(s) \/ WriteRequest(s)
    \/ \E i \in DOMAIN requests, decision \in {"approved", "rejected"} : ReviewChange(s, i, decision)
    \/ WriteReview(s)
    \/ SetFirstKeys(s) \/ ReplaceKeys(s) \/ WriteKeys(s)
    \/ SetWebhookSecret(s) \/ WriteSecret(s)
    \/ KeysFail(s)

KeysSpec == KeysInit /\ [][KeysNext]_keyVars

-----------------------------------------------------------------------------
(* Properties                                                              *)

KeysTypeOK ==
    /\ config \in {"none", "secret", "keys"} /\ changes \in Nat
    /\ requests \in Seq(RequestStatus)
    /\ (config = "keys") = (changes > 0)

\* "One approval authorises exactly one change": after the first keys, every change
\* used up a request of its own (configs.set_keys).
KeysMoveByApproval == changes > 0 => changes = 1 + Cardinality(In("used"))

\* An admin has one request of an owner to judge (configs.request_change).
OneRequestWaits == Cardinality(In("pending")) <= 1
=============================================================================
