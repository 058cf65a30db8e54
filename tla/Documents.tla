----------------------------- MODULE Documents -----------------------------
(***************************************************************************)
(* The files students upload (printing/documents.py, storage.py), from the  *)
(* upload to the retention sweep, beside the orders and print tasks that    *)
(* need them.  A file is written and deleted when the request says so, a    *)
(* row when it commits: what a request does to the disk is not undone.      *)
(***************************************************************************)
EXTENDS Integers, Transactions

CONSTANT Docs

VARIABLES rows,   \* rows[d]: none, ready, expired, or deleted
          files,  \* documents whose file is on the disk
          old,    \* documents past FILE_RETENTION_DAYS
          order,  \* the newest order of d: none, placed, paid, or over
          task    \* the newest print task of d: none, open, or done

documentVars == <<rows, files, old, order, task, session>>

DocumentsInit ==
    /\ rows = [d \in Docs |-> "none"] /\ files = {} /\ old = {}
    /\ order = [d \in Docs |-> "none"] /\ task = [d \in Docs |-> "none"]
    /\ NobodyServed

\* create_document: what a printer cannot take leaves no trace; the rest is stored, then
\* recorded.
CreateDocument(s, d) ==
    /\ rows[d] = "none" /\ d \notin files
    /\ Start(s, [on |-> "upload", docs |-> {d}])
    /\ files' = files \cup {d}
    /\ UNCHANGED <<rows, old, order, task>>

WriteDocument(s) ==
    /\ Serving(s, "upload")
    /\ rows' = [d \in Docs |-> IF d \in session[s].docs THEN "ready" ELSE rows[d]]
    /\ Finish(s)
    /\ UNCHANGED <<files, old, order, task>>

\* place_order takes only what is READY (_check_document); its line keeps the row there.
OrderDocument(s, d) ==
    /\ rows[d] = "ready" /\ order[d] \in {"none", "over"}
    /\ Start(s, [on |-> "order", docs |-> {d}])
    /\ UNCHANGED <<rows, files, old, order, task>>

WriteOrder(s) ==
    /\ Serving(s, "order")
    /\ \A d \in session[s].docs : rows[d] # "deleted"
    /\ order' = [d \in Docs |-> IF d \in session[s].docs THEN "placed" ELSE order[d]]
    /\ Finish(s)
    /\ UNCHANGED <<rows, files, old, task>>

\* settle_paid_order queues a task for each line and asks nothing of the document.
Settle(d) ==
    /\ order[d] = "placed"
    /\ order' = [order EXCEPT ![d] = "paid"] /\ task' = [task EXCEPT ![d] = "open"]
    /\ UNCHANGED <<rows, files, old, session>>

ExpireUnpaid(d) ==
    /\ order[d] = "placed"
    /\ order' = [order EXCEPT ![d] = "over"]
    /\ UNCHANGED <<rows, files, old, task, session>>

\* The machine prints the file, or reports that it could not.
FinishTask(d) ==
    /\ task[d] = "open"
    /\ task' = [task EXCEPT ![d] = "done"] /\ order' = [order EXCEPT ![d] = "over"]
    /\ UNCHANGED <<rows, files, old, session>>

\* delete_document: nothing waits for it, was printed from it, or is an order of it.
DeleteDocument(s, d) ==
    /\ rows[d] \in {"ready", "expired"} /\ task[d] = "none" /\ order[d] = "none"
    /\ Start(s, [on |-> "delete", docs |-> {d}])
    /\ files' = files \ {d}
    /\ UNCHANGED <<rows, old, order, task>>

\* order_items.document_id is ON DELETE RESTRICT.
WriteDelete(s) ==
    /\ Serving(s, "delete")
    /\ \A d \in session[s].docs : order[d] = "none"
    /\ rows' = [d \in Docs |-> IF d \in session[s].docs THEN "deleted" ELSE rows[d]]
    /\ Finish(s)
    /\ UNCHANGED <<files, old, order, task>>

\* Mutant: age alone decides.
StaleByAge == {d \in old : rows[d] = "ready"}

\* The select of purge_expired_files.
Stale == {d \in old : rows[d] = "ready" /\ task[d] # "open"}

PurgeExpiredFiles(s) ==
    /\ Stale # {}
    /\ \A r \in Sessions : session[r].on \notin {"purge", "purged"} \* the sweep's lock
    /\ Start(s, [on |-> "purge", docs |-> Stale])
    /\ UNCHANGED <<rows, files, old, order, task>>

DeleteFiles(s) ==
    /\ Serving(s, "purge")
    /\ files' = files \ session[s].docs
    /\ session' = [session EXCEPT ![s].on = "purged"]
    /\ UNCHANGED <<rows, old, order, task>>

WritePurged(s) ==
    /\ Serving(s, "purged")
    /\ rows' = [d \in Docs |-> IF d \in session[s].docs THEN "expired" ELSE rows[d]]
    /\ Finish(s)
    /\ UNCHANGED <<files, old, order, task>>

Age(d) ==
    /\ rows[d] = "ready" /\ d \notin old
    /\ old' = old \cup {d}
    /\ UNCHANGED <<rows, files, order, task, session>>

DocumentFails(s) == GiveUp(s) /\ UNCHANGED <<rows, files, old, order, task>>

DocumentsNext ==
    \/ \E d \in Docs : Settle(d) \/ ExpireUnpaid(d) \/ FinishTask(d) \/ Age(d)
    \/ \E s \in Sessions :
          \/ \E d \in Docs : CreateDocument(s, d) \/ OrderDocument(s, d) \/ DeleteDocument(s, d)
          \/ WriteDocument(s) \/ WriteOrder(s) \/ WriteDelete(s)
          \/ PurgeExpiredFiles(s) \/ DeleteFiles(s) \/ WritePurged(s)
          \/ DocumentFails(s)

DocumentsSpec == DocumentsInit /\ [][DocumentsNext]_documentVars

-----------------------------------------------------------------------------
(* Properties                                                              *)

DocumentsTypeOK ==
    /\ rows \in [Docs -> {"none", "ready", "expired", "deleted"}]
    /\ files \subseteq Docs /\ old \subseteq Docs
    /\ order \in [Docs -> {"none", "placed", "paid", "over"}]
    /\ task \in [Docs -> {"none", "open", "done"}]
    /\ \A d \in Docs : /\ rows[d] \in {"none", "deleted"} => order[d] = "none"
                       /\ order[d] = "none" => task[d] = "none"

\* "A file deleted out from under a job that has not printed yet is a student who paid
\* and got nothing, and no amount of age makes that acceptable" (documents.py).
PaidPrintsHaveTheirFile == \A d \in Docs : task[d] = "open" => d \in files

\* What a student's list shows as ready can be printed, and a file on the disk is one
\* of those: no request about it being open.
FilesFollowRows ==
    \A d \in Docs :
        (\A s \in Sessions : session[s] # Idle => d \notin session[s].docs)
            => ((d \in files) <=> (rows[d] = "ready"))
=============================================================================
