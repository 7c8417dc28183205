------------------------------ MODULE JobLedger ------------------------------
(***************************************************************************)
(* What becomes of ingestion jobs, as a tenant may expect it, with no      *)
(* queue, worker or transaction in sight.  A confirmation opens one job.   *)
(* An open job ends when its item is decided or gone, or it is buried in   *)
(* the dead-letter queue; nothing else ends it unless jobs can be lost,    *)
(* and nobody decides an item without a job.                               *)
(***************************************************************************)
EXTENDS Naturals

CONSTANTS Items, Requests, None, Losses \* whether jobs can be lost

VARIABLES
  asking, \* the item of a confirmation that has not opened its job
  pushed, \* the item of one that has, and has yet to write the row
  open,   \* open jobs of each item
  astray, \* jobs that have found the item gone and are about to end
  dead,   \* items with a job in the dead-letter queue
  shown   \* what the catalog shows of an item

ledgerVars == <<asking, pushed, open, astray, dead, shown>>

Init ==
  /\ asking = [r \in Requests |-> None]
  /\ pushed = [r \in Requests |-> None]
  /\ open = [i \in Items |-> 0]
  /\ astray = [i \in Items |-> 0]
  /\ dead = {}
  /\ shown = [i \in Items |-> "none"]

Show(i, what) == shown' = [shown EXCEPT ![i] = what]

Register(i) ==
  /\ shown[i] = "none"
  /\ Show(i, "waiting")
  /\ UNCHANGED <<asking, pushed, open, astray, dead>>

Delete(i) ==
  /\ Show(i, "none")
  /\ UNCHANGED <<asking, pushed, open, astray, dead>>

-----------------------------------------------------------------------------
(* Confirmations                                                           *)

Ask(r, i) ==
  /\ asking[r] = None /\ pushed[r] = None
  /\ shown[i] # "none"
  /\ asking' = [asking EXCEPT ![r] = i]
  /\ UNCHANGED <<pushed, open, astray, dead, shown>>

Push(r) ==
  LET i == asking[r] IN
  /\ i # None
  /\ open' = [open EXCEPT ![i] = @ + 1]
  /\ pushed' = [pushed EXCEPT ![r] = i]
  /\ asking' = [asking EXCEPT ![r] = None]
  /\ UNCHANGED <<astray, dead, shown>>

\* The row is written when the job is out, also over the outcome of the job.
Write(r) ==
  LET i == pushed[r] IN
  /\ i # None
  /\ Show(i, "waiting") \/ UNCHANGED shown
  /\ pushed' = [pushed EXCEPT ![r] = None]
  /\ UNCHANGED <<asking, open, astray, dead>>

Withdraw(r) ==
  /\ asking' = [asking EXCEPT ![r] = None]
  /\ pushed' = [pushed EXCEPT ![r] = None]
  /\ UNCHANGED <<open, astray, dead, shown>>

-----------------------------------------------------------------------------
(* Jobs                                                                    *)

End(i) == open[i] > 0 /\ open' = [open EXCEPT ![i] = @ - 1]

\* The job decides its item, or finds it decided or gone.
Settle(i) ==
  /\ End(i)
  /\ \/ Show(i, "done")
     \/ shown[i] \in {"done", "none"} /\ UNCHANGED shown
  /\ UNCHANGED <<asking, pushed, astray, dead>>

\* The row says FAILED before the job is buried.
Fail(i) ==
  /\ open[i] > 0
  /\ shown[i] # "none"
  /\ Show(i, "failed")
  /\ UNCHANGED <<asking, pushed, open, astray, dead>>

Bury(i) ==
  /\ End(i)
  /\ dead' = dead \cup {i}
  /\ UNCHANGED <<asking, pushed, astray, shown>>

Lose(i) ==
  /\ Losses
  /\ End(i)
  /\ UNCHANGED <<asking, pushed, astray, dead, shown>>

\* A job that has found the item gone ends, or is tried again, even if a late
\* confirmation has brought the item back.
Stray(i) ==
  /\ End(i)
  /\ shown[i] = "none"
  /\ astray' = [astray EXCEPT ![i] = @ + 1]
  /\ UNCHANGED <<asking, pushed, dead, shown>>

LeaveStray(i) ==
  /\ astray[i] > 0
  /\ astray' = [astray EXCEPT ![i] = @ - 1]
  /\ open' = [open EXCEPT ![i] = @ + 1] \/ UNCHANGED open
  /\ UNCHANGED <<asking, pushed, dead, shown>>

Next ==
  \/ \E r \in Requests : Push(r) \/ Write(r) \/ Withdraw(r) \/ \E i \in Items : Ask(r, i)
  \/ \E i \in Items :
       \/ Register(i) \/ Delete(i) \/ Settle(i) \/ Fail(i) \/ Bury(i) \/ Lose(i)
       \/ Stray(i) \/ LeaveStray(i)

Spec == Init /\ [][Next]_ledgerVars
=============================================================================
