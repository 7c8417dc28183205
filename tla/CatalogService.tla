--------------------------- MODULE CatalogService ---------------------------
(***************************************************************************)
(* catalog-service: the item use cases that change state, each request run *)
(* by a thread of the API in one SQLAlchemy session that commits after the *)
(* use case has returned.  A request is cut where it talks to a store, so  *)
(* that other requests and the workers run between its calls.              *)
(*                                                                         *)
(* A read loads the row into a detached domain entity and the ORM row is   *)
(* collected at once, so update() (Session.merge) SELECTs the row again    *)
(* and marks as changed the columns in which the entity differs from it;   *)
(* commit writes those columns to whatever the row is by then.             *)
(***************************************************************************)
EXTENDS IngestionState

CONSTANTS
  Requests,                          \* request threads
  MaxConfirms, MaxDeletes, MaxUploads  \* bounds on the calls clients make

ASSUME CatalogAssumption ==
  /\ None \notin Requests
  /\ IsFiniteSet(Requests)
  /\ MaxConfirms \in Nat /\ MaxDeletes \in Nat /\ MaxUploads \in Nat

VARIABLES
  ids,    \* item ids handed out by registration
  rpc,    \* the call a request makes next
  ritem,  \* the item a request is for
  entity, \* the domain entity a request has loaded
  loaded, \* the row merge found in the database; absent: it will INSERT
  calls   \* calls made so far, by kind

catalogVars == <<ids, rpc, ritem, entity, loaded, calls>>

RequestPC == {"idle", "stat", "merge", "enqueue", "commit", "object", "row"}
Calls == [confirms : 0 .. MaxConfirms, deletes : 0 .. MaxDeletes,
          uploads : 0 .. MaxUploads]

CatalogTypeOK ==
  /\ ids \subseteq Items
  /\ rpc \in [Requests -> RequestPC]
  /\ ritem \in [Requests -> Items \cup {None}]
  /\ \A r \in Requests : rpc[r] # "idle" => ritem[r] \in Items
  /\ entity \in [Requests -> Row]
  /\ loaded \in [Requests -> Row]
  /\ calls \in Calls

CatalogInit ==
  /\ ids = {}
  /\ rpc = [r \in Requests |-> "idle"]
  /\ ritem = [r \in Requests |-> None]
  /\ entity = [r \in Requests |-> NoRow]
  /\ loaded = [r \in Requests |-> NoRow]
  /\ calls = [confirms |-> 0, deletes |-> 0, uploads |-> 0]

Goto(r, pc) == rpc' = [rpc EXCEPT ![r] = pc]

\* The session closes and the request's objects go out of scope.
EndRequest(r) ==
  /\ Goto(r, "idle")
  /\ ritem' = [ritem EXCEPT ![r] = None]
  /\ entity' = [entity EXCEPT ![r] = NoRow]
  /\ loaded' = [loaded EXCEPT ![r] = NoRow]

-----------------------------------------------------------------------------
(* Registration, and the client's PUT to the signed URL it returns.  The   *)
(* URL works for its whole lifetime, whatever has become of the item.      *)

RegisterItem(i) ==
  /\ i \notin ids
  /\ ids' = ids \cup {i}
  /\ db' = [db EXCEPT ![i] = NewRow("pending_upload")]
  /\ UNCHANGED <<rpc, ritem, entity, loaded, calls, lock, refs, objects,
                 queue, dlq, vectors, unannounced>>

Upload(i, image) ==
  /\ i \in ids
  /\ calls.uploads < MaxUploads
  /\ calls' = [calls EXCEPT !.uploads = @ + 1]
  /\ objects' = [objects EXCEPT ![i] = image]
  /\ UNCHANGED <<ids, rpc, ritem, entity, loaded, db, lock, refs, queue, dlq,
                 vectors, unannounced>>

-----------------------------------------------------------------------------
(* ConfirmCatalogItemUpload.  An unknown item is a 404, which changes      *)
(* nothing; every status is accepted.                                      *)

ConfirmGet(r, i) ==
  /\ rpc[r] = "idle"
  /\ Present(i)
  /\ calls.confirms < MaxConfirms
  /\ calls' = [calls EXCEPT !.confirms = @ + 1]
  /\ ritem' = [ritem EXCEPT ![r] = i]
  /\ entity' = [entity EXCEPT ![r] = db[i]]
  /\ Goto(r, "stat")
  /\ UNCHANGED <<ids, loaded, storeVars>>

\* stat_object finds no object: a 409.
ConfirmRejected(r) ==
  /\ rpc[r] = "stat"
  /\ objects[ritem[r]] = None
  /\ EndRequest(r)
  /\ UNCHANGED <<ids, calls, storeVars>>

\* The object is there: mark_uploaded_and_queued.
ConfirmStat(r) ==
  /\ rpc[r] = "stat"
  /\ objects[ritem[r]] # None
  /\ entity' = [entity EXCEPT ![r] = [@ EXCEPT !.status = "queued",
                                               !.failed = FALSE]]
  /\ Goto(r, "merge")
  /\ UNCHANGED <<ids, ritem, loaded, calls, storeVars>>

ConfirmMerge(r) ==
  /\ rpc[r] = "merge"
  /\ loaded' = [loaded EXCEPT ![r] = db[ritem[r]]]
  /\ Goto(r, "enqueue")
  /\ UNCHANGED <<ids, ritem, entity, calls, storeVars>>

ConfirmEnqueue(r) ==
  /\ rpc[r] = "enqueue"
  /\ Push([item |-> ritem[r], attempts |-> 0])
  /\ Goto(r, "commit")
  /\ UNCHANGED <<ids, ritem, entity, loaded, calls, db, lock, refs, objects,
                 dlq, vectors, unannounced>>

\* UPDATE ... SET of the columns in which the entity differs from what merge read.
Column(current, read, new) == IF new = read THEN current ELSE new
Flushed(current, read, new) ==
  [status |-> Column(current.status, read.status, new.status),
   phash |-> Column(current.phash, read.phash, new.phash),
   duplicateOf |-> Column(current.duplicateOf, read.duplicateOf, new.duplicateOf),
   failed |-> Column(current.failed, read.failed, new.failed)]

\* Waits for the row lock.  An UPDATE of a row deleted since merge matches no
\* row and an INSERT of a row inserted since is refused: both are a 500.
ConfirmCommit(r) ==
  LET i == ritem[r] IN
  /\ rpc[r] = "commit"
  /\ lock[i] = None
  /\ db' = CASE Present(i) /\ loaded[r].status # "absent" ->
                  [db EXCEPT ![i] = Flushed(db[i], loaded[r], entity[r])]
             [] ~Present(i) /\ loaded[r].status = "absent" ->
                  [db EXCEPT ![i] = entity[r]]
             [] OTHER -> db
  /\ EndRequest(r)
  /\ UNCHANGED <<ids, calls, lock, refs, objects, queue, dlq, vectors,
                 unannounced>>

-----------------------------------------------------------------------------
(* DeleteCatalogItem: the object first, then the row with the rows that    *)
(* reference it.                                                           *)

DeleteGet(r, i) ==
  /\ rpc[r] = "idle"
  /\ Present(i)
  /\ calls.deletes < MaxDeletes
  /\ calls' = [calls EXCEPT !.deletes = @ + 1]
  /\ ritem' = [ritem EXCEPT ![r] = i]
  /\ Goto(r, "object")
  /\ UNCHANGED <<ids, entity, loaded, storeVars>>

\* Mutant: the point goes with the object, in a step before the row.
DeleteObjectAndPoint(r) ==
  /\ rpc[r] = "object"
  /\ objects' = [objects EXCEPT ![ritem[r]] = None]
  /\ vectors' = [vectors EXCEPT ![ritem[r]] = None]
  /\ Goto(r, "row")
  /\ UNCHANGED <<ids, ritem, entity, loaded, calls, db, lock, refs, queue, dlq,
                 unannounced>>

DeleteObject(r) ==
  /\ rpc[r] = "object"
  /\ objects' = [objects EXCEPT ![ritem[r]] = None]
  /\ Goto(r, "row")
  /\ UNCHANGED <<ids, ritem, entity, loaded, calls, db, lock, refs, queue, dlq,
                 vectors, unannounced>>

\* DELETE waits for the row lock; a row that is already gone is no error.
DeleteRow(r) ==
  LET i == ritem[r] IN
  /\ rpc[r] = "row"
  /\ lock[i] = None
  /\ db' = [db EXCEPT ![i] = NoRow]
  /\ refs' = [refs EXCEPT ![i] = 0]
  /\ EndRequest(r)
  /\ UNCHANGED <<ids, calls, lock, objects, queue, dlq, vectors, unannounced>>

\* A store call raises, or the process dies: the session rolls back, and what
\* was done to the object store and the queue stays done.
RequestFails(r) ==
  /\ "request" \in Faults
  /\ rpc[r] # "idle"
  /\ EndRequest(r)
  /\ UNCHANGED <<ids, calls, storeVars>>

ConfirmStep(r) ==
  \/ ConfirmRejected(r) \/ ConfirmStat(r) \/ ConfirmMerge(r)
  \/ ConfirmEnqueue(r) \/ ConfirmCommit(r)
DeleteStep(r) == DeleteObject(r) \/ DeleteRow(r)

CatalogNext ==
  \/ \E i \in Items : RegisterItem(i)
  \/ \E i \in Items, image \in Images : Upload(i, image)
  \/ \E r \in Requests, i \in Items : ConfirmGet(r, i) \/ DeleteGet(r, i)
  \/ \E r \in Requests : ConfirmStep(r) \/ DeleteStep(r) \/ RequestFails(r)
=============================================================================
