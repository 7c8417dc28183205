-------------------------- MODULE IngestionProofs --------------------------
(***************************************************************************)
(* What the ingestion pipeline promises, for any number of items, workers, *)
(* requests and calls, and for every set of faults.                        *)
(***************************************************************************)
EXTENDS Ingestion, TLAPS

LEMMA ConstantsOK == IngestionAssumption /\ CatalogAssumption
  BY IngestionAssumption, CatalogAssumption

-----------------------------------------------------------------------------
(* Rows and jobs                                                           *)

LEMMA NewRowType == \A s \in Status : NewRow(s) \in Row
  BY DEF NewRow, Row

LEMMA NoRowType == NoRow \in Row
  BY NewRowType DEF NoRow, Status

\* Every update of a row that the code makes yields a row.
LEMMA QueuedRow ==
  \A row \in Row : [row EXCEPT !.status = "queued", !.failed = FALSE] \in Row
  BY DEF Row, Status

LEMMA FailedRow ==
  \A row \in Row : [row EXCEPT !.status = "failed", !.failed = TRUE] \in Row
  BY DEF Row, Status

LEMMA IndexedRow ==
  \A row \in Row, im \in Images \cup {None} :
    [row EXCEPT !.status = "indexed", !.phash = im, !.failed = FALSE] \in Row
  BY DEF Row, Status

LEMMA DuplicateRow ==
  \A row \in Row, im \in Images \cup {None}, d \in Items \cup {None} :
    [row EXCEPT !.status = "duplicate", !.phash = im, !.duplicateOf = d] \in Row
  BY DEF Row, Status

\* Every counted call stays within its bound.
LEMMA CountedCalls ==
  \A c \in Calls :
    /\ c.confirms < MaxConfirms => [c EXCEPT !.confirms = @ + 1] \in Calls
    /\ c.deletes < MaxDeletes => [c EXCEPT !.deletes = @ + 1] \in Calls
    /\ c.uploads < MaxUploads => [c EXCEPT !.uploads = @ + 1] \in Calls
  BY ConstantsOK DEF Calls, CatalogAssumption

LEMMA FlushedType ==
  \A current, read, new \in Row : Flushed(current, read, new) \in Row
  BY DEF Flushed, Column, Row

LEMMA FirstJob == \A i \in Items : [item |-> i, attempts |-> 0] \in Job
  BY ConstantsOK DEF Job, IngestionAssumption

LEMMA RetriedJob ==
  ASSUME NEW j \in Job, ~(j.attempts + 1 >= MaxAttempts)
  PROVE  [j EXCEPT !.attempts = @ + 1] \in Job
  BY ConstantsOK DEF Job, IngestionAssumption

-----------------------------------------------------------------------------
(* Types                                                                   *)

LEMMA InitTypeOK == Init => TypeOK
  BY ConstantsOK, NoRowType
     DEF Init, StoreInit, CatalogInit, WorkerInit, TypeOK, StoreTypeOK,
         CatalogTypeOK, WorkerTypeOK, IngestionAssumption, CatalogAssumption,
         RequestPC, WorkerPC, Calls

LEMMA CatalogTyping ==
  ASSUME TypeOK, CatalogNext, UNCHANGED workerVars
  PROVE  TypeOK'
PROOF
  <1> USE ConstantsOK, NoRowType
          DEF TypeOK, StoreTypeOK, CatalogTypeOK, Present, storeVars, Goto, Push
  <1>w. WorkerTypeOK'
    BY DEF WorkerTypeOK, workerVars
  <1>1. ASSUME NEW i \in Items, RegisterItem(i)
        PROVE  StoreTypeOK' /\ CatalogTypeOK'
    BY <1>1, NewRowType DEF RegisterItem, Status
  <1>2. ASSUME NEW i \in Items, NEW im \in Images, Upload(i, im)
        PROVE  StoreTypeOK' /\ CatalogTypeOK'
    <2>1. calls' \in Calls
      BY <1>2, CountedCalls DEF Upload
    <2> QED
      BY <1>2, <2>1 DEF Upload
  <1>3. ASSUME NEW r \in Requests, NEW i \in Items, ConfirmGet(r, i)
        PROVE  StoreTypeOK' /\ CatalogTypeOK'
    <2>1. calls' \in Calls
      BY <1>3, CountedCalls DEF ConfirmGet
    <2> QED
      BY <1>3, <2>1 DEF ConfirmGet, RequestPC
  <1>4. ASSUME NEW r \in Requests, NEW i \in Items, DeleteGet(r, i)
        PROVE  StoreTypeOK' /\ CatalogTypeOK'
    <2>1. calls' \in Calls
      BY <1>4, CountedCalls DEF DeleteGet
    <2> QED
      BY <1>4, <2>1 DEF DeleteGet, RequestPC
  <1>5. ASSUME NEW r \in Requests, EndRequest(r), UNCHANGED <<ids, calls>>
        PROVE  CatalogTypeOK'
    BY <1>5 DEF EndRequest, RequestPC
  <1>6. ASSUME NEW r \in Requests, ConfirmStat(r)
        PROVE  StoreTypeOK' /\ CatalogTypeOK'
    <2>1. [entity[r] EXCEPT !.status = "queued", !.failed = FALSE] \in Row
      BY QueuedRow
    <2> QED
      BY <1>6, <2>1 DEF ConfirmStat, RequestPC
  <1>6r. ASSUME NEW r \in Requests, ConfirmRejected(r)
         PROVE  StoreTypeOK' /\ CatalogTypeOK'
    BY <1>5, <1>6r DEF ConfirmRejected
  <1>7. ASSUME NEW r \in Requests, ConfirmMerge(r)
        PROVE  StoreTypeOK' /\ CatalogTypeOK'
    BY <1>7 DEF ConfirmMerge, RequestPC
  <1>8. ASSUME NEW r \in Requests, ConfirmEnqueue(r)
        PROVE  StoreTypeOK' /\ CatalogTypeOK'
    BY <1>8, FirstJob DEF ConfirmEnqueue, RequestPC
  <1>9. ASSUME NEW r \in Requests, ConfirmCommit(r)
        PROVE  StoreTypeOK' /\ CatalogTypeOK'
    BY <1>5, <1>9, FlushedType DEF ConfirmCommit
  <1>10. ASSUME NEW r \in Requests, DeleteObject(r)
         PROVE  StoreTypeOK' /\ CatalogTypeOK'
    BY <1>10 DEF DeleteObject, RequestPC
  <1>11. ASSUME NEW r \in Requests, DeleteRow(r)
         PROVE  StoreTypeOK' /\ CatalogTypeOK'
    BY <1>5, <1>11 DEF DeleteRow
  <1>12. ASSUME NEW r \in Requests, RequestFails(r)
         PROVE  StoreTypeOK' /\ CatalogTypeOK'
    BY <1>5, <1>12 DEF RequestFails
  <1>13. StoreTypeOK' /\ CatalogTypeOK'
    BY <1>1, <1>2, <1>3, <1>4, <1>6, <1>6r, <1>7, <1>8, <1>9, <1>10, <1>11, <1>12
       DEF CatalogNext, ConfirmStep, DeleteStep
  <1> QED
    BY <1>w, <1>13

LEMMA WorkerTyping ==
  ASSUME TypeOK, WorkerNext, UNCHANGED catalogVars
  PROVE  TypeOK'
PROOF
  <1> USE ConstantsOK
          DEF TypeOK, StoreTypeOK, WorkerTypeOK, Present, storeVars, Advance, Push
  <1>c. CatalogTypeOK'
    BY DEF CatalogTypeOK, catalogVars
  <1> SUFFICES ASSUME NEW w \in Workers, WorkerStep(w) \/ WorkerFault(w)
               PROVE  StoreTypeOK' /\ WorkerTypeOK'
    BY <1>c DEF WorkerNext
  <1>a. wpc[w] # "idle" => job[w] \in Job /\ job[w].item \in Items
    BY DEF Job
  <1>e. ASSUME wpc[w] # "idle", EndSession(w)
        PROVE  /\ lock' \in [Items -> Workers \cup {None}]
               /\ marked' \in [Workers -> BOOLEAN]
               /\ image' \in [Workers -> Images \cup {None}]
               /\ duplicate' \in [Workers -> Items \cup {None}]
    BY <1>e, <1>a DEF EndSession, Unlocked
  <1>j. ASSUME EndJob(w)
        PROVE  /\ wpc' \in [Workers -> WorkerPC]
               /\ job' \in [Workers -> Job \cup {NoJob}]
               /\ \A v \in Workers : wpc'[v] # "idle" => job'[v] \in Job
    BY <1>j DEF EndJob, WorkerPC
  <1>r. ASSUME wpc[w] # "idle", Raise(w) \/ RaisePermanent(w)
        PROVE  WorkerTypeOK' /\ lock' \in [Items -> Workers \cup {None}]
    <2>1. ~(job[w].attempts + 1 >= MaxAttempts)
            => [job[w] EXCEPT !.attempts = @ + 1] \in Job
      BY <1>a, <1>r, RetriedJob
    <2>2. /\ wpc' \in [Workers -> WorkerPC]
          /\ job' \in [Workers -> Job \cup {NoJob}]
          /\ \A v \in Workers : wpc'[v] # "idle" => job'[v] \in Job
      <3>1. CASE job' = job /\ wpc' = [wpc EXCEPT ![w] = "fail"]
        BY <1>a, <1>r, <3>1 DEF WorkerPC
      <3>2. CASE /\ ~(job[w].attempts + 1 >= MaxAttempts)
                 /\ job' = [job EXCEPT ![w].attempts = @ + 1]
                 /\ wpc' = [wpc EXCEPT ![w] = "requeue"]
        <4>1. job'[w] \in Job /\ job' = [job EXCEPT ![w] = job'[w]]
          BY <2>1, <3>2
        <4> QED
          BY <3>2, <4>1 DEF WorkerPC
      <3> QED
        BY <1>r, <3>1, <3>2 DEF Raise, RaisePermanent
    <2> QED
      BY <1>e, <1>r, <2>2 DEF Raise, RaisePermanent
  <1>1. CASE Pop(w)
    <2>1. Head(queue) \in Job /\ Tail(queue) \in Seq(Job)
      BY <1>1 DEF Pop
    <2> QED
      BY <1>1, <2>1 DEF Pop, WorkerPC, Processing
  <1>2. CASE Requeue(w)
    BY <1>a, <1>j, <1>2 DEF Requeue
  <1>3. CASE Fail(w)
    <2>1. db' \in [Items -> Row]
      BY <1>a, <1>3, FailedRow DEF Fail
    <2> QED
      BY <1>a, <1>3, <2>1 DEF Fail, WorkerPC
  <1>4. CASE DeadLetter(w)
    BY <1>a, <1>j, <1>4 DEF DeadLetter
  <1>5. CASE GetItem(w)
    BY <1>a, <1>j, <1>5 DEF GetItem, WorkerPC, Processing
  <1>6. CASE MarkProcessing(w)
    BY <1>a, <1>6 DEF MarkProcessing, WorkerPC, Processing
  <1>7. CASE Download(w)
    BY <1>a, <1>r, <1>7 DEF Download, WorkerPC, Processing
  <1>8. CASE FindNoDuplicate(w)
    BY <1>a, <1>8 DEF FindNoDuplicate, FlushMarked, WorkerPC, Processing
  <1>8d. CASE FindDuplicate(w)
    <2>1. duplicate' \in [Workers -> Items \cup {None}]
      BY <1>8d DEF FindDuplicate, Duplicates, ClosestDuplicates, IndexedPhashes
    <2> QED
      BY <1>a, <1>8d, <2>1 DEF FindDuplicate, FlushMarked, WorkerPC, Processing
  <1>9. CASE Upsert(w)
    BY <1>a, <1>9 DEF Upsert, WorkerPC, Processing
  <1>10. CASE MarkIndexedAndBump(w)
    BY <1>a, <1>10 DEF MarkIndexedAndBump, WorkerPC, Processing
  <1>11. CASE CommitDuplicate(w)
    <2>1. db' \in [Items -> Row]
      <3>1. [db[job[w].item] EXCEPT !.status = "duplicate", !.phash = image[w],
                                    !.duplicateOf = duplicate[w]] \in Row
        BY <1>a, <1>11, DuplicateRow DEF CommitDuplicate
      <3> QED
        BY <1>a, <1>11, <3>1 DEF CommitDuplicate
    <2> QED
      BY <1>e, <1>j, <1>r, <1>11, <2>1 DEF CommitDuplicate
  <1>12. CASE CommitIndexed(w)
    <2>1. db' \in [Items -> Row]
      <3>1. [db[job[w].item] EXCEPT !.status = "indexed", !.phash = image[w],
                                    !.failed = FALSE] \in Row
        BY <1>a, <1>12, IndexedRow DEF CommitIndexed
      <3> QED
        BY <1>a, <1>12, <3>1 DEF CommitIndexed
    <2>2. refs' \in [Items -> Nat]
      BY <1>a, <1>12 DEF CommitIndexed
    <2> QED
      BY <1>e, <1>j, <1>r, <1>12, <2>1, <2>2 DEF CommitIndexed
  <1>12g. CASE RowIsGone(w)
    BY <1>r, <1>12g DEF RowIsGone
  <1>13. CASE TransientFault(w)
    BY <1>r, <1>13 DEF TransientFault, Processing
  <1>14. CASE BumpFails(w)
    BY <1>a, <1>14 DEF BumpFails, WorkerPC, Processing
  <1>15. CASE FailSwallowed(w)
    BY <1>a, <1>15 DEF FailSwallowed, WorkerPC
  <1>16. CASE PushFails(w)
    BY <1>j, <1>16 DEF PushFails
  <1>17. CASE Crash(w)
    BY <1>e, <1>j, <1>17 DEF Crash
  <1> QED
    BY <1>1, <1>2, <1>3, <1>4, <1>5, <1>6, <1>7, <1>8, <1>8d, <1>9, <1>10, <1>11,
       <1>12, <1>12g, <1>13, <1>14, <1>15, <1>16, <1>17
       DEF WorkerStep, ProcessStep, WorkerFault

\* The stores, the requests and the workers always have the values declared for
\* them; in particular no job carries max_attempts attempts or more.
THEOREM TypeCorrect == Spec => []TypeOK
PROOF
  <1>1. ASSUME TypeOK, [Next]_vars PROVE TypeOK'
    <2>1. CASE CatalogNext /\ UNCHANGED workerVars
      BY <1>1, <2>1, CatalogTyping
    <2>2. CASE WorkerNext /\ UNCHANGED catalogVars
      BY <1>1, <2>2, WorkerTyping
    <2>3. CASE UNCHANGED vars
      BY <1>1, <2>3 DEF vars, storeVars, catalogVars, workerVars, TypeOK,
         StoreTypeOK, CatalogTypeOK, WorkerTypeOK
    <2> QED
      BY <1>1, <2>1, <2>2, <2>3 DEF Next
  <1> QED
    BY <1>1, InitTypeOK, PTL DEF Spec

-----------------------------------------------------------------------------
(* INDEXED items are backed                                                *)

\* A request that has verified the upload writes QUEUED and no other status.
EntityIsQueued ==
  \A r \in Requests :
    rpc[r] \in {"merge", "enqueue", "commit"} => entity[r].status = "queued"

\* A worker has the bytes it embeds, and has written the item's point by the
\* time it bumps the index version and commits the item as INDEXED.
PointIsWritten ==
  \A w \in Workers :
    /\ wpc[w] \in {"dedup", "upsert"} => image[w] # None
    /\ wpc[w] = "bump" => vectors[job[w].item] # None
    /\ wpc[w] = "commit" /\ duplicate[w] = None => vectors[job[w].item] # None

BackedInv == EntityIsQueued /\ PointIsWritten /\ IndexedIsBacked /\ RefsHaveRow

LEMMA CatalogBacked ==
  ASSUME TypeOK, BackedInv, CatalogNext, UNCHANGED workerVars
  PROVE  BackedInv'
PROOF
  <1> USE DEF TypeOK, StoreTypeOK, CatalogTypeOK, BackedInv, EntityIsQueued,
              PointIsWritten, IndexedIsBacked, RefsHaveRow, Present, Goto,
              storeVars, workerVars
  <1>1. ASSUME NEW i \in Items, RegisterItem(i) PROVE BackedInv'
    BY <1>1 DEF RegisterItem, NewRow
  <1>2. ASSUME NEW i \in Items, NEW im \in Images, Upload(i, im) PROVE BackedInv'
    BY <1>2 DEF Upload
  <1>3. ASSUME NEW r \in Requests, NEW i \in Items, ConfirmGet(r, i)
        PROVE  BackedInv'
    BY <1>3 DEF ConfirmGet
  <1>4. ASSUME NEW r \in Requests, NEW i \in Items, DeleteGet(r, i)
        PROVE  BackedInv'
    BY <1>4 DEF DeleteGet
  <1>5. ASSUME NEW r \in Requests, EndRequest(r) PROVE EntityIsQueued'
    BY <1>5 DEF EndRequest
  <1>6. ASSUME NEW r \in Requests, ConfirmStat(r) PROVE BackedInv'
    BY <1>6 DEF ConfirmStat, Row
  <1>7. ASSUME NEW r \in Requests, ConfirmRejected(r) PROVE BackedInv'
    BY <1>5, <1>7 DEF ConfirmRejected
  <1>8. ASSUME NEW r \in Requests, ConfirmMerge(r) PROVE BackedInv'
    BY <1>8 DEF ConfirmMerge
  <1>9. ASSUME NEW r \in Requests, ConfirmEnqueue(r) PROVE BackedInv'
    BY <1>9 DEF ConfirmEnqueue
  <1>10. ASSUME NEW r \in Requests, ConfirmCommit(r) PROVE BackedInv'
    <2>1. \A i \in Items : db'[i].status \in {db[i].status, "queued"}
      BY <1>10 DEF ConfirmCommit, Flushed, Column
    <2>2. \A i \in Items : db[i].status # "absent" => db'[i].status # "absent"
      BY <2>1
    <2> QED
      BY <1>5, <1>10, <2>1, <2>2 DEF ConfirmCommit
  <1>11. ASSUME NEW r \in Requests, DeleteObject(r) PROVE BackedInv'
    BY <1>11 DEF DeleteObject
  <1>12. ASSUME NEW r \in Requests, DeleteRow(r) PROVE BackedInv'
    BY <1>5, <1>12 DEF DeleteRow, NoRow, NewRow
  <1>13. ASSUME NEW r \in Requests, RequestFails(r) PROVE BackedInv'
    BY <1>5, <1>13 DEF RequestFails
  <1> QED
    BY <1>1, <1>2, <1>3, <1>4, <1>6, <1>7, <1>8, <1>9, <1>10, <1>11, <1>12, <1>13
       DEF CatalogNext, ConfirmStep, DeleteStep

LEMMA WorkerBacked ==
  ASSUME TypeOK, BackedInv, WorkerNext, UNCHANGED catalogVars
  PROVE  BackedInv'
PROOF
  <1> USE ConstantsOK
          DEF TypeOK, StoreTypeOK, WorkerTypeOK, IngestionAssumption, Present,
              Advance, storeVars
  <1>c. EntityIsQueued'
    BY DEF BackedInv, EntityIsQueued, catalogVars
  <1> SUFFICES ASSUME NEW w \in Workers, WorkerStep(w) \/ WorkerFault(w)
               PROVE  PointIsWritten' /\ IndexedIsBacked' /\ RefsHaveRow'
    BY <1>c DEF WorkerNext, BackedInv
  <1> USE DEF BackedInv, PointIsWritten, IndexedIsBacked, RefsHaveRow
  <1>a. wpc[w] # "idle" => job[w] \in Job /\ job[w].item \in Items
    BY DEF Job
  <1>r. ASSUME wpc[w] # "idle", Raise(w) \/ RaisePermanent(w), UNCHANGED vectors
        PROVE  PointIsWritten'
    <2>1. wpc'[w] \in {"fail", "requeue"}
      BY <1>r DEF Raise, RaisePermanent
    <2>2. \A v \in Workers \ {w} : wpc'[v] = wpc[v] /\ job'[v] = job[v]
      BY <1>r DEF Raise, RaisePermanent
    <2>3. \A v \in Workers \ {w} : image'[v] = image[v] /\ duplicate'[v] = duplicate[v]
      BY <1>r DEF Raise, RaisePermanent, EndSession
    <2> HIDE DEF TypeOK, StoreTypeOK, WorkerTypeOK, IngestionAssumption
    <2> QED
      BY <1>r, <2>1, <2>2, <2>3
  <1>j. ASSUME EndJob(w), UNCHANGED vectors,
               UNCHANGED <<image, duplicate>> \/ EndSession(w)
        PROVE  PointIsWritten'
    BY <1>j DEF EndJob, EndSession
  <1>1. CASE Pop(w)
    BY <1>1 DEF Pop
  <1>2. CASE Requeue(w)
    BY <1>j, <1>2 DEF Requeue
  <1>3. CASE Fail(w)
    BY <1>a, <1>3 DEF Fail, Row
  <1>4. CASE DeadLetter(w)
    BY <1>j, <1>4 DEF DeadLetter
  <1>5. CASE GetItem(w)
    BY <1>j, <1>5 DEF GetItem
  <1>6. CASE MarkProcessing(w)
    BY <1>6 DEF MarkProcessing
  <1>7. CASE Download(w)
    BY <1>a, <1>r, <1>7 DEF Download
  <1>8. CASE FindNoDuplicate(w)
    BY <1>8 DEF FindNoDuplicate
  <1>9. CASE FindDuplicate(w)
    <2>1. duplicate'[w] \in Items
      BY <1>9 DEF FindDuplicate, Duplicates, ClosestDuplicates, IndexedPhashes
    <2> QED
      BY <1>9, <2>1 DEF FindDuplicate
  <1>10. CASE Upsert(w)
    BY <1>a, <1>10 DEF Upsert
  <1>11. CASE MarkIndexedAndBump(w)
    BY <1>11 DEF MarkIndexedAndBump
  <1>12. CASE CommitDuplicate(w)
    BY <1>a, <1>j, <1>12 DEF CommitDuplicate, Row
  <1>13. CASE CommitIndexed(w)
    BY <1>a, <1>j, <1>13 DEF CommitIndexed, Row
  <1>14. CASE RowIsGone(w)
    BY <1>r, <1>14 DEF RowIsGone
  <1>15. CASE TransientFault(w)
    BY <1>r, <1>15 DEF TransientFault, Processing
  <1>16. CASE BumpFails(w)
    BY <1>16 DEF BumpFails
  <1>17. CASE FailSwallowed(w)
    BY <1>17 DEF FailSwallowed
  <1>18. CASE PushFails(w)
    BY <1>j, <1>18 DEF PushFails
  <1>19. CASE Crash(w)
    BY <1>j, <1>19 DEF Crash
  <1> QED
    BY <1>1, <1>2, <1>3, <1>4, <1>5, <1>6, <1>7, <1>8, <1>9, <1>10, <1>11,
       <1>12, <1>13, <1>14, <1>15, <1>16, <1>17, <1>18, <1>19
       DEF WorkerStep, ProcessStep, WorkerFault

LEMMA BackedInvariant == Spec => []BackedInv
PROOF
  <1>1. Init => BackedInv
    BY ConstantsOK
       DEF Init, StoreInit, CatalogInit, WorkerInit, BackedInv, EntityIsQueued,
           PointIsWritten, IndexedIsBacked, RefsHaveRow, NoRow, NewRow
  <1>2. ASSUME TypeOK, BackedInv, [Next]_vars PROVE BackedInv'
    <2>1. CASE CatalogNext /\ UNCHANGED workerVars
      BY <1>2, <2>1, CatalogBacked
    <2>2. CASE WorkerNext /\ UNCHANGED catalogVars
      BY <1>2, <2>2, WorkerBacked
    <2>3. CASE UNCHANGED vars
      BY <1>2, <2>3
         DEF vars, storeVars, catalogVars, workerVars, BackedInv, EntityIsQueued,
             PointIsWritten, IndexedIsBacked, RefsHaveRow, Present
    <2> QED
      BY <1>2, <2>1, <2>2, <2>3 DEF Next
  <1> QED
    BY <1>1, <1>2, TypeCorrect, PTL DEF Spec

\* An INDEXED item is searchable and has an embedding reference, whatever
\* requests, workers and faults interleave.
THEOREM IndexedBacked == Spec => []IndexedIsBacked
  BY BackedInvariant, PTL DEF BackedInv

\* No embedding reference outlives its item.
THEOREM RefsBacked == Spec => []RefsHaveRow
  BY BackedInvariant, PTL DEF BackedInv
=============================================================================
