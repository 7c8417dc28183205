------------------------- MODULE IngestionJobProofs -------------------------
(***************************************************************************)
(* Row locks, recorded duplicates, dead-lettered jobs and the number of    *)
(* jobs, for any number of items, workers, requests and calls; and that    *)
(* the pipeline implements the ledger of jobs.                             *)
(***************************************************************************)
EXTENDS IngestionProofs, FiniteSetTheorems

-----------------------------------------------------------------------------
(* Row locks                                                               *)

\* The row a worker has locked stays in the table until the lock is released.
LockedIsPresent == \A i \in Items : lock[i] # None => Present(i)

LockInv == RowLockIsHeld /\ LockedIsPresent

LEMMA CatalogLocks ==
  ASSUME TypeOK, EntityIsQueued, LockInv, CatalogNext, UNCHANGED workerVars
  PROVE  LockInv'
PROOF
  <1> USE DEF TypeOK, StoreTypeOK, CatalogTypeOK, LockInv, RowLockIsHeld,
              LockedIsPresent, Present, storeVars, workerVars
  <1>1. UNCHANGED lock
    BY DEF CatalogNext, ConfirmStep, DeleteStep, RegisterItem, Upload,
           ConfirmGet, DeleteGet, ConfirmStat, ConfirmRejected, ConfirmMerge,
           ConfirmEnqueue, ConfirmCommit, DeleteObject, DeleteRow, RequestFails
  <1>2. ASSUME NEW i \in Items, RegisterItem(i) PROVE LockedIsPresent'
    BY <1>1, <1>2 DEF RegisterItem, NewRow
  <1>3. ASSUME NEW r \in Requests, ConfirmCommit(r) PROVE LockedIsPresent'
    <2>1. \A i \in Items : db'[i].status \in {db[i].status, "queued"}
      BY <1>3 DEF ConfirmCommit, Flushed, Column, EntityIsQueued
    <2> QED
      BY <1>1, <2>1
  <1>4. ASSUME NEW r \in Requests, DeleteRow(r) PROVE LockedIsPresent'
    BY <1>1, <1>4 DEF DeleteRow
  <1>5. CASE UNCHANGED db
    BY <1>1, <1>5
  <1> QED
    BY <1>1, <1>2, <1>3, <1>4, <1>5
       DEF CatalogNext, ConfirmStep, DeleteStep, Upload, ConfirmGet, DeleteGet,
           ConfirmStat, ConfirmRejected, ConfirmMerge, ConfirmEnqueue,
           DeleteObject, RequestFails

LEMMA WorkerLocks ==
  ASSUME TypeOK, LockInv, WorkerNext, UNCHANGED catalogVars
  PROVE  LockInv'
PROOF
  <1> USE ConstantsOK
          DEF TypeOK, StoreTypeOK, WorkerTypeOK, IngestionAssumption, LockInv,
              RowLockIsHeld, LockedIsPresent, Present, Advance, storeVars
  <1> SUFFICES ASSUME NEW w \in Workers, WorkerStep(w) \/ WorkerFault(w)
               PROVE  LockInv'
    BY DEF WorkerNext
  <1>a. wpc[w] # "idle" => job[w] \in Job /\ job[w].item \in Items
    BY DEF Job
  \* Once its session has ended the worker holds no lock.
  <1>e. ASSUME wpc[w] # "idle", EndSession(w)
        PROVE  /\ \A i \in Items : lock'[i] # None => lock'[i] = lock[i] /\ lock[i] # w
               /\ \A v \in Workers \ {w} : marked'[v] = marked[v]
    BY <1>a, <1>e DEF EndSession, Unlocked
  <1>o. ASSUME wpc[w] # "idle", EndSession(w),
               \A v \in Workers \ {w} : wpc'[v] = wpc[v] /\ job'[v] = job[v]
        PROVE  RowLockIsHeld'
    BY <1>e, <1>o
  <1>r. ASSUME wpc[w] # "idle", Raise(w) \/ RaisePermanent(w), UNCHANGED db
        PROVE  LockInv'
    <2>1. \A v \in Workers \ {w} : wpc'[v] = wpc[v] /\ job'[v] = job[v]
      BY <1>r DEF Raise, RaisePermanent
    <2>2. EndSession(w)
      BY <1>r DEF Raise, RaisePermanent
    <2> QED
      BY <1>e, <1>o, <1>r, <2>1, <2>2
  <1>j. ASSUME wpc[w] # "idle", EndJob(w), EndSession(w) PROVE RowLockIsHeld'
    BY <1>o, <1>j DEF EndJob
  <1>1. CASE Pop(w)
    BY <1>1 DEF Pop
  <1>2. CASE Requeue(w)
    BY <1>2 DEF Requeue, EndJob
  <1>3. CASE Fail(w)
    BY <1>a, <1>3 DEF Fail, Row
  <1>4. CASE DeadLetter(w)
    BY <1>4 DEF DeadLetter, EndJob
  <1>5. CASE GetItem(w)
    <2>1. \A v \in Workers \ {w} : wpc'[v] = wpc[v] /\ job'[v] = job[v]
      BY <1>5 DEF GetItem, EndJob
    <2>2. wpc[w] = "get" /\ w # None
      BY <1>5 DEF GetItem
    <2>3. \A i \in Items : lock[i] # w
      BY <2>2
    <2>4. UNCHANGED <<db, lock, marked>>
      BY <1>5 DEF GetItem
    <2> QED
      BY <2>1, <2>3, <2>4
  <1>6. CASE MarkProcessing(w)
    BY <1>6 DEF MarkProcessing
  <1>7. CASE Download(w)
    <2>1. CASE RaisePermanent(w)
      BY <1>r, <1>7, <2>1 DEF Download
    <2>2. CASE ~RaisePermanent(w)
      <3>1. /\ wpc[w] = "download" /\ wpc' = [wpc EXCEPT ![w] = "dedup"]
            /\ UNCHANGED <<db, job, lock, marked>>
        BY <1>7, <2>2 DEF Download
      <3> QED
        BY <3>1
    <2> QED
      BY <1>7, <2>1, <2>2 DEF Download
  <1>8. CASE FindNoDuplicate(w)
    BY <1>a, <1>8 DEF FindNoDuplicate, FlushMarked
  <1>9. CASE FindDuplicate(w)
    BY <1>a, <1>9 DEF FindDuplicate, FlushMarked
  <1>10. CASE Upsert(w)
    BY <1>10 DEF Upsert
  <1>11. CASE MarkIndexedAndBump(w)
    BY <1>a, <1>11 DEF MarkIndexedAndBump
  <1>12. CASE CommitDuplicate(w)
    <2>1. \A i \in Items : db'[i].status \in {db[i].status, "duplicate"}
      BY <1>a, <1>12 DEF CommitDuplicate, Row
    <2> QED
      BY <1>e, <1>j, <1>12, <2>1 DEF CommitDuplicate
  <1>13. CASE CommitIndexed(w)
    <2>1. \A i \in Items : db'[i].status \in {db[i].status, "indexed"}
      BY <1>a, <1>13 DEF CommitIndexed, Row
    <2> QED
      BY <1>e, <1>j, <1>13, <2>1 DEF CommitIndexed
  <1>14. CASE RowIsGone(w)
    BY <1>r, <1>14 DEF RowIsGone
  <1>15. CASE TransientFault(w)
    BY <1>r, <1>15 DEF TransientFault, Processing
  <1>16. CASE BumpFails(w)
    BY <1>a, <1>16 DEF BumpFails
  <1>17. CASE FailSwallowed(w)
    BY <1>17 DEF FailSwallowed
  <1>18. CASE PushFails(w)
    BY <1>18 DEF PushFails, EndJob
  <1>19. CASE Crash(w)
    BY <1>e, <1>j, <1>19 DEF Crash
  <1> QED
    BY <1>1, <1>2, <1>3, <1>4, <1>5, <1>6, <1>7, <1>8, <1>9, <1>10, <1>11,
       <1>12, <1>13, <1>14, <1>15, <1>16, <1>17, <1>18, <1>19
       DEF WorkerStep, ProcessStep, WorkerFault

LEMMA LockInvariant == Spec => []LockInv
PROOF
  <1>1. Init => LockInv
    BY DEF Init, StoreInit, LockInv, RowLockIsHeld, LockedIsPresent
  <1>2. ASSUME TypeOK, BackedInv, LockInv, [Next]_vars PROVE LockInv'
    <2>1. CASE CatalogNext /\ UNCHANGED workerVars
      BY <1>2, <2>1, CatalogLocks DEF BackedInv
    <2>2. CASE WorkerNext /\ UNCHANGED catalogVars
      BY <1>2, <2>2, WorkerLocks
    <2>3. CASE UNCHANGED vars
      BY <1>2, <2>3
         DEF vars, storeVars, workerVars, LockInv, RowLockIsHeld,
             LockedIsPresent, Present
    <2> QED
      BY <1>2, <2>1, <2>2, <2>3 DEF Next
  <1> QED
    BY <1>1, <1>2, TypeCorrect, BackedInvariant, PTL DEF Spec

\* A row lock is held by the worker that processes the row, from its dedup query
\* to the end of its transaction; no error path, crash or retry leaves it behind.
THEOREM LocksHeld == Spec => []RowLockIsHeld
  BY LockInvariant, PTL DEF LockInv

-----------------------------------------------------------------------------
(* Recorded duplicates                                                     *)

\* The item d may be recorded as the original of item i.  A point once written is
\* only ever written again, so that what is stronger than asked is kept: d has one
\* whether or not its row is there.
Original(i, d) == d # None => vectors[d] # None /\ TenantOf[d] = TenantOf[i]

\* So are the originals a worker has found and a request has read.
DuplicateInv ==
  /\ \A i \in Items : Original(i, db[i].duplicateOf)
  /\ \A w \in Workers :
       IF wpc[w] = "commit" THEN Original(job[w].item, duplicate[w])
                            ELSE duplicate[w] = None
  /\ \A r \in Requests :
       rpc[r] \in {"stat", "merge", "enqueue", "commit"}
         => Original(ritem[r], entity[r].duplicateOf)

LEMMA CatalogDuplicates ==
  ASSUME TypeOK, DuplicateInv, CatalogNext, UNCHANGED workerVars
  PROVE  DuplicateInv'
PROOF
  <1> USE DEF TypeOK, StoreTypeOK, CatalogTypeOK, DuplicateInv, Original, Goto,
              storeVars, workerVars
  <1>1. ASSUME NEW i \in Items, RegisterItem(i) PROVE DuplicateInv'
    BY <1>1 DEF RegisterItem, NewRow
  <1>2. ASSUME NEW i \in Items, NEW im \in Images, Upload(i, im)
        PROVE  DuplicateInv'
    BY <1>2 DEF Upload
  <1>3. ASSUME NEW r \in Requests, NEW i \in Items, ConfirmGet(r, i)
        PROVE  DuplicateInv'
    BY <1>3 DEF ConfirmGet
  <1>4. ASSUME NEW r \in Requests, NEW i \in Items, DeleteGet(r, i)
        PROVE  DuplicateInv'
    BY <1>4 DEF DeleteGet
  <1>5. ASSUME NEW r \in Requests, ConfirmStat(r) PROVE DuplicateInv'
    BY <1>5 DEF ConfirmStat, Row
  <1>6. ASSUME NEW r \in Requests, ConfirmRejected(r) PROVE DuplicateInv'
    BY <1>6 DEF ConfirmRejected, EndRequest
  <1>7. ASSUME NEW r \in Requests, ConfirmMerge(r) PROVE DuplicateInv'
    BY <1>7 DEF ConfirmMerge
  <1>8. ASSUME NEW r \in Requests, ConfirmEnqueue(r) PROVE DuplicateInv'
    BY <1>8 DEF ConfirmEnqueue
  <1>9. ASSUME NEW r \in Requests, ConfirmCommit(r) PROVE DuplicateInv'
    <2>1. \A i \in Items : Original(i, db'[i].duplicateOf)
      BY <1>9 DEF ConfirmCommit, Flushed, Column
    <2> QED
      BY <1>9, <2>1 DEF ConfirmCommit, EndRequest
  <1>10. ASSUME NEW r \in Requests, DeleteObject(r) PROVE DuplicateInv'
    BY <1>10 DEF DeleteObject
  <1>11. ASSUME NEW r \in Requests, DeleteRow(r) PROVE DuplicateInv'
    BY <1>11 DEF DeleteRow, EndRequest, NoRow, NewRow
  <1>12. ASSUME NEW r \in Requests, RequestFails(r) PROVE DuplicateInv'
    BY <1>12 DEF RequestFails, EndRequest
  <1> QED
    BY <1>1, <1>2, <1>3, <1>4, <1>5, <1>6, <1>7, <1>8, <1>9, <1>10, <1>11, <1>12
       DEF CatalogNext, ConfirmStep, DeleteStep

LEMMA WorkerDuplicates ==
  ASSUME TypeOK, BackedInv, DuplicateInv, WorkerNext, UNCHANGED catalogVars
  PROVE  DuplicateInv'
PROOF
  <1> USE ConstantsOK
          DEF TypeOK, StoreTypeOK, CatalogTypeOK, WorkerTypeOK,
              IngestionAssumption, DuplicateInv, Original, Advance, storeVars,
              catalogVars
  <1> SUFFICES ASSUME NEW w \in Workers, WorkerStep(w) \/ WorkerFault(w)
               PROVE  DuplicateInv'
    BY DEF WorkerNext
  <1>a. wpc[w] # "idle" => job[w] \in Job /\ job[w].item \in Items
    BY DEF Job
  <1>r. ASSUME wpc[w] # "idle", Raise(w) \/ RaisePermanent(w),
               UNCHANGED <<db, vectors>>
        PROVE  DuplicateInv'
    <2>1. wpc'[w] \in {"fail", "requeue"}
      BY <1>r DEF Raise, RaisePermanent
    <2>2. \A v \in Workers \ {w} :
            wpc'[v] = wpc[v] /\ job'[v] = job[v] /\ duplicate'[v] = duplicate[v]
      BY <1>r DEF Raise, RaisePermanent, EndSession
    <2>3. duplicate'[w] = None
      BY <1>r DEF Raise, RaisePermanent, EndSession
    <2>4. \A v \in Workers :
            IF wpc'[v] = "commit" THEN Original(job'[v].item, duplicate'[v])
                                  ELSE duplicate'[v] = None
      <3> HIDE DEF TypeOK, StoreTypeOK, CatalogTypeOK, WorkerTypeOK, IngestionAssumption
      <3> QED
        BY <1>r, <2>1, <2>2, <2>3
    <2> QED
      BY <1>r, <2>4
  <1>1. CASE Pop(w)
    BY <1>1 DEF Pop
  <1>2. CASE Requeue(w)
    BY <1>2 DEF Requeue, EndJob
  <1>3. CASE Fail(w)
    BY <1>a, <1>3 DEF Fail, Row
  <1>4. CASE DeadLetter(w)
    BY <1>4 DEF DeadLetter, EndJob
  <1>5. CASE GetItem(w)
    <2>1. \A v \in Workers \ {w} : wpc'[v] = wpc[v] /\ job'[v] = job[v]
      BY <1>5 DEF GetItem, EndJob
    <2>2. wpc[w] = "get" /\ wpc'[w] \in {"idle", "mark"}
      BY <1>5 DEF GetItem, EndJob
    <2>3. UNCHANGED <<db, vectors, duplicate>>
      BY <1>5 DEF GetItem
    <2>4. \A v \in Workers :
            IF wpc'[v] = "commit" THEN Original(job'[v].item, duplicate'[v])
                                  ELSE duplicate'[v] = None
      BY <2>1, <2>2, <2>3
    <2> QED
      BY <2>3, <2>4
  <1>6. CASE MarkProcessing(w)
    BY <1>6 DEF MarkProcessing
  <1>7. CASE Download(w)
    <2>1. CASE RaisePermanent(w)
      BY <1>r, <1>7, <2>1 DEF Download
    <2>2. CASE ~RaisePermanent(w)
      BY <1>7, <2>2 DEF Download
    <2> QED
      BY <2>1, <2>2
  <1>8. CASE FindNoDuplicate(w)
    BY <1>8 DEF FindNoDuplicate
  <1>9. CASE FindDuplicate(w)
    <2>1. PICK d \in Duplicates(w) : duplicate' = [duplicate EXCEPT ![w] = d]
      BY <1>9 DEF FindDuplicate
    <2>2. d \in Items /\ db[d].status = "indexed" /\ TenantOf[d] = TenantOf[job[w].item]
      BY DEF Duplicates, ClosestDuplicates, IndexedPhashes
    <2>3. vectors[d] # None
      BY <2>2 DEF BackedInv, IndexedIsBacked
    <2> QED
      BY <1>9, <2>1, <2>2, <2>3 DEF FindDuplicate
  <1>10. CASE Upsert(w)
    <2>1. image[w] # None
      BY <1>10 DEF Upsert, BackedInv, PointIsWritten
    <2> QED
      BY <1>a, <1>10, <2>1 DEF Upsert
  <1>11. CASE MarkIndexedAndBump(w)
    BY <1>11 DEF MarkIndexedAndBump
  <1>12. CASE CommitDuplicate(w)
    BY <1>a, <1>12 DEF CommitDuplicate, EndJob, EndSession, Row
  <1>13. CASE CommitIndexed(w)
    BY <1>a, <1>13 DEF CommitIndexed, EndJob, EndSession, Row
  <1>14. CASE RowIsGone(w)
    BY <1>r, <1>14 DEF RowIsGone
  <1>15. CASE TransientFault(w)
    BY <1>r, <1>15 DEF TransientFault, Processing
  <1>16. CASE BumpFails(w)
    BY <1>16 DEF BumpFails
  <1>17. CASE FailSwallowed(w)
    BY <1>17 DEF FailSwallowed
  <1>18. CASE PushFails(w)
    BY <1>18 DEF PushFails, EndJob
  <1>19. CASE Crash(w)
    BY <1>19 DEF Crash, EndJob, EndSession
  <1> QED
    BY <1>1, <1>2, <1>3, <1>4, <1>5, <1>6, <1>7, <1>8, <1>9, <1>10, <1>11,
       <1>12, <1>13, <1>14, <1>15, <1>16, <1>17, <1>18, <1>19
       DEF WorkerStep, ProcessStep, WorkerFault

LEMMA DuplicateInvariant == Spec => []DuplicateInv
PROOF
  <1>1. Init => DuplicateInv
    BY DEF Init, StoreInit, CatalogInit, WorkerInit, DuplicateInv, Original,
           NoRow, NewRow
  <1>2. ASSUME TypeOK, BackedInv, DuplicateInv, [Next]_vars PROVE DuplicateInv'
    <2>1. CASE CatalogNext /\ UNCHANGED workerVars
      BY <1>2, <2>1, CatalogDuplicates
    <2>2. CASE WorkerNext /\ UNCHANGED catalogVars
      BY <1>2, <2>2, WorkerDuplicates
    <2>3. CASE UNCHANGED vars
      BY <1>2, <2>3
         DEF vars, storeVars, catalogVars, workerVars, DuplicateInv, Original
    <2> QED
      BY <1>2, <2>1, <2>2, <2>3 DEF Next
  <1> QED
    BY <1>1, <1>2, TypeCorrect, BackedInvariant, PTL DEF Spec

\* What duplicate_of_id names, while it is in the catalog, is of the tenant and has
\* a point, although the dedup query, the commit that records its answer and
\* confirmations that write old columns back all interleave.
THEOREM DuplicatesOfIndexed == Spec => []DuplicateOfIndexed
PROOF
  <1>1. DuplicateInv => DuplicateOfIndexed
    BY DEF DuplicateInv, DuplicateOfIndexed, Original
  <1> QED
    BY <1>1, DuplicateInvariant, PTL

-----------------------------------------------------------------------------
(* Dead letters                                                            *)

LEMMA CatalogDeadLetters ==
  ASSUME TypeOK, BackedInv, FailedIsDeadLettered, CatalogNext,
         UNCHANGED workerVars
  PROVE  FailedIsDeadLettered'
PROOF
  <1> USE DEF TypeOK, StoreTypeOK, CatalogTypeOK, FailedIsDeadLettered, DeadLettered,
              storeVars, workerVars
  <1>1. UNCHANGED dlq
    BY DEF CatalogNext, ConfirmStep, DeleteStep, RegisterItem, Upload,
           ConfirmGet, DeleteGet, ConfirmStat, ConfirmRejected, ConfirmMerge,
           ConfirmEnqueue, ConfirmCommit, DeleteObject, DeleteRow, RequestFails
  <1>2. ASSUME NEW i \in Items, RegisterItem(i) PROVE FailedIsDeadLettered'
    BY <1>1, <1>2 DEF RegisterItem, NewRow
  <1>3. ASSUME NEW r \in Requests, ConfirmCommit(r) PROVE FailedIsDeadLettered'
    <2>1. \A i \in Items : db'[i].status \in {db[i].status, "queued"}
      BY <1>3 DEF ConfirmCommit, Flushed, Column, BackedInv, EntityIsQueued
    <2> QED
      BY <1>1, <2>1
  <1>4. ASSUME NEW r \in Requests, DeleteRow(r) PROVE FailedIsDeadLettered'
    BY <1>1, <1>4 DEF DeleteRow, NoRow, NewRow
  <1>5. CASE UNCHANGED db
    BY <1>1, <1>5
  <1> QED
    BY <1>1, <1>2, <1>3, <1>4, <1>5
       DEF CatalogNext, ConfirmStep, DeleteStep, Upload, ConfirmGet, DeleteGet,
           ConfirmStat, ConfirmRejected, ConfirmMerge, ConfirmEnqueue,
           DeleteObject, RequestFails

LEMMA WorkerDeadLetters ==
  ASSUME "redis" \notin Faults, "crash" \notin Faults,
         TypeOK, FailedIsDeadLettered, WorkerNext, UNCHANGED catalogVars
  PROVE  FailedIsDeadLettered'
PROOF
  <1> USE DEF TypeOK, StoreTypeOK, WorkerTypeOK, FailedIsDeadLettered, Advance,
              storeVars
  <1> SUFFICES ASSUME NEW w \in Workers, WorkerStep(w) \/ WorkerFault(w)
               PROVE  FailedIsDeadLettered'
    BY DEF WorkerNext
  <1>a. wpc[w] # "idle" => job[w] \in Job /\ job[w].item \in Items
    BY DEF Job
  \* A step that fails no item and leaves no dead letter behind.
  <1>k. ASSUME \/ wpc[w] # "dead_letter" /\ dlq' = dlq
               \/ dlq' = Append(dlq, job[w]),
               \A v \in Workers \ {w} : wpc'[v] = wpc[v] /\ job'[v] = job[v],
               \A i \in Items : db'[i].status = "failed" => db[i].status = "failed"
        PROVE  FailedIsDeadLettered'
    <2> SUFFICES ASSUME NEW i \in Items, db'[i].status = "failed"
                 PROVE  \/ DeadLettered(i)'
                        \/ \E v \in Workers : wpc'[v] = "dead_letter" /\ job'[v].item = i
      OBVIOUS
    <2>l. ASSUME DeadLettered(i) \/ (dlq' = Append(dlq, job[w]) /\ job[w].item = i)
          PROVE  DeadLettered(i)'
      <3>1. CASE dlq' = dlq
        BY <1>k, <2>l, <3>1 DEF DeadLettered
      <3>2. CASE dlq' = Append(dlq, job[w])
        <4>1. dlq \in Seq(Job)
          OBVIOUS
        <4> HIDE DEF TypeOK, StoreTypeOK, WorkerTypeOK
        <4>2. /\ Len(dlq') = Len(dlq) + 1 /\ dlq'[Len(dlq) + 1] = job[w]
              /\ \A n \in 1 .. Len(dlq) : dlq'[n] = dlq[n]
          BY <3>2, <4>1
        <4>3. Len(dlq) \in Nat
          BY <4>1
        <4> QED
          BY <2>l, <4>2, <4>3 DEF DeadLettered
      <3> QED
        BY <1>k, <3>1, <3>2
    <2>1. CASE DeadLettered(i)
      BY <2>1, <2>l
    <2>2. ASSUME NEW v \in Workers, wpc[v] = "dead_letter" /\ job[v].item = i
          PROVE  \/ DeadLettered(i)'
                 \/ \E u \in Workers : wpc'[u] = "dead_letter" /\ job'[u].item = i
      BY <1>k, <2>2, <2>l
    <2> QED
      BY <1>k, <2>1, <2>2
  <1>r. ASSUME wpc[w] \in Processing, Raise(w) \/ RaisePermanent(w),
               UNCHANGED <<db, dlq>>
        PROVE  FailedIsDeadLettered'
    <2>1. \A v \in Workers \ {w} : wpc'[v] = wpc[v] /\ job'[v] = job[v]
      BY <1>r DEF Raise, RaisePermanent
    <2> QED
      BY <1>k, <1>r, <2>1 DEF Processing
  <1>1. CASE Pop(w)
    BY <1>k, <1>1 DEF Pop
  <1>2. CASE Requeue(w)
    BY <1>k, <1>2 DEF Requeue, EndJob
  <1>3. CASE Fail(w)
    <2>1. \A i \in Items \ {job[w].item} : db'[i] = db[i]
      BY <1>a, <1>3 DEF Fail
    <2>2. /\ wpc[w] = "fail" /\ wpc' = [wpc EXCEPT ![w] = "dead_letter"]
          /\ UNCHANGED <<job, dlq>>
      BY <1>3 DEF Fail
    <2>3. \A i \in Items : DeadLettered(i)' <=> DeadLettered(i)
      BY <2>2 DEF DeadLettered
    <2> QED
      BY <1>a, <2>1, <2>2, <2>3
  <1>4. CASE DeadLetter(w)
    BY <1>k, <1>4 DEF DeadLetter, EndJob
  <1>5. CASE GetItem(w)
    <2>1. \A v \in Workers \ {w} : wpc'[v] = wpc[v] /\ job'[v] = job[v]
      BY <1>5 DEF GetItem, EndJob
    <2> QED
      BY <1>k, <1>5, <2>1 DEF GetItem
  <1>6. CASE MarkProcessing(w)
    BY <1>k, <1>6 DEF MarkProcessing
  <1>7. CASE Download(w)
    <2>1. CASE RaisePermanent(w)
      BY <1>r, <1>7, <2>1 DEF Download, Processing
    <2>2. CASE ~RaisePermanent(w)
      BY <1>k, <1>7, <2>2 DEF Download
    <2> QED
      BY <2>1, <2>2
  <1>8. CASE FindNoDuplicate(w)
    BY <1>k, <1>8 DEF FindNoDuplicate
  <1>9. CASE FindDuplicate(w)
    BY <1>k, <1>9 DEF FindDuplicate
  <1>10. CASE Upsert(w)
    BY <1>k, <1>10 DEF Upsert
  <1>11. CASE MarkIndexedAndBump(w)
    BY <1>k, <1>11 DEF MarkIndexedAndBump
  <1>12. CASE CommitDuplicate(w)
    <2>1. \A i \in Items : db'[i].status \in {db[i].status, "duplicate"}
      BY <1>a, <1>12 DEF CommitDuplicate, Row
    <2>2. \A v \in Workers \ {w} : wpc'[v] = wpc[v] /\ job'[v] = job[v]
      BY <1>12 DEF CommitDuplicate, EndJob
    <2> QED
      BY <1>k, <1>12, <2>1, <2>2 DEF CommitDuplicate
  <1>13. CASE CommitIndexed(w)
    <2>1. \A i \in Items : db'[i].status \in {db[i].status, "indexed"}
      BY <1>a, <1>13 DEF CommitIndexed, Row
    <2>2. \A v \in Workers \ {w} : wpc'[v] = wpc[v] /\ job'[v] = job[v]
      BY <1>13 DEF CommitIndexed, EndJob
    <2> QED
      BY <1>k, <1>13, <2>1, <2>2 DEF CommitIndexed
  <1>14. CASE RowIsGone(w)
    BY <1>r, <1>14 DEF RowIsGone, Processing
  <1>15. CASE TransientFault(w)
    BY <1>r, <1>15 DEF TransientFault
  <1>16. CASE FailSwallowed(w)
    BY <1>k, <1>16 DEF FailSwallowed
  <1> QED
    BY <1>1, <1>2, <1>3, <1>4, <1>5, <1>6, <1>7, <1>8, <1>9, <1>10, <1>11,
       <1>12, <1>13, <1>14, <1>15, <1>16
       DEF WorkerStep, ProcessStep, WorkerFault, BumpFails, PushFails, Crash

\* While no worker dies and Redis takes every push, an item is FAILED only if its
\* job is in the dead-letter queue or with the worker about to put it there.
THEOREM FailedDeadLettered ==
  ASSUME "redis" \notin Faults, "crash" \notin Faults
  PROVE  Spec => []FailedIsDeadLettered
PROOF
  <1>1. Init => FailedIsDeadLettered
    BY DEF Init, StoreInit, FailedIsDeadLettered, NoRow, NewRow
  <1>2. ASSUME TypeOK, BackedInv, FailedIsDeadLettered, [Next]_vars
        PROVE  FailedIsDeadLettered'
    <2>1. CASE CatalogNext /\ UNCHANGED workerVars
      BY <1>2, <2>1, CatalogDeadLetters
    <2>2. CASE WorkerNext /\ UNCHANGED catalogVars
      BY <1>2, <2>2, WorkerDeadLetters
    <2>3. CASE UNCHANGED vars
      BY <1>2, <2>3 DEF vars, storeVars, workerVars, FailedIsDeadLettered, DeadLettered
    <2> QED
      BY <1>2, <2>1, <2>2, <2>3 DEF Next
  <1> QED
    BY <1>1, <1>2, TypeCorrect, BackedInvariant, PTL DEF Spec

-----------------------------------------------------------------------------
(* The number of jobs                                                      *)

Busy == {w \in Workers : wpc[w] # "idle"}

\* The requests that have been counted and have not pushed their job yet.
Confirming == {r \in Requests : rpc[r] \in {"stat", "merge", "enqueue"}}

CountInv ==
  Len(queue) + Cardinality(Busy) + Len(dlq) + Cardinality(Confirming) <= calls.confirms

\* The counts that CountInv adds up are numbers.
LEMMA Counts ==
  ASSUME TypeOK
  PROVE  /\ IsFiniteSet(Busy) /\ Cardinality(Busy) \in Nat
         /\ IsFiniteSet(Confirming) /\ Cardinality(Confirming) \in Nat
         /\ Len(dlq) \in Nat
         /\ Len(queue) \in Nat
         /\ calls.confirms \in Nat
PROOF
  <1>1. IsFiniteSet(Workers) /\ IsFiniteSet(Requests)
    BY ConstantsOK DEF IngestionAssumption, CatalogAssumption
  <1>2. Busy \in SUBSET Workers /\ Confirming \in SUBSET Requests
    BY DEF Busy, Confirming
  <1>3. IsFiniteSet(Busy) /\ IsFiniteSet(Confirming)
    BY <1>1, <1>2, FS_Subset
  <1>4. Len(queue) \in Nat /\ Len(dlq) \in Nat
    BY DEF TypeOK, StoreTypeOK
  <1>5. calls.confirms \in Nat
    BY ConstantsOK DEF TypeOK, CatalogTypeOK, Calls, CatalogAssumption
  <1> QED
    BY <1>3, <1>4, <1>5, FS_CardinalityType

LEMMA CatalogCounts ==
  ASSUME TypeOK, TypeOK', CountInv, CatalogNext, UNCHANGED workerVars
  PROVE  CountInv'
PROOF
  <1>b. Busy' = Busy
    BY DEF Busy, workerVars
  <1>c. /\ IsFiniteSet(Confirming) /\ Cardinality(Confirming) \in Nat
        /\ Cardinality(Busy) \in Nat /\ Len(dlq) \in Nat
        /\ Len(queue) \in Nat /\ calls.confirms \in Nat
    BY Counts DEF CountInv
  <1>u. ASSUME Confirming' \in SUBSET Confirming,
               UNCHANGED <<queue, dlq>>, calls'.confirms = calls.confirms
        PROVE  CountInv'
    <2>1. Cardinality(Confirming') <= Cardinality(Confirming)
      BY <1>c, <1>u, FS_Subset
    <2>2. Cardinality(Confirming') \in Nat
      BY <1>c, <1>u, FS_Subset, FS_CardinalityType
    <2> QED
      BY <1>b, <1>c, <1>u, <2>1, <2>2 DEF CountInv
  <1>1. ASSUME NEW i \in Items, RegisterItem(i) PROVE CountInv'
    BY <1>u, <1>1 DEF RegisterItem, Confirming
  <1>2. ASSUME NEW i \in Items, NEW im \in Images, Upload(i, im) PROVE CountInv'
    <2>1. calls'.confirms = calls.confirms
      BY <1>2 DEF Upload, TypeOK, CatalogTypeOK, Calls
    <2> QED
      BY <1>u, <1>2, <2>1 DEF Upload, Confirming
  <1>3. ASSUME NEW r \in Requests, NEW i \in Items, ConfirmGet(r, i)
        PROVE  CountInv'
    <2>1. Confirming' = Confirming \cup {r}
      BY <1>3 DEF ConfirmGet, Goto, Confirming, TypeOK, CatalogTypeOK
    <2>2. Cardinality(Confirming') \in {Cardinality(Confirming), Cardinality(Confirming) + 1}
      BY <1>c, <2>1, FS_AddElement
    <2>3. Cardinality(Confirming') \in Nat
      BY <1>c, <2>1, FS_AddElement, FS_CardinalityType
    <2>4. calls'.confirms = calls.confirms + 1 /\ UNCHANGED <<queue, dlq>>
      BY <1>3 DEF ConfirmGet, TypeOK, CatalogTypeOK, Calls, storeVars
    <2> QED
      BY <1>b, <1>c, <2>2, <2>3, <2>4 DEF CountInv
  <1>4. ASSUME NEW r \in Requests, NEW i \in Items, DeleteGet(r, i)
        PROVE  CountInv'
    <2>1. calls'.confirms = calls.confirms
      BY <1>4 DEF DeleteGet, TypeOK, CatalogTypeOK, Calls
    <2>2. Confirming' = Confirming
      BY <1>4 DEF DeleteGet, Goto, Confirming, TypeOK, CatalogTypeOK
    <2> QED
      BY <1>u, <1>4, <2>1, <2>2 DEF DeleteGet, storeVars
  <1>5. ASSUME NEW r \in Requests, EndRequest(r) PROVE Confirming' \in SUBSET Confirming
    BY <1>5 DEF EndRequest, Goto, Confirming, TypeOK, CatalogTypeOK
  <1>6. ASSUME NEW r \in Requests, ConfirmStat(r) PROVE CountInv'
    <2>1. Confirming' = Confirming
      BY <1>6 DEF ConfirmStat, Goto, Confirming, TypeOK, CatalogTypeOK
    <2> QED
      BY <1>u, <1>6, <2>1 DEF ConfirmStat, storeVars
  <1>7. ASSUME NEW r \in Requests, ConfirmRejected(r) PROVE CountInv'
    BY <1>u, <1>5, <1>7 DEF ConfirmRejected, storeVars
  <1>8. ASSUME NEW r \in Requests, ConfirmMerge(r) PROVE CountInv'
    <2>1. Confirming' = Confirming
      BY <1>8 DEF ConfirmMerge, Goto, Confirming, TypeOK, CatalogTypeOK
    <2> QED
      BY <1>u, <1>8, <2>1 DEF ConfirmMerge, storeVars
  <1>9. ASSUME NEW r \in Requests, ConfirmEnqueue(r) PROVE CountInv'
    <2>1. r \in Confirming /\ Confirming' = Confirming \ {r}
      BY <1>9 DEF ConfirmEnqueue, Goto, Confirming, TypeOK, CatalogTypeOK
    <2>2. Cardinality(Confirming') = Cardinality(Confirming) - 1
      BY <1>c, <2>1, FS_RemoveElement
    <2>3. Len(queue') = Len(queue) + 1
      BY <1>9 DEF ConfirmEnqueue, Push, TypeOK, StoreTypeOK
    <2>4. UNCHANGED <<dlq, calls>>
      BY <1>9 DEF ConfirmEnqueue
    <2> QED
      BY <1>b, <1>c, <2>2, <2>3, <2>4 DEF CountInv
  <1>10. ASSUME NEW r \in Requests, ConfirmCommit(r) PROVE CountInv'
    BY <1>u, <1>5, <1>10 DEF ConfirmCommit
  <1>11. ASSUME NEW r \in Requests, DeleteObject(r) PROVE CountInv'
    <2>1. Confirming' = Confirming
      BY <1>11 DEF DeleteObject, Goto, Confirming, TypeOK, CatalogTypeOK
    <2> QED
      BY <1>u, <1>11, <2>1 DEF DeleteObject
  <1>12. ASSUME NEW r \in Requests, DeleteRow(r) PROVE CountInv'
    BY <1>u, <1>5, <1>12 DEF DeleteRow
  <1>13. ASSUME NEW r \in Requests, RequestFails(r) PROVE CountInv'
    BY <1>u, <1>5, <1>13 DEF RequestFails, storeVars
  <1> QED
    BY <1>1, <1>2, <1>3, <1>4, <1>6, <1>7, <1>8, <1>9, <1>10, <1>11, <1>12, <1>13
       DEF CatalogNext, ConfirmStep, DeleteStep

LEMMA WorkerCounts ==
  ASSUME TypeOK, TypeOK', CountInv, WorkerNext, UNCHANGED catalogVars
  PROVE  CountInv'
PROOF
  <1> SUFFICES ASSUME NEW w \in Workers, WorkerStep(w) \/ WorkerFault(w)
               PROVE  CountInv'
    BY DEF WorkerNext
  <1>c. /\ IsFiniteSet(Busy) /\ Cardinality(Busy) \in Nat
        /\ Cardinality(Confirming) \in Nat
        /\ Len(dlq) \in Nat
        /\ Len(queue) \in Nat /\ calls.confirms \in Nat
    BY Counts DEF CountInv
  <1>k. Confirming' = Confirming /\ calls' = calls
    BY DEF Confirming, catalogVars
  \* A step of the pipeline keeps the worker busy and touches no queue.
  <1>s. ASSUME wpc[w] # "idle", wpc'[w] # "idle",
               wpc' = [wpc EXCEPT ![w] = wpc'[w]], UNCHANGED <<queue, dlq>>
        PROVE  CountInv'
    <2>1. Busy' = Busy
      BY <1>s DEF Busy, TypeOK, WorkerTypeOK
    <2> QED
      BY <1>k, <1>s, <2>1 DEF CountInv
  <1>e. ASSUME wpc[w] # "idle", EndJob(w)
        PROVE  Cardinality(Busy') = Cardinality(Busy) - 1
    <2>1. w \in Busy /\ Busy' = Busy \ {w}
      BY <1>e DEF Busy, EndJob, Advance, TypeOK, WorkerTypeOK
    <2> QED
      BY <1>c, <2>1, FS_RemoveElement
  <1>d. ASSUME wpc[w] # "idle", EndJob(w), UNCHANGED <<queue, dlq>>
        PROVE  CountInv'
    BY <1>c, <1>d, <1>e, <1>k DEF CountInv
  <1>r. ASSUME wpc[w] # "idle", Raise(w) \/ RaisePermanent(w),
               UNCHANGED <<queue, dlq>>
        PROVE  CountInv'
    <2>1. \/ wpc' = [wpc EXCEPT ![w] = "fail"]
          \/ wpc' = [wpc EXCEPT ![w] = "requeue"]
      BY <1>r DEF Raise, RaisePermanent, Advance
    <2> QED
      BY <1>r, <1>s, <2>1 DEF TypeOK, WorkerTypeOK
  <1> USE DEF Advance, TypeOK, WorkerTypeOK, storeVars
  <1>1. CASE Pop(w)
    <2>1. w \notin Busy /\ Busy' = Busy \cup {w}
      BY <1>1 DEF Pop, Busy
    <2>2. Cardinality(Busy') = Cardinality(Busy) + 1
      BY <1>c, <2>1, FS_AddElement
    <2>3. Len(queue') = Len(queue) - 1 /\ UNCHANGED dlq
      BY <1>1 DEF Pop, StoreTypeOK
    <2> QED
      BY <1>c, <1>k, <2>2, <2>3 DEF CountInv
  <1>2. CASE Requeue(w)
    <2>1. Len(queue') = Len(queue) + 1 /\ UNCHANGED dlq
      BY <1>2 DEF Requeue, Push, StoreTypeOK
    <2> QED
      BY <1>c, <1>e, <1>k, <1>2, <2>1 DEF Requeue, CountInv
  <1>3. CASE Fail(w)
    BY <1>s, <1>3 DEF Fail
  <1>4. CASE DeadLetter(w)
    <2>1. Len(dlq') = Len(dlq) + 1 /\ UNCHANGED queue
      BY <1>4 DEF DeadLetter, StoreTypeOK
    <2>2. Cardinality(Busy') = Cardinality(Busy) - 1
      BY <1>e, <1>4 DEF DeadLetter
    <2> QED
      BY <1>c, <1>k, <2>1, <2>2 DEF CountInv
  <1>5. CASE GetItem(w)
    <2>1. CASE EndJob(w)
      BY <1>d, <1>5, <2>1 DEF GetItem
    <2>2. CASE ~EndJob(w)
      BY <1>s, <1>5, <2>2 DEF GetItem
    <2> QED
      BY <2>1, <2>2
  <1>6. CASE MarkProcessing(w)
    BY <1>s, <1>6 DEF MarkProcessing
  <1>7. CASE Download(w)
    <2>1. CASE RaisePermanent(w)
      BY <1>r, <1>7, <2>1 DEF Download
    <2>2. CASE ~RaisePermanent(w)
      BY <1>s, <1>7, <2>2 DEF Download
    <2> QED
      BY <2>1, <2>2
  <1>8. CASE FindNoDuplicate(w)
    BY <1>s, <1>8 DEF FindNoDuplicate
  <1>9. CASE FindDuplicate(w)
    BY <1>s, <1>9 DEF FindDuplicate
  <1>10. CASE Upsert(w)
    BY <1>s, <1>10 DEF Upsert
  <1>11. CASE MarkIndexedAndBump(w)
    BY <1>s, <1>11 DEF MarkIndexedAndBump
  <1>12. CASE CommitDuplicate(w)
    BY <1>d, <1>12 DEF CommitDuplicate
  <1>13. CASE CommitIndexed(w)
    BY <1>d, <1>13 DEF CommitIndexed
  <1>14. CASE RowIsGone(w)
    BY <1>r, <1>14 DEF RowIsGone
  <1>15. CASE TransientFault(w)
    BY <1>r, <1>15 DEF TransientFault, Processing
  <1>16. CASE BumpFails(w)
    BY <1>s, <1>16 DEF BumpFails
  <1>17. CASE FailSwallowed(w)
    BY <1>s, <1>17 DEF FailSwallowed
  <1>18. CASE PushFails(w)
    BY <1>d, <1>18 DEF PushFails
  <1>19. CASE Crash(w)
    BY <1>d, <1>19 DEF Crash
  <1> QED
    BY <1>1, <1>2, <1>3, <1>4, <1>5, <1>6, <1>7, <1>8, <1>9, <1>10, <1>11,
       <1>12, <1>13, <1>14, <1>15, <1>16, <1>17, <1>18, <1>19
       DEF WorkerStep, ProcessStep, WorkerFault

LEMMA CountInvariant == Spec => []CountInv
PROOF
  <1>1. Init => CountInv
    <2> SUFFICES ASSUME Init PROVE CountInv
      OBVIOUS
    <2>1. Busy = {} /\ Confirming = {} /\ dlq = <<>>
      BY DEF Init, StoreInit, CatalogInit, WorkerInit, Busy, Confirming
    <2>2. Len(queue) = 0 /\ calls.confirms = 0
      BY DEF Init, StoreInit, CatalogInit
    <2> QED
      BY <2>1, <2>2, FS_EmptySet DEF CountInv
  <1>2. ASSUME TypeOK, TypeOK', CountInv, [Next]_vars PROVE CountInv'
    <2>1. CASE CatalogNext /\ UNCHANGED workerVars
      BY <1>2, <2>1, CatalogCounts
    <2>2. CASE WorkerNext /\ UNCHANGED catalogVars
      BY <1>2, <2>2, WorkerCounts
    <2>3. CASE UNCHANGED vars
      BY <1>2, <2>3
         DEF vars, storeVars, catalogVars, workerVars, CountInv, Busy, Confirming
    <2> QED
      BY <1>2, <2>1, <2>2, <2>3 DEF Next
  <1> QED
    BY <1>1, <1>2, TypeCorrect, PTL DEF Spec

\* Queued, held and dead-lettered jobs together are no more than the
\* confirmations clients have made, whatever fails and however often.
THEOREM JobsBounded == Spec => []JobsNeverMultiply
PROOF
  <1>1. TypeOK /\ CountInv => JobsNeverMultiply
    BY Counts DEF CountInv, JobsNeverMultiply, Busy
  <1> QED
    BY <1>1, TypeCorrect, CountInvariant, PTL

-----------------------------------------------------------------------------
(* The ledger of jobs                                                      *)

\* What a change of one element does to the size of a set.
LEMMA OneMore ==
  ASSUME NEW S, NEW T, NEW x, IsFiniteSet(S), T \ {x} = S \ {x}
  PROVE  /\ (x \in S <=> x \in T) => T = S
         /\ x \notin S /\ x \in T => Cardinality(T) = Cardinality(S) + 1
         /\ x \in S /\ x \notin T =>
              Cardinality(T) = Cardinality(S) - 1 /\ Cardinality(S) > 0
         /\ Cardinality(S) \in Nat
PROOF
  <1>1. (x \in S <=> x \in T) => T = S
    OBVIOUS
  <1>2. ASSUME x \notin S, x \in T PROVE Cardinality(T) = Cardinality(S) + 1
    <2>1. T = S \cup {x}
      BY <1>2
    <2> QED
      BY <1>2, <2>1, FS_AddElement
  <1>3. ASSUME x \in S, x \notin T
        PROVE  Cardinality(T) = Cardinality(S) - 1 /\ Cardinality(S) > 0
    <2>1. T = S \ {x}
      BY <1>3
    <2>2. IsFiniteSet(T) /\ Cardinality(T) = Cardinality(S) - 1
      BY <1>3, <2>1, FS_RemoveElement
    <2> QED
      BY <2>2, FS_CardinalityType
  <1> QED
    BY <1>1, <1>2, <1>3, FS_CardinalityType

LEMMA LedgerTypes ==
  ASSUME TypeOK
  PROVE  /\ \A i \in Items : IsFiniteSet(Listed(i)) /\ IsFiniteSet(Holders(i))
                             /\ IsFiniteSet(Strayers(i))
         /\ OpenJobs \in [Items -> Nat] /\ AstrayJobs \in [Items -> Nat]
PROOF
  <1>1. IsFiniteSet(Workers) /\ IsFiniteSet(1 .. Len(queue))
    BY ConstantsOK, FS_Interval DEF IngestionAssumption, TypeOK, StoreTypeOK
  <1>2. ASSUME NEW i \in Items
        PROVE  IsFiniteSet(Listed(i)) /\ IsFiniteSet(Holders(i)) /\ IsFiniteSet(Strayers(i))
    BY <1>1, FS_Subset DEF Listed, Holders, Strayers
  <1> QED
    BY <1>2, FS_CardinalityType DEF OpenJobs, AstrayJobs

\* A job is listed at one place of the list.
LEMMA ListedAfterPush ==
  ASSUME TypeOK, NEW j \in Job, queue' = Append(queue, j), NEW i \in Items
  PROVE  Cardinality(Listed(i)') = Cardinality(Listed(i)) + (IF j.item = i THEN 1 ELSE 0)
PROOF
  <1>1. /\ Len(queue) \in Nat /\ Len(queue') = Len(queue) + 1
        /\ queue'[Len(queue) + 1] = j
        /\ \A n \in 1 .. Len(queue) : queue'[n] = queue[n]
    BY DEF TypeOK, StoreTypeOK
  <1>2. Listed(i)' = IF j.item = i THEN Listed(i) \cup {Len(queue) + 1} ELSE Listed(i)
    BY <1>1 DEF Listed
  <1>3. Len(queue) + 1 \notin Listed(i)
    BY <1>1 DEF Listed
  <1>4. IsFiniteSet(Listed(i))
    BY LedgerTypes
  <1> QED
    BY <1>2, <1>3, <1>4, FS_AddElement, FS_CardinalityType

LEMMA ListedAfterPop ==
  ASSUME TypeOK, queue # <<>>, queue' = Tail(queue), NEW i \in Items
  PROVE  Cardinality(Listed(i)') =
           Cardinality(Listed(i)) - (IF Head(queue).item = i THEN 1 ELSE 0)
PROOF
  <1>1. /\ Len(queue) \in Nat \ {0} /\ Len(queue') = Len(queue) - 1
        /\ Head(queue) = queue[1]
        /\ \A n \in 1 .. Len(queue) - 1 : queue'[n] = queue[n + 1]
    BY DEF TypeOK, StoreTypeOK
  <1> DEFINE rest == Listed(i) \ {1}
             f == [n \in Listed(i)' |-> n + 1]
  <1>2. IsFiniteSet(Listed(i)) /\ IsFiniteSet(rest)
    BY LedgerTypes, FS_RemoveElement
  <1>3. f \in Bijection(Listed(i)', rest)
    <2>1. \A n \in Listed(i)' : n \in Nat /\ f[n] \in rest
      BY <1>1 DEF Listed
    <2>2. \A n \in rest : n - 1 \in Listed(i)' /\ f[n - 1] = n
      BY <1>1 DEF Listed
    <2>3. f \in [Listed(i)' -> rest]
      BY <2>1
    <2>4. \A m, n \in Listed(i)' : f[m] = f[n] => m = n
      BY <2>1
    <2>5. \A n \in rest : \E m \in Listed(i)' : f[m] = n
      BY <2>2
    <2> HIDE DEF f, rest
    <2> QED
      BY <2>3, <2>4, <2>5 DEF Bijection, Injection, Surjection, IsInjective
  <1>4. IsFiniteSet(Listed(i)')
    <2>1. Len(queue') \in Nat
      BY <1>1
    <2>2. IsFiniteSet(1 .. Len(queue'))
      BY <2>1, FS_Interval
    <2> QED
      BY <2>2, FS_Subset DEF Listed
  <1>5. Cardinality(Listed(i)') = Cardinality(rest)
    BY <1>3, <1>4, FS_Bijection DEF ExistsBijection
  <1>6. 1 \in Listed(i) <=> Head(queue).item = i
    BY <1>1 DEF Listed
  <1> QED
    BY <1>2, <1>5, <1>6, FS_RemoveElement, FS_CardinalityType

OnlyMoves(w) ==
  \A v \in Workers \ {w} :
    wpc'[v] = wpc[v] /\ job'[v] = job[v] /\ marked'[v] = marked[v]

LEMMA HoldersMove ==
  ASSUME TypeOK, NEW w \in Workers, OnlyMoves(w), NEW i \in Items
  PROVE  /\ (Holds(w, i) <=> Holds(w, i)') =>
              Cardinality(Holders(i)') = Cardinality(Holders(i))
         /\ ~Holds(w, i) /\ Holds(w, i)' =>
              Cardinality(Holders(i)') = Cardinality(Holders(i)) + 1
         /\ Holds(w, i) /\ ~Holds(w, i)' =>
              /\ Cardinality(Holders(i)') = Cardinality(Holders(i)) - 1
              /\ Cardinality(Holders(i)) > 0
PROOF
  <1>1. \A v \in Workers \ {w} : Holds(v, i)' <=> Holds(v, i)
    BY DEF OnlyMoves, Holds, FoundGone
  <1>2. Holders(i)' \ {w} = Holders(i) \ {w}
    BY <1>1 DEF Holders
  <1>3. (w \in Holders(i) <=> Holds(w, i)) /\ (w \in Holders(i)' <=> Holds(w, i)')
    BY DEF Holders
  <1>4. IsFiniteSet(Holders(i))
    BY LedgerTypes
  <1> QED
    BY <1>2, <1>3, <1>4, OneMore

LEMMA StrayersMove ==
  ASSUME TypeOK, NEW w \in Workers, OnlyMoves(w), NEW i \in Items
  PROVE  /\ (Strays(w, i) <=> Strays(w, i)') =>
              Cardinality(Strayers(i)') = Cardinality(Strayers(i))
         /\ ~Strays(w, i) /\ Strays(w, i)' =>
              Cardinality(Strayers(i)') = Cardinality(Strayers(i)) + 1
         /\ Strays(w, i) /\ ~Strays(w, i)' =>
              /\ Cardinality(Strayers(i)') = Cardinality(Strayers(i)) - 1
              /\ Cardinality(Strayers(i)) > 0
PROOF
  <1>1. \A v \in Workers \ {w} : Strays(v, i)' <=> Strays(v, i)
    BY DEF OnlyMoves, Strays, FoundGone
  <1>2. Strayers(i)' \ {w} = Strayers(i) \ {w}
    BY <1>1 DEF Strayers
  <1>3. (w \in Strayers(i) <=> Strays(w, i)) /\ (w \in Strayers(i)' <=> Strays(w, i)')
    BY DEF Strayers
  <1>4. IsFiniteSet(Strayers(i))
    BY LedgerTypes
  <1> QED
    BY <1>2, <1>3, <1>4, OneMore

\* What the ledger sees of a worker that has a job and leaves the list alone.
LEMMA JobMoves ==
  ASSUME TypeOK, NEW w \in Workers, OnlyMoves(w), wpc[w] # "idle", UNCHANGED queue,
         NEW i \in Items, i = job[w].item,
         wpc'[w] # "idle" => job'[w].item = i
  PROVE  /\ wpc'[w] # "idle" /\ (FoundGone(w)' <=> FoundGone(w)) =>
              OpenJobs' = OpenJobs /\ AstrayJobs' = AstrayJobs
         /\ wpc'[w] = "idle" /\ ~FoundGone(w) => Ledger!End(i) /\ AstrayJobs' = AstrayJobs
         /\ wpc'[w] # "idle" /\ ~FoundGone(w) /\ FoundGone(w)' =>
              Ledger!End(i) /\ AstrayJobs' = [AstrayJobs EXCEPT ![i] = @ + 1]
         /\ FoundGone(w) /\ wpc'[w] = "idle" =>
              /\ AstrayJobs[i] > 0 /\ AstrayJobs' = [AstrayJobs EXCEPT ![i] = @ - 1]
              /\ OpenJobs' = OpenJobs
         /\ FoundGone(w) /\ ~FoundGone(w)' /\ wpc'[w] # "idle" =>
              /\ AstrayJobs[i] > 0 /\ AstrayJobs' = [AstrayJobs EXCEPT ![i] = @ - 1]
              /\ OpenJobs' = [OpenJobs EXCEPT ![i] = @ + 1]
PROOF
  <1>l. \A k \in Items : Listed(k)' = Listed(k)
    BY DEF Listed
  <1>t. /\ OpenJobs \in [Items -> Nat] /\ AstrayJobs \in [Items -> Nat]
        /\ \A k \in Items : /\ Cardinality(Listed(k)) \in Nat
                            /\ Cardinality(Holders(k)) \in Nat
                            /\ Cardinality(Strayers(k)) \in Nat
    BY LedgerTypes, FS_CardinalityType
  <1>o. \A k \in Items \ {i} :
          /\ ~Holds(w, k) /\ ~Strays(w, k) /\ ~Holds(w, k)' /\ ~Strays(w, k)'
          /\ Cardinality(Holders(k)') = Cardinality(Holders(k))
          /\ Cardinality(Strayers(k)') = Cardinality(Strayers(k))
    <2>1. \A k \in Items \ {i} :
            ~Holds(w, k) /\ ~Strays(w, k) /\ ~Holds(w, k)' /\ ~Strays(w, k)'
      BY DEF Holds, Strays, FoundGone
    <2> QED
      BY <2>1, HoldersMove, StrayersMove
  <1>h. /\ Holds(w, i) <=> ~FoundGone(w)
        /\ Strays(w, i) <=> FoundGone(w)
        /\ Holds(w, i)' <=> wpc'[w] # "idle" /\ ~FoundGone(w)'
        /\ Strays(w, i)' <=> FoundGone(w)'
        /\ FoundGone(w)' => wpc'[w] # "idle"
    BY DEF Holds, Strays, FoundGone
  <1> DEFINE held == Cardinality(Holders(i))
             lost == Cardinality(Strayers(i))
  <1>f. /\ held' = held => OpenJobs' = OpenJobs
        /\ held' = held + 1 => OpenJobs' = [OpenJobs EXCEPT ![i] = @ + 1]
        /\ held' = held - 1 => OpenJobs' = [OpenJobs EXCEPT ![i] = @ - 1]
        /\ held > 0 => OpenJobs[i] > 0
    <2>1. \A k \in Items \ {i} : OpenJobs'[k] = OpenJobs[k]
      BY <1>l, <1>o DEF OpenJobs
    <2>2. /\ OpenJobs[i] = Cardinality(Listed(i)) + held
          /\ OpenJobs'[i] = Cardinality(Listed(i)) + held'
      BY <1>l DEF OpenJobs
    <2>3. OpenJobs' = [k \in Items |-> OpenJobs'[k]]
      BY DEF OpenJobs
    <2>4. held \in Nat /\ Cardinality(Listed(i)) \in Nat
      BY <1>t
    <2> HIDE DEF held
    <2>5. /\ held' = held => OpenJobs'[i] = OpenJobs[i]
          /\ held' = held + 1 => OpenJobs'[i] = OpenJobs[i] + 1
          /\ held' = held - 1 => OpenJobs'[i] = OpenJobs[i] - 1
          /\ held > 0 => OpenJobs[i] > 0
      BY <2>2, <2>4
    <2> QED
      BY <1>t, <2>1, <2>3, <2>5
  <1>s. /\ lost' = lost => AstrayJobs' = AstrayJobs
        /\ lost' = lost + 1 => AstrayJobs' = [AstrayJobs EXCEPT ![i] = @ + 1]
        /\ lost' = lost - 1 => AstrayJobs' = [AstrayJobs EXCEPT ![i] = @ - 1]
        /\ lost > 0 => AstrayJobs[i] > 0
    BY <1>o, <1>t DEF AstrayJobs
  <1> HIDE DEF held, lost
  <1>1. ASSUME wpc'[w] # "idle", FoundGone(w)' <=> FoundGone(w)
        PROVE  OpenJobs' = OpenJobs /\ AstrayJobs' = AstrayJobs
    <2>1. held' = held /\ lost' = lost
      BY <1>1, <1>h, <1>t, HoldersMove, StrayersMove DEF held, lost
    <2> QED
      BY <2>1, <1>f, <1>s
  <1>2. ASSUME wpc'[w] = "idle", ~FoundGone(w)
        PROVE  Ledger!End(i) /\ AstrayJobs' = AstrayJobs
    <2>1. held' = held - 1 /\ held > 0 /\ lost' = lost
      BY <1>2, <1>h, <1>t, HoldersMove, StrayersMove DEF held, lost
    <2> QED
      BY <2>1, <1>f, <1>s DEF Ledger!End
  <1>3. ASSUME ~FoundGone(w), FoundGone(w)'
        PROVE  Ledger!End(i) /\ AstrayJobs' = [AstrayJobs EXCEPT ![i] = @ + 1]
    <2>1. held' = held - 1 /\ held > 0 /\ lost' = lost + 1
      BY <1>3, <1>h, <1>t, HoldersMove, StrayersMove DEF held, lost
    <2> QED
      BY <2>1, <1>f, <1>s DEF Ledger!End
  <1>4. ASSUME FoundGone(w), wpc'[w] = "idle"
        PROVE  /\ AstrayJobs[i] > 0 /\ AstrayJobs' = [AstrayJobs EXCEPT ![i] = @ - 1]
               /\ OpenJobs' = OpenJobs
    <2>1. held' = held /\ lost > 0 /\ lost' = lost - 1
      BY <1>4, <1>h, <1>t, HoldersMove, StrayersMove DEF held, lost
    <2> QED
      BY <2>1, <1>f, <1>s
  <1>5. ASSUME FoundGone(w), ~FoundGone(w)', wpc'[w] # "idle"
        PROVE  /\ AstrayJobs[i] > 0 /\ AstrayJobs' = [AstrayJobs EXCEPT ![i] = @ - 1]
               /\ OpenJobs' = [OpenJobs EXCEPT ![i] = @ + 1]
    <2>1. held' = held + 1 /\ lost > 0 /\ lost' = lost - 1
      BY <1>5, <1>h, <1>t, HoldersMove, StrayersMove DEF held, lost
    <2> QED
      BY <2>1, <1>f, <1>s
  <1> QED
    BY <1>1, <1>2, <1>3, <1>4, <1>5

\* Rows, requests and jobs are for items that have been registered: no other
\* registration uses their ids.
RegisteredInv ==
  /\ \A i \in Items : Present(i) => i \in ids
  /\ \A r \in Requests : rpc[r] # "idle" => ritem[r] \in ids

LEMMA RegisteredStep ==
  ASSUME TypeOK, EntityIsQueued, RegisteredInv, [Next]_vars
  PROVE  RegisteredInv'
PROOF
  <1> USE DEF TypeOK, StoreTypeOK, CatalogTypeOK, RegisteredInv, Present, storeVars, Goto,
              EndRequest
  <1>1. CASE CatalogNext /\ UNCHANGED workerVars
    <2>1. ASSUME NEW i \in Items, RegisterItem(i) PROVE RegisteredInv'
      BY <2>1 DEF RegisterItem, NewRow
    <2>2. ASSUME NEW i \in Items, NEW bytes \in Images, Upload(i, bytes) PROVE RegisteredInv'
      BY <2>2 DEF Upload
    <2>3. ASSUME NEW r \in Requests, NEW i \in Items, ConfirmGet(r, i) \/ DeleteGet(r, i)
          PROVE  RegisteredInv'
      BY <2>3 DEF ConfirmGet, DeleteGet
    <2>4. ASSUME NEW r \in Requests, ConfirmCommit(r) PROVE RegisteredInv'
      <3>1. ritem[r] \in ids /\ ids' = ids
        BY <2>4 DEF ConfirmCommit
      <3>2. \A i \in Items : db'[i].status # "absent" => Present(i) \/ i = ritem[r]
        BY <2>4 DEF ConfirmCommit
      <3> QED
        BY <2>4, <3>1, <3>2 DEF ConfirmCommit
    <2>5. ASSUME NEW r \in Requests, DeleteRow(r) PROVE RegisteredInv'
      BY <2>5 DEF DeleteRow, NoRow, NewRow
    <2>6. ASSUME NEW r \in Requests,
                 \/ ConfirmRejected(r) \/ ConfirmStat(r) \/ ConfirmMerge(r)
                 \/ ConfirmEnqueue(r) \/ DeleteObject(r) \/ RequestFails(r)
          PROVE  RegisteredInv'
      BY <2>6 DEF ConfirmRejected, ConfirmStat, ConfirmMerge, ConfirmEnqueue,
                  DeleteObject, RequestFails
    <2> QED
      BY <1>1, <2>1, <2>2, <2>3, <2>4, <2>5, <2>6 DEF CatalogNext, ConfirmStep, DeleteStep
  <1>2. CASE WorkerNext /\ UNCHANGED catalogVars
    <2>1. \A i \in Items : db'[i].status # "absent" => Present(i)
      <3>1. CASE UNCHANGED db
        BY <3>1
      <3>2. ASSUME NEW w \in Workers, Fail(w) \/ CommitDuplicate(w) \/ CommitIndexed(w)
            PROVE  \A i \in Items : db'[i].status # "absent" => Present(i)
        BY <3>2 DEF Fail, CommitDuplicate, CommitIndexed
      <3> QED
        BY <1>2, <3>1, <3>2
           DEF WorkerNext, WorkerStep, ProcessStep, WorkerFault, Pop, Requeue, DeadLetter,
               GetItem, MarkProcessing, Download, FindNoDuplicate, FindDuplicate, Upsert,
               MarkIndexedAndBump, RowIsGone, TransientFault, BumpFails, FailSwallowed,
               PushFails, Crash
    <2> QED
      BY <1>2, <2>1 DEF catalogVars
  <1>3. CASE UNCHANGED vars
    BY <1>3 DEF vars, catalogVars
  <1> QED
    BY <1>1, <1>2, <1>3 DEF Next

LEMMA RegisteredInvariant == Spec => []RegisteredInv
PROOF
  <1>1. Init => RegisteredInv
    BY DEF Init, StoreInit, CatalogInit, RegisteredInv, Present, NoRow, NewRow
  <1>2. BackedInv => EntityIsQueued
    BY DEF BackedInv
  <1> QED
    BY <1>1, <1>2, RegisteredStep, TypeCorrect, BackedInvariant, PTL DEF Spec

LEMMA ItemsOfType ==
  ASSUME NEW pcs, NEW r \in Requests
  PROVE  /\ ItemsOf(pcs) = [q \in Requests |-> ItemsOf(pcs)[q]]
         /\ ItemsOf(pcs)[r] = IF rpc[r] \in pcs THEN ritem[r] ELSE None
PROOF
  BY DEF ItemsOf

LEMMA ShownStep ==
  ASSUME TypeOK, NEW i \in Items, NEW row \in Row, db' = [db EXCEPT ![i] = row]
  PROVE  Shown' = [Shown EXCEPT ![i] = ShownAs(row.status)]
PROOF
  BY DEF Shown, TypeOK, StoreTypeOK

LEMMA CatalogLedger ==
  ASSUME TypeOK, TypeOK', EntityIsQueued, RegisteredInv, CatalogNext, UNCHANGED workerVars
  PROVE  [Ledger!Next]_(Ledger!ledgerVars)
PROOF
  <1> USE DEF storeVars, Goto, RequestPC
  <1> DEFINE before == {"stat", "merge", "enqueue"}
             after == {"commit"}
  <1>w. AstrayJobs' = AstrayJobs /\ \A i \in Items : Holders(i)' = Holders(i)
    BY DEF AstrayJobs, Strayers, Holders, Strays, Holds, FoundGone, workerVars
  <1>q. queue' = queue => OpenJobs' = OpenJobs
    BY <1>w DEF OpenJobs, Listed
  <1>d. DeadItems' = DeadItems
    BY DEF DeadItems, DeadLettered, CatalogNext, ConfirmStep, DeleteStep, RegisterItem, Upload,
           ConfirmGet, DeleteGet, ConfirmStat, ConfirmRejected, ConfirmMerge,
           ConfirmEnqueue, ConfirmCommit, DeleteObject, DeleteRow, RequestFails
  <1>s. db' = db => Shown' = Shown
    BY DEF Shown
  <1>a. UNCHANGED <<rpc, ritem>> => Asking' = Asking /\ Pushed' = Pushed
    BY DEF Asking, Pushed, ItemsOf
  \* A request that moves on without opening a job or ending.
  <1>m. ASSUME NEW r \in Requests, NEW pc \in RequestPC, rpc[r] # "idle",
               rpc' = [rpc EXCEPT ![r] = pc], UNCHANGED ritem,
               (pc \in before <=> rpc[r] \in before) /\ (pc \in after <=> rpc[r] \in after)
        PROVE  Asking' = Asking /\ Pushed' = Pushed
    BY <1>m DEF Asking, Pushed, ItemsOf, TypeOK, CatalogTypeOK
  <1>e. ASSUME NEW r \in Requests, EndRequest(r)
        PROVE  /\ Asking' = [Asking EXCEPT ![r] = None]
               /\ Pushed' = [Pushed EXCEPT ![r] = None]
    <2>1. rpc' = [rpc EXCEPT ![r] = "idle"] /\ ritem' = [ritem EXCEPT ![r] = None]
      BY <1>e DEF EndRequest
    <2> QED
      BY <2>1 DEF Asking, Pushed, ItemsOf, TypeOK, CatalogTypeOK
  <1>1. ASSUME NEW i \in Items, RegisterItem(i) PROVE Ledger!Register(i)
    <2>1. db[i].status = "absent"
      BY <1>1 DEF RegisterItem, RegisteredInv, Present
    <2>2. Shown[i] = "none"
      BY <2>1 DEF Shown, ShownAs
    <2>3. Shown' = [Shown EXCEPT ![i] = "waiting"]
      <3>1. NewRow("pending_upload") \in Row
        BY NewRowType DEF Status
      <3>2. ShownAs(NewRow("pending_upload").status) = "waiting"
        BY DEF NewRow, ShownAs
      <3> QED
        BY <1>1, <3>1, <3>2, ShownStep DEF RegisterItem
    <2> QED
      BY <1>1, <2>2, <2>3, <1>w, <1>q, <1>d, <1>a DEF RegisterItem, Ledger!Register, Ledger!Show
  <1>2. ASSUME NEW i \in Items, NEW bytes \in Images, Upload(i, bytes)
        PROVE  UNCHANGED Ledger!ledgerVars
    BY <1>2, <1>w, <1>q, <1>d, <1>s, <1>a DEF Upload, Ledger!ledgerVars
  <1>3. ASSUME NEW r \in Requests, NEW i \in Items, ConfirmGet(r, i) PROVE Ledger!Ask(r, i)
    <2>1. rpc' = [rpc EXCEPT ![r] = "stat"] /\ ritem' = [ritem EXCEPT ![r] = i]
      BY <1>3 DEF ConfirmGet
    <2>2. /\ Asking' = [Asking EXCEPT ![r] = i]
          /\ Pushed' = [Pushed EXCEPT ![r] = None]
      BY <2>1 DEF Asking, Pushed, ItemsOf, TypeOK, CatalogTypeOK
    <2>3. Asking[r] = None /\ Pushed[r] = None
      BY <1>3 DEF ConfirmGet, Asking, Pushed, ItemsOf
    <2>4. Pushed' = Pushed
      BY <2>2, <2>3 DEF Pushed, ItemsOf
    <2>5. Shown[i] # "none"
      BY <1>3 DEF ConfirmGet, Present, Shown, ShownAs
    <2> QED
      BY <1>3, <2>2, <2>3, <2>4, <2>5, <1>w, <1>q, <1>d, <1>s DEF ConfirmGet, Ledger!Ask
  <1>4. ASSUME NEW r \in Requests, NEW i \in Items, DeleteGet(r, i)
        PROVE  UNCHANGED Ledger!ledgerVars
    <2>1. rpc[r] = "idle" /\ rpc' = [rpc EXCEPT ![r] = "object"]
          /\ ritem' = [ritem EXCEPT ![r] = i]
      BY <1>4 DEF DeleteGet
    <2>2. Asking' = Asking /\ Pushed' = Pushed
      BY <2>1 DEF Asking, Pushed, ItemsOf, TypeOK, CatalogTypeOK
    <2> QED
      BY <1>4, <2>2, <1>w, <1>q, <1>d, <1>s DEF DeleteGet, Ledger!ledgerVars
  <1>5. ASSUME NEW r \in Requests, ConfirmRejected(r) \/ RequestFails(r)
        PROVE  Ledger!Withdraw(r)
    BY <1>5, <1>e, <1>w, <1>q, <1>d, <1>s DEF ConfirmRejected, RequestFails, Ledger!Withdraw
  <1>6. ASSUME NEW r \in Requests, ConfirmStat(r) \/ ConfirmMerge(r) \/ DeleteObject(r)
        PROVE  UNCHANGED Ledger!ledgerVars
    <2>1. Asking' = Asking /\ Pushed' = Pushed
      BY <1>6, <1>m DEF ConfirmStat, ConfirmMerge, DeleteObject
    <2> QED
      BY <1>6, <2>1, <1>w, <1>q, <1>d, <1>s
         DEF ConfirmStat, ConfirmMerge, DeleteObject, Ledger!ledgerVars
  <1>7. ASSUME NEW r \in Requests, ConfirmEnqueue(r) PROVE Ledger!Push(r)
    <2> DEFINE i == ritem[r]
               j == [item |-> i, attempts |-> 0]
    <2>1. rpc[r] = "enqueue" /\ i \in Items
      BY <1>7 DEF ConfirmEnqueue, TypeOK, CatalogTypeOK
    <2>2. rpc' = [rpc EXCEPT ![r] = "commit"] /\ ritem' = ritem
      BY <1>7 DEF ConfirmEnqueue
    <2>4. Asking' = [Asking EXCEPT ![r] = None] /\ Pushed' = [Pushed EXCEPT ![r] = i]
      BY <2>1, <2>2, ConstantsOK DEF Asking, Pushed, ItemsOf, TypeOK, CatalogTypeOK
    <2>5. Asking[r] = i /\ i # None
      BY <2>1, ConstantsOK DEF Asking, ItemsOf, IngestionAssumption
    <2>6. OpenJobs' = [OpenJobs EXCEPT ![i] = @ + 1]
      <3>1. j \in Job /\ queue' = Append(queue, j)
        BY <1>7, <2>1, FirstJob DEF ConfirmEnqueue, Push
      <3>2. \A k \in Items : Cardinality(Listed(k)') =
                               Cardinality(Listed(k)) + (IF k = i THEN 1 ELSE 0)
        BY <3>1, ListedAfterPush
      <3>3. \A k \in Items : Cardinality(Listed(k)) \in Nat /\ Cardinality(Holders(k)) \in Nat
        BY LedgerTypes, FS_CardinalityType
      <3> QED
        BY <2>1, <3>2, <3>3, <1>w DEF OpenJobs
    <2> QED
      BY <1>7, <2>4, <2>5, <2>6, <1>w, <1>d, <1>s DEF ConfirmEnqueue, Ledger!Push
  <1>8. ASSUME NEW r \in Requests, ConfirmCommit(r) PROVE Ledger!Write(r)
    <2> DEFINE i == ritem[r]
    <2>1. rpc[r] = "commit" /\ i \in Items /\ EndRequest(r)
      BY <1>8 DEF ConfirmCommit, TypeOK, CatalogTypeOK
    <2>2. Pushed[r] = i /\ i # None /\ Asking[r] = None
      BY <2>1, ConstantsOK DEF Asking, Pushed, ItemsOf, IngestionAssumption
    <2>3. Pushed' = [Pushed EXCEPT ![r] = None] /\ Asking' = Asking
      BY <2>1, <2>2, <1>e, ItemsOfType DEF Asking
    <2>4. Shown' = Shown \/ Shown' = [Shown EXCEPT ![i] = "waiting"]
      <3>1. entity[r] \in Row /\ entity[r].status = "queued" /\ loaded[r] \in Row
        BY <2>1 DEF EntityIsQueued, TypeOK, CatalogTypeOK
      <3>2. CASE Present(i) /\ loaded[r].status # "absent"
        <4> DEFINE row == Flushed(db[i], loaded[r], entity[r])
        <4>1. row \in Row /\ row.status \in {db[i].status, "queued"}
          BY <2>1, <3>1, FlushedType DEF Flushed, Column, TypeOK, StoreTypeOK
        <4>2. db' = [db EXCEPT ![i] = row]
          BY <1>8, <3>2 DEF ConfirmCommit
        <4>3. Shown' = [Shown EXCEPT ![i] = ShownAs(row.status)]
          BY <2>1, <4>1, <4>2, ShownStep
        <4>4. ShownAs(row.status) \in {Shown[i], "waiting"}
          BY <2>1, <4>1 DEF Shown, ShownAs
        <4> QED
          BY <4>3, <4>4 DEF Shown
      <3>3. CASE ~Present(i) /\ loaded[r].status = "absent"
        <4>1. db' = [db EXCEPT ![i] = entity[r]]
          BY <1>8, <3>3 DEF ConfirmCommit
        <4>2. ShownAs(entity[r].status) = "waiting"
          BY <3>1 DEF ShownAs
        <4> QED
          BY <2>1, <3>1, <4>1, <4>2, ShownStep
      <3>4. CASE /\ ~(Present(i) /\ loaded[r].status # "absent")
                 /\ ~(~Present(i) /\ loaded[r].status = "absent")
        BY <1>8, <3>4, <1>s DEF ConfirmCommit
      <3> QED
        BY <3>2, <3>3, <3>4
    <2> QED
      BY <1>8, <2>2, <2>3, <2>4, <1>w, <1>q, <1>d
         DEF ConfirmCommit, Ledger!Write, Ledger!Show
  <1>9. ASSUME NEW r \in Requests, DeleteRow(r) PROVE Ledger!Delete(ritem[r])
    <2>1. rpc[r] = "row" /\ ritem[r] \in Items /\ EndRequest(r)
      BY <1>9 DEF DeleteRow, TypeOK, CatalogTypeOK
    <2>2. Asking' = Asking /\ Pushed' = Pushed
      BY <2>1 DEF EndRequest, Asking, Pushed, ItemsOf, TypeOK, CatalogTypeOK
    <2>3. Shown' = [Shown EXCEPT ![ritem[r]] = "none"]
      <3>1. ShownAs(NoRow.status) = "none"
        BY DEF NoRow, NewRow, ShownAs
      <3> QED
        BY <1>9, <2>1, <3>1, NoRowType, ShownStep DEF DeleteRow
    <2> QED
      BY <1>9, <2>2, <2>3, <1>w, <1>q, <1>d DEF DeleteRow, Ledger!Delete, Ledger!Show
  <1>10. \A r \in Requests : rpc[r] = "row" => ritem[r] \in Items
    BY DEF TypeOK, CatalogTypeOK
  <1> QED
    BY <1>1, <1>2, <1>3, <1>4, <1>5, <1>6, <1>7, <1>8, <1>9, <1>10
       DEF CatalogNext, ConfirmStep, DeleteStep, DeleteRow, Ledger!Next

LEMMA WorkersMoveAlone ==
  ASSUME TypeOK, NEW w \in Workers, WorkerStep(w) \/ WorkerFault(w)
  PROVE  OnlyMoves(w)
PROOF
  <1> USE DEF OnlyMoves, TypeOK, WorkerTypeOK, Advance, EndSession, EndJob
  <1>1. CASE Raise(w) \/ RaisePermanent(w)
    BY <1>1 DEF Raise, RaisePermanent
  <1>2. CASE Pop(w) \/ Requeue(w) \/ Fail(w) \/ DeadLetter(w)
    BY <1>2 DEF Pop, Requeue, Fail, DeadLetter
  <1>3. CASE GetItem(w) \/ MarkProcessing(w) \/ FindNoDuplicate(w) \/ FindDuplicate(w)
    BY <1>3 DEF GetItem, MarkProcessing, FindNoDuplicate, FindDuplicate, storeVars
  <1>4. CASE Download(w)
    BY <1>1, <1>4 DEF Download
  <1>5. CASE Upsert(w) \/ MarkIndexedAndBump(w) \/ CommitDuplicate(w) \/ CommitIndexed(w)
    BY <1>5 DEF Upsert, MarkIndexedAndBump, CommitDuplicate, CommitIndexed
  <1>6. CASE RowIsGone(w) \/ TransientFault(w)
    BY <1>1, <1>6 DEF RowIsGone, TransientFault
  <1>7. CASE BumpFails(w) \/ FailSwallowed(w) \/ PushFails(w) \/ Crash(w)
    BY <1>7 DEF BumpFails, FailSwallowed, PushFails, Crash
  <1> QED
    BY <1>2, <1>3, <1>4, <1>5, <1>6, <1>7 DEF WorkerStep, ProcessStep, WorkerFault

LEMMA WorkerLedger ==
  ASSUME TypeOK, TypeOK', WorkerNext, UNCHANGED catalogVars
  PROVE  [Ledger!Next]_(Ledger!ledgerVars)
PROOF
  <1> SUFFICES ASSUME NEW w \in Workers, WorkerStep(w) \/ WorkerFault(w)
               PROVE  [Ledger!Next]_(Ledger!ledgerVars)
    BY DEF WorkerNext
  <1> DEFINE i == job[w].item
  <1> USE DEF storeVars
  <1>o. OnlyMoves(w)
    BY WorkersMoveAlone
  <1>i. wpc[w] # "idle" => job[w] \in Job /\ i \in Items
    BY DEF TypeOK, WorkerTypeOK, Job
  <1>a. Asking' = Asking /\ Pushed' = Pushed
    BY DEF Asking, Pushed, ItemsOf, catalogVars
  <1>d. dlq' = dlq => DeadItems' = DeadItems
    BY DEF DeadItems, DeadLettered
  <1>s. db' = db => Shown' = Shown
    BY DEF Shown
  \* The worker keeps its job, and goes on knowing the row or not knowing it.
  <1>k. ASSUME wpc[w] # "idle", wpc'[w] # "idle", job'[w].item = i,
               FoundGone(w)' <=> FoundGone(w), UNCHANGED <<queue, dlq>>
        PROVE  /\ OpenJobs' = OpenJobs /\ AstrayJobs' = AstrayJobs
               /\ db' = db => UNCHANGED Ledger!ledgerVars
    BY <1>k, <1>a, <1>d, <1>i, <1>o, <1>s, JobMoves DEF Ledger!ledgerVars
  <1>e. ASSUME wpc[w] # "idle", wpc'[w] = "idle", UNCHANGED queue
        PROVE  /\ ~FoundGone(w) => Ledger!End(i) /\ AstrayJobs' = AstrayJobs
               /\ FoundGone(w) =>
                    /\ AstrayJobs[i] > 0 /\ AstrayJobs' = [AstrayJobs EXCEPT ![i] = @ - 1]
                    /\ OpenJobs' = OpenJobs
    BY <1>e, <1>i, <1>o, JobMoves
  \* The attempt fails and the worker keeps its job.
  <1>r. ASSUME wpc[w] # "idle", Raise(w) \/ RaisePermanent(w),
               UNCHANGED <<db, queue, dlq>>
        PROVE  Ledger!LeaveStray(i) \/ UNCHANGED Ledger!ledgerVars
    <2>1. /\ wpc'[w] \in {"fail", "requeue"} /\ job'[w].item = i
          /\ ~FoundGone(w)'
      BY <1>r, <1>i DEF Raise, RaisePermanent, Advance, FoundGone, TypeOK, WorkerTypeOK, Job
    <2>2. CASE ~FoundGone(w)
      BY <1>k, <1>r, <2>1, <2>2
    <2>3. CASE FoundGone(w)
      BY <1>a, <1>d, <1>i, <1>o, <1>r, <1>s, <2>1, <2>3, JobMoves DEF Ledger!LeaveStray
    <2> QED
      BY <2>2, <2>3
  \* The worker comes to its commit, and holds the row if there is one.
  <1>c. ASSUME wpc[w] \in {"dedup", "bump"}, wpc'[w] = "commit", job'[w] = job[w],
               marked'[w] = Present(i), UNCHANGED <<db, queue, dlq>>
        PROVE  Ledger!Stray(i) \/ UNCHANGED Ledger!ledgerVars
    <2>1. ~FoundGone(w) /\ (FoundGone(w)' <=> ~Present(i))
      BY <1>c DEF FoundGone
    <2>2. CASE Present(i)
      BY <1>c, <1>k, <2>1, <2>2
    <2>3. CASE ~Present(i)
      <3>1. Shown[i] = "none"
        BY <1>c, <1>i, <2>3 DEF Shown, ShownAs, Present
      <3> QED
        BY <1>a, <1>c, <1>d, <1>i, <1>o, <1>s, <2>1, <2>3, <3>1, JobMoves DEF Ledger!Stray
    <2> QED
      BY <2>2, <2>3
  <1> USE DEF Advance, TypeOK, WorkerTypeOK
  <1>1. CASE Pop(w)
    <2> DEFINE k == Head(queue).item
    <2>1. /\ queue # <<>> /\ queue' = Tail(queue) /\ Head(queue) \in Job
          /\ wpc[w] = "idle" /\ wpc'[w] = "get" /\ job'[w] = Head(queue)
          /\ UNCHANGED <<db, dlq>>
      BY <1>1 DEF Pop, StoreTypeOK
    <2>2. \A n \in Items : /\ ~Holds(w, n) /\ (Holds(w, n)' <=> n = k)
                          /\ ~Strays(w, n) /\ ~Strays(w, n)'
      BY <2>1 DEF Holds, Strays, FoundGone
    <2>3. \A n \in Items :
            /\ Cardinality(Listed(n)') = Cardinality(Listed(n)) - (IF k = n THEN 1 ELSE 0)
            /\ Cardinality(Holders(n)') = Cardinality(Holders(n)) + (IF k = n THEN 1 ELSE 0)
            /\ Cardinality(Strayers(n)') = Cardinality(Strayers(n))
      <3>1. ASSUME NEW n \in Items
            PROVE  Cardinality(Listed(n)') = Cardinality(Listed(n)) - (IF k = n THEN 1 ELSE 0)
        BY <2>1, ListedAfterPop
      <3>2. ASSUME NEW n \in Items
            PROVE  /\ Cardinality(Holders(n)') =
                        Cardinality(Holders(n)) + (IF k = n THEN 1 ELSE 0)
                   /\ Cardinality(Strayers(n)') = Cardinality(Strayers(n))
        <4>1. Cardinality(Holders(n)) \in Nat
          BY LedgerTypes, FS_CardinalityType
        <4> QED
          BY <1>o, <2>2, <4>1, HoldersMove, StrayersMove
      <3> QED
        BY <3>1, <3>2
    <2>4. \A n \in Items : Cardinality(Listed(n)) \in Nat /\ Cardinality(Holders(n)) \in Nat
      BY LedgerTypes, FS_CardinalityType
    <2>5. OpenJobs' = OpenJobs /\ AstrayJobs' = AstrayJobs
      BY <2>3, <2>4 DEF OpenJobs, AstrayJobs
    <2> QED
      BY <1>a, <1>d, <1>s, <2>1, <2>5 DEF Ledger!ledgerVars
  <1>2. CASE Requeue(w)
    <2>1. /\ job[w] \in Job /\ queue' = Append(queue, job[w])
          /\ wpc[w] = "requeue" /\ wpc'[w] = "idle"
          /\ UNCHANGED <<db, dlq>>
      BY <1>2, <1>i DEF Requeue, Push, EndJob
    <2>2. \A n \in Items : /\ (Holds(w, n) <=> n = i) /\ ~Holds(w, n)'
                          /\ ~Strays(w, n) /\ ~Strays(w, n)'
      BY <2>1 DEF Holds, Strays, FoundGone
    <2>3. ASSUME NEW n \in Items
          PROVE  /\ Cardinality(Listed(n)') = Cardinality(Listed(n)) + (IF i = n THEN 1 ELSE 0)
                 /\ Cardinality(Holders(n)') = Cardinality(Holders(n)) - (IF i = n THEN 1 ELSE 0)
                 /\ Cardinality(Strayers(n)') = Cardinality(Strayers(n))
      <3>1. Cardinality(Listed(n)') = Cardinality(Listed(n)) + (IF i = n THEN 1 ELSE 0)
        BY <2>1, ListedAfterPush
      <3>2. Cardinality(Holders(n)) \in Nat
        BY LedgerTypes, FS_CardinalityType
      <3> QED
        BY <1>o, <2>2, <3>1, <3>2, HoldersMove, StrayersMove
    <2>4. \A n \in Items : Cardinality(Listed(n)) \in Nat /\ Cardinality(Holders(n)) \in Nat
      BY LedgerTypes, FS_CardinalityType
    <2>5. OpenJobs' = OpenJobs /\ AstrayJobs' = AstrayJobs
      BY <2>3, <2>4 DEF OpenJobs, AstrayJobs
    <2> QED
      BY <1>a, <1>d, <1>s, <2>1, <2>5 DEF Ledger!ledgerVars
  <1>3. CASE Fail(w)
    <2>1. /\ wpc[w] = "fail" /\ wpc'[w] = "dead_letter" /\ job'[w] = job[w]
          /\ UNCHANGED <<queue, dlq>> /\ i \in Items
      BY <1>3, <1>i DEF Fail
    <2>2. FoundGone(w)' <=> FoundGone(w)
      BY <2>1 DEF FoundGone
    <2>3. OpenJobs' = OpenJobs /\ AstrayJobs' = AstrayJobs
      BY <1>k, <2>1, <2>2
    <2>4. CASE Present(i)
      <3> DEFINE row == [db[i] EXCEPT !.status = "failed", !.failed = TRUE]
      <3>r. db[i] \in Row
        BY <2>1 DEF StoreTypeOK
      <3>1. row \in Row /\ row.status = "failed"
        BY <3>r, FailedRow DEF Row
      <3>2. db' = [db EXCEPT ![i] = row]
        BY <1>3, <2>4 DEF Fail
      <3>3. Shown' = [Shown EXCEPT ![i] = "failed"]
        BY <2>1, <3>1, <3>2, ShownStep DEF ShownAs
      <3>4. Shown[i] # "none"
        BY <2>1, <2>4 DEF Shown, ShownAs, Present
      <3>5. OpenJobs[i] > 0
        <4>1. Cardinality(Holders(i)) > 0
          <5>1. w \in Holders(i) /\ IsFiniteSet(Holders(i))
            BY <2>1, LedgerTypes DEF Holders, Holds, FoundGone
          <5> QED
            BY <5>1, OneMore, FS_RemoveElement, FS_CardinalityType, FS_EmptySet
        <4>2. Cardinality(Listed(i)) \in Nat /\ Cardinality(Holders(i)) \in Nat
          BY <2>1, LedgerTypes, FS_CardinalityType
        <4> QED
          BY <2>1, <4>1, <4>2 DEF OpenJobs
      <3>6. Ledger!Fail(i)
        BY <1>a, <1>d, <2>1, <2>3, <3>3, <3>4, <3>5 DEF Ledger!Fail, Ledger!Show
      <3> QED
        BY <2>1, <3>6 DEF Ledger!Next
    <2>5. CASE ~Present(i)
      BY <1>3, <1>k, <2>1, <2>2, <2>5 DEF Fail
    <2> QED
      BY <2>4, <2>5
  <1>4. CASE DeadLetter(w)
    <2>1. /\ wpc[w] = "dead_letter" /\ wpc'[w] = "idle" /\ dlq' = Append(dlq, job[w])
          /\ UNCHANGED <<db, queue>> /\ i \in Items
      BY <1>4, <1>i DEF DeadLetter, EndJob
    <2>2. ~FoundGone(w)
      BY <2>1 DEF FoundGone
    <2>3. DeadItems' = DeadItems \cup {i}
      <3>1. dlq \in Seq(Job)
        BY DEF TypeOK, StoreTypeOK
      <3>2. \A j \in Items : DeadLettered(j)' <=> DeadLettered(j) \/ j = i
        BY <1>4, <2>1, <3>1 DEF DeadLettered
      <3> QED
        BY <2>1, <3>2 DEF DeadItems
    <2>4. Ledger!Bury(i)
      BY <1>a, <1>e, <1>s, <2>1, <2>2, <2>3 DEF Ledger!Bury
    <2> QED
      BY <2>1, <2>4 DEF Ledger!Next
  <1>5. CASE GetItem(w)
    <2>1. wpc[w] = "get" /\ UNCHANGED <<db, queue, dlq>> /\ i \in Items
      BY <1>5, <1>i DEF GetItem
    <2>2. ~FoundGone(w)
      BY <2>1 DEF FoundGone
    <2>3. CASE db[i].status \in {"absent", "indexed"}
      <3>1. wpc'[w] = "idle"
        BY <1>5, <2>3 DEF GetItem, EndJob
      <3>2. Shown[i] \in {"done", "none"}
        BY <2>1, <2>3 DEF Shown, ShownAs
      <3>3. Ledger!Settle(i)
        BY <1>a, <1>d, <1>e, <1>s, <2>1, <2>2, <3>1, <3>2 DEF Ledger!Settle
      <3> QED
        BY <2>1, <3>3 DEF Ledger!Next
    <2>4. CASE db[i].status \notin {"absent", "indexed"}
      <3>1. wpc'[w] = "mark" /\ job'[w] = job[w]
        BY <1>5, <2>4 DEF GetItem
      <3>2. ~FoundGone(w)'
        BY <3>1 DEF FoundGone
      <3> QED
        BY <1>k, <2>1, <2>2, <3>1, <3>2
    <2> QED
      BY <2>3, <2>4
  <1>6. CASE MarkProcessing(w) \/ FindNoDuplicate(w) \/ Upsert(w) \/ FailSwallowed(w)
    <2>1. /\ wpc[w] \notin {"idle", "commit"} /\ wpc'[w] \notin {"idle", "commit"}
          /\ job'[w] = job[w] /\ UNCHANGED <<db, queue, dlq>>
      BY <1>6 DEF MarkProcessing, FindNoDuplicate, Upsert, FailSwallowed
    <2>2. ~FoundGone(w) /\ ~FoundGone(w)'
      BY <2>1 DEF FoundGone
    <2> QED
      BY <1>k, <2>1, <2>2
  <1>7. CASE Download(w)
    <2>1. CASE RaisePermanent(w)
      BY <1>7, <1>i, <1>r, <2>1 DEF Download, Ledger!Next
    <2>2. CASE ~RaisePermanent(w)
      <3>1. /\ wpc[w] = "download" /\ wpc'[w] = "dedup" /\ job'[w] = job[w]
            /\ UNCHANGED <<db, queue, dlq>>
        BY <1>7, <2>2 DEF Download
      <3>2. ~FoundGone(w) /\ ~FoundGone(w)'
        BY <3>1 DEF FoundGone
      <3> QED
        BY <1>k, <3>1, <3>2
    <2> QED
      BY <2>1, <2>2
  <1>8. CASE FindDuplicate(w) \/ MarkIndexedAndBump(w) \/ BumpFails(w)
    <2>1. /\ wpc[w] \in {"dedup", "bump"} /\ wpc'[w] = "commit" /\ job'[w] = job[w]
          /\ marked'[w] = Present(i) /\ UNCHANGED <<db, queue, dlq>>
      BY <1>8 DEF FindDuplicate, MarkIndexedAndBump, BumpFails
    <2> QED
      BY <1>c, <1>i, <2>1 DEF Ledger!Next
  <1>9. CASE CommitDuplicate(w) \/ CommitIndexed(w)
    <2>1. /\ wpc[w] = "commit" /\ wpc'[w] = "idle" /\ i \in Items
          /\ UNCHANGED <<queue, dlq>>
      BY <1>9, <1>i DEF CommitDuplicate, CommitIndexed, EndJob
    <2>2. CASE marked[w]
      <3>1. ~FoundGone(w)
        BY <2>2 DEF FoundGone
      <3>r. db[i] \in Row /\ image[w] \in Images \cup {None}
            /\ duplicate[w] \in Items \cup {None}
        BY <2>1 DEF StoreTypeOK
      <3>2. PICK row \in Row : /\ row.status \in {"indexed", "duplicate"}
                              /\ db' = [db EXCEPT ![i] = row]
        <4>1. CASE CommitDuplicate(w)
          <5>1. [db[i] EXCEPT !.status = "duplicate", !.phash = image[w],
                              !.duplicateOf = duplicate[w]] \in Row
            BY <3>r, DuplicateRow
          <5> QED
            BY <2>2, <3>r, <4>1, <5>1 DEF CommitDuplicate, Row
        <4>2. CASE CommitIndexed(w)
          <5>1. [db[i] EXCEPT !.status = "indexed", !.phash = image[w], !.failed = FALSE] \in Row
            BY <3>r, IndexedRow
          <5> QED
            BY <2>2, <3>r, <4>2, <5>1 DEF CommitIndexed, Row
        <4> QED
          BY <1>9, <4>1, <4>2
      <3>3. Shown' = [Shown EXCEPT ![i] = "done"]
        BY <2>1, <3>2, ShownStep DEF ShownAs
      <3>4. Ledger!Settle(i)
        BY <1>a, <1>d, <1>e, <2>1, <3>1, <3>3 DEF Ledger!Settle, Ledger!Show
      <3> QED
        BY <2>1, <3>4 DEF Ledger!Next
    <2>3. CASE ~marked[w]
      <3>1. FoundGone(w) /\ db' = db
        BY <1>9, <2>1, <2>3 DEF FoundGone, CommitDuplicate, CommitIndexed
      <3>2. Ledger!LeaveStray(i)
        BY <1>a, <1>d, <1>e, <1>s, <2>1, <3>1 DEF Ledger!LeaveStray
      <3> QED
        BY <2>1, <3>2 DEF Ledger!Next
    <2> QED
      BY <2>2, <2>3
  <1>10. CASE RowIsGone(w) \/ TransientFault(w)
    <2>1. wpc[w] # "idle" /\ Raise(w) /\ UNCHANGED <<db, queue, dlq>>
      BY <1>10 DEF RowIsGone, TransientFault, Processing
    <2> QED
      BY <1>i, <1>r, <2>1 DEF Ledger!Next
  <1>11. CASE PushFails(w) \/ Crash(w)
    <2>1. /\ wpc[w] # "idle" /\ wpc'[w] = "idle" /\ i \in Items
          /\ Faults \cap {"redis", "crash"} # {} /\ UNCHANGED <<db, queue, dlq>>
      BY <1>11, <1>i DEF PushFails, Crash, EndJob
    <2>2. Ledger!Lose(i) \/ Ledger!LeaveStray(i)
      BY <1>a, <1>d, <1>e, <1>s, <2>1 DEF Ledger!Lose, Ledger!LeaveStray
    <2> QED
      BY <2>1, <2>2 DEF Ledger!Next
  <1> QED
    BY <1>1, <1>2, <1>3, <1>4, <1>5, <1>6, <1>7, <1>8, <1>9, <1>10, <1>11
       DEF WorkerStep, ProcessStep, WorkerFault

\* Ingestion implements the ledger of jobs: whatever fails and however requests
\* and workers interleave, a confirmation opens one job and a job ends as the
\* ledger has it; none is lost as long as Redis answers and no process dies.
THEOREM JobsAreAccountedFor == Spec => ImplementsJobLedger
PROOF
  <1>1. Init => Ledger!Init
    <2> SUFFICES ASSUME Init PROVE Ledger!Init
      OBVIOUS
    <2> USE DEF Init, StoreInit, CatalogInit, WorkerInit
    <2>1. \A i \in Items : Listed(i) = {} /\ Holders(i) = {} /\ Strayers(i) = {}
      BY DEF Listed, Holders, Strayers, Holds, Strays, FoundGone
    <2>2. OpenJobs = [i \in Items |-> 0] /\ AstrayJobs = [i \in Items |-> 0]
      <3>1. Cardinality({}) = 0
        BY FS_EmptySet
      <3>2. \A i \in Items : /\ Cardinality(Listed(i)) = 0 /\ Cardinality(Holders(i)) = 0
                            /\ Cardinality(Strayers(i)) = 0
        BY <2>1, <3>1
      <3> QED
        BY <3>2 DEF OpenJobs, AstrayJobs
    <2>3. /\ Asking = [r \in Requests |-> None]
          /\ Pushed = [r \in Requests |-> None]
      BY DEF Asking, Pushed, ItemsOf
    <2>4. DeadItems = {} /\ Shown = [i \in Items |-> "none"]
      BY DEF DeadItems, DeadLettered, Shown, ShownAs, NoRow, NewRow
    <2> QED
      BY <2>2, <2>3, <2>4 DEF Ledger!Init
  <1>2. ASSUME TypeOK, TypeOK', BackedInv, RegisteredInv, [Next]_vars
        PROVE  [Ledger!Next]_(Ledger!ledgerVars)
    <2>1. CASE CatalogNext /\ UNCHANGED workerVars
      BY <1>2, <2>1, CatalogLedger DEF BackedInv
    <2>2. CASE WorkerNext /\ UNCHANGED catalogVars
      BY <1>2, <2>2, WorkerLedger
    <2>3. CASE UNCHANGED vars
      BY <2>3
         DEF vars, storeVars, catalogVars, workerVars, Ledger!ledgerVars, Asking, Pushed,
             ItemsOf, OpenJobs, AstrayJobs, Listed, Holders, Strayers, Holds, Strays,
             FoundGone, DeadItems, DeadLettered, Shown
    <2> QED
      BY <1>2, <2>1, <2>2, <2>3 DEF Next
  <1> QED
    BY <1>1, <1>2, TypeCorrect, BackedInvariant, RegisteredInvariant, PTL
       DEF Spec, Ledger!Spec, ImplementsJobLedger
=============================================================================
