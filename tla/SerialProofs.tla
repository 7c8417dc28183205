---------------------------- MODULE SerialProofs ----------------------------
(***************************************************************************)
(* What the ingestion pipeline promises when jobs are processed one at a   *)
(* time, or when items are not deleted: promises that two workers on one   *)
(* item, or two requests for one row, can break.                           *)
(***************************************************************************)
EXTENDS IngestionJobProofs, WellFoundedInduction

\* One ingestion-worker process, as docker-compose.yml runs it (a fixed container_name).
OneWorker == \A v, w \in Workers : v = w

\* Clients wait for one answer before they make the next call.
OneRequest == \A q, r \in Requests : q = r

-----------------------------------------------------------------------------
(* The strengthenings                                                      *)

\* The worker has no duplicate to record: its commit makes the item INDEXED.
AboutToIndex(w) == wpc[w] = "commit" /\ duplicate[w] = None

\* An item whose job has passed the 'already indexed' test stays unindexed until
\* that job commits.
SkipInv ==
  \A w \in Workers :
    wpc[w] \in Processing \ {"get"} => db[job[w].item].status # "indexed"

\* Jobs that committed their point, and the requests that may write a hash.
VectorInv ==
  /\ \A i \in Items : db[i].status = "indexed" => vectors[i] = db[i].phash
  /\ \A w \in Workers :
       wpc[w] = "bump" \/ AboutToIndex(w)
         => vectors[job[w].item] = image[w]

RequestInv ==
  \A r \in Requests :
    /\ rpc[r] \in {"stat", "merge"} /\ db[ritem[r]].status = "queued"
         => entity[r].phash = db[ritem[r]].phash
    /\ rpc[r] \in {"enqueue", "commit"} /\ loaded[r].status = "queued"
         => entity[r].phash = loaded[r].phash

\* A worker past the dedup query has an image far from every indexed one.
FarInv ==
  \A w \in Workers :
    wpc[w] \in {"upsert", "bump"} \/ AboutToIndex(w) =>
      \A j \in Items \ {job[w].item} :
        /\ TenantOf[j] = TenantOf[job[w].item]
        /\ db[j].status = "indexed" /\ db[j].phash # None
        => Distance[image[w], db[j].phash] > Threshold

\* Without deletes a row stays, and a worker has marked it before it queries.
KeptInv ==
  /\ \A r \in Requests : rpc[r] \notin {"object", "row"}
  /\ \A w \in Workers :
       /\ wpc[w] = "mark" => Present(job[w].item)
       /\ wpc[w] \in {"download", "dedup"} => marked[w]

\* No row, no worker about to record a duplicate and no request that may write an
\* old column back has an item for its own duplicate.
NoneInWorkers ==
  \A w \in Workers :
    wpc[w] = "commit" /\ duplicate[w] # None => duplicate[w] # job[w].item
NoneInRequests ==
  \A r \in Requests :
    rpc[r] \in {"stat", "merge", "enqueue", "commit"}
      => entity[r].duplicateOf # ritem[r]
OthersInv == NotOwnDuplicate /\ NoneInWorkers /\ NoneInRequests

\* While nothing fails, points wait for their bump only between the two calls.
BumpInv ==
  \A i \in unannounced :
    \E w \in Workers : wpc[w] = "bump" /\ job[w].item = i

\* The bump of the tenant's version precedes the commit.
SerialBumpInv ==
  /\ \A i \in unannounced : db[i].status # "indexed"
  /\ \A w \in Workers :
       AboutToIndex(w) => job[w].item \notin unannounced
-----------------------------------------------------------------------------
(* What one step may do                                                    *)

\* No call of catalog-service makes an item INDEXED, adds an embedding reference
\* or touches the vector store and its versions.
LEMMA CatalogEffect ==
  ASSUME TypeOK, EntityIsQueued, CatalogNext
  PROVE  /\ UNCHANGED <<vectors, unannounced>>
         /\ \A i \in Items : /\ db'[i].status = "indexed" => db[i].status = "indexed"
                             /\ refs'[i] <= refs[i]
PROOF
  <1> USE DEF TypeOK, StoreTypeOK, CatalogTypeOK, storeVars
  <1>1. UNCHANGED <<vectors, unannounced>>
    BY DEF CatalogNext, ConfirmStep, DeleteStep, RegisterItem, Upload,
           ConfirmGet, DeleteGet, ConfirmStat, ConfirmRejected, ConfirmMerge,
           ConfirmEnqueue, ConfirmCommit, DeleteObject, DeleteRow, RequestFails
  <1> SUFFICES ASSUME NEW i \in Items
               PROVE  /\ db'[i].status = "indexed" => db[i].status = "indexed"
                      /\ refs'[i] <= refs[i]
    BY <1>1
  <1>2. refs[i] \in Nat /\ refs[i] <= refs[i] /\ 0 <= refs[i]
    OBVIOUS
  <1>3. CASE \E j \in Items : RegisterItem(j)
    BY <1>2, <1>3 DEF RegisterItem, NewRow
  <1>4. ASSUME NEW r \in Requests, ConfirmCommit(r)
        PROVE  /\ db'[i].status = "indexed" => db[i].status = "indexed"
               /\ refs'[i] <= refs[i]
    BY <1>2, <1>4 DEF ConfirmCommit, Flushed, Column, EntityIsQueued, Present
  <1>5. ASSUME NEW r \in Requests, DeleteRow(r)
        PROVE  /\ db'[i].status = "indexed" => db[i].status = "indexed"
               /\ refs'[i] <= refs[i]
    BY <1>2, <1>5 DEF DeleteRow, NoRow, NewRow
  <1>6. CASE UNCHANGED <<db, refs>>
    BY <1>2, <1>6
  <1>7. \/ \E j \in Items : RegisterItem(j)
        \/ \E r \in Requests : ConfirmCommit(r) \/ DeleteRow(r)
        \/ UNCHANGED <<db, refs>>
    BY DEF CatalogNext, ConfirmStep, DeleteStep, Upload, ConfirmGet, DeleteGet,
           ConfirmStat, ConfirmRejected, ConfirmMerge, ConfirmEnqueue,
           DeleteObject, RequestFails
  <1> QED
    BY <1>3, <1>4, <1>5, <1>6, <1>7

\* A worker's step leaves the other workers and the items of other jobs alone.
\* It reaches the steps after the 'already indexed' test only by passing it, and
\* leaves the tables alone until it commits.
LEMMA WorkerEffect ==
  ASSUME TypeOK, NEW w \in Workers, WorkerStep(w) \/ WorkerFault(w)
  PROVE  /\ \A v \in Workers \ {w} :
              /\ wpc'[v] = wpc[v] /\ job'[v] = job[v]
              /\ marked'[v] = marked[v] /\ image'[v] = image[v]
              /\ duplicate'[v] = duplicate[v]
         /\ \A i \in Items : wpc[w] = "idle" \/ i # job[w].item =>
              /\ db'[i] = db[i] /\ refs'[i] = refs[i] /\ vectors'[i] = vectors[i]
         /\ wpc'[w] \in Processing \ {"get"} =>
              /\ wpc[w] \in Processing /\ job'[w] = job[w]
              /\ UNCHANGED <<db, refs>>
              /\ wpc[w] = "get" => db[job[w].item].status # "indexed"
         /\ refs' = refs \/ wpc[w] = "commit"
PROOF
  <1> USE DEF TypeOK, StoreTypeOK, WorkerTypeOK, Advance, storeVars, EndJob,
              EndSession, Processing
  <1>a. wpc[w] # "idle" => job[w] \in Job /\ job[w].item \in Items
    BY DEF Job
  <1> DEFINE Others == \A v \in Workers \ {w} :
                         /\ wpc'[v] = wpc[v] /\ job'[v] = job[v]
                         /\ marked'[v] = marked[v] /\ image'[v] = image[v]
                         /\ duplicate'[v] = duplicate[v]
             Local == \A i \in Items : wpc[w] = "idle" \/ i # job[w].item =>
                        /\ db'[i] = db[i] /\ refs'[i] = refs[i]
                        /\ vectors'[i] = vectors[i]
             Tested == wpc'[w] \in Processing \ {"get"} =>
                         /\ wpc[w] \in Processing /\ job'[w] = job[w]
                         /\ UNCHANGED <<db, refs>>
                         /\ wpc[w] = "get" => db[job[w].item].status # "indexed"
  <1> SUFFICES Others /\ Local /\ Tested /\ (refs' = refs \/ wpc[w] = "commit")
    OBVIOUS
  <1>r. ASSUME wpc[w] # "idle", Raise(w) \/ RaisePermanent(w),
               UNCHANGED <<db, refs, vectors>>
        PROVE  Others /\ Local /\ Tested
    <2>1. wpc'[w] \in {"fail", "requeue"}
      BY <1>r DEF Raise, RaisePermanent
    <2>2. Others
      BY <1>r DEF Raise, RaisePermanent
    <2> QED
      BY <1>r, <2>1, <2>2
  <1>1. CASE Pop(w)
    BY <1>1 DEF Pop
  <1>2. CASE Requeue(w)
    BY <1>2 DEF Requeue
  <1>3. CASE Fail(w)
    BY <1>a, <1>3 DEF Fail
  <1>4. CASE DeadLetter(w)
    BY <1>4 DEF DeadLetter
  <1>5. CASE GetItem(w)
    <2>1. UNCHANGED <<db, refs, vectors, marked, image, duplicate>>
      BY <1>5 DEF GetItem
    <2>2. CASE db[job[w].item].status \in {"absent", "indexed"}
      BY <1>5, <2>1, <2>2 DEF GetItem
    <2>3. CASE db[job[w].item].status \notin {"absent", "indexed"}
      BY <1>5, <2>1, <2>3 DEF GetItem
    <2> QED
      BY <2>2, <2>3
  <1>6. CASE MarkProcessing(w)
    BY <1>6 DEF MarkProcessing
  <1>7. CASE Download(w)
    <2>1. CASE RaisePermanent(w)
      BY <1>r, <1>7, <2>1 DEF Download
    <2>2. CASE ~RaisePermanent(w)
      BY <1>7, <2>2 DEF Download
    <2> QED
      BY <2>1, <2>2
  <1>8. CASE FindNoDuplicate(w)
    BY <1>8 DEF FindNoDuplicate
  <1>9. CASE FindDuplicate(w)
    BY <1>9 DEF FindDuplicate
  <1>10. CASE Upsert(w)
    BY <1>a, <1>10 DEF Upsert
  <1>11. CASE MarkIndexedAndBump(w)
    BY <1>11 DEF MarkIndexedAndBump
  <1>12. CASE CommitDuplicate(w)
    BY <1>a, <1>12 DEF CommitDuplicate
  <1>13. CASE CommitIndexed(w)
    BY <1>a, <1>13 DEF CommitIndexed
  <1>14. CASE RowIsGone(w)
    BY <1>r, <1>14 DEF RowIsGone
  <1>15. CASE TransientFault(w)
    BY <1>r, <1>15 DEF TransientFault
  <1>16. CASE BumpFails(w)
    BY <1>16 DEF BumpFails
  <1>17. CASE FailSwallowed(w)
    BY <1>17 DEF FailSwallowed
  <1>18. CASE PushFails(w)
    BY <1>18 DEF PushFails
  <1>19. CASE Crash(w)
    BY <1>19 DEF Crash
  <1> QED
    BY <1>1, <1>2, <1>3, <1>4, <1>5, <1>6, <1>7, <1>8, <1>9, <1>10, <1>11,
       <1>12, <1>13, <1>14, <1>15, <1>16, <1>17, <1>18, <1>19
       DEF WorkerStep, ProcessStep, WorkerFault

\* All but six steps of a worker leave the points alone, make no row INDEXED and
\* end outside the steps between the dedup query and the commit.
LEMMA OtherSteps ==
  ASSUME TypeOK, NEW w \in Workers, WorkerStep(w) \/ WorkerFault(w)
  PROVE  \/ FindNoDuplicate(w) \/ FindDuplicate(w) \/ Upsert(w)
         \/ MarkIndexedAndBump(w) \/ BumpFails(w) \/ CommitIndexed(w)
         \/ /\ UNCHANGED <<vectors, unannounced>>
            /\ wpc'[w] \notin {"upsert", "bump", "commit"}
            /\ \A i \in Items : db'[i].status \in {"indexed", "queued"}
                                => db'[i] = db[i]
PROOF
  <1> USE DEF TypeOK, StoreTypeOK, WorkerTypeOK, Advance, storeVars, EndJob
  <1>a. wpc[w] # "idle" => job[w] \in Job /\ job[w].item \in Items
    BY DEF Job
  <1> DEFINE Quiet == /\ UNCHANGED <<vectors, unannounced>>
                      /\ wpc'[w] \notin {"upsert", "bump", "commit"}
                      /\ \A i \in Items : db'[i].status \in {"indexed", "queued"}
                                          => db'[i] = db[i]
  <1>1. CASE Pop(w)
    BY <1>1 DEF Pop
  <1>2. CASE Requeue(w) \/ DeadLetter(w) \/ PushFails(w)
    BY <1>2 DEF Requeue, DeadLetter, PushFails
  <1>3. CASE Fail(w)
    <2>1. \A i \in Items : db'[i] = db[i] \/ db'[i].status = "failed"
      BY <1>a, <1>3 DEF Fail, Row
    <2> QED
      BY <1>3, <2>1 DEF Fail
  <1>5. CASE GetItem(w)
    <2>1. wpc'[w] \in {"idle", "mark"}
      BY <1>5 DEF GetItem
    <2> QED
      BY <1>5, <2>1 DEF GetItem
  <1>6. CASE MarkProcessing(w)
    BY <1>6 DEF MarkProcessing
  <1>7. CASE Download(w)
    <2>1. wpc'[w] \in {"fail", "dedup"}
      BY <1>7 DEF Download, RaisePermanent
    <2> QED
      BY <1>7, <2>1 DEF Download
  <1>8. CASE CommitDuplicate(w)
    <2>1. \A i \in Items : db'[i] = db[i] \/ db'[i].status = "duplicate"
      BY <1>a, <1>8 DEF CommitDuplicate, Row
    <2> QED
      BY <1>8, <2>1 DEF CommitDuplicate
  <1>9. CASE RowIsGone(w) \/ TransientFault(w)
    <2>1. wpc'[w] \in {"fail", "requeue"}
      BY <1>9 DEF RowIsGone, TransientFault, Raise
    <2> QED
      BY <1>9, <2>1 DEF RowIsGone, TransientFault
  <1>10. CASE FailSwallowed(w)
    BY <1>10 DEF FailSwallowed
  <1>11. CASE Crash(w)
    BY <1>11 DEF Crash
  <1> QED
    BY <1>1, <1>2, <1>3, <1>5, <1>6, <1>7, <1>8, <1>9, <1>10, <1>11
       DEF WorkerStep, ProcessStep, WorkerFault

-----------------------------------------------------------------------------
(* No second indexing                                                      *)

LEMMA SkipStep ==
  ASSUME OneWorker, TypeOK, EntityIsQueued, SkipInv, [Next]_vars
  PROVE  SkipInv'
PROOF
  <1> SUFFICES ASSUME NEW w \in Workers, wpc'[w] \in Processing \ {"get"}
               PROVE  db'[job'[w].item].status # "indexed"
    BY DEF SkipInv
  <1>1. CASE CatalogNext /\ UNCHANGED workerVars
    <2>1. job'[w].item \in Items /\ db[job'[w].item].status # "indexed"
      BY <1>1 DEF SkipInv, workerVars, TypeOK, WorkerTypeOK, Job, Processing
    <2> QED
      BY <1>1, <2>1, CatalogEffect
  <1>2. CASE WorkerNext /\ UNCHANGED catalogVars
    <2>1. WorkerStep(w) \/ WorkerFault(w)
      BY <1>2 DEF WorkerNext, OneWorker
    <2> QED
      BY <2>1, WorkerEffect DEF SkipInv
  <1>3. CASE UNCHANGED vars
    BY <1>3 DEF vars, storeVars, workerVars, SkipInv
  <1> QED
    BY <1>1, <1>2, <1>3 DEF Next

LEMMA SkipInvariant == ASSUME OneWorker PROVE Spec => []SkipInv
PROOF
  <1>1. Init => SkipInv
    BY DEF Init, WorkerInit, SkipInv, Processing
  <1>2. TypeOK /\ BackedInv /\ SkipInv /\ [Next]_vars => SkipInv'
    BY SkipStep DEF BackedInv
  <1> QED
    BY <1>1, <1>2, TypeCorrect, BackedInvariant, PTL DEF Spec

\* With one worker process a job that is delivered again never indexes its item
\* again, whatever requests and faults come between.
THEOREM IndexedOnce == ASSUME OneWorker PROVE Spec => NoReindex
PROOF
  <1>1. TypeOK /\ BackedInv /\ SkipInv /\ [Next]_vars
          => [\A i \in Items : db[i].status = "indexed" => refs'[i] <= refs[i]]_vars
    <2> SUFFICES ASSUME TypeOK, BackedInv, SkipInv, [Next]_vars,
                        NEW i \in Items, db[i].status = "indexed"
                 PROVE  refs'[i] <= refs[i] \/ UNCHANGED vars
      OBVIOUS
    <2>t. refs[i] \in Nat
      BY DEF TypeOK, StoreTypeOK
    <2>1. CASE CatalogNext /\ UNCHANGED workerVars
      BY <2>1, CatalogEffect DEF BackedInv
    <2>2. CASE WorkerNext /\ UNCHANGED catalogVars
      <3>1. PICK w \in Workers : WorkerStep(w) \/ WorkerFault(w)
        BY <2>2 DEF WorkerNext
      <3>2. wpc[w] = "commit" => i # job[w].item
        BY DEF SkipInv, Processing
      <3> QED
        BY <2>t, <3>1, <3>2, WorkerEffect
    <2> QED
      BY <2>1, <2>2 DEF Next
  <1> QED
    BY <1>1, TypeCorrect, BackedInvariant, SkipInvariant, PTL DEF Spec, NoReindex
-----------------------------------------------------------------------------
(* Hashes and points                                                       *)

\* A confirmation that keeps to RequestInv rewrites the hash of no indexed item.
LEMMA CatalogKeepsHash ==
  ASSUME TypeOK, EntityIsQueued, RequestInv, CatalogNext, NEW i \in Items,
         db'[i].status = "indexed"
  PROVE  db[i].status = "indexed" /\ db'[i].phash = db[i].phash
PROOF
  <1> USE DEF TypeOK, StoreTypeOK, CatalogTypeOK, storeVars
  <1>1. db[i].status = "indexed"
    BY CatalogEffect
  <1>2. CASE \E j \in Items : RegisterItem(j)
    BY <1>2 DEF RegisterItem, NewRow
  <1>3. ASSUME NEW r \in Requests, ConfirmCommit(r)
        PROVE  db'[i].phash = db[i].phash
    BY <1>3 DEF ConfirmCommit, Flushed, Column, EntityIsQueued, RequestInv
  <1>4. ASSUME NEW r \in Requests, DeleteRow(r)
        PROVE  db'[i].phash = db[i].phash
    BY <1>4 DEF DeleteRow, NoRow, NewRow
  <1>5. CASE UNCHANGED db
    BY <1>5
  <1>6. \/ \E j \in Items : RegisterItem(j)
        \/ \E r \in Requests : ConfirmCommit(r) \/ DeleteRow(r)
        \/ UNCHANGED db
    BY DEF CatalogNext, ConfirmStep, DeleteStep, Upload, ConfirmGet, DeleteGet,
           ConfirmStat, ConfirmRejected, ConfirmMerge, ConfirmEnqueue,
           DeleteObject, RequestFails
  <1> QED
    BY <1>1, <1>2, <1>3, <1>4, <1>5, <1>6

LEMMA WorkerKeepsQueued ==
  ASSUME TypeOK, WorkerNext, NEW i \in Items, db'[i].status = "queued"
  PROVE  db'[i] = db[i]
PROOF
  <1> USE DEF TypeOK, StoreTypeOK, WorkerTypeOK, storeVars
  <1> PICK w \in Workers : WorkerStep(w) \/ WorkerFault(w)
    BY DEF WorkerNext
  <1>1. CASE CommitIndexed(w)
    <2>1. job[w].item \in Items
      BY <1>1 DEF CommitIndexed, Job
    <2> QED
      BY <1>1, <2>1 DEF CommitIndexed, Row
  <1> QED
    BY <1>1, OtherSteps DEF FindNoDuplicate, FindDuplicate, Upsert,
       MarkIndexedAndBump, BumpFails

\* With one request at a time a row that is QUEUED when the request writes was so
\* when it read.
LEMMA RequestStep ==
  ASSUME OneRequest, TypeOK, EntityIsQueued, RequestInv, [Next]_vars
  PROVE  RequestInv'
PROOF
  <1> USE DEF TypeOK, StoreTypeOK, CatalogTypeOK, RequestInv, Goto, storeVars
  <1>1. CASE WorkerNext /\ UNCHANGED catalogVars
    <2> SUFFICES ASSUME NEW r \in Requests, rpc[r] # "idle"
                 PROVE  db'[ritem[r]].status = "queued"
                          => db'[ritem[r]] = db[ritem[r]]
      BY <1>1 DEF catalogVars
    <2>1. ritem[r] \in Items
      OBVIOUS
    <2> QED
      BY <1>1, <2>1, WorkerKeepsQueued
  <1>2. CASE UNCHANGED vars
    BY <1>2 DEF vars, catalogVars
  <1>3. ASSUME NEW i \in Items, RegisterItem(i) PROVE RequestInv'
    BY <1>3 DEF RegisterItem, NewRow
  <1>4. ASSUME NEW i \in Items, NEW im \in Images, Upload(i, im)
        PROVE  RequestInv'
    BY <1>4 DEF Upload
  <1> USE DEF OneRequest
  <1>5. ASSUME NEW r \in Requests, EndRequest(r) PROVE RequestInv'
    BY <1>5 DEF EndRequest
  <1>6. ASSUME NEW r \in Requests, NEW i \in Items, ConfirmGet(r, i)
        PROVE  RequestInv'
    BY <1>6 DEF ConfirmGet
  <1>7. ASSUME NEW r \in Requests, NEW i \in Items, DeleteGet(r, i)
        PROVE  RequestInv'
    BY <1>7 DEF DeleteGet
  <1>8. ASSUME NEW r \in Requests, ConfirmStat(r) PROVE RequestInv'
    BY <1>8 DEF ConfirmStat, Row
  <1>9. ASSUME NEW r \in Requests, ConfirmMerge(r) PROVE RequestInv'
    BY <1>9 DEF ConfirmMerge
  <1>10. ASSUME NEW r \in Requests, ConfirmEnqueue(r) PROVE RequestInv'
    BY <1>10 DEF ConfirmEnqueue
  <1>11. ASSUME NEW r \in Requests, DeleteObject(r) PROVE RequestInv'
    BY <1>11 DEF DeleteObject
  <1> QED
    BY <1>1, <1>2, <1>3, <1>4, <1>5, <1>6, <1>7, <1>8, <1>9, <1>10, <1>11
       DEF Next, CatalogNext, ConfirmStep, DeleteStep, ConfirmRejected,
           ConfirmCommit, DeleteRow, RequestFails

LEMMA VectorStep ==
  ASSUME OneWorker, TypeOK, EntityIsQueued, SkipInv, RequestInv, VectorInv,
         [Next]_vars
  PROVE  VectorInv'
PROOF
  <1> USE DEF TypeOK, StoreTypeOK, WorkerTypeOK, VectorInv, AboutToIndex, Advance,
              storeVars
  <1>1. CASE CatalogNext /\ UNCHANGED workerVars
    <2>1. UNCHANGED vectors
      BY <1>1, CatalogEffect
    <2>2. \A i \in Items : db'[i].status = "indexed" => vectors'[i] = db'[i].phash
      BY <1>1, <2>1, CatalogKeepsHash
    <2> QED
      BY <1>1, <2>1, <2>2 DEF workerVars
  <1>2. CASE WorkerNext /\ UNCHANGED catalogVars
    <2>0. PICK w \in Workers : WorkerStep(w) \/ WorkerFault(w)
      BY <1>2 DEF WorkerNext
    <2>w. \A v \in Workers : v = w
      BY DEF OneWorker
    <2>a. wpc[w] # "idle" => job[w].item \in Items
      BY DEF Job
    <2>1. CASE FindNoDuplicate(w)
      BY <2>w, <2>1 DEF FindNoDuplicate
    <2>2. CASE FindDuplicate(w)
      <3>1. duplicate'[w] \in Items
        BY <2>2 DEF FindDuplicate, Duplicates, ClosestDuplicates, IndexedPhashes
      <3>2. duplicate'[w] # None
        BY <3>1, ConstantsOK DEF IngestionAssumption
      <3> QED
        BY <2>w, <2>2, <3>2 DEF FindDuplicate
    <2>3. CASE Upsert(w)
      <3>1. db[job[w].item].status # "indexed"
        BY <2>3 DEF Upsert, SkipInv, Processing
      <3> QED
        BY <2>a, <2>w, <2>3, <3>1 DEF Upsert
    <2>4. CASE MarkIndexedAndBump(w) \/ BumpFails(w)
      BY <2>w, <2>4 DEF MarkIndexedAndBump, BumpFails
    <2>5. CASE CommitIndexed(w)
      <3>1. db[job[w].item].status # "indexed" /\ vectors[job[w].item] = image[w]
        BY <2>5 DEF CommitIndexed, SkipInv, Processing
      <3>2. \A i \in Items : db'[i].status = "indexed" => vectors'[i] = db'[i].phash
        BY <2>a, <2>5, <3>1 DEF CommitIndexed, Row
      <3>3. wpc'[w] = "idle"
        BY <2>5 DEF CommitIndexed, EndJob
      <3> QED
        BY <2>w, <3>2, <3>3
    <2>6. CASE /\ UNCHANGED <<vectors, unannounced>>
               /\ wpc'[w] \notin {"upsert", "bump", "commit"}
               /\ \A i \in Items : db'[i].status \in {"indexed", "queued"}
                                   => db'[i] = db[i]
      BY <2>w, <2>6
    <2> QED
      BY <2>0, <2>1, <2>2, <2>3, <2>4, <2>5, <2>6, OtherSteps
  <1>3. CASE UNCHANGED vars
    BY <1>3 DEF vars, workerVars
  <1> QED
    BY <1>1, <1>2, <1>3 DEF Next

LEMMA SerialInvariant ==
  ASSUME OneWorker, OneRequest PROVE Spec => [](SkipInv /\ RequestInv /\ VectorInv)
PROOF
  <1>1. Init => RequestInv /\ VectorInv
    BY DEF Init, StoreInit, CatalogInit, WorkerInit, RequestInv, VectorInv,
           AboutToIndex, NoRow, NewRow
  <1>2. TypeOK /\ BackedInv /\ SkipInv /\ RequestInv /\ VectorInv /\ [Next]_vars
          => RequestInv' /\ VectorInv'
    BY RequestStep, VectorStep DEF BackedInv
  <1> QED
    BY <1>1, <1>2, TypeCorrect, BackedInvariant, SkipInvariant, PTL DEF Spec

\* With one worker process and one request at a time the point of an INDEXED item
\* is the vector of the image whose hash its row records, whatever fails and
\* whatever is uploaded, confirmed again or deleted meanwhile.
THEOREM VectorsAreCurrent ==
  ASSUME OneWorker, OneRequest PROVE Spec => []IndexedVectorIsCurrent
PROOF
  <1>1. VectorInv => IndexedVectorIsCurrent
    BY DEF VectorInv, IndexedVectorIsCurrent
  <1> QED
    BY <1>1, SerialInvariant, PTL

-----------------------------------------------------------------------------
(* Near-duplicates                                                         *)

\* Every set of numbers has a least one.
LEMMA LessIsWellFounded ==
  IsWellFoundedOn({p \in Nat \X Nat : p[1] < p[2]}, Nat)
  BY NatLessThanWellFounded DEF OpToRel

LEMMA LeastNumber ==
  ASSUME NEW T, T \subseteq Nat, T # {}
  PROVE  \E x \in T : \A y \in T : x <= y
PROOF
  <1> DEFINE Less == {p \in Nat \X Nat : p[1] < p[2]}
  <1>1. PICK x \in T : \A y \in T : <<y, x>> \notin Less
    BY WFMin, LessIsWellFounded
  <1>2. \A y \in T : ~(y < x)
    <2> SUFFICES ASSUME NEW y \in T, y < x PROVE FALSE
      OBVIOUS
    <2>1. <<y, x>> \in Less
      OBVIOUS
    <2> QED
      BY <1>1, <2>1
  <1> QED
    BY <1>2

\* find_duplicate misses no near-duplicate: when it returns nothing, every hash it
\* was given is further than the threshold.
LEMMA NothingClose ==
  ASSUME TypeOK, NEW im \in Images, NEW existing, existing \subseteq Items,
         \A j \in existing : db[j].phash # None,
         ClosestDuplicates(im, existing) = {}
  PROVE  \A j \in existing : Distance[im, db[j].phash] > Threshold
PROOF
  <1>1. ASSUME NEW j \in existing PROVE Distance[im, db[j].phash] \in Nat
    <2>1. db[j].phash \in Images
      BY DEF TypeOK, StoreTypeOK, Row
    <2>2. <<im, db[j].phash>> \in Images \X Images
      BY <2>1
    <2> QED
      BY <2>2, ConstantsOK DEF IngestionAssumption
  <1>t. Threshold \in Nat
    BY ConstantsOK DEF IngestionAssumption
  <1> DEFINE to == [j \in existing |-> Distance[im, db[j].phash]]
             Distances == {to[k] : k \in existing}
  <1>n. to \in [existing -> Nat]
    BY <1>1
  <1>e. \A j \in existing : to[j] = Distance[im, db[j].phash]
    OBVIOUS
  <1> HIDE DEF to
  <1> SUFFICES ASSUME NEW j \in existing, ~(to[j] > Threshold)
               PROVE  FALSE
    BY <1>e
  <1>2. Distances \subseteq Nat /\ Distances # {}
    BY <1>n
  <1>3. PICK d \in Distances : \A e \in Distances : d <= e
    BY <1>2, LeastNumber
  <1>4. PICK k \in existing : d = to[k]
    OBVIOUS
  <1>5. \A l \in existing : to[k] <= to[l]
    BY <1>3, <1>4
  <1>6. to[k] <= Threshold
    BY <1>n, <1>t, <1>5
  <1>7. k \in ClosestDuplicates(im, existing)
    BY <1>e, <1>5, <1>6 DEF ClosestDuplicates
  <1> QED
    BY <1>7

LEMMA FarStep ==
  ASSUME OneWorker, TypeOK, BackedInv, RequestInv, FarInv, [Next]_vars
  PROVE  FarInv'
PROOF
  <1> USE DEF TypeOK, StoreTypeOK, WorkerTypeOK, FarInv, AboutToIndex, Advance,
              storeVars
  <1>1. CASE CatalogNext /\ UNCHANGED workerVars
    BY <1>1, CatalogKeepsHash DEF workerVars, BackedInv
  <1>2. CASE WorkerNext /\ UNCHANGED catalogVars
    <2>0. PICK w \in Workers : WorkerStep(w) \/ WorkerFault(w)
      BY <1>2 DEF WorkerNext
    <2>w. \A v \in Workers : v = w
      BY DEF OneWorker
    <2>a. wpc[w] # "idle" => job[w].item \in Items
      BY DEF Job
    <2>1. CASE FindNoDuplicate(w)
      <3>1. image[w] \in Images
        BY <2>1 DEF FindNoDuplicate, BackedInv, PointIsWritten
      <3>2. \A j \in IndexedPhashes(w) :
              Distance[image[w], db[j].phash] > Threshold
        BY <2>1, <3>1, NothingClose DEF FindNoDuplicate, Duplicates, IndexedPhashes
      <3>3. \A j \in Items \ {job[w].item} :
              /\ TenantOf[j] = TenantOf[job[w].item]
              /\ db[j].status = "indexed" /\ db[j].phash # None
              => Distance[image[w], db[j].phash] > Threshold
        BY <3>2 DEF IndexedPhashes
      <3> QED
        BY <2>w, <2>1, <3>3 DEF FindNoDuplicate
    <2>2. CASE FindDuplicate(w)
      <3>1. duplicate'[w] \in Items
        BY <2>2 DEF FindDuplicate, Duplicates, ClosestDuplicates, IndexedPhashes
      <3>2. duplicate'[w] # None /\ wpc'[w] = "commit"
        BY <2>2, <3>1, ConstantsOK DEF IngestionAssumption, FindDuplicate
      <3> QED
        BY <2>w, <3>2
    <2>3. CASE Upsert(w) \/ MarkIndexedAndBump(w) \/ BumpFails(w)
      BY <2>w, <2>3 DEF Upsert, MarkIndexedAndBump, BumpFails
    <2>4. CASE CommitIndexed(w)
      <3>1. wpc'[w] = "idle"
        BY <2>4 DEF CommitIndexed, EndJob
      <3> QED
        BY <2>w, <3>1
    <2>5. CASE wpc'[w] \notin {"upsert", "bump", "commit"}
      BY <2>w, <2>5
    <2> QED
      BY <2>0, <2>1, <2>2, <2>3, <2>4, <2>5, OtherSteps
  <1>3. CASE UNCHANGED vars
    BY <1>3 DEF vars, workerVars
  <1> QED
    BY <1>1, <1>2, <1>3 DEF Next

LEMMA NearDuplicateStep ==
  ASSUME OneWorker, TypeOK, BackedInv, RequestInv, FarInv, NoNearDuplicates,
         [Next]_vars
  PROVE  NoNearDuplicates'
PROOF
  <1> USE DEF TypeOK, StoreTypeOK, WorkerTypeOK, storeVars
  <1> DEFINE Searchable(i) == db[i].status = "indexed" /\ db[i].phash # None
  <1>1. CASE CatalogNext /\ UNCHANGED workerVars
    BY <1>1, CatalogKeepsHash DEF BackedInv, NoNearDuplicates
  <1>2. CASE WorkerNext /\ UNCHANGED catalogVars
    <2>0. PICK w \in Workers : WorkerStep(w) \/ WorkerFault(w)
      BY <1>2 DEF WorkerNext
    <2>1. CASE CommitIndexed(w) /\ marked[w]
      <3> DEFINE i == job[w].item
      <3>1. /\ i \in Items
            /\ db' = [db EXCEPT ![i] = [@ EXCEPT !.status = "indexed",
                                                 !.phash = image[w],
                                                 !.failed = FALSE]]
        BY <2>1 DEF CommitIndexed, Job
      <3>2. \A j \in Items \ {i} : db'[j] = db[j]
        BY <3>1
      <3>3. db'[i].phash = image[w]
        BY <3>1 DEF Row
      <3>4. \A j \in Items \ {i} : TenantOf[j] = TenantOf[i] /\ Searchable(j)
                                    => Distance[image[w], db[j].phash] > Threshold
        BY <2>1 DEF CommitIndexed, FarInv, AboutToIndex
      <3>5. \A j \in Items : db[j].phash # None => db[j].phash \in Images
        BY DEF Row
      <3>6. image[w] # None => image[w] \in Images
        OBVIOUS
      <3> HIDE DEF i
      <3>7. ASSUME NEW j \in Items \ {i}, TenantOf[j] = TenantOf[i], Searchable(j),
                   image[w] # None
            PROVE  /\ Distance[image[w], db[j].phash] > Threshold
                   /\ Distance[db[j].phash, image[w]] > Threshold
        BY <3>4, <3>5, <3>6, <3>7, SymmetricDistance, ConstantsOK
           DEF SymmetricDistance, IngestionAssumption
      <3> SUFFICES ASSUME NEW j \in Items, NEW k \in Items, j # k,
                          TenantOf[j] = TenantOf[k],
                          db'[j].status = "indexed", db'[j].phash # None,
                          db'[k].status = "indexed", db'[k].phash # None
                   PROVE  Distance[db'[j].phash, db'[k].phash] > Threshold
        BY DEF NoNearDuplicates
      <3>8. CASE j = i
        BY <3>2, <3>3, <3>7, <3>8
      <3>9. CASE k = i
        BY <3>2, <3>3, <3>7, <3>9
      <3>10. CASE j # i /\ k # i
        BY <3>2, <3>10 DEF NoNearDuplicates
      <3> QED
        BY <3>8, <3>9, <3>10
    <2>2. CASE ~(CommitIndexed(w) /\ marked[w])
      <3>1. \A i \in Items : db'[i].status = "indexed" => db'[i] = db[i]
        BY <2>0, <2>2, OtherSteps
           DEF FindNoDuplicate, FindDuplicate, Upsert, MarkIndexedAndBump,
               BumpFails, CommitIndexed
      <3> QED
        BY <3>1 DEF NoNearDuplicates
    <2> QED
      BY <2>1, <2>2
  <1>3. CASE UNCHANGED vars
    BY <1>3 DEF vars, NoNearDuplicates
  <1> QED
    BY <1>1, <1>2, <1>3 DEF Next

\* With one worker process and one request at a time no two INDEXED items of a
\* tenant are near-duplicates: what the dedup query found far away is still so
\* when the worker commits, whatever is confirmed again, deleted or fails
\* meanwhile.
THEOREM NearDuplicatesKeptOut ==
  ASSUME OneWorker, OneRequest PROVE Spec => []NoNearDuplicates
PROOF
  <1>1. Init => FarInv /\ NoNearDuplicates
    <2> SUFFICES ASSUME Init PROVE FarInv /\ NoNearDuplicates
      OBVIOUS
    <2>1. /\ \A w \in Workers : wpc[w] = "idle"
          /\ \A i \in Items : db[i].status = "absent"
      BY DEF Init, StoreInit, WorkerInit, NoRow, NewRow
    <2> QED
      BY <2>1 DEF FarInv, AboutToIndex, NoNearDuplicates
  <1>2. TypeOK /\ BackedInv /\ SkipInv /\ RequestInv /\ VectorInv /\ FarInv
          /\ NoNearDuplicates /\ [Next]_vars
          => FarInv' /\ NoNearDuplicates'
    BY FarStep, NearDuplicateStep
  <1> QED
    BY <1>1, <1>2, TypeCorrect, BackedInvariant, SerialInvariant, PTL DEF Spec

-----------------------------------------------------------------------------
(* No item is its own duplicate                                            *)

\* The worker does not take its own item for a duplicate: the dedup query leaves
\* out the row it has marked, and without a mark the item is not INDEXED.
OwnIsLeftOut ==
  \A w \in Workers :
    wpc[w] = "dedup" => marked[w] \/ db[job[w].item].status # "indexed"

LEMMA CatalogOthers ==
  ASSUME TypeOK, OthersInv, CatalogNext, UNCHANGED workerVars
  PROVE  OthersInv'
PROOF
  <1> USE ConstantsOK
          DEF TypeOK, StoreTypeOK, CatalogTypeOK, IngestionAssumption, storeVars,
              Goto, NotOwnDuplicate, NoneInRequests
  <1>w. NoneInWorkers'
    BY DEF workerVars, OthersInv, NoneInWorkers
  <1>0. NotOwnDuplicate /\ NoneInRequests
    BY DEF OthersInv
  <1> SUFFICES NotOwnDuplicate' /\ NoneInRequests'
    BY <1>w DEF OthersInv
  <1>1. ASSUME NEW i \in Items, RegisterItem(i)
        PROVE  NotOwnDuplicate' /\ NoneInRequests'
    <2>1. \A j \in Items : db'[j].duplicateOf \in {db[j].duplicateOf, None}
      BY <1>1 DEF RegisterItem, NewRow
    <2> QED
      BY <1>0, <1>1, <2>1 DEF RegisterItem
  <1>2. ASSUME NEW i \in Items, NEW im \in Images, Upload(i, im)
        PROVE  NotOwnDuplicate' /\ NoneInRequests'
    BY <1>0, <1>2 DEF Upload
  <1>3. ASSUME NEW r \in Requests, NEW i \in Items, ConfirmGet(r, i)
        PROVE  NotOwnDuplicate' /\ NoneInRequests'
    BY <1>0, <1>3 DEF ConfirmGet
  <1>4. ASSUME NEW r \in Requests, NEW i \in Items, DeleteGet(r, i)
        PROVE  NotOwnDuplicate' /\ NoneInRequests'
    BY <1>0, <1>4 DEF DeleteGet
  <1>5. ASSUME NEW r \in Requests, ConfirmStat(r)
        PROVE  NotOwnDuplicate' /\ NoneInRequests'
    <2>1. entity'[r].duplicateOf = entity[r].duplicateOf
      <3>1. entity'[r] = [entity[r] EXCEPT !.status = "queued", !.failed = FALSE]
        BY <1>5 DEF ConfirmStat
      <3>2. entity[r] \in Row
        OBVIOUS
      <3> HIDE DEF TypeOK, CatalogTypeOK, StoreTypeOK
      <3> QED
        BY <3>1, <3>2 DEF Row
    <2>2. \A q \in Requests \ {r} : entity'[q] = entity[q]
      BY <1>5 DEF ConfirmStat
    <2> QED
      BY <1>0, <1>5, <2>1, <2>2 DEF ConfirmStat
  <1>6. ASSUME NEW r \in Requests, EndRequest(r) PROVE NoneInRequests'
    BY <1>0, <1>6 DEF EndRequest
  <1>7. ASSUME NEW r \in Requests, ConfirmRejected(r) \/ RequestFails(r)
        PROVE  NotOwnDuplicate' /\ NoneInRequests'
    BY <1>0, <1>6, <1>7 DEF ConfirmRejected, RequestFails
  <1>8. ASSUME NEW r \in Requests, ConfirmMerge(r)
        PROVE  NotOwnDuplicate' /\ NoneInRequests'
    BY <1>0, <1>8 DEF ConfirmMerge
  <1>9. ASSUME NEW r \in Requests, ConfirmEnqueue(r)
        PROVE  NotOwnDuplicate' /\ NoneInRequests'
    BY <1>0, <1>9 DEF ConfirmEnqueue
  <1>10. ASSUME NEW r \in Requests, ConfirmCommit(r)
         PROVE  NotOwnDuplicate' /\ NoneInRequests'
    <2>1. entity[r].duplicateOf # ritem[r]
      BY <1>0, <1>10 DEF ConfirmCommit
    <2>2. \A i \in Items :
            \/ db'[i].duplicateOf = db[i].duplicateOf
            \/ i = ritem[r] /\ db'[i].duplicateOf = entity[r].duplicateOf
      BY <1>10 DEF ConfirmCommit, Flushed, Column
    <2> QED
      BY <1>0, <1>6, <1>10, <2>1, <2>2 DEF ConfirmCommit
  <1>11. ASSUME NEW r \in Requests, DeleteObject(r)
         PROVE  NotOwnDuplicate' /\ NoneInRequests'
    BY <1>0, <1>11 DEF DeleteObject
  <1>12. ASSUME NEW r \in Requests, DeleteRow(r)
         PROVE  NotOwnDuplicate' /\ NoneInRequests'
    BY <1>0, <1>6, <1>12 DEF DeleteRow, NoRow, NewRow
  <1> QED
    BY <1>1, <1>2, <1>3, <1>4, <1>5, <1>7, <1>8, <1>9, <1>10, <1>11, <1>12
       DEF CatalogNext, ConfirmStep, DeleteStep

LEMMA WorkerOthers ==
  ASSUME TypeOK, DuplicateInv, OwnIsLeftOut, OthersInv, WorkerNext,
         UNCHANGED catalogVars
  PROVE  OthersInv'
PROOF
  <1> USE DEF TypeOK, StoreTypeOK, WorkerTypeOK, storeVars, Advance,
              NotOwnDuplicate, NoneInWorkers
  <1>r. NoneInRequests'
    BY DEF catalogVars, OthersInv, NoneInRequests
  <1>i. NotOwnDuplicate /\ NoneInWorkers
    BY DEF OthersInv
  <1> SUFFICES NotOwnDuplicate' /\ NoneInWorkers'
    BY <1>r DEF OthersInv
  <1>0. PICK w \in Workers : WorkerStep(w) \/ WorkerFault(w)
    BY DEF WorkerNext
  <1>a. wpc[w] # "idle" => job[w].item \in Items
    BY DEF Job
  <1>o. \A v \in Workers \ {w} :
          wpc'[v] = wpc[v] /\ job'[v] = job[v] /\ duplicate'[v] = duplicate[v]
    BY <1>0, WorkerEffect
  <1>1. CASE FindDuplicate(w)
    <2>1. duplicate'[w] \in IndexedPhashes(w) /\ wpc[w] = "dedup"
      BY <1>1 DEF FindDuplicate, Duplicates, ClosestDuplicates, IndexedPhashes
    <2>2. duplicate'[w] # job[w].item
      BY <2>1 DEF IndexedPhashes, OwnIsLeftOut
    <2>3. UNCHANGED <<db, job>>
      BY <1>1 DEF FindDuplicate
    <2> QED
      BY <1>i, <1>o, <2>2, <2>3
  <1>2. CASE CommitDuplicate(w) \/ CommitIndexed(w) \/ Fail(w)
    <2>1. wpc'[w] \in {"idle", "dead_letter"}
      BY <1>2 DEF CommitDuplicate, CommitIndexed, Fail, EndJob
    <2>2. NoneInWorkers'
      BY <1>i, <1>o, <2>1
    <2>3. CASE CommitDuplicate(w)
      <3>1. duplicate[w] # job[w].item
        BY <1>i, <2>3 DEF CommitDuplicate
      <3>2. \A i \in Items :
              \/ db'[i].duplicateOf = db[i].duplicateOf
              \/ i = job[w].item /\ db'[i].duplicateOf = duplicate[w]
        BY <1>a, <2>3 DEF CommitDuplicate, Row
      <3> QED
        BY <1>i, <2>2, <3>1, <3>2
    <2>4. CASE CommitIndexed(w)
      <3>1. \A i \in Items : db'[i].duplicateOf = db[i].duplicateOf
        BY <1>a, <2>4 DEF CommitIndexed, Row
      <3> QED
        BY <1>i, <2>2, <3>1
    <2>5. CASE Fail(w)
      <3>1. \A i \in Items : db'[i].duplicateOf = db[i].duplicateOf
        BY <1>a, <2>5 DEF Fail, Row
      <3> QED
        BY <1>i, <2>2, <3>1
    <2> QED
      BY <1>2, <2>3, <2>4, <2>5
  <1>3. CASE MarkIndexedAndBump(w) \/ BumpFails(w)
    <2>1. UNCHANGED <<db, job, duplicate>>
      BY <1>3 DEF MarkIndexedAndBump, BumpFails
    <2>2. duplicate[w] = None
      BY <1>3 DEF MarkIndexedAndBump, BumpFails, DuplicateInv
    <2> QED
      BY <1>i, <1>o, <2>1, <2>2
  <1>4. CASE UNCHANGED db /\ wpc'[w] # "commit"
    BY <1>i, <1>o, <1>4
  <1>5. \/ FindDuplicate(w) \/ CommitDuplicate(w) \/ CommitIndexed(w) \/ Fail(w)
        \/ MarkIndexedAndBump(w) \/ BumpFails(w)
        \/ UNCHANGED db /\ wpc'[w] # "commit"
    <2>1. CASE Upsert(w) \/ FindNoDuplicate(w)
      BY <2>1 DEF Upsert, FindNoDuplicate
    <2>2. CASE wpc'[w] \notin {"upsert", "bump", "commit"}
      BY <1>0, <2>2
         DEF WorkerStep, ProcessStep, WorkerFault, Pop, Requeue, DeadLetter,
             GetItem, MarkProcessing, Download, FindNoDuplicate, Upsert,
             RowIsGone, TransientFault, FailSwallowed, PushFails, Crash
    <2> QED
      BY <1>0, <2>1, <2>2, OtherSteps
  <1> QED
    BY <1>1, <1>2, <1>3, <1>4, <1>5

LEMMA OthersStep ==
  ASSUME TypeOK, DuplicateInv, OwnIsLeftOut, OthersInv, [Next]_vars
  PROVE  OthersInv'
PROOF
  <1>1. CASE UNCHANGED vars
    BY <1>1 DEF vars, storeVars, catalogVars, workerVars, OthersInv,
       NotOwnDuplicate, NoneInWorkers, NoneInRequests
  <1> QED
    BY <1>1, CatalogOthers, WorkerOthers DEF Next

\* No delete is under way, and a row that was there at the 'already indexed' test
\* is there when it is marked.
LEMMA KeptStep ==
  ASSUME MaxDeletes = 0, TypeOK, EntityIsQueued, KeptInv, [Next]_vars
  PROVE  KeptInv'
PROOF
  <1> USE DEF TypeOK, StoreTypeOK, CatalogTypeOK, WorkerTypeOK, storeVars, Goto,
              Advance
  <1>1. CASE CatalogNext /\ UNCHANGED workerVars
    <2>d. calls.deletes = 0 /\ MaxDeletes = 0
      BY DEF Calls
    <2>1. \A r \in Requests : rpc'[r] \notin {"object", "row"}
      <3>1. CASE UNCHANGED rpc
        BY <3>1 DEF KeptInv
      <3>2. ASSUME NEW r \in Requests, NEW pc \in RequestPC \ {"object", "row"},
                   rpc' = [rpc EXCEPT ![r] = pc]
            PROVE  \A q \in Requests : rpc'[q] \notin {"object", "row"}
        BY <3>2 DEF KeptInv
      <3>3. \A r \in Requests, i \in Items : ~DeleteGet(r, i)
        BY <2>d DEF DeleteGet
      <3>4. \/ UNCHANGED rpc
            \/ \E r \in Requests, pc \in RequestPC \ {"object", "row"} :
                 rpc' = [rpc EXCEPT ![r] = pc]
        <4>1. ASSUME NEW r \in Requests,
                     EndRequest(r) \/ ConfirmStat(r) \/ ConfirmMerge(r)
                       \/ ConfirmEnqueue(r) \/ \E i \in Items : ConfirmGet(r, i)
              PROVE  \E pc \in RequestPC \ {"object", "row"} :
                       rpc' = [rpc EXCEPT ![r] = pc]
          BY <4>1 DEF EndRequest, ConfirmStat, ConfirmMerge, ConfirmEnqueue,
             ConfirmGet, RequestPC
        <4>2. ASSUME NEW r \in Requests, NEW i \in Items, DeleteGet(r, i) PROVE FALSE
          BY <3>3, <4>2
        <4>3. ASSUME NEW r \in Requests, DeleteStep(r) PROVE FALSE
          BY <4>3 DEF DeleteStep, DeleteObject, DeleteRow, KeptInv
        <4> QED
          BY <1>1, <4>1, <4>2, <4>3
             DEF CatalogNext, ConfirmStep, ConfirmRejected, ConfirmCommit,
                 RequestFails, RegisterItem, Upload
      <3> QED
        BY <3>1, <3>2, <3>4
    <2>2. \A i \in Items : Present(i) => db'[i].status # "absent"
      <3>1. CASE \E i \in Items : RegisterItem(i)
        BY <3>1 DEF RegisterItem, NewRow, Present
      <3>2. ASSUME NEW r \in Requests, ConfirmCommit(r)
            PROVE  \A i \in Items : Present(i) => db'[i].status # "absent"
        BY <3>2 DEF ConfirmCommit, Flushed, Column, EntityIsQueued, Present
      <3>3. CASE UNCHANGED db
        BY <3>3 DEF Present
      <3> QED
        BY <1>1, <3>1, <3>2, <3>3
           DEF KeptInv, CatalogNext, ConfirmStep, DeleteStep, Upload, ConfirmGet,
               DeleteGet, ConfirmStat, ConfirmRejected, ConfirmMerge,
               ConfirmEnqueue, DeleteObject, DeleteRow, RequestFails
    <2>3. \A w \in Workers : wpc[w] # "idle" => job[w].item \in Items
      BY DEF Job
    <2> QED
      BY <1>1, <2>1, <2>2, <2>3 DEF KeptInv, Present, workerVars
  <1>2. CASE WorkerNext /\ UNCHANGED catalogVars
    <2>0. PICK w \in Workers : WorkerStep(w) \/ WorkerFault(w)
      BY <1>2 DEF WorkerNext
    <2>1. \A r \in Requests : rpc'[r] \notin {"object", "row"}
      BY <1>2 DEF catalogVars, KeptInv
    <2>2. \A i \in Items : Present(i) => db'[i].status # "absent"
      <3>1. CASE Fail(w) \/ CommitDuplicate(w) \/ CommitIndexed(w)
        <4>1. job[w].item \in Items
          BY <3>1 DEF Fail, CommitDuplicate, CommitIndexed, Job
        <4>2. CASE Fail(w)
          BY <4>1, <4>2 DEF Fail, Present, Row
        <4>3. CASE CommitDuplicate(w)
          BY <4>1, <4>3 DEF CommitDuplicate, Present, Row
        <4>4. CASE CommitIndexed(w)
          BY <4>1, <4>4 DEF CommitIndexed, Present, Row
        <4> QED
          BY <3>1, <4>2, <4>3, <4>4
      <3>2. CASE UNCHANGED db
        BY <3>2 DEF Present
      <3> QED
        BY <2>0, <3>1, <3>2
           DEF WorkerStep, ProcessStep, WorkerFault, Pop, Requeue, DeadLetter,
               GetItem, MarkProcessing, Download, FindNoDuplicate, FindDuplicate,
               Upsert, MarkIndexedAndBump, RowIsGone, TransientFault, BumpFails,
               FailSwallowed, PushFails, Crash
    <2>3. /\ wpc'[w] = "mark" => db'[job'[w].item].status # "absent"
          /\ wpc'[w] \in {"download", "dedup"} => marked'[w]
      <3>1. CASE GetItem(w)
        <4>1. CASE db[job[w].item].status \in {"absent", "indexed"}
          BY <3>1, <4>1 DEF GetItem, EndJob
        <4>2. CASE db[job[w].item].status \notin {"absent", "indexed"}
          BY <3>1, <4>2 DEF GetItem
        <4> QED
          BY <4>1, <4>2
      <3>4. CASE MarkProcessing(w)
        BY <3>4 DEF MarkProcessing, KeptInv
      <3>5. CASE Download(w)
        <4>1. CASE RaisePermanent(w)
          BY <4>1 DEF RaisePermanent
        <4>2. CASE ~RaisePermanent(w)
          BY <3>5, <4>2 DEF Download, KeptInv
        <4> QED
          BY <4>1, <4>2
      <3>2. CASE wpc'[w] \notin {"mark", "download", "dedup"}
        BY <3>2
      <3>3. \/ GetItem(w) \/ MarkProcessing(w) \/ Download(w)
            \/ wpc'[w] \notin {"mark", "download", "dedup"}
        <4>1. CASE Raise(w)
          BY <4>1 DEF Raise
        <4> QED
          BY <2>0, <4>1
             DEF WorkerStep, ProcessStep, WorkerFault, Pop, Requeue, Fail,
                 DeadLetter, FindNoDuplicate, FindDuplicate, Upsert,
                 MarkIndexedAndBump, CommitDuplicate, CommitIndexed, RowIsGone,
                 TransientFault, BumpFails, FailSwallowed, PushFails, Crash, EndJob
      <3> QED
        BY <3>1, <3>2, <3>3, <3>4, <3>5
    <2>4. \A v \in Workers \ {w} :
            wpc'[v] = wpc[v] /\ job'[v] = job[v] /\ marked'[v] = marked[v]
      BY <2>0, WorkerEffect
    <2>5. \A v \in Workers : wpc[v] # "idle" => job[v].item \in Items
      BY DEF Job
    <2> QED
      BY <2>1, <2>2, <2>3, <2>4, <2>5 DEF KeptInv, Present
  <1>3. CASE UNCHANGED vars
    BY <1>3 DEF vars, catalogVars, workerVars, KeptInv, Present
  <1> QED
    BY <1>1, <1>2, <1>3 DEF Next

\* With one worker process, or while no item is deleted, no item is ever recorded
\* as a duplicate of itself, although its job may run again after it was INDEXED
\* and a confirmation may write an old duplicate_of_id back.
THEOREM DuplicatesAreOthers ==
  ASSUME OneWorker \/ MaxDeletes = 0 PROVE Spec => []NotOwnDuplicate
PROOF
  <1>1. Init => OthersInv /\ KeptInv
    <2> SUFFICES ASSUME Init PROVE OthersInv /\ KeptInv
      OBVIOUS
    <2>1. /\ \A w \in Workers : wpc[w] = "idle"
          /\ \A r \in Requests : rpc[r] = "idle"
          /\ \A i \in Items : db[i].duplicateOf = None
      BY DEF Init, StoreInit, CatalogInit, WorkerInit, NoRow, NewRow
    <2>2. None \notin Items
      BY ConstantsOK DEF IngestionAssumption
    <2> QED
      BY <2>1, <2>2 DEF OthersInv, NotOwnDuplicate, NoneInWorkers, NoneInRequests,
         KeptInv
  <1>2. TypeOK /\ DuplicateInv /\ OwnIsLeftOut /\ OthersInv /\ [Next]_vars
          => OthersInv'
    BY OthersStep
  <1>3. OthersInv => NotOwnDuplicate
    BY DEF OthersInv
  <1>4. CASE OneWorker
    <2>1. SkipInv => OwnIsLeftOut
      BY DEF SkipInv, OwnIsLeftOut, Processing
    <2> QED
      BY <1>1, <1>2, <1>3, <1>4, <2>1, TypeCorrect, SkipInvariant,
         DuplicateInvariant, PTL DEF Spec
  <1>5. CASE MaxDeletes = 0
    <2>1. KeptInv => OwnIsLeftOut
      BY DEF KeptInv, OwnIsLeftOut
    <2>2. TypeOK /\ BackedInv /\ KeptInv /\ [Next]_vars => KeptInv'
      BY <1>5, KeptStep DEF BackedInv
    <2> QED
      BY <1>1, <1>2, <1>3, <2>1, <2>2, TypeCorrect, BackedInvariant,
         DuplicateInvariant, PTL DEF Spec
  <1> QED
    BY <1>4, <1>5

-----------------------------------------------------------------------------
(* Index versions                                                          *)

\* Without faults between the upsert and the bump a worker that has written a
\* point takes it to the bump; how many workers run does not matter.
LEMMA BumpStep ==
  ASSUME Faults \cap {"transient", "redis", "crash"} = {},
         TypeOK, BumpInv, [Next]_vars
  PROVE  BumpInv'
PROOF
  <1> USE DEF TypeOK, StoreTypeOK, WorkerTypeOK, storeVars, Advance, BumpInv
  <1>1. CASE CatalogNext /\ UNCHANGED workerVars
    <2>1. UNCHANGED unannounced
      BY <1>1 DEF CatalogNext, ConfirmStep, DeleteStep, RegisterItem, Upload,
         ConfirmGet, DeleteGet, ConfirmStat, ConfirmRejected, ConfirmMerge,
         ConfirmEnqueue, ConfirmCommit, DeleteObject, DeleteRow, RequestFails
    <2> QED
      BY <1>1, <2>1 DEF workerVars
  <1>2. CASE WorkerNext /\ UNCHANGED catalogVars
    <2>0. PICK w \in Workers : WorkerStep(w) \/ WorkerFault(w)
      BY <1>2 DEF WorkerNext
    <2>o. \A v \in Workers \ {w} : wpc'[v] = wpc[v] /\ job'[v] = job[v]
      BY <2>0, WorkerEffect
    <2>1. CASE Upsert(w)
      <3>1. wpc'[w] = "bump" /\ job' = job /\ wpc[w] = "upsert"
        BY <2>1 DEF Upsert
      <3>2. unannounced' = unannounced \cup {job[w].item}
        BY <2>1 DEF Upsert
      <3> QED
        BY <2>o, <3>1, <3>2
    <2>2. CASE MarkIndexedAndBump(w)
      <3>1. \A i \in unannounced' : i \in unannounced /\ i # job[w].item
        BY <2>2 DEF MarkIndexedAndBump
      <3> QED
        BY <2>o, <3>1
    <2>3. CASE UNCHANGED unannounced /\ wpc[w] # "bump"
      BY <2>o, <2>3
    <2>4. \/ Upsert(w) \/ MarkIndexedAndBump(w)
          \/ UNCHANGED unannounced /\ wpc[w] # "bump"
      BY <2>0
         DEF WorkerStep, ProcessStep, WorkerFault, Pop, Requeue, Fail, DeadLetter,
             GetItem, MarkProcessing, Download, FindNoDuplicate, FindDuplicate,
             CommitDuplicate, CommitIndexed, RowIsGone, TransientFault, BumpFails,
             FailSwallowed, PushFails, Crash
    <2> QED
      BY <2>1, <2>2, <2>3, <2>4
  <1>3. CASE UNCHANGED vars
    BY <1>3 DEF vars, workerVars
  <1> QED
    BY <1>1, <1>2, <1>3 DEF Next

\* With one worker an attempt that fails after the upsert leaves its item
\* unindexed, and the attempt that indexes it comes past the bump.
LEMMA SerialBumpStep ==
  ASSUME OneWorker, "redis" \notin Faults, TypeOK, EntityIsQueued, SkipInv,
         SerialBumpInv, [Next]_vars
  PROVE  SerialBumpInv'
PROOF
  <1> USE DEF TypeOK, StoreTypeOK, WorkerTypeOK, storeVars, Advance, SerialBumpInv,
              AboutToIndex
  <1>1. CASE CatalogNext /\ UNCHANGED workerVars
    BY <1>1, CatalogEffect DEF workerVars
  <1>2. CASE WorkerNext /\ UNCHANGED catalogVars
    <2>0. PICK w \in Workers : WorkerStep(w) \/ WorkerFault(w)
      BY <1>2 DEF WorkerNext
    <2>w. \A v \in Workers : v = w
      BY DEF OneWorker
    <2>a. wpc[w] # "idle" => job[w].item \in Items
      BY DEF Job
    <2>1. CASE FindNoDuplicate(w)
      BY <2>w, <2>1 DEF FindNoDuplicate
    <2>2. CASE FindDuplicate(w)
      <3>1. duplicate'[w] \in Items
        BY <2>2 DEF FindDuplicate, Duplicates, ClosestDuplicates, IndexedPhashes
      <3>2. duplicate'[w] # None
        BY <3>1, ConstantsOK DEF IngestionAssumption
      <3> QED
        BY <2>w, <2>2, <3>2 DEF FindDuplicate
    <2>3. CASE Upsert(w)
      <3>1. db[job[w].item].status # "indexed" /\ wpc'[w] = "bump"
        BY <2>3 DEF Upsert, SkipInv, Processing
      <3> QED
        BY <2>w, <2>3, <3>1 DEF Upsert
    <2>4. CASE MarkIndexedAndBump(w)
      BY <2>w, <2>4 DEF MarkIndexedAndBump
    <2>5. CASE CommitIndexed(w)
      <3>1. job[w].item \notin unannounced /\ wpc'[w] = "idle"
        BY <2>5 DEF CommitIndexed, EndJob
      <3>2. \A i \in Items \ {job[w].item} : db'[i] = db[i]
        BY <2>5 DEF CommitIndexed
      <3>3. UNCHANGED unannounced
        BY <2>5 DEF CommitIndexed
      <3> QED
        BY <2>w, <3>1, <3>2, <3>3
    <2>6. CASE /\ UNCHANGED <<vectors, unannounced>>
               /\ wpc'[w] \notin {"upsert", "bump", "commit"}
               /\ \A i \in Items : db'[i].status \in {"indexed", "queued"}
                                   => db'[i] = db[i]
      BY <2>w, <2>6
    <2>7. ~BumpFails(w)
      BY DEF BumpFails
    <2> QED
      BY <2>0, <2>1, <2>2, <2>3, <2>4, <2>5, <2>6, <2>7, OtherSteps
  <1>3. CASE UNCHANGED vars
    BY <1>3 DEF vars, workerVars
  <1> QED
    BY <1>1, <1>2, <1>3 DEF Next

\* The point of an INDEXED item has been followed by a bump of its tenant's index
\* version, or a worker is about to bump it: for any number of workers when no
\* call of theirs fails, and with one worker while Redis answers, whatever else
\* fails.
THEOREM IndexedAnnounced ==
  ASSUME \/ Faults \cap {"transient", "redis", "crash"} = {}
         \/ OneWorker /\ "redis" \notin Faults
  PROVE  Spec => []IndexedIsAnnounced
PROOF
  <1>1. Init => BumpInv /\ SerialBumpInv
    BY DEF Init, StoreInit, WorkerInit, BumpInv, SerialBumpInv, AboutToIndex
  <1>2. CASE Faults \cap {"transient", "redis", "crash"} = {}
    <2>1. TypeOK /\ BumpInv /\ [Next]_vars => BumpInv'
      BY <1>2, BumpStep
    <2>2. BumpInv => IndexedIsAnnounced
      BY DEF BumpInv, IndexedIsAnnounced, Processing
    <2> QED
      BY <1>1, <2>1, <2>2, TypeCorrect, PTL DEF Spec
  <1>3. CASE OneWorker /\ "redis" \notin Faults
    <2>1. TypeOK /\ BackedInv /\ SkipInv /\ SerialBumpInv /\ [Next]_vars
            => SerialBumpInv'
      BY <1>3, SerialBumpStep DEF BackedInv
    <2>2. SerialBumpInv => IndexedIsAnnounced
      BY DEF SerialBumpInv, IndexedIsAnnounced
    <2>3. Spec => []SkipInv
      BY <1>3, SkipInvariant
    <2> QED
      BY <1>1, <2>1, <2>2, <2>3, TypeCorrect, BackedInvariant, PTL DEF Spec
  <1> QED
    BY <1>2, <1>3
=============================================================================
