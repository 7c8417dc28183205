-------------------------- MODULE IngestionWorker --------------------------
(***************************************************************************)
(* ingestion-worker: processes that pop a job, run the pipeline of         *)
(* processor.py in one database transaction, and let runner.py decide what *)
(* becomes of the job.  Each step is one call to a store or a service.     *)
(*                                                                         *)
(* mark_processing only changes the session's row; the UPDATE is sent by   *)
(* the autoflush of the dedup query and takes the row lock, which the      *)
(* transaction keeps until its commit.  No one else ever reads             *)
(* 'processing': the same commit writes the outcome over it.               *)
(***************************************************************************)
EXTENDS IngestionState

VARIABLES
  wpc,       \* the call a worker makes next
  job,       \* the job it has popped
  marked,    \* whether its session holds a changed row of the item
  image,     \* the bytes it has downloaded
  duplicate  \* the item find_duplicate returned

workerVars == <<wpc, job, marked, image, duplicate>>

Processing == {"get", "mark", "download", "dedup", "upsert", "bump", "commit"}
WorkerPC == {"idle"} \cup Processing \cup {"fail", "requeue", "dead_letter"}
NoJob == [item |-> None, attempts |-> 0]

WorkerTypeOK ==
  /\ wpc \in [Workers -> WorkerPC]
  /\ job \in [Workers -> Job \cup {NoJob}]
  /\ \A w \in Workers : wpc[w] # "idle" => job[w] \in Job
  /\ marked \in [Workers -> BOOLEAN]
  /\ image \in [Workers -> Images \cup {None}]
  /\ duplicate \in [Workers -> Items \cup {None}]

WorkerInit ==
  /\ wpc = [w \in Workers |-> "idle"]
  /\ job = [w \in Workers |-> NoJob]
  /\ marked = [w \in Workers |-> FALSE]
  /\ image = [w \in Workers |-> None]
  /\ duplicate = [w \in Workers |-> None]

Advance(w, pc) == wpc' = [wpc EXCEPT ![w] = pc]

\* The lock on the worker's item, once its transaction has ended.
Unlocked(w) == [lock EXCEPT ![job[w].item] = IF @ = w THEN None ELSE @]

\* The session is closed and its objects are gone.
EndSession(w) ==
  /\ lock' = Unlocked(w)
  /\ marked' = [marked EXCEPT ![w] = FALSE]
  /\ image' = [image EXCEPT ![w] = None]
  /\ duplicate' = [duplicate EXCEPT ![w] = None]

EndJob(w) ==
  /\ Advance(w, "idle")
  /\ job' = [job EXCEPT ![w] = NoJob]

-----------------------------------------------------------------------------
(* runner.py: what an exception from the pipeline does, after rollback.    *)

RaisePermanent(w) ==
  /\ EndSession(w)
  /\ Advance(w, "fail")
  /\ UNCHANGED job

\* Mutant: one attempt too many.
RaiseOffByOne(w) ==
  /\ EndSession(w)
  /\ IF job[w].attempts + 1 > MaxAttempts
     THEN Advance(w, "fail") /\ UNCHANGED job
     ELSE /\ Advance(w, "requeue")
          /\ job' = [job EXCEPT ![w].attempts = @ + 1]

\* Transient errors and the last-resort except: retry up to max_attempts.
Raise(w) ==
  /\ EndSession(w)
  /\ IF job[w].attempts + 1 >= MaxAttempts
     THEN Advance(w, "fail") /\ UNCHANGED job
     ELSE /\ Advance(w, "requeue")
          /\ job' = [job EXCEPT ![w].attempts = @ + 1]

\* BRPOP takes the job off the list before anything has been done for it.
Pop(w) ==
  /\ wpc[w] = "idle"
  /\ queue # <<>>
  /\ job' = [job EXCEPT ![w] = Head(queue)]
  /\ queue' = Tail(queue)
  /\ Advance(w, "get")
  /\ UNCHANGED <<marked, image, duplicate, db, lock, refs, objects, dlq,
                 vectors, unannounced>>

\* Mutant: a job that is retried is dead-lettered as well.
RequeueAndDeadLetter(w) ==
  /\ wpc[w] = "requeue"
  /\ Push(job[w])
  /\ Advance(w, "dead_letter")
  /\ UNCHANGED <<job, marked, image, duplicate, db, lock, refs, objects, dlq,
                 vectors, unannounced>>

Requeue(w) ==
  /\ wpc[w] = "requeue"
  /\ Push(job[w])
  /\ EndJob(w)
  /\ UNCHANGED <<marked, image, duplicate, db, lock, refs, objects, dlq,
                 vectors, unannounced>>

\* Mutant: the job ends when the row has been marked.
FailAndDrop(w) ==
  LET i == job[w].item IN
  /\ wpc[w] = "fail"
  /\ lock[i] = None
  /\ db' = IF Present(i)
           THEN [db EXCEPT ![i] = [@ EXCEPT !.status = "failed", !.failed = TRUE]]
           ELSE db
  /\ EndJob(w)
  /\ UNCHANGED <<marked, image, duplicate, lock, refs, objects, queue, dlq,
                 vectors, unannounced>>

\* Mutant: the job is dead-lettered but the row keeps its status.
FailUnmarked(w) ==
  /\ wpc[w] = "fail"
  /\ Advance(w, "dead_letter")
  /\ UNCHANGED <<job, marked, image, duplicate, storeVars>>

\* _fail: a second transaction marks the row, whatever its status is by now.  Its
\* SELECT and UPDATE are one step: should the row be deleted in between, _fail
\* swallows the StaleDataError, as if the SELECT had found no row.
Fail(w) ==
  LET i == job[w].item IN
  /\ wpc[w] = "fail"
  /\ lock[i] = None
  /\ db' = IF Present(i)
           THEN [db EXCEPT ![i] = [@ EXCEPT !.status = "failed", !.failed = TRUE]]
           ELSE db
  /\ Advance(w, "dead_letter")
  /\ UNCHANGED <<job, marked, image, duplicate, lock, refs, objects, queue, dlq,
                 vectors, unannounced>>

DeadLetter(w) ==
  /\ wpc[w] = "dead_letter"
  /\ dlq' = Append(dlq, job[w])
  /\ EndJob(w)
  /\ UNCHANGED <<marked, image, duplicate, db, lock, refs, objects, queue,
                 vectors, unannounced>>

-----------------------------------------------------------------------------
(* processor.py                                                            *)

\* Mutant: an item that is already indexed is not skipped.
GetItemAlways(w) ==
  /\ wpc[w] = "get"
  /\ IF db[job[w].item].status = "absent"
     THEN EndJob(w)
     ELSE Advance(w, "mark") /\ UNCHANGED job
  /\ UNCHANGED <<marked, image, duplicate, storeVars>>

\* An unknown or already indexed item is skipped and the job is done.
GetItem(w) ==
  /\ wpc[w] = "get"
  /\ IF db[job[w].item].status \in {"absent", "indexed"}
     THEN EndJob(w)
     ELSE Advance(w, "mark") /\ UNCHANGED job
  /\ UNCHANGED <<marked, image, duplicate, storeVars>>

\* Reads the row again; does nothing if it is gone.
MarkProcessing(w) ==
  /\ wpc[w] = "mark"
  /\ marked' = [marked EXCEPT ![w] = Present(job[w].item)]
  /\ Advance(w, "download")
  /\ UNCHANGED <<job, image, duplicate, storeVars>>

\* Download and embed: a missing object or a rejected image is permanent.
Download(w) ==
  LET bytes == objects[job[w].item] IN
  /\ wpc[w] = "download"
  /\ IF bytes \in Unembeddable \cup {None}
     THEN RaisePermanent(w)
     ELSE /\ image' = [image EXCEPT ![w] = bytes]
          /\ Advance(w, "dedup")
          /\ UNCHANGED <<job, marked, duplicate, lock>>
  /\ UNCHANGED <<db, refs, objects, queue, dlq, vectors, unannounced>>

\* Mutant: the row is not marked before the query and reads as it is stored.
IndexedPhashesWithOwn(w) ==
  {i \in Items : /\ TenantOf[i] = TenantOf[job[w].item]
                 /\ db[i].status = "indexed"
                 /\ db[i].phash # None}

\* Mutant: every row with a hash is compared, indexed or not.
PhashesOfAnyStatus(w) ==
  {i \in Items : /\ TenantOf[i] = TenantOf[job[w].item]
                 /\ db[i].phash # None
                 /\ i # job[w].item}

\* list_indexed_phashes.  A marked row reads as 'processing' in its own session.
IndexedPhashes(w) ==
  {i \in Items : /\ TenantOf[i] = TenantOf[job[w].item]
                 /\ db[i].status = "indexed"
                 /\ db[i].phash # None
                 /\ ~(marked[w] /\ i = job[w].item)}

\* Mutant: only identical hashes count as duplicates.
ExactDuplicates(phash, existing) ==
  {i \in existing : Distance[phash, db[i].phash] = 0}

\* find_duplicate: a closest item within the threshold, if there is one.  Which
\* of several, the most recently indexed, is left open.
ClosestDuplicates(phash, existing) ==
  {i \in existing :
     /\ Distance[phash, db[i].phash] <= Threshold
     /\ \A j \in existing :
          Distance[phash, db[i].phash] <= Distance[phash, db[j].phash]}

\* The autoflush of the dedup query sends the UPDATE of a changed row, which
\* takes the row lock.
FlushMarked(w) ==
  LET i == job[w].item IN
  /\ marked[w] => Present(i) /\ lock[i] = None
  /\ lock' = IF marked[w] THEN [lock EXCEPT ![i] = w] ELSE lock

Duplicates(w) == ClosestDuplicates(image[w], IndexedPhashes(w))

FindNoDuplicate(w) ==
  /\ wpc[w] = "dedup"
  /\ FlushMarked(w)
  /\ Duplicates(w) = {}
  /\ Advance(w, "upsert")
  /\ UNCHANGED <<job, marked, image, duplicate, db, refs, objects, queue, dlq,
                 vectors, unannounced>>

\* mark_duplicate reads the row again if the session does not hold it.
FindDuplicate(w) ==
  /\ wpc[w] = "dedup"
  /\ FlushMarked(w)
  /\ \E d \in Duplicates(w) : duplicate' = [duplicate EXCEPT ![w] = d]
  /\ marked' = [marked EXCEPT ![w] = Present(job[w].item)]
  /\ Advance(w, "commit")
  /\ UNCHANGED <<job, image, db, refs, objects, queue, dlq, vectors, unannounced>>

\* ensure_collection and upsert: outside the database transaction.
Upsert(w) ==
  LET i == job[w].item IN
  /\ wpc[w] = "upsert"
  /\ vectors' = [vectors EXCEPT ![i] = image[w]]
  /\ unannounced' = unannounced \cup {i}
  /\ Advance(w, "bump")
  /\ UNCHANGED <<job, marked, image, duplicate, db, lock, refs, objects, queue,
                 dlq>>

\* Mutant: the index version is not bumped.
MarkIndexedOnly(w) ==
  /\ wpc[w] = "bump"
  /\ marked' = [marked EXCEPT ![w] = Present(job[w].item)]
  /\ Advance(w, "commit")
  /\ UNCHANGED <<job, image, duplicate, storeVars>>

\* mark_indexed changes the session's row, which it reads again if the session
\* does not hold it; then the tenant's index version is bumped.
MarkIndexedAndBump(w) ==
  LET i == job[w].item IN
  /\ wpc[w] = "bump"
  /\ marked' = [marked EXCEPT ![w] = Present(i)]
  /\ unannounced' = {j \in unannounced : TenantOf[j] # TenantOf[i]}
  /\ Advance(w, "commit")
  /\ UNCHANGED <<job, image, duplicate, db, lock, refs, objects, queue, dlq,
                 vectors>>

\* A bump that fails is logged and the job goes on.
BumpFails(w) ==
  /\ "redis" \in Faults
  /\ wpc[w] = "bump"
  /\ marked' = [marked EXCEPT ![w] = Present(job[w].item)]
  /\ Advance(w, "commit")
  /\ UNCHANGED <<job, image, duplicate, storeVars>>

CommitDuplicate(w) ==
  LET i == job[w].item IN
  /\ wpc[w] = "commit"
  /\ duplicate[w] # None
  /\ marked[w] => Present(i) /\ lock[i] \in {None, w}
  /\ db' = IF marked[w]
           THEN [db EXCEPT ![i] = [@ EXCEPT !.status = "duplicate",
                                            !.phash = image[w],
                                            !.duplicateOf = duplicate[w]]]
           ELSE db
  /\ EndSession(w)
  /\ EndJob(w)
  /\ UNCHANGED <<refs, objects, queue, dlq, vectors, unannounced>>

\* Mutant: an item that is indexed again keeps its first hash.
CommitIndexedOldPhash(w) ==
  LET i == job[w].item IN
  /\ wpc[w] = "commit"
  /\ duplicate[w] = None
  /\ Present(i)
  /\ marked[w] => lock[i] \in {None, w}
  /\ db' = IF marked[w]
           THEN [db EXCEPT ![i] = [@ EXCEPT !.status = "indexed",
                                            !.phash = IF @ = None THEN image[w] ELSE @,
                                            !.failed = FALSE]]
           ELSE db
  /\ refs' = [refs EXCEPT ![i] = @ + 1]
  /\ EndSession(w)
  /\ EndJob(w)
  /\ UNCHANGED <<objects, queue, dlq, vectors, unannounced>>

\* The UPDATE of a changed row, which waits for the row lock, and the INSERT of
\* the embedding reference, which needs the row as its foreign key.
CommitIndexed(w) ==
  LET i == job[w].item IN
  /\ wpc[w] = "commit"
  /\ duplicate[w] = None
  /\ Present(i)
  /\ marked[w] => lock[i] \in {None, w}
  /\ db' = IF marked[w]
           THEN [db EXCEPT ![i] = [@ EXCEPT !.status = "indexed",
                                            !.phash = image[w],
                                            !.failed = FALSE]]
           ELSE db
  /\ refs' = [refs EXCEPT ![i] = @ + 1]
  /\ EndSession(w)
  /\ EndJob(w)
  /\ UNCHANGED <<objects, queue, dlq, vectors, unannounced>>

\* An UPDATE finds the row deleted (StaleDataError), or the foreign key does.
RowIsGone(w) ==
  /\ \/ wpc[w] = "dedup" /\ marked[w]
     \/ wpc[w] = "commit" /\ (marked[w] \/ duplicate[w] = None)
  /\ ~Present(job[w].item)
  /\ Raise(w)
  /\ UNCHANGED <<db, refs, objects, queue, dlq, vectors, unannounced>>

-----------------------------------------------------------------------------
(* Faults                                                                  *)

\* A store or service call of the pipeline fails.
TransientFault(w) ==
  /\ "transient" \in Faults
  /\ wpc[w] \in Processing
  /\ Raise(w)
  /\ UNCHANGED <<db, refs, objects, queue, dlq, vectors, unannounced>>

\* _fail swallows whatever keeps it from marking the row.
FailSwallowed(w) ==
  /\ "db" \in Faults
  /\ wpc[w] = "fail"
  /\ Advance(w, "dead_letter")
  /\ UNCHANGED <<job, marked, image, duplicate, storeVars>>

\* LPUSH raises: run_forever logs the exception and drops the job.
PushFails(w) ==
  /\ "redis" \in Faults
  /\ wpc[w] \in {"requeue", "dead_letter"}
  /\ EndJob(w)
  /\ UNCHANGED <<marked, image, duplicate, storeVars>>

\* The process dies and is restarted; the database ends its transaction.
Crash(w) ==
  /\ "crash" \in Faults
  /\ wpc[w] # "idle"
  /\ EndSession(w)
  /\ EndJob(w)
  /\ UNCHANGED <<db, refs, objects, queue, dlq, vectors, unannounced>>

ProcessStep(w) ==
  \/ GetItem(w) \/ MarkProcessing(w) \/ Download(w)
  \/ FindNoDuplicate(w) \/ FindDuplicate(w) \/ Upsert(w) \/ MarkIndexedAndBump(w)
  \/ CommitDuplicate(w) \/ CommitIndexed(w) \/ RowIsGone(w)
WorkerStep(w) ==
  Pop(w) \/ ProcessStep(w) \/ Requeue(w) \/ Fail(w) \/ DeadLetter(w)
WorkerFault(w) ==
  TransientFault(w) \/ BumpFails(w) \/ FailSwallowed(w) \/ PushFails(w) \/ Crash(w)

WorkerNext == \E w \in Workers : WorkerStep(w) \/ WorkerFault(w)
=============================================================================
