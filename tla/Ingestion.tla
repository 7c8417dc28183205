----------------------------- MODULE Ingestion -----------------------------
(***************************************************************************)
(* The asynchronous ingestion pipeline: catalog-service and the ingestion  *)
(* workers over the stores they share, and what the pipeline promises.     *)
(***************************************************************************)
EXTENDS CatalogService, IngestionWorker

vars == <<storeVars, catalogVars, workerVars>>

Init == StoreInit /\ CatalogInit /\ WorkerInit

Next ==
  \/ CatalogNext /\ UNCHANGED workerVars
  \/ WorkerNext /\ UNCHANGED catalogVars

Spec == Init /\ [][Next]_vars

\* A worker's loop and a request that has started keep running; clients may
\* stop at any time, and no fault has to happen.
FairSpec ==
  /\ Spec
  /\ \A w \in Workers : WF_vars(WorkerStep(w) /\ UNCHANGED catalogVars)
  /\ \A r \in Requests :
       WF_vars((ConfirmStep(r) \/ DeleteStep(r)) /\ UNCHANGED workerVars)

TypeOK == StoreTypeOK /\ CatalogTypeOK /\ WorkerTypeOK

-----------------------------------------------------------------------------
(* Safety                                                                  *)

\* An item the catalog shows as INDEXED is searchable and accounted for: its
\* point is in the vector store and an embedding reference records it, although
\* the point is written outside the transaction and rows are deleted, merged
\* back and re-inserted concurrently.
IndexedIsBacked ==
  \A i \in Items : db[i].status = "indexed" => vectors[i] # None /\ refs[i] > 0

\* The derived rows of an item live no longer than the item (ON DELETE CASCADE
\* and the foreign key), however a delete and an indexing transaction interleave.
RefsHaveRow == \A i \in Items : refs[i] > 0 => Present(i)

\* What duplicate_of_id names is of the same tenant and, as long as it is in the
\* catalog, has a point by which a search can find it: the original was indexed
\* itself, and not skipped as the duplicate of a third item.  An original that has
\* been deleted has no part in this.
DuplicateOfIndexed ==
  \A i \in Items :
    LET d == db[i].duplicateOf IN
    d # None => TenantOf[d] = TenantOf[i] /\ (Present(d) => vectors[d] # None)

\* An item is never recorded as a duplicate of itself, although a job may be
\* processed again after its item was indexed.
NotOwnDuplicate == \A i \in Items : db[i].duplicateOf # i

\* A row lock belongs to the transaction of the worker whose job is for the row,
\* from the dedup query to the end of that transaction, and is never left behind.
RowLockIsHeld ==
  \A i \in Items : lock[i] # None =>
    /\ job[lock[i]].item = i
    /\ marked[lock[i]]
    /\ wpc[lock[i]] \in {"upsert", "bump", "commit"}

\* Retries, re-deliveries and dead-lettering move a job and never multiply it:
\* there are at most as many jobs as there were confirmations.
JobsNeverMultiply ==
  Len(queue) + Cardinality({w \in Workers : wpc[w] # "idle"}) + Len(dlq)
    <= calls.confirms

DeadLettered(i) == \E n \in 1 .. Len(dlq) : dlq[n].item = i

\* A FAILED item's job is in the dead-letter queue, or on its way there.
FailedIsDeadLettered ==
  \A i \in Items : db[i].status = "failed" =>
    \/ DeadLettered(i)
    \/ \E w \in Workers : wpc[w] = "dead_letter" /\ job[w].item = i

\* The vector searched for an INDEXED item is that of the image whose hash the
\* catalog uses for dedup.
IndexedVectorIsCurrent ==
  \A i \in Items :
    db[i].status = "indexed" /\ lock[i] = None => vectors[i] = db[i].phash

\* The point of every INDEXED item that no worker is processing was followed by
\* a bump of the tenant's index version, so no cached result can hide it.
IndexedIsAnnounced ==
  \A i \in Items :
    db[i].status = "indexed" /\ i \in unannounced =>
      \E w \in Workers : wpc[w] \in Processing /\ job[w].item = i

\* No two INDEXED items of a tenant are near-duplicates of each other: "a
\* near-duplicate never consumes an index slot" (processor.py).
NoNearDuplicates ==
  \A i, j \in Items :
    /\ i # j /\ TenantOf[i] = TenantOf[j]
    /\ db[i].status = "indexed" /\ db[j].status = "indexed"
    /\ db[i].phash # None /\ db[j].phash # None
    => Distance[db[i].phash, db[j].phash] > Threshold

\* A job for an item that is INDEXED when the job commits does not index it
\* again: redelivery "is a no-op, not a re-index" (processor.py).
NoReindex ==
  [][\A i \in Items : db[i].status = "indexed" => refs'[i] <= refs[i]]_vars

-----------------------------------------------------------------------------
(* What the pipeline implements                                            *)

\* A worker at its commit that holds no row has found none.
FoundGone(w) == wpc[w] = "commit" /\ ~marked[w]

Strays(w, i) == FoundGone(w) /\ job[w].item = i
Holds(w, i) == wpc[w] # "idle" /\ job[w].item = i /\ ~FoundGone(w)

Listed(i) == {n \in 1 .. Len(queue) : queue[n].item = i}
Holders(i) == {w \in Workers : Holds(w, i)}
Strayers(i) == {w \in Workers : Strays(w, i)}

OpenJobs == [i \in Items |-> Cardinality(Listed(i)) + Cardinality(Holders(i))]
AstrayJobs == [i \in Items |-> Cardinality(Strayers(i))]

ItemsOf(pcs) == [r \in Requests |-> IF rpc[r] \in pcs THEN ritem[r] ELSE None]
Asking == ItemsOf({"stat", "merge", "enqueue"})
Pushed == ItemsOf({"commit"})

DeadItems == {i \in Items : DeadLettered(i)}

ShownAs(status) ==
  CASE status = "absent" -> "none"
    [] status \in {"indexed", "duplicate"} -> "done"
    [] status = "failed" -> "failed"
    [] OTHER -> "waiting"
Shown == [i \in Items |-> ShownAs(db[i].status)]

Ledger == INSTANCE JobLedger WITH
  Losses <- Faults \cap {"redis", "crash"} # {}, asking <- Asking, pushed <- Pushed,
  open <- OpenJobs, astray <- AstrayJobs, dead <- DeadItems, shown <- Shown

\* "A job is only removed from the queue once it has been processed (or
\* dead-lettered)" (runner.py): a confirmation opens one job, and each job ends
\* with its item decided or gone, or in the dead-letter queue, through retries,
\* re-deliveries, deletes and late confirmations, unless Redis or a process fails.
ImplementsJobLedger == Ledger!Spec

-----------------------------------------------------------------------------
(* Liveness                                                                *)

\* A QUEUED item whose job is still in the list is eventually INDEXED, DUPLICATE
\* or FAILED, or deleted, whatever transient errors its processing meets.
QueuedJobIsDecided ==
  \A i \in Items :
    (db[i].status = "queued" /\ \E n \in 1 .. Len(queue) : queue[n].item = i)
      ~> (db[i].status \in Terminal \cup {"absent"})

\* A QUEUED item is eventually decided or deleted: "poll get_item(...).status
\* until it becomes indexed" (client.py).
QueuedIsDecided ==
  \A i \in Items :
    (db[i].status = "queued") ~> (db[i].status \in Terminal \cup {"absent"})
=============================================================================
