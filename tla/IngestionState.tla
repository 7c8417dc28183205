--------------------------- MODULE IngestionState ---------------------------
(***************************************************************************)
(* The stores that catalog-service and the ingestion workers share: the    *)
(* catalog_items and embedding_refs tables (PostgreSQL, READ COMMITTED),   *)
(* the object bucket, the Redis job list and its dead-letter list, and the *)
(* vector store with the per-tenant index version that keys query caches.  *)
(*                                                                         *)
(* Only committed data is in db: an uncommitted UPDATE is visible to the   *)
(* others as nothing but the row lock its transaction holds.               *)
(***************************************************************************)
EXTENDS Naturals, FiniteSets, Sequences

CONSTANTS
  Items,        \* item ids; each is handed out at most once (uuid4)
  Tenants,
  TenantOf,     \* Items -> Tenants
  Images,       \* image contents, told apart by their perceptual hash
  Unembeddable, \* the images ai-service rejects with 422
  Distance,     \* Hamming distance of two hashes, a function of pairs
  Threshold,    \* dedup_hamming_threshold
  Workers,      \* ingestion-worker processes
  MaxAttempts,  \* max_attempts
  Faults,       \* the kinds of faults the environment produces
  None

ASSUME IngestionAssumption ==
  /\ None \notin Items \cup Images \cup Workers
  /\ TenantOf \in [Items -> Tenants]
  /\ Unembeddable \subseteq Images
  /\ Distance \in [Images \X Images -> Nat]
  /\ Threshold \in Nat
  /\ MaxAttempts \in Nat \ {0}
  /\ IsFiniteSet(Workers)
  /\ Faults \subseteq {"request", "transient", "db", "redis", "crash"}

\* The number of differing bits does not depend on which hash comes first.
ASSUME SymmetricDistance == \A p, q \in Images : Distance[p, q] = Distance[q, p]

VARIABLES
  db,          \* catalog_items: the committed row of each item
  lock,        \* the worker whose open transaction has updated the row
  refs,        \* embedding_refs: committed rows per item
  objects,     \* object storage: the bytes at each item's key
  queue,       \* Redis list cbir:ingest:queue, next job to pop first
  dlq,         \* Redis list cbir:ingest:dlq, in the order of its LPUSHes
  vectors,     \* vector store: the image whose vector is at the item's point
  unannounced  \* points written since their tenant's index version was bumped

storeVars == <<db, lock, refs, objects, queue, dlq, vectors, unannounced>>

Status == {"absent", "pending_upload", "queued", "processing", "indexed",
           "duplicate", "failed"}
Terminal == {"indexed", "duplicate", "failed"}

\* The columns that change after registration; "absent" stands for no row.
Row == [status : Status, phash : Images \cup {None},
        duplicateOf : Items \cup {None}, failed : BOOLEAN]

NewRow(status) ==
  [status |-> status, phash |-> None, duplicateOf |-> None, failed |-> FALSE]
NoRow == NewRow("absent")
Present(i) == db[i].status # "absent"

Job == [item : Items, attempts : 0 .. MaxAttempts - 1]

StoreTypeOK ==
  /\ db \in [Items -> Row]
  /\ lock \in [Items -> Workers \cup {None}]
  /\ refs \in [Items -> Nat]
  /\ objects \in [Items -> Images \cup {None}]
  /\ queue \in Seq(Job)
  /\ dlq \in Seq(Job)
  /\ vectors \in [Items -> Images \cup {None}]
  /\ unannounced \subseteq Items

StoreInit ==
  /\ db = [i \in Items |-> NoRow]
  /\ lock = [i \in Items |-> None]
  /\ refs = [i \in Items |-> 0]
  /\ objects = [i \in Items |-> None]
  /\ queue = <<>>
  /\ dlq = <<>>
  /\ vectors = [i \in Items |-> None]
  /\ unannounced = {}

\* LPUSH of one end, BRPOP of the other: first in, first out.
Push(j) == queue' = Append(queue, j)
=============================================================================
