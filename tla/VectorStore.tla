---------------------------- MODULE VectorStore ----------------------------
(***************************************************************************)
(* One Qdrant collection per tenant, filled by worker processes that each  *)
(* remember which collections they have found or made, and searched by     *)
(* query-service.                                                          *)
(*                                                                         *)
(* A collection is created when its first point comes, with the size of    *)
(* that point's vector; Qdrant refuses vectors of another size, also as    *)
(* queries, and does not create a collection twice.  Nothing deletes one.  *)
(* The encoder of ai-service, and with it the size of its vectors, changes *)
(* when the service is deployed anew.  A job that fails is tried again;    *)
(* module IngestionWorker has the queue and the item's row in full.        *)
(***************************************************************************)
EXTENDS Naturals, FiniteSets

CONSTANTS
  Tenants,
  Items,
  TenantOf,    \* Items -> Tenants
  Processes,   \* worker processes
  Searches,    \* searches of query-service
  Encoders,    \* of ai-service
  SizeOf,      \* Encoders -> Nat: embedding_dim
  MaxAttempts, \* of a job
  None

ASSUME VectorStoreAssumption ==
  /\ TenantOf \in [Items -> Tenants]
  /\ SizeOf \in [Encoders -> Nat \ {0}]
  /\ MaxAttempts \in Nat \ {0, 1}
  /\ None \notin Items \cup Encoders

VARIABLES
  encoder,     \* the one deployed
  size,        \* of each tenant's collection, 0 if there is none
  points,      \* the encoder of the vector at each item's point
  ensured,     \* _ensured of each process
  ppc,         \* the next step of a process
  job,         \* the item it is working on
  vector,      \* the encoder of the vector it has
  state,       \* of each item: waiting, taken, INDEXED or dead-lettered
  attempts,    \* of each item's job so far
  faults,      \* how many of them met a fault of Qdrant (history)
  mismatched,  \* items that met a collection of another size (history)
  query,       \* the vector a search has
  owner,       \* the tenant it searches for
  found,       \* INDEXED items of its tenant when it began (history)
  outcome,     \* of each search
  answer       \* the items it has found

processVars == <<ensured, ppc, job, vector>>
jobVars == <<state, attempts, faults, mismatched>>
searchVars == <<query, owner, found, outcome, answer>>
storeVars == <<encoder, size, points, processVars, jobVars, searchVars>>

CollectionExists(t) == size[t] # 0

StoreTypeOK ==
  /\ encoder \in Encoders
  /\ size \in [Tenants -> Nat]
  /\ points \in [Items -> Encoders \cup {None}]
  /\ ensured \in [Processes -> SUBSET Tenants]
  /\ ppc \in [Processes -> {"idle", "ensure", "create", "upsert"}]
  /\ job \in [Processes -> Items \cup {None}]
  /\ vector \in [Processes -> Encoders \cup {None}]
  /\ state \in [Items -> {"waiting", "taken", "indexed", "dead"}]
  /\ attempts \in [Items -> 0 .. MaxAttempts]
  /\ faults \in [Items -> 0 .. MaxAttempts]
  /\ mismatched \subseteq Items
  /\ query \in [Searches -> Encoders \cup {None}]
  /\ owner \in [Searches -> Tenants \cup {None}]
  /\ found \in [Searches -> SUBSET Items]
  /\ outcome \in [Searches -> {"none", "answered", "missing", "refused"}]
  /\ answer \in [Searches -> SUBSET Items]

StoreInit ==
  /\ encoder \in Encoders
  /\ size = [t \in Tenants |-> 0]
  /\ points = [i \in Items |-> None]
  /\ ensured = [p \in Processes |-> {}]
  /\ ppc = [p \in Processes |-> "idle"]
  /\ job = [p \in Processes |-> None]
  /\ vector = [p \in Processes |-> None]
  /\ state = [i \in Items |-> "waiting"]
  /\ attempts = [i \in Items |-> 0]
  /\ faults = [i \in Items |-> 0]
  /\ mismatched = {}
  /\ query = [s \in Searches |-> None]
  /\ owner = [s \in Searches |-> None]
  /\ found = [s \in Searches |-> {}]
  /\ outcome = [s \in Searches |-> "none"]
  /\ answer = [s \in Searches |-> {}]

\* ai-service comes back with another encoder.
Deploy(e) ==
  /\ encoder' = e
  /\ UNCHANGED <<size, points, processVars, jobVars, searchVars>>

\* A worker is restarted between two jobs.
Restart(p) ==
  /\ ppc[p] = "idle"
  /\ ensured' = [ensured EXCEPT ![p] = {}]
  /\ UNCHANGED <<encoder, size, points, ppc, job, vector, jobVars, searchVars>>

-----------------------------------------------------------------------------
(* process_one, as far as the vector store is concerned                    *)

\* The image is embedded; it is new to the tenant.
Embed(p, i) ==
  /\ ppc[p] = "idle"
  /\ state[i] = "waiting"
  /\ ppc' = [ppc EXCEPT ![p] = "ensure"]
  /\ job' = [job EXCEPT ![p] = i]
  /\ vector' = [vector EXCEPT ![p] = encoder]
  /\ state' = [state EXCEPT ![i] = "taken"]
  /\ UNCHANGED <<encoder, size, points, ensured, attempts, faults, mismatched, searchVars>>

Collection(p) == TenantOf[job[p]]

EndJob(p) ==
  /\ ppc' = [ppc EXCEPT ![p] = "idle"]
  /\ job' = [job EXCEPT ![p] = None]
  /\ vector' = [vector EXCEPT ![p] = None]

\* Mutant: attempts are counted from zero.
FailOnceMore(p) ==
  /\ attempts' = [attempts EXCEPT ![job[p]] = @ + 1]
  /\ state' = [state EXCEPT ![job[p]] =
                 IF attempts[job[p]] < MaxAttempts THEN "waiting" ELSE "dead"]
  /\ EndJob(p)
  /\ UNCHANGED <<encoder, ensured, searchVars>>

\* Any exception: the job goes back to the queue, or to the dead letters.
Fail(p) ==
  /\ attempts' = [attempts EXCEPT ![job[p]] = @ + 1]
  /\ state' = [state EXCEPT ![job[p]] =
                 IF attempts[job[p]] + 1 < MaxAttempts THEN "waiting" ELSE "dead"]
  /\ EndJob(p)
  /\ UNCHANGED <<encoder, ensured, searchVars>>

Ensured(p) == Collection(p) \in ensured[p]

\* Mutant: the collection is created without looking for it.
EnsureByCreating(p) ==
  /\ ppc[p] = "ensure"
  /\ ppc' = [ppc EXCEPT ![p] = IF Ensured(p) THEN "upsert" ELSE "create"]
  /\ UNCHANGED <<encoder, size, points, ensured, job, vector, jobVars, searchVars>>

\* ensure_collection looks into _ensured, then asks Qdrant.
Ensure(p) ==
  /\ ppc[p] = "ensure"
  /\ \/ /\ Ensured(p) \/ CollectionExists(Collection(p))
        /\ ensured' = [ensured EXCEPT ![p] = @ \cup {Collection(p)}]
        /\ ppc' = [ppc EXCEPT ![p] = "upsert"]
     \/ /\ ~Ensured(p) /\ ~CollectionExists(Collection(p))
        /\ ppc' = [ppc EXCEPT ![p] = "create"]
        /\ UNCHANGED ensured
  /\ UNCHANGED <<encoder, size, points, job, vector, jobVars, searchVars>>

Made(p) == size' = [size EXCEPT ![Collection(p)] = SizeOf[vector[p]]]

Create(p) ==
  /\ ppc[p] = "create"
  /\ ~CollectionExists(Collection(p))
  /\ Made(p)
  /\ ensured' = [ensured EXCEPT ![p] = @ \cup {Collection(p)}]
  /\ ppc' = [ppc EXCEPT ![p] = "upsert"]
  /\ UNCHANGED <<encoder, points, job, vector, jobVars, searchVars>>

\* Another process has created it since: create_collection raises.
LoseRace(p) ==
  /\ ppc[p] = "create"
  /\ CollectionExists(Collection(p))
  /\ Fail(p)
  /\ UNCHANGED <<size, points, faults, mismatched>>

Fits(p) == size[Collection(p)] = SizeOf[vector[p]]
Stored(p) == points' = [points EXCEPT ![job[p]] = vector[p]]

\* Qdrant does not answer; it may have done what it was asked.
QdrantFails(p) ==
  /\ ppc[p] \in {"ensure", "create", "upsert"}
  /\ ppc[p] = "ensure" => ~Ensured(p)
  /\ \/ UNCHANGED <<size, points>>
     \/ ppc[p] = "create" /\ ~CollectionExists(Collection(p)) /\ Made(p) /\ UNCHANGED points
     \/ ppc[p] = "upsert" /\ Fits(p) /\ Stored(p) /\ UNCHANGED size
  /\ faults' = [faults EXCEPT ![job[p]] = @ + 1]
  /\ Fail(p)
  /\ UNCHANGED mismatched

\* The point is stored, then the item is INDEXED.
Upsert(p) ==
  /\ ppc[p] = "upsert"
  /\ Fits(p)
  /\ Stored(p)
  /\ state' = [state EXCEPT ![job[p]] = "indexed"]
  /\ EndJob(p)
  /\ UNCHANGED <<encoder, size, ensured, attempts, faults, mismatched, searchVars>>

UpsertRefused(p) ==
  /\ ppc[p] = "upsert"
  /\ ~Fits(p)
  /\ mismatched' = mismatched \cup {job[p]}
  /\ Fail(p)
  /\ UNCHANGED <<size, points, faults>>

ProcessStep(p) ==
  \/ \E i \in Items : Embed(p, i)
  \/ Ensure(p) \/ Create(p) \/ LoseRace(p) \/ QdrantFails(p)
  \/ Upsert(p) \/ UpsertRefused(p) \/ Restart(p)

-----------------------------------------------------------------------------
(* Searches                                                                *)

BeginSearch(s, t) ==
  /\ query[s] = None /\ outcome[s] = "none"
  /\ query' = [query EXCEPT ![s] = encoder]
  /\ owner' = [owner EXCEPT ![s] = t]
  /\ found' = [found EXCEPT ![s] = {i \in Items : TenantOf[i] = t /\ state[i] = "indexed"}]
  /\ UNCHANGED <<encoder, size, points, processVars, jobVars, outcome, answer>>

\* Mutant: one collection for all tenants.
PointsOfAll(t) == {i \in Items : points[i] # None}

PointsOf(t) == {i \in Items : points[i] # None /\ TenantOf[i] = t}

\* query_points, with a limit the collection stays below.
Search(s) ==
  /\ query[s] # None
  /\ outcome' = [outcome EXCEPT ![s] =
                   IF ~CollectionExists(owner[s]) THEN "missing"
                   ELSE IF size[owner[s]] # SizeOf[query[s]] THEN "refused"
                   ELSE "answered"]
  /\ answer' = [answer EXCEPT ![s] =
                  IF outcome'[s] = "answered" THEN PointsOf(owner[s]) ELSE {}]
  /\ query' = [query EXCEPT ![s] = None]
  /\ UNCHANGED <<encoder, size, points, processVars, jobVars, owner, found>>

StoreNext ==
  \/ \E e \in Encoders : Deploy(e)
  \/ \E p \in Processes : ProcessStep(p)
  \/ \E s \in Searches, t \in Tenants : BeginSearch(s, t)
  \/ \E s \in Searches : Search(s)

StoreSpec == StoreInit /\ [][StoreNext]_storeVars

-----------------------------------------------------------------------------
(* What the vector store promises                                          *)

\* The check and the creation of a collection are apart, and workers race between
\* them; but no job loses that race twice.  A job is given up only when all its
\* other attempts met faults of Qdrant, or a collection made for another encoder.
LostRaceCostsOneAttempt ==
  \A i \in Items : state[i] = "dead" =>
    faults[i] + 1 >= MaxAttempts \/ i \in mismatched

\* What a process remembers is so: it never writes to a collection that is not
\* there, although its memory is not looked up again.
EnsuredExists ==
  \A p \in Processes :
    /\ \A t \in ensured[p] : CollectionExists(t)
    /\ ppc[p] = "upsert" => CollectionExists(Collection(p))

\* A search finds what was INDEXED for its tenant when it began, and nothing of
\* another tenant; it finds no collection only if nothing was INDEXED by then.
SearchesFindTheTenants ==
  \A s \in Searches :
    /\ outcome[s] = "missing" => found[s] = {}
    /\ outcome[s] = "answered" => found[s] \subseteq answer[s]
    /\ \A i \in answer[s] : TenantOf[i] = owner[s]
=============================================================================
