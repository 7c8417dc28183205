# cbir-engine in TLA+

TLA+ models of cbir-engine (multi-tenant image search), the TLC configurations that check them on small
instances, and TLAPS proofs of the safety properties for every value of the constants. Paths are
relative to the repository.

## 1. The system

| Component | State it keeps | Operations that change state | Talks to |
|---|---|---|---|
| `services/catalog-service` | `catalog_items`, `embedding_refs`, `feedback` (PostgreSQL); objects (S3) | register, confirm upload, delete, add feedback | Redis list `cbir:ingest:queue`, object storage |
| `workers/ingestion-worker` (scaled horizontally) | the job in hand, one DB session, the collections it remembers | pop, process, retry, dead-letter | Redis, PostgreSQL, object storage, ai-service, Qdrant |
| `services/query-service` | result and embedding caches (Redis, with a time to live) | search by image, text, composed | ai-service, Qdrant, Redis |
| `shared/common-libs` | one Qdrant collection per tenant | ensure collection, upsert, search, delete, count | Qdrant |
| `services/auth-service` | tenants, API keys (PostgreSQL); rate-limit counters and the revocation list (Redis) | create tenants; issue, rotate, revoke keys; issue and validate tokens; hit the limiter | PostgreSQL, Redis |
| `ai-service` | none (a loaded encoder) | embed, hash, rerank | - |
| `sdks/python-sdk`, `scripts` | the script's own progress | register, PUT, confirm, poll; provision; smoke test | the public APIs |
| `infra/ci/quality-gates` | none | evaluate retrieval against thresholds | - |
| `frontend/dashboard` | none | - | the public APIs |

How they interact. A client registers an item, PUTs its bytes to a signed URL and confirms. The
confirmation checks that the object exists, makes the row QUEUED and pushes a job. A worker pops the
job, downloads and embeds the image, looks for an INDEXED near-duplicate of the tenant, and either
marks the row DUPLICATE or writes the point to the vector store, marks the row INDEXED and bumps the
tenant's index version. Searches cache pages under a key that contains that version. Every call of a
client is first authenticated and counted by auth-service.

What is hard. Nothing spans PostgreSQL, Redis, the object store and Qdrant: each operation is a
sequence of calls to them, and its database part becomes visible at the end. Requests and workers
interleave between those calls, a worker may die with the only copy of its job, a call may fail after
the ones before it have taken effect, and an entity read early is written back late. Caches, revocation
entries and rate-limit counters expire on their own while calls are under way. Clients retry without
knowing whether the first try was handled.

What makes each component correct:

- **catalog and ingestion**: an item shown as INDEXED has its point and its embedding reference; no
  reference outlives its row; a duplicate leads to an item of its tenant, with its point while it is there; locks end with their
  transaction; jobs are neither multiplied nor lost; a FAILED item's job can be found in the
  dead-letter queue; every queued item is decided; every point is followed by a bump.
- **registration and feedback**: external ids are unique per tenant; batches are all or nothing; a 409
  is true, a 500 comes of a race only; feedback has its item; every request is answered.
- **search**: an answer is never older than the writes that were settled when the search began, is the
  answer to that request, and never depends on Redis being up; pages of one query partition the
  ranking; the tenant's points are found and nobody else's.
- **vector store**: workers that create a collection at once lose at most one attempt by it, and
  what is indexed can be found.
- **auth**: a revoked key stops working and stays so, and its tokens end with it; a key should be replaced
  once, and may be twice (section 6); the limiter keeps to its budget; a tenant's name is taken once.
- **ai-service**: the results of a call are in the order of its inputs, whichever are broken.
- **clients**: retries never queue a file twice; what the script counts as done is done; the smoke test
  judges rightly and ends.
- **quality gate**: retrieval that got worse never scores better.

## 2. Modules and plan

| Module | What it is |
|---|---|
| `IngestionState` | constants and stores shared by the two sides of ingestion, and their types |
| `CatalogService` | registration, upload, confirmation and delete, one action per call to a store |
| `IngestionWorker` | runner, processor, adapters and dedup of the worker, with its faults |
| `Ingestion` | both over the same stores: the specification and its properties |
| `JobLedger` | abstract: what becomes of jobs, with no queue, worker or transaction in sight |
| `FreshSearch` | abstract: what a client may expect of a search, with no cache in sight |
| `QueryService` | searches with the Redis cache, next to workers that write and bump |
| `ApiKeys` | the admin API and the revocation list |
| `AuthService` | requests with keys and tokens next to the admin API (extends `ApiKeys`) |
| `RateLimiter` | hits, windows and expiring counters |
| `Provisioning` | tenants and their first keys, as the script makes them |
| `Registry` | abstract: each registration takes effect at one moment |
| `Registration` | single and batch registration, and feedback, as PostgreSQL transactions |
| `Uploads` | the upload script over the SDK, with calls refused, failing, or answered in vain |
| `SmokeTest` | the smoke test of the stack |
| `VectorStore` | collections and points, with racing workers, a changing encoder and searches |
| `SearchPages` | recall, rerank, filters, scores and offsets, over several pages of a query |
| `Embeddings` | one call of ai-service, input by input |
| `Listings` | pages of a tenant's items while rows appear and change |
| `Deduplication` | `find_duplicate` as the loop it is |
| `QualityGate` | the retrieval metrics and their thresholds |
| `MCIngestion`, `MCQueryService`, `MCAuthService`, `MCClients`, `MCVectorSearch` | instances for TLC |
| `IngestionProofs`, `IngestionJobProofs`, `SerialProofs`, `QueryServiceProofs`, `AuthServiceProofs` (with the rate limiter), `RegistrationProofs`, `VectorStoreProofs` (with `Listings`, `Embeddings`, `SearchPages`, `Deduplication`), `ClientProofs` | theorems |

The order was: the ingestion pipeline (the system's core, where most of its shared state meets) and its
proofs; the query cache with its abstract specification and proofs; auth-service; registration; the
vector store; the algorithms; what clients and tools do.

Three abstract specifications say what a tenant may expect: `JobLedger` of its confirmations,
`Registry` of its registrations, `FreshSearch` of its searches. `Ingestion`, `Registration` and
`QueryService` implement them; TLC checks each refinement and a theorem proves it.

## 3. How the models correspond to the code

### Ingestion

| Variable | Code |
|---|---|
| `db`, `refs` | committed rows of `catalog_items` and `embedding_refs`; `"absent"` is no row |
| `lock` | the row lock of the worker transaction that has sent an UPDATE |
| `objects` | the bucket, at each item's key |
| `queue`, `dlq` | the Redis lists (LPUSH at one end, BRPOP at the other) |
| `vectors`, `unannounced` | points per item; points no bump of the index version has followed yet |
| `rpc`, `ritem`, `entity`, `loaded` | a request: its next call, its item, the detached entity it read, the row `Session.merge` found |
| `wpc`, `job`, `marked`, `image`, `duplicate` | a worker: its next call, its job, whether its session holds a changed row, the bytes, the duplicate it found |

Each request and each worker runs alone between two calls to a store or service, so those calls are
where the actions are cut. Four facts about the libraries shape the actions:

- **READ COMMITTED.** An uncommitted change is visible to others as a row lock and nothing else, so
  `db` is committed data. Requests write at one point, their commit, and need no `lock` entry: in the
  model they take the row and release it in one action, which waits while a worker holds it.
- **`update()` is `Session.merge`** (`gateways/__init__.py` 58-59). The entity is detached, so merge
  reads the row again and marks the columns in which the entity differs from it. `ConfirmMerge` is that
  read; `ConfirmCommit` writes just those columns (`Flushed`), to whatever the row is by then. When
  merge finds no row it inserts the entity.
- **The ORM's identity map is weak.** `get` returns an entity and drops the row object, so nothing
  keeps the first read alive until merge.
- **autoflush.** `mark_processing` changes an object in the worker's session. The UPDATE is sent by the
  autoflush before the dedup query, which is when the row lock is taken (`FlushMarked`); a row that was
  gone at that moment is never marked, and `mark_duplicate` and `mark_indexed` read it again.

The runner's decisions are `Raise` (transient errors and the last-resort `except`: retry until
`max_attempts`), `RaisePermanent`, `Fail` (a transaction of its own), `Requeue` and `DeadLetter`.
Faults are actions enabled by the members of `Faults`: `"request"` (a store call of a request raises,
or its process dies), `"transient"` (any call of the pipeline), `"db"` (`_fail` swallows its
exception; it also swallows the error of an UPDATE that finds no row, so its SELECT and UPDATE
are one step), `"redis"` (LPUSH or INCR raises), `"crash"` (a worker dies at any step and is restarted).

`JobLedger` knows six things, which the mapping at the end of `Ingestion` computes. A confirmation
asks (`Asking`: read, merged, about to push) and has pushed (`Pushed`). A job of an item is open
(`OpenJobs`) while it is in the list or in the hands of a worker that has not finished with it, and
astray (`AstrayJobs`) once its worker has found the row gone: such a job ends or is tried again even if
a late confirmation puts the row back meanwhile. `DeadItems` have a dead letter, and `Shown` is the row's status,
coarsened to waiting, done, failed or none. In the ledger an open job ends only with its item done or
gone or with a dead letter. `Losses` lets one be lost; it is TRUE exactly where `"redis"` or `"crash"` is
among the faults. Retries, downloads, locks, re-deliveries and rollbacks are stuttering steps.

Abstracted: an image is told apart by its hash, and hashes by a distance table; which of several
closest duplicates is returned is left open (`Deduplication` has it); a 404 changes nothing and is not an action; malformed
jobs cannot come from the two producers; metadata columns other than status, phash, duplicate and
failure reason never change after registration.

### Search cache

`index[t]` counts the writes to a tenant's collection and stands for its contents; a page is the
request it was computed for and the contents it was computed from. `settled[t]` is the last write
whose worker has gone on to its next job: the write a new search has to see (`request[s].floor`).
`version` is the Redis counter, `results` the cached pages, `key` a search's result key, `page` what it
will return. A search goes through `version`, `lookup`, `embed`, `search`, `store`, `done`, one action
per call in `search.py` 90-132, with the failure branches of `cache/__init__.py` as actions of their
own. A hit may be any unexpired entry under the key, and entries expire at any moment (`Expire`).

Abstracted: SHA-256 is taken to be injective; the embedding cache decides only whether the embedder
is asked, since its vectors are a function of its key; what a page contains is module `SearchPages`.
Redis does not lose its data: a restart without persistence that resets the version is not modelled.

`FreshSearch` has the same index and requests but no cache: an open search finds, once, the contents
of some moment not before its floor. `QueryService` implements it with `open <- request`,
`answer <- page`; reading the version, missing, embedding, storing, bumping without effect on
`settled` and expiring are stuttering steps, and a cache hit is a `Find`.

### auth-service

An administrator's request reads a key, changes the detached entity, lets `Session.merge` read the row
again (`loaded`), and commits the columns that differ (`Written`), as in catalog-service; a revocation
writes its entry to Redis before it commits. `now` is the one clock; `Tick` advances it, drops expired
entries and tokens, and is held back so that no request takes longer than `RequestTime`. A client's
request reads the row, then the clock, then hits the limiter, then signs (`row`, `hit`, `sign`), or
verifies a token and asks the revocation list (`verified`, `hit`). `doomed`, `unchecked` and `revoked`
are history. What another answer of the limiter does to a request is left open here (`Hit`).

`RateLimiter` has the limiter itself: a hit takes its timestamp, and its INCR and EXPIRE arrive up to
`MaxDelay` later, when the window may be over and the counter gone. `Provisioning` cuts the creation of
a tenant at its lookup, its insert with the commit, and the second request that issues the key.

Abstracted: hashing and the comparison of secrets, the JWT signature, scopes (two facts about them are
in section 6). No code suspends or deletes a tenant, so a key's tenant is always there and active.

### Registration and feedback

A request is one transaction. `added` items are in its session and `inserted` of them are sent;
`Flushing` is the autoflush before the next lookup, and before the commit. The unique constraint makes
an insert wait for an open transaction with the same name (`Waits`), fail if such a row is committed
(`InsertFails`), and a cycle of waits ends by failing one of them (`BreakDeadlock`). An IntegrityError
has no handler and is a 500. `rivals` is history: the requests that were open at the same time.

`Registry` has the requests, their answers and the committed rows, and none of the sessions: a request
registers all its items at a moment when none of its names is taken, or is refused at a moment when one
is. `Registration` implements it with the same variables; adding, looking up, inserting, waiting and
everything about feedback are stuttering steps, and the moment is the commit or the lookup.

### Clients

`Uploads` has the script's loop: `call_with_backoff` tries again on a 429 only, any other error ends the
file; `Refusal` is what a service answers for each answer of auth-service; a call may also be handled
and its answer lost, and a confirmation that fails with a 500 may have pushed its job. The pipeline is `Settle`, one worker, which may not move at all. The SDK's
`ingest_image` and `get_item` are the calls. `SmokeTest` has each step of the smoke test with the checks
it makes and those it leaves out. `broken` is history.

### Vector store, pages, embeddings, listings, the gate

- `VectorStore`: `ensure_collection` looks into `_ensured`, asks Qdrant, creates; a collection has the
  size of the vectors it was created for; the runner's retries are `Fail`. `Deploy` changes the encoder.
- `SearchPages`: points are numbers, by their similarity to the query; recall, filter, candidate
  multiplier, rerank (a stable sort by the blended score), `min_score` and the offset are operators, and
  the cached pages are reset by a bump.
- `Embeddings`: decoding, the two groups, the providers and the reassembly by index of one call.
- `Listings`: `created_at` is given when a request builds its item, and the row appears at its commit. A page is
  the rows whose rank lies in its range.
- `Deduplication`: a hash is the set of its one-bits, `Hamming` counts the bits in which two differ. One
  step is one turn of the loop in `dedup.py` 18-25, with its `continue` and its `break`. The list is what
  `list_indexed_phashes` returns, the most recently indexed first.
- `QualityGate`: metrics as integers in parts of `Scale`; a step makes a ranking worse.

## 4. Runs

`MCIngestion` and `MCQueryService` instantiate one specification. `MCAuthService`, `MCClients` and
`MCVectorSearch` hold several that share no variable: the variable `focus` is chosen in the initial
state and says which one moves, so that the state count is the sum of theirs and not the product.
Where a module has variables for what a caller may ask, those of the others are at one initial value.
Constants an instance names (such as `acme`, `i1`) are the model values its definitions speak of.

`CHECK_DEADLOCK FALSE` is used where the bounded clients, scripts, calls or clock run out and leave
the system at rest; the search-cache runs check deadlock.

| Run | Instance | Shows |
|---|---|---|
| `races_and_faults` | 1 item, 2 workers, 2 requests, 3 confirmations, 1 delete, every fault | an INDEXED row is backed by its point and its reference, and no job is there twice, whatever fails or overlaps |
| `single_worker` | 3 items of 2 tenants, 3 images (two near-duplicates), 1 worker, 1 request, 3 confirmations, 1 delete | no near-duplicates, no re-index; a duplicate's original is of the same tenant and has its point while its row is there; the vector is that of the recorded hash |
| `announced` | 2 items, 2 workers, no worker faults, no deletes | every point of an INDEXED item is followed by a bump; nothing is its own duplicate |
| `liveness` | 2 items, 2 workers, transient errors, fair | a listed job decides its item; FAILED jobs are dead-lettered; the pipeline implements `JobLedger` |
| `query_cache` | 2 searches, 2 queries, 2 workers, 2 writes; reads and writes of the cache, attempts and services fail | answers are fresh; the cache implements `FreshSearch` |
| `search_ends` | 2 searches, every Redis call may fail, fair | a search is answered |
| `auth` | 3 keys, 1 administrator, 1 client, 3 changes, clock to 4; 2 hits, limit 2, window 2, clock to 5; 3 provisioning scripts, 4 typed names; Redis and the database fail | revocation is final, tokens end with their key; the budget of a window holds; a name has one tenant and one key |
| `clients` | 2 registrations of up to 2 items and 1 feedback; 3 files (two alike), 2 polls, 2 tries; the smoke test with 2 polls; all fair | names are unique, feedback has its item, everything ends; registration implements `Registry`: batches are whole and answers true; retries queue nothing twice, counted files are indexed; the verdict is right |
| `vector_search` | 2 workers, 3 items of 2 tenants, 2 attempts, 1 search, one change of encoder; 4 points to page through; calls of up to 3 inputs; 3 items to list; lists of up to 3 hashes of 3 bits; evaluation sets of up to 2 queries over 3 results, k of 0 and 2 | a lost race costs one attempt, searches find the tenant's items; pages partition the ranking; results belong to inputs; listings miss nothing; the first of the closest duplicates is found; regressions never score better |
| `finding_stuck_queued`, `finding_unrevoked`, `finding_forked_lineage` | the smallest instance | what the documentation says and the code does not do: see section 6 |

Bounds. `MaxConfirms`, `MaxDeletes`, `MaxUploads` cap the calls of the ingestion clients, `MaxWrites`
the writes to a tenant's collection, `MaxChanges` the rotations and revocations begun, `MaxTime` and
`MaxClock` the clocks, `MaxPolls` and `MaxWaits` the polls that fit into a timeout, `MaxAsks` the
requests of other clients, `MaxInputs`, `MaxItems`, `MaxUpdates`, `MaxStored` and `MaxEvals` what their
names say. `IssueKey` issues one key; the others come from rotations. `MaxAttempts`, `RETRIES`,
`Limit`, `Window`, `GracePeriod`, `TokenTtl`, `Threshold` and `RERANK_CANDIDATE_MULTIPLIER` are the
program's own, some of them made small. `NamesInOrder` (clients) breaks the symmetry of tenants and
names by hand, because a temporal property is checked there; the encoder changes once (`Upgrade`).

Why they are enough. The conflicts are pairwise: a request against a request, a worker against a
request, a worker against a worker, on one row (`races_and_faults` adds a third confirmation so that a
job can arrive after both). Two images suffice to tell a stale hash from a current one, a third (far
away) to tell a near-duplicate from any other image. `MaxAttempts = 2` has one retry and one
exhaustion. Two writes are needed to put a bump between a version read and a store, and a second
search to be served the result. Two registrations with two items each have every way to wait, to clash
and to deadlock. A clock of 4 outlasts grace, a token's life and its revocation entry; two windows and
a half let a hit arrive after its counter's window. Three files are needed for a duplicate of a file
that failed. Four points give pages of one and two results with a rest, and shortlists both smaller and
larger than the collection. Three hashes of three bits are enough for a tie, a better one after it and
an identical one, within and beyond a threshold of two. The safety
properties marked in section 5 are also proved without bounds.

Why some properties need a quiet instance. `NoNearDuplicates`, `NoReindex` and `IndexedVectorIsCurrent`
are checked with one worker and one request at a time because that is what they need: with two workers,
both may run the dedup query, or pass the "already indexed" test, before either commits.
`IndexedIsAnnounced` needs attempts that do not fail: when one fails after its upsert and another job
has indexed the item meanwhile, the retry skips the item and never bumps. `RevocationIsFinal`
needs one administrator at a time; `RevokedTokensAreListed` does not. `FailedIsDeadLettered` needs workers
that do not die and a Redis that answers: a crash between the commit of FAILED and the push loses the dead
letter. `DuplicateOfIndexed` needs nothing of the kind: it is checked with one worker, where it makes the
smallest run, and proved for any number of them and every fault. It says no more of an original that was
deleted: its point should then go (section 6). A composed query
is one ranking only while the collection fits the first page's shortlist (`FitsShortlist`): later pages
rank a larger shortlist anew. `ListingsMissNothing` needs that nothing is deleted meanwhile.

Fairness. `FairSpec` of `Ingestion` has weak fairness of each worker's steps and of the steps of a
request that has begun: `run_forever` loops, and the API's threads run. Clients may stop at any time, and
no fault is fair. A worker blocked on a row lock waits for a transaction whose worker is fair, too, so
weak fairness is enough. In `QueryService` only a search that has begun is fair; workers, expiry and
faults are not. In `Registration` the steps of an open request are fair, PostgreSQL's deadlock detection
among them. The upload script and the smoke test are single loops that run on; of the pipeline, the
worker and the rate limit nothing is assumed, so `ClientsEnd` says they end by their own timeouts.

Mutants. Each property of a passing run has a mutant, an operator next to the definition it
replaces (marked `Mutant:`), that changes the code the way a plausible bug would.

## 5. Proofs

All theorems hold for any sets of items, tenants, workers, requests, searches, keys and hits, any bounds
and any distance table, under the assumptions the modules name: constants have their types, workers and
requests of ingestion are finite sets. Four of them say more: `LimiterAssumption`, that a hit reaches
Redis within a window of its timestamp (`MaxDelay \in 0 .. Window`; the counter lives for two windows);
`AuthAssumption`, that three requests fit into the slack of a revocation entry
(`3 * RequestTime <= Slack`; 60 seconds in the code); `VectorStoreAssumption`, that a job has at least two
attempts; `SymmetricDistance`, that the Hamming distance is symmetric (only `NearDuplicatesKeptOut` uses
it).

Some theorems state their hypotheses. They are what the code's promise needs, and each fails without
them (section 4): `OneWorker`, one ingestion-worker process, as `docker-compose.yml` runs it (a fixed
`container_name`); `OneRequest`, clients
wait for one answer before the next call; `OneAdmin`,
one administrator at a time; `MaxDeletes = 0`, nothing is deleted; and limits on `Faults`.

| Theorem | States | Inductive invariant |
|---|---|---|
| `TypeCorrect` | `Spec => []TypeOK` of `Ingestion` | itself |
| `IndexedBacked`, `RefsBacked` | `[]IndexedIsBacked`, `[]RefsHaveRow`, every fault | `BackedInv` |
| `LocksHeld` | `[]RowLockIsHeld`, every fault | `LockInv` |
| `DuplicatesOfIndexed` | `[]DuplicateOfIndexed`, every fault | `DuplicateInv` |
| `FailedDeadLettered` | `[]FailedIsDeadLettered` without `"crash"` and `"redis"` | itself, over `BackedInv` |
| `JobsBounded` | `[]JobsNeverMultiply`, every fault | `CountInv` |
| `JobsAreAccountedFor` | `Spec => ImplementsJobLedger`, every fault | `RegisteredInv`, over `BackedInv` |
| `IndexedOnce` | `NoReindex`, `OneWorker`, every fault | `SkipInv` |
| `VectorsAreCurrent` | `[]IndexedVectorIsCurrent`, `OneWorker` and `OneRequest`, every fault | `SkipInv`, `RequestInv`, `VectorInv` |
| `NearDuplicatesKeptOut` | `[]NoNearDuplicates`, `OneWorker` and `OneRequest`, every fault | `FarInv`, over the same |
| `DuplicatesAreOthers` | `[]NotOwnDuplicate`, `OneWorker` or no deletes, every fault | `OthersInv`, `KeptInv` |
| `IndexedAnnounced` | `[]IndexedIsAnnounced`, no `"transient"`, `"redis"`, `"crash"`; or `OneWorker` and no `"redis"` | `BumpInv`; `SerialBumpInv` |
| `QueryTypeCorrect` | `Spec => []TypeOK` of `QueryService` | itself |
| `AnswersOfTheRequest` | `[]AnswersTheRequest`, every fault | `MatchInv` |
| `AnswersFresh` | `[]AnswersAreFresh` when the version is read and bumps succeed | `FreshInv` |
| `CacheIsTransparent` | `Spec => ImplementsFreshSearch`, same assumptions | `FreshInv` |
| `BudgetOfWindow` | `[]WindowBudget` | `LimiterInv` |
| `AuthTypes`, `RevokedTokensStayListed` | `[]TypeOK`, `[]RevokedTokensAreListed`, any number of administrators, every fault | `ListInv` |
| `RevocationEndsAccess` | `[]RevocationIsFinal`, one administrator at a time | `AdminInv` |
| `TokensEndWithTheirKey` | `[]TokensFollowTheirKey`, any number of administrators, every fault | `EndInv` |
| `RegistrationTypes`, `BatchesStayWhole` | `[]RegistrationTypeOK`, `[]BatchesAreWhole` | `BaseInv` |
| `NamesAreUnique` | `[]UniqueExternalId` | `BaseInv`, `LiveUnique` |
| `ConflictsTellTheTruth`, `OnlyRacesFail`, `FeedbackKeepsItsItem` | `[]ConflictsAreReal`, `[]ErrorsComeFromRaces`, `[]FeedbackHasItem` | `RegistrationInv` |
| `RegistrationIsAtomic` | `RegistrationSpec => RegistersAtOnce` | `RegistrationInv` |
| `OneAttemptForTheRace` | `[]LostRaceCostsOneAttempt` | `JobsInv`, `AccountInv` |
| `RememberedCollectionsExist` | `[]EnsuredExists` | itself, over `JobsInv` |
| `SearchesFind` | `[]SearchesFindTheTenants` | `JobsInv`, `EnsuredExists`, `SearchInv` |
| `ListingsAreComplete` | `[]ListingsMissNothing` | `ListingsInv` |
| `PagesAddUp` | `[]PagesPartitionTheRanking` | `PagesInv` |
| `DuplicateIsTheClosest` | `[]FirstOfTheClosest` | `LoopInv` |
| `ResultsStayInPlace` | `[]ResultsBelongToInputs` | `EmbedInv` |
| `NamesHaveOneKey` | `[]OneKeyPerName` | `ProvisioningInv` |
| `SmokeTypes`, `SmokeTestJudges` | `[]SmokeTypeOK`, `[]VerdictIsRight` | `SmokeInv` |
| `UploadsTypes`, `FilesQueuedOnce`, `SuccessesAreIndexed` | `[]UploadsTypeOK`, `[]RetriesNeverQueueTwice`, `[]SuccessIsIndexed` | `UploadsInv` |

Why the strengthenings are what they are.

- `BackedInv` adds that a confirmation's entity is QUEUED (`EntityIsQueued`): its late write back
  cannot make a row INDEXED, although it can overwrite one. And that a worker past its upsert has a point for its
  item (`PointIsWritten`): points are never removed, so the commit that makes the row INDEXED finds
  it. The foreign key then gives the reference.
- `LockInv` adds that a locked row is present: nobody can delete it while the lock is held.
- `DuplicateInv` carries what a worker found, and what a request has read and will write back, up to
  the commit that stores it. An item that once was an original has its point whenever its row is there:
  points are never removed, and a re-upload replaces them.
- `CountInv` counts a confirmation that has yet to push its job as a job: `calls.confirms` bounds
  listed jobs, busy workers, dead letters and those.
- `RegisteredInv`: rows, and the items of requests, are registered ids. A registration therefore never
  meets an id that an older request, with a late write back, still holds. The rest of the step lemma is
  counting: a push or a pop moves one job between the list and a worker (`ListedAfterPush`,
  `ListedAfterPop`, `HoldersMove`, `StrayersMove`), so `OpenJobs` changes by exactly one, at exactly the
  steps where the ledger says so.
- `SkipInv`: once a job has passed the "already indexed" test its item stays unindexed until that job
  commits; with one worker nobody else can index it. A confirmation cannot either: what it writes is
  QUEUED (`BackedInv`).
- `VectorInv` and `RequestInv`: a worker past its upsert has the vector of its image in the store, and a
  request that reads a QUEUED row, or will merge into one, carries the row's own hash. With two requests
  one could write back the hash of an older image.
- `FarInv`: after the dedup query the worker's image is further than the threshold from every INDEXED
  one, until it commits. That the query returns nothing only when nothing is that close needs that every
  set of distances has a least one (`LeastNumber`): the library's induction over numbers takes an
  operator, so it comes from their well-foundedness.
- `OthersInv` carries who may write `duplicate_of_id`: what workers found and what requests write back is
  never the item itself. The query leaves the item's own row out only because that row is not INDEXED:
  one worker keeps it so (`SkipInv`); otherwise, without deletes, the row is marked and locked (`KeptInv`).
- `BumpInv`: while no attempt fails, a point without a bump belongs to a worker that is about to bump.
  With one worker a retry repeats both the upsert and the bump before the commit (`SerialBumpInv`).
- `FreshInv`: a settled write is in the index; a cached page under a version other than "unavailable"
  is at least as new as the settled writes of the moment that version is current; a search's key and
  page belong to its request; whatever a search in `lookup` can find is no older than its floor. The
  point of the argument is that a bump makes every older entry unreachable for searches that begin
  after it, while a search that read the version before may store and find under it.
- `LimiterInv`: until two windows after a window's start, what it has granted is still counted
  (`GrantsAreCounted`), and hits in progress are no older than the delay allows, so that none of them
  finds its counter gone.
- `ListInv`: of a revoked key, the entry covers each token and, for a request that has read the key
  while it was usable, the token it may yet sign (`RevokedIsCovered`); a revocation has written its entry
  before it commits. The three `RequestTime`s are those of the revocation, of the request that signs,
  and of the one that presents the token.
- `AdminInv`: with one administrator what a request has read of a key is what the key still is
  (`ReadIsCurrent`), so that merge writes the intended columns; a request doomed from its start reads the
  key revoked, or finds it on the list (`DoomedIsRefused`).
- `EndInv` compares what requests have read of a key with what the key is now, however many
  administrators work on it: everybody who rotates a key has loaded it while it was active, so that the
  grace periods they give it end within a `RequestTime` of each other (`GracesAgree`). The bounds are as
  tight as the argument: a token of a key that expires is late by the request that signs it; for one in
  grace a second rotation may have moved the end; a revocation that commits may carry the time of an
  earlier, overlapping one, and the request that signs may have read the key before it (`TokensEnd`).
- `RegistrationInv`: names are unique among the items inserted, committed or not (`LiveUnique`), and a
  row with a name an open request has looked up in vain belongs to a rival (`RowsOfRivals`).
  `RegistrationIsAtomic` reads its step off the same invariant: when a session commits, its
  items are inserted, so `LiveUnique` says that none of its names is committed (`CommitIsClean`).
- `AccountInv`: as long as a tenant has no collection only faults cost attempts, afterwards at most one
  more (`AttemptsAccounted`), and who is about to create has not lost before (`CreatorsLostNothing`).
- `ListingsInv`: what the client waits for is on a page it has, or has a rank from the next offset on.
  Rows that appear only raise ranks. An empty page is the end because ranks leave no gap
  (`NoPlaceIsSkipped`, from the least row at a rank or later and the greatest row before it).
- `EmbedInv`: a group holds the vectors of the call's inputs in the order of their positions; positions
  have places of their own (`PlacesAreDistinct`), so each vector comes back to its input.
- `LoopInv`: none of the items passed is closer than the best, and those before the best are further
  away, so that the first of equals stays. `HammingIsDistance` proves, of distances computed from bits,
  what `SymmetricDistance` assumes of the table in `Ingestion`.
- `PagesInv`: what is cached while nothing is unannounced is the page of the collection as it is, and a
  client that has met no write has the ranking up to its offset. A plain query cuts its pages from
  different shortlists, but each is the front of the next (`PlainHits`): recall and the scores order
  points alike, and the test of the minimum score takes a front, too. Rankings are given by ranks, and
  that every rank is taken (`EveryRankIsTaken`) comes from counting: an injection between finite sets of
  one size is onto.
- `ProvisioningInv`: the run that has inserted a tenant is the one that issues its key, and the unique
  name lets no other insert it. `SmokeInv` has, for each step of the script, what the services have done
  with the three items so far. `UploadsInv`: at most the catalog row the script is polling is beyond
  `pending_upload` for the file at hand (`OnlyPolledIsQueued`, `ItemIsCurrent`), and a duplicate has an
  INDEXED original (`DuplicateHasOriginal`).

`RefsHaveRow`, `RowLockIsHeld`, `AnswersTheRequest`, `EnsuredExists` and the type invariants of single
components are proved and not among the properties of the runs; nor are `BatchesAreWhole`,
`ConflictsAreReal` and `ErrorsComeFromRaces`, which the run `clients` checks as parts of `RegistersAtOnce`.

Only model-checked: the liveness properties (`QueuedJobIsDecided`, `SearchIsAnswered`, `ClientsEnd`),
which are out of the prover's reach; `RegressionsNeverScoreBetter`, whose metrics are sums over
sequences and would need inductions over data; and the `TypeOK` of `MCClients` and `MCVectorSearch`,
conjunctions over the components, most of whose parts are proved by themselves.

## 6. Where the code and its documentation differ

Three differences have a run in which TLC finds the property violated:

- `finding_stuck_queued`: the job is pushed before the confirmation commits (`items.py` 167). A
  worker that is quick enough decides the item first; the commit then writes QUEUED over the outcome,
  and no job is left. No fault is involved.
- `finding_unrevoked`: a rotation that has read the key before a revocation commits after it, and
  merge writes GRACE over REVOKED (`api_keys.py` 111): the key authenticates again.
- `finding_forked_lineage`: two administrators rotate one key; both read it ACTIVE (`api_keys.py` 106), and
  both commit a replacement, although a key that "is not active [...] cannot be rotated" (107).

The models show further differences that have no run of their own. In ingestion:

- BRPOP removes the job before it is handled, so a worker's death loses it, while `runner.py` 3 promises
  at-least-once delivery; a worker that dies between marking a row FAILED and pushing its job leaves it
  without a dead letter.
- A confirmation that checked the object before a delete re-inserts the row after it, QUEUED and without
  an object. One that read the empty hash before the item was indexed writes it back; with a second
  confirmation the item ends INDEXED without a hash, invisible to dedup.
- With two workers `NoNearDuplicates` and `NoReindex` fail, against `processor.py` 65 and 76. With a
  delete, a confirmation and two workers, `NotOwnDuplicate` fails: `list_indexed_phashes` does not leave
  out the item itself.
- An original that is uploaded and confirmed again with another picture has its point replaced
  (`processor.py` 88); its duplicate, which has none, is then not found by its own image any more, against
  `docs/MILESTONES.md` 256.
- `processing` is never committed (the same commit writes the outcome over it), and `QUEUEABLE_FROM` is
  never consulted. Deleting an item never removes its point (`items.py` 226), although "deleting an item
  removes its vector" (`docs/MILESTONES_4_TO_9_COMPLETION_REPORT.md` 45-46), nor bumps the version.

In search:

- Searches that cannot read the version all use the version `"unavailable"` (cache 36-39), whose pages
  no bump ever invalidates. A failed bump is not repeated (`processor.py` 99-102).
- The store of the tests does not "behaviourally match" Qdrant (`vectordb/__init__.py` 73-74). Searching
  without a collection, vectors of another width, and filters with null, a float or a list raise in Qdrant
  only. Python's equality takes `true`, 1 and 1.0 for equal, where `MatchValue` compares within a type, and
  a key with a dot is a path in Qdrant. (Payloads never hold a list: `processor.py` 113-117 drops it.)
- An encoder of another dimension makes every upsert to an existing collection fail, although
  `model_adapters.py` 17-20 calls the switch "a re-index", "not a schema change". The embedding cache is keyed by the
  input alone: a vector of an older encoder is used until it expires.
- A plain query that asks for reranking gets recall's own order. Pages of a composed query over a larger
  collection may repeat or miss results.
- A listing filtered by status may miss items, because rows leave the pages already read.

In auth-service and registration:

- Concurrent registrations of a name, and concurrent creations of a tenant, may answer 500 and not 409.
- Issuing a key with an empty list of scopes gives it the default scopes.

In the tools:

- `provision_tenant.py` leaves a tenant without a key, and a name that is taken, when its second call
  fails. The upload script counts a file as failed though its call was handled, and leaves
  PENDING_UPLOAD rows.
- The smoke test's filtered search passes on an empty answer, and the answers to its duplicate upload
  are not checked.
- `retrieval_quality.py` 15-20 documents a `--live` mode the parser lacks; precision has no threshold;
  duplicate ids in a ranking can lift ndcg above 1.

## 7. Not modelled

- `InMemoryVectorStore`, which serves the tests, and `delete` of the vector store, which nothing calls.
- `frontend/dashboard`, `infra` apart from the gate, deployment: presentation and configuration.
- `shared/domain-kernel`: a type for tenant ids, which are model values here.
- Health checks, metrics, tracing, logging, presenters, configuration, migrations: no state of the
  system, or none that a property is about.
- The arithmetic of the encoders, of the perceptual hash and of cosine similarity: tables of constants.
- The load test and security scripts; malformed jobs, which neither producer writes; a Redis that
  restarts without its data.
