---------------------------- MODULE QueryService ----------------------------
(***************************************************************************)
(* query-service: searches that share the Redis query cache, run while     *)
(* ingestion workers write to the index and bump the tenant's index        *)
(* version.  A search is cut where it talks to Redis, the embedder or the  *)
(* vector store.                                                           *)
(*                                                                         *)
(* A page of results is told apart by what it was computed for and by the  *)
(* contents of the collection it was computed from.  The embedding cache   *)
(* holds vectors that are a function of their key: it decides only whether *)
(* the embedder is asked.                                                  *)
(***************************************************************************)
EXTENDS Naturals

CONSTANTS
  Tenants,
  Queries,     \* the query, its page and filters, and whether it reranks
  Searches,    \* request threads
  Workers,
  MaxWrites,   \* bound on the writes to a tenant's collection
  Faults,      \* the calls that may fail
  Unavailable, \* the version of a search that could not read it
  None

ASSUME QueryAssumption ==
  /\ Unavailable \notin Nat
  /\ MaxWrites \in Nat
  /\ None \notin [tenant : Tenants, query : Queries, floor : Nat]
  /\ None \notin [tenant : Tenants, query : Queries, contents : Nat]
  /\ None \notin [tenant : Tenants, write : 0 .. MaxWrites]
  /\ None \notin [tenant : Tenants, version : Nat \cup {Unavailable}, query : Queries]
  /\ Faults \subseteq {"version", "get", "set", "bump", "job", "service"}

VARIABLES
  index,    \* writes to each tenant's collection so far; stands for its contents
  version,  \* cbir:index-version of each tenant
  settled,  \* writes whose worker has gone on to its next job
  bump,     \* the write a worker has yet to announce
  results,  \* cached pages
  spc,      \* the call a search makes next
  request,  \* what it was asked, and the writes settled when it began
  key,      \* its result key
  page      \* the page it will return

vars == <<index, version, settled, bump, results, spc, request, key, page>>
searchVars == <<spc, request, key, page>>

SearchPC == {"idle", "version", "lookup", "embed", "search", "store", "done"}
Versions == Nat \cup {Unavailable}
Key == [tenant : Tenants, version : Versions, query : Queries]
Page == [tenant : Tenants, query : Queries, contents : Nat]
Request == [tenant : Tenants, query : Queries, floor : Nat]
Entry == [key : Key, page : Page]

TypeOK ==
  /\ index \in [Tenants -> 0 .. MaxWrites]
  /\ version \in [Tenants -> Nat]
  /\ settled \in [Tenants -> 0 .. MaxWrites]
  /\ bump \in [Workers -> [tenant : Tenants, write : 0 .. MaxWrites] \cup {None}]
  /\ results \subseteq Entry
  /\ spc \in [Searches -> SearchPC]
  /\ request \in [Searches -> Request \cup {None}]
  /\ key \in [Searches -> Key \cup {None}]
  /\ page \in [Searches -> Page \cup {None}]
  /\ \A s \in Searches :
       /\ spc[s] = "idle" <=> request[s] = None
       /\ spc[s] \in {"lookup", "embed", "search", "store"} => key[s] # None
       /\ spc[s] \in {"store", "done"} <=> page[s] # None

Init ==
  /\ index = [t \in Tenants |-> 0]
  /\ version = [t \in Tenants |-> 0]
  /\ settled = [t \in Tenants |-> 0]
  /\ bump = [w \in Workers |-> None]
  /\ results = {}
  /\ spc = [s \in Searches |-> "idle"]
  /\ request = [s \in Searches |-> None]
  /\ key = [s \in Searches |-> None]
  /\ page = [s \in Searches |-> None]

-----------------------------------------------------------------------------
(* The ingestion worker, as far as searches can tell                       *)

Upsert(w, t) ==
  /\ bump[w] = None
  /\ index[t] < MaxWrites
  /\ index' = [index EXCEPT ![t] = @ + 1]
  /\ bump' = [bump EXCEPT ![w] = [tenant |-> t, write |-> index[t] + 1]]
  /\ UNCHANGED <<version, settled, results, searchVars>>

\* INCR: every write so far is announced with the worker's own.
Bump(w) ==
  /\ bump[w] # None
  /\ LET t == bump[w].tenant IN
       /\ version' = [version EXCEPT ![t] = @ + 1]
       /\ settled' = [settled EXCEPT ![t] = index[t]]
  /\ bump' = [bump EXCEPT ![w] = None]
  /\ UNCHANGED <<index, results, searchVars>>

\* The exception is logged, and the job ends as if the version were bumped.
BumpFails(w) ==
  /\ "bump" \in Faults
  /\ bump[w] # None
  /\ LET t == bump[w].tenant
         n == bump[w].write IN
       settled' = [settled EXCEPT ![t] = IF n > @ THEN n ELSE @]
  /\ bump' = [bump EXCEPT ![w] = None]
  /\ UNCHANGED <<index, version, results, searchVars>>

\* The attempt fails between the write and the bump; the job will be retried.
AttemptFails(w) ==
  /\ "job" \in Faults
  /\ bump[w] # None
  /\ bump' = [bump EXCEPT ![w] = None]
  /\ UNCHANGED <<index, version, settled, results, searchVars>>

-----------------------------------------------------------------------------
(* A search                                                                *)

Goto(s, pc) == spc' = [spc EXCEPT ![s] = pc]

\* Mutant: the page outlives the search.
EndSearchKeepsPage(s) ==
  /\ Goto(s, "idle")
  /\ request' = [request EXCEPT ![s] = None]
  /\ key' = [key EXCEPT ![s] = None]
  /\ UNCHANGED <<index, version, settled, bump, results, page>>

EndSearch(s) ==
  /\ Goto(s, "idle")
  /\ request' = [request EXCEPT ![s] = None]
  /\ key' = [key EXCEPT ![s] = None]
  /\ page' = [page EXCEPT ![s] = None]
  /\ UNCHANGED <<index, version, settled, bump, results>>

Begin(s, t, q) ==
  /\ spc[s] = "idle"
  /\ request' = [request EXCEPT ![s] =
                   [tenant |-> t, query |-> q, floor |-> settled[t]]]
  /\ Goto(s, "version")
  /\ UNCHANGED <<index, version, settled, bump, results, key, page>>

\* Mutant: the key leaves out the version.
ResultKeyUnversioned(s, v) ==
  [tenant |-> request[s].tenant, version |-> 0, query |-> request[s].query]

ResultKey(s, v) ==
  [tenant |-> request[s].tenant, version |-> v, query |-> request[s].query]

ReadVersion(s) ==
  /\ spc[s] = "version"
  /\ key' = [key EXCEPT ![s] = ResultKey(s, version[request[s].tenant])]
  /\ Goto(s, "lookup")
  /\ UNCHANGED <<index, version, settled, bump, results, request, page>>

\* The search goes on in a bucket of its own.
VersionUnavailable(s) ==
  /\ "version" \in Faults
  /\ spc[s] = "version"
  /\ key' = [key EXCEPT ![s] = ResultKey(s, Unavailable)]
  /\ Goto(s, "lookup")
  /\ UNCHANGED <<index, version, settled, bump, results, request, page>>

CacheHit(s) ==
  /\ spc[s] = "lookup"
  /\ \E e \in results :
       /\ e.key = key[s]
       /\ page' = [page EXCEPT ![s] = e.page]
  /\ Goto(s, "done")
  /\ UNCHANGED <<index, version, settled, bump, results, request, key>>

\* Mutant: a read that fails is an error.
CacheMissOrError(s) ==
  /\ spc[s] = "lookup"
  /\ \/ "get" \in Faults /\ EndSearch(s)
     \/ /\ \A e \in results : e.key # key[s]
        /\ Goto(s, "embed")
        /\ UNCHANGED <<index, version, settled, bump, results, request, key, page>>

\* A read that fails is a miss.
CacheMiss(s) ==
  /\ spc[s] = "lookup"
  /\ "get" \in Faults \/ \A e \in results : e.key # key[s]
  /\ Goto(s, "embed")
  /\ UNCHANGED <<index, version, settled, bump, results, request, key, page>>

Embed(s) ==
  /\ spc[s] = "embed"
  /\ Goto(s, "search")
  /\ UNCHANGED <<index, version, settled, bump, results, request, key, page>>

\* ANN search, rerank, score filter and page, of the contents as they are now.
SearchIndex(s) ==
  /\ spc[s] = "search"
  /\ page' = [page EXCEPT ![s] =
                [tenant |-> request[s].tenant, query |-> request[s].query,
                 contents |-> index[request[s].tenant]]]
  /\ Goto(s, "store")
  /\ UNCHANGED <<index, version, settled, bump, results, request, key>>

\* Mutant: the version is read again to store the page.
StoreUnderCurrentVersion(s) ==
  LET k == ResultKey(s, version[request[s].tenant]) IN
  /\ spc[s] = "store"
  /\ results' = {e \in results : e.key # k} \cup {[key |-> k, page |-> page[s]]}
  /\ Goto(s, "done")
  /\ UNCHANGED <<index, version, settled, bump, request, key, page>>

\* SETEX
StoreResults(s) ==
  /\ spc[s] = "store"
  /\ results' = {e \in results : e.key # key[s]}
                  \cup {[key |-> key[s], page |-> page[s]]}
  /\ Goto(s, "done")
  /\ UNCHANGED <<index, version, settled, bump, request, key, page>>

StoreFails(s) ==
  /\ "set" \in Faults
  /\ spc[s] = "store"
  /\ Goto(s, "done")
  /\ UNCHANGED <<index, version, settled, bump, results, request, key, page>>

Return(s) == spc[s] = "done" /\ EndSearch(s)

\* ai-service or the vector store fails: a 503 or a 500, and nothing is cached.
\* A composed search embeds its modifier before it reads the version.
ServiceFails(s) ==
  /\ "service" \in Faults
  /\ spc[s] \in {"version", "embed", "search"}
  /\ EndSearch(s)

\* The time to live of a cached page is over.
Expire(e) ==
  /\ results' = results \ {e}
  /\ UNCHANGED <<index, version, settled, bump, searchVars>>

SearchStep(s) ==
  \/ ReadVersion(s) \/ VersionUnavailable(s) \/ CacheHit(s) \/ CacheMiss(s)
  \/ Embed(s) \/ SearchIndex(s) \/ StoreResults(s) \/ StoreFails(s)
  \/ Return(s)

Next ==
  \/ \E w \in Workers, t \in Tenants : Upsert(w, t)
  \/ \E w \in Workers : Bump(w) \/ BumpFails(w) \/ AttemptFails(w)
  \/ \E s \in Searches, t \in Tenants, q \in Queries : Begin(s, t, q)
  \/ \E s \in Searches : SearchStep(s) \/ ServiceFails(s)
  \/ \E e \in results : Expire(e)

Spec == Init /\ [][Next]_vars

\* A request that has begun keeps running.
FairSpec == Spec /\ \A s \in Searches : WF_vars(SearchStep(s))

-----------------------------------------------------------------------------
(* What searches promise                                                   *)

\* No answer is older than the search: it is computed from contents that include
\* every write settled when the search began, although the version is read, the
\* cache filled and the version bumped by different processes at different times
\* ("a stale result is never served past the next successful index write").
AnswersAreFresh ==
  \A s \in Searches : page[s] # None => page[s].contents >= request[s].floor

\* A cached page answers the request it was computed for: the same tenant, query,
\* page, filters and mode.
AnswersTheRequest ==
  \A s \in Searches : page[s] # None =>
    page[s].tenant = request[s].tenant /\ page[s].query = request[s].query

\* The cache cannot be told from an index that is always asked.
Fresh == INSTANCE FreshSearch WITH open <- request, answer <- page
ImplementsFreshSearch == Fresh!Spec

\* "On any Redis error the cache fails open": it never keeps a search from being
\* answered.
SearchIsAnswered ==
  \A s \in Searches : (spc[s] = "version") ~> (spc[s] = "done")
=============================================================================
