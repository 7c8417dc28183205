------------------------- MODULE QueryServiceProofs -------------------------
(***************************************************************************)
(* That cached searches are as fresh as searches without a cache, for any  *)
(* number of tenants, queries, searches, workers and writes, while the     *)
(* version can be read and is bumped.  The argument: a page cached under   *)
(* the tenant's current version was computed from contents with every      *)
(* settled write, because a version is read before the index is searched   *)
(* and settling a write makes the version a new one.                       *)
(***************************************************************************)
EXTENDS QueryService, TLAPS

\* The bumped version is the last one: what is settled has been written.
SettledIsWritten ==
  /\ \A t \in Tenants : settled[t] <= index[t]
  /\ \A w \in Workers : bump[w] # None => bump[w].write <= index[bump[w].tenant]

\* A page under the current version holds every settled write.
EntriesAreCurrent ==
  \A e \in results :
    /\ e.page.tenant = e.key.tenant /\ e.page.query = e.key.query
    /\ e.key.version \in Nat /\ e.key.version <= version[e.key.tenant]
    /\ e.page.contents <= index[e.key.tenant]
    /\ e.key.version = version[e.key.tenant] =>
         e.page.contents >= settled[e.key.tenant]

\* A search has the key of its request, and a version that was once read.
KeyIsOfRequest ==
  \A s \in Searches :
    /\ request[s] # None => request[s].floor <= settled[request[s].tenant]
    /\ spc[s] \in {"lookup", "embed", "search", "store"} =>
         /\ key[s].tenant = request[s].tenant /\ key[s].query = request[s].query
         /\ key[s].version \in Nat /\ key[s].version <= version[key[s].tenant]

\* What a search has found is fresh, and may be stored under its key.
PagesAreFresh ==
  \A s \in Searches : page[s] # None =>
    /\ page[s].tenant = request[s].tenant /\ page[s].query = request[s].query
    /\ page[s].contents >= request[s].floor
    /\ page[s].contents <= index[request[s].tenant]
    /\ spc[s] = "store" /\ key[s].version = version[key[s].tenant] =>
         page[s].contents >= settled[key[s].tenant]

\* What is stored under a search's key, now or by another search before it looks,
\* is fresh for it, even when the version has since been bumped.
LookupsFindFresh ==
  \A s \in Searches : spc[s] = "lookup" =>
    /\ \A e \in results : e.key = key[s] => e.page.contents >= request[s].floor
    /\ \A r \in Searches : spc[r] = "store" /\ key[r] = key[s] =>
         page[r].contents >= request[s].floor

FreshInv ==
  /\ SettledIsWritten
  /\ EntriesAreCurrent
  /\ KeyIsOfRequest
  /\ PagesAreFresh
  /\ LookupsFindFresh

-----------------------------------------------------------------------------
(* Types                                                                   *)

LEMMA NoneIsNoRecord == None \notin Request /\ None \notin Page /\ None \notin Key
  BY QueryAssumption DEF Request, Page, Key, Versions

LEMMA InitType == Init => TypeOK
  BY QueryAssumption DEF Init, TypeOK, SearchPC

LEMMA WorkerType ==
  ASSUME TypeOK, NEW w \in Workers, NEW t \in Tenants,
         Upsert(w, t) \/ Bump(w) \/ BumpFails(w) \/ AttemptFails(w)
  PROVE  TypeOK'
PROOF
  <1> USE QueryAssumption DEF searchVars
  <1>1. CASE Upsert(w, t)
    <2>1. [tenant |-> t, write |-> index[t] + 1]
             \in [tenant : Tenants, write : 0 .. MaxWrites]
      BY <1>1 DEF Upsert, TypeOK
    <2> QED
      BY <1>1, <2>1 DEF Upsert, TypeOK
  <1>2. CASE Bump(w)
    BY <1>2 DEF Bump, TypeOK
  <1>3. CASE BumpFails(w)
    <2>1. bump[w].tenant \in Tenants /\ bump[w].write \in 0 .. MaxWrites
      BY <1>3 DEF BumpFails, TypeOK
    <2> QED
      BY <1>3, <2>1 DEF BumpFails, TypeOK
  <1>4. CASE AttemptFails(w)
    BY <1>4 DEF AttemptFails, TypeOK
  <1> QED
    BY <1>1, <1>2, <1>3, <1>4

LEMMA EndType == ASSUME TypeOK, NEW s \in Searches, EndSearch(s) PROVE TypeOK'
  BY NoneIsNoRecord, QueryAssumption DEF EndSearch, Goto, TypeOK, SearchPC

LEMMA SearchType ==
  ASSUME TypeOK, NEW s \in Searches, SearchStep(s) \/ ServiceFails(s)
  PROVE  TypeOK'
PROOF
  <1> USE NoneIsNoRecord, QueryAssumption DEF Goto, SearchPC
  <1>1. ASSUME NEW v \in Versions, spc[s] = "version"
        PROVE  ResultKey(s, v) \in Key
    <2>1. request[s] \in Request
      BY <1>1 DEF TypeOK
    <2> QED
      BY <2>1 DEF ResultKey, Key, Request
  <1>2. CASE ReadVersion(s)
    <2>1. version[request[s].tenant] \in Versions
      BY <1>2 DEF ReadVersion, TypeOK, Request, Versions
    <2> QED
      BY <1>1, <1>2, <2>1 DEF ReadVersion, TypeOK
  <1>3. CASE VersionUnavailable(s)
    <2>1. Unavailable \in Versions /\ spc[s] = "version"
      BY <1>3 DEF VersionUnavailable, Versions
    <2>2. ResultKey(s, Unavailable) \in Key
      BY <1>1, <2>1
    <2> QED
      BY <1>3, <2>2 DEF VersionUnavailable, TypeOK
  <1>4. CASE CacheHit(s)
    <2>1. PICK e \in results : page' = [page EXCEPT ![s] = e.page]
      BY <1>4 DEF CacheHit
    <2>2. e.page \in Page
      BY <2>1 DEF TypeOK, Entry
    <2> QED
      BY <1>4, <2>1, <2>2 DEF CacheHit, TypeOK
  <1>5. CASE CacheMiss(s)
    BY <1>5 DEF CacheMiss, TypeOK
  <1>6. CASE Embed(s)
    BY <1>6 DEF Embed, TypeOK
  <1>7. CASE SearchIndex(s)
    <2> DEFINE p == [tenant |-> request[s].tenant, query |-> request[s].query,
                     contents |-> index[request[s].tenant]]
    <2>1. request[s] \in Request
      BY <1>7 DEF SearchIndex, TypeOK
    <2>2. p \in Page
      BY <2>1 DEF TypeOK, Request, Page
    <2> QED
      BY <1>7, <2>2 DEF SearchIndex, TypeOK
  <1>8. CASE StoreResults(s)
    <2>1. key[s] \in Key /\ page[s] \in Page
      BY <1>8 DEF StoreResults, TypeOK
    <2>2. results' \subseteq Entry
      BY <1>8, <2>1 DEF StoreResults, TypeOK, Entry
    <2> QED
      BY <1>8, <2>2 DEF StoreResults, TypeOK
  <1>9. CASE StoreFails(s)
    BY <1>9 DEF StoreFails, TypeOK
  <1>10. CASE Return(s) \/ ServiceFails(s)
    BY <1>10, EndType DEF Return, ServiceFails
  <1> QED
    BY <1>2, <1>3, <1>4, <1>5, <1>6, <1>7, <1>8, <1>9, <1>10 DEF SearchStep

\* Every state of query-service is well typed.
THEOREM QueryTypeCorrect == Spec => []TypeOK
PROOF
  <1>1. ASSUME TypeOK, [Next]_vars PROVE TypeOK'
    <2>1. ASSUME NEW w \in Workers, NEW t \in Tenants, Upsert(w, t)
          PROVE  TypeOK'
      BY <1>1, <2>1, WorkerType
    <2>2. ASSUME NEW w \in Workers, Bump(w) \/ BumpFails(w) \/ AttemptFails(w)
          PROVE  TypeOK'
      <3>1. bump[w].tenant \in Tenants
        BY <1>1, <2>2 DEF TypeOK, Bump, BumpFails, AttemptFails
      <3> QED
        BY <1>1, <2>2, <3>1, WorkerType
    <2>3. ASSUME NEW s \in Searches, NEW t \in Tenants, NEW q \in Queries,
                 Begin(s, t, q)
          PROVE  TypeOK'
      <3>1. [tenant |-> t, query |-> q, floor |-> settled[t]] \in Request
        BY <1>1, QueryAssumption DEF TypeOK, Request
      <3> QED
        BY <1>1, <2>3, <3>1, NoneIsNoRecord DEF Begin, Goto, TypeOK, SearchPC
    <2>4. ASSUME NEW s \in Searches, SearchStep(s) \/ ServiceFails(s)
          PROVE  TypeOK'
      BY <1>1, <2>4, SearchType
    <2>5. ASSUME NEW e \in results, Expire(e) PROVE TypeOK'
      BY <1>1, <2>5 DEF Expire, TypeOK, searchVars
    <2>6. CASE UNCHANGED vars
      BY <1>1, <2>6 DEF vars, TypeOK
    <2> QED
      BY <1>1, <2>1, <2>2, <2>3, <2>4, <2>5, <2>6 DEF Next
  <1> QED
    BY <1>1, InitType, PTL DEF Spec

-----------------------------------------------------------------------------
(* Freshness                                                               *)

LEMMA InitFresh == Init => FreshInv
  BY DEF Init, FreshInv, SettledIsWritten, EntriesAreCurrent, KeyIsOfRequest,
         PagesAreFresh, LookupsFindFresh

LEMMA TypesOfSearch ==
  ASSUME TypeOK, NEW s \in Searches
  PROVE  /\ spc[s] # "idle" => request[s] \in Request
         /\ spc[s] \in {"lookup", "embed", "search", "store"} => key[s] \in Key
         /\ spc[s] \in {"store", "done"} => page[s] \in Page
         /\ spc[s] \notin {"store", "done"} => page[s] = None
  BY DEF TypeOK

\* A write changes no page, and no promise.
LEMMA UpsertFresh ==
  ASSUME TypeOK, FreshInv, NEW w \in Workers, NEW t \in Tenants, Upsert(w, t)
  PROVE  FreshInv'
PROOF
  <1> USE DEF Upsert, searchVars
  <1>1. \A u \in Tenants : index[u] \in Nat /\ index'[u] \in Nat /\ index[u] <= index'[u]
    BY QueryAssumption DEF TypeOK
  <1>2. SettledIsWritten'
    BY <1>1, QueryAssumption DEF FreshInv, SettledIsWritten, TypeOK
  <1>3. EntriesAreCurrent'
    BY <1>1 DEF FreshInv, EntriesAreCurrent, TypeOK, Entry, Key, Page
  <1>4. KeyIsOfRequest' /\ LookupsFindFresh'
    BY DEF FreshInv, KeyIsOfRequest, LookupsFindFresh
  <1>5. PagesAreFresh'
    BY <1>1, TypesOfSearch DEF FreshInv, PagesAreFresh, TypeOK, Request, Page
  <1> QED
    BY <1>2, <1>3, <1>4, <1>5 DEF FreshInv

\* A bump settles every write, under a version that no key has.
LEMMA BumpFresh ==
  ASSUME TypeOK, FreshInv, NEW w \in Workers, Bump(w)
  PROVE  FreshInv'
PROOF
  <1> USE DEF Bump, searchVars
  <1> DEFINE t == bump[w].tenant
  <1>1. /\ t \in Tenants
        /\ version' = [version EXCEPT ![t] = @ + 1]
        /\ settled' = [settled EXCEPT ![t] = index[t]]
    BY DEF TypeOK
  <1>2. \A u \in Tenants :
          /\ index[u] \in Nat /\ version[u] \in Nat /\ settled[u] \in Nat
          /\ settled[u] <= settled'[u] /\ settled'[u] <= index[u]
          /\ version[u] <= version'[u] /\ version'[u] \in Nat
          /\ version'[u] = version[u] => settled'[u] = settled[u]
    BY <1>1, QueryAssumption DEF TypeOK, FreshInv, SettledIsWritten
  <1>3. SettledIsWritten'
    BY <1>2 DEF FreshInv, SettledIsWritten, TypeOK
  <1>4. EntriesAreCurrent'
    BY <1>2 DEF FreshInv, EntriesAreCurrent, TypeOK, Entry, Key, Page
  <1>5. KeyIsOfRequest'
    BY <1>2, TypesOfSearch DEF FreshInv, KeyIsOfRequest, TypeOK, Request, Key
  <1>6. PagesAreFresh'
    BY <1>2, TypesOfSearch DEF FreshInv, PagesAreFresh, KeyIsOfRequest, TypeOK, Request, Page, Key
  <1>7. LookupsFindFresh'
    BY DEF FreshInv, LookupsFindFresh
  <1> QED
    BY <1>3, <1>4, <1>5, <1>6, <1>7 DEF FreshInv

LEMMA AttemptFresh ==
  ASSUME TypeOK, FreshInv, NEW w \in Workers, AttemptFails(w)
  PROVE  FreshInv'
  BY DEF AttemptFails, searchVars, TypeOK, FreshInv, SettledIsWritten,
         EntriesAreCurrent, KeyIsOfRequest, PagesAreFresh, LookupsFindFresh

LEMMA ExpireFresh ==
  ASSUME TypeOK, FreshInv, NEW e \in results, Expire(e)
  PROVE  FreshInv'
  BY DEF Expire, searchVars, FreshInv, SettledIsWritten,
         EntriesAreCurrent, KeyIsOfRequest, PagesAreFresh, LookupsFindFresh

LEMMA BeginFresh ==
  ASSUME TypeOK, FreshInv, NEW s \in Searches, NEW t \in Tenants, NEW q \in Queries,
         Begin(s, t, q)
  PROVE  FreshInv'
PROOF
  <1> USE DEF Begin, Goto
  <1>1. SettledIsWritten' /\ EntriesAreCurrent'
    BY DEF FreshInv, SettledIsWritten, EntriesAreCurrent
  <1>2. KeyIsOfRequest'
    BY QueryAssumption DEF FreshInv, KeyIsOfRequest, TypeOK
  <1>3. PagesAreFresh'
    BY TypesOfSearch DEF FreshInv, PagesAreFresh, TypeOK
  <1>4. LookupsFindFresh'
    BY DEF FreshInv, LookupsFindFresh, TypeOK
  <1> QED
    BY <1>1, <1>2, <1>3, <1>4 DEF FreshInv

\* What is cached under the version just read holds every settled write.
LEMMA ReadVersionFresh ==
  ASSUME TypeOK, FreshInv, NEW s \in Searches, ReadVersion(s)
  PROVE  FreshInv'
PROOF
  <1> USE DEF ReadVersion, Goto
  <1> DEFINE k == ResultKey(s, version[request[s].tenant])
  <1>1. request[s] \in Request /\ version[request[s].tenant] \in Nat
    BY TypesOfSearch DEF TypeOK, Request
  <1>2. /\ key' = [key EXCEPT ![s] = k]
        /\ k.tenant = request[s].tenant /\ k.query = request[s].query
        /\ k.version = version[k.tenant]
    BY DEF ResultKey
  <1>3. SettledIsWritten' /\ EntriesAreCurrent'
    BY DEF FreshInv, SettledIsWritten, EntriesAreCurrent
  <1>4. KeyIsOfRequest'
    BY <1>1, <1>2 DEF FreshInv, KeyIsOfRequest, TypeOK
  <1>5. PagesAreFresh'
    BY <1>2, TypesOfSearch DEF FreshInv, PagesAreFresh, TypeOK
  <1>6. settled[k.tenant] >= request[s].floor
    BY <1>1, <1>2 DEF FreshInv, KeyIsOfRequest, TypeOK, Request
  <1>7. \A e \in results : e.key = k => e.page.contents >= request[s].floor
    BY <1>1, <1>2, <1>6 DEF FreshInv, EntriesAreCurrent, TypeOK, Entry, Page, Request
  <1>8. \A r \in Searches : spc[r] = "store" /\ key[r] = k =>
          page[r].contents >= request[s].floor
    BY <1>1, <1>2, <1>6, TypesOfSearch
       DEF FreshInv, PagesAreFresh, TypeOK, Page, Request
  <1>9. LookupsFindFresh'
    BY <1>2, <1>7, <1>8 DEF FreshInv, LookupsFindFresh, TypeOK
  <1> QED
    BY <1>3, <1>4, <1>5, <1>9 DEF FreshInv

LEMMA CacheHitFresh ==
  ASSUME TypeOK, FreshInv, NEW s \in Searches, CacheHit(s)
  PROVE  FreshInv'
PROOF
  <1> USE DEF CacheHit, Goto
  <1>1. PICK e \in results : e.key = key[s] /\ page' = [page EXCEPT ![s] = e.page]
    OBVIOUS
  <1>2. SettledIsWritten' /\ EntriesAreCurrent'
    BY DEF FreshInv, SettledIsWritten, EntriesAreCurrent
  <1>3. KeyIsOfRequest'
    BY DEF FreshInv, KeyIsOfRequest, TypeOK
  <1>4. /\ e.page.tenant = request[s].tenant /\ e.page.query = request[s].query
        /\ e.page.contents >= request[s].floor
        /\ e.page.contents <= index[request[s].tenant]
    BY <1>1 DEF FreshInv, EntriesAreCurrent, KeyIsOfRequest, LookupsFindFresh
  <1>5. PagesAreFresh'
    BY <1>1, <1>4 DEF FreshInv, PagesAreFresh, TypeOK
  <1>6. LookupsFindFresh'
    BY <1>1 DEF FreshInv, LookupsFindFresh, TypeOK
  <1> QED
    BY <1>2, <1>3, <1>5, <1>6 DEF FreshInv

\* The search sees at least what was settled when it read its version.
LEMMA SearchIndexFresh ==
  ASSUME TypeOK, FreshInv, NEW s \in Searches, SearchIndex(s)
  PROVE  FreshInv'
PROOF
  <1> USE DEF SearchIndex, Goto
  <1> DEFINE p == [tenant |-> request[s].tenant, query |-> request[s].query,
                   contents |-> index[request[s].tenant]]
  <1>1. request[s] \in Request /\ key[s] \in Key /\ page' = [page EXCEPT ![s] = p]
    BY TypesOfSearch
  <1>2. SettledIsWritten' /\ EntriesAreCurrent'
    BY DEF FreshInv, SettledIsWritten, EntriesAreCurrent
  <1>3. KeyIsOfRequest'
    BY DEF FreshInv, KeyIsOfRequest, TypeOK
  <1>4. /\ p.contents \in Nat
        /\ p.contents >= settled[request[s].tenant]
        /\ p.contents <= index[request[s].tenant]
        /\ key[s].tenant = request[s].tenant
        /\ \A r \in Searches : request[r] # None /\ request[r].tenant = request[s].tenant =>
             p.contents >= request[r].floor
    BY <1>1, TypesOfSearch, QueryAssumption
       DEF FreshInv, SettledIsWritten, KeyIsOfRequest, TypeOK, Request
  <1>5. p.contents >= request[s].floor
    BY <1>1, <1>4, NoneIsNoRecord
  <1>6. PagesAreFresh'
    BY <1>1, <1>4, <1>5 DEF FreshInv, PagesAreFresh, TypeOK
  <1>7. ASSUME NEW r \in Searches, spc[r] = "lookup", key[r] = key[s]
        PROVE  p.contents >= request[r].floor
    BY <1>1, <1>4, <1>7, TypesOfSearch, NoneIsNoRecord DEF FreshInv, KeyIsOfRequest
  <1>8. LookupsFindFresh'
    BY <1>1, <1>7 DEF FreshInv, LookupsFindFresh, TypeOK
  <1> QED
    BY <1>2, <1>3, <1>6, <1>8 DEF FreshInv

LEMMA StoreResultsFresh ==
  ASSUME TypeOK, FreshInv, NEW s \in Searches, StoreResults(s)
  PROVE  FreshInv'
PROOF
  <1> USE DEF StoreResults, Goto
  <1> DEFINE n == [key |-> key[s], page |-> page[s]]
  <1>1. \A e \in results' : e \in results \/ e = n
    OBVIOUS
  <1>2. SettledIsWritten' /\ KeyIsOfRequest'
    BY DEF FreshInv, SettledIsWritten, KeyIsOfRequest, TypeOK
  <1>3. key[s] \in Key /\ page[s] \in Page /\ page[s] # None
    BY TypesOfSearch, NoneIsNoRecord
  <1>4. /\ n.page.tenant = n.key.tenant /\ n.page.query = n.key.query
        /\ n.key.version \in Nat /\ n.key.version <= version[n.key.tenant]
        /\ n.page.contents <= index[n.key.tenant]
        /\ n.key.version = version[n.key.tenant] =>
             n.page.contents >= settled[n.key.tenant]
    BY <1>3 DEF FreshInv, KeyIsOfRequest, PagesAreFresh
  <1>5. EntriesAreCurrent'
    BY <1>1, <1>4 DEF FreshInv, EntriesAreCurrent
  <1>6. PagesAreFresh'
    BY DEF FreshInv, PagesAreFresh, TypeOK
  <1>7. ASSUME NEW r \in Searches, spc[r] = "lookup", n.key = key[r]
        PROVE  n.page.contents >= request[r].floor
    BY <1>7 DEF FreshInv, LookupsFindFresh
  <1>8. LookupsFindFresh'
    BY <1>1, <1>7 DEF FreshInv, LookupsFindFresh, TypeOK
  <1> QED
    BY <1>2, <1>5, <1>6, <1>8 DEF FreshInv

LEMMA MoveFresh ==
  ASSUME TypeOK, FreshInv, NEW s \in Searches,
         CacheMiss(s) \/ Embed(s) \/ StoreFails(s)
  PROVE  FreshInv'
PROOF
  <1> USE DEF CacheMiss, Embed, StoreFails, Goto
  <1>1. SettledIsWritten' /\ EntriesAreCurrent' /\ KeyIsOfRequest'
    BY DEF FreshInv, SettledIsWritten, EntriesAreCurrent, KeyIsOfRequest, TypeOK
  <1>2. PagesAreFresh' /\ LookupsFindFresh'
    BY DEF FreshInv, PagesAreFresh, LookupsFindFresh, TypeOK
  <1> QED
    BY <1>1, <1>2 DEF FreshInv

LEMMA EndFresh ==
  ASSUME TypeOK, FreshInv, NEW s \in Searches, EndSearch(s)
  PROVE  FreshInv'
PROOF
  <1> USE DEF EndSearch, Goto
  <1>1. SettledIsWritten' /\ EntriesAreCurrent' /\ KeyIsOfRequest'
    BY DEF FreshInv, SettledIsWritten, EntriesAreCurrent, KeyIsOfRequest, TypeOK
  <1>2. PagesAreFresh' /\ LookupsFindFresh'
    BY DEF FreshInv, PagesAreFresh, LookupsFindFresh, TypeOK
  <1> QED
    BY <1>1, <1>2 DEF FreshInv

LEMMA FreshInvariant ==
  ASSUME "version" \notin Faults, "bump" \notin Faults
  PROVE  Spec => []FreshInv
PROOF
  <1>1. ASSUME TypeOK, FreshInv, [Next]_vars PROVE FreshInv'
    <2>1. ASSUME NEW s \in Searches, SearchStep(s) \/ ServiceFails(s)
          PROVE  FreshInv'
      BY <1>1, <2>1, ReadVersionFresh, CacheHitFresh, SearchIndexFresh,
         StoreResultsFresh, MoveFresh, EndFresh
         DEF SearchStep, VersionUnavailable, Return, ServiceFails
    <2>2. CASE UNCHANGED vars
      BY <1>1, <2>2 DEF vars, FreshInv, SettledIsWritten, EntriesAreCurrent,
                        KeyIsOfRequest, PagesAreFresh, LookupsFindFresh
    <2> QED
      BY <1>1, <2>1, <2>2, UpsertFresh, BumpFresh, AttemptFresh, BeginFresh, ExpireFresh
         DEF Next, BumpFails
  <1> QED
    BY <1>1, InitFresh, QueryTypeCorrect, PTL DEF Spec

-----------------------------------------------------------------------------
(* What searches promise                                                   *)

\* While the version can be read and is bumped, no answer is older than what was
\* settled when the search began.
THEOREM AnswersFresh ==
  ASSUME "version" \notin Faults, "bump" \notin Faults
  PROVE  Spec => []AnswersAreFresh
PROOF
  <1>1. FreshInv => AnswersAreFresh
    BY DEF FreshInv, PagesAreFresh, AnswersAreFresh
  <1> QED
    BY <1>1, FreshInvariant, PTL

\* Whatever fails, a page answers the request it is returned for.
MatchInv ==
  /\ \A e \in results : e.page.tenant = e.key.tenant /\ e.page.query = e.key.query
  /\ \A s \in Searches : spc[s] \in {"lookup", "embed", "search", "store"} =>
       key[s].tenant = request[s].tenant /\ key[s].query = request[s].query
  /\ AnswersTheRequest

THEOREM AnswersOfTheRequest == Spec => []AnswersTheRequest
PROOF
  <1> USE DEF AnswersTheRequest
  <1>1. Init => MatchInv
    BY DEF Init, MatchInv
  <1>2. ASSUME TypeOK, MatchInv, [Next]_vars PROVE MatchInv'
    <2>1. ASSUME NEW s \in Searches, SearchStep(s) \/ ServiceFails(s)
          PROVE  MatchInv'
      <3>1. CASE ReadVersion(s) \/ VersionUnavailable(s)
        BY <1>2, <3>1, TypesOfSearch
           DEF ReadVersion, VersionUnavailable, ResultKey, Goto, MatchInv, TypeOK
      <3>2. CASE CacheHit(s)
        BY <1>2, <3>2 DEF CacheHit, Goto, MatchInv, TypeOK
      <3>3. CASE CacheMiss(s) \/ Embed(s) \/ StoreFails(s)
        BY <1>2, <3>3 DEF CacheMiss, Embed, StoreFails, Goto, MatchInv, TypeOK
      <3>4. CASE SearchIndex(s)
        BY <1>2, <3>4 DEF SearchIndex, Goto, MatchInv, TypeOK
      <3>5. CASE StoreResults(s)
        <4>1. page[s] # None
          BY <1>2, <3>5 DEF StoreResults, TypeOK
        <4> QED
          BY <1>2, <3>5, <4>1 DEF StoreResults, Goto, MatchInv, TypeOK
      <3>6. CASE EndSearch(s)
        BY <1>2, <3>6 DEF EndSearch, Goto, MatchInv, TypeOK
      <3> QED
        BY <2>1, <3>1, <3>2, <3>3, <3>4, <3>5, <3>6 DEF SearchStep, ServiceFails, Return
    <2>2. ASSUME NEW s \in Searches, NEW t \in Tenants, NEW q \in Queries, Begin(s, t, q)
          PROVE  MatchInv'
      BY <1>2, <2>2, TypesOfSearch DEF Begin, Goto, MatchInv, TypeOK
    <2>3. ASSUME NEW e \in results, Expire(e) PROVE MatchInv'
      BY <1>2, <2>3 DEF Expire, searchVars, MatchInv
    <2>4. ASSUME UNCHANGED <<results, searchVars>> PROVE MatchInv'
      BY <1>2, <2>4 DEF searchVars, MatchInv
    <2> QED
      BY <1>2, <2>1, <2>2, <2>3, <2>4
         DEF Next, Upsert, Bump, BumpFails, AttemptFails, vars, searchVars
  <1>3. MatchInv => AnswersTheRequest
    BY DEF MatchInv
  <1> QED
    BY <1>1, <1>2, <1>3, QueryTypeCorrect, PTL DEF Spec

\* While the version can be read and is bumped, query-service implements FreshSearch: no client can
\* tell the cached search from one that always asks the index.
THEOREM CacheIsTransparent ==
  ASSUME "version" \notin Faults, "bump" \notin Faults
  PROVE  Spec => ImplementsFreshSearch
PROOF
  <1>1. Init => Fresh!Init
    BY DEF Init, Fresh!Init
  <1>2. ASSUME TypeOK, FreshInv, FreshInv', [Next]_vars
        PROVE  [Fresh!Next]_Fresh!freshVars
    <2>1. ASSUME NEW w \in Workers, NEW t \in Tenants, Upsert(w, t)
          PROVE  Fresh!Write(t)
      BY <2>1 DEF Upsert, Fresh!Write, searchVars
    <2>2. ASSUME NEW w \in Workers, Bump(w)
          PROVE  \E t \in Tenants : Fresh!Settle(t)
      <3> DEFINE t == bump[w].tenant
      <3>1. t \in Tenants /\ settled' = [settled EXCEPT ![t] = index[t]]
        BY <1>2, <2>2 DEF Bump, TypeOK
      <3>2. index[t] \in settled[t] .. index[t]
        BY <1>2, <3>1, QueryAssumption DEF FreshInv, SettledIsWritten, TypeOK
      <3> QED
        BY <2>2, <3>1, <3>2 DEF Bump, Fresh!Settle, searchVars
    <2>3. ASSUME NEW s \in Searches, NEW t \in Tenants, NEW q \in Queries, Begin(s, t, q)
          PROVE  Fresh!Begin(s, t, q)
      BY <1>2, <2>3 DEF Begin, Fresh!Begin, TypeOK
    <2>4. ASSUME NEW s \in Searches, CacheHit(s) \/ SearchIndex(s)
          PROVE  Fresh!Find(s)
      <3>1. /\ request[s] \in Request /\ page[s] = None
            /\ request' = request /\ index' = index /\ settled' = settled
        BY <1>2, <2>4, TypesOfSearch DEF CacheHit, SearchIndex
      <3>2. PICK p \in Page : page' = [page EXCEPT ![s] = p]
        <4>1. CASE CacheHit(s)
          BY <1>2, <4>1 DEF CacheHit, TypeOK, Entry
        <4>2. CASE SearchIndex(s)
          <5>1. [tenant |-> request[s].tenant, query |-> request[s].query,
                 contents |-> index[request[s].tenant]] \in Page
            BY <1>2, <3>1, QueryAssumption DEF TypeOK, Request, Page
          <5> QED
            BY <4>2, <5>1 DEF SearchIndex
        <4> QED
          BY <2>4, <4>1, <4>2
      <3>3. /\ p.tenant = request[s].tenant /\ p.query = request[s].query
            /\ p.contents >= request[s].floor
            /\ p.contents <= index[request[s].tenant]
        <4>1. page'[s] = p /\ p # None
          BY <1>2, <3>2, NoneIsNoRecord DEF TypeOK
        <4> QED
          BY <1>2, <3>1, <4>1 DEF FreshInv, PagesAreFresh
      <3>4. /\ p = [tenant |-> request[s].tenant, query |-> request[s].query,
                    contents |-> p.contents]
            /\ p.contents \in request[s].floor .. index[request[s].tenant]
        <4>1. /\ p.contents \in Nat /\ request[s].floor \in Nat
              /\ index[request[s].tenant] \in Nat
          BY <1>2, <3>1, QueryAssumption DEF Page, Request, TypeOK
        <4>2. p.contents \in request[s].floor .. index[request[s].tenant]
          BY <3>3, <4>1
        <4> QED
          BY <3>3, <4>2 DEF Page
      <3> QED
        BY <3>1, <3>2, <3>4, NoneIsNoRecord DEF Fresh!Find
    <2>5. ASSUME NEW s \in Searches, EndSearch(s), spc[s] # "idle"
          PROVE  Fresh!End(s)
      BY <1>2, <2>5 DEF EndSearch, Fresh!End, TypeOK
    <2>6. ASSUME NEW s \in Searches, SearchStep(s) \/ ServiceFails(s)
          PROVE  Fresh!Find(s) \/ Fresh!End(s) \/ UNCHANGED Fresh!freshVars
      BY <2>4, <2>5, <2>6
         DEF SearchStep, ServiceFails, Return, ReadVersion, VersionUnavailable,
             CacheMiss, Embed, StoreResults, StoreFails, Fresh!freshVars
    <2>7. CASE UNCHANGED vars
      BY <2>7 DEF vars, Fresh!freshVars
    <2>8. ASSUME NEW w \in Workers, AttemptFails(w)
          PROVE  UNCHANGED Fresh!freshVars
      BY <2>8 DEF AttemptFails, searchVars, Fresh!freshVars
    <2>9. ASSUME NEW e \in results, Expire(e)
          PROVE  UNCHANGED Fresh!freshVars
      BY <2>9 DEF Expire, searchVars, Fresh!freshVars
    <2> QED
      BY <1>2, <2>1, <2>2, <2>3, <2>6, <2>7, <2>8, <2>9
         DEF Next, BumpFails, Fresh!Next
  <1> QED
    BY <1>1, <1>2, QueryTypeCorrect, FreshInvariant, PTL
       DEF Spec, Fresh!Spec, ImplementsFreshSearch
=============================================================================
