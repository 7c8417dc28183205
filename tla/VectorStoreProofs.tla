------------------------- MODULE VectorStoreProofs -------------------------
(***************************************************************************)
(* What VectorStore promises holds for any number of worker processes,     *)
(* items, tenants and attempts, and for encoders of any sizes; what        *)
(* Listings does, for any number of items and any size of the pages; what  *)
(* Embeddings does, for any inputs of a call; what SearchPages does, for   *)
(* any points, scores and pages; what Deduplication does, for any hashes   *)
(* and thresholds.                                                         *)
(***************************************************************************)
EXTENDS VectorStore, Listings, Embeddings, SearchPages, Deduplication,
        FiniteSetTheorems, SequenceTheorems, WellFoundedInduction, TLAPS

Working(p) == ppc[p] # "idle"

\* A process at work has an item of its own, with attempts left.
OneJobEach ==
  /\ \A p \in Processes : Working(p) =>
       /\ job[p] \in Items /\ vector[p] \in Encoders
       /\ state[job[p]] = "taken" /\ attempts[job[p]] < MaxAttempts
  /\ \A p, q \in Processes : Working(p) /\ Working(q) /\ job[p] = job[q] => p = q
  /\ \A i \in Items : state[i] = "waiting" => attempts[i] < MaxAttempts
  /\ \A i \in Items : faults[i] <= attempts[i]

\* While a tenant has no collection, only faults cost attempts; afterwards one more
\* attempt may have been lost in the race for it.
AttemptsAccounted ==
  \A i \in Items : i \notin mismatched =>
    /\ attempts[i] <= faults[i] + 1
    /\ ~CollectionExists(TenantOf[i]) => attempts[i] <= faults[i]

\* Who is about to create the collection has not lost a race before.
CreatorsLostNothing ==
  \A p \in Processes :
    ppc[p] = "create" /\ job[p] \notin mismatched => attempts[job[p]] <= faults[job[p]]

DeadAreSpent == \A i \in Items : state[i] = "dead" => attempts[i] = MaxAttempts

IndexedAreStored ==
  \A i \in Items : state[i] = "indexed" => points[i] # None /\ CollectionExists(TenantOf[i])

\* What a search is measured by: items that are INDEXED, and stay so.
SearchedAreIndexed ==
  \A s \in Searches :
    /\ \A i \in found[s] : TenantOf[i] = owner[s] /\ state[i] = "indexed"
    /\ outcome[s] = "none" => answer[s] = {}
    /\ query[s] # None => outcome[s] = "none"

JobsInv == StoreTypeOK /\ OneJobEach
AccountInv == AttemptsAccounted /\ CreatorsLostNothing /\ DeadAreSpent

-----------------------------------------------------------------------------
(* Steps                                                                   *)

\* A process gives its job up; what it did to the store and to the history
\* is said apart.
GivesUp(p) == Working(p) /\ Fail(p)

LEMMA StepCases ==
  ASSUME [StoreNext]_storeVars
  PROVE  \/ \E e \in Encoders : Deploy(e)
         \/ \E p \in Processes : Restart(p)
         \/ \E p \in Processes, i \in Items : Embed(p, i)
         \/ \E p \in Processes : Ensure(p)
         \/ \E p \in Processes : Create(p)
         \/ \E p \in Processes : LoseRace(p)
         \/ \E p \in Processes : QdrantFails(p)
         \/ \E p \in Processes : Upsert(p)
         \/ \E p \in Processes : UpsertRefused(p)
         \/ \E s \in Searches, t \in Tenants : BeginSearch(s, t)
         \/ \E s \in Searches : Search(s)
         \/ UNCHANGED storeVars
  BY DEF StoreNext, ProcessStep

LEMMA Constants ==
  /\ MaxAttempts \in Nat /\ MaxAttempts >= 2
  /\ \A i \in Items : TenantOf[i] \in Tenants /\ i # None
  /\ \A e \in Encoders : SizeOf[e] \in Nat /\ SizeOf[e] # 0 /\ e # None
  BY VectorStoreAssumption

\* The job of a process, and what it is about.
LEMMA JobOf ==
  ASSUME JobsInv, NEW p \in Processes, Working(p)
  PROVE  /\ job[p] \in Items /\ vector[p] \in Encoders /\ Collection(p) \in Tenants
         /\ state[job[p]] = "taken"
         /\ attempts[job[p]] \in Nat /\ faults[job[p]] \in Nat
         /\ faults[job[p]] <= attempts[job[p]]
         /\ attempts[job[p]] + 1 \in 0 .. MaxAttempts /\ faults[job[p]] + 1 \in 0 .. MaxAttempts
  BY Constants DEF JobsInv, StoreTypeOK, OneJobEach, Collection

\* To give up is to have one attempt less, and to wait again or to be dead.
LEMMA GiveUpJobs ==
  ASSUME JobsInv, NEW p \in Processes, GivesUp(p)
  PROVE  /\ attempts' = [attempts EXCEPT ![job[p]] = @ + 1]
         /\ attempts'[job[p]] = attempts[job[p]] + 1
         /\ state' = [state EXCEPT ![job[p]] = state'[job[p]]]
         /\ \/ state'[job[p]] = "waiting" /\ attempts'[job[p]] < MaxAttempts
            \/ state'[job[p]] = "dead" /\ attempts'[job[p]] = MaxAttempts
         /\ ppc' = [ppc EXCEPT ![p] = "idle"]
         /\ job' = [job EXCEPT ![p] = None]
         /\ vector' = [vector EXCEPT ![p] = None]
         /\ UNCHANGED <<encoder, ensured, searchVars>>
  <1>1. /\ job[p] \in Items /\ attempts[job[p]] \in Nat
        /\ attempts[job[p]] + 1 \in 0 .. MaxAttempts
    BY JobOf DEF GivesUp
  <1>2. /\ attempts' = [attempts EXCEPT ![job[p]] = @ + 1]
        /\ attempts'[job[p]] = attempts[job[p]] + 1
    BY <1>1 DEF GivesUp, Fail, JobsInv, StoreTypeOK
  <1>3. state' = [state EXCEPT ![job[p]] =
                   IF attempts[job[p]] + 1 < MaxAttempts THEN "waiting" ELSE "dead"]
    BY DEF GivesUp, Fail
  <1>4. state'[job[p]] = IF attempts[job[p]] + 1 < MaxAttempts THEN "waiting" ELSE "dead"
    BY <1>1, <1>3 DEF JobsInv, StoreTypeOK
  <1>5. state' = [state EXCEPT ![job[p]] = state'[job[p]]]
    BY <1>3, <1>4
  <1>6. \/ state'[job[p]] = "waiting" /\ attempts'[job[p]] < MaxAttempts
        \/ state'[job[p]] = "dead" /\ attempts'[job[p]] = MaxAttempts
    BY <1>1, <1>2, <1>4, Constants
  <1> QED BY <1>2, <1>5, <1>6 DEF GivesUp, Fail, EndJob

LEMMA WhoGivesUp ==
  ASSUME NEW p \in Processes
  PROVE  LoseRace(p) \/ QdrantFails(p) \/ UpsertRefused(p) => GivesUp(p)
  BY DEF LoseRace, QdrantFails, UpsertRefused, GivesUp, Working

-----------------------------------------------------------------------------
(* Types and jobs                                                          *)

LEMMA InitJobs == StoreInit => JobsInv
  BY Constants DEF StoreInit, JobsInv, StoreTypeOK, OneJobEach, Working

\* Giving up keeps the jobs in order, whatever happens to the store.
LEMMA GiveUpKeepsJobs ==
  ASSUME JobsInv, NEW p \in Processes, GivesUp(p),
         size' \in [Tenants -> Nat], points' \in [Items -> Encoders \cup {None}],
         mismatched' \subseteq Items,
         faults' = faults \/ faults' = [faults EXCEPT ![job[p]] = @ + 1]
  PROVE  JobsInv'
  <1> USE DEF JobsInv
  <1>1. /\ job[p] \in Items
        /\ attempts[job[p]] \in Nat /\ faults[job[p]] \in Nat /\ faults[job[p]] <= attempts[job[p]]
        /\ attempts[job[p]] + 1 \in 0 .. MaxAttempts /\ faults[job[p]] + 1 \in 0 .. MaxAttempts
    BY JobOf DEF GivesUp
  <1>2. StoreTypeOK'
    <2>1. /\ attempts' \in [Items -> 0 .. MaxAttempts]
          /\ faults' \in [Items -> 0 .. MaxAttempts]
      BY <1>1, GiveUpJobs DEF StoreTypeOK
    <2>2. state' \in [Items -> {"waiting", "taken", "indexed", "dead"}]
      BY <1>1, GiveUpJobs DEF StoreTypeOK
    <2>3. /\ ppc' \in [Processes -> {"idle", "ensure", "create", "upsert"}]
          /\ job' \in [Processes -> Items \cup {None}]
          /\ vector' \in [Processes -> Encoders \cup {None}]
      <3>1. /\ ppc' = [ppc EXCEPT ![p] = "idle"]
            /\ job' = [job EXCEPT ![p] = None]
            /\ vector' = [vector EXCEPT ![p] = None]
        BY GiveUpJobs
      <3> QED BY <3>1 DEF StoreTypeOK
    <2>4. UNCHANGED <<encoder, ensured, query, owner, found, outcome, answer>>
      BY GiveUpJobs DEF searchVars
    <2> QED BY <2>1, <2>2, <2>3, <2>4 DEF StoreTypeOK
  <1>3. ASSUME NEW q \in Processes, Working(q)'
        PROVE  /\ q # p /\ Working(q) /\ job'[q] = job[q] /\ vector'[q] = vector[q]
               /\ job[q] # job[p]
    BY <1>3, GiveUpJobs DEF StoreTypeOK, OneJobEach, Working, GivesUp
  <1>4. ASSUME NEW i \in Items, i # job[p]
        PROVE  attempts'[i] = attempts[i] /\ faults'[i] = faults[i] /\ state'[i] = state[i]
    BY <1>4, GiveUpJobs DEF StoreTypeOK
  <1>5. faults'[job[p]] <= attempts'[job[p]]
    BY <1>1, GiveUpJobs DEF StoreTypeOK
  <1> QED BY <1>1, <1>2, <1>3, <1>4, <1>5, GiveUpJobs DEF OneJobEach

LEMMA StepJobs == JobsInv /\ [StoreNext]_storeVars => JobsInv'
  <1> SUFFICES ASSUME JobsInv, [StoreNext]_storeVars PROVE JobsInv'
    OBVIOUS
  <1> USE DEF JobsInv, processVars, jobVars, searchVars
  <1>1. ASSUME NEW e \in Encoders, Deploy(e)
        PROVE  JobsInv'
    BY <1>1 DEF Deploy, StoreTypeOK, OneJobEach, Working
  <1>2. ASSUME NEW p \in Processes, Restart(p)
        PROVE  JobsInv'
    BY <1>2 DEF Restart, StoreTypeOK, OneJobEach, Working
  <1>3. ASSUME NEW p \in Processes, NEW i \in Items, Embed(p, i)
        PROVE  JobsInv'
    <2>1. StoreTypeOK'
      BY <1>3 DEF Embed, StoreTypeOK
    <2>2. ASSUME NEW q \in Processes, Working(q)'
          PROVE  (q # p /\ Working(q) /\ job'[q] = job[q] /\ vector'[q] = vector[q] /\ job[q] # i)
                   \/ (q = p /\ job'[q] = i /\ vector'[q] = encoder)
      BY <1>3, <2>2 DEF Embed, StoreTypeOK, OneJobEach, Working
    <2>3. state'[i] = "taken" /\ \A j \in Items \ {i} : state'[j] = state[j]
      BY <1>3 DEF Embed, StoreTypeOK
    <2>4. attempts[i] < MaxAttempts /\ encoder \in Encoders
      BY <1>3 DEF Embed, OneJobEach, StoreTypeOK
    <2> QED BY <1>3, <2>1, <2>2, <2>3, <2>4 DEF Embed, OneJobEach
  <1>4. ASSUME NEW p \in Processes, Ensure(p)
        PROVE  JobsInv'
    <2>1. Working(p) /\ Collection(p) \in Tenants
      BY <1>4, JobOf DEF Ensure, Working
    <2>2. StoreTypeOK'
      BY <1>4, <2>1 DEF Ensure, StoreTypeOK
    <2>3. \A q \in Processes : Working(q)' <=> Working(q)
      BY <1>4 DEF Ensure, StoreTypeOK, Working
    <2> QED BY <1>4, <2>2, <2>3 DEF Ensure, OneJobEach
  <1>5. ASSUME NEW p \in Processes, Create(p)
        PROVE  JobsInv'
    <2>1. Working(p) /\ Collection(p) \in Tenants /\ SizeOf[vector[p]] \in Nat
      BY <1>5, JobOf, Constants DEF Create, Working
    <2>2. StoreTypeOK'
      BY <1>5, <2>1 DEF Create, Made, StoreTypeOK
    <2>3. \A q \in Processes : Working(q)' <=> Working(q)
      BY <1>5 DEF Create, StoreTypeOK, Working
    <2> QED BY <1>5, <2>2, <2>3 DEF Create, OneJobEach
  <1>6. ASSUME NEW p \in Processes, LoseRace(p)
        PROVE  JobsInv'
    BY <1>6, WhoGivesUp, GiveUpKeepsJobs DEF LoseRace, StoreTypeOK
  <1>7. ASSUME NEW p \in Processes, QdrantFails(p)
        PROVE  JobsInv'
    <2>1. /\ GivesUp(p) /\ job[p] \in Items /\ vector[p] \in Encoders
          /\ Collection(p) \in Tenants /\ SizeOf[vector[p]] \in Nat
      BY <1>7, WhoGivesUp, JobOf, Constants DEF GivesUp
    <2>2. size' \in [Tenants -> Nat] /\ points' \in [Items -> Encoders \cup {None}]
      BY <1>7, <2>1 DEF QdrantFails, Made, Stored, StoreTypeOK
    <2> QED BY <1>7, <2>1, <2>2, GiveUpKeepsJobs DEF QdrantFails, StoreTypeOK
  <1>8. ASSUME NEW p \in Processes, Upsert(p)
        PROVE  JobsInv'
    <2>1. Working(p) /\ job[p] \in Items /\ vector[p] \in Encoders
      BY <1>8, JobOf DEF Upsert, Working
    <2>2. StoreTypeOK'
      BY <1>8, <2>1 DEF Upsert, Stored, EndJob, StoreTypeOK
    <2>3. ASSUME NEW q \in Processes, Working(q)'
          PROVE  /\ q # p /\ Working(q) /\ job'[q] = job[q] /\ vector'[q] = vector[q]
                 /\ job[q] # job[p]
      BY <1>8, <2>1, <2>3 DEF Upsert, EndJob, StoreTypeOK, OneJobEach, Working
    <2>4. /\ state'[job[p]] = "indexed"
          /\ \A i \in Items \ {job[p]} : state'[i] = state[i]
      BY <1>8, <2>1 DEF Upsert, StoreTypeOK
    <2> QED BY <1>8, <2>2, <2>3, <2>4 DEF Upsert, OneJobEach
  <1>9. ASSUME NEW p \in Processes, UpsertRefused(p)
        PROVE  JobsInv'
    <2>1. GivesUp(p) /\ job[p] \in Items
      BY <1>9, WhoGivesUp, JobOf DEF GivesUp
    <2> QED BY <1>9, <2>1, GiveUpKeepsJobs DEF UpsertRefused, StoreTypeOK
  <1>10. ASSUME NEW s \in Searches, NEW t \in Tenants, BeginSearch(s, t)
         PROVE  JobsInv'
    BY <1>10 DEF BeginSearch, StoreTypeOK, OneJobEach, Working
  <1>11. ASSUME NEW s \in Searches, Search(s)
         PROVE  JobsInv'
    BY <1>11 DEF Search, PointsOf, StoreTypeOK, OneJobEach, Working
  <1>12. CASE UNCHANGED storeVars
    BY <1>12 DEF storeVars, StoreTypeOK, OneJobEach, Working
  <1> QED BY <1>1, <1>2, <1>3, <1>4, <1>5, <1>6, <1>7, <1>8, <1>9, <1>10, <1>11, <1>12,
             StepCases

-----------------------------------------------------------------------------
(* Attempts                                                                *)

LEMMA InitAccount == StoreInit => AccountInv
  BY Constants
     DEF StoreInit, AccountInv, AttemptsAccounted, CreatorsLostNothing, DeadAreSpent

\* Collections are never dropped.
LEMMA CollectionsStay ==
  ASSUME JobsInv, [StoreNext]_storeVars, NEW t \in Tenants, CollectionExists(t)
  PROVE  CollectionExists(t)'
  <1> USE DEF CollectionExists, JobsInv, StoreTypeOK
  <1>1. ASSUME NEW p \in Processes, Working(p), Made(p)
        PROVE  CollectionExists(t)'
    BY <1>1, JobOf, Constants DEF Made
  <1>2. ASSUME NEW p \in Processes, Create(p) \/ QdrantFails(p)
        PROVE  CollectionExists(t)'
    BY <1>1, <1>2 DEF Create, QdrantFails, Working
  <1>3. ASSUME NEW p \in Processes,
               Restart(p) \/ (\E i \in Items : Embed(p, i)) \/ Ensure(p) \/ LoseRace(p)
                 \/ Upsert(p) \/ UpsertRefused(p)
        PROVE  CollectionExists(t)'
    BY <1>3 DEF Restart, Embed, Ensure, LoseRace, Upsert, UpsertRefused
  <1>4. CASE \/ \E e \in Encoders : Deploy(e)
             \/ \E s \in Searches, u \in Tenants : BeginSearch(s, u)
             \/ \E s \in Searches : Search(s)
             \/ UNCHANGED storeVars
    BY <1>4 DEF Deploy, BeginSearch, Search, storeVars
  <1> QED BY <1>2, <1>3, <1>4, StepCases

\* An attempt that met a fault is counted twice, one that lost the race once: the
\* collection is there by then.
LEMMA GiveUpKeepsAccount ==
  ASSUME JobsInv, JobsInv', AccountInv, [StoreNext]_storeVars,
         NEW p \in Processes, GivesUp(p),
         \/ faults' = [faults EXCEPT ![job[p]] = @ + 1] /\ mismatched' = mismatched
         \/ /\ faults' = faults /\ mismatched' = mismatched
            /\ ppc[p] = "create" /\ CollectionExists(Collection(p))
         \/ faults' = faults /\ mismatched' = mismatched \cup {job[p]}
  PROVE  AccountInv'
  <1>1. /\ job[p] \in Items /\ Collection(p) \in Tenants
        /\ attempts[job[p]] \in Nat /\ faults[job[p]] \in Nat
    BY JobOf DEF GivesUp
  <1>2. /\ attempts'[job[p]] = attempts[job[p]] + 1
        /\ \A i \in Items \ {job[p]} : attempts'[i] = attempts[i] /\ state'[i] = state[i]
    BY GiveUpJobs DEF JobsInv, StoreTypeOK
  <1>3. /\ \A i \in Items \ {job[p]} : faults'[i] = faults[i]
        /\ \A i \in Items \ {job[p]} : i \in mismatched' <=> i \in mismatched
        /\ \/ faults'[job[p]] = faults[job[p]] + 1
              /\ (job[p] \in mismatched' <=> job[p] \in mismatched)
           \/ /\ faults'[job[p]] = faults[job[p]]
              /\ (job[p] \in mismatched' <=> job[p] \in mismatched)
              /\ ppc[p] = "create" /\ CollectionExists(Collection(p))
           \/ job[p] \in mismatched'
    BY <1>1 DEF JobsInv, StoreTypeOK
  <1>4. \A t \in Tenants : CollectionExists(t) => CollectionExists(t)'
    BY CollectionsStay
  <1>5. AttemptsAccounted'
    <2>1. ASSUME NEW i \in Items, i \notin mismatched', i # job[p]
          PROVE  /\ attempts'[i] <= faults'[i] + 1
                 /\ ~CollectionExists(TenantOf[i])' => attempts'[i] <= faults'[i]
      BY <1>2, <1>3, <1>4, <2>1, Constants DEF AccountInv, AttemptsAccounted
    <2>2. ASSUME NEW i \in Items, i \notin mismatched', i = job[p]
          PROVE  /\ attempts'[i] <= faults'[i] + 1
                 /\ ~CollectionExists(TenantOf[i])' => attempts'[i] <= faults'[i]
      <3>1. CASE faults'[i] = faults[i] + 1 /\ i \notin mismatched
        BY <1>1, <1>2, <1>4, <2>2, <3>1, Constants DEF AccountInv, AttemptsAccounted
      <3>2. CASE /\ faults'[i] = faults[i] /\ i \notin mismatched
                 /\ ppc[p] = "create" /\ CollectionExists(Collection(p))
        <4>1. attempts[i] <= faults[i]
          BY <2>2, <3>2 DEF AccountInv, CreatorsLostNothing
        <4>2. CollectionExists(TenantOf[i])'
          BY <1>1, <1>4, <2>2, <3>2 DEF Collection
        <4> QED BY <1>1, <1>2, <2>2, <3>2, <4>1, <4>2
      <3> QED BY <1>3, <2>2, <3>1, <3>2
    <2> QED BY <2>1, <2>2 DEF AttemptsAccounted
  <1>6. CreatorsLostNothing'
    <2>1. ASSUME NEW q \in Processes, ppc'[q] = "create"
          PROVE  ppc[q] = "create" /\ job'[q] = job[q] /\ job[q] \in Items /\ job[q] # job[p]
      BY <2>1, GiveUpJobs DEF JobsInv, StoreTypeOK, OneJobEach, Working, GivesUp
    <2> QED BY <1>2, <1>3, <2>1 DEF AccountInv, CreatorsLostNothing
  <1>7. DeadAreSpent'
    BY <1>1, <1>2, GiveUpJobs DEF AccountInv, DeadAreSpent
  <1> QED BY <1>5, <1>6, <1>7 DEF AccountInv

LEMMA StepAccount == JobsInv /\ AccountInv /\ [StoreNext]_storeVars => AccountInv'
  <1> SUFFICES ASSUME JobsInv, AccountInv, [StoreNext]_storeVars PROVE AccountInv'
    OBVIOUS
  <1> USE DEF processVars, jobVars, searchVars
  <1>0. JobsInv' /\ \A t \in Tenants : CollectionExists(t) => CollectionExists(t)'
    BY StepJobs, CollectionsStay
  \* Steps that count nothing, and bring nobody to create.
  <1>1. ASSUME UNCHANGED <<attempts, faults, mismatched>>,
               \A i \in Items : state'[i] = "dead" => state[i] = "dead",
               \A p \in Processes : ppc'[p] = "create" => ppc[p] = "create" /\ job'[p] = job[p]
        PROVE  AccountInv'
    BY <1>0, <1>1, Constants
       DEF AccountInv, AttemptsAccounted, CreatorsLostNothing, DeadAreSpent
  <1>2. ASSUME NEW p \in Processes, Restart(p) \/ Upsert(p) \/ Create(p)
                 \/ \E i \in Items : Embed(p, i)
        PROVE  AccountInv'
    BY <1>1, <1>2 DEF Restart, Upsert, Create, Embed, EndJob, JobsInv, StoreTypeOK
  <1>3. ASSUME NEW p \in Processes, Ensure(p)
        PROVE  AccountInv'
    <2>1. job[p] \in Items /\ Collection(p) \in Tenants
      BY <1>3, JobOf DEF Ensure, Working
    <2>2. /\ UNCHANGED <<attempts, faults, mismatched, state, size, job>>
          /\ \A q \in Processes \ {p} : ppc'[q] = ppc[q]
          /\ ppc'[p] = "create" => ~CollectionExists(Collection(p))
      BY <1>3 DEF Ensure, JobsInv, StoreTypeOK
    <2>3. CreatorsLostNothing'
      BY <2>1, <2>2 DEF AccountInv, CreatorsLostNothing, AttemptsAccounted, Collection
    <2> QED BY <2>2, <2>3 DEF AccountInv, AttemptsAccounted, DeadAreSpent, CollectionExists
  <1>4. ASSUME NEW p \in Processes, LoseRace(p)
        PROVE  AccountInv'
    BY <1>0, <1>4, WhoGivesUp, GiveUpKeepsAccount DEF LoseRace
  <1>5. ASSUME NEW p \in Processes, QdrantFails(p)
        PROVE  AccountInv'
    BY <1>0, <1>5, WhoGivesUp, GiveUpKeepsAccount DEF QdrantFails
  <1>6. ASSUME NEW p \in Processes, UpsertRefused(p)
        PROVE  AccountInv'
    BY <1>0, <1>6, WhoGivesUp, GiveUpKeepsAccount DEF UpsertRefused
  <1>7. CASE \/ \E e \in Encoders : Deploy(e)
             \/ \E s \in Searches, u \in Tenants : BeginSearch(s, u)
             \/ \E s \in Searches : Search(s)
             \/ UNCHANGED storeVars
    BY <1>1, <1>7 DEF Deploy, BeginSearch, Search, storeVars
  <1> QED BY <1>2, <1>3, <1>4, <1>5, <1>6, <1>7, StepCases

\* The race for a collection costs a job one attempt, for any number of workers:
\* attempts are accounted for by faults and by one lost race, until a collection of
\* another size is met.
THEOREM OneAttemptForTheRace == StoreSpec => []LostRaceCostsOneAttempt
  <1>1. JobsInv /\ AccountInv => LostRaceCostsOneAttempt
    BY Constants
       DEF JobsInv, StoreTypeOK, AccountInv, AttemptsAccounted, DeadAreSpent,
           LostRaceCostsOneAttempt
  <1> QED BY <1>1, InitJobs, InitAccount, StepJobs, StepAccount, PTL DEF StoreSpec

-----------------------------------------------------------------------------
(* What processes remember                                                 *)

LEMMA StepEnsured == JobsInv /\ EnsuredExists /\ [StoreNext]_storeVars => EnsuredExists'
  <1> SUFFICES ASSUME JobsInv, EnsuredExists, [StoreNext]_storeVars PROVE EnsuredExists'
    OBVIOUS
  <1> USE DEF processVars, jobVars, searchVars
  <1>0. \A t \in Tenants : CollectionExists(t) => CollectionExists(t)'
    BY CollectionsStay
  <1>1. ASSUME \A p \in Processes : ensured'[p] \subseteq ensured[p],
               \A p \in Processes : ppc'[p] = "upsert" => ppc[p] = "upsert" /\ job'[p] = job[p]
        PROVE  EnsuredExists'
    <2>1. ASSUME NEW p \in Processes, NEW t \in ensured'[p]
          PROVE  CollectionExists(t)'
      BY <1>0, <1>1 DEF EnsuredExists, JobsInv, StoreTypeOK
    <2>2. ASSUME NEW p \in Processes, ppc'[p] = "upsert"
          PROVE  CollectionExists(TenantOf[job[p]])' /\ job'[p] = job[p]
      <3>1. ppc[p] = "upsert" /\ job'[p] = job[p]
        BY <1>1, <2>2
      <3>2. Collection(p) \in Tenants /\ CollectionExists(Collection(p))
        BY <3>1, JobOf DEF Working, EnsuredExists
      <3> QED BY <1>0, <3>1, <3>2 DEF Collection, CollectionExists
    <2> QED BY <2>1, <2>2 DEF EnsuredExists, Collection, CollectionExists
  <1>2. ASSUME NEW p \in Processes, Restart(p) \/ Upsert(p) \/ \E i \in Items : Embed(p, i)
        PROVE  EnsuredExists'
    BY <1>1, <1>2 DEF Restart, Upsert, Embed, EndJob, JobsInv, StoreTypeOK
  <1>3. ASSUME NEW p \in Processes, GivesUp(p)
        PROVE  EnsuredExists'
    <2>1. ensured' = ensured /\ ppc' = [ppc EXCEPT ![p] = "idle"] /\ job' = [job EXCEPT ![p] = None]
      BY <1>3, GiveUpJobs
    <2> QED BY <1>1, <2>1 DEF JobsInv, StoreTypeOK
  \* A process comes to the upsert with the collection found, or made.
  <1>4. ASSUME NEW p \in Processes, Working(p), CollectionExists(Collection(p))', job' = job,
               \A q \in Processes \ {p} : ppc'[q] = ppc[q] /\ ensured'[q] = ensured[q],
               ensured'[p] \subseteq ensured[p] \cup {Collection(p)}
        PROVE  EnsuredExists'
    <2>1. Collection(p)' = Collection(p)
      BY <1>4 DEF Collection
    <2>2. ASSUME NEW q \in Processes, NEW t \in ensured'[q]
          PROVE  CollectionExists(t)'
      BY <1>0, <1>4, <2>1 DEF EnsuredExists, JobsInv, StoreTypeOK, CollectionExists
    <2>3. ASSUME NEW q \in Processes \ {p}, ppc'[q] = "upsert"
          PROVE  CollectionExists(TenantOf[job[q]])'
      <3>1. Collection(q) \in Tenants /\ CollectionExists(Collection(q))
        BY <1>4, <2>3, JobOf DEF Working, EnsuredExists
      <3> QED BY <1>0, <1>4, <3>1 DEF Collection, CollectionExists
    <2> QED BY <1>4, <2>2, <2>3 DEF EnsuredExists, Collection, CollectionExists
  <1>5. ASSUME NEW p \in Processes, Ensure(p)
        PROVE  EnsuredExists'
    <2>1. Working(p) /\ Collection(p) \in Tenants
      BY <1>5, JobOf DEF Ensure, Working
    <2>2. CASE Ensured(p) \/ CollectionExists(Collection(p))
      <3>1. CollectionExists(Collection(p))
        BY <2>2 DEF Ensured, EnsuredExists
      <3>2. /\ ensured' = [ensured EXCEPT ![p] = @ \cup {Collection(p)}]
            /\ ppc' = [ppc EXCEPT ![p] = "upsert"]
            /\ UNCHANGED <<size, job>>
        BY <1>5, <2>2 DEF Ensure
      <3>3. CollectionExists(Collection(p))'
        BY <3>1, <3>2 DEF CollectionExists, Collection
      <3> QED BY <1>4, <2>1, <3>2, <3>3 DEF JobsInv, StoreTypeOK
    <2>3. CASE ~(Ensured(p) \/ CollectionExists(Collection(p)))
      <3>1. ensured' = ensured /\ ppc' = [ppc EXCEPT ![p] = "create"] /\ job' = job
        BY <1>5, <2>3 DEF Ensure
      <3> QED BY <1>1, <3>1 DEF JobsInv, StoreTypeOK
    <2> QED BY <2>2, <2>3
  <1>6. ASSUME NEW p \in Processes, Create(p)
        PROVE  EnsuredExists'
    <2>1. /\ Working(p) /\ Collection(p) \in Tenants
          /\ SizeOf[vector[p]] \in Nat /\ SizeOf[vector[p]] # 0
      BY <1>6, JobOf, Constants DEF Create, Working
    <2>2. /\ size' = [size EXCEPT ![Collection(p)] = SizeOf[vector[p]]]
          /\ ensured' = [ensured EXCEPT ![p] = @ \cup {Collection(p)}]
          /\ ppc' = [ppc EXCEPT ![p] = "upsert"]
          /\ job' = job
      BY <1>6 DEF Create, Made
    <2>3. CollectionExists(Collection(p))'
      BY <2>1, <2>2 DEF CollectionExists, Collection, JobsInv, StoreTypeOK
    <2> QED BY <1>4, <2>1, <2>2, <2>3 DEF JobsInv, StoreTypeOK
  <1>7. CASE \/ \E e \in Encoders : Deploy(e)
             \/ \E s \in Searches, u \in Tenants : BeginSearch(s, u)
             \/ \E s \in Searches : Search(s)
             \/ UNCHANGED storeVars
    BY <1>1, <1>7 DEF Deploy, BeginSearch, Search, storeVars
  <1> QED BY <1>2, <1>3, <1>5, <1>6, <1>7, StepCases, WhoGivesUp

\* No process writes to a collection that is not there, whoever created it.
THEOREM RememberedCollectionsExist == StoreSpec => []EnsuredExists
  <1>1. StoreInit => EnsuredExists
    BY DEF StoreInit, EnsuredExists
  <1> QED BY <1>1, InitJobs, StepJobs, StepEnsured, PTL DEF StoreSpec

-----------------------------------------------------------------------------
(* Searches                                                                *)

SearchInv == IndexedAreStored /\ SearchedAreIndexed /\ SearchesFindTheTenants

LEMMA InitSearch == StoreInit => SearchInv
  BY DEF StoreInit, SearchInv, IndexedAreStored, SearchedAreIndexed, SearchesFindTheTenants

\* INDEXED items stay INDEXED, and stay in the store.
LEMMA StepStored ==
  ASSUME JobsInv, EnsuredExists, IndexedAreStored, [StoreNext]_storeVars
  PROVE  /\ IndexedAreStored'
         /\ \A i \in Items : state[i] = "indexed" => state'[i] = "indexed"
  <1> USE DEF processVars, jobVars, searchVars
  <1>0. \A t \in Tenants : CollectionExists(t) => CollectionExists(t)'
    BY CollectionsStay
  <1>1. ASSUME \A i \in Items : points[i] # None => points'[i] # None,
               \A i \in Items : state[i] = "indexed" => state'[i] = "indexed",
               \A i \in Items : state'[i] = "indexed" =>
                 state[i] = "indexed" \/ (points'[i] # None /\ CollectionExists(TenantOf[i]))
        PROVE  /\ IndexedAreStored'
               /\ \A i \in Items : state[i] = "indexed" => state'[i] = "indexed"
    BY <1>0, <1>1, Constants DEF IndexedAreStored
  <1>2. ASSUME NEW p \in Processes, NEW i \in Items, Embed(p, i)
        PROVE  /\ IndexedAreStored'
               /\ \A j \in Items : state[j] = "indexed" => state'[j] = "indexed"
    BY <1>1, <1>2 DEF Embed, JobsInv, StoreTypeOK
  <1>3. ASSUME NEW p \in Processes, GivesUp(p), points' = points \/ Stored(p)
        PROVE  /\ IndexedAreStored'
               /\ \A i \in Items : state[i] = "indexed" => state'[i] = "indexed"
    <2>1. /\ job[p] \in Items /\ vector[p] # None /\ state[job[p]] = "taken"
      BY <1>3, JobOf, Constants DEF GivesUp
    <2>2. /\ state'[job[p]] # "indexed"
          /\ \A i \in Items \ {job[p]} : state'[i] = state[i]
      BY <1>3, GiveUpJobs DEF JobsInv, StoreTypeOK
    <2>3. \A i \in Items : points[i] # None => points'[i] # None
      BY <1>3, <2>1 DEF Stored, JobsInv, StoreTypeOK
    <2> QED BY <1>1, <2>1, <2>2, <2>3
  <1>4. ASSUME NEW p \in Processes, LoseRace(p) \/ QdrantFails(p) \/ UpsertRefused(p)
        PROVE  /\ IndexedAreStored'
               /\ \A i \in Items : state[i] = "indexed" => state'[i] = "indexed"
    BY <1>3, <1>4, WhoGivesUp DEF LoseRace, QdrantFails, UpsertRefused
  <1>5. ASSUME NEW p \in Processes, Upsert(p)
        PROVE  /\ IndexedAreStored'
               /\ \A i \in Items : state[i] = "indexed" => state'[i] = "indexed"
    <2>1. job[p] \in Items /\ vector[p] # None /\ Working(p) /\ Collection(p) = TenantOf[job[p]]
      BY <1>5, JobOf, Constants DEF Upsert, Working, Collection
    <2>2. CollectionExists(TenantOf[job[p]])
      BY <1>5, <2>1 DEF Upsert, EnsuredExists
    <2>3. /\ state'[job[p]] = "indexed" /\ points'[job[p]] # None
          /\ \A i \in Items \ {job[p]} : state'[i] = state[i] /\ points'[i] = points[i]
      BY <1>5, <2>1 DEF Upsert, Stored, JobsInv, StoreTypeOK
    <2> QED BY <1>1, <2>2, <2>3
  <1>6. CASE \/ \E p \in Processes : Restart(p) \/ Ensure(p) \/ Create(p)
             \/ \E e \in Encoders : Deploy(e)
             \/ \E s \in Searches, u \in Tenants : BeginSearch(s, u)
             \/ \E s \in Searches : Search(s)
             \/ UNCHANGED storeVars
    BY <1>1, <1>6 DEF Restart, Ensure, Create, Deploy, BeginSearch, Search, storeVars
  <1> QED BY <1>2, <1>4, <1>5, <1>6, StepCases

LEMMA StepSearch ==
  JobsInv /\ EnsuredExists /\ SearchInv /\ [StoreNext]_storeVars => SearchInv'
  <1> SUFFICES ASSUME JobsInv, EnsuredExists, SearchInv, [StoreNext]_storeVars
               PROVE  SearchInv'
    OBVIOUS
  <1> USE DEF processVars, jobVars, searchVars
  <1>0. /\ IndexedAreStored'
        /\ \A i \in Items : state[i] = "indexed" => state'[i] = "indexed"
    BY StepStored DEF SearchInv
  <1>1. \A s \in Searches : found[s] \subseteq Items
    BY DEF JobsInv, StoreTypeOK
  <1>2. ASSUME UNCHANGED searchVars
        PROVE  SearchInv'
    BY <1>0, <1>1, <1>2 DEF SearchInv, SearchedAreIndexed, SearchesFindTheTenants
  <1>3. ASSUME NEW s \in Searches, NEW t \in Tenants, BeginSearch(s, t)
        PROVE  SearchInv'
    <2>1. /\ outcome[s] = "none" /\ answer[s] = {} /\ outcome' = outcome /\ answer' = answer
          /\ owner'[s] = t /\ found'[s] = {i \in Items : TenantOf[i] = t /\ state[i] = "indexed"}
          /\ \A u \in Searches \ {s} :
               query'[u] = query[u] /\ owner'[u] = owner[u] /\ found'[u] = found[u]
          /\ state' = state
      BY <1>3 DEF BeginSearch, SearchInv, SearchedAreIndexed, JobsInv, StoreTypeOK
    <2>2. SearchedAreIndexed'
      BY <2>1 DEF SearchInv, SearchedAreIndexed
    <2>3. SearchesFindTheTenants'
      BY <2>1 DEF SearchInv, SearchesFindTheTenants
    <2> QED BY <1>0, <2>2, <2>3 DEF SearchInv
  <1>4. ASSUME NEW s \in Searches, Search(s)
        PROVE  SearchInv'
    <2>1. /\ query'[s] = None /\ owner' = owner /\ found' = found /\ state' = state
          /\ \A u \in Searches \ {s} :
               query'[u] = query[u] /\ outcome'[u] = outcome[u] /\ answer'[u] = answer[u]
          /\ outcome'[s] \in {"missing", "refused", "answered"}
          /\ outcome'[s] = "missing" => ~CollectionExists(owner[s])
          /\ answer'[s] = IF outcome'[s] = "answered" THEN PointsOf(owner[s]) ELSE {}
      BY <1>4 DEF Search, JobsInv, StoreTypeOK
    <2>2. outcome'[s] # "none"
      BY <2>1
    <2>3. SearchedAreIndexed'
      BY <2>1, <2>2 DEF SearchInv, SearchedAreIndexed
    <2>4. ASSUME NEW i \in found[s]
          PROVE  i \in PointsOf(owner[s]) /\ CollectionExists(owner[s])
      BY <1>1 DEF SearchInv, SearchedAreIndexed, IndexedAreStored, PointsOf
    <2>5. SearchesFindTheTenants'
      BY <2>1, <2>4 DEF SearchInv, SearchesFindTheTenants, PointsOf
    <2> QED BY <1>0, <2>3, <2>5 DEF SearchInv
  <1>5. ASSUME NEW p \in Processes, GivesUp(p)
        PROVE  SearchInv'
    BY <1>2, <1>5, GiveUpJobs
  <1>6. CASE \/ \E p \in Processes : Restart(p) \/ Ensure(p) \/ Create(p) \/ Upsert(p)
             \/ \E p \in Processes, i \in Items : Embed(p, i)
             \/ \E e \in Encoders : Deploy(e)
             \/ UNCHANGED storeVars
    BY <1>2, <1>6 DEF Restart, Ensure, Create, Upsert, Embed, Deploy, storeVars
  <1> QED BY <1>3, <1>4, <1>5, <1>6, StepCases, WhoGivesUp

\* A search that is answered has what was INDEXED when it began, of its own tenant
\* only; one that finds no collection had nothing to find.
THEOREM SearchesFind == StoreSpec => []SearchesFindTheTenants
  <1> DEFINE Inv == JobsInv /\ EnsuredExists /\ SearchInv
  <1>1. StoreInit => Inv
    BY InitJobs, InitSearch DEF StoreInit, EnsuredExists
  <1>2. Inv /\ [StoreNext]_storeVars => Inv'
    BY StepJobs, StepEnsured, StepSearch
  <1>3. Inv => SearchesFindTheTenants
    BY DEF SearchInv
  <1> QED BY <1>1, <1>2, <1>3, PTL DEF StoreSpec

-----------------------------------------------------------------------------
(* Numbers                                                                 *)

\* Every set of numbers has a least one.
LEMMA LessIsWellFounded ==
  IsWellFoundedOn({p \in Nat \X Nat : p[1] < p[2]}, Nat)
  BY NatLessThanWellFounded DEF OpToRel

LEMMA LeastNumber ==
  ASSUME NEW T, T \subseteq Nat, T # {}
  PROVE  \E x \in T : \A y \in T : x <= y
PROOF
  <1> DEFINE Less == {p \in Nat \X Nat : p[1] < p[2]}
  <1>1. PICK x \in T : \A y \in T : <<y, x>> \notin Less
    BY WFMin, LessIsWellFounded
  <1>2. \A y \in T : ~(y < x)
    <2> SUFFICES ASSUME NEW y \in T, y < x PROVE FALSE
      OBVIOUS
    <2>1. <<y, x>> \in Less
      OBVIOUS
    <2> QED
      BY <1>1, <2>1
  <1> QED
    BY <1>2

-----------------------------------------------------------------------------
(* Listings                                                                *)

\* The place of number i among the numbers of V.
PlaceIn(V, i) == Cardinality({j \in V : j < i})

\* A set of numbers up to a bound has a greatest one.
LEMMA GreatestNumber ==
  ASSUME NEW n \in Nat, NEW T, T \subseteq 1 .. n, T # {}
  PROVE  \E x \in T : \A y \in T : y <= x
PROOF
  <1> DEFINE Up == {k \in Nat : \A y \in T : y <= k}
  <1>1. n \in Up
    OBVIOUS
  <1>2. PICK k \in Up : \A m \in Up : k <= m
    BY <1>1, LeastNumber
  <1>3. k \in T
    <2> SUFFICES ASSUME k \notin T PROVE FALSE
      OBVIOUS
    <2>1. PICK y \in T : TRUE
      OBVIOUS
    <2>2. k \in Nat /\ k >= 1 /\ k - 1 \in Nat
      BY <2>1
    <2>3. \A z \in T : z <= k - 1
      BY <2>2
    <2> QED
      BY <1>2, <2>2, <2>3
  <1> QED
    BY <1>2, <1>3

LEMMA EarlierAreFinite ==
  ASSUME NEW n \in Nat, NEW V, V \subseteq 1 .. n, NEW i
  PROVE  IsFiniteSet({j \in V : j < i})
PROOF
  <1>1. IsFiniteSet(1 .. n)
    BY FS_Interval
  <1>2. {j \in V : j < i} \subseteq 1 .. n
    OBVIOUS
  <1> QED
    BY <1>1, <1>2, FS_Subset

LEMMA PlaceIsNumber ==
  ASSUME NEW n \in Nat, NEW V, V \subseteq 1 .. n
  PROVE  \A i : PlaceIn(V, i) \in Nat
PROOF
  <1> SUFFICES ASSUME NEW i PROVE PlaceIn(V, i) \in Nat
    OBVIOUS
  <1>1. IsFiniteSet({j \in V : j < i})
    BY EarlierAreFinite
  <1> QED
    BY <1>1, FS_CardinalityType DEF PlaceIn

\* Numbers that join the set move no number to an earlier place.
LEMMA PlacesGrow ==
  ASSUME NEW n \in Nat, NEW V, NEW W, V \subseteq W, W \subseteq 1 .. n
  PROVE  \A i : PlaceIn(V, i) <= PlaceIn(W, i)
PROOF
  <1> SUFFICES ASSUME NEW i PROVE PlaceIn(V, i) <= PlaceIn(W, i)
    OBVIOUS
  <1>1. {j \in V : j < i} \subseteq {j \in W : j < i}
    OBVIOUS
  <1>2. IsFiniteSet({j \in W : j < i})
    BY EarlierAreFinite
  <1> QED
    BY <1>1, <1>2, FS_Subset DEF PlaceIn

\* The numbers of a set have the places 0, 1, 2, ...: where one is at p or later,
\* one is at p.
LEMMA NoPlaceIsSkipped ==
  ASSUME NEW n \in Nat, NEW V, V \subseteq 1 .. n, NEW p \in Nat,
         NEW i \in V, p <= PlaceIn(V, i)
  PROVE  \E j \in V : PlaceIn(V, j) = p
PROOF
  <1> DEFINE Later == {j \in V : p <= PlaceIn(V, j)}
  <1>a. \A k \in V : k \in Nat
    OBVIOUS
  <1>0. /\ \A k \in V : k \in Nat
        /\ \A k \in V : PlaceIn(V, k) \in Nat
    BY Zenon, <1>a, PlaceIsNumber
  <1>1. PICK j \in Later : \A k \in Later : j <= k
    <2>1. Later \subseteq Nat /\ Later # {}
      BY <1>0
    <2> QED
      BY <2>1, LeastNumber
  <1> DEFINE Earlier == {k \in V : k < j}
  <1>2. \A k \in Earlier : PlaceIn(V, k) \in Nat /\ PlaceIn(V, k) < p
    <2> SUFFICES ASSUME NEW k \in Earlier
                 PROVE  PlaceIn(V, k) \in Nat /\ PlaceIn(V, k) < p
      OBVIOUS
    <2>1. k \notin Later
      BY <1>0, <1>1
    <2> QED
      BY <1>0, <2>1
  <1>3. PlaceIn(V, j) = p
    <2>1. CASE Earlier = {}
      BY <1>1, <2>1, FS_EmptySet DEF PlaceIn
    <2>2. CASE Earlier # {}
      <3>1. PICK m \in Earlier : \A k \in Earlier : k <= m
        <4>1. Earlier \subseteq 1 .. n
          OBVIOUS
        <4> HIDE DEF Earlier
        <4> QED
          BY <2>2, <4>1, GreatestNumber
      <3> DEFINE Before_m == {k \in V : k < m}
      <3>2. Earlier = Before_m \cup {m} /\ m \notin Before_m
        <4>1. m \in V /\ m < j /\ m \in Nat /\ j \in Nat /\ j \in V
          BY <1>0, <1>1, <3>1
        <4>2. \A k \in V : k < j <=> k < m \/ k = m
          BY <1>0, <3>1, <4>1
        <4>3. ~(m < m)
          BY <4>1
        <4> QED
          BY <4>1, <4>2, <4>3
      <3>3. IsFiniteSet(Before_m) /\ Cardinality(Before_m) \in Nat
        BY <1>0, <3>1, EarlierAreFinite DEF PlaceIn
      <3>4. Cardinality(Earlier) = Cardinality(Before_m) + 1
        BY <3>2, <3>3, FS_AddElement
      <3>5. Cardinality(Before_m) < p
        BY <1>2, <3>1 DEF PlaceIn
      <3> QED
        BY <1>1, <3>3, <3>4, <3>5 DEF PlaceIn
    <2> QED
      BY <2>1, <2>2
  <1> QED
    BY <1>1, <1>3

LEMMA RankIsPlace == \A i : Rank(i) = PlaceIn(visible, i)
  BY DEF Rank, PlaceIn, Before

\* What the client waits for is on a page it has or on one that is to come.
ListingsInv ==
  /\ ListingsTypeOK
  /\ wanted \subseteq visible
  /\ \A i \in wanted : i \in listed \/ next <= PlaceIn(visible, i)
  /\ ended => next # 0 /\ wanted \subseteq listed

LEMMA ListingsInitInv == ListingsInit => ListingsInv
PROOF
  <1> SUFFICES ASSUME ListingsInit PROVE ListingsInv
    OBVIOUS
  <1>1. ListingsTypeOK
    <2>1. 0 \in 0 .. MaxItems + Limit /\ 0 \in 0 .. MaxUpdates
      BY ListingsAssumption
    <2> QED
      BY <2>1 DEF ListingsInit, ListingsTypeOK
  <1>2. \A i \in wanted : 0 <= PlaceIn(visible, i)
    <2>1. built \in Nat /\ visible \subseteq 1 .. built
      BY <1>1, ListingsAssumption DEF ListingsTypeOK
    <2>2. \A i : PlaceIn(visible, i) \in Nat
      BY <2>1, PlaceIsNumber
    <2> QED
      BY <2>2
  <1> QED
    BY <1>1, <1>2 DEF ListingsInit, ListingsInv

LEMMA ListingsStep == ListingsInv /\ [ListingsNext]_listingVars => ListingsInv'
PROOF
  <1> SUFFICES ASSUME ListingsInv, [ListingsNext]_listingVars PROVE ListingsInv'
    OBVIOUS
  <1>t. /\ MaxItems \in Nat /\ MaxUpdates \in Nat /\ Limit \in Nat \ {0}
        /\ built \in Nat /\ built <= MaxItems /\ next \in Nat
        /\ visible \subseteq 1 .. built /\ wanted \subseteq 1 .. built
    BY ListingsAssumption DEF ListingsInv, ListingsTypeOK
  <1>p. \A i : PlaceIn(visible, i) \in Nat
    BY <1>t, PlaceIsNumber
  <1>1. CASE Build
    <2>1. ListingsTypeOK'
      BY <1>t, <1>1 DEF Build, ListingsInv, ListingsTypeOK
    <2> QED
      BY <1>1, <2>1 DEF Build, ListingsInv
  <1>2. ASSUME NEW i \in 1 .. built, Publish(i)
        PROVE  ListingsInv'
    <2>1. ListingsTypeOK'
      BY <1>t, <1>2 DEF Publish, ListingsInv, ListingsTypeOK
    <2>2. visible \subseteq visible' /\ visible' \subseteq 1 .. built
      BY <1>t, <1>2 DEF Publish
    <2>3. \A j : /\ PlaceIn(visible, j) <= PlaceIn(visible', j)
                      /\ PlaceIn(visible, j) \in Nat /\ PlaceIn(visible', j) \in Nat
      BY <1>t, <2>2, PlacesGrow, PlaceIsNumber
    <2>4. CASE next = 0
      <3>1. wanted' = visible' /\ next' = 0 /\ ended' = ended
        BY <1>2, <2>4 DEF Publish
      <3>2. \A j : 0 <= PlaceIn(visible', j)
        BY <2>3
      <3>3. ~ended'
        BY <2>4, <3>1 DEF ListingsInv
      <3> QED
        BY <2>1, <3>1, <3>2, <3>3 DEF ListingsInv
    <2>5. CASE next # 0
      BY <1>t, <1>2, <2>1, <2>2, <2>3, <2>5 DEF Publish, ListingsInv
    <2> QED
      BY <2>4, <2>5
  <1>3. ASSUME NEW i \in 1 .. built, Update(i)
        PROVE  ListingsInv'
    <2>1. ListingsTypeOK'
      BY <1>t, <1>3 DEF Update, ListingsInv, ListingsTypeOK
    <2> QED
      BY <1>3, <2>1 DEF Update, ListingsInv
  <1>4. CASE ListPage
    <2> DEFINE page == {i \in visible : next <= PlaceIn(visible, i)
                                        /\ PlaceIn(visible, i) < next + Limit}
    <2>1. /\ listed' = listed \cup page /\ ended' = (page = {}) /\ next' = next + Limit
          /\ ~ended /\ next <= MaxItems
          /\ UNCHANGED <<built, visible, updated, updates, wanted>>
      BY <1>4, RankIsPlace DEF ListPage
    <2>2. ListingsTypeOK'
      <3>1. next + Limit \in 0 .. MaxItems + Limit
        BY <1>t, <2>1
      <3>2. listed' \subseteq 1 .. built
        BY <1>t, <2>1 DEF ListingsInv, ListingsTypeOK
      <3> HIDE DEF page
      <3> QED
        BY <2>1, <3>1, <3>2 DEF ListingsInv, ListingsTypeOK
    <2>3. \A i \in wanted : i \in listed' \/ next' <= PlaceIn(visible, i)
      BY <1>t, <1>p, <2>1 DEF ListingsInv
    <2>4. ASSUME page = {}, NEW i \in wanted, i \notin listed
          PROVE  FALSE
      <3>1. i \in visible /\ next <= PlaceIn(visible, i)
        BY <2>4 DEF ListingsInv
      <3>2. PICK j \in visible : PlaceIn(visible, j) = next
        BY <1>t, <3>1, NoPlaceIsSkipped
      <3> QED
        BY <1>t, <2>4, <3>2
    <2> QED
      <3>1. next' # 0
        BY <1>t, <2>1
      <3>2. ended' => wanted \subseteq listed
        BY <2>1, <2>4
      <3> HIDE DEF page
      <3> QED
        BY <2>1, <2>2, <2>3, <3>1, <3>2 DEF ListingsInv
  <1>5. CASE UNCHANGED listingVars
    BY <1>5 DEF listingVars, ListingsInv, ListingsTypeOK
  <1> QED
    BY <1>1, <1>2, <1>3, <1>4, <1>5 DEF ListingsNext

\* A client that lists a tenant's items page by page, with pages of any size, gets
\* everything that was there when it began, however many items are registered and
\* appear meanwhile, and wherever in the order they appear.
THEOREM ListingsAreComplete == ListingsSpec => []ListingsMissNothing
PROOF
  <1>1. ListingsInv => ListingsMissNothing
    BY DEF ListingsInv, ListingsMissNothing
  <1> QED
    BY <1>1, ListingsInitInv, ListingsStep, PTL DEF ListingsSpec

-----------------------------------------------------------------------------
(* Embeddings                                                              *)

\* The numbers of a set have places of their own, from 1 to their number.
LEMMA PlacesAreDistinct ==
  ASSUME NEW n \in Nat, NEW V, V \subseteq 1 .. n, NEW i \in V
  PROVE  /\ Place(V, i) \in 1 .. Cardinality(V)
         /\ \A j \in V : Place(V, j) = Place(V, i) => j = i
PROOF
  <1>0. \A k \in V : k \in Nat
    OBVIOUS
  <1>1. /\ \A k \in V : k \in Nat
        /\ \A k : PlaceIn(V, k) \in Nat
    BY Zenon, <1>0, PlaceIsNumber
  <1>2. \A k : Place(V, k) = PlaceIn(V, k) + 1
    BY DEF Place, PlaceIn
  <1>3. IsFiniteSet(V) /\ Cardinality(V) \in Nat
    <2>1. IsFiniteSet(1 .. n)
      BY FS_Interval
    <2> QED
      BY <2>1, FS_Subset, FS_CardinalityType
  <1>4. PlaceIn(V, i) < Cardinality(V)
    <2> DEFINE Earlier == {k \in V : k < i}
    <2>1. Earlier \cup {i} \subseteq V /\ i \notin Earlier
      BY <1>1
    <2>2. IsFiniteSet(Earlier) /\ Cardinality(Earlier) \in Nat
      BY EarlierAreFinite, FS_CardinalityType
    <2>3. Cardinality(Earlier \cup {i}) = Cardinality(Earlier) + 1
      BY <2>1, <2>2, FS_AddElement
    <2>4. Cardinality(Earlier \cup {i}) <= Cardinality(V)
      BY <1>3, <2>1, FS_Subset
    <2> QED
      BY <1>3, <2>2, <2>3, <2>4 DEF PlaceIn
  \* A greater number has one more before it: the smaller one.
  <1>5. ASSUME NEW j \in V, NEW k \in V, j < k
        PROVE  PlaceIn(V, j) < PlaceIn(V, k)
    <2> DEFINE Earlier == {m \in V : m < j}
               Early == {m \in V : m < k}
    <2>1. Earlier \cup {j} \subseteq Early /\ j \notin Earlier
      <3>1. \A m \in V : m < j => m < k
        BY <1>1, <1>5
      <3>2. ~(j < j)
        BY <1>1
      <3> QED
        BY <1>5, <3>1, <3>2
    <2>2. /\ IsFiniteSet(Earlier) /\ Cardinality(Earlier) \in Nat
          /\ IsFiniteSet(Early) /\ Cardinality(Early) \in Nat
      BY EarlierAreFinite, FS_CardinalityType
    <2>3. Cardinality(Earlier \cup {j}) = Cardinality(Earlier) + 1
      BY <2>1, <2>2, FS_AddElement
    <2>4. Cardinality(Earlier \cup {j}) <= Cardinality(Early)
      BY <2>1, <2>2, FS_Subset
    <2> QED
      BY <2>2, <2>3, <2>4 DEF PlaceIn
  <1>6. ASSUME NEW j \in V, PlaceIn(V, j) = PlaceIn(V, i)
        PROVE  j = i
    <2>1. ~(j < i) /\ ~(i < j)
      BY <1>1, <1>5, <1>6
    <2> QED
      BY <1>1, <2>1
  <1> QED
    BY <1>1, <1>2, <1>3, <1>4, <1>6

\* What embeds a group puts the vector of each input in the place of the input.
LEMMA VectorInItsPlace ==
  ASSUME NEW M, Len(inputs) \in Nat, NEW n \in Positions(M)
  PROVE  Embedded(Positions(M)).vectors[Place(Positions(M), n)] = Vector(inputs[n])
PROOF
  <1> DEFINE V == Positions(M)
             p == Place(V, n)
  <1>1. V \subseteq 1 .. Len(inputs)
    BY DEF Positions
  <1>2. p \in 1 .. Cardinality(V) /\ \A j \in V : Place(V, j) = p => j = n
    <2> HIDE DEF V
    <2>1. n \in V
      BY DEF V
    <2> QED
      BY <1>1, <2>1, PlacesAreDistinct
  <1>3. (CHOOSE i \in V : Place(V, i) = p) = n
    <2>1. n \in V /\ Place(V, n) = p
      OBVIOUS
    <2> HIDE DEF V, p
    <2> QED
      BY <1>2, <2>1
  <1>4. Embedded(V).vectors[p] = Vector(inputs[CHOOSE i \in V : Place(V, i) = p])
    <2> HIDE DEF V, p
    <2> QED
      BY <1>2 DEF Embedded
  <1> QED
    BY <1>3, <1>4

\* The groups hold the vectors of the call's own inputs.
EmbedInv ==
  /\ Len(inputs) \in Nat
  /\ \A n \in 1 .. Len(inputs) : inputs[n] \in Pictures \cup Texts
  /\ groups = [images |-> groups.images, texts |-> groups.texts]
  /\ groups.images \in {NotYet, Embedded(Positions(Pictures))}
  /\ groups.texts \in {NotYet, Embedded(Positions(Texts))}
  /\ groups.texts # NotYet => groups.images # NotYet
  /\ ResultsBelongToInputs

LEMMA EmbedInit == EmbeddingsInit => EmbedInv
PROOF
  <1> SUFFICES ASSUME EmbeddingsInit PROVE EmbedInv
    OBVIOUS
  <1>1. PICK n \in 0 .. MaxInputs : inputs \in [1 .. n -> Pictures \cup Texts]
    BY DEF EmbeddingsInit, CallsOf
  <1>2. n \in Nat /\ Len(inputs) = n
    BY <1>1, EmbeddingsAssumption
  <1> QED
    BY <1>1, <1>2 DEF EmbeddingsInit, EmbedInv, ResultsBelongToInputs, NotYet

LEMMA EmbedStep == EmbedInv /\ [EmbeddingsNext]_embedVars => EmbedInv'
PROOF
  <1> SUFFICES ASSUME EmbedInv, [EmbeddingsNext]_embedVars PROVE EmbedInv'
    OBVIOUS
  <1>0. UNCHANGED callVars
    BY DEF EmbeddingsNext, EmbedImages, EmbedTexts, RejectEmpty, Answer, embedVars
  <1>1. /\ Embedded(Positions(Pictures))' = Embedded(Positions(Pictures))
        /\ Embedded(Positions(Texts))' = Embedded(Positions(Texts))
    BY <1>0 DEF callVars, Embedded, Positions, Place, Vector
  <1>2. ASSUME reply' = Rejected \/ reply' = reply
        PROVE  ResultsBelongToInputs'
    BY <1>0, <1>2 DEF EmbedInv, ResultsBelongToInputs, Rejected, callVars, Vector, PHash
  <1>3. CASE EmbedImages
    <2>1. CASE reply' = Rejected /\ UNCHANGED groups
      BY <1>0, <1>1, <1>2, <2>1 DEF EmbedInv, callVars
    <2>2. CASE /\ groups' = [groups EXCEPT !.images = Embedded(Positions(Pictures))]
               /\ UNCHANGED reply
      <3>1. groups'.images = Embedded(Positions(Pictures)) /\ groups'.texts = groups.texts
        BY <2>2 DEF EmbedInv
      <3>2. groups' = [images |-> groups'.images, texts |-> groups'.texts]
        BY <2>2 DEF EmbedInv
      <3>3. groups'.images # NotYet
        BY <1>3, <3>1 DEF EmbedImages, Embedded, NotYet
      <3> QED
        BY <1>0, <1>1, <1>2, <2>2, <3>1, <3>2, <3>3 DEF EmbedInv, callVars
    <2> QED
      BY <1>3, <2>1, <2>2 DEF EmbedImages
  <1>4. CASE EmbedTexts
    <2>1. CASE reply' = Rejected /\ UNCHANGED groups
      BY <1>0, <1>1, <1>2, <2>1 DEF EmbedInv, callVars
    <2>2. CASE /\ groups' = [groups EXCEPT !.texts = Embedded(Positions(Texts))]
               /\ UNCHANGED reply
      <3>1. groups'.texts = Embedded(Positions(Texts)) /\ groups'.images = groups.images
        BY <2>2 DEF EmbedInv
      <3>2. groups' = [images |-> groups'.images, texts |-> groups'.texts]
        BY <2>2 DEF EmbedInv
      <3>3. groups'.images # NotYet
        BY <1>4, <3>1 DEF EmbedTexts, Embedded, NotYet
      <3> QED
        BY <1>0, <1>1, <1>2, <2>2, <3>1, <3>2, <3>3 DEF EmbedInv, callVars
    <2> QED
      BY <1>4, <2>1, <2>2 DEF EmbedTexts
  <1>5. CASE RejectEmpty
    BY <1>0, <1>1, <1>2, <1>5 DEF RejectEmpty, EmbedInv, callVars
  <1>6. CASE Answer
    <2>1. /\ groups.images = Embedded(Positions(Pictures))
          /\ groups.texts = Embedded(Positions(Texts))
          /\ groups' = groups /\ reply' = [status |-> 200, results |-> InPlace]
      BY <1>6 DEF Answer, EmbedInv
    <2>2. ASSUME NEW n \in 1 .. Len(inputs)
          PROVE  /\ InPlace[n].vector = Vector(inputs[n])
                 /\ InPlace[n].phash = IF withHash /\ inputs[n] \in Pictures
                                       THEN PHash(inputs[n]) ELSE "null"
      <3>1. CASE inputs[n] \in Pictures
        <4>1. n \in Positions(Pictures)
          BY <3>1 DEF Positions
        <4> QED
          BY <2>1, <3>1, <4>1, VectorInItsPlace DEF InPlace, EmbedInv
      <3>2. CASE inputs[n] \notin Pictures
        <4>1. n \in Positions(Texts)
          BY <3>2 DEF Positions, EmbedInv
        <4> QED
          BY <2>1, <3>2, <4>1, VectorInItsPlace DEF InPlace, EmbedInv
      <3> QED
        BY <3>1, <3>2
    <2>3. Len(InPlace) = Len(inputs)
      BY DEF InPlace, EmbedInv
    <2>4. ResultsBelongToInputs'
      BY <1>0, <2>1, <2>2, <2>3 DEF ResultsBelongToInputs, callVars, Vector, PHash
    <2> QED
      BY <1>0, <1>1, <2>1, <2>4 DEF EmbedInv, callVars
  <1>7. CASE UNCHANGED embedVars
    BY <1>0, <1>1, <1>2, <1>7 DEF embedVars, EmbedInv, callVars
  <1> QED
    BY <1>3, <1>4, <1>5, <1>6, <1>7 DEF EmbeddingsNext

\* Every answer has a result for each input, with the input's own vector and hash,
\* whatever the number of the inputs and however images and texts alternate.
THEOREM ResultsStayInPlace == EmbeddingsSpec => []ResultsBelongToInputs
PROOF
  <1>1. EmbedInv => ResultsBelongToInputs
    BY DEF EmbedInv
  <1> QED
    BY <1>1, EmbedInit, EmbedStep, PTL DEF EmbeddingsSpec

-----------------------------------------------------------------------------
(* Rankings                                                                *)

Scores == [Points -> Nat]

LEMMA PointsAreNumbers ==
  /\ Points \subseteq Nat /\ IsFiniteSet(Points)
  /\ \A S : S \subseteq Points => IsFiniteSet(S) /\ Cardinality(S) \in Nat
PROOF
  <1>1. IsFiniteSet(Points) /\ Cardinality(Points) \in Nat
    BY SearchPagesAssumption, FS_CardinalityType
  <1>2. ASSUME NEW i \in Points PROVE i \in Nat
    BY <1>1, SearchPagesAssumption
  <1>3. ASSUME NEW S, S \subseteq Points
        PROVE  IsFiniteSet(S) /\ Cardinality(S) \in Nat
    BY <1>1, <1>3, FS_Subset, FS_CardinalityType
  <1> QED
    BY <1>1, <1>2, <1>3

LEMMA AheadIsAnOrder ==
  ASSUME NEW score \in Scores
  PROVE  /\ \A i \in Points : ~Ahead(score, i, i)
         /\ \A i, j \in Points : i # j => Ahead(score, i, j) \/ Ahead(score, j, i)
         /\ \A i, j, k \in Points :
              Ahead(score, i, j) /\ Ahead(score, j, k) => Ahead(score, i, k)
PROOF
  <1>1. \A i \in Points : i \in Nat /\ score[i] \in Nat
    BY PointsAreNumbers DEF Scores
  <1> QED
    BY <1>1 DEF Ahead

LEMMA RankIsNumber ==
  ASSUME NEW score, NEW S, S \subseteq Points
  PROVE  \A i : RankIn(S, score, i) \in Nat \ {0}
PROOF
  <1> SUFFICES ASSUME NEW i PROVE RankIn(S, score, i) \in Nat \ {0}
    OBVIOUS
  <1>1. {j \in S : Ahead(score, j, i)} \subseteq Points
    OBVIOUS
  <1>2. Cardinality({j \in S : Ahead(score, j, i)}) \in Nat
    BY <1>1, PointsAreNumbers
  <1> QED
    BY <1>2 DEF RankIn

\* Who is ahead has a lower rank.
LEMMA RanksFollowTheOrder ==
  ASSUME NEW score \in Scores, NEW S, S \subseteq Points,
         NEW i \in S, NEW j \in S, Ahead(score, i, j)
  PROVE  RankIn(S, score, i) < RankIn(S, score, j)
PROOF
  <1> DEFINE Lead == {k \in S : Ahead(score, k, i)}
             Longer == {k \in S : Ahead(score, k, j)}
  <1>1. Lead \cup {i} \subseteq Longer /\ i \notin Lead
    BY AheadIsAnOrder
  <1>2. Lead \subseteq Points /\ Longer \subseteq Points
    OBVIOUS
  <1> HIDE DEF Lead, Longer
  <1>3. /\ IsFiniteSet(Lead) /\ Cardinality(Lead) \in Nat
        /\ IsFiniteSet(Longer) /\ Cardinality(Longer) \in Nat
    BY <1>2, PointsAreNumbers
  <1>4. Cardinality(Lead \cup {i}) = Cardinality(Lead) + 1
    BY <1>1, <1>3, FS_AddElement
  <1>5. Cardinality(Lead \cup {i}) <= Cardinality(Longer)
    BY <1>1, <1>3, FS_Subset
  <1> QED
    BY <1>3, <1>4, <1>5 DEF Lead, Longer, RankIn

LEMMA RanksAreDistinct ==
  ASSUME NEW score \in Scores, NEW S, S \subseteq Points, NEW i \in S
  PROVE  /\ RankIn(S, score, i) \in 1 .. Cardinality(S)
         /\ \A j \in S : RankIn(S, score, j) = RankIn(S, score, i) => j = i
PROOF
  <1> DEFINE Lead == {k \in S : Ahead(score, k, i)}
  <1>1. Lead \cup {i} \subseteq S /\ i \notin Lead /\ Lead \subseteq Points
    BY AheadIsAnOrder
  <1>2. /\ IsFiniteSet(Lead) /\ Cardinality(Lead) \in Nat
        /\ IsFiniteSet(S) /\ Cardinality(S) \in Nat
    BY <1>1, PointsAreNumbers
  <1>3. Cardinality(Lead \cup {i}) = Cardinality(Lead) + 1
    BY <1>1, <1>2, FS_AddElement
  <1>4. Cardinality(Lead \cup {i}) <= Cardinality(S)
    BY <1>1, <1>2, FS_Subset
  <1>5. RankIn(S, score, i) = Cardinality(Lead) + 1
    BY DEF RankIn
  <1>6. ASSUME NEW j \in S, RankIn(S, score, j) = RankIn(S, score, i), j # i
        PROVE  FALSE
    <2>1. RankIn(S, score, j) \in Nat /\ RankIn(S, score, i) \in Nat
      BY RankIsNumber
    <2>2. Ahead(score, i, j) \/ Ahead(score, j, i)
      BY <1>6, AheadIsAnOrder
    <2>3. \/ RankIn(S, score, i) < RankIn(S, score, j)
          \/ RankIn(S, score, j) < RankIn(S, score, i)
      BY <2>2, RanksFollowTheOrder
    <2> QED
      BY <1>6, <2>1, <2>3
  <1> QED
    BY <1>2, <1>3, <1>4, <1>5, <1>6

\* Ranks and points are one to one.
LEMMA EveryRankIsTaken ==
  ASSUME NEW score \in Scores, NEW S, S \subseteq Points, NEW k \in 1 .. Cardinality(S)
  PROVE  \E i \in S : RankIn(S, score, i) = k
PROOF
  <1> DEFINE rank == [i \in S |-> RankIn(S, score, i)]
             ranks == 1 .. Cardinality(S)
  <1>1. IsFiniteSet(S) /\ Cardinality(S) \in Nat
    BY PointsAreNumbers
  <1>2. rank \in Injection(S, ranks)
    BY RanksAreDistinct DEF Injection, IsInjective
  <1>3. IsFiniteSet(ranks) /\ Cardinality(ranks) = Cardinality(S)
    BY <1>1, FS_Interval
  <1>4. rank \in Surjection(S, ranks)
    <2> HIDE DEF rank, ranks
    <2> QED
      BY <1>1, <1>2, <1>3, FS_Injection
  <1> QED
    BY <1>4 DEF Surjection

LEMMA RankedPoints ==
  ASSUME NEW score \in Scores, NEW S, S \subseteq Points
  PROVE  /\ RankedBy(S, score) \in Seq(S)
         /\ Len(RankedBy(S, score)) = Cardinality(S)
         /\ \A k \in 1 .. Cardinality(S) :
              /\ RankedBy(S, score)[k] \in S
              /\ RankIn(S, score, RankedBy(S, score)[k]) = k
         /\ \A i \in S : RankedBy(S, score)[RankIn(S, score, i)] = i
PROOF
  <1>1. Cardinality(S) \in Nat
    BY PointsAreNumbers
  <1>2. \A k \in 1 .. Cardinality(S) :
          /\ RankedBy(S, score)[k] \in S
          /\ RankIn(S, score, RankedBy(S, score)[k]) = k
    <2> SUFFICES ASSUME NEW k \in 1 .. Cardinality(S)
                 PROVE  /\ RankedBy(S, score)[k] \in S
                        /\ RankIn(S, score, RankedBy(S, score)[k]) = k
      OBVIOUS
    <2>1. \E i \in S : RankIn(S, score, i) = k
      BY EveryRankIsTaken
    <2>2. RankedBy(S, score)[k] = CHOOSE i \in S : RankIn(S, score, i) = k
      BY DEF RankedBy
    <2> QED
      BY <2>1, <2>2
  <1>3. RankedBy(S, score) \in [1 .. Cardinality(S) -> S]
    BY <1>2 DEF RankedBy
  <1>4. RankedBy(S, score) \in Seq(S) /\ Len(RankedBy(S, score)) = Cardinality(S)
    BY <1>1, <1>3
  <1>5. ASSUME NEW i \in S
        PROVE  RankedBy(S, score)[RankIn(S, score, i)] = i
    <2>1. RankIn(S, score, i) \in 1 .. Cardinality(S)
      BY RanksAreDistinct
    <2> QED
      BY <1>2, <2>1, RanksAreDistinct
  <1> QED
    BY <1>2, <1>4, <1>5

\* Those who are ahead of all others have the same ranks without them.
LEMMA FrontRanks ==
  ASSUME NEW score, NEW S, NEW T, T \subseteq S,
         \A i \in T : \A j \in S : Ahead(score, j, i) => j \in T
  PROVE  \A i \in T : RankIn(T, score, i) = RankIn(S, score, i)
PROOF
  <1> SUFFICES ASSUME NEW i \in T PROVE RankIn(T, score, i) = RankIn(S, score, i)
    OBVIOUS
  <1>1. {j \in T : Ahead(score, j, i)} = {j \in S : Ahead(score, j, i)}
    OBVIOUS
  <1> QED
    BY <1>1 DEF RankIn

LEMMA FrontOfRanking ==
  ASSUME NEW score \in Scores, NEW S, S \subseteq Points, NEW T, T \subseteq S,
         \A i \in T : \A j \in S : Ahead(score, j, i) => j \in T
  PROVE  /\ Cardinality(T) <= Cardinality(S)
         /\ \A k \in 1 .. Cardinality(T) : RankedBy(T, score)[k] = RankedBy(S, score)[k]
PROOF
  <1>1. Cardinality(T) <= Cardinality(S)
    BY PointsAreNumbers, FS_Subset
  <1>2. ASSUME NEW k \in 1 .. Cardinality(T)
        PROVE  RankedBy(T, score)[k] = RankedBy(S, score)[k]
    <2> DEFINE i == RankedBy(T, score)[k]
    <2>0. T \subseteq Points
      OBVIOUS
    <2>1. i \in T /\ RankIn(T, score, i) = k
      BY <2>0, RankedPoints
    <2> HIDE DEF i
    <2>2. RankIn(S, score, i) = k
      BY <2>1, FrontRanks
    <2>3. RankedBy(S, score)[k] = i
      BY <2>1, <2>2, RankedPoints
    <2> QED
      BY <2>3 DEF i
  <1> QED
    BY <1>1, <1>2

-----------------------------------------------------------------------------
(* Pages                                                                   *)

InMatching == collection \cap Matching
Passed == Passing(InMatching)

\* So many of the results as there are.
AtMost(n) == IF n < Cardinality(Passed) THEN n ELSE Cardinality(Passed)

AskTypes ==
  /\ topK \in TopKs /\ minScore \in MinScores
  /\ modifier \in [Points -> Leanings] \cup {NoModifier}
  /\ collection \subseteq Points

PageTypes ==
  /\ topK \in Nat \ {0} /\ minScore \in Nat /\ collection \subseteq Points
  /\ Score \in Scores /\ Similarity \in Scores

LEMMA TypesOfPages == AskTypes => PageTypes
PROOF
  <1> SUFFICES ASSUME AskTypes PROVE PageTypes
    OBVIOUS
  <1>1. topK \in Nat \ {0} /\ minScore \in Nat /\ collection \subseteq Points
    BY SearchPagesAssumption DEF AskTypes
  <1>2. \A i \in Points : i \in Nat
    BY PointsAreNumbers
  <1>3. ASSUME NEW i \in Points
        PROVE  (IF Composed THEN i + modifier[i] ELSE 2 * i) \in Nat
    <2>1. CASE Composed
      <3>1. modifier[i] \in Nat
        BY <2>1, SearchPagesAssumption DEF Composed, AskTypes
      <3> QED
        BY <1>2, <2>1, <3>1
    <2>2. CASE ~Composed
      BY <1>2, <2>2
    <2> QED
      BY <2>1, <2>2
  <1> QED
    BY <1>1, <1>2, <1>3 DEF PageTypes, Score, Similarity, Scores

\* A page of a plain query: recall cuts the ranking after the page.
LEMMA PlainHits ==
  ASSUME PageTypes, ~Composed, NEW o \in Nat
  PROVE  LET T == Passing(Hits(o)) IN
         /\ T \subseteq Passed
         /\ \A i \in T : \A j \in Passed : Ahead(Score, j, i) => j \in T
         /\ T = Passed \/ Cardinality(T) >= o + topK
PROOF
  <1> DEFINE T == Passing(Hits(o))
             M == InMatching
             F == o + topK
  <1>1. M \subseteq Points /\ \A i \in M : i \in Nat
    BY PointsAreNumbers DEF InMatching, PageTypes
  <1>2. \A i, j \in M : Ahead(Score, j, i) <=> Ahead(Similarity, j, i)
    <2> SUFFICES ASSUME NEW i \in M, NEW j \in M
                 PROVE  Ahead(Score, j, i) <=> Ahead(Similarity, j, i)
      OBVIOUS
    <2>1. /\ Score[i] = 2 * i /\ Score[j] = 2 * j
          /\ Similarity[i] = i /\ Similarity[j] = j
      BY <1>1 DEF Score, Similarity
    <2> QED
      BY <1>1, <2>1 DEF Ahead
  <1>3. \A i \in M : i \in T <=> i \in Passed /\ RankIn(M, Similarity, i) <= F
    BY DEF Passing, Passed, Hits, Fetch, InMatching, PageTypes
  <1>4. T \subseteq M /\ Passed \subseteq M
    BY DEF Passing, Passed, Hits, InMatching
  \* The test of the score takes the front of recall.
  <1>5. \A i \in Passed : \A j \in M : Ahead(Similarity, j, i) => j \in Passed
    <2> SUFFICES ASSUME NEW i \in Passed, NEW j \in M, Ahead(Similarity, j, i)
                 PROVE  j \in Passed
      OBVIOUS
    <2>1. /\ Score[i] \in Nat /\ Score[j] \in Nat /\ Score[i] >= minScore /\ Score[j] >= Score[i]
      BY <1>1, <1>2, <1>4 DEF PageTypes, Scores, Ahead, Passed, Passing
    <2>2. j \in InMatching /\ Score[j] >= minScore
      BY <2>1 DEF PageTypes
    <2> QED
      BY <2>2 DEF Passed, Passing
  <1>6. \A i \in Passed : RankIn(Passed, Similarity, i) = RankIn(M, Similarity, i)
    BY <1>4, <1>5, FrontRanks
  <1>7. \A i \in T : \A j \in Passed : Ahead(Score, j, i) => j \in T
    <2> SUFFICES ASSUME NEW i \in T, NEW j \in Passed, Ahead(Score, j, i)
                 PROVE  j \in T
      OBVIOUS
    <2>1. RankIn(M, Similarity, j) < RankIn(M, Similarity, i)
      BY <1>1, <1>2, <1>4, RanksFollowTheOrder DEF PageTypes
    <2>2. RankIn(M, Similarity, i) <= F
      BY <1>3, <1>4
    <2>3. /\ RankIn(M, Similarity, j) \in Nat /\ RankIn(M, Similarity, i) \in Nat /\ F \in Nat
      BY <1>1, RankIsNumber DEF PageTypes
    <2>4. RankIn(M, Similarity, j) <= F
      BY <2>1, <2>2, <2>3
    <2> QED
      BY <1>3, <1>4, <2>4
  <1>8. T \subseteq Passed
    BY <1>3, <1>4
  <1>9. ASSUME T # Passed
        PROVE  Cardinality(T) >= F
    <2>1. PICK i \in Passed : i \notin T
      BY <1>8, <1>9
    <2>2. F \in Nat \ {0} /\ Cardinality(Passed) \in Nat /\ Passed \subseteq Points
      <3>1. Passed \subseteq Points
        BY <1>1, <1>4
      <3>2. F \in Nat \ {0}
        BY DEF PageTypes
      <3> QED
        BY <3>1, <3>2, PointsAreNumbers
    <2>3. RankIn(Passed, Similarity, i) \in 1 .. Cardinality(Passed)
      BY <2>2, RanksAreDistinct DEF PageTypes
    <2>4. ~(RankIn(Passed, Similarity, i) <= F)
      BY <1>3, <1>4, <1>6, <2>1
    <2>5. F \in 1 .. Cardinality(Passed)
      BY <2>2, <2>3, <2>4
    <2>6. PICK j \in Passed : RankIn(Passed, Similarity, j) = F
      BY <2>2, <2>5, EveryRankIsTaken DEF PageTypes
    <2>7. j \in T
      BY <1>3, <1>4, <1>6, <2>2, <2>6
    <2>8. RankIn(T, Similarity, j) = F
      <3>1. \A k \in T : \A m \in Passed : Ahead(Similarity, m, k) => m \in T
        BY <1>2, <1>4, <1>7
      <3> QED
        BY <1>8, <2>6, <2>7, <3>1, FrontRanks
    <2>9. T \subseteq Points
      BY <1>1, <1>4
    <2>10. F \in 1 .. Cardinality(T)
      BY <2>7, <2>8, <2>9, RanksAreDistinct DEF PageTypes
    <2>11. Cardinality(T) \in Nat
      BY <2>9, PointsAreNumbers
    <2> QED
      BY <2>2, <2>10, <2>11
  <1> QED
    BY <1>7, <1>8, <1>9

\* The shortlist of a composed query that fits has everything.
LEMMA ComposedHits ==
  ASSUME PageTypes, Composed, FitsShortlist, NEW o \in Nat
  PROVE  Passing(Hits(o)) = Passed
PROOF
  <1>1. InMatching \subseteq Points
    BY DEF InMatching, PageTypes
  <1>2. Cardinality(InMatching) \in Nat
    BY <1>1, PointsAreNumbers
  <1>3. Cardinality(InMatching) <= Fetch(o)
    BY <1>2 DEF FitsShortlist, Fetch, InMatching, PageTypes, RERANK_CANDIDATE_MULTIPLIER
  <1>4. Fetch(o) \in Nat
    BY DEF Fetch, PageTypes, RERANK_CANDIDATE_MULTIPLIER
  <1>5. \A i \in InMatching : RankIn(InMatching, Similarity, i) <= Fetch(o)
    <2> SUFFICES ASSUME NEW i \in InMatching
                 PROVE  RankIn(InMatching, Similarity, i) <= Fetch(o)
      OBVIOUS
    <2>1. RankIn(InMatching, Similarity, i) \in 1 .. Cardinality(InMatching)
      BY <1>1, RanksAreDistinct DEF PageTypes
    <2> QED
      BY <1>2, <1>3, <1>4, <2>1
  <1>6. Hits(o) = InMatching
    BY <1>5 DEF Hits, InMatching
  <1> QED
    BY <1>6 DEF Passed

\* A page is a piece of the ranking of everything.
LEMMA PageIsAPiece ==
  ASSUME PageTypes, Composed => FitsShortlist, NEW o \in Nat
  PROVE  /\ Everything \in Seq(Points) /\ Len(Everything) = Cardinality(Passed)
         /\ Cardinality(Passed) \in Nat
         /\ Page(o) = SubSeq(Everything, o + 1, AtMost(o + topK))
PROOF
  <1> DEFINE T == Passing(Hits(o))
             n == Cardinality(Passed)
             m == Cardinality(T)
             ranked == RankedBy(T, Score)
             end == AtMost(o + topK)
  <1>1. Passed \subseteq Points
    BY DEF Passed, Passing, InMatching, PageTypes
  <1>2. /\ Everything = RankedBy(Passed, Score) /\ Everything \in Seq(Passed)
        /\ Len(Everything) = n /\ n \in Nat
    BY <1>1, RankedPoints, PointsAreNumbers DEF Everything, Passed, InMatching, PageTypes
  <1>3. Everything \in Seq(Points)
    BY <1>1, <1>2
  <1>4. /\ T \subseteq Passed
        /\ \A i \in T : \A j \in Passed : Ahead(Score, j, i) => j \in T
        /\ T = Passed \/ m >= o + topK
    BY PlainHits, ComposedHits
  <1> HIDE DEF T
  <1>5. m <= n /\ m \in Nat /\ \A k \in 1 .. m : ranked[k] = Everything[k]
    BY <1>1, <1>2, <1>4, FrontOfRanking, PointsAreNumbers DEF PageTypes
  <1>6. ranked \in Seq(Points) /\ Len(ranked) = m
    <2>1. T \subseteq Points
      BY <1>1, <1>4
    <2>2. ranked \in Seq(T) /\ Len(ranked) = m
      BY <2>1, RankedPoints DEF PageTypes
    <2> QED
      BY <2>1, <2>2
  <1>7. /\ (IF o + topK < m THEN o + topK ELSE m) = end
        /\ end \in Nat /\ end <= m
    BY <1>2, <1>4, <1>5 DEF AtMost, PageTypes
  <1>8. Page(o) = SubSeq(ranked, o + 1, end)
    BY <1>6, <1>7 DEF Page, T
  <1>9. SubSeq(ranked, o + 1, end) = SubSeq(Everything, o + 1, end)
    <2> HIDE DEF ranked, end, m, n
    <2>1. SubSeq(ranked, o + 1, end) = [k \in 1 .. (end - o) |-> ranked[o + k]]
      BY <1>6, <1>7
    <2>2. SubSeq(Everything, o + 1, end) = [k \in 1 .. (end - o) |-> Everything[o + k]]
      BY <1>2, <1>3, <1>5, <1>7
    <2>3. \A k \in 1 .. (end - o) : o + k \in 1 .. m
      BY <1>5, <1>7
    <2> QED
      BY <1>5, <2>1, <2>2, <2>3
  <1> QED
    BY <1>2, <1>3, <1>8, <1>9

-----------------------------------------------------------------------------
(* Paging                                                                  *)

\* While nothing is written the pages that are cached are those of the collection,
\* and the client has the ranking up to its offset.
PagesInv ==
  /\ AskTypes
  /\ announced \in BOOLEAN /\ quiet \in BOOLEAN /\ DOMAIN cache = Offsets
  /\ offset \in Offsets
  /\ offset = 0 => results = <<>> /\ ~done
  /\ quiet => announced
  /\ announced => \A o \in Offsets : cache[o] \in {NotCached, Page(o)}
  /\ quiet /\ (Composed => FitsShortlist) =>
       /\ results = SubSeq(Everything, 1, AtMost(offset))
       /\ done => Cardinality(Passed) <= offset

LEMMA OffsetsAreNumbers == ASSUME PageTypes PROVE Offsets \subseteq Nat /\ 0 \in Offsets
PROOF
  <1>1. Cardinality(Points) + topK \in Nat
    BY PointsAreNumbers DEF PageTypes
  <1>2. 0 % topK = 0
    BY DEF PageTypes
  <1> QED
    BY <1>1, <1>2 DEF Offsets

\* Where it begins the client has nothing, which is the ranking up to there.
LEMMA NothingYet ==
  ASSUME PageTypes, Composed => FitsShortlist
  PROVE  SubSeq(Everything, 1, AtMost(0)) = <<>>
PROOF
  <1>1. Everything \in Seq(Points) /\ AtMost(0) = 0
    BY PageIsAPiece DEF AtMost
  <1> QED
    BY <1>1, SubSeqEmpty

LEMMA PagesInitInv == PagesInit => PagesInv
PROOF
  <1> SUFFICES ASSUME PagesInit PROVE PagesInv
    OBVIOUS
  <1>1. AskTypes
    BY DEF PagesInit, AskTypes
  <1>2. PageTypes
    BY <1>1, TypesOfPages
  <1> QED
    BY <1>1, <1>2, OffsetsAreNumbers, NothingYet DEF PagesInit, PagesInv

LEMMA PagesStep == PagesInv /\ [PagesNext]_pageVars => PagesInv'
PROOF
  <1> SUFFICES ASSUME PagesInv, [PagesNext]_pageVars PROVE PagesInv'
    OBVIOUS
  <1>0. PageTypes
    BY TypesOfPages DEF PagesInv
  <1>1. Offsets \subseteq Nat /\ topK \in Nat \ {0}
    BY <1>0, OffsetsAreNumbers DEF PageTypes
  \* While the collection and the requests stay, so does what they say.
  <1>2. ASSUME UNCHANGED <<topK, minScore, modifier, collection>>
        PROVE  /\ AskTypes' /\ Offsets' = Offsets
               /\ \A o : Page(o)' = Page(o) /\ AtMost(o)' = AtMost(o)
               /\ Everything' = Everything
               /\ Composed' = Composed /\ FitsShortlist' = FitsShortlist
               /\ Cardinality(Passed)' = Cardinality(Passed)
    BY <1>2 DEF PagesInv, AskTypes, Offsets, Page, Hits, Fetch, Passing, Score, Composed, Everything,
       FitsShortlist, Passed, InMatching, AtMost
  \* Whoever asks leaves a page that is current.
  <1>3. ASSUME NEW o \in Offsets, Ask(o), UNCHANGED <<topK, minScore, modifier, collection, announced>>
        PROVE  /\ DOMAIN cache' = Offsets
               /\ announced => \A p \in Offsets : cache'[p] \in {NotCached, Page(p)}
               /\ announced => CachedOrNew(o) = Page(o)
    BY <1>3 DEF Ask, CachedOrNew, PagesInv
  <1>4. CASE NextPage
    <2>1. /\ ~done /\ offset + topK \in Offsets /\ Ask(offset) /\ offset' = offset + topK
          /\ results' = results \o CachedOrNew(offset) /\ done' = (CachedOrNew(offset) = <<>>)
          /\ UNCHANGED <<topK, minScore, modifier, collection, announced, quiet>>
      BY <1>4 DEF NextPage
    <2>2. offset \in Offsets /\ offset \in Nat /\ offset' # 0
      BY <1>1, <2>1 DEF PagesInv
    <2>3. ASSUME quiet, Composed => FitsShortlist
          PROVE  /\ results' = SubSeq(Everything, 1, AtMost(offset + topK))
                 /\ done' => Cardinality(Passed) <= offset + topK
      <3> DEFINE n == Cardinality(Passed)
                 last == AtMost(offset + topK)
      <3>1. CachedOrNew(offset) = Page(offset)
        BY <1>3, <2>1, <2>2, <2>3 DEF PagesInv
      <3>2. /\ Everything \in Seq(Points) /\ Len(Everything) = n /\ n \in Nat
            /\ Page(offset) = SubSeq(Everything, offset + 1, last)
        BY <1>0, <2>2, <2>3, PageIsAPiece
      <3>3. results = SubSeq(Everything, 1, AtMost(offset))
        BY <2>3 DEF PagesInv
      <3>4. /\ AtMost(offset) = IF offset < n THEN offset ELSE n
            /\ last = IF offset + topK < n THEN offset + topK ELSE n
        BY DEF AtMost
      <3> HIDE DEF n, last
      <3>5. CASE offset <= n
        <4>1. /\ AtMost(offset) = offset /\ offset \in 0 .. n
              /\ last \in offset .. n /\ last <= offset + topK
          BY <1>1, <2>2, <3>2, <3>4, <3>5
        <4>2. SubSeq(Everything, 1, offset) \o SubSeq(Everything, offset + 1, last)
                = SubSeq(Everything, 1, last)
          BY <3>2, <4>1, ConcatAdjacentSubSeq
        <4>3. ASSUME SubSeq(Everything, offset + 1, last) = <<>>
              PROVE  n <= offset
          <5>1. Len(SubSeq(Everything, offset + 1, last)) = last - offset
            BY <2>2, <3>2, <4>1
          <5>2. last = offset
            <6>1. Len(<<>>) = 0
              OBVIOUS
            <6>2. last - offset = 0
              BY <4>3, <5>1, <6>1
            <6>3. last \in Nat
              BY <2>2, <3>2, <4>1
            <6> QED
              BY <2>2, <6>2, <6>3
          <5> QED
            BY <1>1, <2>2, <3>2, <3>4, <5>2
        <4>4. done' => n <= offset + topK
          <5> SUFFICES ASSUME done' PROVE n <= offset + topK
            OBVIOUS
          <5>1. SubSeq(Everything, offset + 1, last) = <<>>
            BY <2>1, <3>1, <3>2
          <5>2. n <= offset
            BY <4>3, <5>1
          <5> QED
            BY <1>1, <2>2, <3>2, <5>2
        <4> QED
          BY <2>1, <3>1, <3>2, <3>3, <4>1, <4>2, <4>4 DEF n, last
      <3>6. CASE ~(offset <= n)
        <4>1. AtMost(offset) = n /\ last = n /\ n < offset + 1 /\ n <= offset + topK
          BY <1>1, <2>2, <3>2, <3>4, <3>6
        <4>2. SubSeq(Everything, offset + 1, last) = <<>>
          BY <2>2, <3>2, <4>1, SubSeqEmpty
        <4>3. SubSeq(Everything, 1, n) \o <<>> = SubSeq(Everything, 1, n)
          BY <3>2, SubSeqFull
        <4> QED
          BY <2>1, <3>1, <3>2, <3>3, <4>1, <4>2, <4>3 DEF n, last
      <3> QED
        BY <3>5, <3>6
    <2>4. /\ AskTypes' /\ Offsets' = Offsets /\ offset' \in Offsets'
          /\ announced' \in BOOLEAN /\ quiet' \in BOOLEAN /\ DOMAIN cache' = Offsets'
          /\ offset' # 0 /\ (quiet' => announced')
      BY <1>2, <1>3, <2>1, <2>2 DEF PagesInv
    <2>5. announced' => \A o \in Offsets' : cache'[o] \in {NotCached, Page(o)'}
      BY <1>2, <1>3, <2>1, <2>2
    <2>6. quiet' /\ (Composed' => FitsShortlist') =>
            /\ results' = SubSeq(Everything', 1, AtMost(offset)')
            /\ done' => Cardinality(Passed)' <= offset'
      <3>1. AtMost(offset)' = IF offset' < Cardinality(Passed) THEN offset' ELSE Cardinality(Passed)
        BY <1>2, <2>1 DEF AtMost
      <3> QED
        <4>1. AtMost(offset)' = AtMost(offset + topK)
          BY <2>1, <3>1 DEF AtMost
        <4>2. quiet' = quiet /\ Composed' = Composed /\ FitsShortlist' = FitsShortlist
          BY <1>2, <2>1
        <4> QED
          <5> SUFFICES ASSUME quiet', Composed' => FitsShortlist'
                       PROVE  /\ results' = SubSeq(Everything', 1, AtMost(offset)')
                              /\ done' => Cardinality(Passed)' <= offset'
            OBVIOUS
          <5>1. /\ results' = SubSeq(Everything, 1, AtMost(offset + topK))
                /\ done' => Cardinality(Passed) <= offset + topK
            BY <2>3, <4>2
          <5>2. Everything' = Everything /\ Cardinality(Passed)' = Cardinality(Passed)
            BY <1>2, <2>1
          <5>3. offset' = offset + topK
            BY <2>1
          <5> QED
            BY <4>1, <5>1, <5>2, <5>3
    <2> QED
      BY <2>4, <2>5, <2>6 DEF PagesInv
  <1>5. ASSUME NEW o \in Offsets, OtherClientAsks(o)
        PROVE  PagesInv'
    BY <1>2, <1>3, <1>5 DEF OtherClientAsks, PagesInv
  <1>6. ASSUME NEW i \in Points, Write(i)
        PROVE  PagesInv'
    <2>1. AskTypes' /\ Offsets' = Offsets
      BY <1>6 DEF Write, PagesInv, AskTypes, Offsets
    <2> QED
      BY <1>6, <2>1 DEF Write, PagesInv
  <1>7. CASE Bump
    <2>1. /\ announced' = TRUE /\ cache' = [o \in Offsets |-> NotCached]
          /\ quiet' = (quiet \/ offset = 0) /\ ~announced
          /\ UNCHANGED <<topK, minScore, modifier, collection, offset, results, done>>
      BY <1>7 DEF Bump
    <2>2. ASSUME quiet', Composed => FitsShortlist
          PROVE  /\ results = SubSeq(Everything, 1, AtMost(offset))
                 /\ done => Cardinality(Passed) <= offset
      <3>1. offset = 0 /\ results = <<>> /\ ~done
        BY <2>1, <2>2 DEF PagesInv
      <3> QED
        BY <1>0, <2>2, <3>1, NothingYet
    <2> QED
      BY <1>2, <2>1, <2>2 DEF PagesInv
  <1>8. CASE UNCHANGED pageVars
    BY <1>2, <1>8 DEF pageVars, PagesInv
  <1> QED
    BY <1>4, <1>5, <1>6, <1>7, <1>8 DEF PagesNext

\* While the index is at rest a client that pages to the end gets the one ranking,
\* whole and in order, for any collection, scores, size of the pages and minimum
\* score, whatever other clients have had cached; a composed query as long as the
\* shortlist holds the collection.
THEOREM PagesAddUp == PagesSpec => []PagesPartitionTheRanking
PROOF
  <1>1. PagesInv => PagesPartitionTheRanking
    <2> SUFFICES ASSUME PagesInv, done, quiet, Composed => FitsShortlist
                 PROVE  results = Everything
      BY DEF PagesPartitionTheRanking
    <2>1. PageTypes
      BY TypesOfPages DEF PagesInv
    <2>2. offset \in Nat
      BY <2>1, OffsetsAreNumbers DEF PagesInv
    <2>3. /\ Everything \in Seq(Points) /\ Len(Everything) = Cardinality(Passed)
          /\ Cardinality(Passed) \in Nat
      BY <2>1, <2>2, PageIsAPiece
    <2>4. AtMost(offset) = Len(Everything)
      BY <2>2, <2>3 DEF PagesInv, AtMost
    <2> QED
      BY <2>3, <2>4, SubSeqFull DEF PagesInv
  <1> QED
    BY <1>1, PagesInitInv, PagesStep, PTL DEF PagesSpec

-----------------------------------------------------------------------------
(* The search for duplicates                                               *)

\* What the loop knows of the items it has passed: none with a hash is closer than
\* the best, and those before the best are further than it.
LoopInv ==
  /\ DedupTypeOK
  /\ bestId < cursor
  /\ bestId = 0 => bestDistance = MaxDistance + 1
  /\ bestId # 0 =>
       /\ Within(bestId) /\ DistanceTo(bestId) = bestDistance
       /\ \A n \in 1 .. bestId - 1 : Hashed(n) => bestDistance < DistanceTo(n)
  /\ \A n \in 1 .. cursor - 1 : Hashed(n) => bestDistance <= DistanceTo(n)
  /\ returned => cursor > Len(stored) \/ bestDistance = 0

\* A distance is a number, and the same both ways: what SymmetricDistance asks of
\* the table of distances in Ingestion.
LEMMA HammingIsDistance ==
  ASSUME NEW a \in Hashes, NEW b \in Hashes
  PROVE  Hamming(a, b) \in Nat /\ Hamming(a, b) = Hamming(b, a)
  <1>1. (a \ b) \cup (b \ a) \subseteq HashBits
    BY DEF Hashes
  <1>2. IsFiniteSet((a \ b) \cup (b \ a))
    BY <1>1, FS_Subset, DeduplicationAssumption
  <1>3. (a \ b) \cup (b \ a) = (b \ a) \cup (a \ b)
    OBVIOUS
  <1> QED BY <1>2, <1>3, FS_CardinalityType DEF Hamming

LEMMA StoredDistance ==
  ASSUME DedupTypeOK, NEW n \in 1 .. Len(stored), Hashed(n)
  PROVE  DistanceTo(n) \in Nat
  <1>1. stored[n] \in Hashes
    BY DEF DedupTypeOK, Hashed
  <1> QED BY <1>1, HammingIsDistance DEF DistanceTo, DedupTypeOK

LEMMA LoopInit == DedupInit => LoopInv
  <1> SUFFICES ASSUME DedupInit PROVE LoopInv
    OBVIOUS
  <1>1. PICK m \in 0 .. MaxStored : stored \in [1 .. m -> Hashes \cup {NoHash}]
    BY DEF DedupInit
  <1>2. m \in Nat /\ stored \in Seq(Hashes \cup {NoHash}) /\ Len(stored) = m
    BY <1>1, DeduplicationAssumption, SeqDef, LenProperties
  <1>3. /\ cursor = 1 /\ bestId = 0 /\ bestDistance = MaxDistance + 1 /\ returned = FALSE
        /\ sought \in Hashes
    BY DEF DedupInit
  <1>4. DedupTypeOK
    <2>1. cursor \in 1 .. Len(stored) + 1 /\ bestId \in 0 .. Len(stored)
      BY <1>2, <1>3
    <2>2. bestDistance \in 0 .. MaxDistance + 1
      BY <1>3, DeduplicationAssumption
    <2> QED BY <1>2, <1>3, <2>1, <2>2 DEF DedupTypeOK
  <1>5. \A n \in 1 .. cursor - 1 : FALSE
    BY <1>3
  <1> QED BY <1>3, <1>4, <1>5 DEF LoopInv

LEMMA LoopStep == LoopInv /\ [DedupNext]_dedupVars => LoopInv'
  <1> SUFFICES ASSUME LoopInv, [DedupNext]_dedupVars PROVE LoopInv'
    OBVIOUS
  <1>0. /\ Len(stored) \in Nat /\ cursor \in Nat /\ bestId \in Nat /\ bestDistance \in Nat
        /\ MaxDistance \in Nat
    BY DeduplicationAssumption, LenProperties DEF LoopInv, DedupTypeOK
  <1>1. CASE Take
    <2>1. cursor \in 1 .. Len(stored) /\ Hashed(cursor) /\ DistanceTo(cursor) \in Nat
      BY <1>0, <1>1, StoredDistance DEF Take, Looking, LoopInv, DedupTypeOK
    <2>2. /\ UNCHANGED <<sought, stored>> /\ cursor' = cursor + 1 /\ bestId' = cursor
          /\ bestDistance' = DistanceTo(cursor) /\ returned' = (DistanceTo(cursor) = 0)
          /\ DistanceTo(cursor) <= MaxDistance /\ DistanceTo(cursor) < bestDistance
      BY <1>1 DEF Take, Closer
    <2>3. \A n : Hashed(n)' = Hashed(n) /\ DistanceTo(n)' = DistanceTo(n)
      BY <2>2 DEF Hashed, DistanceTo
    <2>4. \A n \in 1 .. cursor - 1 : Hashed(n) => DistanceTo(cursor) < DistanceTo(n)
      <3>1. ASSUME NEW n \in 1 .. cursor - 1, Hashed(n)
            PROVE  DistanceTo(cursor) < DistanceTo(n)
        <4>1. bestDistance <= DistanceTo(n) /\ n \in 1 .. Len(stored)
          BY <1>0, <2>1, <3>1 DEF LoopInv
        <4>2. DistanceTo(n) \in Nat
          BY <3>1, <4>1, StoredDistance DEF LoopInv
        <4> QED BY <1>0, <2>1, <2>2, <4>1, <4>2
      <3> QED BY <3>1
    <2>5. DedupTypeOK'
      BY <1>0, <2>1, <2>2 DEF LoopInv, DedupTypeOK
    <2>6. Within(bestId)' /\ DistanceTo(bestId)' = bestDistance'
      BY <2>1, <2>2 DEF Within, Hashed, DistanceTo
    <2>7. \A n \in 1 .. cursor' - 1 : Hashed(n)' => bestDistance' <= DistanceTo(n)'
      <3>1. ASSUME NEW n \in 1 .. cursor, Hashed(n)
            PROVE  DistanceTo(cursor) <= DistanceTo(n)
        <4>1. CASE n = cursor
          BY <2>1, <4>1
        <4>2. CASE n # cursor
          <5>1. n \in 1 .. cursor - 1 /\ n \in 1 .. Len(stored)
            BY <1>0, <2>1, <4>2
          <5>2. DistanceTo(n) \in Nat
            BY <3>1, <5>1, StoredDistance DEF LoopInv
          <5> QED BY <2>1, <2>4, <3>1, <5>1, <5>2
        <4> QED BY <4>1, <4>2
      <3> QED BY <1>0, <2>2, <2>3, <3>1
    <2>8. \A n \in 1 .. bestId' - 1 : Hashed(n)' => bestDistance' < DistanceTo(n)'
      BY <2>2, <2>3, <2>4
    <2>9. bestId' < cursor' /\ bestId' # 0
      BY <1>0, <2>1, <2>2
    <2>10. returned' => bestDistance' = 0
      BY <2>2, Zenon
    <2> QED BY <2>5, <2>6, <2>7, <2>8, <2>9, <2>10 DEF LoopInv
  <1>2. CASE Pass
    <2>1. cursor \in 1 .. Len(stored) /\ cursor' = cursor + 1 /\ ~returned
          /\ UNCHANGED <<sought, stored, bestId, bestDistance, returned>>
      BY <1>0, <1>2 DEF Pass, Looking, LoopInv, DedupTypeOK
    <2>2. Hashed(cursor) => bestDistance <= DistanceTo(cursor)
      <3> SUFFICES ASSUME Hashed(cursor) PROVE bestDistance <= DistanceTo(cursor)
        OBVIOUS
      <3>1. DistanceTo(cursor) \in Nat
        BY <2>1, StoredDistance DEF LoopInv
      <3>2. bestDistance \in 0 .. MaxDistance + 1
        BY DEF LoopInv, DedupTypeOK
      <3> QED BY <1>0, <1>2, <3>1, <3>2 DEF Pass, Closer
    <2>3. \A n : Hashed(n)' = Hashed(n) /\ DistanceTo(n)' = DistanceTo(n)
      BY <2>1 DEF Hashed, DistanceTo
    <2>4. \A n : Within(n)' = Within(n)
      BY <2>3 DEF Within
    <2>5. \A n \in 1 .. cursor' - 1 : Hashed(n) => bestDistance <= DistanceTo(n)
      <3>1. ASSUME NEW n \in 1 .. cursor, Hashed(n)
            PROVE  bestDistance <= DistanceTo(n)
        <4>1. n = cursor \/ n \in 1 .. cursor - 1
          BY <1>0
        <4> QED BY <2>2, <3>1, <4>1 DEF LoopInv
      <3> QED BY <1>0, <2>1, <3>1
    <2>6. DedupTypeOK'
      BY <1>0, <2>1 DEF LoopInv, DedupTypeOK
    <2>7. bestId' < cursor'
      BY <1>0, <2>1 DEF LoopInv
    <2> QED BY <2>1, <2>3, <2>4, <2>5, <2>6, <2>7 DEF LoopInv
  <1>3. CASE ReturnBest
    BY <1>3 DEF ReturnBest, LoopInv, DedupTypeOK, Within, Hashed, DistanceTo
  <1>4. CASE UNCHANGED dedupVars
    BY <1>4 DEF dedupVars, LoopInv, DedupTypeOK, Within, Hashed, DistanceTo
  <1> QED BY <1>1, <1>2, <1>3, <1>4 DEF DedupNext

\* At the end of the list, or at an identical hash, the best is the best of all.
LEMMA LoopFinds == LoopInv => FirstOfTheClosest
  <1> SUFFICES ASSUME LoopInv, returned PROVE FirstOfTheClosest
    BY DEF FirstOfTheClosest
  <1>0. /\ Len(stored) \in Nat /\ cursor \in Nat /\ bestId \in Nat /\ bestDistance \in Nat
        /\ MaxDistance \in Nat
    BY DeduplicationAssumption, LenProperties DEF LoopInv, DedupTypeOK
  <1>1. ASSUME NEW n \in 1 .. Len(stored), Hashed(n)
        PROVE  bestDistance <= DistanceTo(n) /\ DistanceTo(n) \in Nat
    <2>1. DistanceTo(n) \in Nat
      BY <1>1, StoredDistance DEF LoopInv
    <2>2. CASE cursor > Len(stored)
      <3>1. n \in 1 .. cursor - 1
        BY <1>0, <2>2
      <3> QED BY <1>1, <2>1, <3>1 DEF LoopInv
    <2>3. CASE bestDistance = 0
      BY <2>1, <2>3
    <2> QED BY <2>2, <2>3 DEF LoopInv
  <1>2. CASE bestId = 0
    BY <1>0, <1>1, <1>2 DEF LoopInv, Within, FirstOfTheClosest
  <1>3. CASE bestId # 0
    <2>1. bestId \in 1 .. Len(stored)
      BY <1>0, <1>3 DEF LoopInv, DedupTypeOK
    <2>2. Within(bestId) /\ DistanceTo(bestId) = bestDistance
      BY <1>3 DEF LoopInv
    <2>3. bestId \in NearestStored
      BY <1>1, <2>1, <2>2 DEF NearestStored, Within
    <2>4. ASSUME NEW n \in NearestStored
          PROVE  bestId <= n
      <3>1. n \in 1 .. Len(stored) /\ Hashed(n) /\ DistanceTo(n) <= bestDistance
        BY <2>1, <2>2, <2>4 DEF NearestStored, Within
      <3>2. ~(n \in 1 .. bestId - 1)
        BY <1>0, <1>1, <1>3, <3>1 DEF LoopInv
      <3> QED BY <1>0, <3>1, <3>2
    <2> QED BY <2>3, <2>4 DEF FirstOfTheClosest
  <1> QED BY <1>2, <1>3

\* The loop returns the first of the closest items within the threshold, and None
\* only when there is none, for any hashes, thresholds and numbers of items.
THEOREM DuplicateIsTheClosest == DedupSpec => []FirstOfTheClosest
  BY LoopInit, LoopStep, LoopFinds, PTL DEF DedupSpec
=============================================================================
