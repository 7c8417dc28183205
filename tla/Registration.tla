---------------------------- MODULE Registration ----------------------------
(***************************************************************************)
(* Registration of items, one by one or in batches, and feedback on them,  *)
(* in concurrent requests to catalog-service.                              *)
(*                                                                         *)
(* Every request is one PostgreSQL transaction (READ COMMITTED).  An item  *)
(* is looked up by its external id, then added to the session; the session *)
(* inserts what it holds before its next query and before it commits.  An  *)
(* INSERT waits for an open transaction that has inserted the same tenant  *)
(* and external id, and fails if such a row is committed.  A cycle of      *)
(* waiting transactions is broken by failing one of them.                  *)
(***************************************************************************)
EXTENDS Naturals, Sequences, FiniteSets

CONSTANTS
  Tenants,
  ExternalIds,
  Requests,  \* calls of POST /v1/items and POST /v1/items/batch
  Feedbacks, \* calls of POST /v1/feedback
  MaxBatch,  \* items of a batch
  BadType,   \* stands for an item with an unsupported content type
  None       \* no external id

ASSUME RegistrationAssumption ==
  /\ BadType \notin ExternalIds
  /\ None \notin ExternalIds \cup Tenants \cup {BadType}
  /\ MaxBatch \in Nat \ {0}

VARIABLES
  tenant,    \* the tenant of each request
  batch,     \* the external ids of its items
  status,    \* open, or what it was answered
  added,     \* how many items its session holds
  inserted,  \* how many of them are inserted
  rows,      \* catalog_items: the committed items
  deleted,   \* items that were committed and deleted (history)
  rivals,    \* requests that were open together with it (history)
  about,     \* the item a feedback is about, and for which tenant
  judgement, \* what the feedback was answered
  feedback   \* feedback: the committed rows

requestVars == <<tenant, batch, status, added, inserted, rivals>>
feedbackVars == <<about, judgement, feedback>>
registrationVars == <<requestVars, rows, deleted, feedbackVars>>

Entries == ExternalIds \cup {BadType, None}
Batches == UNION {[1 .. n -> Entries] : n \in 1 .. MaxBatch}
Items == Requests \X (1 .. MaxBatch) \* the n-th item of a request
Answers == {"created", "conflict", "invalid", "error"}

TenantOf(x) == tenant[x[1]]
ExternalIdOf(x) == batch[x[1]][x[2]]

RegistrationTypeOK ==
  /\ tenant \in [Requests -> Tenants \cup {None}]
  /\ batch \in [Requests -> Batches \cup {<<>>}]
  /\ status \in [Requests -> {"new", "open"} \cup Answers]
  /\ added \in [Requests -> 0 .. MaxBatch]
  /\ inserted \in [Requests -> 0 .. MaxBatch]
  /\ rows \subseteq Items
  /\ deleted \subseteq Items
  /\ rivals \in [Requests -> SUBSET Requests]
  /\ about \in [Feedbacks -> (Items \X Tenants) \cup {None}]
  /\ judgement \in [Feedbacks -> {"new", "open", "recorded", "missing", "error"}]
  /\ feedback \subseteq Feedbacks

RegistrationInit ==
  /\ tenant = [r \in Requests |-> None]
  /\ batch = [r \in Requests |-> <<>>]
  /\ status = [r \in Requests |-> "new"]
  /\ added = [r \in Requests |-> 0]
  /\ inserted = [r \in Requests |-> 0]
  /\ rivals = [r \in Requests |-> {}]
  /\ rows = {}
  /\ deleted = {}
  /\ about = [f \in Feedbacks |-> None]
  /\ judgement = [f \in Feedbacks |-> "new"]
  /\ feedback = {}

-----------------------------------------------------------------------------
(* Registration                                                            *)

Open(r) == status[r] = "open"

BeginRequest(r, t, ids) ==
  /\ status[r] = "new"
  /\ status' = [status EXCEPT ![r] = "open"]
  /\ tenant' = [tenant EXCEPT ![r] = t]
  /\ batch' = [batch EXCEPT ![r] = ids]
  /\ rivals' = [s \in Requests |-> IF s = r THEN {u \in Requests : Open(u)}
                                   ELSE IF Open(s) THEN rivals[s] \cup {r}
                                   ELSE rivals[s]]
  /\ UNCHANGED <<added, inserted, rows, deleted, feedbackVars>>

\* Mutant: an exception without a handler gets no answer.
RaiseUnhandled(r, answer) ==
  /\ status' = [status EXCEPT ![r] = IF answer = "error" THEN "none" ELSE answer]
  /\ UNCHANGED <<tenant, batch, added, inserted, rivals, rows, deleted, feedbackVars>>

\* The answer of a request that raises; its transaction is rolled back.
Raise(r, answer) ==
  /\ status' = [status EXCEPT ![r] = answer]
  /\ UNCHANGED <<tenant, batch, added, inserted, rivals, rows, deleted, feedbackVars>>

\* The item register_one is called for.
Unadded(r) == Open(r) /\ added[r] < Len(batch[r])
NextEntry(r) == batch[r][added[r] + 1]

Seen(r) == {batch[r][i] : i \in 1 .. added[r]}

\* A SELECT comes next, or the commit: whatever was added is inserted first.
Flushing(r) ==
  /\ Open(r)
  /\ inserted[r] < added[r]
  /\ added[r] < Len(batch[r]) => NextEntry(r) \in ExternalIds \ Seen(r)

\* Mutant: a deleted item keeps its name.
FoundEver(r) ==
  \E x \in rows \cup deleted : TenantOf(x) = tenant[r] /\ ExternalIdOf(x) = NextEntry(r)

\* get_by_external_id: a committed row, of this tenant.  (What the request has
\* inserted itself is in Seen.)
Found(r) ==
  \E x \in rows : TenantOf(x) = tenant[r] /\ ExternalIdOf(x) = NextEntry(r)

RejectType(r) ==
  /\ Unadded(r)
  /\ NextEntry(r) = BadType
  /\ Raise(r, "invalid")

RefuseRepeated(r) ==
  /\ Unadded(r)
  /\ NextEntry(r) \in ExternalIds \cap Seen(r)
  /\ Raise(r, "conflict")

RefuseFound(r) ==
  /\ Unadded(r)
  /\ NextEntry(r) \in ExternalIds \ Seen(r)
  /\ inserted[r] = added[r]
  /\ Found(r)
  /\ Raise(r, "conflict")

Add(r) ==
  /\ Unadded(r)
  /\ \/ NextEntry(r) = None
     \/ NextEntry(r) \in ExternalIds \ Seen(r) /\ inserted[r] = added[r] /\ ~Found(r)
  /\ added' = [added EXCEPT ![r] = @ + 1]
  /\ UNCHANGED <<tenant, batch, status, inserted, rivals, rows, deleted, feedbackVars>>

-----------------------------------------------------------------------------
(* uq_items_tenant_ext                                                     *)

ToInsert(r) == batch[r][inserted[r] + 1]

\* The item has the tenant and the external id of the next insert of r.
Clashes(r, x) ==
  /\ ToInsert(r) # None
  /\ TenantOf(x) = tenant[r]
  /\ ExternalIdOf(x) = ToInsert(r)

\* Mutant: an INSERT does not see what other transactions have inserted.
WaitsForNobody(r, s) == FALSE

\* r waits for s to end.
Waits(r, s) ==
  /\ r # s
  /\ Flushing(r)
  /\ \E i \in 1 .. inserted[s] : Open(s) /\ Clashes(r, <<s, i>>)

Violates(r) ==
  \E x \in rows \cup {<<r, i>> : i \in 1 .. inserted[r]} : Clashes(r, x)

Insert(r) ==
  /\ Flushing(r)
  /\ \A s \in Requests : ~Waits(r, s)
  /\ ~Violates(r)
  /\ inserted' = [inserted EXCEPT ![r] = @ + 1]
  /\ UNCHANGED <<tenant, batch, status, added, rivals, rows, deleted, feedbackVars>>

\* Mutant: the insert that was refused is tried again.
InsertAgain(r) ==
  /\ Flushing(r)
  /\ \A s \in Requests : ~Waits(r, s)
  /\ Violates(r)
  /\ UNCHANGED registrationVars

\* An IntegrityError has no handler: 500.
InsertFails(r) ==
  /\ Flushing(r)
  /\ \A s \in Requests : ~Waits(r, s)
  /\ Violates(r)
  /\ Raise(r, "error")

\* PostgreSQL fails a transaction of every cycle; no handler either.
BreakDeadlock(r) ==
  /\ \E cycle \in SUBSET Requests :
       /\ r \in cycle
       /\ \A s \in cycle : \E u \in cycle : Waits(s, u)
       /\ \A s \in cycle : \E u \in cycle : Waits(u, s)
  /\ Raise(r, "error")

Commit(r) ==
  /\ Open(r)
  /\ inserted[r] = Len(batch[r])
  /\ rows' = rows \cup {<<r, i>> : i \in 1 .. inserted[r]}
  /\ status' = [status EXCEPT ![r] = "created"]
  /\ UNCHANGED <<tenant, batch, added, inserted, rivals, deleted, feedbackVars>>

RequestStep(r) ==
  \/ RejectType(r) \/ RefuseRepeated(r) \/ RefuseFound(r) \/ Add(r)
  \/ Insert(r) \/ InsertFails(r) \/ BreakDeadlock(r) \/ Commit(r)

-----------------------------------------------------------------------------
(* Feedback, and the deletion of items                                     *)

\* items.get finds the item, for this tenant only, or the answer is 404.
BeginFeedback(f, x, t) ==
  /\ judgement[f] = "new"
  /\ about' = [about EXCEPT ![f] = <<x, t>>]
  /\ judgement' = [judgement EXCEPT ![f] = IF x \in rows /\ TenantOf(x) = t
                                           THEN "open" ELSE "missing"]
  /\ UNCHANGED <<requestVars, rows, deleted, feedback>>

\* The INSERT, with the commit: the foreign key wants the item.
EndFeedback(f) ==
  /\ judgement[f] = "open"
  /\ \/ /\ about[f][1] \in rows
        /\ judgement' = [judgement EXCEPT ![f] = "recorded"]
        /\ feedback' = feedback \cup {f}
     \/ /\ about[f][1] \notin rows
        /\ judgement' = [judgement EXCEPT ![f] = "error"]
        /\ UNCHANGED feedback
  /\ UNCHANGED <<requestVars, rows, deleted, about>>

\* Mutant: the rows that refer to the item stay.
DeleteAlone(x) ==
  /\ x \in rows
  /\ rows' = rows \ {x}
  /\ deleted' = deleted \cup {x}
  /\ UNCHANGED <<requestVars, feedbackVars>>

\* The DELETE of CatalogService's Delete, which commits at once: it cascades.
DeleteItem(x) ==
  /\ x \in rows
  /\ rows' = rows \ {x}
  /\ deleted' = deleted \cup {x}
  /\ feedback' = {f \in feedback : about[f][1] # x}
  /\ UNCHANGED <<requestVars, about, judgement>>

RegistrationNext ==
  \/ \E r \in Requests, t \in Tenants, ids \in Batches : BeginRequest(r, t, ids)
  \/ \E r \in Requests : RequestStep(r)
  \/ \E f \in Feedbacks, x \in rows \cup deleted, t \in Tenants : BeginFeedback(f, x, t)
  \/ \E f \in Feedbacks : EndFeedback(f)
  \/ \E x \in Items : DeleteItem(x)

\* Handlers run on, and PostgreSQL looks for deadlocks.
RegistrationFairness == \A r \in Requests : WF_registrationVars(RequestStep(r))

RegistrationSpec ==
  RegistrationInit /\ [][RegistrationNext]_registrationVars /\ RegistrationFairness

-----------------------------------------------------------------------------
(* What registration promises                                              *)

\* A tenant's external ids are unique, although the lookup and the insert of a
\* request are apart and other requests run in between.
UniqueExternalId ==
  \A x, y \in rows :
    TenantOf(x) = TenantOf(y) /\ ExternalIdOf(x) = ExternalIdOf(y) =>
      x = y \/ ExternalIdOf(x) = None

\* A batch is registered as a whole or not at all, whichever of its items is
\* refused and whenever ("one call registers many items").
BatchesAreWhole ==
  \A r \in Requests :
    LET kept == {x \in rows \cup deleted : x[1] = r}
    IN kept = IF status[r] = "created" THEN {<<r, i>> : i \in 1 .. Len(batch[r])} ELSE {}

SameName(r, s) ==
  /\ tenant[r] = tenant[s]
  /\ \E i \in 1 .. Len(batch[r]), j \in 1 .. Len(batch[s]) :
       batch[r][i] = batch[s][j] /\ batch[r][i] \in ExternalIds

Repeats(r) ==
  \E i, j \in 1 .. Len(batch[r]) :
    i # j /\ batch[r][i] = batch[r][j] /\ batch[r][i] \in ExternalIds

\* A 409 tells the truth ("already exists for this tenant"): the batch repeats
\* a name, or another request of the tenant has registered one of its names.
\* No registration is refused for the sake of one that failed.
ConflictsAreReal ==
  \A r \in Requests : status[r] = "conflict" =>
    \/ Repeats(r)
    \/ \E s \in Requests \ {r} : status[s] = "created" /\ SameName(r, s)

\* Only requests that race with another one for a name end in an error of the
\* server: whoever comes after the other has been answered gets the 409.
ErrorsComeFromRaces ==
  \A r \in Requests : status[r] = "error" =>
    \E s \in rivals[r] : SameName(r, s)

\* Feedback is about an item of the tenant that gave it, and goes with the item,
\* also when the item is deleted while the feedback is being submitted.
FeedbackHasItem ==
  \A f \in feedback : about[f][1] \in rows /\ TenantOf(about[f][1]) = about[f][2]

\* Every registration takes effect at one moment: its items appear together when
\* none of their names is taken, and a 409 is given while one of them is, however
\* its lookups, its inserts and its commit are spread among those of others.  What
\* BatchesAreWhole, ConflictsAreReal and ErrorsComeFromRaces say of single states
\* is part of it.
Catalog == INSTANCE Registry
RegistersAtOnce == Catalog!Spec

\* Every registration is answered: no two of them wait for each other forever.
RegistrationsEnd == \A r \in Requests : [](Open(r) => <>~Open(r))
=============================================================================
