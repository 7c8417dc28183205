------------------------- MODULE RegistrationProofs -------------------------
(***************************************************************************)
(* The promises of Registration hold for any number of requests, tenants,  *)
(* names and feedbacks and for batches of any size.                        *)
(***************************************************************************)
EXTENDS Registration, SequenceTheorems, TLAPS

Indices == 1 .. MaxBatch

\* The items of a request that are inserted: committed, or of its open transaction.
Live(r, i) == <<r, i>> \in rows \/ (Open(r) /\ i <= inserted[r])

Named(r, i) == batch[r][i] \in ExternalIds

Alike(r, i, s, j) == tenant[r] = tenant[s] /\ batch[r][i] = batch[s][j]

\* A session has inserted at most what it holds, and nothing before it is opened.
Counted ==
  \A r \in Requests :
    /\ inserted[r] <= added[r]
    /\ added[r] <= Len(batch[r])
    /\ status[r] = "new" => added[r] = 0 /\ batch[r] = <<>>

\* Item by item, what was ever committed is what the created requests hold.
KeptWhole ==
  \A r \in Requests, i \in Indices :
    <<r, i>> \in rows \cup deleted <=> status[r] = "created" /\ i <= Len(batch[r])

\* Committed or not yet: two inserted items never have the same tenant and name.
LiveUnique ==
  \A r, s \in Requests, i, j \in Indices :
    Live(r, i) /\ Live(s, j) /\ Alike(r, i, s, j) /\ batch[r][i] # None => r = s /\ i = j

\* The entries a session holds were accepted: no bad type, and no name twice.
Accepted ==
  \A r \in Requests :
    /\ \A i \in 1 .. added[r] : batch[r][i] # BadType
    /\ \A i, j \in 1 .. added[r] : batch[r][i] = batch[r][j] /\ Named(r, i) => i = j

\* Open requests are each other's rivals.
RivalsKnown ==
  \A r, s \in Requests : Open(r) /\ Open(s) /\ r # s => s \in rivals[r]

\* A row with a name that an open request has looked up in vain is a rival's.
RowsOfRivals ==
  \A r, s \in Requests, i, j \in Indices :
    Open(r) /\ i <= added[r] /\ Named(r, i) /\ <<s, j>> \in rows /\ Alike(r, i, s, j)
      => s \in rivals[r]

\* A judgement in progress is about an item that was there, and of its tenant.
JudgedItems ==
  \A f \in Feedbacks :
    /\ judgement[f] = "open" \/ f \in feedback =>
         /\ about[f] \in Items \X Tenants
         /\ TenantOf(about[f][1]) = about[f][2]
         /\ status[about[f][1][1]] = "created"
    /\ f \in feedback => judgement[f] = "recorded" /\ about[f][1] \in rows

BaseInv == RegistrationTypeOK /\ Counted /\ KeptWhole
RaceInv == Accepted /\ RivalsKnown /\ RowsOfRivals
RegistrationInv ==
  BaseInv /\ LiveUnique /\ RaceInv /\ ConflictsAreReal /\ ErrorsComeFromRaces /\ JudgedItems

-----------------------------------------------------------------------------
(* Batches and items                                                       *)

\* A batch is a sequence of entries, of at most MaxBatch.
LEMMA BatchIsSeq ==
  ASSUME NEW b \in Batches \cup {<<>>}
  PROVE  /\ b \in Seq(Entries)
         /\ Len(b) \in 0 .. MaxBatch
         /\ \A i \in 1 .. Len(b) : b[i] \in Entries
  <1>1. CASE b = <<>>
    BY <1>1, RegistrationAssumption
  <1>2. CASE b \in Batches
    <2>1. PICK n \in 1 .. MaxBatch : b \in [1 .. n -> Entries]
      BY <1>2 DEF Batches
    <2>2. n \in Nat /\ b \in Seq(Entries)
      BY <2>1, RegistrationAssumption, SeqDef
    <2>3. Len(b) = n
      BY <2>1, <2>2, LenProperties, RegistrationAssumption
    <2> QED BY <2>1, <2>2, <2>3, RegistrationAssumption
  <1> QED BY <1>1, <1>2

LEMMA BatchLen ==
  ASSUME RegistrationTypeOK, NEW r \in Requests
  PROVE  /\ Len(batch[r]) \in 0 .. MaxBatch
         /\ \A i \in 1 .. Len(batch[r]) : batch[r][i] \in Entries
  BY BatchIsSeq DEF RegistrationTypeOK

LEMMA ItemIsPair ==
  ASSUME NEW x \in Items
  PROVE  x[1] \in Requests /\ x[2] \in Indices /\ x = <<x[1], x[2]>>
  BY DEF Items, Indices

\* What a request raises: one of the answers, while it is open.
RaiseStep(r, answer) == Open(r) /\ Raise(r, answer)

FeedbackStep ==
  \/ \E f \in Feedbacks, x \in rows \cup deleted, t \in Tenants : BeginFeedback(f, x, t)
  \/ \E f \in Feedbacks : EndFeedback(f)

\* The steps, those that raise apart by their answer only.
LEMMA StepCases ==
  ASSUME [RegistrationNext]_registrationVars
  PROVE  \/ \E r \in Requests, t \in Tenants, ids \in Batches : BeginRequest(r, t, ids)
         \/ \E r \in Requests, a \in {"invalid", "conflict", "error"} : RaiseStep(r, a)
         \/ \E r \in Requests : Add(r)
         \/ \E r \in Requests : Insert(r)
         \/ \E r \in Requests : Commit(r)
         \/ FeedbackStep
         \/ \E x \in Items : DeleteItem(x)
         \/ UNCHANGED registrationVars
  <1>1. ASSUME NEW r \in Requests, RequestStep(r)
        PROVE  \/ \E a \in {"invalid", "conflict", "error"} : RaiseStep(r, a)
               \/ Add(r) \/ Insert(r) \/ Commit(r)
    <2>1. CASE RejectType(r)
      BY <2>1 DEF RejectType, Unadded, RaiseStep
    <2>2. CASE RefuseRepeated(r)
      BY <2>2 DEF RefuseRepeated, Unadded, RaiseStep
    <2>3. CASE RefuseFound(r)
      BY <2>3 DEF RefuseFound, Unadded, RaiseStep
    <2>4. CASE InsertFails(r)
      BY <2>4 DEF InsertFails, Flushing, RaiseStep
    <2>5. CASE BreakDeadlock(r)
      BY <2>5 DEF BreakDeadlock, Waits, Flushing, RaiseStep
    <2> QED BY <1>1, <2>1, <2>2, <2>3, <2>4, <2>5 DEF RequestStep
  <1> QED BY <1>1 DEF RegistrationNext, FeedbackStep

-----------------------------------------------------------------------------
(* Types, counts, and whole batches                                        *)

LEMMA InitBase == RegistrationInit => BaseInv
  <1> SUFFICES ASSUME RegistrationInit PROVE BaseInv
    OBVIOUS
  <1> USE DEF RegistrationInit
  <1>1. RegistrationTypeOK
    BY RegistrationAssumption DEF RegistrationTypeOK, Answers
  <1>2. Counted
    BY DEF Counted
  <1>3. KeptWhole
    BY DEF KeptWhole
  <1> QED BY <1>1, <1>2, <1>3 DEF BaseInv

LEMMA StepType == RegistrationTypeOK /\ Counted /\ [RegistrationNext]_registrationVars
                    => RegistrationTypeOK'
  <1> SUFFICES ASSUME RegistrationTypeOK, Counted, [RegistrationNext]_registrationVars
               PROVE  RegistrationTypeOK'
    OBVIOUS
  <1> USE DEF RegistrationTypeOK, requestVars, feedbackVars
  <1>1. ASSUME NEW r \in Requests, NEW t \in Tenants, NEW ids \in Batches, BeginRequest(r, t, ids)
        PROVE  RegistrationTypeOK'
    BY <1>1 DEF BeginRequest
  <1>2. ASSUME NEW r \in Requests, NEW a \in {"invalid", "conflict", "error"}, RaiseStep(r, a)
        PROVE  RegistrationTypeOK'
    BY <1>2 DEF RaiseStep, Raise, Answers
  <1>3. ASSUME NEW r \in Requests, Add(r)
        PROVE  RegistrationTypeOK'
    <2>1. added[r] + 1 \in 0 .. MaxBatch
      BY <1>3, BatchLen, RegistrationAssumption DEF Add, Unadded
    <2> QED BY <1>3, <2>1 DEF Add
  <1>4. ASSUME NEW r \in Requests, Insert(r)
        PROVE  RegistrationTypeOK'
    <2>1. inserted[r] + 1 \in 0 .. MaxBatch
      BY <1>4, RegistrationAssumption DEF Insert, Flushing
    <2> QED BY <1>4, <2>1 DEF Insert
  <1>5. ASSUME NEW r \in Requests, Commit(r)
        PROVE  RegistrationTypeOK'
    <2>1. {<<r, i>> : i \in 1 .. inserted[r]} \subseteq Items
      BY RegistrationAssumption DEF Items
    <2> QED BY <1>5, <2>1 DEF Commit, Answers
  <1>6. ASSUME FeedbackStep
        PROVE  RegistrationTypeOK'
    <2>1. ASSUME NEW f \in Feedbacks, NEW x \in rows \cup deleted, NEW t \in Tenants,
                 BeginFeedback(f, x, t)
          PROVE  RegistrationTypeOK'
      <3>1. <<x, t>> \in Items \X Tenants
        OBVIOUS
      <3>2. about' \in [Feedbacks -> (Items \X Tenants) \cup {None}]
        BY <2>1, <3>1 DEF BeginFeedback
      <3> QED BY <2>1, <3>2 DEF BeginFeedback
    <2>2. ASSUME NEW f \in Feedbacks, EndFeedback(f)
          PROVE  RegistrationTypeOK'
      <3>1. judgement' \in [Feedbacks -> {"new", "open", "recorded", "missing", "error"}]
        BY <2>2 DEF EndFeedback
      <3>2. feedback' \subseteq Feedbacks
        BY <2>2 DEF EndFeedback
      <3> QED BY <2>2, <3>1, <3>2 DEF EndFeedback
    <2> QED BY <1>6, <2>1, <2>2 DEF FeedbackStep
  <1>7. ASSUME NEW x \in Items, DeleteItem(x)
        PROVE  RegistrationTypeOK'
    BY <1>7 DEF DeleteItem
  <1>8. CASE UNCHANGED registrationVars
    BY <1>8 DEF registrationVars
  <1> QED BY <1>1, <1>2, <1>3, <1>4, <1>5, <1>6, <1>7, <1>8, StepCases

LEMMA StepCounted == RegistrationTypeOK /\ Counted /\ [RegistrationNext]_registrationVars
                       => Counted'
  <1> SUFFICES ASSUME RegistrationTypeOK, Counted, [RegistrationNext]_registrationVars
               PROVE  Counted'
    OBVIOUS
  <1> USE DEF Counted, requestVars, feedbackVars
  <1>0. \A r \in Requests : added[r] \in Nat /\ inserted[r] \in Nat
    BY RegistrationAssumption DEF RegistrationTypeOK
  <1>1. ASSUME NEW r \in Requests, NEW t \in Tenants, NEW ids \in Batches, BeginRequest(r, t, ids)
        PROVE  Counted'
    <2>1. Len(ids) \in Nat
      BY BatchIsSeq, RegistrationAssumption
    <2> QED BY <1>0, <1>1, <2>1 DEF BeginRequest, RegistrationTypeOK
  <1>2. ASSUME NEW r \in Requests, NEW a \in {"invalid", "conflict", "error"}, RaiseStep(r, a)
        PROVE  Counted'
    BY <1>2 DEF RaiseStep, Raise, Open, RegistrationTypeOK
  <1>3. ASSUME NEW r \in Requests, Add(r)
        PROVE  Counted'
    BY <1>0, <1>3, BatchLen, RegistrationAssumption DEF Add, Unadded, Open, RegistrationTypeOK
  <1>4. ASSUME NEW r \in Requests, Insert(r)
        PROVE  Counted'
    BY <1>0, <1>4 DEF Insert, Flushing, RegistrationTypeOK
  <1>5. ASSUME NEW r \in Requests, Commit(r)
        PROVE  Counted'
    BY <1>5 DEF Commit, Open, RegistrationTypeOK
  <1>6. ASSUME FeedbackStep
        PROVE  Counted'
    BY <1>6 DEF FeedbackStep, BeginFeedback, EndFeedback
  <1>7. ASSUME NEW x \in Items, DeleteItem(x)
        PROVE  Counted'
    BY <1>7 DEF DeleteItem
  <1>8. CASE UNCHANGED registrationVars
    BY <1>8 DEF registrationVars
  <1> QED BY <1>1, <1>2, <1>3, <1>4, <1>5, <1>6, <1>7, <1>8, StepCases

LEMMA StepKept == BaseInv /\ [RegistrationNext]_registrationVars => KeptWhole'
  <1> SUFFICES ASSUME BaseInv, [RegistrationNext]_registrationVars
               PROVE  KeptWhole'
    OBVIOUS
  <1> USE DEF BaseInv, KeptWhole, requestVars, feedbackVars
  <1>1. ASSUME NEW r \in Requests, NEW t \in Tenants, NEW ids \in Batches, BeginRequest(r, t, ids)
        PROVE  KeptWhole'
    BY <1>1 DEF BeginRequest, RegistrationTypeOK
  <1>2. ASSUME NEW r \in Requests, NEW a \in {"invalid", "conflict", "error"}, RaiseStep(r, a)
        PROVE  KeptWhole'
    BY <1>2 DEF RaiseStep, Raise, Open, RegistrationTypeOK
  <1>3. ASSUME NEW r \in Requests, Add(r)
        PROVE  KeptWhole'
    BY <1>3 DEF Add
  <1>4. ASSUME NEW r \in Requests, Insert(r)
        PROVE  KeptWhole'
    BY <1>4 DEF Insert
  <1>5. ASSUME NEW r \in Requests, Commit(r)
        PROVE  KeptWhole'
    <2>1. inserted[r] = Len(batch[r]) /\ Open(r)
      BY <1>5 DEF Commit
    <2>2. ASSUME NEW s \in Requests, NEW i \in Indices
          PROVE  (<<s, i>> \in rows \cup deleted <=> status[s] = "created" /\ i <= Len(batch[s]))'
      <3>1. <<s, i>> \in rows' <=> <<s, i>> \in rows \/ (s = r /\ i <= Len(batch[r]))
        BY <1>5, <2>1, BatchLen, RegistrationAssumption DEF Commit, Indices
      <3> QED BY <1>5, <2>1, <3>1 DEF Commit, Open, RegistrationTypeOK
    <2> QED BY <2>2
  <1>6. ASSUME FeedbackStep
        PROVE  KeptWhole'
    BY <1>6 DEF FeedbackStep, BeginFeedback, EndFeedback
  <1>7. ASSUME NEW x \in Items, DeleteItem(x)
        PROVE  KeptWhole'
    BY <1>7 DEF DeleteItem
  <1>8. CASE UNCHANGED registrationVars
    BY <1>8 DEF registrationVars
  <1> QED BY <1>1, <1>2, <1>3, <1>4, <1>5, <1>6, <1>7, <1>8, StepCases

LEMMA StepBase == BaseInv /\ [RegistrationNext]_registrationVars => BaseInv'
  BY StepType, StepCounted, StepKept DEF BaseInv

\* The variables keep their types, and no session loses count of its items.
THEOREM RegistrationTypes == RegistrationSpec => []RegistrationTypeOK
  <1>1. RegistrationInit => BaseInv
    BY InitBase
  <1>2. BaseInv /\ [RegistrationNext]_registrationVars => BaseInv'
    BY StepBase
  <1> QED BY <1>1, <1>2, PTL DEF RegistrationSpec, BaseInv

-----------------------------------------------------------------------------
(* Names                                                                   *)

\* No step but the insertion adds to what is inserted, or changes what it is.
LEMMA StepUnique ==
  BaseInv /\ LiveUnique /\ [RegistrationNext]_registrationVars => LiveUnique'
  <1> SUFFICES ASSUME BaseInv, LiveUnique, [RegistrationNext]_registrationVars
               PROVE  LiveUnique'
    OBVIOUS
  <1> USE DEF requestVars, feedbackVars
  <1>0. ASSUME \A s \in Requests, j \in Indices : Live(s, j)' =>
                 Live(s, j) /\ tenant'[s] = tenant[s] /\ batch'[s] = batch[s]
        PROVE  LiveUnique'
    BY <1>0 DEF LiveUnique, Alike
  <1>1. ASSUME NEW r \in Requests, NEW t \in Tenants, NEW ids \in Batches, BeginRequest(r, t, ids)
        PROVE  LiveUnique'
    <2>1. ASSUME NEW s \in Requests, NEW j \in Indices, Live(s, j)'
          PROVE  Live(s, j) /\ tenant'[s] = tenant[s] /\ batch'[s] = batch[s]
      <3>1. s # r
        BY <1>1, <2>1, RegistrationAssumption
           DEF BeginRequest, Live, Open, BaseInv, RegistrationTypeOK, Counted, KeptWhole, Indices
      <3> QED BY <1>1, <2>1, <3>1 DEF BeginRequest, Live, Open, BaseInv, RegistrationTypeOK
    <2> QED BY <1>0, <2>1
  <1>2. ASSUME NEW r \in Requests, NEW a \in {"invalid", "conflict", "error"}, RaiseStep(r, a)
        PROVE  LiveUnique'
    BY <1>0, <1>2 DEF RaiseStep, Raise, Live, Open, BaseInv, RegistrationTypeOK
  <1>3. ASSUME NEW r \in Requests, Add(r)
        PROVE  LiveUnique'
    BY <1>0, <1>3 DEF Add, Live, Open
  <1>4. ASSUME NEW r \in Requests, Insert(r)
        PROVE  LiveUnique'
    <2> DEFINE n == inserted[r] + 1
    <2>1. /\ inserted[r] \in Nat /\ n \in Indices /\ n <= Len(batch[r])
          /\ UNCHANGED <<tenant, batch, status, rows>>
      BY <1>4, BatchLen, RegistrationAssumption
         DEF Insert, Flushing, BaseInv, RegistrationTypeOK, Counted, Indices
    <2>2. ASSUME NEW s \in Requests, NEW j \in Indices
          PROVE  Live(s, j)' <=> Live(s, j) \/ (s = r /\ j = n)
      BY <1>4, <2>1, RegistrationAssumption
         DEF Insert, Flushing, Live, Open, BaseInv, RegistrationTypeOK, Indices
    <2>3. ASSUME NEW s \in Requests, NEW j \in Indices,
                 Live(s, j), Alike(r, n, s, j), batch[r][n] # None
          PROVE  FALSE
      <3>1. Clashes(r, <<s, j>>)
        BY <2>3 DEF Clashes, ToInsert, TenantOf, ExternalIdOf, Alike
      <3>2. CASE <<s, j>> \in rows
        BY <1>4, <3>1, <3>2 DEF Insert, Violates
      <3>3. CASE Open(s) /\ j <= inserted[s]
        <4>1. j \in 1 .. inserted[s]
          BY <3>3, RegistrationAssumption DEF BaseInv, RegistrationTypeOK, Indices
        <4>2. CASE s = r
          BY <1>4, <3>1, <4>1, <4>2 DEF Insert, Violates
        <4>3. CASE s # r
          BY <1>4, <3>1, <3>3, <4>1, <4>3 DEF Insert, Waits
        <4> QED BY <4>2, <4>3
      <3> QED BY <2>3, <3>2, <3>3 DEF Live
    <2>4. ASSUME NEW s \in Requests, NEW j \in Indices, NEW u \in Requests, NEW k \in Indices,
                 Live(s, j)', Live(u, k)', Alike(s, j, u, k)', batch'[s][j] # None
          PROVE  s = u /\ j = k
      <3>1. Alike(s, j, u, k) /\ Alike(u, k, s, j) /\ batch[s][j] # None /\ batch[u][k] # None
        BY <2>1, <2>4 DEF Alike
      <3> QED BY <2>2, <2>3, <2>4, <3>1 DEF LiveUnique
    <2> QED BY <2>4 DEF LiveUnique
  <1>5. ASSUME NEW r \in Requests, Commit(r)
        PROVE  LiveUnique'
    <2>1. ASSUME NEW s \in Requests, NEW j \in Indices, Live(s, j)'
          PROVE  Live(s, j)
      BY <1>5, <2>1, RegistrationAssumption
         DEF Commit, Live, Open, BaseInv, RegistrationTypeOK, Indices
    <2> QED BY <1>0, <1>5, <2>1 DEF Commit
  <1>6. ASSUME FeedbackStep
        PROVE  LiveUnique'
    BY <1>0, <1>6 DEF FeedbackStep, BeginFeedback, EndFeedback, Live, Open
  <1>7. ASSUME NEW x \in Items, DeleteItem(x)
        PROVE  LiveUnique'
    BY <1>0, <1>7 DEF DeleteItem, Live, Open
  <1>8. CASE UNCHANGED registrationVars
    BY <1>0, <1>8 DEF registrationVars, Live, Open
  <1> QED BY <1>1, <1>2, <1>3, <1>4, <1>5, <1>6, <1>7, <1>8, StepCases

LEMMA InitUnique == RegistrationInit => LiveUnique
  BY DEF RegistrationInit, LiveUnique, Live, Open

LEMMA UniqueRows == BaseInv /\ LiveUnique => UniqueExternalId
  <1> SUFFICES ASSUME BaseInv, LiveUnique,
                      NEW x \in rows, NEW y \in rows,
                      TenantOf(x) = TenantOf(y), ExternalIdOf(x) = ExternalIdOf(y),
                      ExternalIdOf(x) # None
               PROVE  x = y
    BY DEF UniqueExternalId
  <1>1. x \in Items /\ y \in Items
    BY DEF BaseInv, RegistrationTypeOK
  <1>2. /\ x[1] \in Requests /\ x[2] \in Indices /\ x = <<x[1], x[2]>>
        /\ y[1] \in Requests /\ y[2] \in Indices /\ y = <<y[1], y[2]>>
    BY <1>1, ItemIsPair
  <1>3. Live(x[1], x[2]) /\ Live(y[1], y[2])
    BY <1>2 DEF Live
  <1>4. x[1] = y[1] /\ x[2] = y[2]
    BY <1>2, <1>3 DEF LiveUnique, Alike, TenantOf, ExternalIdOf
  <1> QED BY <1>2, <1>4

\* uq_items_tenant_ext and the waits for it: at no time have two committed items
\* of a tenant the same external id.
THEOREM NamesAreUnique == RegistrationSpec => []UniqueExternalId
  <1> DEFINE Inv == BaseInv /\ LiveUnique
  <1>1. RegistrationInit => Inv
    BY InitBase, InitUnique
  <1>2. Inv /\ [RegistrationNext]_registrationVars => Inv'
    BY StepBase, StepUnique
  <1>3. Inv => UniqueExternalId
    BY UniqueRows
  <1> QED BY <1>1, <1>2, <1>3, PTL DEF RegistrationSpec

LEMMA WholeBatches == BaseInv => BatchesAreWhole
  <1> SUFFICES ASSUME BaseInv, NEW r \in Requests
               PROVE  {x \in rows \cup deleted : x[1] = r} =
                        IF status[r] = "created" THEN {<<r, i>> : i \in 1 .. Len(batch[r])} ELSE {}
    BY DEF BatchesAreWhole
  <1>1. ASSUME NEW x \in rows \cup deleted, x[1] = r
        PROVE  status[r] = "created" /\ x \in {<<r, i>> : i \in 1 .. Len(batch[r])}
    <2>1. x[2] \in Indices /\ x = <<r, x[2]>>
      BY <1>1, ItemIsPair DEF BaseInv, RegistrationTypeOK
    <2>2. status[r] = "created" /\ x[2] <= Len(batch[r])
      BY <1>1, <2>1 DEF BaseInv, KeptWhole
    <2> QED BY <2>1, <2>2, BatchLen, RegistrationAssumption DEF BaseInv, Indices
  <1>2. ASSUME NEW i \in 1 .. Len(batch[r]), status[r] = "created"
        PROVE  <<r, i>> \in {x \in rows \cup deleted : x[1] = r}
    <2>1. i \in Indices /\ i <= Len(batch[r])
      BY BatchLen, RegistrationAssumption DEF BaseInv, Indices
    <2> QED BY <1>2, <2>1 DEF BaseInv, KeptWhole
  <1> QED BY <1>1, <1>2

\* One transaction for a batch: its items are registered together or not at all.
THEOREM BatchesStayWhole == RegistrationSpec => []BatchesAreWhole
  BY InitBase, StepBase, WholeBatches, PTL DEF RegistrationSpec

-----------------------------------------------------------------------------
(* Races                                                                   *)

LEMMA StepAccepted ==
  BaseInv /\ Accepted /\ [RegistrationNext]_registrationVars => Accepted'
  <1> SUFFICES ASSUME BaseInv, Accepted, [RegistrationNext]_registrationVars
               PROVE  Accepted'
    OBVIOUS
  <1> USE DEF requestVars, feedbackVars
  <1>0. ASSUME UNCHANGED <<batch, added>>
        PROVE  Accepted'
    BY <1>0 DEF Accepted, Named
  <1>1. ASSUME NEW r \in Requests, NEW t \in Tenants, NEW ids \in Batches, BeginRequest(r, t, ids)
        PROVE  Accepted'
    BY <1>1 DEF BeginRequest, Accepted, Named, BaseInv, Counted, RegistrationTypeOK
  <1>2. ASSUME NEW r \in Requests, NEW a \in {"invalid", "conflict", "error"}, RaiseStep(r, a)
        PROVE  Accepted'
    BY <1>0, <1>2 DEF RaiseStep, Raise
  <1>3. ASSUME NEW r \in Requests, Add(r)
        PROVE  Accepted'
    <2>1. /\ added[r] \in Nat
          /\ added' = [added EXCEPT ![r] = @ + 1]
          /\ batch' = batch
      BY <1>3, RegistrationAssumption DEF Add, BaseInv, RegistrationTypeOK
    <2>2. NextEntry(r) # BadType /\ NextEntry(r) \notin ExternalIds \cap Seen(r)
      BY <1>3, RegistrationAssumption DEF Add
    <2>3. ASSUME NEW i \in 1 .. added[r] + 1
          PROVE  i \in 1 .. added[r] \/ (i = added[r] + 1 /\ batch[r][i] = NextEntry(r))
      BY <2>1 DEF NextEntry
    <2>4. ASSUME NEW s \in Requests, NEW i \in 1 .. added'[s]
          PROVE  batch'[s][i] # BadType
      BY <2>1, <2>2, <2>3 DEF Accepted, BaseInv, RegistrationTypeOK
    <2>5. ASSUME NEW s \in Requests, NEW i \in 1 .. added'[s], NEW j \in 1 .. added'[s],
                 batch'[s][i] = batch'[s][j], Named(s, i)'
          PROVE  i = j
      BY <2>1, <2>2, <2>3, <2>5 DEF Accepted, Named, Seen, BaseInv, RegistrationTypeOK
    <2> QED BY <2>4, <2>5 DEF Accepted
  <1>4. ASSUME NEW r \in Requests, Insert(r)
        PROVE  Accepted'
    BY <1>0, <1>4 DEF Insert
  <1>5. ASSUME NEW r \in Requests, Commit(r)
        PROVE  Accepted'
    BY <1>0, <1>5 DEF Commit
  <1>6. ASSUME FeedbackStep
        PROVE  Accepted'
    BY <1>0, <1>6 DEF FeedbackStep, BeginFeedback, EndFeedback
  <1>7. ASSUME NEW x \in Items, DeleteItem(x)
        PROVE  Accepted'
    BY <1>0, <1>7 DEF DeleteItem
  <1>8. CASE UNCHANGED registrationVars
    BY <1>0, <1>8 DEF registrationVars
  <1> QED BY <1>1, <1>2, <1>3, <1>4, <1>5, <1>6, <1>7, <1>8, StepCases

LEMMA StepRivals ==
  BaseInv /\ RivalsKnown /\ [RegistrationNext]_registrationVars => RivalsKnown'
  <1> SUFFICES ASSUME BaseInv, RivalsKnown, [RegistrationNext]_registrationVars
               PROVE  RivalsKnown'
    OBVIOUS
  <1> USE DEF requestVars, feedbackVars
  <1>0. ASSUME rivals' = rivals, \A s \in Requests : Open(s)' => Open(s)
        PROVE  RivalsKnown'
    BY <1>0 DEF RivalsKnown
  <1>1. ASSUME NEW r \in Requests, NEW t \in Tenants, NEW ids \in Batches, BeginRequest(r, t, ids)
        PROVE  RivalsKnown'
    <2>1. \A s \in Requests : Open(s)' <=> Open(s) \/ s = r
      BY <1>1 DEF BeginRequest, Open, BaseInv, RegistrationTypeOK
    <2> QED BY <1>1, <2>1 DEF BeginRequest, RivalsKnown
  <1>2. ASSUME NEW r \in Requests, NEW a \in {"invalid", "conflict", "error"}, RaiseStep(r, a)
        PROVE  RivalsKnown'
    BY <1>0, <1>2 DEF RaiseStep, Raise, Open, BaseInv, RegistrationTypeOK
  <1>3. ASSUME NEW r \in Requests, Add(r)
        PROVE  RivalsKnown'
    BY <1>0, <1>3 DEF Add, Open
  <1>4. ASSUME NEW r \in Requests, Insert(r)
        PROVE  RivalsKnown'
    BY <1>0, <1>4 DEF Insert, Open
  <1>5. ASSUME NEW r \in Requests, Commit(r)
        PROVE  RivalsKnown'
    BY <1>0, <1>5 DEF Commit, Open, BaseInv, RegistrationTypeOK
  <1>6. ASSUME FeedbackStep
        PROVE  RivalsKnown'
    BY <1>0, <1>6 DEF FeedbackStep, BeginFeedback, EndFeedback, Open
  <1>7. ASSUME NEW x \in Items, DeleteItem(x)
        PROVE  RivalsKnown'
    BY <1>0, <1>7 DEF DeleteItem, Open
  <1>8. CASE UNCHANGED registrationVars
    BY <1>0, <1>8 DEF registrationVars, Open
  <1> QED BY <1>1, <1>2, <1>3, <1>4, <1>5, <1>6, <1>7, <1>8, StepCases

\* The lookup finds the rows that are there; those that come later are rivals'.
LEMMA StepRows ==
  BaseInv /\ RivalsKnown /\ RowsOfRivals /\ [RegistrationNext]_registrationVars => RowsOfRivals'
  <1> SUFFICES ASSUME BaseInv, RivalsKnown, RowsOfRivals, [RegistrationNext]_registrationVars
               PROVE  RowsOfRivals'
    OBVIOUS
  <1> USE DEF requestVars, feedbackVars
  <1>0. ASSUME \A s \in Requests : Open(s)' => Open(s),
               rows' \subseteq rows, UNCHANGED <<tenant, batch, added, rivals>>
        PROVE  RowsOfRivals'
    BY <1>0 DEF RowsOfRivals, Named, Alike
  <1>1. ASSUME NEW r \in Requests, NEW t \in Tenants, NEW ids \in Batches, BeginRequest(r, t, ids)
        PROVE  RowsOfRivals'
    <2>1. ASSUME NEW q \in Requests, NEW s \in Requests, NEW i \in Indices, NEW j \in Indices,
                 Open(q)', i <= added'[q], Named(q, i)', <<s, j>> \in rows', Alike(q, i, s, j)'
          PROVE  s \in rivals'[q]
      <3>1. rows' = rows /\ added' = added /\ added[r] = 0
        BY <1>1 DEF BeginRequest, BaseInv, Counted
      <3>2. q # r
        BY <2>1, <3>1, RegistrationAssumption DEF Indices
      <3>3. status[s] = "created" /\ s # r
        BY <1>1, <2>1, <3>1 DEF BeginRequest, BaseInv, KeptWhole
      <3>4. Open(q) /\ Named(q, i) /\ Alike(q, i, s, j)
        BY <1>1, <2>1, <3>2, <3>3 DEF BeginRequest, Open, Named, Alike, BaseInv, RegistrationTypeOK
      <3>5. s \in rivals[q]
        BY <2>1, <3>1, <3>4 DEF RowsOfRivals
      <3> QED BY <1>1, <3>2, <3>4, <3>5 DEF BeginRequest
    <2> QED BY <2>1 DEF RowsOfRivals
  <1>2. ASSUME NEW r \in Requests, NEW a \in {"invalid", "conflict", "error"}, RaiseStep(r, a)
        PROVE  RowsOfRivals'
    BY <1>0, <1>2 DEF RaiseStep, Raise, Open, BaseInv, RegistrationTypeOK
  <1>3. ASSUME NEW r \in Requests, Add(r)
        PROVE  RowsOfRivals'
    <2>1. /\ added[r] \in Nat
          /\ added' = [added EXCEPT ![r] = @ + 1]
          /\ UNCHANGED <<tenant, batch, status, rivals, rows>>
      BY <1>3, RegistrationAssumption DEF Add, BaseInv, RegistrationTypeOK
    <2>2. ASSUME NEW q \in Requests, NEW s \in Requests, NEW i \in Indices, NEW j \in Indices,
                 Open(q), i <= added'[q], Named(q, i), <<s, j>> \in rows, Alike(q, i, s, j)
          PROVE  s \in rivals[q]
      <3>1. CASE i <= added[q]
        BY <2>2, <3>1 DEF RowsOfRivals
      <3>2. CASE ~(i <= added[q])
        <4>1. q = r /\ i = added[r] + 1
          BY <2>1, <2>2, <3>2, RegistrationAssumption
             DEF Indices, BaseInv, RegistrationTypeOK
        <4>2. NextEntry(r) \in ExternalIds
          BY <2>2, <4>1 DEF Named, NextEntry
        <4>3. ~Found(r)
          BY <1>3, <4>2, RegistrationAssumption DEF Add
        <4>4. Found(r)
          BY <2>2, <4>1 DEF Found, Alike, TenantOf, ExternalIdOf, NextEntry
        <4> QED BY <4>3, <4>4
      <3> QED BY <3>1, <3>2
    <2> QED BY <2>1, <2>2 DEF RowsOfRivals, Open, Named, Alike
  <1>4. ASSUME NEW r \in Requests, Insert(r)
        PROVE  RowsOfRivals'
    BY <1>0, <1>4 DEF Insert, Open
  <1>5. ASSUME NEW r \in Requests, Commit(r)
        PROVE  RowsOfRivals'
    <2>1. ASSUME NEW q \in Requests, NEW s \in Requests, NEW i \in Indices, NEW j \in Indices,
                 Open(q)', i <= added'[q], Named(q, i)', <<s, j>> \in rows', Alike(q, i, s, j)'
          PROVE  s \in rivals'[q]
      <3>1. Open(q) /\ q # r /\ Open(r)
        BY <1>5, <2>1 DEF Commit, Open, BaseInv, RegistrationTypeOK
      <3>2. CASE s = r
        BY <1>5, <3>1, <3>2 DEF Commit, RivalsKnown
      <3>3. CASE s # r
        BY <1>5, <2>1, <3>1, <3>3 DEF Commit, RowsOfRivals, Named, Alike
      <3> QED BY <3>2, <3>3
    <2> QED BY <2>1 DEF RowsOfRivals
  <1>6. ASSUME FeedbackStep
        PROVE  RowsOfRivals'
    BY <1>0, <1>6 DEF FeedbackStep, BeginFeedback, EndFeedback, Open
  <1>7. ASSUME NEW x \in Items, DeleteItem(x)
        PROVE  RowsOfRivals'
    BY <1>0, <1>7 DEF DeleteItem, Open
  <1>8. CASE UNCHANGED registrationVars
    BY <1>0, <1>8 DEF registrationVars, Open
  <1> QED BY <1>1, <1>2, <1>3, <1>4, <1>5, <1>6, <1>7, <1>8, StepCases

LEMMA StepRace == BaseInv /\ RaceInv /\ [RegistrationNext]_registrationVars => RaceInv'
  BY StepAccepted, StepRivals, StepRows DEF RaceInv

LEMMA InitRace == RegistrationInit => RaceInv
  BY RegistrationAssumption
     DEF RegistrationInit, RaceInv, Accepted, RivalsKnown, RowsOfRivals, Open

-----------------------------------------------------------------------------
(* What requests are told                                                  *)

\* What was answered stays so, with the names it was about.
LEMMA AnswersStay ==
  ASSUME BaseInv, [RegistrationNext]_registrationVars,
         NEW r \in Requests, status[r] \in Answers
  PROVE  /\ status'[r] = status[r]
         /\ tenant'[r] = tenant[r]
         /\ batch'[r] = batch[r]
         /\ rivals'[r] = rivals[r]
  <1> USE DEF requestVars, feedbackVars, Answers, BaseInv, RegistrationTypeOK
  <1>1. ASSUME NEW s \in Requests, NEW t \in Tenants, NEW ids \in Batches, BeginRequest(s, t, ids)
        PROVE  /\ status'[r] = status[r] /\ tenant'[r] = tenant[r]
               /\ batch'[r] = batch[r] /\ rivals'[r] = rivals[r]
    <2>1. s # r /\ ~Open(r)
      BY <1>1 DEF BeginRequest, Open
    <2> QED BY <1>1, <2>1 DEF BeginRequest
  <1>2. ASSUME NEW s \in Requests, NEW a \in {"invalid", "conflict", "error"}, RaiseStep(s, a)
        PROVE  /\ status'[r] = status[r] /\ tenant'[r] = tenant[r]
               /\ batch'[r] = batch[r] /\ rivals'[r] = rivals[r]
    BY <1>2 DEF RaiseStep, Raise, Open
  <1>3. ASSUME NEW s \in Requests, Add(s) \/ Insert(s) \/ Commit(s)
        PROVE  /\ status'[r] = status[r] /\ tenant'[r] = tenant[r]
               /\ batch'[r] = batch[r] /\ rivals'[r] = rivals[r]
    BY <1>3 DEF Add, Insert, Commit, Open
  <1>4. CASE FeedbackStep \/ (\E x \in Items : DeleteItem(x)) \/ UNCHANGED registrationVars
    BY <1>4 DEF FeedbackStep, BeginFeedback, EndFeedback, DeleteItem, registrationVars
  <1> QED BY <1>1, <1>2, <1>3, <1>4, StepCases

\* Where a new answer comes from.
LEMMA NewAnswer ==
  ASSUME RegistrationTypeOK, [RegistrationNext]_registrationVars,
         NEW r \in Requests, NEW a \in {"conflict", "error"},
         status[r] # a, status'[r] = a
  PROVE  /\ Open(r)
         /\ \/ a = "conflict" /\ (RefuseRepeated(r) \/ RefuseFound(r))
            \/ a = "error" /\ (InsertFails(r) \/ BreakDeadlock(r))
         /\ UNCHANGED <<tenant, batch, rivals>>
         /\ \A s \in Requests \ {r} : status'[s] = status[s]
  <1> USE DEF requestVars, feedbackVars, RegistrationTypeOK
  <1>1. PICK s \in Requests : RequestStep(s)
    <2>1. ~\E s \in Requests, t \in Tenants, ids \in Batches : BeginRequest(s, t, ids)
      BY DEF BeginRequest
    <2>2. ~FeedbackStep /\ ~\E x \in Items : DeleteItem(x)
      BY DEF FeedbackStep, BeginFeedback, EndFeedback, DeleteItem
    <2>3. ~UNCHANGED registrationVars
      BY DEF registrationVars
    <2> QED BY <2>1, <2>2, <2>3 DEF RegistrationNext, FeedbackStep
  <1>2. ~Add(s) /\ ~Insert(s) /\ ~Commit(s)
    BY DEF Add, Insert, Commit
  <1>3. CASE RejectType(s)
    BY <1>3 DEF RejectType, Raise
  <1>4. CASE RefuseRepeated(s)
    <2>1. s = r /\ a = "conflict"
      BY <1>4 DEF RefuseRepeated, Raise
    <2> QED BY <1>4, <2>1 DEF RefuseRepeated, Raise, Unadded
  <1>5. CASE RefuseFound(s)
    <2>1. s = r /\ a = "conflict"
      BY <1>5 DEF RefuseFound, Raise
    <2> QED BY <1>5, <2>1 DEF RefuseFound, Raise, Unadded
  <1>6. CASE InsertFails(s)
    <2>1. s = r /\ a = "error"
      BY <1>6 DEF InsertFails, Raise
    <2> QED BY <1>6, <2>1 DEF InsertFails, Raise, Flushing
  <1>7. CASE BreakDeadlock(s)
    <2>1. s = r /\ a = "error"
      BY <1>7 DEF BreakDeadlock, Raise
    <2>2. Open(s)
      BY <1>7 DEF BreakDeadlock, Waits, Flushing
    <2>3. UNCHANGED <<tenant, batch, rivals>> /\ \A u \in Requests \ {s} : status'[u] = status[u]
      BY <1>7 DEF BreakDeadlock, Raise
    <2> QED BY <1>7, <2>1, <2>2, <2>3
  <1> QED BY <1>1, <1>2, <1>3, <1>4, <1>5, <1>6, <1>7 DEF RequestStep

LEMMA StepConflicts ==
  BaseInv /\ ConflictsAreReal /\ [RegistrationNext]_registrationVars => ConflictsAreReal'
  <1> SUFFICES ASSUME BaseInv, ConflictsAreReal, [RegistrationNext]_registrationVars,
                      NEW r \in Requests, status'[r] = "conflict"
               PROVE  \/ Repeats(r)'
                      \/ \E s \in Requests \ {r} : status'[s] = "created" /\ SameName(r, s)'
    BY DEF ConflictsAreReal
  <1>1. CASE status[r] = "conflict"
    <2>1. CASE Repeats(r)
      BY <1>1, <2>1, AnswersStay DEF Repeats, Answers
    <2>2. CASE \E s \in Requests \ {r} : status[s] = "created" /\ SameName(r, s)
      BY <1>1, <2>2, AnswersStay DEF SameName, Answers
    <2> QED BY <1>1, <2>1, <2>2 DEF ConflictsAreReal
  <1>2. CASE status[r] # "conflict"
    <2>1. /\ Open(r) /\ (RefuseRepeated(r) \/ RefuseFound(r))
          /\ UNCHANGED <<tenant, batch>>
          /\ \A s \in Requests \ {r} : status'[s] = status[s]
      BY <1>2, NewAnswer DEF BaseInv
    <2>2. added[r] \in Nat /\ added[r] + 1 \in 1 .. Len(batch[r]) /\ Len(batch[r]) \in Nat
      BY <2>1, BatchLen, RegistrationAssumption
         DEF RefuseRepeated, RefuseFound, Unadded, BaseInv, RegistrationTypeOK
    <2>3. CASE RefuseRepeated(r)
      <3>1. PICK i \in 1 .. added[r] : batch[r][i] = NextEntry(r)
        BY <2>3 DEF RefuseRepeated, Seen
      <3>2. i # added[r] + 1 /\ i \in 1 .. Len(batch[r])
        BY <2>2
      <3>3. batch[r][i] = batch[r][added[r] + 1] /\ batch[r][i] \in ExternalIds
        BY <2>3, <3>1 DEF RefuseRepeated, NextEntry
      <3> QED BY <2>1, <2>2, <3>2, <3>3 DEF Repeats
    <2>4. CASE RefuseFound(r)
      <3>1. PICK x \in rows : TenantOf(x) = tenant[r] /\ ExternalIdOf(x) = NextEntry(r)
        BY <2>4 DEF RefuseFound, Found
      <3>2. x[1] \in Requests /\ x[2] \in Indices /\ x = <<x[1], x[2]>>
        BY ItemIsPair DEF BaseInv, RegistrationTypeOK
      <3>3. status[x[1]] = "created" /\ x[2] <= Len(batch[x[1]])
        BY <3>2 DEF BaseInv, KeptWhole
      <3>4. x[1] # r /\ x[2] \in 1 .. Len(batch[x[1]])
        BY <2>1, <3>2, <3>3, BatchLen, RegistrationAssumption DEF Open, BaseInv, Indices
      <3>5. SameName(r, x[1])
        BY <2>2, <2>4, <3>1, <3>4
           DEF SameName, TenantOf, ExternalIdOf, NextEntry, RefuseFound
      <3> QED BY <2>1, <3>2, <3>3, <3>4, <3>5 DEF SameName
    <2> QED BY <2>1, <2>3, <2>4
  <1> QED BY <1>1, <1>2

\* An insertion fails, or waits in a cycle, only for the sake of a rival.
LEMMA RefusedByRival ==
  ASSUME BaseInv, RaceInv, NEW r \in Requests, Flushing(r),
         NEW s \in Requests, NEW j \in 1 .. Len(batch[s]), Clashes(r, <<s, j>>)
  PROVE  /\ s = r => ~(j <= inserted[r])
         /\ SameName(r, s)
         /\ <<s, j>> \in rows => s \in rivals[r]
  <1> DEFINE n == inserted[r] + 1
  <1>1. /\ inserted[r] \in Nat /\ added[r] \in Nat /\ Len(batch[r]) \in 0 .. MaxBatch
        /\ n \in 1 .. added[r] /\ n \in 1 .. Len(batch[r]) /\ n \in Indices
        /\ batch[r][n] \in Entries
    BY BatchLen, RegistrationAssumption
       DEF Flushing, BaseInv, RegistrationTypeOK, Counted, Indices
  <1>2. j \in Indices
    BY BatchLen, RegistrationAssumption DEF BaseInv, Indices
  <1>3. batch[r][n] \in ExternalIds /\ Alike(r, n, s, j)
    BY <1>1 DEF Clashes, ToInsert, TenantOf, ExternalIdOf, Alike, RaceInv, Accepted, Entries
  <1>4. SameName(r, s)
    BY <1>1, <1>3 DEF SameName, Alike
  <1>5. ASSUME s = r, j <= inserted[r]
        PROVE  FALSE
    <2>1. j \in 1 .. added[r] /\ j # n
      BY <1>1, <1>2, <1>5 DEF Indices
    <2> QED BY <1>1, <1>3, <1>5, <2>1 DEF RaceInv, Accepted, Named, Alike
  <1>6. <<s, j>> \in rows => s \in rivals[r]
    BY <1>1, <1>2, <1>3 DEF Flushing, RaceInv, RowsOfRivals, Named
  <1> QED BY <1>4, <1>5, <1>6

LEMMA StepErrors ==
  BaseInv /\ RaceInv /\ ErrorsComeFromRaces /\ [RegistrationNext]_registrationVars
    => ErrorsComeFromRaces'
  <1> SUFFICES ASSUME BaseInv, RaceInv, ErrorsComeFromRaces, [RegistrationNext]_registrationVars,
                      NEW r \in Requests, status'[r] = "error"
               PROVE  \E s \in rivals'[r] : SameName(r, s)'
    BY DEF ErrorsComeFromRaces
  <1>1. CASE status[r] = "error"
    <2>1. PICK s \in rivals[r] : SameName(r, s)
      BY <1>1 DEF ErrorsComeFromRaces
    <2>2. s \in Requests
      BY <2>1 DEF BaseInv, RegistrationTypeOK
    <2>3. status[s] # "new"
      BY <2>1, <2>2 DEF SameName, BaseInv, Counted
    <2>4. tenant'[s] = tenant[s] /\ batch'[s] = batch[s]
      <3>1. CASE status[s] \in Answers
        BY <2>2, <3>1, AnswersStay
      <3>2. CASE Open(s)
        <4> USE <3>2 DEF Open, requestVars, feedbackVars, BaseInv, RegistrationTypeOK
        <4>1. ASSUME NEW q \in Requests, NEW t \in Tenants, NEW ids \in Batches,
                     BeginRequest(q, t, ids)
              PROVE  tenant'[s] = tenant[s] /\ batch'[s] = batch[s]
          BY <2>2, <4>1 DEF BeginRequest
        <4>2. CASE \E q \in Requests, a \in {"invalid", "conflict", "error"} : RaiseStep(q, a)
          BY <4>2 DEF RaiseStep, Raise
        <4>3. CASE \E q \in Requests : Add(q) \/ Insert(q) \/ Commit(q)
          BY <4>3 DEF Add, Insert, Commit
        <4>4. CASE FeedbackStep \/ (\E x \in Items : DeleteItem(x)) \/ UNCHANGED registrationVars
          BY <4>4 DEF FeedbackStep, BeginFeedback, EndFeedback, DeleteItem, registrationVars
        <4> QED BY <4>1, <4>2, <4>3, <4>4, StepCases
      <3> QED BY <2>2, <2>3, <3>1, <3>2 DEF Open, BaseInv, RegistrationTypeOK
    <2>5. rivals'[r] = rivals[r] /\ tenant'[r] = tenant[r] /\ batch'[r] = batch[r]
      BY <1>1, AnswersStay DEF Answers
    <2> QED BY <2>1, <2>4, <2>5 DEF SameName
  <1>2. CASE status[r] # "error"
    <2>1. /\ Open(r) /\ (InsertFails(r) \/ BreakDeadlock(r))
          /\ UNCHANGED <<tenant, batch, rivals>>
      BY <1>2, NewAnswer DEF BaseInv
    <2>2. CASE InsertFails(r)
      <3>1. PICK x \in rows \cup {<<r, i>> : i \in 1 .. inserted[r]} : Clashes(r, x)
        BY <2>2 DEF InsertFails, Violates
      <3>2. CASE x \in rows
        <4>1. x[1] \in Requests /\ x[2] \in Indices /\ x = <<x[1], x[2]>>
          BY <3>2, ItemIsPair DEF BaseInv, RegistrationTypeOK
        <4>2. x[2] \in 1 .. Len(batch[x[1]])
          BY <3>2, <4>1, BatchLen, RegistrationAssumption DEF BaseInv, KeptWhole, Indices
        <4>3. SameName(r, x[1]) /\ x[1] \in rivals[r]
          BY <2>2, <3>1, <3>2, <4>1, <4>2, RefusedByRival DEF InsertFails
        <4> QED BY <2>1, <4>3 DEF SameName
      <3>3. CASE x \in {<<r, i>> : i \in 1 .. inserted[r]}
        <4>1. PICK i \in 1 .. inserted[r] : x = <<r, i>>
          BY <3>3
        <4>2. i \in 1 .. Len(batch[r]) /\ i <= inserted[r]
          BY BatchLen, RegistrationAssumption DEF BaseInv, RegistrationTypeOK, Counted
        <4> QED BY <2>2, <3>1, <4>1, <4>2, RefusedByRival DEF InsertFails
      <3> QED BY <3>1, <3>2, <3>3
    <2>3. CASE BreakDeadlock(r)
      <3>1. PICK s \in Requests : Waits(r, s)
        BY <2>3 DEF BreakDeadlock
      <3>2. PICK i \in 1 .. inserted[s] : Open(s) /\ Clashes(r, <<s, i>>)
        BY <3>1 DEF Waits
      <3>3. i \in 1 .. Len(batch[s])
        BY BatchLen, RegistrationAssumption DEF BaseInv, RegistrationTypeOK, Counted
      <3>4. SameName(r, s)
        BY <3>1, <3>2, <3>3, RefusedByRival DEF Waits
      <3>5. s \in rivals[r]
        BY <2>1, <3>1, <3>2 DEF Waits, RaceInv, RivalsKnown
      <3> QED BY <2>1, <3>4, <3>5 DEF SameName
    <2> QED BY <2>1, <2>2, <2>3
  <1> QED BY <1>1, <1>2

-----------------------------------------------------------------------------
(* Feedback                                                                *)

\* The item of a judgement is there, and has an owner that does not change.
LEMMA JudgedIsCreated ==
  ASSUME BaseInv, NEW x \in rows
  PROVE  x[1] \in Requests /\ status[x[1]] = "created"
  <1>1. x[1] \in Requests /\ x[2] \in Indices /\ x = <<x[1], x[2]>>
    BY ItemIsPair DEF BaseInv, RegistrationTypeOK
  <1> QED BY <1>1 DEF BaseInv, KeptWhole

LEMMA StepJudged ==
  BaseInv /\ JudgedItems /\ [RegistrationNext]_registrationVars => JudgedItems'
  <1> SUFFICES ASSUME BaseInv, JudgedItems, [RegistrationNext]_registrationVars
               PROVE  JudgedItems'
    OBVIOUS
  <1>0. \A f \in Feedbacks : about[f] \in Items \X Tenants => about[f][1][1] \in Requests
    BY ItemIsPair
  <1>1. ASSUME UNCHANGED <<about, judgement, feedback, rows>>
        PROVE  JudgedItems'
    <2>1. ASSUME NEW f \in Feedbacks, judgement[f] = "open" \/ f \in feedback
          PROVE  /\ TenantOf(about[f][1])' = TenantOf(about[f][1])
                 /\ status'[about[f][1][1]] = "created"
      BY <1>0, <1>1, <2>1, AnswersStay DEF JudgedItems, TenantOf, Answers
    <2> QED BY <1>1, <2>1 DEF JudgedItems
  <1>2. ASSUME NEW r \in Requests, NEW t \in Tenants, NEW ids \in Batches, BeginRequest(r, t, ids)
        PROVE  JudgedItems'
    BY <1>1, <1>2 DEF BeginRequest, feedbackVars
  <1>3. ASSUME NEW r \in Requests, NEW a \in {"invalid", "conflict", "error"}, RaiseStep(r, a)
        PROVE  JudgedItems'
    BY <1>1, <1>3 DEF RaiseStep, Raise, feedbackVars
  <1>4. ASSUME NEW r \in Requests, Add(r) \/ Insert(r)
        PROVE  JudgedItems'
    BY <1>1, <1>4 DEF Add, Insert, feedbackVars
  <1>5. ASSUME NEW r \in Requests, Commit(r)
        PROVE  JudgedItems'
    <2>1. ASSUME NEW f \in Feedbacks, judgement[f] = "open" \/ f \in feedback
          PROVE  status'[about[f][1][1]] = "created"
      BY <1>0, <2>1, AnswersStay DEF JudgedItems, Answers
    <2> QED BY <1>5, <2>1 DEF Commit, JudgedItems, feedbackVars, TenantOf
  <1>6. ASSUME NEW f \in Feedbacks, NEW x \in rows \cup deleted, NEW t \in Tenants,
               BeginFeedback(f, x, t)
        PROVE  JudgedItems'
    <2>1. x \in rows => status[x[1]] = "created"
      BY JudgedIsCreated
    <2>2. <<x, t>> \in Items \X Tenants /\ f \notin feedback
      <3>1. judgement[f] = "new" /\ (f \in feedback => judgement[f] = "recorded")
        BY <1>6 DEF BeginFeedback, JudgedItems
      <3> QED BY <3>1 DEF BaseInv, RegistrationTypeOK
    <2>3. /\ about' = [about EXCEPT ![f] = <<x, t>>]
          /\ judgement'[f] = "open" => x \in rows /\ TenantOf(x) = t
          /\ \A g \in Feedbacks \ {f} : judgement'[g] = judgement[g]
          /\ feedback' = feedback /\ rows' = rows /\ status' = status /\ tenant' = tenant
      BY <1>6 DEF BeginFeedback, requestVars, BaseInv, RegistrationTypeOK
    <2>4. ASSUME NEW g \in Feedbacks, g # f
          PROVE  about'[g] = about[g]
      BY <2>3, <2>4 DEF BaseInv, RegistrationTypeOK
    <2>5. about'[f] = <<x, t>>
      BY <2>3 DEF BaseInv, RegistrationTypeOK
    <2> QED BY <2>1, <2>2, <2>3, <2>4, <2>5 DEF JudgedItems, TenantOf
  <1>7. ASSUME NEW f \in Feedbacks, EndFeedback(f)
        PROVE  JudgedItems'
    BY <1>7 DEF EndFeedback, JudgedItems, TenantOf, requestVars, BaseInv, RegistrationTypeOK
  <1>8. ASSUME NEW x \in Items, DeleteItem(x)
        PROVE  JudgedItems'
    BY <1>8 DEF DeleteItem, JudgedItems, TenantOf, requestVars
  <1>9. CASE UNCHANGED registrationVars
    BY <1>1, <1>9 DEF registrationVars, feedbackVars
  <1> QED BY <1>2, <1>3, <1>4, <1>5, <1>6, <1>7, <1>8, <1>9, StepCases DEF FeedbackStep

LEMMA JudgedHaveItems == BaseInv /\ JudgedItems => FeedbackHasItem
  BY DEF BaseInv, RegistrationTypeOK, JudgedItems, FeedbackHasItem

-----------------------------------------------------------------------------
(* The invariant, and what follows from it                                 *)

LEMMA InitInv == RegistrationInit => RegistrationInv
  <1> SUFFICES ASSUME RegistrationInit PROVE RegistrationInv
    OBVIOUS
  <1>1. BaseInv /\ LiveUnique /\ RaceInv
    BY InitBase, InitUnique, InitRace
  <1>2. ConflictsAreReal /\ ErrorsComeFromRaces /\ JudgedItems
    BY DEF RegistrationInit, ConflictsAreReal, ErrorsComeFromRaces, JudgedItems
  <1> QED BY <1>1, <1>2 DEF RegistrationInv

LEMMA StepInv == RegistrationInv /\ [RegistrationNext]_registrationVars => RegistrationInv'
  BY StepBase, StepUnique, StepRace, StepConflicts, StepErrors, StepJudged DEF RegistrationInv

\* Every 409 has its reason in the batch or in a registration that succeeded.
THEOREM ConflictsTellTheTruth == RegistrationSpec => []ConflictsAreReal
  BY InitInv, StepInv, PTL DEF RegistrationSpec, RegistrationInv

\* A 500 goes only to requests that race for a name: the lookup answers all others.
THEOREM OnlyRacesFail == RegistrationSpec => []ErrorsComeFromRaces
  BY InitInv, StepInv, PTL DEF RegistrationSpec, RegistrationInv

\* Foreign key and cascade: no feedback outlives its item, or is of another tenant.
THEOREM FeedbackKeepsItsItem == RegistrationSpec => []FeedbackHasItem
  <1>1. RegistrationInv => FeedbackHasItem
    BY JudgedHaveItems DEF RegistrationInv
  <1> QED BY <1>1, InitInv, StepInv, PTL DEF RegistrationSpec

-----------------------------------------------------------------------------
(* Every request takes effect at one moment                                *)

USE DEF Catalog!registryVars, Catalog!Entries, Catalog!Batches

\* What an abstract answer leaves alone, and whom it is given.
LEMMA RaiseAnswers ==
  ASSUME NEW r \in Requests, NEW a, Open(r), Raise(r, a)
  PROVE  Catalog!Answer(r, a) /\ rows' = rows
  BY DEF Raise, Open, Catalog!Answer, Catalog!Open

\* A committing session holds no bad type and no name twice, and none of its
\* names is committed: it has inserted them all, next to the rows there are.
LEMMA CommitIsClean ==
  ASSUME RegistrationInv, NEW r \in Requests, Open(r), inserted[r] = Len(batch[r])
  PROVE  ~Catalog!Taken(r) /\ ~Catalog!Repeats(r) /\ ~Catalog!BadTyped(r)
  <1>1. added[r] = Len(batch[r]) /\ Len(batch[r]) \in 0 .. MaxBatch
    BY BatchLen, RegistrationAssumption
       DEF RegistrationInv, BaseInv, Counted, RegistrationTypeOK
  <1>2. ~Catalog!BadTyped(r)
    BY <1>1 DEF RegistrationInv, RaceInv, Accepted, Catalog!BadTyped
  <1>3. ~Catalog!Repeats(r)
    BY <1>1 DEF RegistrationInv, RaceInv, Accepted, Named, Catalog!Repeats, Catalog!Names
  <1>4. ASSUME NEW x \in rows, tenant[x[1]] = tenant[r], Catalog!NameOf(x) \in Catalog!Names(r)
        PROVE  FALSE
    <2>1. PICK i \in 1 .. Len(batch[r]) :
            batch[r][i] = batch[x[1]][x[2]] /\ batch[r][i] \in ExternalIds
      BY <1>4 DEF Catalog!NameOf, Catalog!Names
    <2>2. x[1] \in Requests /\ x[2] \in Indices /\ x = <<x[1], x[2]>>
      BY ItemIsPair DEF RegistrationInv, BaseInv, RegistrationTypeOK
    <2>3. Live(x[1], x[2]) /\ status[x[1]] = "created"
      BY <2>2 DEF Live, RegistrationInv, BaseInv, KeptWhole
    <2>4. i \in Indices /\ Live(r, i)
      BY <1>1, <2>1, RegistrationAssumption DEF Live, Indices
    <2>5. Alike(r, i, x[1], x[2]) /\ batch[r][i] # None
      BY <1>4, <2>1, RegistrationAssumption DEF Alike
    <2>6. r = x[1]
      BY <2>2, <2>3, <2>4, <2>5 DEF RegistrationInv, LiveUnique
    <2> QED BY <2>3, <2>6 DEF Open
  <1> QED BY <1>2, <1>3, <1>4 DEF Catalog!Taken

\* The item a request is refused for is one of its own.
LEMMA NextIsOwn ==
  ASSUME RegistrationInv, NEW r \in Requests, Unadded(r)
  PROVE  /\ added[r] + 1 \in 1 .. Len(batch[r]) /\ NextEntry(r) = batch[r][added[r] + 1]
         /\ added[r] \in Nat /\ Len(batch[r]) \in Nat
  BY BatchLen, RegistrationAssumption
     DEF Unadded, NextEntry, RegistrationInv, BaseInv, RegistrationTypeOK

LEMMA RefusalIsReal ==
  ASSUME RegistrationInv, NEW r \in Requests, RefuseRepeated(r) \/ RefuseFound(r)
  PROVE  Catalog!Taken(r) \/ Catalog!Repeats(r)
  <1>1. Unadded(r) /\ NextEntry(r) \in ExternalIds
    BY DEF RefuseRepeated, RefuseFound
  <1>2. NextEntry(r) \in Catalog!Names(r)
    BY <1>1, NextIsOwn DEF Catalog!Names
  <1>3. CASE RefuseRepeated(r)
    <2>1. PICK i \in 1 .. added[r] : batch[r][i] = NextEntry(r)
      BY <1>3 DEF RefuseRepeated, Seen
    <2>2. i # added[r] + 1 /\ i \in 1 .. Len(batch[r])
      BY <1>1, NextIsOwn
    <2> QED BY <1>1, <1>2, <2>1, <2>2, NextIsOwn DEF Catalog!Repeats
  <1>4. CASE RefuseFound(r)
    <2>1. PICK x \in rows : TenantOf(x) = tenant[r] /\ ExternalIdOf(x) = NextEntry(r)
      BY <1>4 DEF RefuseFound, Found
    <2> QED BY <1>2, <2>1 DEF Catalog!Taken, Catalog!NameOf, TenantOf, ExternalIdOf
  <1> QED BY <1>3, <1>4

\* Whoever fails has met a rival that wants one of its names.
LEMMA ErrorIsARace ==
  ASSUME RegistrationInv, [RegistrationNext]_registrationVars,
         NEW r \in Requests, Open(r), Raise(r, "error")
  PROVE  \E s \in rivals[r] : tenant[s] = tenant[r] /\ Catalog!Names(s) \cap Catalog!Names(r) # {}
  <1>1. status'[r] = "error" /\ UNCHANGED <<tenant, batch, rivals>>
    BY DEF Raise, RegistrationInv, BaseInv, RegistrationTypeOK
  <1>2. PICK s \in rivals[r] : SameName(r, s)
    BY <1>1, StepInv DEF RegistrationInv, ErrorsComeFromRaces, SameName
  <1>3. PICK i \in 1 .. Len(batch[r]), j \in 1 .. Len(batch[s]) :
          batch[r][i] = batch[s][j] /\ batch[r][i] \in ExternalIds
    BY <1>2 DEF SameName
  <1>4. batch[r][i] \in Catalog!Names(s) /\ batch[r][i] \in Catalog!Names(r)
    BY <1>3 DEF Catalog!Names
  <1> QED BY <1>2, <1>4 DEF SameName

\* Each step of a request is a moment of the abstract registry, or nothing to it.
LEMMA RequestMaps ==
  ASSUME RegistrationInv, [RegistrationNext]_registrationVars,
         NEW r \in Requests, RequestStep(r)
  PROVE  [Catalog!Next]_<<tenant, batch, status, rivals, rows>>
  <1>1. CASE RejectType(r)
    <2>1. Catalog!BadTyped(r)
      BY <1>1, NextIsOwn DEF RejectType, Catalog!BadTyped
    <2>2. Catalog!Reject(r)
      BY <1>1, <2>1, RaiseAnswers DEF RejectType, Unadded, Catalog!Reject
    <2> QED BY <2>2 DEF Catalog!Next
  <1>2. CASE RefuseRepeated(r) \/ RefuseFound(r)
    <2>1. Open(r) /\ Raise(r, "conflict")
      BY <1>2 DEF RefuseRepeated, RefuseFound, Unadded
    <2>2. Catalog!Refuse(r)
      BY <1>2, <2>1, RefusalIsReal, RaiseAnswers DEF Catalog!Refuse
    <2> QED BY <2>2 DEF Catalog!Next
  <1>3. CASE InsertFails(r) \/ BreakDeadlock(r)
    <2>1. Open(r) /\ Raise(r, "error")
      BY <1>3 DEF InsertFails, BreakDeadlock, Waits, Flushing
    <2>2. Catalog!Err(r)
      BY <2>1, ErrorIsARace, RaiseAnswers DEF Catalog!Err
    <2> QED BY <2>2 DEF Catalog!Next
  <1>4. CASE Add(r) \/ Insert(r)
    BY <1>4 DEF Add, Insert
  <1>5. CASE Commit(r)
    <2>1. Catalog!Answer(r, "created")
      BY <1>5 DEF Commit, Open, Catalog!Answer, Catalog!Open
    <2>2. rows' = rows \cup Catalog!ItemsOf(r)
      BY <1>5 DEF Commit, Catalog!ItemsOf
    <2>3. Catalog!Create(r)
      BY <1>5, <2>1, <2>2, CommitIsClean DEF Commit, Catalog!Create
    <2> QED BY <2>3 DEF Catalog!Next
  <1> QED BY <1>1, <1>2, <1>3, <1>4, <1>5 DEF RequestStep

LEMMA StepMaps ==
  RegistrationInv /\ [RegistrationNext]_registrationVars
    => [Catalog!Next]_<<tenant, batch, status, rivals, rows>>
  <1> SUFFICES ASSUME RegistrationInv, [RegistrationNext]_registrationVars
               PROVE  [Catalog!Next]_<<tenant, batch, status, rivals, rows>>
    OBVIOUS
  <1>1. ASSUME NEW r \in Requests, NEW t \in Tenants, NEW ids \in Batches, BeginRequest(r, t, ids)
        PROVE  [Catalog!Next]_<<tenant, batch, status, rivals, rows>>
    <2>1. Catalog!Begin(r, t, ids)
      BY <1>1 DEF BeginRequest, Open, Catalog!Begin, Catalog!Open
    <2> QED BY <2>1 DEF Catalog!Next, Batches, Entries
  <1>2. ASSUME NEW r \in Requests, RequestStep(r)
        PROVE  [Catalog!Next]_<<tenant, batch, status, rivals, rows>>
    BY <1>2, RequestMaps
  <1>3. CASE FeedbackStep
    BY <1>3 DEF FeedbackStep, BeginFeedback, EndFeedback, requestVars
  <1>4. ASSUME NEW x \in Items, DeleteItem(x)
        PROVE  [Catalog!Next]_<<tenant, batch, status, rivals, rows>>
    <2>1. Catalog!Delete(x) /\ x \in rows
      BY <1>4 DEF DeleteItem, requestVars, Catalog!Delete
    <2> QED BY <2>1 DEF Catalog!Next
  <1>5. CASE UNCHANGED registrationVars
    BY <1>5 DEF registrationVars, requestVars
  <1> QED BY <1>1, <1>2, <1>3, <1>4, <1>5 DEF RegistrationNext, FeedbackStep

\* Lookups, inserts, locks and commits spread over time, of any number of requests
\* that race, look like requests that each register or are refused at one moment.
THEOREM RegistrationIsAtomic == RegistrationSpec => RegistersAtOnce
  <1>1. RegistrationInit => Catalog!Init
    BY DEF RegistrationInit, Catalog!Init
  <1>2. RegistrationInv /\ [RegistrationNext]_registrationVars
          => [Catalog!Next]_(Catalog!registryVars)
    BY StepMaps
  <1> QED BY <1>1, <1>2, InitInv, StepInv, PTL DEF RegistrationSpec, RegistersAtOnce, Catalog!Spec
=============================================================================
