---------------------------- MODULE ClientProofs ----------------------------
(***************************************************************************)
(* What the scripts that call the services promise: provisioning, for any  *)
(* number of people and names; the smoke test, for any number of polls;    *)
(* the upload script, for any files and any number of retries and polls.   *)
(***************************************************************************)
EXTENDS Provisioning, Uploads, SmokeTest, FiniteSetTheorems, TLAPS

-----------------------------------------------------------------------------
(* Provisioning                                                            *)

ProvisioningTypeOK ==
  /\ doing \in [Scripts -> {"new", "look", "insert", "issue"} \cup Ended]
  /\ typed \in [Scripts -> Typed]
  /\ tenants \in [Scripts -> TenantRow \cup {NoTenant}]
  /\ withKey \subseteq Scripts
  /\ faulty \subseteq Scripts

\* Where a run has come to, and what is stored.
RunsMatchTenants ==
  \A s \in Scripts :
    /\ tenants[s] # NoTenant =>
         /\ NameOf(s) # Blank /\ tenants[s].name = NameOf(s)
         /\ doing[s] \in {"issue", "printed", "stopped"}
    /\ doing[s] = "printed" => tenants[s] # NoTenant /\ s \in withKey
    /\ doing[s] = "issue" => tenants[s] # NoTenant
    /\ doing[s] \in {"insert", "taken", "error"} => NameOf(s) # Blank
    /\ doing[s] \in {"taken", "error"} => Taken(s)
    /\ doing[s] = "invalid" => NameOf(s) = Blank
    /\ doing[s] = "stopped" => s \in faulty

NamesAreUnique ==
  \A s, u \in Scripts :
    tenants[s].name = tenants[u].name /\ tenants[s].name # Blank => s = u

ProvisioningInv == ProvisioningTypeOK /\ RunsMatchTenants /\ NamesAreUnique

LEMMA ProvisioningInitInv == ProvisioningInit => ProvisioningInv
  <1> SUFFICES ASSUME ProvisioningInit PROVE ProvisioningInv
    OBVIOUS
  <1>1. \A s \in Scripts : doing[s] = "new" /\ tenants[s] = NoTenant
    BY DEF ProvisioningInit
  <1>2. ProvisioningTypeOK
    BY DEF ProvisioningInit, ProvisioningTypeOK
  <1> QED BY <1>1, <1>2
        DEF ProvisioningInv, RunsMatchTenants, NamesAreUnique, NoTenant

LEMMA ProvisioningStepInv ==
  ProvisioningInv /\ [ProvisioningNext]_provisioningVars => ProvisioningInv'
  <1> SUFFICES ASSUME ProvisioningInv, [ProvisioningNext]_provisioningVars
               PROVE  ProvisioningInv'
    OBVIOUS
  <1> USE DEF ProvisioningInv, ProvisioningTypeOK, Ended, Does
  <1>1. CASE UNCHANGED provisioningVars
    BY <1>1 DEF provisioningVars, RunsMatchTenants, NamesAreUnique, Taken, NameOf
  <1> SUFFICES ASSUME NEW s \in Scripts,
                      \/ RunScript(s) \/ LookUpName(s) \/ InsertTenant(s)
                      \/ InsertClashes(s) \/ IssueFirstKey(s) \/ PostFails(s)
               PROVE  ProvisioningInv'
    BY <1>1 DEF ProvisioningNext
  <1>a. \A u \in Scripts : NameOf(u)' = NameOf(u)
    BY DEF NameOf, RunScript, LookUpName, InsertTenant, InsertClashes,
           IssueFirstKey, PostFails
  <1>n. NameOf(s) # Blank => NameOf(s) \in Names
    BY DEF NameOf, Names
  <1>2. ProvisioningTypeOK'
    BY <1>n DEF RunScript, LookUpName, InsertTenant, InsertClashes, IssueFirstKey,
           PostFails, TenantRow, RunsMatchTenants
  <1>3. CASE UNCHANGED tenants
    <2>1. \A u \in Scripts : Taken(u)' = Taken(u)
      BY <1>3, <1>a DEF Taken
    <2>2. RunsMatchTenants'
      <3> SUFFICES ASSUME NEW u \in Scripts
                   PROVE  /\ tenants[u] # NoTenant =>
                               /\ NameOf(u) # Blank /\ tenants[u].name = NameOf(u)
                               /\ doing'[u] \in {"issue", "printed", "stopped"}
                          /\ doing'[u] = "printed" => tenants[u] # NoTenant /\ u \in withKey'
                          /\ doing'[u] = "issue" => tenants[u] # NoTenant
                          /\ doing'[u] \in {"insert", "taken", "error"} => NameOf(u) # Blank
                          /\ doing'[u] \in {"taken", "error"} => Taken(u)
                          /\ doing'[u] = "invalid" => NameOf(u) = Blank
                          /\ doing'[u] = "stopped" => u \in faulty'
        BY <1>3, <1>a, <2>1 DEF RunsMatchTenants
      <3>1. CASE u # s
        BY <3>1 DEF RunsMatchTenants, RunScript, LookUpName, InsertTenant,
                    InsertClashes, IssueFirstKey, PostFails
      <3>2. CASE u = s /\ LookUpName(s)
        BY <3>2 DEF RunsMatchTenants, LookUpName
      <3>3. CASE u = s /\ InsertTenant(s)
        BY <1>3, <3>3 DEF RunsMatchTenants, InsertTenant, Taken
      <3> QED BY <3>1, <3>2, <3>3 DEF RunsMatchTenants, RunScript, InsertClashes,
                 IssueFirstKey, PostFails
    <2>3. NamesAreUnique'
      BY <1>3 DEF NamesAreUnique
    <2> QED BY <1>2, <2>2, <2>3
  <1>4. CASE InsertTenant(s)
    <2>1. /\ tenants'[s] = [name |-> NameOf(s)] /\ tenants'[s].name = NameOf(s)
          /\ \A u \in Scripts \ {s} : tenants'[u] = tenants[u]
      BY <1>4 DEF InsertTenant
    <2>2. NameOf(s) # Blank /\ tenants[s] = NoTenant
      BY <1>4 DEF InsertTenant, RunsMatchTenants
    <2>3. \A u \in Scripts : Taken(u) => Taken(u)'
      BY <1>a, <2>1, <2>2 DEF Taken, NoTenant, RunsMatchTenants
    <2>4. RunsMatchTenants'
      <3> SUFFICES ASSUME NEW u \in Scripts
                   PROVE  /\ tenants'[u] # NoTenant =>
                               /\ NameOf(u) # Blank /\ tenants'[u].name = NameOf(u)
                               /\ doing'[u] \in {"issue", "printed", "stopped"}
                          /\ doing'[u] = "printed" => tenants'[u] # NoTenant /\ u \in withKey
                          /\ doing'[u] = "issue" => tenants'[u] # NoTenant
                          /\ doing'[u] \in {"insert", "taken", "error"} => NameOf(u) # Blank
                          /\ doing'[u] \in {"taken", "error"} => Taken(u)
                          /\ doing'[u] = "invalid" => NameOf(u) = Blank
                          /\ doing'[u] = "stopped" => u \in faulty'
        BY <1>4, <1>a, <2>3 DEF RunsMatchTenants, InsertTenant
      <3>1. CASE u # s
        BY <1>4, <2>1, <3>1 DEF RunsMatchTenants, InsertTenant
      <3>2. CASE u = s
        <4>1. tenants'[s] # NoTenant
          BY <2>1, <2>2 DEF NoTenant
        <4> QED BY <1>4, <2>1, <2>2, <3>2, <4>1 DEF InsertTenant
      <3> QED BY <3>1, <3>2
    <2>5. NamesAreUnique'
      BY <1>4, <2>1, <2>2 DEF NamesAreUnique, InsertTenant, Taken
    <2> QED BY <1>2, <2>4, <2>5
  <1> QED BY <1>3, <1>4
        DEF RunScript, LookUpName, InsertClashes, IssueFirstKey, PostFails

\* However many people provision one name at once, and whatever calls fail: a name
\* has one tenant at most, and one of them gets its key unless a fault stops one.
THEOREM NamesHaveOneKey == ProvisioningSpec => []OneKeyPerName
  <1>1. ASSUME ProvisioningInv PROVE OneKeyPerName
    <2> USE DEF ProvisioningInv, ProvisioningTypeOK
    <2> SUFFICES ASSUME NEW n \in Names
                 PROVE  LET asked == {s \in Scripts : NameOf(s) = n /\ doing[s] # "new"}
                            printed == {s \in asked : doing[s] = "printed"}
                        IN /\ Cardinality({s \in Scripts : tenants[s].name = n}) <= 1
                           /\ \A s \in printed : s \in withKey /\ tenants[s].name = n
                           /\ asked # {} /\ asked \cap faulty = {}
                                /\ (\A s \in asked : doing[s] \in Ended)
                                => Cardinality(printed) = 1
      BY <1>1 DEF OneKeyPerName
    <2> DEFINE asked == {s \in Scripts : NameOf(s) = n /\ doing[s] # "new"}
               printed == {s \in asked : doing[s] = "printed"}
               named == {s \in Scripts : tenants[s].name = n}
    <2>1. n # Blank
      BY DEF Names
    <2>2. Cardinality(named) <= 1
      <3>1. CASE named = {}
        <4>1. Cardinality({}) = 0
          BY FS_EmptySet
        <4> QED BY <3>1, <4>1
      <3>2. CASE named # {}
        <4>1. PICK s \in named : TRUE
          BY <3>2
        <4>2. named = {s}
          BY <1>1, <2>1 DEF NamesAreUnique
        <4>3. Cardinality({s}) = 1
          BY FS_Singleton
        <4> HIDE DEF named
        <4> QED BY <4>2, <4>3
      <3> QED BY <3>1, <3>2
    <2>3. \A s \in printed : s \in withKey /\ tenants[s].name = n
      BY <1>1 DEF RunsMatchTenants
    <2>4. ASSUME asked # {}, asked \cap faulty = {}, \A s \in asked : doing[s] \in Ended
          PROVE  Cardinality(printed) = 1
      <3>1. PICK s \in asked : TRUE
        BY <2>4
      <3>2. CASE doing[s] = "printed"
        <4>1. s \in printed
          BY <3>2
        <4>2. printed = {s}
          BY <1>1, <2>1, <2>3, <4>1 DEF NamesAreUnique
        <4> QED BY <4>2, FS_Singleton
      <3>3. CASE doing[s] # "printed"
        <4>1. doing[s] \in {"taken", "error"}
          BY <1>1, <2>1, <2>4, <3>1, <3>3 DEF RunsMatchTenants, Ended
        <4>2. PICK u \in Scripts : tenants[u].name = n
          BY <1>1, <3>1, <4>1 DEF RunsMatchTenants, Taken
        <4>3. tenants[u] # NoTenant
          BY <2>1, <4>2 DEF NoTenant
        <4>4. u \in asked /\ doing[u] \in {"printed", "stopped", "issue"}
          BY <1>1, <4>2, <4>3 DEF RunsMatchTenants
        <4>5. u \in printed
          BY <1>1, <2>4, <4>4 DEF RunsMatchTenants, Ended
        <4>6. printed = {u}
          BY <1>1, <2>1, <2>3, <4>5 DEF NamesAreUnique
        <4> QED BY <4>6, FS_Singleton
      <3> QED BY <3>2, <3>3
    <2> QED BY <2>2, <2>3, <2>4
  <1> QED BY <1>1, ProvisioningInitInv, ProvisioningStepInv, PTL DEF ProvisioningSpec

-----------------------------------------------------------------------------
(* The smoke test                                                          *)

Settled == {"queued", "indexed", "failed"}

\* How far the test is with its first two items, and what the catalog holds of them.
FirstItem ==
  /\ smoked["blue"] = "absent" /\ smoked["red-dup"] = "absent"
  /\ \/ at \in {"provision", "register"} /\ smoked["red"] = "absent"
     \/ at = "put" /\ smoked["red"] = "pending_upload"
     \/ at = "confirm" /\ smoked["red"] = "stored"

SecondItem ==
  /\ smoked["red"] \in Settled /\ smoked["red-dup"] = "absent"
  /\ \/ at = "register" /\ smoked["blue"] = "absent"
     \/ at = "put" /\ smoked["blue"] = "pending_upload"
     \/ at = "confirm" /\ smoked["blue"] = "stored"
     \/ at = "wait" /\ smoked["blue"] \in Settled
     \/ at \in {"search", "filter"} /\ smoked["red"] = "indexed" /\ smoked["blue"] = "indexed"
  /\ ~broken => smoked["red"] # "failed" /\ smoked["blue"] # "failed"

\* Of the item that was uploaded twice, the answers are not checked.
ThirdItem ==
  /\ smoked["red"] = "indexed" /\ smoked["blue"] = "indexed"
  /\ \/ at = "register" /\ smoked["red-dup"] = "absent"
     \/ at = "put" /\ smoked["red-dup"] = "pending_upload"
     \/ at = "confirm" /\ smoked["red-dup"] \in {"pending_upload", "stored"}
     \/ at = "wait" /\ smoked["red-dup"] \in {"pending_upload", "stored", "queued",
                                              "duplicate", "failed"}
     \/ at = "feedback" /\ smoked["red-dup"] = "duplicate"
  /\ ~broken /\ at = "confirm" => smoked["red-dup"] = "stored"
  /\ ~broken /\ at = "wait" => smoked["red-dup"] \in {"queued", "duplicate"}

SmokeInv ==
  /\ SmokeTypeOK
  /\ VerdictIsRight
  /\ verdict = "running" =>
       \/ label = "red" /\ FirstItem
       \/ label = "blue" /\ SecondItem
       \/ label = "red-dup" /\ ThirdItem

LEMMA SmokeInitInv == SmokeInit => SmokeInv
  <1> SUFFICES ASSUME SmokeInit PROVE SmokeInv
    OBVIOUS
  <1>1. waits \in 0 .. MaxWaits - 1
    BY SmokeAssumption DEF SmokeInit
  <1>2. SmokeTypeOK
    BY <1>1 DEF SmokeInit, SmokeTypeOK, SmokeItems
  <1>3. FirstItem
    BY DEF SmokeInit, FirstItem, SmokeItems
  <1> QED BY <1>2, <1>3 DEF SmokeInit, SmokeInv, VerdictIsRight

\* The test's own steps.
LEMMA TestKeepsInv ==
  ASSUME SmokeInv, SmokeStep
  PROVE  SmokeInv'
  <1> USE SmokeAssumption
  <1>0. verdict = "running" /\ waits \in 0 .. MaxWaits - 1 /\ MaxWaits \in Nat \ {0}
    BY DEF SmokeStep, Provision, RegisterItem, PutBytes, ConfirmItem, ConfirmRefused,
           Wait, SearchRed, SearchBlue, Feedback, CallBreaks, At, SmokeInv, SmokeTypeOK
  <1> USE DEF At, Then, Becomes, CheckFails, SmokeItems
  <1>1. SmokeTypeOK'
    <2> USE DEF SmokeStep, Provision, RegisterItem, PutBytes, ConfirmItem, ConfirmRefused,
                Wait, SearchRed, SearchBlue, Feedback, CallBreaks
    <2>1. waits' \in 0 .. MaxWaits - 1
      BY <1>0
    <2>2. judged' \in BOOLEAN /\ broken' \in BOOLEAN
      BY DEF SmokeInv, SmokeTypeOK
    <2>3. verdict' \in {"running", "passed", "failed"}
      BY <1>0
    <2>4. /\ label' \in SmokeItems
          /\ at' \in {"provision", "register", "put", "confirm", "wait", "search", "filter",
                       "feedback"}
      BY DEF SmokeInv, SmokeTypeOK
    <2>5. smoked' \in [SmokeItems -> {"absent", "pending_upload", "stored", "queued",
                                      "indexed", "duplicate", "failed"}]
      BY DEF SmokeInv, SmokeTypeOK
    <2> QED BY <2>1, <2>2, <2>3, <2>4, <2>5 DEF SmokeTypeOK
  <1>t. smoked \in [{"red", "blue", "red-dup"} ->
                      {"absent", "pending_upload", "stored", "queued", "indexed",
                       "duplicate", "failed"}]
    BY DEF SmokeInv, SmokeTypeOK
  <1> USE DEF FirstItem, SecondItem, ThirdItem, Settled
  <1>i. \/ label = "red" /\ FirstItem
        \/ label = "blue" /\ SecondItem
        \/ label = "red-dup" /\ ThirdItem
    BY <1>0 DEF SmokeInv
  <1> DEFINE Stays == \/ label' = "red" /\ FirstItem'
                      \/ label' = "blue" /\ SecondItem'
                      \/ label' = "red-dup" /\ ThirdItem'
  <1>2. ASSUME verdict' = "running", Stays PROVE SmokeInv'
    BY <1>1, <1>2 DEF SmokeInv, VerdictIsRight
  <1>3. ASSUME verdict' = "failed", broken' PROVE SmokeInv'
    BY <1>1, <1>3 DEF SmokeInv, VerdictIsRight
  <1>4. CASE Provision
    <2>1. Stays
      BY <1>i, <1>4 DEF Provision
    <2> QED BY <1>2, <1>4, <2>1 DEF Provision
  <1>5. CASE RegisterItem
    <2>1. Stays
      BY <1>i, <1>t, <1>5 DEF RegisterItem
    <2> QED BY <1>2, <1>5, <2>1 DEF RegisterItem
  <1>6. CASE PutBytes
    <2>1. Stays
      BY <1>i, <1>t, <1>6 DEF PutBytes
    <2> QED BY <1>2, <1>6, <2>1 DEF PutBytes
  <1>7. CASE ConfirmItem
    <2>1. Stays
      BY <1>i, <1>t, <1>7 DEF ConfirmItem
    <2> QED BY <1>2, <1>7, <2>1 DEF ConfirmItem
  <1>8. CASE ConfirmRefused
    <2>1. Stays
      BY <1>i, <1>t, <1>8 DEF ConfirmRefused
    <2> QED BY <1>2, <1>8, <2>1 DEF ConfirmRefused
  <1>9. CASE Wait
    <2>1. CASE AllAreDone
      <3>1. Stays
        BY <1>i, <1>t, <1>9, <2>1 DEF Wait, AllAreDone, Awaited, Target
      <3> QED BY <1>2, <1>9, <2>1, <3>1, <1>0 DEF Wait
    <2>2. CASE ~AllAreDone /\ verdict' = verdict
      <3>1. Stays
        BY <1>i, <1>t, <1>9, <2>2, <1>0 DEF Wait
      <3> QED BY <1>0, <1>2, <2>2, <3>1
    <2>3. CASE ~AllAreDone /\ verdict' # verdict
      <3>1. verdict' = "failed" /\ broken' = (broken \/ \E l \in Awaited : smoked[l] = "queued")
        BY <1>0, <1>9, <2>3 DEF Wait
      <3>2. broken \/ \E l \in Awaited : smoked[l] = "queued"
        BY <1>i, <1>t, <1>9, <2>3 DEF Wait, AllAreDone, Awaited, Target
      <3> QED BY <1>3, <3>1, <3>2
    <2> QED BY <2>1, <2>2, <2>3
  <1>10. CASE SearchRed
    <2>1. label = "blue" /\ SecondItem /\ at = "search"
      BY <1>i, <1>10 DEF SearchRed
    <2>2. Hits = {"red", "blue"}
      BY <2>1, <1>t DEF Hits
    <2>3. Nearest = {"red"}
      BY <2>2 DEF Nearest, SamePicture
    <2>4. Stays
      BY <1>10, <2>1 DEF SearchRed
    <2> QED BY <1>0, <1>2, <1>10, <2>3, <2>4 DEF SearchRed
  <1>11. CASE SearchBlue
    <2>1. Stays
      BY <1>i, <1>11 DEF SearchBlue
    <2> QED BY <1>2, <1>11, <2>1 DEF SearchBlue
  <1>12. CASE Feedback
    <2>1. ThirdItem /\ at = "feedback"
      BY <1>i, <1>12 DEF Feedback
    <2>2. smoked = [l \in SmokeItems |-> IF l = "red-dup" THEN "duplicate" ELSE "indexed"]
      BY <1>t, <2>1
    <2> QED BY <1>1, <1>12, <2>2 DEF Feedback, SmokeInv, VerdictIsRight
  <1>13. CASE CallBreaks
    <2>1. CASE CheckFails
      BY <1>3, <1>13, <2>1 DEF CallBreaks
    <2>2. CASE ~CheckFails
      <3>1. verdict' = "running"
        BY <1>0, <1>13, <2>2 DEF CallBreaks
      <3>2. Stays
        BY <1>i, <1>13, <2>2 DEF CallBreaks, Unchecked
      <3> QED BY <1>2, <3>1, <3>2
    <2> QED BY <2>1, <2>2
  <1> QED BY <1>4, <1>5, <1>6, <1>7, <1>8, <1>9, <1>10, <1>11, <1>12, <1>13
        DEF SmokeStep

\* The worker's.
LEMMA WorkerKeepsInv ==
  ASSUME SmokeInv, NEW l \in SmokeItems, Process(l) \/ ProcessFails(l)
  PROVE  SmokeInv'
  <1> USE DEF FirstItem, SecondItem, ThirdItem, Settled, SmokeItems
  <1>1. SmokeTypeOK'
    <2>1. smoked' \in [SmokeItems -> {"absent", "pending_upload", "stored", "queued",
                                      "indexed", "duplicate", "failed"}]
      BY DEF SmokeInv, SmokeTypeOK, Process, ProcessFails
    <2>2. UNCHANGED <<at, label, waits, verdict, judged>> /\ broken' \in BOOLEAN
      BY DEF SmokeInv, SmokeTypeOK, Process, ProcessFails
    <2> QED BY <2>1, <2>2 DEF SmokeInv, SmokeTypeOK
  <1>t. smoked \in [{"red", "blue", "red-dup"} ->
                      {"absent", "pending_upload", "stored", "queued", "indexed",
                       "duplicate", "failed"}]
    BY DEF SmokeInv, SmokeTypeOK
  <1>2. UNCHANGED <<at, label, verdict, judged>> /\ (broken => broken')
    BY DEF Process, ProcessFails, SmokeInv, SmokeTypeOK
  <1>3. CASE verdict # "running"
    <2>1. verdict = "passed" => smoked' = smoked
      BY <1>t DEF SmokeInv, VerdictIsRight, Process, ProcessFails
    <2> QED BY <1>1, <1>2, <1>3, <2>1 DEF SmokeInv, VerdictIsRight
  <1>4. CASE verdict = "running"
    <2>1. \/ /\ l = "red" /\ smoked'["red"] \in {"indexed", "failed"}
             /\ smoked'["blue"] = smoked["blue"]
             /\ smoked'["red-dup"] = smoked["red-dup"]
          \/ /\ l = "blue" /\ smoked'["blue"] \in {"indexed", "failed"}
             /\ smoked'["red"] = smoked["red"]
             /\ smoked'["red-dup"] = smoked["red-dup"]
          \/ /\ l = "red-dup" /\ smoked'["red-dup"] \in {"duplicate", "failed"}
             /\ smoked'["red"] = smoked["red"]
             /\ smoked'["blue"] = smoked["blue"]
      <3>1. CASE Process(l)
        BY <1>t, <1>4, <3>1 DEF SmokeInv, Process, SamePicture
      <3>2. CASE ProcessFails(l)
        BY <1>t, <1>4, <3>2 DEF SmokeInv, ProcessFails
      <3> QED BY <3>1, <3>2
    <2>2. smoked'[l] = "failed" => broken'
      BY <1>t DEF Process, ProcessFails
    <2>3. smoked[l] = "queued"
      BY DEF Process, ProcessFails
    <2>4. \/ label' = "red" /\ FirstItem'
          \/ label' = "blue" /\ SecondItem'
          \/ label' = "red-dup" /\ ThirdItem'
      BY <1>2, <1>4, <2>1, <2>2, <2>3 DEF SmokeInv
    <2> QED BY <1>1, <1>2, <1>4, <2>4 DEF SmokeInv, VerdictIsRight
  <1> QED BY <1>3, <1>4

LEMMA SmokeStepInv == SmokeInv /\ [SmokeNext]_smokeVars => SmokeInv'
  <1> SUFFICES ASSUME SmokeInv, [SmokeNext]_smokeVars PROVE SmokeInv'
    OBVIOUS
  <1>1. CASE UNCHANGED smokeVars
    BY <1>1 DEF smokeVars, SmokeInv, SmokeTypeOK, VerdictIsRight, FirstItem, SecondItem,
                ThirdItem
  <1> QED BY <1>1, TestKeepsInv, WorkerKeepsInv DEF SmokeNext

\* Every variable of the smoke test keeps its type.
THEOREM SmokeTypes == SmokeSpec => []SmokeTypeOK
  <1>1. SmokeInv => SmokeTypeOK
    BY DEF SmokeInv
  <1> QED BY <1>1, SmokeInitInv, SmokeStepInv, PTL DEF SmokeSpec

\* Whatever breaks or is late, and however many polls fit into the timeout: the
\* smoke test fails only if something was wrong, and passes only if nothing was.
THEOREM SmokeTestJudges == SmokeSpec => []VerdictIsRight
  <1>1. SmokeInv => VerdictIsRight
    BY DEF SmokeInv
  <1> QED BY <1>1, SmokeInitInv, SmokeStepInv, PTL DEF SmokeSpec

-----------------------------------------------------------------------------
(* Uploads                                                                 *)

InCatalog == 1 .. Len(catalog)

\* The item at hand is one of the file at hand; there are none of later files.
ItemIsCurrent ==
  /\ step # "register" => item \in InCatalog /\ catalog[item].file = file
  /\ \A i \in InCatalog : catalog[i].file <= file

\* Of the file at hand the pipeline has the item that is polled, and no other.
OnlyPolledIsQueued ==
  \A i \in InCatalog :
    catalog[i].file = file /\ catalog[i].status # "pending_upload"
      => step = "poll" /\ i = item

DuplicateHasOriginal ==
  \A i \in InCatalog : catalog[i].status = "duplicate" => Indexed(ImageOf(i))

UploadsInv ==
  /\ UploadsTypeOK
  /\ ItemIsCurrent
  /\ OnlyPolledIsQueued
  /\ RetriesNeverQueueTwice
  /\ DuplicateHasOriginal
  /\ SuccessIsIndexed

LEMMA FilesKnown ==
  /\ Len(Files) \in Nat
  /\ \A f \in 1 .. Len(Files) : Files[f] \in Images
  BY UploadsAssumption DEF UploadsAssumption

LEMMA UploadsInitInv == UploadsInit => UploadsInv
  <1> SUFFICES ASSUME UploadsInit PROVE UploadsInv
    OBVIOUS
  <1>1. Len(catalog) = 0 /\ InCatalog = {}
    BY DEF UploadsInit, InCatalog
  <1>2. UploadsTypeOK
    BY UploadsAssumption, FilesKnown DEF UploadsInit, UploadsTypeOK
  <1> QED BY <1>1, <1>2 DEF UploadsInit, UploadsInv, ItemIsCurrent, OnlyPolledIsQueued,
            RetriesNeverQueueTwice, DuplicateHasOriginal, SuccessIsIndexed, InCatalog

\* What one step does to the catalog.
LEMMA CatalogSteps ==
  ASSUME UploadsInv
  PROVE  /\ \A r : catalog' = Append(catalog, r) /\ r \in CatalogItem =>
              /\ Len(catalog') = Len(catalog) + 1 /\ catalog' \in Seq(CatalogItem)
              /\ \A i \in InCatalog : catalog'[i] = catalog[i]
              /\ catalog'[Len(catalog) + 1] = r
         /\ \A j \in InCatalog, r \in CatalogItem :
              catalog' = [catalog EXCEPT ![j] = r] =>
                /\ Len(catalog') = Len(catalog) /\ catalog' \in Seq(CatalogItem)
                /\ catalog'[j] = r
                /\ \A i \in InCatalog \ {j} : catalog'[i] = catalog[i]
  <1>1. catalog \in Seq(CatalogItem)
    BY DEF UploadsInv, UploadsTypeOK
  <1>2. ASSUME NEW r \in CatalogItem, catalog' = Append(catalog, r)
        PROVE  /\ Len(catalog') = Len(catalog) + 1 /\ catalog' \in Seq(CatalogItem)
               /\ \A i \in InCatalog : catalog'[i] = catalog[i]
               /\ catalog'[Len(catalog) + 1] = r
    BY <1>1, <1>2 DEF InCatalog
  <1>3. ASSUME NEW j \in InCatalog, NEW r \in CatalogItem,
               catalog' = [catalog EXCEPT ![j] = r]
        PROVE  /\ Len(catalog') = Len(catalog) /\ catalog' \in Seq(CatalogItem)
               /\ catalog'[j] = r
               /\ \A i \in InCatalog \ {j} : catalog'[i] = catalog[i]
    BY <1>1, <1>3 DEF InCatalog
  <1> QED BY <1>2, <1>3

\* A call under call_with_backoff is made again, or the file is given up.
LEMMA FailedCall ==
  ASSUME UploadsInv, file <= Len(Files), NEW code, NEW start \in {"register", "poll"},
         CallFails(code, start)
  PROVE  /\ file' \in 1 .. Len(Files) + 1 /\ step' \in {"register", "poll"}
         /\ item' \in {item, Nobody} /\ attempt' \in 0 .. RETRIES - 1
         /\ polls' \in 0 .. MaxPolls
         /\ ending' \in [1 .. Len(Files) -> {"none"} \cup Terminal]
         /\ \A f \in 1 .. Len(Files) : ending'[f] \in {ending[f], "failed"}
         /\ \/ file' = file + 1 /\ step' = "register"
            \/ file' = file /\ step' = start /\ code = 429
                 /\ item' = IF start = "register" THEN Nobody ELSE item
  <1> USE UploadsAssumption, FilesKnown DEF UploadsInv, UploadsTypeOK, Terminal
  <1>1. CASE NextFile("failed")
    BY <1>1 DEF NextFile
  <1>2. CASE ~NextFile("failed")
    <2>1. Retries(code) /\ attempt' = attempt + 1 /\ UNCHANGED <<file, polls, ending>>
          /\ step' = start /\ item' = IF start = "register" THEN Nobody ELSE item
      BY <1>2 DEF CallFails
    <2>2. attempt' \in 0 .. RETRIES - 1 /\ code = 429
      BY <2>1 DEF Retries
    <2> QED BY <2>1, <2>2
  <1> QED BY <1>1, <1>2

\* A step of the script that puts nothing into the pipeline.
LEMMA NothingQueued ==
  ASSUME UploadsInv, UploadsTypeOK', file <= Len(Files), Len(catalog') >= Len(catalog),
         \A i \in InCatalog : /\ catalog'[i].file = catalog[i].file
                              /\ catalog'[i].status = catalog[i].status,
         \A i \in InCatalog' \ InCatalog : /\ catalog'[i].file = file
                                          /\ catalog'[i].status = "pending_upload",
         \/ file' = file + 1 /\ step' = "register"
         \/ file' = file /\ step # "poll" /\ step' = "register"
         \/ /\ file' = file /\ step # "poll" /\ step' \in {"put", "confirm"}
            /\ item' \in InCatalog' /\ catalog'[item'].file = file
         \/ file' = file /\ step = "poll" /\ step' = "poll" /\ item' = item,
         \A f \in 1 .. Len(Files) :
           \/ ending'[f] \in {ending[f], "failed"}
           \/ f = file /\ step = "poll" /\ ending'[f] = catalog[item].status
  PROVE  UploadsInv'
  <1>0. /\ Len(catalog) \in Nat /\ Len(catalog') \in Nat /\ file \in Nat
        /\ InCatalog \subseteq InCatalog' /\ \A i \in InCatalog : catalog[i].file \in Nat
    <2>1. /\ catalog \in Seq(CatalogItem) /\ catalog' \in Seq(CatalogItem)
          /\ file \in 1 .. Len(Files) + 1
      BY DEF UploadsInv, UploadsTypeOK
    <2>2. Len(catalog) \in Nat /\ Len(catalog') \in Nat /\ file \in Nat
      BY <2>1, FilesKnown
    <2>3. InCatalog \subseteq InCatalog'
      BY <2>2 DEF InCatalog
    <2>4. \A i \in InCatalog : catalog[i] \in CatalogItem
      BY <2>1 DEF InCatalog
    <2> QED BY <2>2, <2>3, <2>4, FilesKnown DEF CatalogItem
  <1>1. ItemIsCurrent'
    BY <1>0 DEF UploadsInv, ItemIsCurrent
  <1>2. OnlyPolledIsQueued'
    <2> SUFFICES ASSUME NEW i \in InCatalog', catalog'[i].file = file',
                        catalog'[i].status # "pending_upload"
                 PROVE  step' = "poll" /\ i = item'
      BY DEF OnlyPolledIsQueued
    <2>1. /\ i \in InCatalog /\ catalog[i].file = file'
          /\ catalog[i].status # "pending_upload" /\ catalog[i].file <= file
      BY DEF UploadsInv, ItemIsCurrent
    <2> QED BY <1>0, <2>1 DEF UploadsInv, OnlyPolledIsQueued
  <1>3. RetriesNeverQueueTwice'
    BY <1>0 DEF UploadsInv, RetriesNeverQueueTwice, InCatalog
  <1>4. \A image : Indexed(image) => Indexed(image)'
    BY <1>0 DEF Indexed, ImageOf, InCatalog
  <1>5. DuplicateHasOriginal'
    <2> SUFFICES ASSUME NEW i \in InCatalog', catalog'[i].status = "duplicate",
                        NEW image, image = Files[catalog'[i].file]
                 PROVE  Indexed(image)'
      BY DEF DuplicateHasOriginal, Indexed, ImageOf
    <2>1. i \in InCatalog /\ catalog[i].status = "duplicate"
            /\ catalog'[i].file = catalog[i].file
      OBVIOUS
    <2>2. Indexed(Files[catalog[i].file])
      BY <2>1 DEF UploadsInv, DuplicateHasOriginal, ImageOf
    <2> QED BY <1>4, <2>1, <2>2
  <1>6. SuccessIsIndexed'
    <2> SUFFICES ASSUME NEW f \in 1 .. Len(Files), ending'[f] \in {"indexed", "duplicate"}
                 PROVE  Indexed(Files[f])
      BY <1>4 DEF SuccessIsIndexed
    <2>1. CASE ending'[f] = ending[f]
      BY <2>1 DEF UploadsInv, SuccessIsIndexed
    <2>2. CASE f = file /\ step = "poll" /\ ending'[f] = catalog[item].status
      <3>1. item \in InCatalog /\ ImageOf(item) = Files[f]
        BY <2>2 DEF UploadsInv, ItemIsCurrent, ImageOf
      <3>2. CASE catalog[item].status = "indexed"
        BY <3>1, <3>2 DEF Indexed, InCatalog
      <3>3. CASE catalog[item].status = "duplicate"
        BY <3>1, <3>3 DEF UploadsInv, DuplicateHasOriginal
      <3> QED BY <2>2, <3>2, <3>3
    <2> QED BY <2>1, <2>2
  <1> QED BY <1>1, <1>2, <1>3, <1>5, <1>6 DEF UploadsInv

LEMMA ScriptKeepsInv ==
  ASSUME UploadsInv, ScriptStep
  PROVE  UploadsInv'
  <1> USE UploadsAssumption, FilesKnown
  <1>0. /\ file \in 1 .. Len(Files) /\ item \in InCatalog \cup {Nobody}
        /\ step \in {"register", "put", "confirm", "poll"}
        /\ attempt \in 0 .. RETRIES - 1 /\ polls \in 0 .. MaxPolls
        /\ ending \in [1 .. Len(Files) -> {"none"} \cup Terminal]
        /\ catalog \in Seq(CatalogItem) /\ Len(catalog) \in Nat
        /\ \A i \in InCatalog : catalog[i] \in CatalogItem
    BY DEF UploadsInv, UploadsTypeOK, InCatalog, ScriptStep, Register, RegisterFails, Put,
           Confirm, ConfirmFails, Poll, PollFails, Timeout
  <1>1. CASE Register
    <2> DEFINE r == [file |-> file, stored |-> FALSE, status |-> "pending_upload"]
    <2>1. r \in CatalogItem /\ catalog' = Append(catalog, r) /\ step = "register"
      BY <1>0, <1>1 DEF Register, CatalogItem
    <2>2. /\ Len(catalog') = Len(catalog) + 1 /\ catalog' \in Seq(CatalogItem)
          /\ \A i \in InCatalog : catalog'[i] = catalog[i]
          /\ catalog'[Len(catalog) + 1] = r
      BY <2>1, CatalogSteps
    <2>3. InCatalog' = InCatalog \cup {Len(catalog) + 1}
      BY <1>0, <2>2 DEF InCatalog
    <2>4. r.file = file /\ r.status = "pending_upload"
      OBVIOUS
    <2> HIDE DEF r
    <2>5. CASE item' = Len(catalog) + 1 /\ step' = "put" /\ UNCHANGED <<file, attempt, polls, ending>>
      <3>1. UploadsTypeOK'
        BY <1>0, <2>2, <2>3, <2>5 DEF UploadsTypeOK, InCatalog
      <3>2. \A i \in InCatalog : /\ catalog'[i].file = catalog[i].file
                                 /\ catalog'[i].status = catalog[i].status
        BY <2>2
      <3>3. \A i \in InCatalog' \ InCatalog : /\ catalog'[i].file = file
                                             /\ catalog'[i].status = "pending_upload"
        BY <2>2, <2>3, <2>4
      <3>4. /\ file' = file /\ step # "poll" /\ step' \in {"put", "confirm"}
            /\ item' \in InCatalog' /\ catalog'[item'].file = file
        BY <2>1, <2>2, <2>3, <2>4, <2>5
      <3>5. \A f \in 1 .. Len(Files) : ending'[f] \in {ending[f], "failed"}
        BY <2>5
      <3>6. file <= Len(Files) /\ Len(catalog') >= Len(catalog)
        BY <1>0, <2>2
      <3> QED BY <3>1, <3>2, <3>3, <3>4, <3>5, <3>6, NothingQueued
    <2>6. CASE CallFails(0, "register")
      <3>1. file' = file + 1 /\ step' = "register"
        BY <1>0, <2>6, FailedCall
      <3>2. UploadsTypeOK'
        BY <1>0, <2>2, <2>3, <2>6, FailedCall DEF UploadsTypeOK, InCatalog
      <3>3. \A f \in 1 .. Len(Files) : ending'[f] \in {ending[f], "failed"}
        BY <1>0, <2>6, FailedCall
      <3> QED BY <1>0, <2>2, <2>3, <2>4, <3>1, <3>2, <3>3, NothingQueued
    <2> QED BY <1>1, <2>5, <2>6 DEF Register
  <1>2. ASSUME step # "poll", UNCHANGED catalog, NEW code, CallFails(code, "register")
        PROVE  UploadsInv'
    <2>1. UploadsTypeOK'
      BY <1>0, <1>2, FailedCall DEF UploadsTypeOK, InCatalog
    <2>2. \A f \in 1 .. Len(Files) : ending'[f] \in {ending[f], "failed"}
      BY <1>0, <1>2, FailedCall
    <2>3. step' = "register" /\ file' \in {file, file + 1}
      BY <1>0, <1>2, FailedCall
    <2>4. InCatalog' = InCatalog /\ Len(catalog') >= Len(catalog) /\ file <= Len(Files)
      BY <1>0, <1>2 DEF InCatalog
    <2> QED BY <1>2, <2>1, <2>2, <2>3, <2>4, NothingQueued
  <1>3. CASE Put
    <2>1. item \in InCatalog /\ catalog[item].file = file /\ step = "put"
      BY <1>3 DEF Put, UploadsInv, ItemIsCurrent
    <2> DEFINE r == [catalog[item] EXCEPT !.stored = TRUE]
    <2>2. catalog[item] \in CatalogItem
      BY <1>0, <2>1
    <2>3. r \in CatalogItem /\ r.file = file /\ r.status = catalog[item].status
      BY <2>1, <2>2 DEF CatalogItem
    <2> HIDE DEF r
    <2>4. CASE catalog' = [catalog EXCEPT ![item].stored = TRUE]
      <3>1. catalog' = [catalog EXCEPT ![item] = r]
        BY <2>4 DEF r
      <3>2. /\ Len(catalog') = Len(catalog) /\ catalog' \in Seq(CatalogItem)
            /\ catalog'[item] = r
            /\ \A i \in InCatalog \ {item} : catalog'[i] = catalog[i]
        BY <2>1, <2>3, <3>1, CatalogSteps
      <3>3. InCatalog' = InCatalog
        BY <3>2 DEF InCatalog
      <3>4. \A i \in InCatalog : /\ catalog'[i].file = catalog[i].file
                                 /\ catalog'[i].status = catalog[i].status
        BY <2>1, <2>3, <3>2
      <3>5. CASE step' = "confirm" /\ UNCHANGED <<file, item, attempt, polls, ending>>
        <4>1. UploadsTypeOK'
          BY <1>0, <3>2, <3>3, <3>5 DEF UploadsTypeOK, InCatalog
        <4> QED BY <1>0, <2>1, <3>2, <3>3, <3>4, <3>5, <4>1, NothingQueued
      <3>6. ASSUME NEW code, CallFails(code, "register") PROVE UploadsInv'
        <4>1. UploadsTypeOK'
          BY <1>0, <3>2, <3>3, <3>6, FailedCall DEF UploadsTypeOK, InCatalog
        <4>2. \A f \in 1 .. Len(Files) : ending'[f] \in {ending[f], "failed"}
          BY <1>0, <3>6, FailedCall
        <4>3. step' = "register" /\ file' \in {file, file + 1}
          BY <1>0, <3>6, FailedCall
        <4> QED BY <1>0, <2>1, <3>2, <3>3, <3>4, <4>1, <4>2, <4>3, NothingQueued
      <3> QED BY <1>3, <3>5, <3>6 DEF Put
    <2> QED BY <1>2, <1>3, <2>1, <2>4 DEF Put
  \* The job is pushed, with an answer or without.
  <1>4. ASSUME step = "confirm", catalog' = [catalog EXCEPT ![item].status = "queued"],
               \/ step' = "poll" /\ attempt' = 0 /\ UNCHANGED <<file, item, polls, ending>>
               \/ \E code \in {0, 500} : CallFails(code, "register")
        PROVE  UploadsInv'
    <2>1. /\ item \in InCatalog /\ catalog[item].file = file /\ step = "confirm"
          /\ \A i \in InCatalog : catalog[i].file = file =>
                                    catalog[i].status = "pending_upload"
      BY <1>4 DEF UploadsInv, ItemIsCurrent, OnlyPolledIsQueued
    <2> DEFINE r == [catalog[item] EXCEPT !.status = "queued"]
    <2>2. catalog[item] \in CatalogItem
      BY <1>0, <2>1
    <2>3. r \in CatalogItem /\ r.file = file /\ r.status = "queued"
      BY <2>1, <2>2 DEF CatalogItem
    <2>4. catalog' = [catalog EXCEPT ![item] = r]
      BY <1>4
    <2> HIDE DEF r
    <2>5. /\ Len(catalog') = Len(catalog) /\ catalog' \in Seq(CatalogItem)
          /\ catalog'[item] = r
          /\ \A i \in InCatalog \ {item} : catalog'[i] = catalog[i]
      BY <2>1, <2>3, <2>4, CatalogSteps
    <2>6. InCatalog' = InCatalog
      BY <2>5 DEF InCatalog
    <2>7. /\ UploadsTypeOK'
          /\ \A f \in 1 .. Len(Files) : ending'[f] \in {ending[f], "failed"}
          /\ \/ file' = file + 1 /\ step' = "register"
             \/ file' = file /\ step' = "poll" /\ item' = item
      <3>1. CASE step' = "poll" /\ attempt' = 0 /\ UNCHANGED <<file, item, polls, ending>>
        BY <1>0, <2>5, <2>6, <3>1 DEF UploadsTypeOK, InCatalog
      <3>2. ASSUME NEW code \in {0, 500}, CallFails(code, "register")
            PROVE  /\ UploadsTypeOK' /\ file' = file + 1 /\ step' = "register"
                   /\ \A f \in 1 .. Len(Files) : ending'[f] \in {ending[f], "failed"}
        <4>1. UploadsTypeOK'
          BY <1>0, <2>5, <2>6, <3>2, FailedCall DEF UploadsTypeOK, InCatalog
        <4> QED BY <1>0, <3>2, <4>1, FailedCall
      <3> QED BY <1>4, <3>1, <3>2
    <2>8. ItemIsCurrent'
      <3>1. \A i \in InCatalog : catalog'[i].file = catalog[i].file
        BY <2>1, <2>3, <2>5
      <3>2. \A i \in InCatalog : catalog[i].file \in Nat /\ catalog[i].file <= file
        BY <1>0 DEF UploadsInv, ItemIsCurrent, CatalogItem
      <3>3. \A i \in InCatalog : catalog'[i].file <= file'
        BY <1>0, <2>7, <3>1, <3>2
      <3> QED BY <2>1, <2>6, <2>7, <3>1, <3>3 DEF ItemIsCurrent
    <2>9. OnlyPolledIsQueued'
      <3>1. \A i \in InCatalog : catalog'[i].file <= file
        BY <1>0, <2>1, <2>3, <2>5 DEF UploadsInv, ItemIsCurrent
      <3>2. \A i \in InCatalog : catalog'[i].file = file /\ i # item =>
              catalog'[i].status = "pending_upload"
        BY <2>1, <2>5
      <3>3. CASE file' = file + 1
        <4>1. \A i \in InCatalog : catalog'[i].file # file'
          BY <1>0, <3>1, <3>3
        <4> QED BY <2>6, <4>1 DEF OnlyPolledIsQueued
      <3>4. CASE file' = file /\ step' = "poll" /\ item' = item
        BY <2>6, <3>2, <3>4 DEF OnlyPolledIsQueued
      <3> QED BY <2>7, <3>3, <3>4
    <2>10. RetriesNeverQueueTwice'
      BY <2>1, <2>3, <2>5, <2>6 DEF UploadsInv, RetriesNeverQueueTwice, InCatalog
    <2>11. \A image : Indexed(image) => Indexed(image)'
      BY <2>1, <2>5, <2>6 DEF Indexed, ImageOf, InCatalog
    <2>12. DuplicateHasOriginal'
      <3> SUFFICES ASSUME NEW i \in InCatalog, catalog'[i].status = "duplicate",
                          NEW image, image = Files[catalog'[i].file]
                   PROVE  Indexed(image)'
        BY <2>6 DEF DuplicateHasOriginal, Indexed, ImageOf
      <3>1. i # item /\ catalog'[i] = catalog[i]
        BY <2>3, <2>5
      <3>2. Indexed(Files[catalog[i].file])
        BY <3>1 DEF UploadsInv, DuplicateHasOriginal, ImageOf
      <3> QED BY <2>11, <3>1, <3>2
    <2>13. SuccessIsIndexed'
      BY <2>7, <2>11 DEF UploadsInv, SuccessIsIndexed
    <2> QED BY <2>7, <2>8, <2>9, <2>10, <2>12, <2>13 DEF UploadsInv
  <1>5. CASE RegisterFails
    BY <1>2, <1>5 DEF RegisterFails
  <1>6. CASE Confirm
    BY <1>4, <1>6 DEF Confirm
  <1>11. CASE ConfirmFails
    <2>1. CASE catalog' = [catalog EXCEPT ![item].status = "queued"] /\ CallFails(500, "register")
      BY <1>4, <1>11, <2>1 DEF ConfirmFails
    <2>2. CASE UNCHANGED catalog
      BY <1>2, <1>11, <2>2 DEF ConfirmFails
    <2> QED BY <1>11, <2>1, <2>2 DEF ConfirmFails
  \* Steps that only poll.
  <1>7. ASSUME step = "poll", UNCHANGED catalog, UploadsTypeOK',
               \/ file' = file + 1 /\ step' = "register"
               \/ file' = file /\ step' = "poll" /\ item' = item,
               \A f \in 1 .. Len(Files) :
                 \/ ending'[f] \in {ending[f], "failed"}
                 \/ f = file /\ ending'[f] = catalog[item].status
        PROVE  UploadsInv'
    BY <1>0, <1>7, NothingQueued DEF InCatalog
  <1>8. CASE PollFails
    <2>1. PICK code \in CallErrors : CallFails(code, "poll")
      BY <1>8 DEF PollFails
    <2>2. UploadsTypeOK'
      BY <1>0, <1>8, <2>1, FailedCall DEF UploadsTypeOK, InCatalog, PollFails
    <2> QED BY <1>0, <1>7, <1>8, <2>1, <2>2, FailedCall DEF PollFails
  <1>9. CASE Timeout
    <2>1. UploadsTypeOK'
      BY <1>0, <1>9 DEF Timeout, NextFile, UploadsTypeOK, InCatalog, Terminal
    <2> QED BY <1>0, <1>7, <1>9, <2>1 DEF Timeout, NextFile
  <1>10. CASE Poll
    <2>1. item \in InCatalog
      BY <1>10 DEF Poll, UploadsInv, ItemIsCurrent
    <2>2. UploadsTypeOK'
      <3>1. CASE NextFile(catalog[item].status) /\ catalog[item].status \in Terminal
        BY <1>0, <1>10, <3>1 DEF Poll, NextFile, UploadsTypeOK, InCatalog
      <3>2. CASE polls' = polls + 1 /\ attempt' = 0 /\ UNCHANGED <<file, step, item, ending>>
        BY <1>0, <1>10, <3>2 DEF Poll, UploadsTypeOK, InCatalog
      <3> QED BY <1>10, <3>1, <3>2 DEF Poll
    <2> QED BY <1>0, <1>7, <1>10, <2>2 DEF Poll, NextFile
  <1> QED BY <1>1, <1>3, <1>5, <1>6, <1>8, <1>9, <1>10, <1>11 DEF ScriptStep

LEMMA SettleKeepsInv ==
  ASSUME UploadsInv, NEW i \in InCatalog, Settle(i)
  PROVE  UploadsInv'
  <1> USE UploadsAssumption, FilesKnown
  <1>0. /\ catalog[i] \in CatalogItem /\ catalog[i].status = "queued"
        /\ UNCHANGED <<file, step, item, attempt, polls, ending>>
    BY DEF UploadsInv, UploadsTypeOK, InCatalog, Settle, scriptVars
  <1>1. PICK how \in {"failed", IF Indexed(ImageOf(i)) THEN "duplicate" ELSE "indexed"} :
          catalog' = [catalog EXCEPT ![i].status = how]
    BY DEF Settle
  <1> DEFINE r == [catalog[i] EXCEPT !.status = how]
  <1>2. /\ r \in CatalogItem /\ r.file = catalog[i].file /\ r.status = how
        /\ how \in Terminal
    BY <1>0 DEF CatalogItem, Terminal
  <1>3. catalog' = [catalog EXCEPT ![i] = r]
    BY <1>1
  <1> HIDE DEF r
  <1>4. /\ Len(catalog') = Len(catalog) /\ catalog' \in Seq(CatalogItem)
        /\ catalog'[i] = r
        /\ \A j \in InCatalog \ {i} : catalog'[j] = catalog[j]
    BY <1>2, <1>3, CatalogSteps
  <1>5. InCatalog' = InCatalog
    BY <1>4 DEF InCatalog
  <1>6. UploadsTypeOK'
    BY <1>0, <1>4 DEF UploadsInv, UploadsTypeOK
  <1>7. \A j \in InCatalog : /\ catalog'[j].file = catalog[j].file
                             /\ catalog'[j].status = "pending_upload" <=>
                                  catalog[j].status = "pending_upload"
    BY <1>0, <1>2, <1>4 DEF Terminal
  <1>8. ItemIsCurrent' /\ OnlyPolledIsQueued'
    BY <1>0, <1>5, <1>7 DEF UploadsInv, ItemIsCurrent, OnlyPolledIsQueued
  <1>9. RetriesNeverQueueTwice'
    BY <1>5, <1>7 DEF UploadsInv, RetriesNeverQueueTwice, InCatalog
  <1>10. \A image : Indexed(image) => Indexed(image)'
    BY <1>0, <1>4, <1>5 DEF Indexed, ImageOf, InCatalog
  <1>11. DuplicateHasOriginal'
    <2> SUFFICES ASSUME NEW j \in InCatalog, catalog'[j].status = "duplicate"
                 PROVE  Indexed(Files[catalog[j].file])
      BY <1>5, <1>7, <1>10 DEF DuplicateHasOriginal, ImageOf
    <2>1. CASE j = i
      BY <1>1, <1>2, <1>4, <2>1 DEF ImageOf
    <2>2. CASE j # i
      BY <1>4, <2>2 DEF UploadsInv, DuplicateHasOriginal, ImageOf
    <2> QED BY <2>1, <2>2
  <1>12. SuccessIsIndexed'
    BY <1>0, <1>10 DEF UploadsInv, SuccessIsIndexed
  <1> QED BY <1>6, <1>8, <1>9, <1>11, <1>12 DEF UploadsInv

LEMMA UploadsStepInv == UploadsInv /\ [UploadsNext]_uploadVars => UploadsInv'
  <1> SUFFICES ASSUME UploadsInv, [UploadsNext]_uploadVars PROVE UploadsInv'
    OBVIOUS
  <1>1. CASE UNCHANGED uploadVars
    BY <1>1 DEF uploadVars, scriptVars, UploadsInv, UploadsTypeOK, ItemIsCurrent,
         OnlyPolledIsQueued, RetriesNeverQueueTwice, DuplicateHasOriginal,
         SuccessIsIndexed, Indexed, ImageOf, InCatalog
  <1> QED BY <1>1, ScriptKeepsInv, SettleKeepsInv DEF UploadsNext, InCatalog

\* Every variable of the upload script keeps its type.
THEOREM UploadsTypes == UploadsSpec => []UploadsTypeOK
  <1>1. UploadsInv => UploadsTypeOK
    BY DEF UploadsInv
  <1> QED BY <1>1, UploadsInitInv, UploadsStepInv, PTL DEF UploadsSpec

\* For any files, and any number of retries and polls: the pipeline gets a file
\* once, however often its upload was tried.
THEOREM FilesQueuedOnce == UploadsSpec => []RetriesNeverQueueTwice
  <1>1. UploadsInv => RetriesNeverQueueTwice
    BY DEF UploadsInv
  <1> QED BY <1>1, UploadsInitInv, UploadsStepInv, PTL DEF UploadsSpec

\* What the script counts as uploaded, or as a duplicate, is in the index.
THEOREM SuccessesAreIndexed == UploadsSpec => []SuccessIsIndexed
  <1>1. UploadsInv => SuccessIsIndexed
    BY DEF UploadsInv
  <1> QED BY <1>1, UploadsInitInv, UploadsStepInv, PTL DEF UploadsSpec
=============================================================================
