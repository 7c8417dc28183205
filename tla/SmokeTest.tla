----------------------------- MODULE SmokeTest -----------------------------
(***************************************************************************)
(* The smoke test of the whole stack: provision a tenant, put two images   *)
(* into its catalog, search for one of them, upload it once more, and      *)
(* judge the result.  Any call may fail, and the worker may fail an item   *)
(* or take too long; the test has the stack to itself.                     *)
(*                                                                         *)
(* Of the pipeline the test sees what becomes of its items; the modules    *)
(* Registration, CatalogService, IngestionWorker and QueryService have it  *)
(* in full.                                                                *)
(***************************************************************************)
EXTENDS Naturals

CONSTANT MaxWaits \* polls that fit into the timeout

ASSUME SmokeAssumption == MaxWaits \in Nat \ {0}

VARIABLES
  at,      \* the next step of the test
  label,   \* the item it uploads
  waits,   \* polls so far
  verdict,
  smoked,  \* catalog: the status of each item of the test
  judged,  \* the feedback is recorded
  broken   \* a call or an item has failed, or the worker was late (history)

smokeVars == <<at, label, waits, verdict, smoked, judged, broken>>

SmokeItems == {"red", "blue", "red-dup"}
SamePicture(l, m) == (l = "blue") <=> (m = "blue")

\* "stored" is PENDING_UPLOAD with the object in place.
SmokeTypeOK ==
  /\ at \in {"provision", "register", "put", "confirm", "wait", "search", "filter",
             "feedback"}
  /\ label \in SmokeItems
  /\ waits \in 0 .. MaxWaits - 1
  /\ verdict \in {"running", "passed", "failed"}
  /\ smoked \in [SmokeItems -> {"absent", "pending_upload", "stored", "queued",
                                "indexed", "duplicate", "failed"}]
  /\ judged \in BOOLEAN /\ broken \in BOOLEAN

SmokeInit ==
  /\ at = "provision"
  /\ label = "red"
  /\ waits = 0
  /\ verdict = "running"
  /\ smoked = [l \in SmokeItems |-> "absent"]
  /\ judged = FALSE
  /\ broken = FALSE

-----------------------------------------------------------------------------
(* The test                                                                *)

At(step) == verdict = "running" /\ at = step
Then(step) == at' = step /\ UNCHANGED <<waits, verdict, judged, broken>>
Becomes(status) == smoked' = [smoked EXCEPT ![label] = status]

\* check: the first failure ends the test.
CheckFails == verdict' = "failed" /\ UNCHANGED <<at, label, waits, smoked, judged>>

Provision == At("provision") /\ Then("register") /\ UNCHANGED <<label, smoked>>

RegisterItem ==
  At("register") /\ Becomes("pending_upload") /\ Then("put") /\ UNCHANGED label

PutBytes == At("put") /\ Becomes("stored") /\ Then("confirm") /\ UNCHANGED label

ConfirmItem ==
  /\ At("confirm") /\ smoked[label] = "stored"
  /\ Becomes("queued")
  /\ \/ label = "red" /\ label' = "blue" /\ Then("register")
     \/ label # "red" /\ UNCHANGED label /\ Then("wait")

\* The status of the first upload's answers is checked, that of the duplicate's is
\* not, nor that of a poll's: only a call without an answer ends the test there.
Unchecked == at = "wait" \/ (label = "red-dup" /\ at \in {"put", "confirm"})

CallBreaks ==
  /\ verdict = "running"
  /\ broken' = TRUE
  /\ \/ CheckFails
     \/ /\ Unchecked /\ at # "wait"
        /\ at' = IF at = "put" THEN "confirm" ELSE "wait"
        /\ UNCHANGED <<label, waits, verdict, smoked, judged>>
     \/ /\ at = "wait" /\ waits + 1 < MaxWaits
        /\ waits' = waits + 1
        /\ UNCHANGED <<at, label, verdict, smoked, judged>>

\* The duplicate's bytes were not stored: the answer to its confirm is an error.
ConfirmRefused ==
  At("confirm") /\ smoked[label] # "stored" /\ Then("wait") /\ UNCHANGED <<label, smoked>>

Awaited == IF label = "red-dup" THEN {"red-dup"} ELSE {"red", "blue"}
Target == IF label = "red-dup" THEN "duplicate" ELSE "indexed"

\* Mutant: one item is enough.
OneIsDone == \E l \in Awaited : smoked[l] = Target

AllAreDone == \A l \in Awaited : smoked[l] = Target

\* _wait_for_status: a poll finds everything done, or is followed by another one,
\* or was the last in time.
Wait ==
  /\ At("wait")
  /\ \/ /\ AllAreDone
        /\ waits' = 0
        /\ at' = IF label = "red-dup" THEN "feedback" ELSE "search"
        /\ UNCHANGED <<label, verdict, smoked, judged, broken>>
     \/ /\ ~AllAreDone /\ waits + 1 < MaxWaits
        /\ waits' = waits + 1
        /\ UNCHANGED <<at, label, verdict, smoked, judged, broken>>
     \/ /\ ~AllAreDone
        /\ broken' = (broken \/ \E l \in Awaited : smoked[l] = "queued")
        /\ CheckFails

Hits == {l \in SmokeItems : smoked[l] = "indexed"}
Nearest == IF \E l \in Hits : SamePicture(l, "red")
           THEN {l \in Hits : SamePicture(l, "red")} ELSE Hits

SearchRed ==
  /\ At("search")
  /\ at' = "filter"
  /\ verdict' = IF Nearest = {"red"} THEN verdict ELSE "failed"
  /\ UNCHANGED <<label, waits, smoked, judged, broken>>

\* An empty answer passes, too: the filter lets through no other colour.
SearchBlue ==
  At("filter") /\ label' = "red-dup" /\ Then("register") /\ UNCHANGED smoked

Feedback ==
  /\ At("feedback")
  /\ smoked["red"] # "absent"
  /\ judged' = TRUE
  /\ verdict' = "passed"
  /\ UNCHANGED <<at, label, waits, smoked, broken>>

SmokeStep ==
  \/ Provision \/ RegisterItem \/ PutBytes \/ ConfirmItem \/ ConfirmRefused
  \/ Wait \/ SearchRed \/ SearchBlue \/ Feedback \/ CallBreaks

-----------------------------------------------------------------------------
\* process_one, to its end: the item is INDEXED, or a duplicate of one that is.
Process(l) ==
  /\ smoked[l] = "queued"
  /\ LET known == \E j \in SmokeItems : smoked[j] = "indexed" /\ SamePicture(j, l)
     IN smoked' = [smoked EXCEPT ![l] = IF known THEN "duplicate" ELSE "indexed"]
  /\ UNCHANGED <<at, label, waits, verdict, judged, broken>>

ProcessFails(l) ==
  /\ smoked[l] = "queued"
  /\ smoked' = [smoked EXCEPT ![l] = "failed"]
  /\ broken' = TRUE
  /\ UNCHANGED <<at, label, waits, verdict, judged>>

SmokeNext == SmokeStep \/ \E l \in SmokeItems : Process(l) \/ ProcessFails(l)

\* The test runs on; nothing is assumed of the worker.
SmokeSpec == SmokeInit /\ [][SmokeNext]_smokeVars /\ WF_smokeVars(SmokeStep)

-----------------------------------------------------------------------------
\* The verdict is right either way: the test fails only if something broke or was
\* late, and if it passes, the images are indexed, the one uploaded twice only
\* once, and the feedback is recorded.
VerdictIsRight ==
  /\ verdict = "failed" => broken
  /\ verdict = "passed" =>
       /\ judged
       /\ smoked = [l \in SmokeItems |-> IF l = "red-dup" THEN "duplicate" ELSE "indexed"]

\* The test ends, also when the worker stands still.
SmokeEnds == <>(verdict # "running")
=============================================================================
