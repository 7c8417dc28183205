------------------------------ MODULE Uploads ------------------------------
(***************************************************************************)
(* The demo's upload script: for one image file after the other, register, *)
(* PUT and confirm through the SDK, then poll until the pipeline is done   *)
(* with the item.  Calls that meet the rate limit are made again.          *)
(*                                                                         *)
(* catalog-service asks auth-service about every call before it handles    *)
(* it.  Calls may be refused, fail, or be handled although their answer is *)
(* lost.  Of the pipeline the script sees what becomes of its items;       *)
(* modules CatalogService and IngestionWorker have it in full.             *)
(***************************************************************************)
EXTENDS Naturals, Sequences, FiniteSets

CONSTANTS
  Images,   \* image contents
  Files,    \* the files to upload: a sequence of image contents
  RETRIES,  \* of call_with_backoff
  MaxPolls, \* polls that fit into poll_timeout
  Nobody    \* no item

ASSUME UploadsAssumption ==
  /\ Files \in Seq(Images)
  /\ RETRIES \in Nat \ {0}
  /\ MaxPolls \in Nat \ {0}

VARIABLES
  file,    \* the file the script is at
  step,    \* what it does next
  item,    \* the item of the file
  attempt, \* of the call under call_with_backoff
  polls,   \* so far, for the item
  ending,  \* how each file was counted
  catalog  \* the items registered so far; "queued" once the item's job is pushed

scriptVars == <<file, step, item, attempt, polls, ending>>
uploadVars == <<scriptVars, catalog>>

Terminal == {"indexed", "duplicate", "failed"}
CatalogItem == [file : 1 .. Len(Files), stored : BOOLEAN,
                status : {"pending_upload", "queued"} \cup Terminal]

UploadsTypeOK ==
  /\ file \in 1 .. Len(Files) + 1
  /\ step \in {"register", "put", "confirm", "poll"}
  /\ item \in 1 .. Len(catalog) \cup {Nobody}
  /\ attempt \in 0 .. RETRIES - 1
  /\ polls \in 0 .. MaxPolls
  /\ ending \in [1 .. Len(Files) -> {"none"} \cup Terminal]
  /\ catalog \in Seq(CatalogItem)

UploadsInit ==
  /\ file = 1
  /\ step = "register"
  /\ item = Nobody
  /\ attempt = 0
  /\ polls = 0
  /\ ending = [f \in 1 .. Len(Files) |-> "none"]
  /\ catalog = <<>>

-----------------------------------------------------------------------------
(* Calls                                                                   *)

\* What a service answers instead of handling the call, by what auth-service
\* answers to it: "ok" with or without the scope, 401, 429, anything else, or
\* nothing at all.
Refusal ==
  [noscope |-> 403, unauthorized |-> 401, limited |-> 429, unexpected |-> 503,
   unreachable |-> 503]

\* How a call may fail: refused, failed in the handler, or no answer (0).
CallErrors == {Refusal[a] : a \in DOMAIN Refusal} \cup {500, 0}

\* 401 and 403 raise CBIRAuthError, everything else CBIRAPIError.
ApiErrors == CallErrors \ {401, 403}

NextFile(how) ==
  /\ ending' = [ending EXCEPT ![file] = how]
  /\ file' = file + 1
  /\ step' = "register"
  /\ item' = Nobody
  /\ attempt' = 0
  /\ polls' = 0

\* Mutant: every error of the API is retried.
RetriesAnyError(code) == code \in ApiErrors /\ attempt < RETRIES - 1

Retries(code) == code = 429 /\ attempt < RETRIES - 1

\* A call under call_with_backoff fails: it starts again, or main counts the file
\* as failed.
CallFails(code, start) ==
  \/ /\ Retries(code)
     /\ attempt' = attempt + 1
     /\ step' = start
     /\ item' = IF start = "register" THEN Nobody ELSE item
     /\ UNCHANGED <<file, polls, ending>>
  \/ /\ ~Retries(code)
     /\ NextFile("failed")

-----------------------------------------------------------------------------
(* ingest_image                                                            *)

Register ==
  /\ file <= Len(Files) /\ step = "register"
  /\ catalog' = Append(catalog, [file |-> file, stored |-> FALSE,
                                 status |-> "pending_upload"])
  /\ \/ item' = Len(catalog) + 1 /\ step' = "put" /\ UNCHANGED <<file, attempt, polls, ending>>
     \/ CallFails(0, "register")

RegisterFails ==
  /\ file <= Len(Files) /\ step = "register"
  /\ \E code \in CallErrors : CallFails(code, "register")
  /\ UNCHANGED catalog

\* The bytes go to object storage, not through the API; its 429 is an error of the
\* API, too.
Put ==
  /\ file <= Len(Files) /\ step = "put"
  /\ \/ /\ catalog' = [catalog EXCEPT ![item].stored = TRUE]
        /\ step' = "confirm"
        /\ UNCHANGED <<file, item, attempt, polls, ending>>
     \/ /\ \/ catalog' = [catalog EXCEPT ![item].stored = TRUE]
           \/ UNCHANGED catalog
        /\ \E code \in {0, 429} : CallFails(code, "register")

\* ConfirmCatalogItemUpload finds the object.
Confirm ==
  /\ file <= Len(Files) /\ step = "confirm"
  /\ catalog[item].stored
  /\ catalog' = [catalog EXCEPT ![item].status = "queued"]
  /\ \/ step' = "poll" /\ attempt' = 0 /\ UNCHANGED <<file, item, polls, ending>>
     \/ CallFails(0, "register")

\* A 500 may be that of a commit that fails after the job was pushed: the worker
\* does not ask for the row to be QUEUED, and takes the item like any other.
ConfirmFails ==
  /\ file <= Len(Files) /\ step = "confirm"
  /\ \/ /\ \E code \in CallErrors : CallFails(code, "register")
        /\ UNCHANGED catalog
     \/ /\ CallFails(500, "register") /\ catalog[item].stored
        /\ catalog' = [catalog EXCEPT ![item].status = "queued"]

-----------------------------------------------------------------------------
(* wait_until_indexed                                                      *)

Poll ==
  /\ file <= Len(Files) /\ step = "poll" /\ polls < MaxPolls
  /\ \/ /\ catalog[item].status \in Terminal
        /\ NextFile(catalog[item].status)
     \/ /\ catalog[item].status \notin Terminal
        /\ polls' = polls + 1
        /\ attempt' = 0
        /\ UNCHANGED <<file, step, item, ending>>
  /\ UNCHANGED catalog

PollFails ==
  /\ file <= Len(Files) /\ step = "poll" /\ polls < MaxPolls
  /\ \E code \in CallErrors : CallFails(code, "poll")
  /\ UNCHANGED catalog

\* "timeout" is counted as a failure; slow calls let it come early.
Timeout ==
  /\ file <= Len(Files) /\ step = "poll" /\ attempt = 0 /\ polls > 0
  /\ NextFile("failed")
  /\ UNCHANGED catalog

-----------------------------------------------------------------------------
(* The pipeline, with one worker                                           *)

ImageOf(i) == Files[catalog[i].file]

Indexed(image) ==
  \E j \in 1 .. Len(catalog) : catalog[j].status = "indexed" /\ ImageOf(j) = image

\* Mutant: items that are not indexed yet count as originals.
SettleAgainstAll(i) ==
  /\ catalog[i].status = "queued"
  /\ \E how \in {"failed", IF \E j \in 1 .. Len(catalog) \ {i} :
                                catalog[j].stored /\ ImageOf(j) = ImageOf(i)
                           THEN "duplicate" ELSE "indexed"} :
       catalog' = [catalog EXCEPT ![i].status = how]
  /\ UNCHANGED scriptVars

\* process_one, to its end: the images it compares with are the indexed ones.
Settle(i) ==
  /\ catalog[i].status = "queued"
  /\ \E how \in {"failed", IF Indexed(ImageOf(i)) THEN "duplicate" ELSE "indexed"} :
       catalog' = [catalog EXCEPT ![i].status = how]
  /\ UNCHANGED scriptVars

ScriptStep ==
  \/ Register \/ RegisterFails \/ Put \/ Confirm \/ ConfirmFails
  \/ Poll \/ PollFails \/ Timeout

UploadsNext == ScriptStep \/ \E i \in 1 .. Len(catalog) : Settle(i)

\* The script runs on; nothing is assumed of the pipeline or the rate limit.
UploadsFairness == WF_uploadVars(ScriptStep)

UploadsSpec == UploadsInit /\ [][UploadsNext]_uploadVars /\ UploadsFairness

-----------------------------------------------------------------------------
(* What the script promises                                                *)

\* However often a file is tried again, the pipeline gets it once: what is
\* retried was refused before it was handled.
RetriesNeverQueueTwice ==
  \A i, j \in 1 .. Len(catalog) :
    /\ catalog[i].file = catalog[j].file
    /\ catalog[i].status # "pending_upload"
    /\ catalog[j].status # "pending_upload"
    => i = j

\* A file that counts as uploaded or as a duplicate is in the index, itself or as
\* its original: the sum the script prints is not too high.
SuccessIsIndexed ==
  \A f \in 1 .. Len(Files) :
    ending[f] \in {"indexed", "duplicate"} => Indexed(Files[f])

\* The script ends, whatever the services answer and if the pipeline stands still.
ScriptEnds == <>(file = Len(Files) + 1)
=============================================================================
