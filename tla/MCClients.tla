----------------------------- MODULE MCClients -----------------------------
(***************************************************************************)
(* Small instances for TLC of what callers of the services do: register    *)
(* items and judge them, upload files with the script, and run the smoke   *)
(* test.  The choice of focus says which of the three moves; they share no *)
(* state.                                                                  *)
(***************************************************************************)
EXTENDS Registration, Uploads, SmokeTest

CONSTANTS a, b, r1, acme, n1, n2

VARIABLE focus

mcVars == <<focus, registrationVars, uploadVars, smokeVars>>

TwoAlike == <<a, b, a>>

MCInit ==
  /\ focus \in {"register", "upload", "smoke"}
  /\ RegistrationInit /\ UploadsInit /\ SmokeInit

\* Tenants and names are alike: r1 is called for acme, and n1 is the first name in it.
NamesInOrder ==
  /\ tenant'[r1] \in {None, acme}
  /\ \A i \in 1 .. Len(batch'[r1]) :
       batch'[r1][i] = n2 => \E j \in 1 .. i - 1 : batch'[r1][j] = n1

MCNext ==
  /\ UNCHANGED focus
  /\ \/ focus = "register" /\ RegistrationNext /\ NamesInOrder
        /\ UNCHANGED <<uploadVars, smokeVars>>
     \/ focus = "upload" /\ UploadsNext /\ UNCHANGED <<registrationVars, smokeVars>>
     \/ focus = "smoke" /\ SmokeNext /\ UNCHANGED <<registrationVars, uploadVars>>

\* The fairness of each, while it is the one that moves.
MCSpec ==
  /\ MCInit /\ [][MCNext]_mcVars
  /\ \A r \in Requests :
       WF_mcVars(focus = "register" /\ RequestStep(r)
                 /\ UNCHANGED <<focus, uploadVars, smokeVars>>)
  /\ WF_mcVars(focus = "upload" /\ ScriptStep
               /\ UNCHANGED <<focus, registrationVars, smokeVars>>)
  /\ WF_mcVars(focus = "smoke" /\ SmokeStep
               /\ UNCHANGED <<focus, registrationVars, uploadVars>>)

\* The variables of the three hold what the code can put there.
TypeOK == RegistrationTypeOK /\ UploadsTypeOK /\ SmokeTypeOK

\* Whatever a caller starts comes to an end: no two registrations wait for each
\* other forever, and the upload script and the smoke test end even when the
\* pipeline stands still.
ClientsEnd ==
  /\ RegistrationsEnd
  /\ focus = "upload" => ScriptEnds
  /\ focus = "smoke" => SmokeEnds
=============================================================================
