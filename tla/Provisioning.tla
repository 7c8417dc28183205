---------------------------- MODULE Provisioning ----------------------------
(***************************************************************************)
(* Tenants, as the provisioning script makes them: create a tenant, then   *)
(* issue its first API key, each in a request of its own to the admin API. *)
(* Several people may run the script at once, also for the same name.      *)
(*                                                                         *)
(* A name is looked up, then inserted; the insert waits for one under way  *)
(* with the same name, so it is one step with its commit.  A call may fail *)
(* before or after it was handled: the script stops at the first error.    *)
(***************************************************************************)
EXTENDS Naturals, FiniteSets

CONSTANTS
  Scripts, \* runs of the script
  Typed,   \* names as they are typed
  Strip,   \* Typed -> the name without blanks around it
  Blank    \* the empty name

ASSUME ProvisioningAssumption == DOMAIN Strip = Typed

VARIABLES
  doing,   \* what each run does next, or how it has ended
  typed,   \* the name it was given
  tenants, \* committed: the tenant created by a run, if there is one
  withKey, \* tenants that have an API key
  faulty   \* runs that have met a fault (history)

provisioningVars == <<doing, typed, tenants, withKey, faulty>>

Names == {Strip[n] : n \in Typed} \ {Blank}
TenantRow == [name : Names]
NoTenant == [name |-> Blank]

Ended == {"printed", "taken", "invalid", "error", "stopped"}

ProvisioningInit ==
  /\ doing = [s \in Scripts |-> "new"]
  /\ typed \in [Scripts -> Typed]
  /\ tenants = [s \in Scripts |-> NoTenant]
  /\ withKey = {}
  /\ faulty = {}

Does(s, next) == doing' = [doing EXCEPT ![s] = next]
NameOf(s) == Strip[typed[s]]

\* Mutant: the name is looked up, and stored, as it was typed.
TakenAsTyped(s) == \E u \in Scripts : tenants[u] # NoTenant /\ typed[u] = typed[s]

\* get_by_name, and the unique constraint on the name.
Taken(s) == \E u \in Scripts : tenants[u].name = NameOf(s)

RunScript(s) ==
  /\ doing[s] = "new"
  /\ Does(s, "look")
  /\ UNCHANGED <<typed, tenants, withKey, faulty>>

\* 422 for an empty name, 409 for one that is taken.
LookUpName(s) ==
  /\ doing[s] = "look"
  /\ Does(s, IF NameOf(s) = Blank THEN "invalid" ELSE IF Taken(s) THEN "taken" ELSE "insert")
  /\ UNCHANGED <<typed, tenants, withKey, faulty>>

InsertTenant(s) ==
  /\ doing[s] = "insert"
  /\ ~Taken(s)
  /\ tenants' = [tenants EXCEPT ![s] = [name |-> NameOf(s)]]
  /\ \/ Does(s, "issue") /\ UNCHANGED faulty
     \/ Does(s, "stopped") /\ faulty' = faulty \cup {s}
  /\ UNCHANGED <<typed, withKey>>

\* The constraint refuses the name: IntegrityError has no handler, 500.
InsertClashes(s) ==
  /\ doing[s] = "insert"
  /\ Taken(s)
  /\ Does(s, "error")
  /\ UNCHANGED <<typed, tenants, withKey, faulty>>

\* The tenant is found: nothing deletes tenants.  The key is printed once.
IssueFirstKey(s) ==
  /\ doing[s] = "issue"
  /\ tenants[s] # NoTenant
  /\ withKey' = withKey \cup {s}
  /\ \/ Does(s, "printed") /\ UNCHANGED faulty
     \/ Does(s, "stopped") /\ faulty' = faulty \cup {s}
  /\ UNCHANGED <<typed, tenants>>

PostFails(s) ==
  /\ doing[s] \in {"look", "insert", "issue"}
  /\ Does(s, "stopped")
  /\ faulty' = faulty \cup {s}
  /\ UNCHANGED <<typed, tenants, withKey>>

ProvisioningNext ==
  \E s \in Scripts :
    \/ RunScript(s) \/ LookUpName(s) \/ InsertTenant(s) \/ InsertClashes(s)
    \/ IssueFirstKey(s) \/ PostFails(s)

ProvisioningSpec == ProvisioningInit /\ [][ProvisioningNext]_provisioningVars

-----------------------------------------------------------------------------
\* However many people provision one name at once, and however they type it: when
\* all have ended, one of them has a key, to the only tenant of that name, unless
\* a fault stopped one of them.  No name ever has two tenants.
OneKeyPerName ==
  \A n \in Names :
    LET asked == {s \in Scripts : NameOf(s) = n /\ doing[s] # "new"}
        printed == {s \in asked : doing[s] = "printed"}
    IN /\ Cardinality({s \in Scripts : tenants[s].name = n}) <= 1
       /\ \A s \in printed : s \in withKey /\ tenants[s].name = n
       /\ asked # {} /\ asked \cap faulty = {} /\ (\A s \in asked : doing[s] \in Ended)
            => Cardinality(printed) = 1
=============================================================================
