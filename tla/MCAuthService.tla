--------------------------- MODULE MCAuthService ---------------------------
(***************************************************************************)
(* Small instances for TLC of the parts of auth-service, in one run: keys  *)
(* and credentials, the rate limiter, and the provisioning of tenants.     *)
(* The choice of focus says which of them moves.  They share no state, so  *)
(* nothing is lost by not interleaving them.                               *)
(***************************************************************************)
EXTENDS AuthService, RateLimiter, Provisioning, TLC

CONSTANTS acme, acmeBlank, bolt, blanks, empty

VARIABLE focus

mcVars == <<focus, vars, limiterVars, provisioningVars>>

\* " acme" and "acme" are one name; "  " is none.
Stripped == (acme :> acme) @@ (acmeBlank :> acme) @@ (bolt :> bolt) @@ (blanks :> empty)

MCInit ==
  /\ focus \in {"keys", "limits", "tenants"}
  /\ Init /\ LimiterInit
  /\ ProvisioningInit /\ (focus = "tenants" \/ \A s \in Scripts : typed[s] = acme)

MCNext ==
  /\ UNCHANGED focus
  /\ \/ focus = "keys" /\ Next /\ UNCHANGED <<limiterVars, provisioningVars>>
     \/ focus = "limits" /\ LimiterNext /\ UNCHANGED <<vars, provisioningVars>>
     \/ focus = "tenants" /\ ProvisioningNext /\ UNCHANGED <<vars, limiterVars>>

MCSpec == MCInit /\ [][MCNext]_mcVars

Symmetry ==
  Permutations(Keys) \cup Permutations(Clients) \cup Permutations(Admins)
    \cup Permutations(Hits)
=============================================================================
