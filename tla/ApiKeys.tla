------------------------------ MODULE ApiKeys ------------------------------
(***************************************************************************)
(* auth-service: the life of an API key, as the admin API changes it, and  *)
(* the Redis list of revoked keys.                                         *)
(*                                                                         *)
(* As in catalog-service, a use case works on a detached entity; update()  *)
(* (Session.merge) reads the row again, and the commit at the end of the   *)
(* unit of work writes the columns in which the entity differs from that   *)
(* second read.                                                            *)
(***************************************************************************)
EXTENDS Naturals, FiniteSets

CONSTANTS
  Keys,          \* API key ids; each is handed out at most once (uuid4)
  Admins,        \* concurrent requests to the admin API
  Lifetimes,     \* expires_in_days of a key that has one
  GracePeriod,   \* auth_api_key_grace_seconds
  TokenTtl,      \* auth_access_token_ttl_seconds
  Slack,         \* what a revocation entry lives longer than a token
  RequestTime,   \* the longest a request takes
  MaxChanges,    \* bound on rotations and revocations begun
  Faults,        \* the calls that may fail: to Redis, to the database
  None

ASSUME KeyAssumption ==
  /\ None \notin Nat \cup Keys
  /\ Lifetimes \subseteq Nat
  /\ GracePeriod \in Nat /\ TokenTtl \in Nat /\ Slack \in Nat
  /\ RequestTime \in Nat /\ MaxChanges \in Nat
  /\ Faults \subseteq {"redis", "db"}

VARIABLES
  now,      \* the clock, the same for every process
  keys,     \* api_keys: the committed row of each key
  listed,   \* revocation list: when the entry of each key expires
  apc,      \* the call an admin request makes next
  akey,     \* the key it is for
  abegan,   \* when it began
  entity,   \* the entity it has loaded and changed
  loaded,   \* the row merge has found
  changes,  \* rotations and revocations begun
  revoked   \* keys whose revocation has been answered (history)

adminVars == <<apc, akey, abegan, entity, loaded>>
keyVars == <<keys, listed, adminVars, changes, revoked>>

Time == Nat \cup {None}
Status == {"absent", "active", "grace", "revoked"}

\* The columns that matter to whether a key is usable; "absent" is no row.
KeyRow == [status : Status, expires : Time, grace : Time, revokedAt : Time,
           rotatedFrom : Keys \cup {None}]

NoKey == [status |-> "absent", expires |-> None, grace |-> None,
          revokedAt |-> None, rotatedFrom |-> None]

ActiveKey(expires, from) ==
  [NoKey EXCEPT !.status = "active", !.expires = expires, !.rotatedFrom = from]

KeysTypeOK ==
  /\ now \in Nat
  /\ keys \in [Keys -> KeyRow]
  /\ listed \in [Keys -> Nat]
  /\ apc \in [Admins -> {"idle", "merge", "list", "commit"}]
  /\ akey \in [Admins -> Keys \cup {None}]
  /\ abegan \in [Admins -> Nat]
  /\ entity \in [Admins -> KeyRow]
  /\ loaded \in [Admins -> KeyRow]
  /\ changes \in 0 .. MaxChanges
  /\ revoked \subseteq Keys

KeysInit ==
  /\ now = 0
  /\ keys = [k \in Keys |-> NoKey]
  /\ listed = [k \in Keys |-> 0]
  /\ apc = [a \in Admins |-> "idle"]
  /\ akey = [a \in Admins |-> None]
  /\ abegan = [a \in Admins |-> 0]
  /\ entity = [a \in Admins |-> NoKey]
  /\ loaded = [a \in Admins |-> NoKey]
  /\ changes = 0
  /\ revoked = {}

Issued(k) == keys[k].status # "absent"

\* Mutant: a key that was rotated out works until it expires.
UsableUntilExpiry(row, t) ==
  /\ row.status \in {"active", "grace"}
  /\ row.expires # None => t < row.expires

\* The reasons a key is refused for, of a row read some time before.
UsableAt(row, t) ==
  /\ row.status \in {"active", "grace"}
  /\ row.status = "grace" => row.grace # None /\ t < row.grace
  /\ row.expires # None => t < row.expires

AdminGoto(a, pc) == apc' = [apc EXCEPT ![a] = pc]

\* The session is closed: what has not been committed is rolled back.
EndAdmin(a) ==
  /\ AdminGoto(a, "idle")
  /\ akey' = [akey EXCEPT ![a] = None]
  /\ abegan' = [abegan EXCEPT ![a] = 0]
  /\ entity' = [entity EXCEPT ![a] = NoKey]
  /\ loaded' = [loaded EXCEPT ![a] = NoKey]

-----------------------------------------------------------------------------
(* The admin API                                                           *)

IssueKey(a, k, expires) ==
  /\ apc[a] = "idle"
  /\ ~Issued(k)
  /\ \A j \in Keys : ~Issued(j) \* bound: the other keys come from rotations
  /\ keys' = [keys EXCEPT ![k] = ActiveKey(expires, None)]
  /\ UNCHANGED <<listed, adminVars, changes, revoked>>

LoadKey(a, k, changed) ==
  /\ apc[a] = "idle"
  /\ Issued(k)
  /\ changes < MaxChanges
  /\ changes' = changes + 1
  /\ AdminGoto(a, "merge")
  /\ akey' = [akey EXCEPT ![a] = k]
  /\ abegan' = [abegan EXCEPT ![a] = now]
  /\ entity' = [entity EXCEPT ![a] = changed]
  /\ UNCHANGED <<keys, listed, loaded, revoked>>

\* Only an active key is rotated.
BeginRotate(a, k) ==
  /\ keys[k].status = "active"
  /\ \E j \in Keys : ~Issued(j) \* bound: an id is left for the replacement
  /\ LoadKey(a, k, [keys[k] EXCEPT !.status = "grace",
                                   !.grace = now + GracePeriod])

BeginRevoke(a, k) ==
  LoadKey(a, k, [keys[k] EXCEPT !.status = "revoked", !.revokedAt = now])

Merge(a) ==
  /\ apc[a] = "merge"
  /\ loaded' = [loaded EXCEPT ![a] = keys[akey[a]]]
  /\ AdminGoto(a, IF entity[a].status = "revoked" THEN "list" ELSE "commit")
  /\ UNCHANGED <<keys, listed, akey, abegan, entity, changes, revoked>>

\* Mutant: the entry lives no longer than a token.
EntryExpiryOfToken(t) == t + TokenTtl

EntryExpiry(t) == t + TokenTtl + Slack

ListRevoked(a) ==
  /\ apc[a] = "list"
  /\ listed' = [listed EXCEPT ![akey[a]] = EntryExpiry(now)]
  /\ AdminGoto(a, "commit")
  /\ UNCHANGED <<keys, akey, abegan, entity, loaded, changes, revoked>>

\* Mutant: the error is logged, and the revocation goes on.
ListingFailureIsLogged(a) ==
  /\ "redis" \in Faults
  /\ apc[a] = "list"
  /\ AdminGoto(a, "commit")
  /\ UNCHANGED <<keys, listed, akey, abegan, entity, loaded, changes, revoked>>

\* SETEX raises, with or without having written: the revocation is an error.
ListingFails(a) ==
  /\ "redis" \in Faults
  /\ apc[a] = "list"
  /\ \/ listed' = [listed EXCEPT ![akey[a]] = EntryExpiry(now)]
     \/ UNCHANGED listed
  /\ EndAdmin(a)
  /\ UNCHANGED <<keys, changes, revoked>>

\* The columns merge has found changed, over the row as it is by now.
Written(a) ==
  [c \in {"status", "expires", "grace", "revokedAt", "rotatedFrom"} |->
     IF entity[a][c] # loaded[a][c] THEN entity[a][c] ELSE keys[akey[a]][c]]

CommitRevoke(a) ==
  /\ apc[a] = "commit"
  /\ entity[a].status = "revoked"
  /\ keys' = [keys EXCEPT ![akey[a]] = Written(a)]
  /\ revoked' = revoked \cup {akey[a]}
  /\ EndAdmin(a)
  /\ UNCHANGED <<listed, changes>>

\* The rotated key and its replacement k are written by one transaction.
CommitRotate(a, k) ==
  /\ apc[a] = "commit"
  /\ entity[a].status = "grace"
  /\ ~Issued(k)
  /\ keys' = [keys EXCEPT ![akey[a]] = Written(a),
                          ![k] = ActiveKey(entity[a].expires, akey[a])]
  /\ EndAdmin(a)
  /\ UNCHANGED <<listed, changes, revoked>>

\* A failed commit does not take the revocation entry back.
CommitFails(a) ==
  /\ "db" \in Faults
  /\ apc[a] = "commit"
  /\ EndAdmin(a)
  /\ UNCHANGED <<keys, listed, changes, revoked>>

\* With the next second, Redis drops the entries it is past.
ExpireEntries ==
  listed' = [k \in Keys |-> IF now + 1 < listed[k] THEN listed[k] ELSE 0]

AdminStep(a) ==
  \/ \E k \in Keys :
       \/ \E e \in {None} \cup {now + l : l \in Lifetimes} : IssueKey(a, k, e)
       \/ BeginRotate(a, k) \/ BeginRevoke(a, k) \/ CommitRotate(a, k)
  \/ Merge(a) \/ ListRevoked(a) \/ ListingFails(a)
  \/ CommitRevoke(a) \/ CommitFails(a)

-----------------------------------------------------------------------------
\* A key that "is not active" "cannot be rotated" (api_keys.py): it has at most one
\* replacement, however its rotations overlap.
KeysRotateOnce ==
  \A j, k \in Keys :
    keys[j].rotatedFrom # None /\ keys[j].rotatedFrom = keys[k].rotatedFrom => j = k
=============================================================================
