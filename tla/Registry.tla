------------------------------ MODULE Registry ------------------------------
(***************************************************************************)
(* What registration promises a tenant: every request takes effect at one  *)
(* moment.  At that moment all its items are registered, none of their     *)
(* names being taken, or it is refused because one of them is; lookups,    *)
(* inserts, locks and other requests are nowhere to be seen.  A server     *)
(* error is for requests that met another one for the same name only.      *)
(***************************************************************************)
EXTENDS Naturals, Sequences

CONSTANTS Tenants, ExternalIds, Requests, MaxBatch, BadType, None

VARIABLES
  tenant, \* the tenant of each request
  batch,  \* the external ids of its items
  status, \* open, or what it was answered
  rivals, \* requests that were open together with it
  rows    \* the registered items

registryVars == <<tenant, batch, status, rivals, rows>>

Entries == ExternalIds \cup {BadType, None}
Batches == UNION {[1 .. n -> Entries] : n \in 1 .. MaxBatch}

ItemsOf(r) == {<<r, i>> : i \in 1 .. Len(batch[r])}
Names(r) == {batch[r][i] : i \in 1 .. Len(batch[r])} \cap ExternalIds
NameOf(x) == batch[x[1]][x[2]]

Taken(r) == \E x \in rows : tenant[x[1]] = tenant[r] /\ NameOf(x) \in Names(r)
Repeats(r) ==
  \E i, j \in 1 .. Len(batch[r]) : i # j /\ batch[r][i] = batch[r][j] /\ batch[r][i] \in Names(r)
BadTyped(r) == \E i \in 1 .. Len(batch[r]) : batch[r][i] = BadType

Init ==
  /\ tenant = [r \in Requests |-> None]
  /\ batch = [r \in Requests |-> <<>>]
  /\ status = [r \in Requests |-> "new"]
  /\ rivals = [r \in Requests |-> {}]
  /\ rows = {}

Open(r) == status[r] = "open"

Begin(r, t, ids) ==
  /\ status[r] = "new"
  /\ status' = [status EXCEPT ![r] = "open"]
  /\ tenant' = [tenant EXCEPT ![r] = t]
  /\ batch' = [batch EXCEPT ![r] = ids]
  /\ rivals' = [s \in Requests |-> IF s = r THEN {u \in Requests : Open(u)}
                                   ELSE IF Open(s) THEN rivals[s] \cup {r}
                                   ELSE rivals[s]]
  /\ UNCHANGED rows

Answer(r, answer) ==
  /\ Open(r)
  /\ status' = [status EXCEPT ![r] = answer]
  /\ UNCHANGED <<tenant, batch, rivals>>

Create(r) ==
  /\ ~Taken(r) /\ ~Repeats(r) /\ ~BadTyped(r)
  /\ rows' = rows \cup ItemsOf(r)
  /\ Answer(r, "created")

Refuse(r) ==
  /\ Taken(r) \/ Repeats(r)
  /\ Answer(r, "conflict")
  /\ UNCHANGED rows

Reject(r) ==
  /\ BadTyped(r)
  /\ Answer(r, "invalid")
  /\ UNCHANGED rows

Err(r) ==
  /\ \E s \in rivals[r] : tenant[s] = tenant[r] /\ Names(s) \cap Names(r) # {}
  /\ Answer(r, "error")
  /\ UNCHANGED rows

Delete(x) ==
  /\ rows' = rows \ {x}
  /\ UNCHANGED <<tenant, batch, status, rivals>>

Next ==
  \/ \E r \in Requests, t \in Tenants, ids \in Batches : Begin(r, t, ids)
  \/ \E r \in Requests : Create(r) \/ Refuse(r) \/ Reject(r) \/ Err(r)
  \/ \E x \in rows : Delete(x)

Spec == Init /\ [][Next]_registryVars
=============================================================================
