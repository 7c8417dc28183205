------------------------- MODULE AuthServiceProofs -------------------------
(***************************************************************************)
(* What auth-service promises about the keys, the tokens and the budgets,  *)
(* whatever number of administrators, of clients and of hits there are and *)
(* whatever calls fail.                                                    *)
(***************************************************************************)
EXTENDS AuthService, RateLimiter, TLAPS

-----------------------------------------------------------------------------
(* The revocation list covers the tokens of revoked keys                   *)

\* The entry of k does not expire before t.
CoveredUntil(k, t) == now < t => listed[k] >= t

\* No request is older than a request may be.
RequestsAreRecent ==
  /\ \A a \in Admins :
       apc[a] # "idle" => abegan[a] <= now /\ now <= abegan[a] + RequestTime
  /\ \A c \in Clients :
       cpc[c] # "idle" => cbegan[c] <= now /\ now <= cbegan[c] + RequestTime

\* A revocation is on the list before it is committed.
ListedBeforeCommit ==
  \A a \in Admins :
    /\ apc[a] # "idle" => akey[a] \in Keys
    /\ apc[a] = "commit" /\ entity[a].status = "revoked"
         => CoveredUntil(akey[a], abegan[a] + TokenTtl + Slack)

TokensAreRecent == \A token \in tokens : token.exp <= now + TokenTtl

\* A request that may come to sign a token for k.
MaySign(c, k) ==
  /\ exchange[c]
  /\ cpc[c] \in {"row", "hit", "sign"}
  /\ row[c].status # "revoked"
  /\ credential[c] = k

\* What a request that presents a token, or one that signs a token, looks like.
SignersReadUsableRow ==
  \A c \in Clients :
    /\ cpc[c] \in {"idle", "verified"} => ~exchange[c]
    /\ cpc[c] = "sign" => exchange[c]
    /\ cpc[c] \in {"hit", "sign"} /\ exchange[c] => row[c].status # "revoked"

\* The entry of a revoked key covers its tokens, and those yet to be signed.
RevokedIsCovered ==
  \A k \in Keys : keys[k].status = "revoked" =>
    /\ \A token \in tokens :
         token.key = k => CoveredUntil(k, token.exp + RequestTime)
    /\ \A c \in Clients :
         MaySign(c, k) => CoveredUntil(k, cbegan[c] + 2 * RequestTime + TokenTtl)

ListInv ==
  /\ TypeOK
  /\ RequestsAreRecent
  /\ ListedBeforeCommit
  /\ TokensAreRecent
  /\ SignersReadUsableRow
  /\ RevokedIsCovered

-----------------------------------------------------------------------------
(* Types                                                                   *)

LEMMA KeyRows ==
  ASSUME TypeOK
  PROVE  /\ NoKey \in KeyRow
         /\ \A e \in Time, f \in Keys \cup {None} : ActiveKey(e, f) \in KeyRow
         /\ \A a \in Admins : akey[a] \in Keys => Written(a) \in KeyRow
  <1>1. NoKey \in KeyRow
    BY DEF NoKey, KeyRow, Status, Time
  <1>2. \A e \in Time, f \in Keys \cup {None} : ActiveKey(e, f) \in KeyRow
    BY DEF ActiveKey, NoKey, KeyRow, Status, Time
  <1>3. \A a \in Admins : akey[a] \in Keys => Written(a) \in KeyRow
    BY DEF Written, TypeOK, KeysTypeOK, KeyRow
  <1> QED BY <1>1, <1>2, <1>3

LEMMA EndAdminType ==
  ASSUME TypeOK, NEW a \in Admins, EndAdmin(a)
  PROVE  /\ apc' \in [Admins -> {"idle", "merge", "list", "commit"}]
         /\ akey' \in [Admins -> Keys \cup {None}]
         /\ abegan' \in [Admins -> Nat]
         /\ entity' \in [Admins -> KeyRow]
         /\ loaded' \in [Admins -> KeyRow]
  BY KeyRows DEF EndAdmin, AdminGoto, TypeOK, KeysTypeOK

LEMMA AdminStepType ==
  ASSUME TypeOK, ListedBeforeCommit, NEW a \in Admins, AdminStep(a),
         UNCHANGED <<now, tokens, clientVars>>
  PROVE  TypeOK'
  <1> USE KeyAssumption DEF clientVars
  <1>0. /\ now \in Nat
        /\ keys \in [Keys -> KeyRow]
        /\ listed \in [Keys -> Nat]
        /\ apc \in [Admins -> {"idle", "merge", "list", "commit"}]
        /\ akey \in [Admins -> Keys \cup {None}]
        /\ abegan \in [Admins -> Nat]
        /\ entity \in [Admins -> KeyRow]
        /\ loaded \in [Admins -> KeyRow]
        /\ changes \in 0 .. MaxChanges
        /\ revoked \subseteq Keys
    BY DEF TypeOK, KeysTypeOK
  <1> SUFFICES KeysTypeOK'
    BY DEF TypeOK
  <1>1. ASSUME NEW k \in Keys, NEW e \in {None} \cup {now + l : l \in Lifetimes},
               IssueKey(a, k, e)
        PROVE  KeysTypeOK'
    <2>1. e \in Time
      <3>1. \A l \in Lifetimes : now + l \in Nat
        BY <1>0
      <3> QED BY <3>1 DEF Time
    <2>2. ActiveKey(e, None) \in KeyRow
      BY <2>1, KeyRows
    <2> QED BY <1>0, <1>1, <2>2 DEF IssueKey, KeysTypeOK, adminVars
  <1>2. ASSUME NEW k \in Keys, NEW r \in KeyRow, LoadKey(a, k, r)
        PROVE  KeysTypeOK'
    <2>1. changes' \in 0 .. MaxChanges
      BY <1>0, <1>2 DEF LoadKey
    <2> QED BY <1>0, <1>2, <2>1 DEF LoadKey, AdminGoto, KeysTypeOK
  <1>3. ASSUME NEW k \in Keys, BeginRotate(a, k)
        PROVE  KeysTypeOK'
    <2>1. [keys[k] EXCEPT !.status = "grace", !.grace = now + GracePeriod] \in KeyRow
      <3>1. keys[k] \in KeyRow /\ now + GracePeriod \in Nat
        BY <1>0
      <3> QED BY ONLY <3>1 DEF KeyRow, Status, Time
    <2> QED BY <1>2, <1>3, <2>1 DEF BeginRotate
  <1>4. ASSUME NEW k \in Keys, BeginRevoke(a, k)
        PROVE  KeysTypeOK'
    <2>1. [keys[k] EXCEPT !.status = "revoked", !.revokedAt = now] \in KeyRow
      <3>1. keys[k] \in KeyRow /\ now \in Nat
        BY <1>0
      <3> QED BY ONLY <3>1 DEF KeyRow, Status, Time
    <2> QED BY <1>2, <1>4, <2>1 DEF BeginRevoke
  <1>5. ASSUME Merge(a)
        PROVE  KeysTypeOK'
    <2>1. keys[akey[a]] \in KeyRow
      BY <1>0, <1>5 DEF Merge, ListedBeforeCommit
    <2> QED BY <1>0, <1>5, <2>1 DEF Merge, AdminGoto, KeysTypeOK
  <1>6. EntryExpiry(now) \in Nat
    BY <1>0 DEF EntryExpiry
  <1>7. ASSUME ListRevoked(a)
        PROVE  KeysTypeOK'
    BY <1>0, <1>6, <1>7 DEF ListRevoked, AdminGoto, KeysTypeOK
  <1>8. ASSUME ListingFails(a)
        PROVE  KeysTypeOK'
    BY <1>0, <1>6, <1>8, EndAdminType DEF ListingFails, KeysTypeOK
  <1>9. ASSUME CommitRevoke(a)
        PROVE  KeysTypeOK'
    <2>1. akey[a] \in Keys /\ Written(a) \in KeyRow
      BY <1>9, KeyRows DEF CommitRevoke, ListedBeforeCommit
    <2> QED BY <1>0, <1>9, <2>1, EndAdminType DEF CommitRevoke, KeysTypeOK
  <1>10. ASSUME NEW k \in Keys, CommitRotate(a, k)
         PROVE  KeysTypeOK'
    <2>1. akey[a] \in Keys /\ Written(a) \in KeyRow
      BY <1>10, KeyRows DEF CommitRotate, ListedBeforeCommit
    <2>2. ActiveKey(entity[a].expires, akey[a]) \in KeyRow
      BY <1>0, <2>1, KeyRows DEF KeyRow
    <2> QED BY <1>0, <1>10, <2>1, <2>2, EndAdminType DEF CommitRotate, KeysTypeOK
  <1>11. ASSUME CommitFails(a)
         PROVE  KeysTypeOK'
    BY <1>0, <1>11, EndAdminType DEF CommitFails, KeysTypeOK
  <1> QED BY <1>1, <1>3, <1>4, <1>5, <1>7, <1>8, <1>9, <1>10, <1>11 DEF AdminStep

LEMMA EndRequestType ==
  ASSUME TypeOK, NEW c \in Clients, EndRequest(c)
  PROVE  /\ cpc' \in [Clients -> {"idle", "row", "verified", "hit", "sign"}]
         /\ credential' \in [Clients -> Keys \cup {None}]
         /\ \A d \in Clients : cpc'[d] # "idle" => credential'[d] \in Keys
         /\ exchange' \in [Clients -> BOOLEAN]
         /\ cbegan' \in [Clients -> Nat]
         /\ row' \in [Clients -> KeyRow]
         /\ doomed' \in [Clients -> BOOLEAN]
         /\ unchecked' \in [Clients -> BOOLEAN]
  BY KeyRows DEF EndRequest, Goto, TypeOK

LEMMA ClientStepType ==
  ASSUME TypeOK, NEW c \in Clients, ClientStep(c), UNCHANGED now
  PROVE  TypeOK'
  <1> USE KeyAssumption DEF TypeOK, keyVars, adminVars, KeysTypeOK
  <1>1. ASSUME NEW k \in Keys, NEW forToken \in BOOLEAN, PresentKey(c, k, forToken)
        PROVE  TypeOK'
    BY <1>1 DEF PresentKey, Begin, Goto
  <1>2. ASSUME NEW token \in tokens, PresentToken(c, token)
        PROVE  TypeOK'
    BY <1>2 DEF PresentToken, Begin, Goto, Token
  <1>3. ASSUME AcceptKey(c) \/ AcceptToken(c) \/ AcceptUnchecked(c)
        PROVE  TypeOK'
    BY <1>3 DEF AcceptKey, AcceptToken, AcceptUnchecked, Goto
  <1>4. ASSUME RejectKey(c) \/ RejectToken(c)
        PROVE  TypeOK'
    BY <1>4, EndRequestType DEF RejectKey, RejectToken
  <1>5. ASSUME Hit(c)
        PROVE  TypeOK'
    <2>1. CASE EndRequest(c)
      BY <1>5, <2>1, EndRequestType DEF Hit
    <2>2. CASE Goto(c, "sign") /\ UNCHANGED <<credential, exchange, cbegan, row,
                                             doomed, unchecked>>
      BY <1>5, <2>2 DEF Hit, Goto
    <2> QED BY <1>5, <2>1, <2>2 DEF Hit, LetIn
  <1>6. ASSUME SignToken(c)
        PROVE  TypeOK'
    <2>1. [key |-> credential[c], exp |-> now + TokenTtl] \in Token
      BY <1>6 DEF SignToken, Token
    <2> QED BY <1>6, <2>1, EndRequestType DEF SignToken
  <1> QED BY <1>1, <1>2, <1>3, <1>4, <1>5, <1>6 DEF ClientStep

LEMMA StepType ==
  ASSUME TypeOK, ListedBeforeCommit, [Next]_vars
  PROVE  TypeOK'
  <1>1. CASE Tick
    BY <1>1, KeyAssumption
      DEF Tick, ExpireEntries, TypeOK, KeysTypeOK, adminVars, clientVars
  <1>2. CASE UNCHANGED vars
    BY <1>2 DEF vars, keyVars, adminVars, clientVars, TypeOK, KeysTypeOK
  <1> QED BY <1>1, <1>2, AdminStepType, ClientStepType DEF Next

-----------------------------------------------------------------------------
(* The revocation list                                                     *)

\* The clock and the entries, in every step.
LEMMA ClockAndEntries ==
  ASSUME [Next]_vars
  PROVE  \/ now' = now /\ listed' = listed
         \/ /\ now' = now
            /\ \E a \in Admins : /\ apc[a] = "list"
                                /\ listed' = [listed EXCEPT ![akey[a]] = EntryExpiry(now)]
         \/ Tick
  <1>1. ASSUME NEW a \in Admins, AdminStep(a), UNCHANGED <<now, tokens, clientVars>>
        PROVE  \/ now' = now /\ listed' = listed
               \/ /\ now' = now
                  /\ apc[a] = "list"
                  /\ listed' = [listed EXCEPT ![akey[a]] = EntryExpiry(now)]
    BY <1>1 DEF AdminStep, IssueKey, BeginRotate, BeginRevoke, LoadKey, CommitRotate,
                Merge, ListRevoked, ListingFails, CommitRevoke, CommitFails
  <1>2. ASSUME NEW c \in Clients, ClientStep(c), UNCHANGED now
        PROVE  now' = now /\ listed' = listed
    BY <1>2 DEF ClientStep, PresentKey, PresentToken, AcceptKey, RejectKey,
                AcceptToken, RejectToken, AcceptUnchecked, Hit, SignToken, keyVars
  <1>3. CASE UNCHANGED vars
    BY <1>3 DEF vars, keyVars
  <1> QED BY <1>1, <1>2, <1>3 DEF Next

\* An entry written later expires later: no step uncovers what was covered.
LEMMA EntriesOutlast ==
  ASSUME TypeOK, ListedBeforeCommit, [Next]_vars, NEW k \in Keys, NEW t \in Nat,
         t <= now + TokenTtl + Slack, CoveredUntil(k, t)
  PROVE  CoveredUntil(k, t)'
  <1>0. now \in Nat /\ listed \in [Keys -> Nat]
    BY DEF TypeOK, KeysTypeOK
  <1>1. CASE now' = now /\ listed' = listed
    BY <1>1 DEF CoveredUntil
  <1>2. ASSUME NEW a \in Admins, apc[a] = "list", now' = now,
               listed' = [listed EXCEPT ![akey[a]] = EntryExpiry(now)]
        PROVE  CoveredUntil(k, t)'
    <2>1. listed'[k] = listed[k] \/ listed'[k] = EntryExpiry(now)
      BY <1>0, <1>2
    <2>2. EntryExpiry(now) >= t
      BY <1>0, KeyAssumption DEF EntryExpiry
    <2> QED BY <1>2, <2>1, <2>2 DEF CoveredUntil
  <1>3. CASE Tick
    <2>1. now' = now + 1
      BY <1>3 DEF Tick
    <2>2. listed'[k] = IF now + 1 < listed[k] THEN listed[k] ELSE 0
      BY <1>3 DEF Tick, ExpireEntries
    <2>3. listed[k] \in Nat
      BY <1>0
    <2> QED BY <1>0, <2>1, <2>2, <2>3 DEF CoveredUntil
  <1> QED BY <1>1, <1>2, <1>3, ClockAndEntries

\* What an administrator's step does to its own state.
LEMMA AdminStepKeepsBegan ==
  ASSUME TypeOK, NEW a \in Admins, AdminStep(a)
  PROVE  \A b \in Admins :
           \/ apc'[b] = "idle"
           \/ apc'[b] = "merge" /\ abegan'[b] = now /\ akey'[b] \in Keys
           \/ /\ apc[b] # "idle"
              /\ abegan'[b] = abegan[b] /\ akey'[b] = akey[b] /\ entity'[b] = entity[b]
              /\ \/ apc'[b] = apc[b]
                 \/ /\ apc'[b] = "commit" /\ entity[b].status # "revoked"
                 \/ apc'[b] = "list"
                 \/ apc[b] = "list" /\ ListRevoked(b)
  <1>0. /\ apc \in [Admins -> {"idle", "merge", "list", "commit"}]
        /\ akey \in [Admins -> Keys \cup {None}]
        /\ abegan \in [Admins -> Nat]
        /\ entity \in [Admins -> KeyRow]
    BY DEF TypeOK, KeysTypeOK
  <1>1. CASE UNCHANGED adminVars
    BY <1>0, <1>1 DEF adminVars
  <1>2. CASE EndAdmin(a)
    BY <1>0, <1>2 DEF EndAdmin, AdminGoto
  <1>3. ASSUME NEW k \in Keys, NEW r, LoadKey(a, k, r)
        PROVE  /\ apc'[a] = "merge" /\ abegan'[a] = now /\ akey'[a] \in Keys
               /\ \A b \in Admins \ {a} :
                    /\ apc'[b] = apc[b] /\ abegan'[b] = abegan[b]
                    /\ akey'[b] = akey[b] /\ entity'[b] = entity[b]
    BY <1>0, <1>3 DEF LoadKey, AdminGoto
  <1>4. CASE Merge(a)
    BY <1>0, <1>4 DEF Merge, AdminGoto
  <1>5. CASE ListRevoked(a)
    BY <1>0, <1>5 DEF ListRevoked, AdminGoto
  <1>6. \/ UNCHANGED adminVars
        \/ EndAdmin(a)
        \/ \E k \in Keys, r \in {[keys[j] EXCEPT !.status = "grace", !.grace = now + GracePeriod] : j \in Keys}
                \cup {[keys[j] EXCEPT !.status = "revoked", !.revokedAt = now] : j \in Keys} :
             LoadKey(a, k, r)
        \/ Merge(a)
        \/ ListRevoked(a)
    BY DEF AdminStep, IssueKey, BeginRotate, BeginRevoke, CommitRotate,
           ListingFails, CommitRevoke, CommitFails
  <1> QED BY <1>0, <1>1, <1>2, <1>3, <1>4, <1>5, <1>6

\* What a request's step does to its own state.
LEMMA ClientStepKeepsBegan ==
  ASSUME TypeOK, NEW c \in Clients, ClientStep(c)
  PROVE  \A d \in Clients :
           \/ cpc'[d] = "idle" /\ (exchange'[d] => exchange[d] /\ cpc[d] = "idle")
           \/ /\ cpc'[d] = "row" /\ cbegan'[d] = now
              /\ credential'[d] \in Keys /\ row'[d] = keys[credential'[d]]
           \/ /\ cpc[d] = "idle" /\ cpc'[d] = "verified" /\ cbegan'[d] = now
              /\ exchange'[d] = exchange[d]
           \/ /\ cpc[d] # "idle"
              /\ cbegan'[d] = cbegan[d] /\ credential'[d] = credential[d]
              /\ exchange'[d] = exchange[d] /\ row'[d] = row[d]
              /\ \/ cpc'[d] = cpc[d]
                 \/ cpc'[d] = "hit" /\ cpc[d] = "row" /\ row[d].status # "revoked"
                 \/ cpc'[d] = "hit" /\ cpc[d] = "verified"
                 \/ cpc'[d] = "sign" /\ cpc[d] = "hit" /\ exchange[d]
  <1>0. /\ cpc \in [Clients -> {"idle", "row", "verified", "hit", "sign"}]
        /\ credential \in [Clients -> Keys \cup {None}]
        /\ exchange \in [Clients -> BOOLEAN]
        /\ cbegan \in [Clients -> Nat]
        /\ row \in [Clients -> KeyRow]
    BY DEF TypeOK
  <1>1. CASE EndRequest(c)
    BY <1>0, <1>1 DEF EndRequest, Goto
  <1>2. ASSUME NEW k \in Keys, NEW forToken \in BOOLEAN, PresentKey(c, k, forToken)
        PROVE  /\ cpc'[c] = "row" /\ cbegan'[c] = now
               /\ credential'[c] \in Keys /\ row'[c] = keys[credential'[c]]
               /\ \A d \in Clients \ {c} :
                    /\ cpc'[d] = cpc[d] /\ cbegan'[d] = cbegan[d]
                    /\ credential'[d] = credential[d]
                    /\ exchange'[d] = exchange[d] /\ row'[d] = row[d]
    BY <1>0, <1>2 DEF PresentKey, Begin, Goto
  <1>3. ASSUME NEW token \in tokens, PresentToken(c, token)
        PROVE  /\ cpc[c] = "idle" /\ cpc'[c] = "verified" /\ cbegan'[c] = now
               /\ exchange' = exchange
               /\ \A d \in Clients \ {c} :
                    /\ cpc'[d] = cpc[d] /\ cbegan'[d] = cbegan[d]
                    /\ credential'[d] = credential[d] /\ row'[d] = row[d]
    BY <1>0, <1>3 DEF PresentToken, Begin, Goto
  <1>4. CASE AcceptKey(c)
    BY <1>0, <1>4 DEF AcceptKey, UsableAt, Goto
  <1>5. CASE AcceptToken(c) \/ AcceptUnchecked(c)
    BY <1>0, <1>5 DEF AcceptToken, AcceptUnchecked, Goto
  <1>6. CASE Hit(c) /\ ~EndRequest(c)
    BY <1>0, <1>6 DEF Hit, LetIn, Goto
  <1> QED BY <1>0, <1>1, <1>2, <1>3, <1>4, <1>5, <1>6
        DEF ClientStep, RejectKey, RejectToken, Hit, SignToken

\* Ages of requests and tokens.
LEMMA StepKeepsAges ==
  ASSUME ListInv, [Next]_vars
  PROVE  RequestsAreRecent' /\ TokensAreRecent'
  <1> USE KeyAssumption
  <1>0. /\ now \in Nat /\ tokens \subseteq Token
        /\ \A a \in Admins : abegan[a] \in Nat
        /\ \A c \in Clients : cbegan[c] \in Nat
    BY DEF ListInv, TypeOK, KeysTypeOK
  <1>1. ASSUME NEW a \in Admins, AdminStep(a), UNCHANGED <<now, tokens, clientVars>>
        PROVE  RequestsAreRecent' /\ TokensAreRecent'
    <2>1. \A b \in Admins : apc'[b] # "idle" =>
            abegan'[b] <= now' /\ now' <= abegan'[b] + RequestTime
      BY <1>0, <1>1, AdminStepKeepsBegan DEF ListInv, RequestsAreRecent
    <2> QED BY <1>1, <2>1
          DEF ListInv, RequestsAreRecent, TokensAreRecent, clientVars
  <1>2. ASSUME NEW c \in Clients, ClientStep(c), UNCHANGED now
        PROVE  RequestsAreRecent' /\ TokensAreRecent'
    <2>1. \A d \in Clients : cpc'[d] # "idle" =>
            cbegan'[d] <= now' /\ now' <= cbegan'[d] + RequestTime
      BY <1>0, <1>2, ClientStepKeepsBegan DEF ListInv, RequestsAreRecent
    <2>2. adminVars' = adminVars
      BY <1>2 DEF ClientStep, PresentKey, PresentToken, AcceptKey, RejectKey,
                  AcceptToken, RejectToken, AcceptUnchecked, Hit, SignToken, keyVars
    <2>3. \A token \in tokens' : token \in tokens \/ token.exp = now + TokenTtl
      BY <1>2 DEF ClientStep, PresentKey, PresentToken, AcceptKey, RejectKey,
                  AcceptToken, RejectToken, AcceptUnchecked, Hit, SignToken
    <2>4. TokensAreRecent'
      BY <1>0, <1>2, <2>3 DEF ListInv, TokensAreRecent, Token
    <2> QED BY <1>2, <2>1, <2>2, <2>4 DEF ListInv, RequestsAreRecent, adminVars
  <1>3. CASE Tick
    <2>1. now' = now + 1 /\ tokens' \subseteq tokens
      BY <1>3 DEF Tick
    <2>2. TokensAreRecent'
      BY <1>0, <2>1 DEF ListInv, TokensAreRecent, Token
    <2> QED BY <1>0, <1>3, <2>1, <2>2
          DEF ListInv, RequestsAreRecent, Tick, adminVars, clientVars
  <1>4. CASE UNCHANGED vars
    BY <1>4 DEF vars, keyVars, adminVars, clientVars, ListInv, RequestsAreRecent,
                TokensAreRecent
  <1> QED BY <1>1, <1>2, <1>3, <1>4 DEF Next

LEMMA StepKeepsSigners ==
  ASSUME ListInv, [Next]_vars
  PROVE  SignersReadUsableRow'
  <1>1. ASSUME NEW c \in Clients, ClientStep(c)
        PROVE  SignersReadUsableRow'
    BY <1>1, ClientStepKeepsBegan DEF ListInv, SignersReadUsableRow
  <1>2. CASE UNCHANGED clientVars
    BY <1>2 DEF clientVars, ListInv, SignersReadUsableRow
  <1> QED BY <1>1, <1>2 DEF Next, Tick, vars

LEMMA StepKeepsListed ==
  ASSUME ListInv, [Next]_vars
  PROVE  ListedBeforeCommit'
  <1> USE KeyAssumption
  <1>0. /\ now \in Nat /\ listed \in [Keys -> Nat] /\ \A a \in Admins : abegan[a] \in Nat
        /\ akey \in [Admins -> Keys \cup {None}]
    BY DEF ListInv, TypeOK, KeysTypeOK
  <1>1. ASSUME NEW a \in Admins, akey[a] \in Keys, apc[a] # "idle",
               CoveredUntil(akey[a], abegan[a] + TokenTtl + Slack)
        PROVE  CoveredUntil(akey[a], abegan[a] + TokenTtl + Slack)'
                 \/ ~(akey'[a] = akey[a] /\ abegan'[a] = abegan[a])
    <2> DEFINE k == akey[a]
               t == abegan[a] + TokenTtl + Slack
    <2>1. k \in Keys /\ t \in Nat /\ t <= now + TokenTtl + Slack
      BY <1>0, <1>1 DEF ListInv, RequestsAreRecent
    <2>2. CoveredUntil(k, t)
      BY <1>1
    <2> HIDE DEF k, t
    <2>3. now' < t => listed'[k] >= t
      BY <2>1, <2>2, EntriesOutlast DEF ListInv, CoveredUntil
    <2> QED BY <2>3 DEF k, t, CoveredUntil
  <1>2. ASSUME NEW a \in Admins, AdminStep(a), UNCHANGED <<now, tokens, clientVars>>
        PROVE  ListedBeforeCommit'
    <2> SUFFICES ASSUME NEW b \in Admins
                 PROVE  /\ apc'[b] # "idle" => akey'[b] \in Keys
                        /\ apc'[b] = "commit" /\ entity'[b].status = "revoked"
                             => CoveredUntil(akey[b], abegan[b] + TokenTtl + Slack)'
      BY DEF ListedBeforeCommit
    <2>1. CASE apc[b] = "list" /\ ListRevoked(b) /\ akey'[b] = akey[b] /\ abegan'[b] = abegan[b]
      <3>1. akey[b] \in Keys /\ abegan[b] <= now
        BY <2>1 DEF ListInv, ListedBeforeCommit, RequestsAreRecent
      <3>2. listed'[akey[b]] = now + TokenTtl + Slack
        BY <1>0, <2>1, <3>1 DEF ListRevoked, EntryExpiry
      <3> QED BY <1>0, <1>2, <2>1, <3>1, <3>2 DEF CoveredUntil
    <2>2. CASE ~(apc[b] = "list" /\ ListRevoked(b))
      BY <1>1, <1>2, <2>2, AdminStepKeepsBegan DEF ListInv, ListedBeforeCommit
    <2> QED BY <1>2, <2>1, <2>2, AdminStepKeepsBegan
          DEF ListInv, ListedBeforeCommit, ListRevoked
  <1>3. CASE UNCHANGED adminVars
    BY <1>1, <1>3 DEF adminVars, ListInv, ListedBeforeCommit
  <1> QED BY <1>2, <1>3 DEF Next, Tick, vars, keyVars, ClientStep, PresentKey,
            PresentToken, AcceptKey, RejectKey, AcceptToken, RejectToken,
            AcceptUnchecked, Hit, SignToken

\* Only the commit of a revocation revokes a key.
LEMMA WhoRevokes ==
  ASSUME ListInv, NEW a \in Admins, AdminStep(a), NEW k \in Keys,
         keys'[k].status = "revoked"
  PROVE  keys[k].status = "revoked" \/ (CommitRevoke(a) /\ k = akey[a])
  <1>0. keys \in [Keys -> KeyRow] /\ (apc[a] # "idle" => akey[a] \in Keys)
    BY DEF ListInv, ListedBeforeCommit, TypeOK, KeysTypeOK
  <1>1. ASSUME NEW j \in Keys, NEW e, IssueKey(a, j, e)
        PROVE  keys[k].status = "revoked"
    BY <1>0, <1>1 DEF IssueKey, ActiveKey, NoKey
  <1>2. ASSUME NEW j \in Keys, CommitRotate(a, j)
        PROVE  keys[k].status = "revoked"
    <2>1. ActiveKey(entity[a].expires, akey[a]).status = "active"
      BY DEF ActiveKey, NoKey
    <2>2. k # j
      BY <1>0, <1>2, <2>1 DEF CommitRotate
    <2>3. CASE k = akey[a]
      <3>1. keys'[k] = Written(a)
        BY <1>0, <1>2, <2>2, <2>3 DEF CommitRotate
      <3>2. Written(a).status \in {entity[a].status, keys[k].status}
        BY <2>3 DEF Written
      <3>3. entity[a].status = "grace"
        BY <1>2 DEF CommitRotate
      <3> QED BY <3>1, <3>2, <3>3
    <2>4. CASE k # akey[a]
      BY <1>0, <1>2, <2>2, <2>4 DEF CommitRotate
    <2> QED BY <2>3, <2>4
  <1>3. CASE CommitRevoke(a)
    BY <1>0, <1>3 DEF CommitRevoke
  <1>4. CASE keys' = keys
    BY <1>4
  <1> QED BY <1>1, <1>2, <1>3, <1>4
        DEF AdminStep, BeginRotate, BeginRevoke, LoadKey, Merge, ListRevoked,
            ListingFails, CommitFails

\* At its commit, a revocation's entry outlasts every token signed since, and
\* those that requests in progress may still sign.
LEMMA CommitCovers ==
  ASSUME ListInv, NEW a \in Admins, CommitRevoke(a),
         NEW t \in Nat, t <= now + 2 * RequestTime + TokenTtl
  PROVE  CoveredUntil(akey[a], t)
  <1>1. CoveredUntil(akey[a], abegan[a] + TokenTtl + Slack)
    BY DEF ListInv, ListedBeforeCommit, CommitRevoke
  <1>2. /\ akey[a] \in Keys /\ now <= abegan[a] + RequestTime
        /\ now \in Nat /\ abegan[a] \in Nat /\ listed \in [Keys -> Nat]
    BY DEF ListInv, ListedBeforeCommit, RequestsAreRecent, CommitRevoke, TypeOK,
           KeysTypeOK
  <1>3. listed[akey[a]] \in Nat
    BY <1>2
  <1>4. t <= abegan[a] + TokenTtl + Slack
    BY <1>2, KeyAssumption, AuthAssumption
  <1> QED BY <1>1, <1>2, <1>3, <1>4, KeyAssumption DEF CoveredUntil

\* What is covered before a step is covered after it.
LEMMA CoverStays ==
  ASSUME ListInv, [Next]_vars, NEW k \in Keys, NEW t \in Nat,
         t <= now + 2 * RequestTime + TokenTtl, CoveredUntil(k, t)
  PROVE  now' < t => listed'[k] >= t
  <1>1. t <= now + TokenTtl + Slack
    BY KeyAssumption, AuthAssumption DEF ListInv, TypeOK, KeysTypeOK
  <1> QED BY <1>1, EntriesOutlast DEF ListInv, CoveredUntil

LEMMA StepKeepsCovered ==
  ASSUME ListInv, [Next]_vars
  PROVE  RevokedIsCovered'
  <1> USE KeyAssumption
  <1>0. /\ now \in Nat /\ tokens \subseteq Token
        /\ \A c \in Clients : cbegan[c] \in Nat
    BY DEF ListInv, TypeOK, KeysTypeOK
  <1>1. \A token \in tokens :
          token.exp \in Nat /\ token.exp + RequestTime <= now + 2 * RequestTime + TokenTtl
    BY <1>0 DEF ListInv, TokensAreRecent, Token
  <1>2. \A c \in Clients : cpc[c] # "idle" =>
          cbegan[c] + 2 * RequestTime + TokenTtl <= now + 2 * RequestTime + TokenTtl
    BY <1>0 DEF ListInv, RequestsAreRecent
  \* Keys that were revoked before the step.
  <1>3. ASSUME NEW k \in Keys, keys[k].status = "revoked", NEW token \in tokens,
               token.key = k
        PROVE  now' < token.exp + RequestTime => listed'[k] >= token.exp + RequestTime
    <2>1. CoveredUntil(k, token.exp + RequestTime)
      BY <1>3 DEF ListInv, RevokedIsCovered
    <2> QED BY <1>1, <1>3, <2>1, CoverStays
  <1>4. ASSUME NEW k \in Keys, keys[k].status = "revoked", NEW c \in Clients,
               MaySign(c, k)
        PROVE  LET t == cbegan[c] + 2 * RequestTime + TokenTtl
               IN  now' < t => listed'[k] >= t
    <2>1. CoveredUntil(k, cbegan[c] + 2 * RequestTime + TokenTtl)
      BY <1>4 DEF ListInv, RevokedIsCovered
    <2>2. cpc[c] # "idle"
      BY <1>4 DEF MaySign
    <2> QED BY <1>0, <1>2, <1>4, <2>1, <2>2, CoverStays
  <1>5. ASSUME NEW a \in Admins, AdminStep(a), UNCHANGED <<now, tokens, clientVars>>
        PROVE  RevokedIsCovered'
    <2> SUFFICES ASSUME NEW k \in Keys, keys'[k].status = "revoked"
                 PROVE  /\ \A token \in tokens : token.key = k =>
                             (now' < token.exp + RequestTime =>
                                listed'[k] >= token.exp + RequestTime)
                        /\ \A c \in Clients : MaySign(c, k) =>
                             LET t == cbegan[c] + 2 * RequestTime + TokenTtl
                             IN  now' < t => listed'[k] >= t
      BY <1>5 DEF RevokedIsCovered, MaySign, CoveredUntil, clientVars
    <2>1. CASE keys[k].status = "revoked"
      BY <1>3, <1>4, <2>1
    <2>2. CASE CommitRevoke(a) /\ k = akey[a]
      <3>1. listed' = listed
        BY <2>2 DEF CommitRevoke
      <3>2. \A t \in Nat : t <= now + 2 * RequestTime + TokenTtl => CoveredUntil(k, t)
        BY <2>2, CommitCovers
      <3>3. \A c \in Clients : MaySign(c, k) => cpc[c] # "idle"
        BY DEF MaySign
      <3> QED BY <1>0, <1>1, <1>2, <1>5, <3>1, <3>2, <3>3 DEF CoveredUntil
    <2> QED BY <1>5, <2>1, <2>2, WhoRevokes
  <1>6. ASSUME NEW c \in Clients, ClientStep(c), UNCHANGED now
        PROVE  RevokedIsCovered'
    <2>1. keys' = keys
      BY <1>6 DEF ClientStep, PresentKey, PresentToken, AcceptKey, RejectKey,
                  AcceptToken, RejectToken, AcceptUnchecked, Hit, SignToken, keyVars
    <2> SUFFICES ASSUME NEW k \in Keys, keys[k].status = "revoked"
                 PROVE  /\ \A token \in tokens' : token.key = k =>
                             (now' < token.exp + RequestTime =>
                                listed'[k] >= token.exp + RequestTime)
                        /\ \A d \in Clients : MaySign(d, k)' =>
                             (now' < cbegan'[d] + 2 * RequestTime + TokenTtl =>
                               listed'[k] >= cbegan'[d] + 2 * RequestTime + TokenTtl)
      BY <2>1 DEF RevokedIsCovered, CoveredUntil
    <2>2. ASSUME NEW d \in Clients, MaySign(d, k)'
          PROVE  MaySign(d, k) /\ cbegan'[d] = cbegan[d]
      BY <2>2, <1>6, <2>1, ClientStepKeepsBegan
        DEF MaySign, ListInv, SignersReadUsableRow
    <2>3. ASSUME NEW token \in tokens', token.key = k, token \notin tokens
          PROVE  now' < token.exp + RequestTime => listed'[k] >= token.exp + RequestTime
      <3>1. SignToken(c) /\ token.key = credential[c] /\ token.exp = now + TokenTtl
        BY <1>6, <2>3 DEF ClientStep, PresentKey, PresentToken, AcceptKey, RejectKey,
              AcceptToken, RejectToken, AcceptUnchecked, Hit, SignToken
      <3>2. MaySign(c, k)
        BY <2>3, <3>1 DEF MaySign, SignToken, ListInv, SignersReadUsableRow
      <3>3. listed' = listed /\ listed[k] \in Nat
        BY <3>1 DEF SignToken, keyVars, ListInv, TypeOK, KeysTypeOK
      <3>4. now <= cbegan[c] + RequestTime
        BY <3>1 DEF SignToken, ListInv, RequestsAreRecent
      <3>5. now' < cbegan[c] + 2 * RequestTime + TokenTtl =>
              listed'[k] >= cbegan[c] + 2 * RequestTime + TokenTtl
        BY <1>4, <3>2
      <3> QED BY <1>0, <1>6, <3>1, <3>3, <3>4, <3>5
    <2> QED BY <1>3, <1>4, <2>2, <2>3
  <1>7. ASSUME keys' = keys, tokens' \subseteq tokens, UNCHANGED clientVars
        PROVE  RevokedIsCovered'
    BY <1>3, <1>4, <1>7 DEF RevokedIsCovered, MaySign, CoveredUntil, clientVars
  <1> QED BY <1>5, <1>6, <1>7 DEF Next, Tick, vars, keyVars

LEMMA ListInitInv == Init => ListInv
  <1> SUFFICES ASSUME Init PROVE ListInv
    OBVIOUS
  <1> USE KeyAssumption DEF Init, KeysInit
  <1>1. TypeOK
    BY DEF TypeOK, KeysTypeOK, NoKey, KeyRow, Status, Time
  <1>2. \A k \in Keys : keys[k].status # "revoked"
    BY DEF NoKey
  <1> QED BY <1>1, <1>2 DEF ListInv, RequestsAreRecent, ListedBeforeCommit,
            TokensAreRecent, SignersReadUsableRow, RevokedIsCovered

LEMMA ListStepInv == ListInv /\ [Next]_vars => ListInv'
  BY StepType, StepKeepsAges, StepKeepsSigners, StepKeepsListed, StepKeepsCovered
    DEF ListInv

\* Every variable keeps its type, with any number of administrators and clients.
THEOREM AuthTypes == Spec => []TypeOK
  <1>1. ListInv => TypeOK
    BY DEF ListInv
  <1> QED BY <1>1, ListInitInv, ListStepInv, PTL DEF Spec

\* However many administrators rotate and revoke keys, whatever calls fail: the
\* tokens of a revoked key are on the revocation list as long as they live.
THEOREM RevokedTokensStayListed == Spec => []RevokedTokensAreListed
  <1>1. ListInv => RevokedTokensAreListed
    <2> SUFFICES ASSUME ListInv, NEW token \in tokens,
                        keys[token.key].status = "revoked", now < token.exp
                 PROVE  now < listed[token.key]
      BY DEF RevokedTokensAreListed, Listed
    <2>1. /\ token.key \in Keys /\ token.exp \in Nat /\ now \in Nat
          /\ listed[token.key] \in Nat
      BY DEF ListInv, TypeOK, KeysTypeOK, Token
    <2>2. CoveredUntil(token.key, token.exp + RequestTime)
      BY <2>1 DEF ListInv, RevokedIsCovered
    <2> QED BY <2>1, <2>2, KeyAssumption DEF CoveredUntil
  <1> QED BY <1>1, ListInitInv, ListStepInv, PTL DEF Spec

-----------------------------------------------------------------------------
(* One administrator at a time                                             *)

OneAdmin == \A a, b \in Admins : a = b

\* What an administrator has read of a key is what the key still is.
ReadIsCurrent ==
  \A a \in Admins : apc[a] # "idle" =>
    /\ entity[a].status \in {"grace", "revoked"}
    /\ entity[a].status = "grace" => keys[akey[a]].status = "active"
    /\ apc[a] # "merge" => loaded[a] = keys[akey[a]]

RevokedStays == \A k \in revoked : keys[k].status = "revoked"

\* What a request that began too late has met, at each point.
DoomedIsRefused ==
  \A c \in Clients : doomed[c] /\ cpc[c] # "idle" =>
    /\ credential[c] \in revoked
    /\ cpc[c] = "row" => row[c].status = "revoked"
    /\ cpc[c] = "verified" =>
         TokenTtl > 0 /\ listed[credential[c]] > cbegan[c] + RequestTime
    /\ cpc[c] \in {"hit", "sign"} => unchecked[c]

AdminInv ==
  /\ ListInv
  /\ ReadIsCurrent
  /\ RevokedStays
  /\ DoomedIsRefused

\* What an administrator's step does to the keys.
LEMMA HowKeysChange ==
  ASSUME AdminInv, NEW a \in Admins, AdminStep(a)
  PROVE  \/ keys' = keys /\ revoked' = revoked
         \/ /\ revoked' = revoked
            /\ \E k \in Keys :
                 /\ keys[k].status = "absent"
                 /\ keys'[k].status = "active"
                 /\ \A j \in Keys \ {k} : keys'[j] = keys[j]
         \/ /\ apc[a] = "commit"
            /\ revoked' = revoked \cup {akey[a]}
            /\ keys'[akey[a]].status = "revoked"
            /\ \A j \in Keys \ {akey[a]} : keys'[j] = keys[j]
         \/ /\ apc[a] = "commit"
            /\ revoked' = revoked
            /\ keys[akey[a]].status = "active" /\ keys'[akey[a]].status = "grace"
            /\ \E k \in Keys :
                 /\ keys[k].status = "absent"
                 /\ keys'[k].status = "active"
                 /\ \A j \in Keys \ {k, akey[a]} : keys'[j] = keys[j]
  <1>0. keys \in [Keys -> KeyRow] /\ (apc[a] # "idle" => akey[a] \in Keys)
    BY DEF AdminInv, ListInv, ListedBeforeCommit, TypeOK, KeysTypeOK
  <1>1. ASSUME apc[a] = "commit"
        PROVE  Written(a).status = entity[a].status
    BY <1>1 DEF Written, AdminInv, ReadIsCurrent
  <1>2. ASSUME NEW e, NEW f
        PROVE  ActiveKey(e, f).status = "active"
    BY DEF ActiveKey, NoKey
  <1>3. ASSUME NEW k \in Keys, NEW e, IssueKey(a, k, e)
        PROVE  /\ revoked' = revoked
               /\ keys[k].status = "absent"
               /\ keys'[k].status = "active"
               /\ \A j \in Keys \ {k} : keys'[j] = keys[j]
    BY <1>0, <1>2, <1>3 DEF IssueKey, Issued
  <1>4. CASE CommitRevoke(a)
    <2>1. keys' = [keys EXCEPT ![akey[a]] = Written(a)] /\ akey[a] \in Keys
      BY <1>0, <1>4 DEF CommitRevoke
    <2>2. keys'[akey[a]] = Written(a) /\ \A j \in Keys \ {akey[a]} : keys'[j] = keys[j]
      BY <1>0, <2>1
    <2> QED BY <1>1, <1>4, <2>2 DEF CommitRevoke
  <1>5. ASSUME NEW k \in Keys, CommitRotate(a, k)
        PROVE  /\ apc[a] = "commit"
               /\ revoked' = revoked
               /\ keys[akey[a]].status = "active" /\ keys'[akey[a]].status = "grace"
               /\ keys[k].status = "absent" /\ keys'[k].status = "active"
               /\ \A j \in Keys \ {k, akey[a]} : keys'[j] = keys[j]
    <2>1. /\ keys' = [keys EXCEPT ![akey[a]] = Written(a),
                                  ![k] = ActiveKey(entity[a].expires, akey[a])]
          /\ akey[a] \in Keys /\ apc[a] = "commit" /\ entity[a].status = "grace"
          /\ keys[k].status = "absent" /\ revoked' = revoked
      BY <1>0, <1>5 DEF CommitRotate, Issued
    <2>2. keys[akey[a]].status = "active"
      BY <2>1 DEF AdminInv, ReadIsCurrent
    <2>3. k # akey[a]
      BY <2>1, <2>2
    <2>4. /\ keys'[akey[a]] = Written(a)
          /\ keys'[k] = ActiveKey(entity[a].expires, akey[a])
          /\ \A j \in Keys \ {k, akey[a]} : keys'[j] = keys[j]
      BY <1>0, <2>1, <2>3
    <2>5. Written(a).status = "grace"
      BY <1>1, <2>1
    <2>6. keys'[k].status = "active"
      BY <1>2, <2>4
    <2> QED BY <2>1, <2>2, <2>4, <2>5, <2>6
  <1>6. CASE keys' = keys /\ revoked' = revoked
    BY <1>6
  <1> QED BY <1>3, <1>4, <1>5, <1>6
        DEF AdminStep, BeginRotate, BeginRevoke, LoadKey, Merge, ListRevoked,
            ListingFails, CommitFails

LEMMA AdminStepKeepsKeys ==
  ASSUME AdminInv, NEW a \in Admins, AdminStep(a)
  PROVE  RevokedStays'
  <1>0. /\ keys \in [Keys -> KeyRow] /\ (apc[a] # "idle" => akey[a] \in Keys)
        /\ None \notin Keys /\ revoked \subseteq Keys
    BY KeyAssumption DEF AdminInv, ListInv, ListedBeforeCommit, TypeOK, KeysTypeOK
  <1> QED BY <1>0, HowKeysChange DEF AdminInv, RevokedStays

LEMMA AdminStepKeepsRead ==
  ASSUME OneAdmin, AdminInv, NEW a \in Admins, AdminStep(a)
  PROVE  ReadIsCurrent'
  <1>0. /\ keys \in [Keys -> KeyRow] /\ (apc[a] # "idle" => akey[a] \in Keys)
        /\ apc \in [Admins -> {"idle", "merge", "list", "commit"}]
        /\ akey \in [Admins -> Keys \cup {None}]
        /\ entity \in [Admins -> KeyRow] /\ loaded \in [Admins -> KeyRow]
    BY DEF AdminInv, ListInv, ListedBeforeCommit, TypeOK, KeysTypeOK
  <1> SUFFICES ASSUME apc'[a] # "idle"
               PROVE  /\ entity'[a].status \in {"grace", "revoked"}
                      /\ entity'[a].status = "grace" => keys'[akey'[a]].status = "active"
                      /\ apc'[a] # "merge" => loaded'[a] = keys'[akey'[a]]
    BY DEF OneAdmin, ReadIsCurrent
  <1>1. ASSUME NEW k \in Keys, BeginRotate(a, k) \/ BeginRevoke(a, k)
        PROVE  /\ keys' = keys /\ akey'[a] = k /\ apc'[a] = "merge"
               /\ \/ entity'[a].status = "grace" /\ keys[k].status = "active"
                  \/ entity'[a].status = "revoked"
    <2>1. keys[k] \in KeyRow
      BY <1>0
    <2>2. CASE BeginRotate(a, k)
      BY <1>0, <2>1, <2>2 DEF BeginRotate, LoadKey, AdminGoto, KeyRow
    <2>3. CASE BeginRevoke(a, k)
      BY <1>0, <2>1, <2>3 DEF BeginRevoke, LoadKey, AdminGoto, KeyRow
    <2> QED BY <1>1, <2>2, <2>3
  <1>2. CASE Merge(a)
    BY <1>0, <1>2 DEF Merge, AdminInv, ReadIsCurrent
  <1>3. CASE ListRevoked(a)
    BY <1>0, <1>3 DEF ListRevoked, AdminInv, ReadIsCurrent
  <1>4. ~EndAdmin(a)
    BY <1>0 DEF EndAdmin, AdminGoto
  <1>5. ASSUME NEW k \in Keys, NEW e, IssueKey(a, k, e)
        PROVE  FALSE
    BY <1>5 DEF IssueKey, adminVars
  <1> QED BY <1>1, <1>2, <1>3, <1>4, <1>5
        DEF AdminStep, CommitRotate, ListingFails, CommitRevoke, CommitFails

\* Entries are only ever replaced by later ones, until they expire.
LEMMA DoomedEntryStays ==
  ASSUME ListInv, [Next]_vars, NEW c \in Clients, cpc[c] = "verified",
         cbegan'[c] = cbegan[c], now' <= cbegan[c] + RequestTime,
         TokenTtl > 0, NEW k \in Keys, listed[k] > cbegan[c] + RequestTime
  PROVE  listed'[k] > cbegan[c] + RequestTime
  <1> DEFINE t == cbegan[c] + RequestTime + 1
  <1>1. /\ now \in Nat /\ now' \in Nat /\ cbegan[c] \in Nat /\ listed[k] \in Nat
        /\ cbegan[c] <= now
    BY StepType DEF ListInv, TypeOK, KeysTypeOK, RequestsAreRecent
  <1>2. t \in Nat /\ t <= now + TokenTtl + Slack
    BY <1>1, KeyAssumption, AuthAssumption
  <1>3. CoveredUntil(k, t)
    BY <1>1, KeyAssumption DEF CoveredUntil
  <1>4. now' < t
    BY <1>1, KeyAssumption
  <1> HIDE DEF t
  <1>5. listed'[k] >= t
    BY <1>2, <1>3, <1>4, EntriesOutlast DEF ListInv, CoveredUntil
  <1>6. listed'[k] \in Nat
    BY StepType DEF ListInv, TypeOK, KeysTypeOK
  <1> QED BY <1>1, <1>5, <1>6, KeyAssumption DEF t

\* A request that is in progress before and after the step, and did not move.
LEMMA StillDoomed ==
  ASSUME AdminInv, [Next]_vars, RequestsAreRecent', revoked \subseteq revoked',
         NEW c \in Clients, doomed'[c], cpc'[c] # "idle",
         cpc'[c] = cpc[c], cbegan'[c] = cbegan[c], credential'[c] = credential[c],
         row'[c] = row[c], doomed'[c] = doomed[c], unchecked'[c] = unchecked[c]
  PROVE  /\ credential'[c] \in revoked'
         /\ cpc'[c] = "row" => row'[c].status = "revoked"
         /\ cpc'[c] = "verified" =>
              TokenTtl > 0 /\ listed'[credential'[c]] > cbegan'[c] + RequestTime
         /\ cpc'[c] \in {"hit", "sign"} => unchecked'[c]
  <1>1. /\ credential[c] \in revoked
        /\ cpc[c] = "row" => row[c].status = "revoked"
        /\ cpc[c] = "verified" =>
             TokenTtl > 0 /\ listed[credential[c]] > cbegan[c] + RequestTime
        /\ cpc[c] \in {"hit", "sign"} => unchecked[c]
    BY DEF AdminInv, DoomedIsRefused
  <1>2. credential[c] \in Keys
    BY DEF AdminInv, ListInv, TypeOK
  <1>3. now' <= cbegan[c] + RequestTime
    BY DEF RequestsAreRecent
  <1>4. cpc[c] = "verified" => listed'[credential[c]] > cbegan[c] + RequestTime
    BY <1>1, <1>2, <1>3, DoomedEntryStays DEF AdminInv
  <1> QED BY <1>1, <1>4

LEMMA ClientStepKeepsDoomed ==
  ASSUME AdminInv, NEW c \in Clients, ClientStep(c), UNCHANGED now
  PROVE  DoomedIsRefused'
  <1> USE KeyAssumption
  <1>0. /\ now \in Nat /\ tokens \subseteq Token /\ listed \in [Keys -> Nat]
        /\ cpc \in [Clients -> {"idle", "row", "verified", "hit", "sign"}]
        /\ credential \in [Clients -> Keys \cup {None}]
        /\ cbegan \in [Clients -> Nat] /\ row \in [Clients -> KeyRow]
        /\ doomed \in [Clients -> BOOLEAN] /\ unchecked \in [Clients -> BOOLEAN]
    BY DEF AdminInv, ListInv, TypeOK, KeysTypeOK
  <1>1. /\ listed' = listed /\ revoked' = revoked
        /\ \A d \in Clients \ {c} :
             /\ cpc'[d] = cpc[d] /\ cbegan'[d] = cbegan[d]
             /\ credential'[d] = credential[d] /\ row'[d] = row[d]
             /\ doomed'[d] = doomed[d] /\ unchecked'[d] = unchecked[d]
    BY <1>0 DEF ClientStep, PresentKey, PresentToken, AcceptKey, RejectKey, AcceptToken,
      RejectToken, AcceptUnchecked, Hit, LetIn, SignToken, Begin, EndRequest, Goto,
      keyVars
  <1> SUFFICES ASSUME doomed'[c], cpc'[c] # "idle"
               PROVE  /\ credential'[c] \in revoked
                      /\ cpc'[c] = "row" => row'[c].status = "revoked"
                      /\ cpc'[c] = "verified" =>
                           TokenTtl > 0 /\ listed[credential'[c]] > cbegan'[c] + RequestTime
                      /\ cpc'[c] \in {"hit", "sign"} => unchecked'[c]
    BY <1>1 DEF AdminInv, DoomedIsRefused
  <1>2. ~EndRequest(c)
    BY <1>0 DEF EndRequest, Goto
  <1>3. ASSUME NEW k \in Keys, NEW forToken \in BOOLEAN, PresentKey(c, k, forToken)
        PROVE  /\ cpc'[c] = "row" /\ credential'[c] = k /\ k \in revoked
               /\ row'[c].status = "revoked"
    <2>1. /\ cpc'[c] = "row" /\ credential'[c] = k /\ row'[c] = keys[k]
          /\ doomed'[c] = (k \in revoked)
      BY <1>0, <1>3 DEF PresentKey, Begin, Goto
    <2> QED BY <2>1 DEF AdminInv, RevokedStays
  <1>4. ASSUME NEW token \in tokens, PresentToken(c, token)
        PROVE  /\ cpc'[c] = "verified" /\ credential'[c] = token.key
               /\ token.key \in revoked
               /\ TokenTtl > 0 /\ listed[token.key] > cbegan'[c] + RequestTime
    <2>1. /\ cpc'[c] = "verified" /\ credential'[c] = token.key
          /\ doomed'[c] = (token.key \in revoked) /\ cbegan'[c] = now
          /\ now < token.exp
      BY <1>0, <1>4 DEF PresentToken, Begin, Goto
    <2>2. /\ token.key \in Keys /\ token.exp \in Nat /\ token.exp <= now + TokenTtl
          /\ listed[token.key] \in Nat
      BY <1>0 DEF Token, AdminInv, ListInv, TokensAreRecent
    <2>3. keys[token.key].status = "revoked"
      BY <2>1 DEF AdminInv, RevokedStays
    <2>4. CoveredUntil(token.key, token.exp + RequestTime)
      BY <2>2, <2>3 DEF AdminInv, ListInv, RevokedIsCovered
    <2>5. TokenTtl > 0 /\ listed[token.key] > now + RequestTime
      BY <1>0, <2>1, <2>2, <2>4 DEF CoveredUntil
    <2> QED BY <2>1, <2>5
  <1>5. DoomedIsRefused /\ credential[c] \in Keys \cup {None}
    BY <1>0 DEF AdminInv
  <1>6. CASE AcceptKey(c)
    BY <1>0, <1>5, <1>6 DEF AcceptKey, Goto, DoomedIsRefused, UsableAt
  <1>7. ~(AcceptToken(c) /\ doomed'[c])
    <2> SUFFICES ASSUME AcceptToken(c) PROVE FALSE
      OBVIOUS
    <2>1. /\ cpc[c] = "verified" /\ doomed[c] /\ ~(now < listed[credential[c]])
      BY DEF AcceptToken, Listed
    <2>2. listed[credential[c]] > cbegan[c] + RequestTime /\ credential[c] \in Keys
      BY <2>1, <1>5 DEF DoomedIsRefused, AdminInv, ListInv, TypeOK
    <2>3. now <= cbegan[c] + RequestTime
      BY <2>1 DEF AdminInv, ListInv, RequestsAreRecent
    <2>4. listed[credential[c]] \in Nat /\ cbegan[c] \in Nat
      BY <1>0, <2>2
    <2> QED BY <1>0, <2>1, <2>2, <2>3, <2>4
  <1>8. CASE AcceptUnchecked(c)
    BY <1>0, <1>5, <1>8 DEF AcceptUnchecked, Goto, DoomedIsRefused
  <1>9. CASE Hit(c)
    BY <1>0, <1>2, <1>5, <1>9 DEF Hit, LetIn, Goto, DoomedIsRefused
  <1> QED BY <1>2, <1>3, <1>4, <1>6, <1>7, <1>8, <1>9
        DEF ClientStep, RejectKey, RejectToken, SignToken

LEMMA AdminInit == Init => AdminInv
  <1> SUFFICES ASSUME Init PROVE AdminInv
    OBVIOUS
  <1> USE KeyAssumption DEF Init, KeysInit
  <1> QED BY ListInitInv DEF AdminInv, ReadIsCurrent, RevokedStays, DoomedIsRefused

LEMMA AdminStepInv == OneAdmin /\ AdminInv /\ [Next]_vars => AdminInv'
  <1> SUFFICES ASSUME OneAdmin, AdminInv, [Next]_vars PROVE AdminInv'
    OBVIOUS
  <1>1. ListInv'
    BY ListStepInv DEF AdminInv
  <1>2. RequestsAreRecent'
    BY <1>1 DEF ListInv
  <1>3. ASSUME NEW a \in Admins, AdminStep(a), UNCHANGED <<now, tokens, clientVars>>
        PROVE  AdminInv'
    <2>1. revoked \subseteq revoked'
      BY <1>3, HowKeysChange
    <2>2. DoomedIsRefused'
      BY <1>2, <1>3, <2>1, StillDoomed DEF DoomedIsRefused, clientVars
    <2> QED BY <1>1, <1>3, <2>2, AdminStepKeepsKeys, AdminStepKeepsRead DEF AdminInv
  <1>4. ASSUME UNCHANGED <<keys, adminVars, revoked>>
        PROVE  ReadIsCurrent' /\ RevokedStays'
    BY <1>4 DEF AdminInv, ReadIsCurrent, RevokedStays, adminVars
  <1>5. ASSUME NEW c \in Clients, ClientStep(c), UNCHANGED now
        PROVE  AdminInv'
    <2>1. UNCHANGED <<keys, adminVars, revoked>>
      BY <1>5 DEF ClientStep, PresentKey, PresentToken, AcceptKey, RejectKey,
                  AcceptToken, RejectToken, AcceptUnchecked, Hit, SignToken, keyVars
    <2> QED BY <1>1, <1>4, <1>5, <2>1, ClientStepKeepsDoomed DEF AdminInv
  <1>6. CASE Tick \/ UNCHANGED vars
    <2>1. UNCHANGED <<keys, adminVars, revoked, clientVars>>
      BY <1>6 DEF Tick, vars, keyVars
    <2>2. DoomedIsRefused'
      BY <1>2, <2>1, StillDoomed DEF DoomedIsRefused, clientVars
    <2> QED BY <1>1, <1>4, <2>1, <2>2 DEF AdminInv
  <1> QED BY <1>3, <1>5, <1>6 DEF Next

\* With one administrator at a time, revocation is final: no request that began
\* after it was answered passes, unless Redis failed to answer for the list.
THEOREM RevocationEndsAccess ==
  ASSUME OneAdmin
  PROVE  Spec => []RevocationIsFinal
  <1>1. AdminInv => RevocationIsFinal
    BY DEF AdminInv, DoomedIsRefused, RevocationIsFinal
  <1>2. AdminInv /\ [Next]_vars => AdminInv'
    BY AdminStepInv
  <1> QED BY <1>1, <1>2, AdminInit, PTL DEF Spec

-----------------------------------------------------------------------------
(* How long tokens outlive their key                                       *)

\* A request that presents a key to get a token, and has not been refused.
Signing(c) == exchange[c] /\ cpc[c] \in {"row", "hit", "sign"}

\* What an administrator who began at t has loaded (e) and, once it has read the
\* key again, found (l), against what the key is now (k).
Reads(k, e, t, read, l) ==
  /\ k.status # "absent"
  /\ e.status \in {"grace", "revoked"}
  /\ e.expires = k.expires
  /\ e.status = "revoked" => e.revokedAt = t
  /\ e.status = "grace" => e.revokedAt = None
  /\ k.status = "active" /\ e.grace # None => e.grace = t + GracePeriod
  /\ read /\ k.status = "active" => l.status = "active"
  \* A column that is not written may hold the time of an earlier revocation.
  /\ read /\ e.status = "revoked" /\ l.revokedAt = t /\ k.revokedAt # None
       => t <= k.revokedAt + RequestTime

PendingReads ==
  \A a \in Admins : apc[a] # "idle" =>
    Reads(keys[akey[a]], entity[a], abegan[a], apc[a] # "merge", loaded[a])

ActiveIsFresh ==
  \A k \in Keys : keys[k].status \in {"absent", "active"} =>
    keys[k].grace = None /\ keys[k].revokedAt = None

\* What a request has read of its key, against what the key is now.
SigningReads ==
  \A c \in Clients : Signing(c) =>
    LET k == keys[credential[c]] IN
    /\ k.status # "absent"
    /\ row[c].expires = k.expires
    /\ k.status = "active" => row[c].status = "active" /\ row[c].grace = None
    /\ cpc[c] \in {"hit", "sign"} => UsableAt(row[c], cbegan[c])
    /\ k.status = "revoked" /\ row[c].status \in {"active", "grace"}
         /\ k.revokedAt # None => cbegan[c] <= k.revokedAt + 2 * RequestTime

\* The ends of the grace period of k that somebody holds.
Graces(k) ==
  {g \in Nat :
     \/ keys[k].grace = g
     \/ \E a \in Admins : apc[a] # "idle" /\ akey[a] = k /\ entity[a].grace = g
     \/ \E c \in Clients : Signing(c) /\ credential[c] = k /\ row[c].grace = g}

\* All who rotate a key have loaded it while it was active.
GracesAgree ==
  \A k \in Keys : \A g, h \in Graces(k) : g <= h + RequestTime

ActiveWasReadBefore ==
  \A c \in Clients : Signing(c) /\ row[c].status = "active" =>
    \A g \in Graces(credential[c]) : cbegan[c] <= g + RequestTime

TokensEnd ==
  \A token \in tokens :
    LET k == keys[token.key] IN
    /\ k.status # "absent"
    /\ k.expires # None => token.exp <= k.expires + RequestTime + TokenTtl
    /\ \A g \in Graces(token.key) : token.exp <= g + 2 * RequestTime + TokenTtl
    /\ k.status = "revoked" /\ k.revokedAt # None =>
         token.exp <= k.revokedAt + 3 * RequestTime + TokenTtl

EndInv ==
  /\ ListInv
  /\ PendingReads
  /\ ActiveIsFresh
  /\ SigningReads
  /\ GracesAgree
  /\ ActiveWasReadBefore
  /\ TokensEnd

LEMMA RowFields ==
  ASSUME TypeOK
  PROVE  /\ now \in Nat /\ tokens \subseteq Token
         /\ \A k \in Keys : keys[k] \in KeyRow
         /\ \A a \in Admins : abegan[a] \in Nat /\ entity[a] \in KeyRow
         /\ \A c \in Clients : cbegan[c] \in Nat /\ row[c] \in KeyRow
         /\ \A r \in KeyRow : /\ r.status \in Status
                              /\ r.expires \in Nat \cup {None}
                              /\ r.grace \in Nat \cup {None}
                              /\ r.revokedAt \in Nat \cup {None}
  BY DEF TypeOK, KeysTypeOK, KeyRow, Time

\* What an administrator's step may do to the row of a key.
LEMMA RowsEvolve ==
  ASSUME EndInv, NEW a \in Admins, AdminStep(a), NEW k \in Keys
  PROVE  \/ keys'[k] = keys[k]
         \/ /\ keys[k].status = "absent"
            /\ keys'[k].status = "active"
            /\ keys'[k].grace = None /\ keys'[k].revokedAt = None
         \/ /\ apc[a] = "commit" /\ akey[a] = k
            /\ keys[k].status # "absent"
            /\ keys'[k].status \in {"grace", "revoked"}
            /\ keys'[k].expires = keys[k].expires
            /\ keys'[k].grace \in {keys[k].grace, entity[a].grace}
            /\ \/ keys'[k].revokedAt \in {keys[k].revokedAt, None}
               \/ now <= keys'[k].revokedAt + RequestTime
            /\ \/ keys'[k].status # "revoked" \/ keys'[k].revokedAt = None
               \/ now <= keys'[k].revokedAt + 2 * RequestTime
               \/ keys[k].status = "revoked" /\ keys'[k].revokedAt = keys[k].revokedAt
  <1> USE KeyAssumption
  <1>0. keys \in [Keys -> KeyRow] /\ (apc[a] # "idle" => akey[a] \in Keys)
    BY DEF EndInv, ListInv, ListedBeforeCommit, TypeOK, KeysTypeOK
  <1>a. \A e, f : /\ ActiveKey(e, f).status = "active"
                  /\ ActiveKey(e, f).grace = None /\ ActiveKey(e, f).revokedAt = None
    BY DEF ActiveKey, NoKey
  <1>1. ASSUME NEW j \in Keys, NEW e, IssueKey(a, j, e)
        PROVE  \/ keys'[k] = keys[k]
               \/ /\ keys[k].status = "absent"
                  /\ keys'[k].status = "active"
                  /\ keys'[k].grace = None /\ keys'[k].revokedAt = None
    BY <1>0, <1>a, <1>1 DEF IssueKey, Issued
  <1>2. ASSUME apc[a] = "commit", akey[a] = k
        PROVE  /\ keys[k].status # "absent"
               /\ Written(a).status \in {"grace", "revoked"}
               /\ Written(a).expires = keys[k].expires
               /\ Written(a).grace \in {keys[k].grace, entity[a].grace}
               /\ \/ Written(a).revokedAt \in {keys[k].revokedAt, None}
                  \/ now <= Written(a).revokedAt + RequestTime
               /\ \/ Written(a).status # "revoked" \/ Written(a).revokedAt = None
                  \/ now <= Written(a).revokedAt + 2 * RequestTime
                  \/ keys[k].status = "revoked" /\ Written(a).revokedAt = keys[k].revokedAt
    <2>1. /\ keys[k].status # "absent"
          /\ entity[a].status \in {"grace", "revoked"}
          /\ entity[a].expires = keys[k].expires
          /\ entity[a].status = "revoked" => entity[a].revokedAt = abegan[a]
          /\ entity[a].status = "grace" => entity[a].revokedAt = None
          /\ keys[k].status = "active" => loaded[a].status = "active"
          /\ entity[a].status = "revoked" /\ loaded[a].revokedAt = abegan[a]
               /\ keys[k].revokedAt # None
               => abegan[a] <= keys[k].revokedAt + RequestTime
      BY <1>2 DEF EndInv, PendingReads, Reads
    <2>2. /\ Written(a).status = IF entity[a].status # loaded[a].status
                                 THEN entity[a].status ELSE keys[k].status
          /\ Written(a).expires \in {entity[a].expires, keys[k].expires}
          /\ Written(a).grace \in {entity[a].grace, keys[k].grace}
          /\ Written(a).revokedAt = IF entity[a].revokedAt # loaded[a].revokedAt
                                    THEN entity[a].revokedAt ELSE keys[k].revokedAt
      BY <1>2 DEF Written
    <2>3. /\ now \in Nat /\ abegan[a] \in Nat /\ now <= abegan[a] + RequestTime
          /\ keys[k].revokedAt \in Nat \cup {None}
          /\ keys[k].status \in Status
      BY <1>0, <1>2, RowFields DEF EndInv, ListInv, RequestsAreRecent
    <2>4. CASE entity[a].status = "grace"
      BY <2>1, <2>2, <2>3, <2>4 DEF Status
    <2>5. CASE entity[a].status = "revoked"
      <3>1. now <= Written(a).revokedAt + 2 * RequestTime \/ Written(a).revokedAt = None
        BY <2>1, <2>2, <2>3, <2>5
      <3>2. \/ Written(a).revokedAt \in {keys[k].revokedAt, None}
            \/ now <= Written(a).revokedAt + RequestTime
        BY <2>1, <2>2, <2>3, <2>5
      <3> QED BY <2>1, <2>2, <2>3, <2>5, <3>1, <3>2 DEF Status
    <2> QED BY <2>1, <2>4, <2>5
  <1>3. CASE CommitRevoke(a)
    <2>1. keys'[k] = IF k = akey[a] THEN Written(a) ELSE keys[k]
      BY <1>0, <1>3 DEF CommitRevoke
    <2> QED BY <1>2, <1>3, <2>1 DEF CommitRevoke
  <1>4. ASSUME NEW j \in Keys, CommitRotate(a, j)
        PROVE  \/ keys'[k] = keys[k]
               \/ /\ keys[k].status = "absent"
                  /\ keys'[k].status = "active"
                  /\ keys'[k].grace = None /\ keys'[k].revokedAt = None
               \/ apc[a] = "commit" /\ akey[a] = k /\ keys'[k] = Written(a)
    BY <1>0, <1>a, <1>4 DEF CommitRotate, Issued
  <1>5. CASE keys' = keys
    BY <1>5
  <1>6. \/ keys' = keys
        \/ CommitRevoke(a)
        \/ \E j \in Keys : CommitRotate(a, j) \/ \E e : IssueKey(a, j, e)
    BY DEF AdminStep, BeginRotate, BeginRevoke, LoadKey, Merge, ListRevoked,
           ListingFails, CommitFails
  <1> QED BY <1>1, <1>2, <1>3, <1>4, <1>5, <1>6

\* What an administrator's step may do to what one of them has loaded and read.
LEMMA PendingEvolves ==
  ASSUME EndInv, NEW a \in Admins, AdminStep(a), NEW b \in Admins, apc'[b] # "idle"
  PROVE  \/ /\ apc'[b] = "merge" /\ keys' = keys /\ akey'[b] \in Keys
            /\ abegan'[b] = now
            /\ LET k == keys[akey'[b]] IN
                 /\ k.status # "absent"
                 /\ entity'[b].expires = k.expires
                 /\ \/ /\ entity'[b].status = "revoked" /\ entity'[b].revokedAt = now
                       /\ entity'[b].grace = k.grace
                    \/ /\ entity'[b].status = "grace" /\ entity'[b].revokedAt = k.revokedAt
                       /\ k.status = "active" /\ entity'[b].grace = now + GracePeriod
         \/ /\ apc[b] # "idle" /\ akey'[b] = akey[b] /\ akey[b] \in Keys
            /\ abegan'[b] = abegan[b] /\ entity'[b] = entity[b]
            /\ \/ apc'[b] = "merge"
               \/ apc[b] # "merge" /\ loaded'[b] = loaded[b]
               \/ keys' = keys /\ loaded'[b] = keys[akey[b]]
  <1>0. /\ apc \in [Admins -> {"idle", "merge", "list", "commit"}]
        /\ akey \in [Admins -> Keys \cup {None}] /\ abegan \in [Admins -> Nat]
        /\ entity \in [Admins -> KeyRow] /\ loaded \in [Admins -> KeyRow]
        /\ keys \in [Keys -> KeyRow]
        /\ \A d \in Admins : apc[d] # "idle" => akey[d] \in Keys
    BY DEF EndInv, ListInv, ListedBeforeCommit, TypeOK, KeysTypeOK
  <1>1. ASSUME NEW k \in Keys, BeginRotate(a, k) \/ BeginRevoke(a, k), b = a
        PROVE  /\ apc'[b] = "merge" /\ keys' = keys /\ akey'[b] = k /\ abegan'[b] = now
               /\ keys[k].status # "absent"
               /\ entity'[b].expires = keys[k].expires
               /\ \/ /\ entity'[b].status = "revoked" /\ entity'[b].revokedAt = now
                     /\ entity'[b].grace = keys[k].grace
                  \/ /\ entity'[b].status = "grace"
                     /\ entity'[b].revokedAt = keys[k].revokedAt
                     /\ keys[k].status = "active" /\ entity'[b].grace = now + GracePeriod
    <2>1. keys[k] \in KeyRow
      BY <1>0
    <2>2. CASE BeginRotate(a, k)
      BY <1>0, <1>1, <2>1, <2>2 DEF BeginRotate, LoadKey, AdminGoto, KeyRow, Issued
    <2>3. CASE BeginRevoke(a, k)
      BY <1>0, <1>1, <2>1, <2>3 DEF BeginRevoke, LoadKey, AdminGoto, KeyRow, Issued
    <2> QED BY <1>1, <2>2, <2>3
  <1>2. ASSUME NEW k \in Keys, NEW r, LoadKey(a, k, r), b # a
        PROVE  /\ apc'[b] = apc[b] /\ akey'[b] = akey[b] /\ abegan'[b] = abegan[b]
               /\ entity'[b] = entity[b] /\ loaded'[b] = loaded[b]
    BY <1>0, <1>2 DEF LoadKey, AdminGoto
  <1>3. CASE Merge(a)
    BY <1>0, <1>3 DEF Merge, AdminGoto
  <1>4. CASE ListRevoked(a)
    BY <1>0, <1>4 DEF ListRevoked, AdminGoto
  <1>5. CASE EndAdmin(a)
    BY <1>0, <1>5 DEF EndAdmin, AdminGoto
  <1>6. CASE UNCHANGED adminVars
    BY <1>0, <1>6 DEF adminVars
  <1> QED BY <1>0, <1>1, <1>2, <1>3, <1>4, <1>5, <1>6
        DEF AdminStep, IssueKey, BeginRotate, BeginRevoke, CommitRotate,
            ListingFails, CommitRevoke, CommitFails

\* What a request's step may do to what one of them has read.
LEMMA SigningEvolves ==
  ASSUME EndInv, NEW c \in Clients, ClientStep(c), NEW d \in Clients, Signing(d)'
  PROVE  \/ /\ cpc'[d] = "row" /\ cbegan'[d] = now
            /\ credential'[d] \in Keys /\ keys[credential'[d]].status # "absent"
            /\ row'[d] = keys[credential'[d]]
         \/ /\ Signing(d) /\ cbegan'[d] = cbegan[d] /\ credential'[d] = credential[d]
            /\ credential[d] \in Keys /\ row'[d] = row[d]
            /\ \/ cpc'[d] = cpc[d]
               \/ cpc[d] = "row" /\ UsableAt(row[d], now)
               \/ cpc[d] = "hit" /\ cpc'[d] = "sign"
  <1>0. /\ cpc \in [Clients -> {"idle", "row", "verified", "hit", "sign"}]
        /\ credential \in [Clients -> Keys \cup {None}]
        /\ exchange \in [Clients -> BOOLEAN]
        /\ cbegan \in [Clients -> Nat]
        /\ row \in [Clients -> KeyRow]
        /\ \A e \in Clients : cpc[e] # "idle" => credential[e] \in Keys
        /\ \A e \in Clients : cpc[e] \in {"idle", "verified"} => ~exchange[e]
    BY DEF EndInv, ListInv, TypeOK, SignersReadUsableRow
  <1> USE DEF Signing
  <1>1. CASE EndRequest(c)
    BY <1>0, <1>1 DEF EndRequest, Goto
  <1>2. ASSUME NEW k \in Keys, NEW forToken \in BOOLEAN, PresentKey(c, k, forToken)
        PROVE  \/ /\ d = c /\ cpc'[d] = "row" /\ cbegan'[d] = now /\ credential'[d] = k
                  /\ keys[k].status # "absent" /\ row'[d] = keys[k]
               \/ /\ cpc'[d] = cpc[d] /\ cbegan'[d] = cbegan[d] /\ row'[d] = row[d]
                  /\ credential'[d] = credential[d] /\ exchange'[d] = exchange[d]
    BY <1>0, <1>2 DEF PresentKey, Begin, Goto, Issued
  <1>3. ASSUME NEW token \in tokens, PresentToken(c, token)
        PROVE  /\ d # c
               /\ cpc'[d] = cpc[d] /\ cbegan'[d] = cbegan[d] /\ row'[d] = row[d]
               /\ credential'[d] = credential[d] /\ exchange'[d] = exchange[d]
    BY <1>0, <1>3 DEF PresentToken, Begin, Goto
  <1>4. CASE AcceptKey(c)
    BY <1>0, <1>4 DEF AcceptKey, Goto
  <1>5. CASE AcceptToken(c) \/ AcceptUnchecked(c)
    BY <1>0, <1>5 DEF AcceptToken, AcceptUnchecked, Goto
  <1>6. CASE Hit(c) /\ ~EndRequest(c)
    BY <1>0, <1>6 DEF Hit, LetIn, Goto
  <1> QED BY <1>0, <1>1, <1>2, <1>3, <1>4, <1>5, <1>6
        DEF ClientStep, RejectKey, RejectToken, Hit, SignToken

LEMMA TokensEvolve ==
  ASSUME NEW c \in Clients, ClientStep(c)
  PROVE  /\ keys' = keys /\ UNCHANGED adminVars
         /\ \A token \in tokens' \ tokens :
              /\ cpc[c] = "sign"
              /\ token.key = credential[c] /\ token.exp = now + TokenTtl
  BY DEF ClientStep, PresentKey, PresentToken, AcceptKey, RejectKey, AcceptToken,
         RejectToken, AcceptUnchecked, Hit, SignToken, keyVars

\* While a key is active, only rotations in progress hold an end for it.
LEMMA ActiveGraces ==
  ASSUME EndInv, NEW k \in Keys, keys[k].status = "active", NEW g \in Graces(k)
  PROVE  now <= g + RequestTime /\ g <= now + GracePeriod
           /\ now + GracePeriod <= g + RequestTime
  <1> USE KeyAssumption
  <1>1. keys[k].grace # g
    BY DEF Graces, EndInv, ActiveIsFresh
  <1>2. \A c \in Clients : Signing(c) /\ credential[c] = k => row[c].grace # g
    BY DEF Graces, EndInv, SigningReads
  <1>3. PICK a \in Admins : apc[a] # "idle" /\ akey[a] = k /\ entity[a].grace = g
    BY <1>1, <1>2 DEF Graces
  <1>4. g \in Nat
    BY DEF Graces
  <1>5. g = abegan[a] + GracePeriod
    BY <1>3, <1>4 DEF EndInv, PendingReads, Reads
  <1>6. abegan[a] <= now /\ now <= abegan[a] + RequestTime
    BY <1>3 DEF EndInv, ListInv, RequestsAreRecent
  <1>7. now \in Nat /\ abegan[a] \in Nat
    BY RowFields DEF EndInv, ListInv
  <1> QED BY <1>5, <1>6, <1>7

\* An end that nobody held is the one of a rotation that begins.
LEMMA GracesEvolve ==
  ASSUME EndInv, NEW a \in Admins, AdminStep(a), UNCHANGED clientVars,
         NEW k \in Keys, NEW g \in Graces(k)'
  PROVE  \/ g \in Graces(k)
         \/ keys[k].status = "active" /\ keys' = keys /\ g = now + GracePeriod
  <1> USE KeyAssumption
  <1>1. g \in Nat
    BY DEF Graces
  <1>2. CASE keys'[k].grace = g
    BY <1>1, <1>2, RowsEvolve DEF Graces
  <1>3. ASSUME NEW b \in Admins, apc'[b] # "idle", akey'[b] = k, entity'[b].grace = g
        PROVE  \/ g \in Graces(k)
               \/ keys[k].status = "active" /\ keys' = keys /\ g = now + GracePeriod
    BY <1>1, <1>3, PendingEvolves DEF Graces
  <1>4. ASSUME NEW c \in Clients, Signing(c)', credential'[c] = k, row'[c].grace = g
        PROVE  g \in Graces(k)
    BY <1>1, <1>4 DEF Graces, Signing, clientVars
  <1> QED BY <1>2, <1>3, <1>4 DEF Graces

LEMMA AdminStepKeepsPending ==
  ASSUME EndInv, NEW a \in Admins, AdminStep(a), UNCHANGED <<now, tokens, clientVars>>
  PROVE  PendingReads' /\ ActiveIsFresh'
  <1> USE KeyAssumption
  <1>1. ActiveIsFresh'
    BY RowsEvolve DEF EndInv, ActiveIsFresh
  <1>2. keys \in [Keys -> KeyRow] /\ keys' \in [Keys -> KeyRow] /\ now \in Nat
    BY StepType DEF EndInv, ListInv, TypeOK, KeysTypeOK, Next
  <1>3. \A k \in Keys : /\ keys[k].revokedAt \in Nat \cup {None}
                        /\ keys'[k].revokedAt \in Nat \cup {None}
    BY <1>2 DEF KeyRow, Time
  <1>4. ASSUME NEW b \in Admins, apc'[b] # "idle"
        PROVE  Reads(keys'[akey'[b]], entity'[b], abegan'[b], apc'[b] # "merge",
                     loaded'[b])
    <2>1. ASSUME apc'[b] = "merge", NEW k \in Keys, akey'[b] = k, abegan'[b] = now,
                 keys' = keys,
                 keys[k].status # "absent", entity'[b].expires = keys[k].expires,
                 \/ /\ entity'[b].status = "revoked" /\ entity'[b].revokedAt = now
                    /\ entity'[b].grace = keys[k].grace
                 \/ /\ entity'[b].status = "grace"
                    /\ entity'[b].revokedAt = keys[k].revokedAt
                    /\ keys[k].status = "active" /\ entity'[b].grace = now + GracePeriod
          PROVE  Reads(keys'[k], entity'[b], now, FALSE, loaded'[b])
      BY <2>1 DEF EndInv, ActiveIsFresh, Reads
    <2>2. ASSUME apc[b] # "idle", NEW k \in Keys, akey[b] = k,
                 \/ apc'[b] = "merge"
                 \/ apc[b] # "merge" /\ loaded'[b] = loaded[b]
                 \/ keys' = keys /\ loaded'[b] = keys[k]
          PROVE  Reads(keys'[k], entity[b], abegan[b], apc'[b] # "merge", loaded'[b])
      <3>1. Reads(keys[k], entity[b], abegan[b], apc[b] # "merge", loaded[b])
        BY <2>2 DEF EndInv, PendingReads
      <3>2. abegan[b] \in Nat /\ abegan[b] <= now
        BY <2>2, RowFields DEF EndInv, ListInv, RequestsAreRecent
      <3>3. CASE keys'[k] = keys[k]
        BY <1>3, <2>2, <3>1, <3>2, <3>3 DEF Reads
      <3>4. CASE /\ keys'[k].status \in {"grace", "revoked"}
                 /\ keys'[k].expires = keys[k].expires
                 /\ \/ keys'[k].revokedAt \in {keys[k].revokedAt, None}
                    \/ now <= keys'[k].revokedAt + RequestTime
        <4>1. keys'[k].revokedAt # None =>
                abegan[b] <= keys'[k].revokedAt + RequestTime
                  \/ keys'[k].revokedAt = keys[k].revokedAt
          BY <1>2, <1>3, <3>2, <3>4
        <4> QED BY <1>2, <1>3, <2>2, <3>1, <3>2, <3>4, <4>1 DEF Reads
      <3> QED BY <3>1, <3>3, <3>4, RowsEvolve DEF Reads
    <2> QED BY <1>4, <2>1, <2>2, PendingEvolves
  <1> QED BY <1>1, <1>4 DEF PendingReads

LEMMA AdminStepKeepsEnds ==
  ASSUME EndInv, NEW a \in Admins, AdminStep(a), UNCHANGED <<now, tokens, clientVars>>
  PROVE  SigningReads' /\ GracesAgree' /\ ActiveWasReadBefore' /\ TokensEnd'
  <1> USE KeyAssumption
  <1>0. /\ now \in Nat /\ tokens \subseteq Token
        /\ \A k \in Keys : keys[k] \in KeyRow
        /\ \A r \in KeyRow : r.revokedAt \in Nat \cup {None}
        /\ \A token \in tokens :
             token.key \in Keys /\ token.exp \in Nat /\ token.exp <= now + TokenTtl
        /\ \A c \in Clients : Signing(c) =>
             credential[c] \in Keys /\ cbegan[c] \in Nat /\ cbegan[c] <= now
    BY RowFields DEF EndInv, ListInv, TypeOK, TokensAreRecent, RequestsAreRecent,
                     Signing, Token
  <1>t. keys' \in [Keys -> KeyRow]
    BY StepType DEF EndInv, ListInv, TypeOK, KeysTypeOK, Next
  <1>r. \A k \in Keys : keys'[k].revokedAt \in Nat \cup {None}
    BY <1>0, <1>t
  <1>1. SigningReads'
    <2> SUFFICES ASSUME NEW c \in Clients, Signing(c)
                 PROVE  LET k == keys'[credential[c]] IN
                        /\ k.status # "absent"
                        /\ row[c].expires = k.expires
                        /\ k.status = "active" =>
                             row[c].status = "active" /\ row[c].grace = None
                        /\ cpc[c] \in {"hit", "sign"} => UsableAt(row[c], cbegan[c])
                        /\ k.status = "revoked" /\ row[c].status \in {"active", "grace"}
                             /\ k.revokedAt # None =>
                               cbegan[c] <= k.revokedAt + 2 * RequestTime
      BY DEF SigningReads, Signing, UsableAt, clientVars
    <2> DEFINE k == credential[c]
    <2>1. k \in Keys /\ cbegan[c] \in Nat /\ cbegan[c] <= now
      BY <1>0
    <2>2. /\ keys[k].status # "absent"
          /\ row[c].expires = keys[k].expires
          /\ keys[k].status = "active" => row[c].status = "active" /\ row[c].grace = None
          /\ cpc[c] \in {"hit", "sign"} => UsableAt(row[c], cbegan[c])
          /\ keys[k].status = "revoked" /\ row[c].status \in {"active", "grace"}
               /\ keys[k].revokedAt # None =>
                 cbegan[c] <= keys[k].revokedAt + 2 * RequestTime
      BY DEF EndInv, SigningReads
    <2> HIDE DEF k
    <2>3. \/ keys'[k] = keys[k]
          \/ /\ keys'[k].status \in {"grace", "revoked"}
             /\ keys'[k].expires = keys[k].expires
             /\ \/ keys'[k].status # "revoked" \/ keys'[k].revokedAt = None
                \/ now <= keys'[k].revokedAt + 2 * RequestTime
                \/ keys[k].status = "revoked" /\ keys'[k].revokedAt = keys[k].revokedAt
      BY <2>1, <2>2, RowsEvolve
    <2>4. now <= keys'[k].revokedAt + 2 * RequestTime /\ keys'[k].revokedAt # None
            => cbegan[c] <= keys'[k].revokedAt + 2 * RequestTime
      BY <1>0, <1>r, <2>1
    <2> QED BY <2>2, <2>3, <2>4 DEF k
  <1>2. GracesAgree'
    <2> SUFFICES ASSUME NEW k \in Keys, NEW g \in Graces(k)', NEW h \in Graces(k)'
                 PROVE  g <= h + RequestTime
      BY DEF GracesAgree
    <2>1. g \in Nat /\ h \in Nat
      BY DEF Graces
    <2>2. g \in Graces(k) /\ h \in Graces(k) => g <= h + RequestTime
      BY DEF EndInv, GracesAgree
    <2>3. keys[k].status = "active" /\ g \in Graces(k) =>
            g <= now + GracePeriod
      BY ActiveGraces
    <2>4. keys[k].status = "active" /\ h \in Graces(k) =>
            now + GracePeriod <= h + RequestTime
      BY ActiveGraces
    <2>5. \/ g \in Graces(k)
          \/ keys[k].status = "active" /\ g = now + GracePeriod
      BY GracesEvolve
    <2>6. \/ h \in Graces(k)
          \/ keys[k].status = "active" /\ h = now + GracePeriod
      BY GracesEvolve
    <2> QED BY <1>0, <2>1, <2>2, <2>3, <2>4, <2>5, <2>6
  <1>3. ActiveWasReadBefore'
    <2> SUFFICES ASSUME NEW c \in Clients, Signing(c), row[c].status = "active",
                        NEW k, k = credential[c], NEW g \in Graces(k)'
                 PROVE  cbegan[c] <= g + RequestTime
      BY DEF ActiveWasReadBefore, Signing, Graces, clientVars
    <2>1. k \in Keys /\ cbegan[c] \in Nat /\ cbegan[c] <= now
      BY <1>0
    <2>2. g \in Graces(k) \/ g = now + GracePeriod
      BY <2>1, GracesEvolve
    <2>3. g \in Graces(k) => cbegan[c] <= g + RequestTime
      BY DEF EndInv, ActiveWasReadBefore
    <2> QED BY <1>0, <2>1, <2>2, <2>3
  <1>4. TokensEnd'
    <2> SUFFICES ASSUME NEW token \in tokens
                 PROVE  LET k == keys'[token.key] IN
                        /\ k.status # "absent"
                        /\ k.expires # None =>
                             token.exp <= k.expires + RequestTime + TokenTtl
                        /\ \A g \in Graces(token.key)' :
                             token.exp <= g + 2 * RequestTime + TokenTtl
                        /\ k.status = "revoked" /\ k.revokedAt # None =>
                             token.exp <= k.revokedAt + 3 * RequestTime + TokenTtl
      BY DEF TokensEnd, Graces
    <2> DEFINE k == token.key
    <2>1. k \in Keys /\ token.exp \in Nat /\ token.exp <= now + TokenTtl
      BY <1>0
    <2>2. /\ keys[k].status # "absent"
          /\ keys[k].expires # None =>
               token.exp <= keys[k].expires + RequestTime + TokenTtl
          /\ \A g \in Graces(k) : token.exp <= g + 2 * RequestTime + TokenTtl
          /\ keys[k].status = "revoked" /\ keys[k].revokedAt # None =>
               token.exp <= keys[k].revokedAt + 3 * RequestTime + TokenTtl
      BY DEF EndInv, TokensEnd
    <2> HIDE DEF k
    <2>3. \/ keys'[k] = keys[k]
          \/ /\ keys'[k].status \in {"grace", "revoked"}
             /\ keys'[k].expires = keys[k].expires
             /\ \/ keys'[k].status # "revoked" \/ keys'[k].revokedAt = None
                \/ now <= keys'[k].revokedAt + 2 * RequestTime
                \/ keys[k].status = "revoked" /\ keys'[k].revokedAt = keys[k].revokedAt
      BY <2>1, <2>2, RowsEvolve
    <2>4. now <= keys'[k].revokedAt + 2 * RequestTime /\ keys'[k].revokedAt # None
            => token.exp <= keys'[k].revokedAt + 3 * RequestTime + TokenTtl
      BY <1>0, <1>r, <2>1
    <2>5. ASSUME NEW g \in Graces(k)'
          PROVE  token.exp <= g + 2 * RequestTime + TokenTtl
      <3>1. g \in Graces(k) \/ g = now + GracePeriod
        BY <2>1, GracesEvolve
      <3> QED BY <1>0, <2>1, <2>2, <3>1
    <2> QED BY <2>2, <2>3, <2>4, <2>5 DEF k
  <1> QED BY <1>1, <1>2, <1>3, <1>4

LEMMA ClientStepKeepsEnds ==
  ASSUME EndInv, NEW c \in Clients, ClientStep(c), UNCHANGED now
  PROVE  /\ PendingReads' /\ ActiveIsFresh'
         /\ SigningReads' /\ GracesAgree' /\ ActiveWasReadBefore' /\ TokensEnd'
  <1> USE KeyAssumption
  <1>0. /\ now \in Nat /\ tokens \subseteq Token
        /\ \A k \in Keys : keys[k] \in KeyRow
        /\ \A r \in KeyRow : /\ r.revokedAt \in Nat \cup {None}
                             /\ r.expires \in Nat \cup {None}
                             /\ r.grace \in Nat \cup {None}
        /\ \A d \in Clients : row[d] \in KeyRow
        /\ \A d \in Clients : Signing(d) =>
             /\ credential[d] \in Keys /\ cbegan[d] \in Nat /\ cbegan[d] <= now
             /\ now <= cbegan[d] + RequestTime
    BY RowFields DEF EndInv, ListInv, TypeOK, RequestsAreRecent, Signing
  <1>1. keys' = keys /\ UNCHANGED adminVars
    BY TokensEvolve
  <1>2. PendingReads' /\ ActiveIsFresh'
    BY <1>1 DEF EndInv, PendingReads, ActiveIsFresh, adminVars
  <1>g. ASSUME NEW k \in Keys, NEW g \in Graces(k)'
        PROVE  g \in Graces(k)
    <2>1. g \in Nat
      BY <1>g DEF Graces
    <2>2. ASSUME NEW d \in Clients, Signing(d)', credential'[d] = k, row'[d].grace = g
          PROVE  g \in Graces(k)
      BY <2>1, <2>2, SigningEvolves DEF Graces
    <2> QED BY <1>1, <1>g, <2>1, <2>2 DEF Graces, adminVars
  <1>3. SigningReads'
    <2> SUFFICES ASSUME NEW d \in Clients, Signing(d)'
                 PROVE  LET k == keys[credential'[d]] IN
                        /\ k.status # "absent"
                        /\ row'[d].expires = k.expires
                        /\ k.status = "active" =>
                             row'[d].status = "active" /\ row'[d].grace = None
                        /\ cpc'[d] \in {"hit", "sign"} => UsableAt(row'[d], cbegan'[d])
                        /\ k.status = "revoked" /\ row'[d].status \in {"active", "grace"}
                             /\ k.revokedAt # None =>
                               cbegan'[d] <= k.revokedAt + 2 * RequestTime
      BY <1>1 DEF SigningReads, UsableAt
    <2>1. CASE /\ cpc'[d] = "row" /\ cbegan'[d] = now
               /\ credential'[d] \in Keys /\ keys[credential'[d]].status # "absent"
               /\ row'[d] = keys[credential'[d]]
      BY <2>1 DEF EndInv, ActiveIsFresh
    <2>2. CASE /\ Signing(d) /\ cbegan'[d] = cbegan[d] /\ credential'[d] = credential[d]
               /\ credential[d] \in Keys /\ row'[d] = row[d]
               /\ \/ cpc'[d] = cpc[d]
                  \/ cpc[d] = "row" /\ UsableAt(row[d], now)
                  \/ cpc[d] = "hit" /\ cpc'[d] = "sign"
      <3>1. UsableAt(row[d], now) => UsableAt(row[d], cbegan[d])
        BY <1>0, <2>2 DEF UsableAt
      <3> QED BY <2>2, <3>1 DEF EndInv, SigningReads
    <2> QED BY <2>1, <2>2, SigningEvolves
  <1>4. GracesAgree'
    BY <1>g DEF EndInv, GracesAgree
  <1>5. ActiveWasReadBefore'
    <2> SUFFICES ASSUME NEW d \in Clients, Signing(d)', row'[d].status = "active",
                        NEW k, k = credential'[d], NEW g \in Graces(k)'
                 PROVE  cbegan'[d] <= g + RequestTime
      BY DEF ActiveWasReadBefore, Graces
    <2>1. ASSUME cbegan'[d] = now, k \in Keys, row'[d] = keys[k]
          PROVE  cbegan'[d] <= g + RequestTime
      BY <1>g, <2>1, ActiveGraces
    <2>2. ASSUME Signing(d), cbegan'[d] = cbegan[d], credential'[d] = credential[d],
                 credential[d] \in Keys, row'[d] = row[d]
          PROVE  cbegan'[d] <= g + RequestTime
      BY <1>g, <2>2 DEF EndInv, ActiveWasReadBefore
    <2> QED BY <2>1, <2>2, SigningEvolves
  <1>6. TokensEnd'
    <2> SUFFICES ASSUME NEW token \in tokens'
                 PROVE  LET k == keys[token.key] IN
                        /\ k.status # "absent"
                        /\ k.expires # None =>
                             token.exp <= k.expires + RequestTime + TokenTtl
                        /\ \A g \in Graces(token.key)' :
                             token.exp <= g + 2 * RequestTime + TokenTtl
                        /\ k.status = "revoked" /\ k.revokedAt # None =>
                             token.exp <= k.revokedAt + 3 * RequestTime + TokenTtl
      BY <1>1 DEF TokensEnd
    <2>1. CASE token \in tokens
      BY <1>0, <1>g, <2>1 DEF EndInv, TokensEnd, Token
    <2>2. CASE token \notin tokens
      <3> DEFINE k == keys[credential[c]]
                 r == row[c]
                 t == cbegan[c]
      <3>1. cpc[c] = "sign" /\ token.key = credential[c] /\ token.exp = now + TokenTtl
        BY <2>2, TokensEvolve
      <3>2. Signing(c)
        BY <3>1 DEF Signing, EndInv, ListInv, SignersReadUsableRow
      <3>3. /\ k.status # "absent"
            /\ r.expires = k.expires
            /\ UsableAt(r, t)
            /\ k.status = "revoked" /\ r.status \in {"active", "grace"}
                 /\ k.revokedAt # None => t <= k.revokedAt + 2 * RequestTime
        BY <3>1, <3>2 DEF EndInv, SigningReads
      <3>4. /\ credential[c] \in Keys /\ t \in Nat /\ now <= t + RequestTime
            /\ k.revokedAt \in Nat \cup {None} /\ k.expires \in Nat \cup {None}
            /\ r.grace \in Nat \cup {None}
        BY <1>0, <3>2
      <3>5. ASSUME NEW g \in Graces(credential[c])
            PROVE  t <= g + RequestTime
        <4>1. CASE r.status = "active"
          BY <3>2, <4>1 DEF EndInv, ActiveWasReadBefore
        <4>2. CASE r.status = "grace"
          <5>1. r.grace \in Graces(credential[c]) /\ t < r.grace /\ r.grace \in Nat
            BY <3>2, <3>3, <3>4, <4>2 DEF UsableAt, Graces
          <5>2. r.grace <= g + RequestTime
            BY <3>4, <5>1 DEF EndInv, GracesAgree
          <5>3. g \in Nat
            BY DEF Graces
          <5> HIDE DEF r, t
          <5> QED BY <3>4, <5>1, <5>2, <5>3
        <4> QED BY <3>3, <4>1, <4>2 DEF UsableAt
      <3>6. \A g \in Graces(token.key)' : token.exp <= g + 2 * RequestTime + TokenTtl
        <4> SUFFICES ASSUME NEW g \in Graces(token.key)'
                     PROVE  token.exp <= g + 2 * RequestTime + TokenTtl
          OBVIOUS
        <4>1. t <= g + RequestTime /\ g \in Nat
          BY <1>g, <3>1, <3>4, <3>5 DEF Graces
        <4> HIDE DEF t
        <4> QED BY <1>0, <3>1, <3>4, <4>1
      <3>7. r.status \in {"active", "grace"} /\ (r.expires # None => t < r.expires)
        BY <3>3 DEF UsableAt
      <3>8. k.expires # None => token.exp <= k.expires + RequestTime + TokenTtl
        <4> HIDE DEF k, r, t
        <4> QED BY <1>0, <3>1, <3>3, <3>4, <3>7
      <3>9. k.status = "revoked" /\ k.revokedAt # None =>
              token.exp <= k.revokedAt + 3 * RequestTime + TokenTtl
        <4> HIDE DEF k, r, t
        <4> QED BY <1>0, <3>1, <3>3, <3>4, <3>7
      <3> QED BY <3>1, <3>3, <3>6, <3>8, <3>9
    <2> QED BY <2>1, <2>2
  <1> QED BY <1>2, <1>3, <1>4, <1>5, <1>6

LEMMA EndInit == Init => EndInv
  <1> SUFFICES ASSUME Init PROVE EndInv
    OBVIOUS
  <1>1. \A k \in Keys : keys[k].grace = None /\ keys[k].revokedAt = None
    BY DEF Init, KeysInit, NoKey
  <1>2. /\ \A a \in Admins : apc[a] = "idle"
        /\ \A c \in Clients : cpc[c] = "idle"
        /\ tokens = {}
    BY DEF Init, KeysInit
  <1>3. \A k \in Keys : Graces(k) = {}
    BY <1>1, <1>2, KeyAssumption DEF Graces, Signing
  <1> QED BY <1>1, <1>2, <1>3, ListInitInv
        DEF EndInv, PendingReads, ActiveIsFresh, SigningReads, GracesAgree,
            ActiveWasReadBefore, TokensEnd, Signing

LEMMA EndStep == EndInv /\ [Next]_vars => EndInv'
  <1> SUFFICES ASSUME EndInv, [Next]_vars PROVE EndInv'
    OBVIOUS
  <1>1. ListInv'
    BY ListStepInv DEF EndInv
  <1>2. CASE Tick \/ UNCHANGED vars
    <2>1. UNCHANGED <<keys, adminVars, clientVars>> /\ tokens' \subseteq tokens
      BY <1>2 DEF Tick, vars, keyVars
    <2>2. \A k \in Keys : Graces(k)' = Graces(k)
      BY <2>1 DEF Graces, Signing, adminVars, clientVars
    <2>3. tokens \subseteq Token
      BY DEF EndInv, ListInv, TypeOK
    <2>4. /\ PendingReads' /\ ActiveIsFresh' /\ SigningReads'
      BY <2>1 DEF EndInv, PendingReads, ActiveIsFresh, SigningReads, Signing,
                  UsableAt, adminVars, clientVars
    <2>5. GracesAgree' /\ TokensEnd'
      BY <2>1, <2>2, <2>3 DEF EndInv, GracesAgree, TokensEnd, Token
    <2>6. ActiveWasReadBefore'
      <3>1. \A c \in Clients : Signing(c) => credential[c] \in Keys
        BY DEF EndInv, ListInv, TypeOK, Signing
      <3> QED BY <2>1, <2>2, <3>1 DEF EndInv, ActiveWasReadBefore, Signing, clientVars
    <2> QED BY <1>1, <2>4, <2>5, <2>6 DEF EndInv
  <1> QED BY <1>1, <1>2, AdminStepKeepsPending, AdminStepKeepsEnds, ClientStepKeepsEnds
        DEF Next, EndInv

\* However many administrators rotate and revoke keys, whatever calls fail: a token
\* outlives its key, expired, rotated out or revoked, by no more than its own
\* lifetime and the time that one, two or three requests take.
THEOREM TokensEndWithTheirKey == Spec => []TokensFollowTheirKey
  <1>1. EndInv => TokensFollowTheirKey
    <2> SUFFICES ASSUME EndInv, NEW token \in tokens
                 PROVE  LET k == keys[token.key]
                            Covers(end, delays) ==
                              end # None =>
                                token.exp <= end + delays * RequestTime + TokenTtl
                        IN /\ Covers(k.expires, 1)
                           /\ k.status = "grace" => Covers(k.grace, 2)
                           /\ k.status = "revoked" => Covers(k.revokedAt, 3)
      BY DEF TokensFollowTheirKey
    <2> DEFINE k == keys[token.key]
    <2>1. /\ k.expires # None => token.exp <= k.expires + RequestTime + TokenTtl
          /\ \A g \in Graces(token.key) : token.exp <= g + 2 * RequestTime + TokenTtl
          /\ k.status = "revoked" /\ k.revokedAt # None =>
               token.exp <= k.revokedAt + 3 * RequestTime + TokenTtl
      BY DEF EndInv, TokensEnd
    <2>2. k.grace # None => k.grace \in Graces(token.key)
      <3>1. k.grace \in Nat \cup {None}
        BY RowFields DEF EndInv, ListInv, Token
      <3> QED BY <3>1 DEF Graces
    <2>3. 1 * RequestTime = RequestTime
      BY KeyAssumption
    <2> QED BY <2>1, <2>2, <2>3
  <1> QED BY <1>1, EndInit, EndStep, PTL DEF Spec

-----------------------------------------------------------------------------
(* The rate limiter: the budget of a window holds for every limit, window  *)
(* and delay of up to a window, for the counter of a window outlives the   *)
(* last hit that counts in it.                                             *)

\* Hits in progress are no older than the delay allows.
HitsAreRecent ==
  \A p \in pending : p.stamp <= clock /\ clock <= p.stamp + MaxDelay

\* What a window has granted is still counted, until no hit can count in it.
GrantsAreCounted ==
  \A b \in Buckets, w \in Windows :
    \/ clock >= w + 2 * Window
    \/ /\ granted[<<b, w>>] <= counters[<<b, w>>].count
       /\ counters[<<b, w>>].count > 0 => counters[<<b, w>>].until >= w + 2 * Window

LimiterInv ==
  /\ LimiterTypeOK
  /\ HitsAreRecent
  /\ GrantsAreCounted
  /\ WindowBudget

\* A timestamp is in the window that starts at its window start.
LEMMA WindowOfStamp ==
  ASSUME NEW t \in 0 .. MaxClock
  PROVE  /\ WindowStart(t) \in Windows
         /\ WindowStart(t) <= t
         /\ t < WindowStart(t) + Window
  <1>1. t % Window \in 0 .. Window - 1
    BY LimiterAssumption
  <1>2. t % Window <= t
    BY LimiterAssumption, t \in Nat
  <1> QED BY <1>1, <1>2, LimiterAssumption DEF WindowStart, Windows

LEMMA LimiterInitInv == LimiterInit => LimiterInv
  <1> SUFFICES ASSUME LimiterInit PROVE LimiterInv
    OBVIOUS
  <1> USE LimiterAssumption DEF LimiterInit
  <1>1. LimiterTypeOK
    BY DEF LimiterTypeOK, Counter, NoCounter
  <1>2. HitsAreRecent
    BY DEF HitsAreRecent
  <1>3. GrantsAreCounted /\ WindowBudget
    BY DEF GrantsAreCounted, WindowBudget, NoCounter, Windows
  <1> QED BY <1>1, <1>2, <1>3 DEF LimiterInv

\* A hit counts in a window that no grant has been forgotten of.
LEMMA HitFindsItsCounter ==
  ASSUME LimiterInv, NEW p \in pending
  PROVE  LET w == WindowStart(p.stamp) IN
         /\ p \in Pending
         /\ w \in Windows /\ w \in Nat
         /\ clock < w + 2 * Window
         /\ w <= clock
  <1>1. p \in Pending /\ p.stamp \in 0 .. MaxClock
    BY DEF LimiterInv, LimiterTypeOK, Pending
  <1>2. p.stamp <= clock /\ clock <= p.stamp + MaxDelay /\ clock \in Nat
    BY DEF LimiterInv, HitsAreRecent, LimiterTypeOK
  <1> DEFINE w == WindowStart(p.stamp)
  <1>3. w \in Windows /\ w <= p.stamp /\ p.stamp < w + Window
    BY <1>1, WindowOfStamp
  <1>4. w \in Nat
    BY <1>3 DEF Windows
  <1> HIDE DEF w
  <1>5. clock < w + 2 * Window /\ w <= clock
    BY <1>1, <1>2, <1>3, <1>4, LimiterAssumption
  <1> QED BY <1>1, <1>3, <1>4, <1>5 DEF w

\* An increment keeps what GrantsAreCounted says of a window's counter.
LEMMA IncrementCounts ==
  ASSUME LimiterInv, NEW b \in Buckets, NEW w \in Windows,
         clock < w + 2 * Window, w <= clock,
         Increment(b, w)
  PROVE  /\ counters' \in [Buckets \X Windows -> Counter]
         /\ \A c \in Buckets, v \in Windows :
              <<c, v>> # <<b, w>> => counters'[<<c, v>>] = counters[<<c, v>>]
         /\ counters'[<<b, w>>].count = NextCount(b, w)
         /\ counters'[<<b, w>>].until >= w + 2 * Window
         /\ counters[<<b, w>>].count \in Nat
  <1> USE DEF LimiterInv, LimiterTypeOK, Windows
  <1>1. <<b, w>> \in Buckets \X Windows /\ clock \in Nat /\ w \in Nat
    OBVIOUS
  <1>2. counters[<<b, w>>] \in Counter
    BY <1>1
  <1>3. NextCount(b, w) \in 0 .. Limit + 1
    BY <1>2, LimiterAssumption DEF NextCount, Counter
  <1>4. CounterExpiry(w) \in Nat /\ CounterExpiry(w) >= w + 2 * Window
    BY <1>1, LimiterAssumption DEF CounterExpiry
  <1>5. [count |-> NextCount(b, w), until |-> CounterExpiry(w)] \in Counter
    BY <1>3, <1>4 DEF Counter
  <1>6. counters' = [counters EXCEPT ![<<b, w>>] =
                       [count |-> NextCount(b, w), until |-> CounterExpiry(w)]]
    BY DEF Increment
  <1>7. /\ counters' \in [Buckets \X Windows -> Counter]
        /\ counters'[<<b, w>>] = [count |-> NextCount(b, w), until |-> CounterExpiry(w)]
    BY <1>1, <1>5, <1>6
  <1>8. \A c \in Buckets, v \in Windows :
          <<c, v>> # <<b, w>> => counters'[<<c, v>>] = counters[<<c, v>>]
    BY <1>1, <1>6
  <1> QED BY <1>2, <1>4, <1>7, <1>8 DEF Counter

LEMMA GrantKeepsInv ==
  ASSUME LimiterInv, NEW p \in pending, Grant(p)
  PROVE  LimiterInv'
  <1> DEFINE b == p.bucket
             w == WindowStart(p.stamp)
  <1>1. b \in Buckets /\ w \in Windows /\ w \in Nat
        /\ clock < w + 2 * Window /\ w <= clock
    BY HitFindsItsCounter DEF Pending
  <1>2. /\ NextCount(b, w) <= Limit
        /\ Increment(b, w)
        /\ granted' = [granted EXCEPT ![<<b, w>>] = @ + 1]
        /\ pending' = pending \ {p}
        /\ clock' = clock
    BY DEF Grant
  <1> HIDE DEF b, w
  <1>3. /\ counters' \in [Buckets \X Windows -> Counter]
        /\ \A c \in Buckets, v \in Windows :
             <<c, v>> # <<b, w>> => counters'[<<c, v>>] = counters[<<c, v>>]
        /\ counters'[<<b, w>>].count = NextCount(b, w)
        /\ counters'[<<b, w>>].until >= w + 2 * Window
        /\ counters[<<b, w>>].count \in Nat
    BY <1>1, <1>2, IncrementCounts
  <1>4. <<b, w>> \in Buckets \X Windows /\ granted \in [Buckets \X Windows -> Nat]
    BY <1>1 DEF LimiterInv, LimiterTypeOK
  <1>5. /\ granted' \in [Buckets \X Windows -> Nat]
        /\ granted'[<<b, w>>] = granted[<<b, w>>] + 1
        /\ \A c \in Buckets, v \in Windows :
             <<c, v>> # <<b, w>> => granted'[<<c, v>>] = granted[<<c, v>>]
    BY <1>2, <1>4
  <1>6. NextCount(b, w) = counters[<<b, w>>].count + 1
    BY <1>2, <1>3, LimiterAssumption DEF NextCount
  <1>7. granted[<<b, w>>] <= counters[<<b, w>>].count
    <2>1. ~(clock >= w + 2 * Window)
      BY <1>1, LimiterAssumption DEF LimiterInv, LimiterTypeOK
    <2> QED BY <1>1, <2>1 DEF LimiterInv, GrantsAreCounted
  <1>8. granted'[<<b, w>>] <= counters'[<<b, w>>].count /\ granted'[<<b, w>>] <= Limit
    BY <1>2, <1>3, <1>4, <1>5, <1>6, <1>7, LimiterAssumption
  <1>9. LimiterTypeOK' /\ HitsAreRecent'
    BY <1>2, <1>3, <1>5 DEF LimiterInv, LimiterTypeOK, HitsAreRecent
  <1>10. GrantsAreCounted'
    <2> SUFFICES ASSUME NEW c \in Buckets, NEW v \in Windows
                 PROVE  \/ clock' >= v + 2 * Window
                        \/ /\ granted'[<<c, v>>] <= counters'[<<c, v>>].count
                           /\ counters'[<<c, v>>].count > 0
                                => counters'[<<c, v>>].until >= v + 2 * Window
      BY DEF GrantsAreCounted
    <2>1. CASE <<c, v>> = <<b, w>>
      BY <2>1, <1>3, <1>8
    <2>2. CASE <<c, v>> # <<b, w>>
      BY <2>2, <1>2, <1>3, <1>5 DEF LimiterInv, GrantsAreCounted
    <2> QED BY <2>1, <2>2
  <1>11. WindowBudget'
    <2> SUFFICES ASSUME NEW c \in Buckets, NEW v \in Windows
                 PROVE  granted'[<<c, v>>] <= Limit
      BY DEF WindowBudget
    <2>1. CASE <<c, v>> = <<b, w>>
      BY <2>1, <1>8
    <2>2. CASE <<c, v>> # <<b, w>>
      BY <2>2, <1>5 DEF LimiterInv, WindowBudget
    <2> QED BY <2>1, <2>2
  <1> QED BY <1>9, <1>10, <1>11 DEF LimiterInv

\* A hit that is not granted may count, and grants nothing.
LEMMA OtherHitKeepsInv ==
  ASSUME LimiterInv, NEW p \in pending, Refuse(p) \/ FailOpen(p)
  PROVE  LimiterInv'
  <1> DEFINE b == p.bucket
             w == WindowStart(p.stamp)
  <1>1. b \in Buckets /\ w \in Windows /\ w \in Nat
        /\ clock < w + 2 * Window /\ w <= clock
    BY HitFindsItsCounter DEF Pending
  <1>2. /\ Increment(b, w) \/ counters' = counters
        /\ granted' = granted
        /\ pending' = pending \ {p}
        /\ clock' = clock
    BY DEF Refuse, FailOpen
  <1> HIDE DEF b, w
  <1>3. CASE counters' = counters
    BY <1>2, <1>3 DEF LimiterInv, LimiterTypeOK, HitsAreRecent, GrantsAreCounted,
                      WindowBudget
  <1>4. CASE Increment(b, w)
    <2>1. /\ counters' \in [Buckets \X Windows -> Counter]
          /\ \A c \in Buckets, v \in Windows :
               <<c, v>> # <<b, w>> => counters'[<<c, v>>] = counters[<<c, v>>]
          /\ counters'[<<b, w>>].count = NextCount(b, w)
          /\ counters'[<<b, w>>].until >= w + 2 * Window
          /\ counters[<<b, w>>].count \in Nat
      BY <1>1, <1>4, IncrementCounts
    <2>2. LimiterTypeOK' /\ HitsAreRecent' /\ WindowBudget'
      BY <1>2, <2>1 DEF LimiterInv, LimiterTypeOK, HitsAreRecent, WindowBudget
    <2>3. granted[<<b, w>>] \in Nat /\ granted[<<b, w>>] <= Limit
      BY <1>1 DEF LimiterInv, LimiterTypeOK, WindowBudget
    <2>4. granted[<<b, w>>] <= NextCount(b, w)
      <3>1. ~(clock >= w + 2 * Window)
        BY <1>1, LimiterAssumption DEF LimiterInv, LimiterTypeOK
      <3>2. granted[<<b, w>>] <= counters[<<b, w>>].count
        BY <1>1, <3>1 DEF LimiterInv, GrantsAreCounted
      <3> QED BY <2>1, <2>3, <3>2, LimiterAssumption DEF NextCount
    <2>5. GrantsAreCounted'
      <3> SUFFICES ASSUME NEW c \in Buckets, NEW v \in Windows
                   PROVE  \/ clock' >= v + 2 * Window
                          \/ /\ granted'[<<c, v>>] <= counters'[<<c, v>>].count
                             /\ counters'[<<c, v>>].count > 0
                                  => counters'[<<c, v>>].until >= v + 2 * Window
        BY DEF GrantsAreCounted
      <3>1. CASE <<c, v>> = <<b, w>>
        BY <3>1, <1>2, <2>1, <2>4
      <3>2. CASE <<c, v>> # <<b, w>>
        BY <3>2, <1>2, <2>1 DEF LimiterInv, GrantsAreCounted
      <3> QED BY <3>1, <3>2
    <2> QED BY <2>2, <2>5 DEF LimiterInv
  <1> QED BY <1>2, <1>3, <1>4

LEMMA TickKeepsInv ==
  ASSUME LimiterInv, LimiterTick
  PROVE  LimiterInv'
  <1> USE DEF LimiterInv, LimiterTick
  <1>1. clock \in Nat /\ clock' = clock + 1 /\ clock' \in 0 .. MaxClock
    BY LimiterAssumption DEF LimiterTypeOK
  <1>2. LimiterTypeOK'
    BY <1>1, LimiterAssumption DEF LimiterTypeOK, Counter, NoCounter
  <1>3. HitsAreRecent'
    <2> SUFFICES ASSUME NEW p \in pending
                 PROVE  p.stamp <= clock + 1 /\ clock + 1 <= p.stamp + MaxDelay
      BY <1>1 DEF HitsAreRecent
    <2>1. p.stamp \in Nat
      BY DEF LimiterTypeOK, Pending
    <2>2. p.stamp <= clock /\ clock < p.stamp + MaxDelay
      BY DEF HitsAreRecent
    <2> QED BY <1>1, <2>1, <2>2, LimiterAssumption
  <1>4. GrantsAreCounted'
    <2> SUFFICES ASSUME NEW b \in Buckets, NEW w \in Windows,
                        ~(clock' >= w + 2 * Window)
                 PROVE  /\ granted'[<<b, w>>] <= counters'[<<b, w>>].count
                        /\ counters'[<<b, w>>].count > 0
                             => counters'[<<b, w>>].until >= w + 2 * Window
      BY DEF GrantsAreCounted
    <2>1. w \in Nat /\ counters[<<b, w>>] \in Counter /\ granted[<<b, w>>] \in Nat
      BY DEF LimiterTypeOK, Windows
    <2>2. ~(clock >= w + 2 * Window)
      BY <1>1, <2>1, LimiterAssumption
    <2>3. /\ granted[<<b, w>>] <= counters[<<b, w>>].count
          /\ counters[<<b, w>>].count > 0 => counters[<<b, w>>].until >= w + 2 * Window
      BY <2>2 DEF GrantsAreCounted
    <2>4. counters'[<<b, w>>] = IF clock + 1 < counters[<<b, w>>].until
                                THEN counters[<<b, w>>] ELSE NoCounter
      OBVIOUS
    <2>5. CASE clock + 1 < counters[<<b, w>>].until
      BY <2>3, <2>4, <2>5
    <2>6. CASE ~(clock + 1 < counters[<<b, w>>].until)
      <3>1. counters[<<b, w>>].count = 0
        BY <1>1, <2>1, <2>3, <2>6, LimiterAssumption DEF Counter
      <3> QED BY <2>1, <2>3, <2>4, <2>6, <3>1 DEF NoCounter
    <2> QED BY <2>5, <2>6
  <1>5. WindowBudget'
    BY DEF WindowBudget
  <1> QED BY <1>2, <1>3, <1>4, <1>5

LEMMA LimiterStepInv == LimiterInv /\ [LimiterNext]_limiterVars => LimiterInv'
  <1> SUFFICES ASSUME LimiterInv, [LimiterNext]_limiterVars PROVE LimiterInv'
    OBVIOUS
  <1>1. CASE \E h \in Hits, b \in Buckets : Stamp(h, b)
    <2> PICK h \in Hits, b \in Buckets : Stamp(h, b)
      BY <1>1
    <2>1. [hit |-> h, bucket |-> b, stamp |-> clock] \in Pending
      BY DEF LimiterInv, LimiterTypeOK, Pending
    <2>2. LimiterTypeOK'
      BY <2>1 DEF Stamp, LimiterInv, LimiterTypeOK
    <2>3. HitsAreRecent'
      BY LimiterAssumption DEF Stamp, LimiterInv, LimiterTypeOK, HitsAreRecent
    <2> QED BY <2>2, <2>3 DEF Stamp, LimiterInv, GrantsAreCounted, WindowBudget
  <1>2. CASE \E p \in pending : Grant(p) \/ Refuse(p) \/ FailOpen(p)
    BY <1>2, GrantKeepsInv, OtherHitKeepsInv
  <1>3. CASE LimiterTick
    BY <1>3, TickKeepsInv
  <1>4. CASE UNCHANGED limiterVars
    BY <1>4 DEF limiterVars, LimiterInv, LimiterTypeOK, HitsAreRecent,
                GrantsAreCounted, WindowBudget
  <1> QED BY <1>1, <1>2, <1>3, <1>4 DEF LimiterNext

-----------------------------------------------------------------------------
\* Whatever the limit, the window and the delays of up to a window, no window of
\* a key lets more requests through than its budget.
THEOREM BudgetOfWindow == LimiterSpec => []WindowBudget
  <1>1. LimiterInv => WindowBudget
    BY DEF LimiterInv
  <1> QED BY <1>1, LimiterInitInv, LimiterStepInv, PTL DEF LimiterSpec
=============================================================================
