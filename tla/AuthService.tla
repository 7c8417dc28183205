---------------------------- MODULE AuthService ----------------------------
(***************************************************************************)
(* auth-service as its callers see it: requests that present an API key or *)
(* a bearer token, while administrators rotate and revoke the keys.        *)
(*                                                                         *)
(* A request is cut where it talks to PostgreSQL or Redis or reads the     *)
(* clock.  The tenant of every key exists and is active: no code suspends  *)
(* or deletes a tenant.  The limiter's state is in module RateLimiter;     *)
(* here a hit is let in or refused, as the limiter may decide.             *)
(***************************************************************************)
EXTENDS ApiKeys

CONSTANTS
  Clients, \* requests that present a credential
  MaxTime  \* bound on the clock

\* A revocation entry outlives the tokens of its key by several requests.
ASSUME AuthAssumption ==
  /\ MaxTime \in Nat
  /\ 3 * RequestTime <= Slack

VARIABLES
  tokens,     \* the access tokens that have not expired
  cpc,        \* the call a request makes next
  credential, \* the key it presents, or the key its token names
  exchange,   \* it presents a key to exchange it for a token
  cbegan,     \* when it began
  row,        \* the row of its key, as it has read it
  doomed,     \* its key had been revoked when it began (history)
  unchecked   \* the revocation list did not answer it

clientVars == <<cpc, credential, exchange, cbegan, row, doomed, unchecked>>
vars == <<now, keyVars, tokens, clientVars>>

Token == [key : Keys, exp : Nat]

TypeOK ==
  /\ KeysTypeOK
  /\ tokens \subseteq Token
  /\ cpc \in [Clients -> {"idle", "row", "verified", "hit", "sign"}]
  /\ credential \in [Clients -> Keys \cup {None}]
  /\ \A c \in Clients : cpc[c] # "idle" => credential[c] \in Keys
  /\ exchange \in [Clients -> BOOLEAN]
  /\ cbegan \in [Clients -> Nat]
  /\ row \in [Clients -> KeyRow]
  /\ doomed \in [Clients -> BOOLEAN]
  /\ unchecked \in [Clients -> BOOLEAN]

Init ==
  /\ KeysInit
  /\ tokens = {}
  /\ cpc = [c \in Clients |-> "idle"]
  /\ credential = [c \in Clients |-> None]
  /\ exchange = [c \in Clients |-> FALSE]
  /\ cbegan = [c \in Clients |-> 0]
  /\ row = [c \in Clients |-> NoKey]
  /\ doomed = [c \in Clients |-> FALSE]
  /\ unchecked = [c \in Clients |-> FALSE]

Goto(c, pc) == cpc' = [cpc EXCEPT ![c] = pc]

EndRequest(c) ==
  /\ Goto(c, "idle")
  /\ credential' = [credential EXCEPT ![c] = None]
  /\ exchange' = [exchange EXCEPT ![c] = FALSE]
  /\ cbegan' = [cbegan EXCEPT ![c] = 0]
  /\ row' = [row EXCEPT ![c] = NoKey]
  /\ doomed' = [doomed EXCEPT ![c] = FALSE]
  /\ unchecked' = [unchecked EXCEPT ![c] = FALSE]

Begin(c, k, pc) ==
  /\ cpc[c] = "idle"
  /\ Goto(c, pc)
  /\ credential' = [credential EXCEPT ![c] = k]
  /\ cbegan' = [cbegan EXCEPT ![c] = now]
  /\ doomed' = [doomed EXCEPT ![c] = k \in revoked]

-----------------------------------------------------------------------------
(* A request with an API key: to be let in, or to get a token              *)

PresentKey(c, k, forToken) ==
  /\ Issued(k)
  /\ Begin(c, k, "row")
  /\ exchange' = [exchange EXCEPT ![c] = forToken]
  /\ row' = [row EXCEPT ![c] = keys[k]]
  /\ UNCHANGED <<keyVars, tokens, unchecked>>

AcceptKey(c) ==
  /\ cpc[c] = "row"
  /\ UsableAt(row[c], now)
  /\ Goto(c, "hit")
  /\ UNCHANGED <<keyVars, tokens, credential, exchange, cbegan, row, doomed,
                 unchecked>>

RejectKey(c) ==
  /\ cpc[c] = "row"
  /\ ~UsableAt(row[c], now)
  /\ EndRequest(c)
  /\ UNCHANGED <<keyVars, tokens>>

-----------------------------------------------------------------------------
(* A request with a bearer token                                           *)

\* The signature and exp are checked without a call.
PresentToken(c, token) ==
  /\ now < token.exp
  /\ Begin(c, token.key, "verified")
  /\ UNCHANGED <<keyVars, tokens, exchange, row, unchecked>>

Listed(k) == now < listed[k]

AcceptToken(c) ==
  /\ cpc[c] = "verified"
  /\ ~Listed(credential[c])
  /\ Goto(c, "hit")
  /\ UNCHANGED <<keyVars, tokens, credential, exchange, cbegan, row, doomed,
                 unchecked>>

RejectToken(c) ==
  /\ cpc[c] = "verified"
  /\ Listed(credential[c])
  /\ EndRequest(c)
  /\ UNCHANGED <<keyVars, tokens>>

\* is_revoked fails open.
AcceptUnchecked(c) ==
  /\ "redis" \in Faults
  /\ cpc[c] = "verified"
  /\ Goto(c, "hit")
  /\ unchecked' = [unchecked EXCEPT ![c] = TRUE]
  /\ UNCHANGED <<keyVars, tokens, credential, exchange, cbegan, row, doomed>>

-----------------------------------------------------------------------------
(* Both end in the rate limiter                                            *)

\* Mutant: the request's state is gone when its token is to be signed.
LetInAfterClose(c) ==
  /\ Goto(c, IF exchange[c] THEN "sign" ELSE "idle")
  /\ credential' = [credential EXCEPT ![c] = None]
  /\ UNCHANGED <<exchange, cbegan, row, doomed, unchecked>>

\* The answer is 200, or a token is yet to be signed.
LetIn(c) ==
  \/ ~exchange[c] /\ EndRequest(c)
  \/ /\ exchange[c]
     /\ Goto(c, "sign")
     /\ UNCHANGED <<credential, exchange, cbegan, row, doomed, unchecked>>

Hit(c) ==
  /\ cpc[c] = "hit"
  /\ LetIn(c) \/ EndRequest(c)
  /\ UNCHANGED <<keyVars, tokens>>

SignToken(c) ==
  /\ cpc[c] = "sign"
  /\ tokens' = tokens \cup {[key |-> credential[c], exp |-> now + TokenTtl]}
  /\ EndRequest(c)
  /\ UNCHANGED keyVars

ClientStep(c) ==
  \/ \E k \in Keys, forToken \in BOOLEAN : PresentKey(c, k, forToken)
  \/ \E token \in tokens : PresentToken(c, token)
  \/ AcceptKey(c) \/ RejectKey(c)
  \/ AcceptToken(c) \/ RejectToken(c) \/ AcceptUnchecked(c)
  \/ Hit(c) \/ SignToken(c)

\* No request takes longer than RequestTime.  What has expired is forgotten:
\* Redis drops its entries, and no one accepts the tokens.
Tick ==
  /\ now < MaxTime
  /\ \A a \in Admins : apc[a] # "idle" => now < abegan[a] + RequestTime
  /\ \A c \in Clients : cpc[c] # "idle" => now < cbegan[c] + RequestTime
  /\ now' = now + 1
  /\ ExpireEntries
  /\ tokens' = {token \in tokens : now + 1 < token.exp}
  /\ UNCHANGED <<keys, adminVars, changes, revoked, clientVars>>

Next ==
  \/ \E a \in Admins : AdminStep(a) /\ UNCHANGED <<now, tokens, clientVars>>
  \/ \E c \in Clients : ClientStep(c) /\ UNCHANGED now
  \/ Tick

Spec == Init /\ [][Next]_vars

-----------------------------------------------------------------------------
(* What auth-service promises                                              *)

\* While a token of a revoked key lives, the key is on the revocation list: the
\* entry covers tokens that were signed before, during and after the revocation
\* by requests that had read the key when it was still usable ("kept just past
\* the max lifetime of any bearer token that could reference them").
RevokedTokensAreListed ==
  \A token \in tokens :
    keys[token.key].status = "revoked" /\ now < token.exp => Listed(token.key)

\* "Kill already-issued bearer tokens referencing this key immediately": a request
\* that began after a revocation was answered never passes authentication, with
\* the key or with a token, unless the revocation list failed to answer it.
RevocationIsFinal ==
  \A c \in Clients : doomed[c] /\ cpc[c] \in {"hit", "sign"} => unchecked[c]

\* "The short token TTL bounds the exposure": whatever fails, and however a key
\* ends (expired, rotated out, revoked), its tokens end soon after it.  A request
\* may take its time to sign a token; one that overlaps a rotation or revocation
\* may have read the key before that commits; and overlapping revocations may
\* leave the time of the earlier one.
TokensFollowTheirKey ==
  \A token \in tokens :
    LET k == keys[token.key]
        Covers(end, delays) ==
          end # None => token.exp <= end + delays * RequestTime + TokenTtl
    IN /\ Covers(k.expires, 1)
       /\ k.status = "grace" => Covers(k.grace, 2)
       /\ k.status = "revoked" => Covers(k.revokedAt, 3)
=============================================================================
