------------------------------ MODULE Listings ------------------------------
(***************************************************************************)
(* A client lists a tenant's items page by page while items are            *)
(* registered, change and are deleted.                                     *)
(*                                                                         *)
(* A page is a query of its own: the rows committed by then, in the order  *)
(* of created_at, from an offset.  A row gets its created_at when the      *)
(* request that registers it builds it, and is committed later, so that    *)
(* rows may become visible in another order.  created_at is distinct: it   *)
(* counts microseconds.  The listing asks for every status: one that asks  *)
(* for a single status has rows join and leave as the pipeline goes on.    *)
(***************************************************************************)
EXTENDS Naturals, FiniteSets

CONSTANTS
  MaxItems,   \* bound on the registrations
  MaxUpdates, \* bound on the updates of rows
  Limit       \* of the pages

ASSUME ListingsAssumption ==
  /\ MaxItems \in Nat
  /\ MaxUpdates \in Nat
  /\ Limit \in Nat \ {0}

VARIABLES
  built,   \* items so far, numbered by created_at
  visible, \* those that are committed
  updated, \* updated_at of each item, as the number of the update
  updates, \* updates so far
  next,    \* the offset of the next page
  listed,  \* what the client has got on its pages
  ended,   \* its last page was empty
  wanted   \* what was there when it began, and is there still (history)

listingVars == <<built, visible, updated, updates, next, listed, ended, wanted>>

ListingsTypeOK ==
  /\ built \in 0 .. MaxItems
  /\ visible \subseteq 1 .. built
  /\ updated \in [1 .. MaxItems -> 0 .. MaxUpdates]
  /\ updates \in 0 .. MaxUpdates
  /\ next \in 0 .. MaxItems + Limit
  /\ listed \subseteq 1 .. built
  /\ ended \in BOOLEAN
  /\ wanted \subseteq 1 .. built

ListingsInit ==
  /\ built \in 0 .. MaxItems
  /\ visible \in SUBSET (1 .. built)
  /\ updated = [i \in 1 .. MaxItems |-> 0]
  /\ updates = 0
  /\ next = 0
  /\ listed = {}
  /\ ended = FALSE
  /\ wanted = visible

Build ==
  /\ built < MaxItems
  /\ built' = built + 1
  /\ UNCHANGED <<visible, updated, updates, next, listed, ended, wanted>>

\* What is there before the client asks for its first page, it wants.
Publish(i) ==
  /\ i <= built /\ i \notin visible
  /\ visible' = visible \cup {i}
  /\ wanted' = IF next = 0 THEN visible' ELSE wanted
  /\ UNCHANGED <<built, updated, updates, next, listed, ended>>

\* The pipeline sets the status and with it updated_at.
Update(i) ==
  /\ i \in visible
  /\ updates < MaxUpdates
  /\ updates' = updates + 1
  /\ updated' = [updated EXCEPT ![i] = updates + 1]
  /\ UNCHANGED <<built, visible, next, listed, ended, wanted>>

\* Mutant: the newest change comes last.
LastUpdateLast(i, j) == updated[i] < updated[j] \/ (updated[i] = updated[j] /\ i < j)

\* ORDER BY created_at
Before(i, j) == i < j

\* The place of a row in the listing.
Rank(i) == Cardinality({j \in visible : Before(j, i)})

ListPage ==
  LET page == {i \in visible : next <= Rank(i) /\ Rank(i) < next + Limit}
  IN /\ ~ended /\ next <= MaxItems
     /\ listed' = listed \cup page
     /\ ended' = (page = {})
     /\ next' = next + Limit
     /\ UNCHANGED <<built, visible, updated, updates, wanted>>

ListingsNext ==
  \/ Build
  \/ \E i \in 1 .. built : Publish(i) \/ Update(i)
  \/ ListPage

ListingsSpec == ListingsInit /\ [][ListingsNext]_listingVars

\* As long as nothing is deleted a listing misses nothing that was there when it
\* began, although every page is a query of its own and rows that were built
\* earlier appear between them (they may make it list an item twice).
ListingsMissNothing == ended => wanted \subseteq listed
=============================================================================
