--------------------------- MODULE Deduplication ---------------------------
(***************************************************************************)
(* find_duplicate: one pass over the hashes of a tenant's INDEXED items,   *)
(* the most recently indexed first, for the closest one to a new image.    *)
(* IngestionWorker has its result as a set, ClosestDuplicates; here is the *)
(* loop.  A hash is the set of its one-bits, an item its place in the list.*)
(***************************************************************************)
EXTENDS Naturals, Sequences, FiniteSets

CONSTANTS
  HashBits,    \* the bit positions of a hash
  NoHash,      \* an empty hash
  MaxDistance, \* dedup_hamming_threshold
  MaxStored    \* bound on the items of the tenant

ASSUME DeduplicationAssumption ==
  /\ IsFiniteSet(HashBits)
  /\ \A h \in SUBSET HashBits : NoHash # h
  /\ MaxDistance \in Nat
  /\ MaxStored \in Nat

VARIABLES
  sought,       \* the hash of the new image
  stored,       \* those of the INDEXED items
  cursor,       \* the place the loop has come to
  bestId,       \* the place of the best so far; 0 is None
  bestDistance,
  returned

dedupVars == <<sought, stored, cursor, bestId, bestDistance, returned>>

Hashes == SUBSET HashBits

\* The bits in which two hashes differ.
Hamming(a, b) == Cardinality((a \ b) \cup (b \ a))

DedupTypeOK ==
  /\ sought \in Hashes
  /\ stored \in Seq(Hashes \cup {NoHash})
  /\ cursor \in 1 .. Len(stored) + 1
  /\ bestId \in 0 .. Len(stored)
  /\ bestDistance \in 0 .. MaxDistance + 1
  /\ returned \in BOOLEAN

DedupInit ==
  /\ sought \in Hashes
  /\ stored \in UNION {[1 .. n -> Hashes \cup {NoHash}] : n \in 0 .. MaxStored}
  /\ cursor = 1
  /\ bestId = 0
  /\ bestDistance = MaxDistance + 1
  /\ returned = FALSE

DistanceTo(n) == Hamming(sought, stored[n])
Hashed(n) == stored[n] # NoHash

Looking == ~returned /\ cursor <= Len(stored)

\* Mutant: a later item as close as the best takes its place.
AsClose(n) == DistanceTo(n) <= MaxDistance /\ DistanceTo(n) <= bestDistance

Closer(n) == DistanceTo(n) <= MaxDistance /\ DistanceTo(n) < bestDistance

\* Nothing is closer than an identical hash: the loop breaks.
Take ==
  /\ Looking /\ Hashed(cursor) /\ Closer(cursor)
  /\ bestId' = cursor
  /\ bestDistance' = DistanceTo(cursor)
  /\ returned' = (DistanceTo(cursor) = 0)
  /\ cursor' = cursor + 1
  /\ UNCHANGED <<sought, stored>>

Pass ==
  /\ Looking /\ (Hashed(cursor) => ~Closer(cursor))
  /\ cursor' = cursor + 1
  /\ UNCHANGED <<sought, stored, bestId, bestDistance, returned>>

ReturnBest ==
  /\ ~returned /\ cursor > Len(stored)
  /\ returned' = TRUE
  /\ UNCHANGED <<sought, stored, cursor, bestId, bestDistance>>

DedupNext == Take \/ Pass \/ ReturnBest

DedupSpec == DedupInit /\ [][DedupNext]_dedupVars

-----------------------------------------------------------------------------
Within(n) == Hashed(n) /\ DistanceTo(n) <= MaxDistance

\* The items of the tenant that are closest to the image, within the threshold.
NearestStored ==
  {n \in 1 .. Len(stored) :
     Within(n) /\ \A m \in 1 .. Len(stored) : Within(m) => DistanceTo(n) <= DistanceTo(m)}

\* "Return the id of the closest existing item within `threshold` bits, or None.
\* Ties resolve to the first": one pass with a break, past items without a hash,
\* returns what a comparison of all of them with each other would.
FirstOfTheClosest ==
  returned =>
    \/ bestId = 0 /\ \A n \in 1 .. Len(stored) : ~Within(n)
    \/ bestId \in NearestStored /\ \A n \in NearestStored : bestId <= n
=============================================================================
