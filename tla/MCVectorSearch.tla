--------------------------- MODULE MCVectorSearch ---------------------------
(***************************************************************************)
(* Small instances for TLC of what a search rests on: the vector store,    *)
(* under racing workers and under searches; the pages of a query; the      *)
(* embeddings of a call; the listing of a tenant's items; the search for   *)
(* duplicates; and the gate that measures what is found.  The choice of    *)
(* focus says which of them moves; they share no state.                    *)
(***************************************************************************)
EXTENDS VectorStore, SearchPages, Embeddings, Listings, Deduplication, QualityGate, TLC

CONSTANTS acme, bolt, i1, i2, i3, base, large

VARIABLE focus

mcVars == <<focus, storeVars, pageVars, embedVars, listingVars, gateVars, dedupVars>>

Owners == (i1 :> acme) @@ (i2 :> acme) @@ (i3 :> bolt)
Sizes == (base :> 2) @@ (large :> 3)

Discounts == <<6, 4, 3>>
Thresholds == [recall |-> 3, ndcg |-> 4, mrr |-> 5]

\* What does not move starts from one of its initial states.  The encoders are alike
\* but for their sizes, of which only the equality matters: base is the first.
MCInit ==
  /\ focus \in {"races", "searches", "pages", "embeddings", "listing", "gate", "duplicates"}
  /\ StoreInit /\ encoder = base
  /\ PagesInit
  /\ \/ focus = "pages"
     \/ modifier = NoModifier /\ topK = 1 /\ minScore = 0 /\ collection = {} /\ announced
  /\ EmbeddingsInit
  /\ focus = "embeddings" \/ (inputs = <<>> /\ withHash /\ provider = "local")
  /\ ListingsInit /\ (focus = "listing" \/ built = 0)
  /\ IF focus = "gate" THEN GateInit ELSE evals = <<>> /\ k = 0
  /\ IF focus = "duplicates" THEN DedupInit
     ELSE /\ sought = {} /\ stored = <<>> /\ cursor = 1
          /\ bestId = 0 /\ bestDistance = MaxDistance + 1 /\ returned = FALSE

StoreStill == UNCHANGED storeVars
PagesStill == UNCHANGED pageVars
EmbeddingsStill == UNCHANGED embedVars
ListingStill == UNCHANGED listingVars
ToolsStill == UNCHANGED <<gateVars, dedupVars>>

\* Searches are checked against one worker until they are answered; a second one
\* comes in when it is restarted.
Searching == \A s \in Searches : outcome[s] = "none"
OneWorks(p) == \A q \in Processes \ {p} : ppc[q] = "idle" /\ ensured[q] = {}

\* The encoder changes at most once.
Upgrade == encoder = base /\ Deploy(large)

MCNext ==
  /\ UNCHANGED focus
  /\ \/ /\ focus = "races"
        /\ \/ Upgrade
           \/ \E p \in Processes : ProcessStep(p)
        /\ PagesStill /\ EmbeddingsStill /\ ListingStill /\ ToolsStill
     \/ /\ focus = "searches" /\ Searching
        /\ \/ Upgrade
           \/ \E p \in Processes : OneWorks(p) /\ ProcessStep(p)
           \/ \E s \in Searches, t \in Tenants : BeginSearch(s, t)
           \/ \E s \in Searches : Search(s)
        /\ PagesStill /\ EmbeddingsStill /\ ListingStill /\ ToolsStill
     \/ /\ focus = "pages" /\ PagesNext
        /\ StoreStill /\ EmbeddingsStill /\ ListingStill /\ ToolsStill
     \/ /\ focus = "embeddings" /\ EmbeddingsNext
        /\ StoreStill /\ PagesStill /\ ListingStill /\ ToolsStill
     \/ /\ focus = "listing" /\ ListingsNext
        /\ StoreStill /\ PagesStill /\ EmbeddingsStill /\ ToolsStill
     \/ /\ focus = "gate" /\ GateNext /\ UNCHANGED dedupVars
        /\ StoreStill /\ PagesStill /\ EmbeddingsStill /\ ListingStill
     \/ /\ focus = "duplicates" /\ DedupNext /\ UNCHANGED gateVars
        /\ StoreStill /\ PagesStill /\ EmbeddingsStill /\ ListingStill

MCSpec == MCInit /\ [][MCNext]_mcVars

Symmetry == Permutations(Processes) \cup Permutations({i1, i2})

TypeOK == StoreTypeOK /\ PagesTypeOK /\ ListingsTypeOK /\ DedupTypeOK
=============================================================================
