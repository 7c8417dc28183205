----------------------------- MODULE Embeddings -----------------------------
(***************************************************************************)
(* ai-service: one call for the embeddings of images and texts.  The       *)
(* inputs are sorted by modality, each group is embedded at once, and the  *)
(* results are put back in the order of the inputs.  A call fails as a     *)
(* whole: an input that is no image, or a text for an encoder without a    *)
(* text tower, answers it with 422.                                        *)
(***************************************************************************)
EXTENDS Naturals, Sequences, FiniteSets

CONSTANTS
  Pictures,  \* images
  Broken,    \* those of them that cannot be decoded
  Texts,
  MaxInputs \* bound on the inputs of a call

ASSUME EmbeddingsAssumption ==
  /\ Broken \subseteq Pictures
  /\ Pictures \cap Texts = {}
  /\ MaxInputs \in Nat

VARIABLES
  provider,  \* the encoder that is deployed
  inputs,    \* of the call
  withHash,  \* include_phash
  groups,    \* the results of each group once it is embedded
  reply      \* the answer

callVars == <<provider, inputs, withHash>>
embedVars == <<callVars, groups, reply>>

Providers == {"local", "siglip2", "openclip", "dinov2"}

\* DINOv2 embeds images only.
HasTextTower == provider # "dinov2"

Decodes(x) == x \notin Broken

\* The embedding of an input does not depend on the others of the batch.
Vector(x) == [model |-> provider, of |-> x]
PHash(x) == [hashOf |-> x]          \* average_hash
NotYet == [status |-> 0]
Rejected == [status |-> 422]

CallsOf(n) == [1 .. n -> Pictures \cup Texts]

EmbeddingsInit ==
  /\ provider \in Providers
  /\ inputs \in UNION {CallsOf(n) : n \in 0 .. MaxInputs}
  /\ withHash \in BOOLEAN
  /\ groups = [images |-> NotYet, texts |-> NotYet]
  /\ reply = NotYet

\* The places of the inputs of one modality among the inputs, and the place of one
\* of them in its group.
Positions(modality) == {i \in 1 .. Len(inputs) : inputs[i] \in modality}
Place(positions, i) == Cardinality({j \in positions : j < i}) + 1

\* embed_images and embed_texts: a vector for each input, in order.
Embedded(positions) ==
  LET At(k) == CHOOSE i \in positions : Place(positions, i) = k
  IN [status |-> 200,
      vectors |-> [k \in 1 .. Cardinality(positions) |-> Vector(inputs[At(k)])]]

EmbedImages ==
  /\ inputs # <<>> /\ reply = NotYet /\ groups.images = NotYet
  /\ IF \E i \in 1 .. Len(inputs) : ~Decodes(inputs[i])
     THEN reply' = Rejected /\ UNCHANGED groups
     ELSE groups' = [groups EXCEPT !.images = Embedded(Positions(Pictures))] /\ UNCHANGED reply
  /\ UNCHANGED callVars

EmbedTexts ==
  /\ reply = NotYet /\ groups.images # NotYet /\ groups.texts = NotYet
  /\ IF ~HasTextTower /\ \E i \in 1 .. Len(inputs) : inputs[i] \in Texts
     THEN reply' = Rejected /\ UNCHANGED groups
     ELSE groups' = [groups EXCEPT !.texts = Embedded(Positions(Texts))] /\ UNCHANGED reply
  /\ UNCHANGED callVars

\* An empty batch raises EmptyBatchError.
RejectEmpty ==
  /\ reply = NotYet /\ inputs = <<>>
  /\ reply' = Rejected
  /\ UNCHANGED <<callVars, groups>>

\* Mutant: the groups are answered one after the other.
OneGroupAfterTheOther ==
  [n \in 1 .. Len(inputs) |->
     [vector |-> (groups.images.vectors \o groups.texts.vectors)[n],
      phash |-> IF withHash /\ inputs[n] \in Pictures THEN PHash(inputs[n]) ELSE "null"]]

\* zip(positions, vectors), for each group, into the places of the inputs.
InPlace ==
  [n \in 1 .. Len(inputs) |->
     IF inputs[n] \in Pictures
     THEN [vector |-> groups.images.vectors[Place(Positions(Pictures), n)],
           phash |-> IF withHash THEN PHash(inputs[n]) ELSE "null"]
     ELSE [vector |-> groups.texts.vectors[Place(Positions(Texts), n)], phash |-> "null"]]

Answer ==
  /\ reply = NotYet /\ groups.texts # NotYet
  /\ reply' = [status |-> 200, results |-> InPlace]
  /\ UNCHANGED <<callVars, groups>>

EmbeddingsNext == EmbedImages \/ EmbedTexts \/ RejectEmpty \/ Answer

EmbeddingsSpec == EmbeddingsInit /\ [][EmbeddingsNext]_embedVars

\* The n-th result belongs to the n-th input, however images and texts are mixed;
\* the hash that deduplication compares is the one of the same image.
ResultsBelongToInputs ==
  reply # NotYet /\ reply.status = 200 =>
    /\ Len(reply.results) = Len(inputs)
    /\ \A n \in 1 .. Len(inputs) :
         /\ reply.results[n].vector = Vector(inputs[n])
         /\ reply.results[n].phash = IF withHash /\ inputs[n] \in Pictures
                                     THEN PHash(inputs[n]) ELSE "null"
=============================================================================
