---------------------------- MODULE QualityGate ----------------------------
(***************************************************************************)
(* The retrieval-quality gate of the CI: metrics of ranked results against *)
(* the relevant items of each query, averaged and held against thresholds. *)
(* Between two runs of the gate the retrieval may get worse: a relevant    *)
(* result moves down, or is not found any more.                            *)
(*                                                                         *)
(* A metric is an integer, in parts of Scale.  The discount 1/log2(i + 1)  *)
(* of position i is Discount[i]; all that matters of it is that it falls.  *)
(***************************************************************************)
EXTENDS Naturals, Sequences, FiniteSets, SequencesExt

CONSTANTS
  Results,   \* item ids
  MaxEvals,  \* queries of an evaluation set
  Ks,        \* --k
  Scale,
  Discount,
  Threshold  \* --min-recall, --min-ndcg and --min-mrr, in parts of Scale

ASSUME QualityGateAssumption ==
  /\ MaxEvals \in Nat /\ Ks \subseteq Nat /\ Scale \in Nat \ {0}
  /\ \A n \in 1 .. Cardinality(Results) : Scale % n = 0
  /\ Discount \in Seq(Nat \ {0}) /\ Len(Discount) >= Cardinality(Results)
  /\ \A i \in 1 .. Len(Discount) - 1 : Discount[i] > Discount[i + 1]
  /\ Threshold \in [{"recall", "ndcg", "mrr"} -> Nat]

VARIABLES evals, k

gateVars == <<evals, k>>

\* A row of the evaluation set: what was found, best first, and what should be.
QueryEval ==
  [ranked : {s \in BoundedSeq(Results, Cardinality(Results)) : IsInjective(s)},
   relevant : SUBSET Results]

GateInit ==
  /\ k \in Ks
  /\ \E n \in 0 .. MaxEvals : evals \in [1 .. n -> QueryEval]

-----------------------------------------------------------------------------
(* The metrics                                                             *)

Smaller(m, n) == IF m < n THEN m ELSE n
BestK(e) == SubSeq(e.ranked, 1, Smaller(k, Len(e.ranked)))
SumOf(s) == FoldSeq(LAMBDA x, y : x + y, 0, s)

HitsAtK(e) == Cardinality(Range(BestK(e)) \cap e.relevant)

Recall(e) ==
  IF e.relevant = {} THEN Scale ELSE (HitsAtK(e) * Scale) \div Cardinality(e.relevant)

Precision(e) == IF k = 0 THEN 0 ELSE (HitsAtK(e) * Scale) \div k

Found(e) == {i \in 1 .. Len(e.ranked) : e.ranked[i] \in e.relevant}

ReciprocalRank(e) ==
  IF Found(e) = {} THEN 0
  ELSE Scale \div (CHOOSE i \in Found(e) : \A j \in Found(e) : i <= j)

Gain(e, i) == IF BestK(e)[i] \in e.relevant THEN Discount[i] ELSE 0
Dcg(e) == SumOf([i \in 1 .. Len(BestK(e)) |-> Gain(e, i)])

\* Mutant: the ideal ranking is that of the relevant items that were found.
IdealOfFound(e) == SumOf(SubSeq(Discount, 1, Smaller(Cardinality(Found(e)), k)))

IdealDcg(e) == SumOf(SubSeq(Discount, 1, Smaller(Cardinality(e.relevant), k)))

Ndcg(e) == IF IdealDcg(e) = 0 THEN 0 ELSE (Dcg(e) * Scale) \div IdealDcg(e)

\* Sums over the queries; the means are these by n.
Evaluate ==
  [recall |-> SumOf([i \in DOMAIN evals |-> Recall(evals[i])]),
   precision |-> SumOf([i \in DOMAIN evals |-> Precision(evals[i])]),
   mrr |-> SumOf([i \in DOMAIN evals |-> ReciprocalRank(evals[i])]),
   ndcg |-> SumOf([i \in DOMAIN evals |-> Ndcg(evals[i])])]

\* The gate fails if a metric is below its threshold; precision has none.
Passes ==
  LET n == IF evals = <<>> THEN 1 ELSE Len(evals)
  IN \A metric \in DOMAIN Threshold : Evaluate[metric] >= Threshold[metric] * n

-----------------------------------------------------------------------------
(* The retrieval gets worse                                                *)

MoveDown(q, i) ==
  LET s == evals[q].ranked
  IN /\ s[i] \in evals[q].relevant /\ s[i + 1] \notin evals[q].relevant
     /\ evals' = [evals EXCEPT ![q].ranked = [s EXCEPT ![i] = s[i + 1], ![i + 1] = s[i]]]

Lose(q, i) ==
  /\ evals[q].ranked[i] \in evals[q].relevant
  /\ evals' = [evals EXCEPT ![q].ranked = RemoveAt(@, i)]

GateNext ==
  /\ \E q \in DOMAIN evals :
       \/ \E i \in 1 .. Len(evals[q].ranked) - 1 : MoveDown(q, i)
       \/ \E i \in 1 .. Len(evals[q].ranked) : Lose(q, i)
  /\ UNCHANGED k

GateSpec == GateInit /\ [][GateNext]_gateVars

-----------------------------------------------------------------------------
\* Retrieval that got worse never scores better by any of the metrics, so that
\* the gate cannot start to pass by it: "a change that regresses retrieval quality
\* must be caught before it ships".
RegressionsNeverScoreBetter ==
  [][evals' # evals =>
       /\ \A metric \in DOMAIN Evaluate : (Evaluate[metric])' <= Evaluate[metric]
       /\ Passes' => Passes]_gateVars
=============================================================================
