---------------------------- MODULE MCMetricHelper ----------------------------
(***************************************************************************)
(* An instance of MetricHelper: two consumers and two request contexts     *)
(* that share a cache of one, two updates between two lists of labels.     *)
(***************************************************************************)
EXTENDS MetricHelper, TLC

MCLabelSets == {"method", "method and path"}

MCSymmetry == Permutations(Callers) \cup Permutations(Contexts)
=============================================================================
