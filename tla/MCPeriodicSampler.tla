-------------------------- MODULE MCPeriodicSampler --------------------------
(***************************************************************************)
(* Two goroutines and two requests that share a cache of one, over three   *)
(* intervals.                                                              *)
(***************************************************************************)
EXTENDS PeriodicSampler, TLC

MCSymmetry ==
  Permutations(Callers) \cup Permutations(Requests)
    \cup Permutations(SamplingStates)
=============================================================================
