----------------------------- MODULE TraceItems -----------------------------
(***************************************************************************)
(* What a queue of traces is about, shared by its two specifications: the  *)
(* items, their latencies and the configured limits.                       *)
(***************************************************************************)
EXTENDS Integers, FiniteSets

CONSTANTS
  Items,                      \* the *Item values callers may push
  Latency,                    \* Item.latency
  Limits                      \* the values LimitPerRequestPerService may have;
                              \* Validate bounds it from above only

ASSUME LatencyAssumption == Latency \in [Items -> Int]
ASSUME LimitsAssumption == Limits \subseteq Int

\* Mutant: not capped.
Uncapped(limit) == limit

\* The maxSize getRequestState gives NewTraceQueue.
PerRequestLimit(limit) == IF limit < 5 THEN limit ELSE 5
=============================================================================
