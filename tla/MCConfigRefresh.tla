--------------------------- MODULE MCConfigRefresh ---------------------------
(***************************************************************************)
(* A handful of configs that differ from the local one, and from each      *)
(* other, where the listeners look.                                        *)
(***************************************************************************)
EXTENDS ConfigRefresh

CONSTANTS good, better, bad, empty, labels1, labels2, badLabels

MCLocal ==
  [SpanAttributes |-> empty, CustomAttributes |-> good, Threshold |-> 1,
   Labels |-> labels1, Buckets |-> 1, CaptureMetrics |-> TRUE,
   IgnoreClientErrors |-> TRUE]

\* Span attributes arrive and leave again, with and without another change;
\* rules that do not compile come alone or with a change of the threshold;
\* labels change alone, with buckets absent, with the span attributes, or
\* between two copied fields.
MCConfigs ==
  LET base == [MCLocal EXCEPT !.Buckets = 2] IN
  { base,
    [base EXCEPT !.SpanAttributes = better],
    [base EXCEPT !.SpanAttributes = bad],
    [base EXCEPT !.SpanAttributes = bad, !.Threshold = 2],
    [base EXCEPT !.CustomAttributes = better, !.Buckets = empty],
    [base EXCEPT !.Labels = labels2, !.Buckets = empty],
    [base EXCEPT !.SpanAttributes = good, !.Labels = labels2],
    [base EXCEPT !.SpanAttributes = better, !.Labels = labels2,
                   !.Threshold = 2, !.IgnoreClientErrors = FALSE],
    [base EXCEPT !.CaptureMetrics = FALSE] }

\* One config also has labels that prometheus refuses.
MCConfigsWithBadLabels ==
  MCConfigs \cup {[MCLocal EXCEPT !.Labels = badLabels]}

MCBadRules == {bad}
MCBadLabels == {badLabels}
=============================================================================
