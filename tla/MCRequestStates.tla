-------------------------- MODULE MCRequestStates --------------------------
(***************************************************************************)
(* Three requests compete for LimitPerService = 2 entries.                 *)
(***************************************************************************)
EXTENDS RequestStates

CONSTANTS c1, c2, r1, r2, r3

MCCallers == {c1, c2}
MCRequests == {r1, r2, r3}
=============================================================================
