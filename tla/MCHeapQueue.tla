----------------------------- MODULE MCHeapQueue -----------------------------
(***************************************************************************)
(* A small instance of HeapQueue.  Seven items, two pairs of which tie,    *)
(* pushed in every order into a heap of three levels.                      *)
(***************************************************************************)
EXTENDS HeapQueue

MCItems == {"a", "b", "c", "d", "e", "f", "g"}

MCLatency ==
  [item \in MCItems |->
     CASE item \in {"a", "b"} -> 1
       [] item \in {"c", "d"} -> 2
       [] item = "e" -> 3
       [] item = "f" -> 4
       [] item = "g" -> 5]

\* Unlimited (negative), zero, and positive limits up to the cap of five.
MCLimits == {-1, 0, 1, 3, 9}
=============================================================================
