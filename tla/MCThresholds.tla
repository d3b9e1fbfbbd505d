---------------------------- MODULE MCThresholds ----------------------------
(***************************************************************************)
(* One request context, which has a threshold of its own or the one for    *)
(* any request, or neither, as without a table, and so the default.        *)
(***************************************************************************)
EXTENDS Thresholds

CONSTANTS f1, f2

MCFetches == {f1, f2}

MCTable(own, any) == [r \in Contexts |-> IF r = AnyRequest THEN any ELSE own]

Both == MCTable(1, 2)
OnlyAny == MCTable(None, 2)
Neither == MCTable(None, None)

MCTables == {Both, OnlyAny, Neither}
MCFirstServed ==
  {[e1 |-> Both, e2 |-> OnlyAny], [e1 |-> None, e2 |-> Both]}
=============================================================================
