----------------------------- MODULE MCCurvedns -----------------------------
(* Instances of Curvedns: three clients with keys, one of whose boxes cannot *)
(* be opened and goes the way of a plain query; a table for two secrets in   *)
(* two buckets, two entries, two addresses.                                  *)
EXTENDS Curvedns, TLC

CONSTANTS k1, k2, k3, l1, l2

MCListener == {l1, l2}
\* No action or property tells one listener from another.
ListenersAlike == Permutations(MCListener)

MCKey == {k1, k2, k3}
MCHash == [k \in MCKey |-> IF k = k1 THEN 0 ELSE 1]
MCEnvironments == {[tries |-> None, conns |-> 0]}

Sent(format, id, key, opens, inner, rd) ==
  [format |-> format, id |-> id, text |-> format, key |-> key, nonce |-> <<key, format>>,
   opens |-> opens, inner |-> inner, rd |-> rd, qname |-> IF format = "txt" THEN key ELSE None]
Inner(id) == [id |-> id, text |-> "inner"]

MCPackets ==
  {Sent("stream", 9, k1, TRUE, Inner(6), FALSE), Sent("txt", 7, k2, TRUE, Inner(8), TRUE),
   Sent("stream", 5, k3, FALSE, None, FALSE)}
=============================================================================
