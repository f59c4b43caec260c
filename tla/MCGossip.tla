------------------------------ MODULE MCGossip ------------------------------
(* Instances of Gossip for TLC.                                             *)
EXTENDS Gossip

CONSTANTS m1, m2, m3

\* m1 knows of m2 and m2 of m3, which has no seeds: m2 is asked and asks.
Cadena == [m \in Memorias |-> CASE m = m1 -> <<m2>> [] m = m2 -> <<m3>> [] OTHER -> <<>>]

\* Bound: executions are followed up to the second of them.
Interesa == Cardinality(riesgo) <= 1
=============================================================================
