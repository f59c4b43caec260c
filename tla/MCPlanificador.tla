--------------------------- MODULE MCPlanificador ---------------------------
(* Instances of Planificador for TLC.  Dispatchers are interchangeable, and *)
(* so are scripts of the same length.                                      *)
EXTENDS Planificador, TLC

LineasCortas == [p \in Procesos |-> IF p \in Scripts THEN 2 ELSE 1]
LineasLargas == [p \in Procesos |-> IF p \in Scripts THEN 3 ELSE 1]
Simetria == Permutations(Hilos) \cup Permutations(Scripts)
=============================================================================
