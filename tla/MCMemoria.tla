----------------------------- MODULE MCMemoria -----------------------------
(* Instances of Memoria for TLC.  Tables, keys and threads are             *)
(* interchangeable in Memoria and in every invariant checked with symmetry. *)
EXTENDS Memoria, TLC

\* After two threads overlapped nothing is claimed: those states are not expanded.
SinSolapes == riesgo = {}

Simetria == Permutations(Tablas) \cup Permutations(Claves) \cup Permutations(Hilos)
=============================================================================
