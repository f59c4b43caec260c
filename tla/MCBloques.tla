----------------------------- MODULE MCBloques -----------------------------
(* Instances of Bloques for TLC.                                           *)
EXTENDS Bloques, TLC

\* After a byte is written over only the semaphores are claimed, and after an overlap
\* too: those are followed where it came among the first operations.
Interesa ==
  /\ "byte" \notin riesgo
  /\ riesgo \cap Solapes = {} \/ pedidos <= 4
Simetria == Permutations(Tablas)
=============================================================================
