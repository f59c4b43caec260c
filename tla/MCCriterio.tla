----------------------------- MODULE MCCriterio -----------------------------
(* An instance of Criterio for TLC: at most a table of each criterion, one *)
(* of SHC whose letters are negative and, of the memories, one that the    *)
(* Kernel does not know at first.                                          *)
EXTENDS Criterio, TLC

CONSTANTS tsc, tshc, tneg

UnaDeCada == [t \in Tablas |-> IF t = tsc THEN "SC" ELSE "SHC"]
Letras == [t \in Tablas |-> IF t = tneg THEN -3 ELSE 3]
Simetria == Permutations(Hilos)

\* What comes after two calls that change one pool at once, after a negative
\* index or after an integer nobody set is not followed, and the table with the
\* negative letters is only CREATEd.
Interesa == riesgo \cap {"lista", "negativo", "sinRespuesta"} = {} /\ tneg \notin metadata
=============================================================================
