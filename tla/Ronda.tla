------------------------------- MODULE Ronda -------------------------------
(***************************************************************************)
(* What the scheduler of the Kernel promises, whatever threads, counters   *)
(* and lists there are behind it: round robin.  Processes wait in the      *)
(* order in which they arrived or came back; at most MULTIPROCESAMIENTO    *)
(* run at a time; one that runs has its lines executed in order, goes back *)
(* to the end of the queue when a quantum of them is over, and leaves for  *)
(* good after its last line or after a line that fails.                    *)
(***************************************************************************)
EXTENDS Integers, Sequences, FiniteSets

CONSTANTS
  Procesos,            \* scripts and single requests
  Lineas,              \* number of lines of each
  QUANTUM,             \* lines of a turn
  MULTIPROCESAMIENTO   \* slots

VARIABLES
  nuevos,      \* who has not arrived
  cola,        \* who waits, first come first
  ejecutando,  \* who has a slot
  turno,       \* lines that each has run since it was given its slot
  hechas       \* lines of each that have been executed

vars == <<nuevos, cola, ejecutando, turno, hechas>>

Init ==
  /\ nuevos = Procesos
  /\ cola = <<>>
  /\ ejecutando = {}
  /\ turno = [p \in Procesos |-> 0]
  /\ hechas = [p \in Procesos |-> <<>>]

\* What was typed is not a request.
Rechazar(p) ==
  /\ p \in nuevos
  /\ nuevos' = nuevos \ {p}
  /\ UNCHANGED <<cola, ejecutando, turno, hechas>>

Llegar(p) ==
  /\ p \in nuevos
  /\ nuevos' = nuevos \ {p}
  /\ cola' = Append(cola, p)
  /\ UNCHANGED <<ejecutando, turno, hechas>>

Despachar ==
  /\ cola # <<>>
  /\ Cardinality(ejecutando) < MULTIPROCESAMIENTO
  /\ cola' = Tail(cola)
  /\ ejecutando' = ejecutando \cup {Head(cola)}
  /\ UNCHANGED <<nuevos, turno, hechas>>

\* The next line of p; after the last one p leaves its slot.
Ejecutar(p) ==
  /\ p \in ejecutando
  /\ turno[p] < QUANTUM
  /\ Len(hechas[p]) < Lineas[p]
  /\ hechas' = [hechas EXCEPT ![p] = Append(@, Len(@) + 1)]
  /\ IF Len(hechas[p]) + 1 = Lineas[p]
       THEN ejecutando' = ejecutando \ {p} /\ turno' = [turno EXCEPT ![p] = 0]
       ELSE UNCHANGED ejecutando /\ turno' = [turno EXCEPT ![p] = @ + 1]
  /\ UNCHANGED <<nuevos, cola>>

\* The next line of p fails, and nothing else of p is executed.
Abortar(p) ==
  /\ p \in ejecutando
  /\ turno[p] < QUANTUM
  /\ ejecutando' = ejecutando \ {p}
  /\ turno' = [turno EXCEPT ![p] = 0]
  /\ UNCHANGED <<nuevos, cola, hechas>>

Volver(p) ==
  /\ p \in ejecutando
  /\ turno[p] = QUANTUM
  /\ Len(hechas[p]) < Lineas[p]
  /\ ejecutando' = ejecutando \ {p}
  /\ cola' = Append(cola, p)
  /\ turno' = [turno EXCEPT ![p] = 0]
  /\ UNCHANGED <<nuevos, hechas>>

Next ==
  \/ Despachar
  \/ \E p \in Procesos :
       Rechazar(p) \/ Llegar(p) \/ Ejecutar(p) \/ Abortar(p) \/ Volver(p)

Spec == Init /\ [][Next]_vars
=============================================================================
