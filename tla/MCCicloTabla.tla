---------------------------- MODULE MCCicloTabla ----------------------------
(* Instances of CicloTabla for TLC.                                        *)
EXTENDS CicloTabla, TLC

\* What follows an overlap inside ListaSem is anything: the run stops there.
ListaEntera == "enlaces" \notin riesgo

=============================================================================
