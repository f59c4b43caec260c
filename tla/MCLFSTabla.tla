---------------------------- MODULE MCLFSTabla ----------------------------
(* Instances of LFSTabla for TLC.  Keys are numbers, because a partition is *)
(* chosen by key % PARTITIONS.                                              *)
EXTENDS LFSTabla

\* After an overlap no property of tabla_almacen claims anything, but Exclusion.
Interesa == riesgo = {}
=============================================================================
