------------------------------ MODULE Almacen ------------------------------
(***************************************************************************)
(* What a table of the file system promises to its clients, whatever        *)
(* memtable, temporals, partitions and compactions there are behind it:     *)
(* the newest record of every key, never an older one afterwards, and an    *)
(* answer to a SELECT that is at least as new as every INSERT that was      *)
(* complete when the SELECT arrived.  Timestamp 0 stands for "no record".   *)
(***************************************************************************)
EXTENDS Integers

CONSTANTS
  Claves,        \* keys of the table
  MaxTimestamp,  \* bound: timestamps are 1..MaxTimestamp
  Red            \* SELECT requests, one thread each

VARIABLES
  registro,      \* timestamp of the newest record of each key
  pedido         \* what each SELECT asked for, or was answered

vars == <<registro, pedido>>

Sellos == 0..MaxTimestamp

SinPedir == [fase |-> "libre"]
Pedido ==
  {SinPedir}
    \cup [fase: {"pendiente"}, key: Claves, desde: Sellos]
    \cup [fase: {"fin"}, key: Claves, timestamp: Sellos]

Init ==
  /\ registro = [k \in Claves |-> 0]
  /\ pedido = [l \in Red |-> SinPedir]

\* A write is kept unless a newer one is there.
Insertar(k, ts) ==
  /\ registro' = [registro EXCEPT ![k] = IF ts > registro[k] THEN ts ELSE registro[k]]
  /\ UNCHANGED pedido

Pedir(l, k) ==
  /\ pedido[l] = SinPedir
  /\ pedido' = [pedido EXCEPT ![l] =
                  [fase |-> "pendiente", key |-> k, desde |-> registro[k]]]
  /\ UNCHANGED registro

\* The answer was the newest record at some moment of the request.
Responder(l) ==
  /\ pedido[l].fase = "pendiente"
  /\ \E ts \in pedido[l].desde..registro[pedido[l].key] :
       pedido' = [pedido EXCEPT ![l] =
                    [fase |-> "fin", key |-> pedido[l].key, timestamp |-> ts]]
  /\ UNCHANGED registro

Next ==
  \/ \E k \in Claves, ts \in 1..MaxTimestamp : Insertar(k, ts)
  \/ \E l \in Red, k \in Claves : Pedir(l, k)
  \/ \E l \in Red : Responder(l)

Spec == Init /\ [][Next]_vars
=============================================================================
