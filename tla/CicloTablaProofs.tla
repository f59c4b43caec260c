-------------------------- MODULE CicloTablaProofs --------------------------
(***************************************************************************)
(* What is proved of CicloTabla, for any tables, clients and bounds: every *)
(* invariant the runs check.  The types; that what is in memory has a      *)
(* table; that a table has one reader or one compaction; that no directory *)
(* stays hollow; that ListaSem has a semaphore for each thread; and, with  *)
(* all of them, that no lookup fails and no file is missing.               *)
(*                                                                         *)
(* The argument for one reader: while no semaphore in use is destroyed and *)
(* the list is not started again, the first element of a name stays the    *)
(* first for as long as somebody has its address, although CREATE appends  *)
(* others of that name behind it.  So all who wait for or hold a semaphore *)
(* of a table have the same address, SELECT posts by name what it took by  *)
(* name, and whoever holds it finds it at zero.                            *)
(*                                                                         *)
(* The argument for the files: while nothing overlaps a CREATE or a DROP,  *)
(* a directory lacks a file only while one client or thread writes it, and *)
(* that one is alone on the table or has its semaphore (Vida).  A table    *)
(* with metadata has a thread that has not given up, or a CREATE that will *)
(* start one, and the list counts as many semaphores of a name as threads  *)
(* are left to remove them (ConDueno, Contados).                           *)
(*                                                                         *)
(* The argument for the waits: a semaphore of the list that is at zero is  *)
(* held by a SELECT or by a compaction (CerosConDueno), whoever waits has  *)
(* the address of one of the list (Firmes), semaforoTabla at zero is of a  *)
(* thread that replaces a .bin, and SemaforoMemtable of a DROP.            *)
(***************************************************************************)
EXTENDS CicloTabla, WellFoundedInduction, FiniteSetTheorems, TLAPS

-----------------------------------------------------------------------------
(* The inductive invariant.                                                *)

LugaresCliente ==
  {"libre", "create_anota", "select_inexistente"} \cup Altas \cup Bajas \cup Usos
LugaresHilo == {"no", "duerme", "indice", "saca", "olvida", "fin"} \cup Compactando

\* Where a client has the address of a semaphore of the table it uses, or of the one
\* it creates; and where a thread has.
Creando == {"create_hilo", "create_anota"}
Esperando == {"select_tabla", "consola_tabla", "select_espera", "drop_espera"}
Leyendo == {"select_lee", "select_memtable", "select_postea"}
ConPuntero == Creando \cup Esperando \cup Leyendo
Trabajando == {"renombra", "une", "borra_bin", "escribe_bin", "suelta"}

\* Addresses are of semaphores that have been created, each of a table.
Direcciones ==
  /\ \A c \in Clientes : /\ pc[c] # "libre" => tabla[c] \in Tablas
                         /\ puntero[c] \in 0..usados
                         /\ puntero[c] # NULL <=> pc[c] \in ConPuntero
  /\ \A g \in Numeros : /\ punteroHilo[g] \in 0..usados
                        /\ g > usados => hilo[g] = "no" /\ punteroHilo[g] = NULL
                        /\ g <= usados => tablaDe[g] \in Tablas
                        /\ hilo[g] \in Trabajando \cup {"espera"} => punteroHilo[g] # NULL

\* Every CREATE on its way has a semaphore left.
Creadores == {c \in Clientes : pc[c] \in Altas}
Alcanza == usados + Cardinality(Creadores) <= MaxSemaforos

\* A thread without the .bin has semaforoTabla at zero, and nobody shares it.
SinBin ==
  /\ \A g \in Numeros : hilo[g] = "escribe_bin" => semaforoTabla[punteroHilo[g]] = 0
  /\ \A g, h \in Numeros :
       hilo[g] = "escribe_bin" /\ hilo[h] = "escribe_bin" /\ punteroHilo[g] = punteroHilo[h]
         => g = h

Tipos == TypeOK /\ Direcciones /\ Alcanza /\ SinBin

\* A table that is not there has no files; a DROP that deletes holds SemaforoMemtable.
Borrando == Bajas \ {"drop_memtable"}
Archivos ==
  /\ \A t \in Tablas : t \notin carpetas => archivos[t] = {}
  /\ \A c \in Clientes : pc[c] \in Borrando => SemaforoMemtable = 0 /\ tabla[c] \notin memTable
  /\ \A c, d \in Clientes : pc[c] \in Borrando /\ pc[d] \in Borrando => c = d

\* Whoever has an address of a table has that of the first of its name.
Firmes ==
  /\ \A c \in Clientes :
       pc[c] \in Esperando \cup Leyendo => puntero[c] = list_find(tabla[c])
  /\ \A g \in Numeros : punteroHilo[g] # NULL => punteroHilo[g] = list_find(tablaDe[g])

\* A semaphore is at zero for whoever holds it, and only one does.
Tomados ==
  /\ \A s \in Numeros : semaforoCompactacion[s] \in 0..1
  /\ \A c \in Clientes : pc[c] \in Leyendo => semaforoCompactacion[puntero[c]] = 0
  /\ \A g \in Numeros : hilo[g] \in Trabajando => semaforoCompactacion[punteroHilo[g]] = 0
  /\ \A c, d \in Clientes :
       pc[c] \in Leyendo /\ pc[d] \in Leyendo /\ puntero[c] = puntero[d] => c = d
  /\ \A g, h \in Numeros :
       hilo[g] \in Trabajando /\ hilo[h] \in Trabajando /\ punteroHilo[g] = punteroHilo[h]
         => g = h
  /\ \A c \in Clientes, g \in Numeros :
       pc[c] \in Leyendo /\ hilo[g] \in Trabajando => puntero[c] # punteroHilo[g]

Limpio == riesgo \cap {"inexistente", "liberado", "lista", "enlaces"} = {}

-----------------------------------------------------------------------------
(* Types.                                                                  *)

LEMMA Constantes == MaxSemaforos \in Nat /\ Numeros = 1..MaxSemaforos /\ NULL = 0
  BY ConstantesCiclo DEF Numeros, NULL

\* The set of CREATEs on their way, when one client moves.
LEMMA AlcanzaIgual ==
  ASSUME TypeOK, Alcanza, NEW c \in Clientes, NEW lugar, Va(c, lugar),
         pc[c] \in Altas <=> lugar \in Altas, usados' = usados
  PROVE  Alcanza'
<1>1. Creadores' = Creadores
  BY DEF Creadores, Va, TypeOK
<1> QED
  BY <1>1 DEF Alcanza

LEMMA CreadoresFinito ==
  IsFiniteSet(Creadores) /\ Cardinality(Creadores) \in Nat
<1>1. Creadores \in SUBSET Clientes /\ IsFiniteSet(Clientes)
  BY ConstantesCiclo DEF Creadores
<1> QED
  BY <1>1, FS_Subset, FS_CardinalityType

\* A CREATE that starts takes one of those left.
LEMMA AlcanzaCREATE ==
  ASSUME TypeOK, NEW c \in Clientes, NEW t \in Tablas, CREATE(c, t)
  PROVE  Alcanza'
<1>1. usados' = usados /\ usados \in Nat /\ MaxSemaforos \in Nat
        /\ usados + Cardinality(Creadores) < MaxSemaforos
  BY Constantes DEF CREATE, Empieza, TypeOK, lista, Creadores
<1>2. Creadores' \subseteq Creadores \cup {c}
  BY DEF CREATE, Empieza, TypeOK, Creadores
<1>3. IsFiniteSet(Creadores \cup {c})
        /\ Cardinality(Creadores \cup {c}) \in Nat
        /\ Cardinality(Creadores \cup {c}) <= Cardinality(Creadores) + 1
  BY CreadoresFinito, FS_AddElement, SMTT(30)
<1>4. Cardinality(Creadores') <= Cardinality(Creadores \cup {c})
        /\ Cardinality(Creadores') \in Nat
  BY <1>2, <1>3, FS_Subset, FS_CardinalityType
<1> QED
  BY <1>1, <1>3, <1>4, CreadoresFinito DEF Alcanza

\* A CREATE that has its semaphore is not on its way any more.
LEMMA AlcanzaSemaforo ==
  ASSUME TypeOK, Alcanza, NEW c \in Clientes, crearSemaforo(c)
  PROVE  Alcanza' /\ usados' = usados + 1 /\ usados' \in Numeros /\ usados \in Nat
<1>1. usados' = usados + 1 /\ usados \in Nat /\ MaxSemaforos \in Nat
  BY Constantes DEF crearSemaforo, TypeOK
<1>2. c \in Creadores /\ Creadores' = Creadores \ {c}
  BY DEF crearSemaforo, TypeOK, Creadores, Va, Altas, En
<1>3. Cardinality(Creadores') = Cardinality(Creadores) - 1
  BY <1>2, CreadoresFinito, FS_RemoveElement
<1>4. Cardinality(Creadores) >= 1
  BY <1>2, CreadoresFinito, FS_EmptySet
<1> QED
  BY <1>1, <1>3, <1>4, CreadoresFinito, Constantes DEF Alcanza

\* The parts of TypeOK, one for each group of variables that changes by itself.
TipoDisco ==
  /\ carpetas \subseteq Tablas
  /\ archivos \in [Tablas -> SUBSET {"metadata", "bin", "tmp", "tmpc"}]
TipoMemoria == memTable \subseteq Tablas /\ SemaforoMemtable \in 0..1
TipoLista ==
  /\ ListaSem \in Seq(1..usados) /\ usados \in 0..MaxSemaforos
  /\ TablasCompactacion \subseteq Tablas
  /\ tablaDe \in [Numeros -> Tablas \cup {Nadie}]
TipoSemaforos ==
  semaforoCompactacion \in [Numeros -> Nat] /\ semaforoTabla \in [Numeros -> 0..1]
TipoClientes ==
  /\ pc \in [Clientes -> LugaresCliente]
  /\ tabla \in [Clientes -> Tablas \cup {Nadie}]
  /\ puntero \in [Clientes -> {NULL} \cup Numeros]
TipoHilos ==
  hilo \in [Numeros -> LugaresHilo] /\ punteroHilo \in [Numeros -> {NULL} \cup Numeros]
Sucesos == {"solapa", "inexistente", "liberado", "lista", "memtable", "resto", "enlaces",
            "consola"}
TipoResto ==
  /\ volcador \in {"duerme", "vuelca"} /\ viva \in BOOLEAN /\ pedidos \in 0..MaxPedidos
  /\ riesgo \subseteq Sucesos

LEMMA Partes ==
  /\ TypeOK <=> /\ TipoDisco /\ TipoMemoria /\ TipoLista /\ TipoSemaforos /\ TipoClientes
                /\ TipoHilos /\ TipoResto
  /\ TypeOK' <=> /\ TipoDisco' /\ TipoMemoria' /\ TipoLista' /\ TipoSemaforos'
                 /\ TipoClientes' /\ TipoHilos' /\ TipoResto'
  BY DEF TypeOK, TipoDisco, TipoMemoria, TipoLista, TipoSemaforos, TipoClientes, TipoHilos,
         TipoResto, LugaresCliente, LugaresHilo, Sucesos

LEMMA Quietos ==
  ASSUME Tipos
  PROVE  /\ UNCHANGED disco => TipoDisco'
         /\ UNCHANGED memoria => TipoMemoria'
         /\ UNCHANGED lista => TipoLista'
         /\ UNCHANGED semaforos => TipoSemaforos'
         /\ UNCHANGED clientes => TipoClientes'
         /\ UNCHANGED hilos => TipoHilos'
         /\ UNCHANGED <<lista, clientes, hilos>> => Direcciones' /\ Alcanza'
         /\ UNCHANGED <<lista, clientes>> => Alcanza'
         /\ UNCHANGED <<hilos, semaforoTabla>> => SinBin'
<1>1. /\ TipoDisco /\ TipoMemoria /\ TipoLista /\ TipoSemaforos /\ TipoClientes /\ TipoHilos
      /\ Direcciones /\ Alcanza /\ SinBin
  BY Partes DEF Tipos
<1>2. /\ UNCHANGED disco => TipoDisco'
      /\ UNCHANGED memoria => TipoMemoria'
      /\ UNCHANGED clientes => TipoClientes'
      /\ UNCHANGED hilos => TipoHilos'
  BY <1>1 DEF disco, memoria, clientes, hilos, TipoDisco, TipoMemoria, TipoClientes, TipoHilos
<1>3. UNCHANGED lista => TipoLista'
  BY <1>1 DEF lista, TipoLista
<1>4. UNCHANGED semaforos => TipoSemaforos'
  BY <1>1 DEF semaforos, TipoSemaforos
<1>5. UNCHANGED <<lista, clientes, hilos>> => Direcciones'
  BY <1>1 DEF lista, clientes, hilos, Direcciones
<1>6. UNCHANGED <<lista, clientes>> => Alcanza'
  BY <1>1 DEF lista, clientes, Alcanza, Creadores
<1>7. UNCHANGED <<hilos, semaforoTabla>> => SinBin'
  BY <1>1 DEF hilos, SinBin
<1> QED
  BY <1>2, <1>3, <1>4, <1>5, <1>6, <1>7

LEMMA RecuerdaTipo ==
  ASSUME TypeOK, NEW S \in SUBSET Sucesos, Recuerda(S)
  PROVE  riesgo' \subseteq Sucesos /\ riesgo \subseteq riesgo' /\ S \subseteq riesgo'
<1>1. riesgo' = riesgo \cup S \cup Ocurre
  BY DEF Recuerda
<1>2. Ocurre \subseteq Sucesos
  BY DEF Sucesos, Ocurre
<1>3. riesgo \subseteq Sucesos
  BY DEF TypeOK, Sucesos
<1> QED
  BY <1>1, <1>2, <1>3

LEMMA AnotaTipo ==
  ASSUME TypeOK, NEW S \in SUBSET Sucesos, Anota(S),
         volcador' \in {"duerme", "vuelca"}, viva' \in BOOLEAN
  PROVE  TipoResto' /\ riesgo \subseteq riesgo' /\ S \subseteq riesgo'
  BY RecuerdaTipo, Partes DEF Anota, TipoResto

\* A client moves with what it has.
LEMMA TipoCliente ==
  ASSUME Tipos, NEW c \in Clientes, NEW lugar \in LugaresCliente,
         pc' = [pc EXCEPT ![c] = lugar],
         NEW t \in Tablas \cup {Nadie}, tabla' = [tabla EXCEPT ![c] = t],
         lugar # "libre" => t \in Tablas,
         NEW p \in 0..usados', puntero' = [puntero EXCEPT ![c] = p],
         p # NULL <=> lugar \in ConPuntero,
         usados' \in {usados, usados + 1}, usados' \in 0..MaxSemaforos
  PROVE  /\ TipoClientes'
         /\ \A d \in Clientes : /\ pc'[d] # "libre" => tabla'[d] \in Tablas
                                /\ puntero'[d] \in 0..usados'
                                /\ puntero'[d] # NULL <=> pc'[d] \in ConPuntero
<1>1. TipoClientes' 
  BY Partes, Constantes DEF Tipos, TipoClientes
<1>2. ASSUME NEW d \in Clientes
      PROVE  /\ pc'[d] # "libre" => tabla'[d] \in Tablas
             /\ puntero'[d] \in 0..usados'
             /\ puntero'[d] # NULL <=> pc'[d] \in ConPuntero
  BY Partes, Constantes DEF Tipos, TipoClientes, TipoLista, Direcciones
<1> QED
  BY <1>1, <1>2

-----------------------------------------------------------------------------
(* The list of semaphores.                                                 *)

\* What list_find gives, for any list and any names.
Halla(q, nombre, t) ==
  LET P == {i \in 1..Len(q) : nombre[q[i]] = t}
  IN  IF P = {} THEN NULL ELSE q[CHOOSE i \in P : \A j \in P : i <= j]

LEMMA HallaEsListFind ==
  ASSUME NEW t
  PROVE  /\ list_find(t) = Halla(ListaSem, tablaDe, t)
         /\ list_find(t)' = Halla(ListaSem', tablaDe', t)
  BY DEF list_find, Halla, Primera, Posiciones

\* Positions are naturals, so there is a first one.
LEMMA HayPrimera ==
  ASSUME NEW P \in SUBSET Nat, P # {}
  PROVE  /\ (CHOOSE i \in P : \A j \in P : i <= j) \in P
         /\ \A k \in P : (CHOOSE i \in P : \A j \in P : i <= j) <= k
<1>1. PICK i \in P : \A j \in P : <<j, i>> \notin OpToRel(<, Nat)
  BY NatLessThanWellFounded, WFMin
<1>2. ASSUME NEW j \in P PROVE i <= j
  <2>1. i \in Nat /\ j \in Nat
    BY <1>1
  <2>2. ~(j < i)
    BY <1>1, <2>1 DEF OpToRel
  <2> QED
    BY <2>1, <2>2
<1>3. \E k \in P : \A j \in P : k <= j
  BY <1>2
<1> QED
  BY <1>3, Zenon

\* The first position of a name, or none.
EsPrimera(q, nombre, t, i) ==
  i \in 1..Len(q) /\ nombre[q[i]] = t /\ \A j \in 1..(i - 1) : nombre[q[j]] # t
Ausente(q, nombre, t) == \A j \in 1..Len(q) : nombre[q[j]] # t

LEMMA HallaPrimero ==
  ASSUME NEW S, NEW q \in Seq(S), NEW nombre, NEW t, NEW i, EsPrimera(q, nombre, t, i)
  PROVE  Halla(q, nombre, t) = q[i]
<1> DEFINE P == {k \in 1..Len(q) : nombre[q[k]] = t}
           p == CHOOSE k \in P : \A j \in P : k <= j
<1>1. i \in P /\ P \in SUBSET Nat /\ i \in 1..Len(q) /\ \A j \in 1..(i - 1) : j \notin P
  BY DEF EsPrimera
<1>2. p \in P /\ \A j \in P : p <= j
  <2> HIDE DEF P
  <2> QED
    BY <1>1, HayPrimera
<1>3. p = i
  <2>1. p \in 1..Len(q) /\ p <= i /\ p \notin 1..(i - 1)
    BY <1>1, <1>2
  <2> HIDE DEF p
  <2> QED
    BY <2>1, <1>1
<1>4. P # {} => Halla(q, nombre, t) = q[p]
  BY DEF Halla
<1> QED
  BY <1>1, <1>3, <1>4

LEMMA HallaNinguno ==
  ASSUME NEW q, NEW nombre, NEW t, Ausente(q, nombre, t)
  PROVE  Halla(q, nombre, t) = NULL
  BY DEF Halla, Ausente

LEMMA HallaDonde ==
  ASSUME NEW S, NEW q \in Seq(S), NEW nombre, NEW t
  PROVE  Ausente(q, nombre, t) \/ \E i \in 1..Len(q) : EsPrimera(q, nombre, t, i)
<1> DEFINE P == {k \in 1..Len(q) : nombre[q[k]] = t}
<1>1. CASE P = {}
  BY <1>1 DEF Ausente
<1>2. CASE P # {}
  <2> DEFINE p == CHOOSE k \in P : \A j \in P : k <= j
  <2>1. P \in SUBSET Nat
    OBVIOUS
  <2>2. p \in P /\ \A j \in P : p <= j
    <3> HIDE DEF P
    <3> QED
      BY <1>2, <2>1, HayPrimera
  <2>3. \A j \in 1..(p - 1) : nombre[q[j]] # t
    <3> SUFFICES ASSUME NEW j \in 1..(p - 1), nombre[q[j]] = t PROVE FALSE
      OBVIOUS
    <3>1. j \in P /\ p \in 1..Len(q) /\ j \in Nat /\ p \in Nat /\ j < p
      BY <2>2
    <3>2. p <= j
      BY <3>1, <2>2
    <3> HIDE DEF p
    <3> QED
      BY <3>1, <3>2
  <2>4. p \in 1..Len(q) /\ nombre[q[p]] = t
    BY <2>2
  <2> HIDE DEF p
  <2> QED
    BY <2>3, <2>4 DEF EsPrimera
<1> QED
  BY <1>1, <1>2

LEMMA HallaTipo ==
  ASSUME Tipos, NEW t
  PROVE  /\ list_find(t) \in 0..usados /\ list_find(t) \in {NULL} \cup Numeros
         /\ list_find(t) # NULL => tablaDe[list_find(t)] = t
<1>1. ListaSem \in Seq(1..usados) /\ usados \in 0..MaxSemaforos
  BY Partes DEF Tipos, TipoLista
<1>2. CASE Ausente(ListaSem, tablaDe, t)
  BY <1>1, <1>2, HallaNinguno, HallaEsListFind, Constantes
<1>3. CASE \E i \in 1..Len(ListaSem) : EsPrimera(ListaSem, tablaDe, t, i)
  <2>1. PICK i \in 1..Len(ListaSem) : EsPrimera(ListaSem, tablaDe, t, i)
    BY <1>3
  <2>2. list_find(t) = ListaSem[i]
    BY <1>1, <2>1, HallaPrimero, HallaEsListFind
  <2>3. ListaSem[i] \in 1..usados /\ tablaDe[ListaSem[i]] = t
    BY <1>1, <2>1 DEF EsPrimera
  <2> QED
    BY <1>1, <2>2, <2>3, Constantes
<1> QED
  BY <1>1, <1>2, <1>3, HallaDonde

\* crearSemaforo appends: who had a first element keeps it.
Coinciden(f, h, S) == \A x \in S : f[x] = h[x]

LEMMA HallaAlAgregar ==
  ASSUME NEW S, NEW q \in Seq(S), NEW nombre, NEW nombre2, NEW s, NEW t,
         Coinciden(nombre2, nombre, S),
         Halla(q, nombre, t) # NULL
  PROVE  Halla(Append(q, s), nombre2, t) = Halla(q, nombre, t)
<1>1. PICK i \in 1..Len(q) : EsPrimera(q, nombre, t, i)
  BY HallaDonde, HallaNinguno
<1> DEFINE r == Append(q, s)
<1>2. /\ r \in Seq(S \cup {s}) /\ Len(r) = Len(q) + 1 /\ Len(q) \in Nat
      /\ \A j \in 1..Len(q) : r[j] = q[j] /\ q[j] \in S
  OBVIOUS
<1> HIDE DEF r
<1>3. \A j \in 1..Len(q) : nombre2[r[j]] = nombre[q[j]]
  BY <1>2 DEF Coinciden
<1>4. EsPrimera(r, nombre2, t, i)
  <2>1. \A j \in 1..(i - 1) : j \in 1..Len(q)
    BY <1>2
  <2> QED
    BY <2>1, <1>1, <1>2, <1>3 DEF EsPrimera
<1>5. Halla(r, nombre2, t) = r[i] /\ Halla(q, nombre, t) = q[i]
  BY <1>1, <1>2, <1>4, HallaPrimero
<1> QED
  BY <1>2, <1>5 DEF r

\* list_remove of the element of position p: the other names keep their first element.
Quitada(q, p, r) ==
  /\ Len(r) = Len(q) - 1
  /\ \A i \in 1..Len(r) : r[i] = IF i < p THEN q[i] ELSE q[i + 1]

LEMMA HallaAlQuitar ==
  ASSUME NEW S, NEW q \in Seq(S), NEW nombre, NEW p \in 1..Len(q), NEW u, nombre[q[p]] # u,
         NEW r \in Seq(S), Quitada(q, p, r)
  PROVE  Halla(r, nombre, u) = Halla(q, nombre, u)
<1>1. Len(q) \in Nat /\ Len(q) >= 1 /\ Len(r) = Len(q) - 1
  BY DEF Quitada
<1>2. \A i \in 1..Len(r) : r[i] = IF i < p THEN q[i] ELSE q[i + 1]
  BY DEF Quitada
<1>3. CASE Ausente(q, nombre, u)
  <2>1. Ausente(r, nombre, u)
    <3> SUFFICES ASSUME NEW j \in 1..Len(r) PROVE nombre[r[j]] # u
      BY DEF Ausente
    <3>1. j \in 1..Len(q) /\ j + 1 \in 1..Len(q)
      BY <1>1
    <3> QED
      BY <3>1, <1>2, <1>3 DEF Ausente
  <2> QED
    BY <2>1, <1>3, HallaNinguno
<1>4. CASE \E i \in 1..Len(q) : EsPrimera(q, nombre, u, i)
  <2>1. PICK i \in 1..Len(q) : EsPrimera(q, nombre, u, i)
    BY <1>4
  <2>2. i # p
    BY <2>1 DEF EsPrimera
  <2> DEFINE k == IF i < p THEN i ELSE i - 1
  <2>3. k \in 1..Len(r) /\ (IF k < p THEN k ELSE k + 1) = i
    BY <2>2, <1>1
  <2>4. r[k] = q[i]
    <3> HIDE DEF k
    <3> QED
      BY <2>3, <1>2
  <2>5. ASSUME NEW j \in 1..(k - 1) PROVE nombre[r[j]] # u
    <3> DEFINE m == IF j < p THEN j ELSE j + 1
    <3>1. m \in 1..(i - 1) /\ j \in 1..Len(r)
      BY <2>2, <2>3, <1>1
    <3>2. r[j] = q[m]
      BY <1>2, <3>1
    <3> QED
      BY <3>1, <3>2, <2>1 DEF EsPrimera
  <2>6. EsPrimera(r, nombre, u, k)
    <3> HIDE DEF k
    <3> QED
      BY <2>1, <2>3, <2>4, <2>5 DEF EsPrimera
  <2>7. Halla(r, nombre, u) = r[k] /\ Halla(q, nombre, u) = q[i]
    <3> HIDE DEF k
    <3> QED
      BY <2>1, <2>6, HallaPrimero
  <2> QED
    BY <2>4, <2>7
<1> QED
  BY <1>3, <1>4, HallaDonde

LEMMA SinTipo ==
  ASSUME Tipos, NEW p \in 1..Len(ListaSem)
  PROVE  Sin(p) \in Seq(1..usados) /\ Quitada(ListaSem, p, Sin(p))
<1> DEFINE S == 1..usados
           q == ListaSem
           r == [i \in 1..(Len(q) - 1) |-> IF i < p THEN q[i] ELSE q[i + 1]]
<1>1. q \in Seq(S) /\ p \in 1..Len(q) /\ Sin(p) = r
  BY Partes DEF Tipos, TipoLista, Sin
<1> HIDE DEF q, S
<1>2. Len(q) \in Nat /\ Len(q) >= 1 /\ \A j \in 1..Len(q) : q[j] \in S
  BY <1>1
<1>3. \A i \in 1..(Len(q) - 1) : i \in 1..Len(q) /\ i + 1 \in 1..Len(q)
  BY <1>2
<1>4. r \in Seq(S) /\ Quitada(q, p, r)
  BY <1>1, <1>2, <1>3 DEF Quitada
<1> QED
  BY <1>1, <1>4 DEF q, S

LEMMA PrimeraDonde ==
  ASSUME Tipos, NEW t, list_find(t) # NULL
  PROVE  /\ Primera(t) \in 1..Len(ListaSem) /\ tablaDe[ListaSem[Primera(t)]] = t
         /\ ListaSem[Primera(t)] = list_find(t)
<1>1. ListaSem \in Seq(1..usados) /\ usados \in Nat
  BY Partes, Constantes DEF Tipos, TipoLista
<1>2. Posiciones(t) # {} /\ Posiciones(t) \in SUBSET Nat
  BY <1>1 DEF list_find, Posiciones
<1>3. Primera(t) \in Posiciones(t)
  BY <1>2, HayPrimera DEF Primera
<1> QED
  BY <1>2, <1>3 DEF Posiciones, list_find

LEMMA HallaAlSacar ==
  ASSUME Tipos, NEW t, list_find(t) # NULL
  PROVE  /\ SinPrimera(t) \in Seq(1..usados)
         /\ \A u : u # t => Halla(SinPrimera(t), tablaDe, u) = list_find(u)
<1>1. ListaSem \in Seq(1..usados) /\ usados \in Nat
  BY Partes, Constantes DEF Tipos, TipoLista
<1>2. Primera(t) \in 1..Len(ListaSem) /\ tablaDe[ListaSem[Primera(t)]] = t
  BY PrimeraDonde
<1> DEFINE S == 1..usados
           p == Primera(t)
           q == ListaSem
           r == Sin(p)
<1>3. SinPrimera(t) = r /\ p \in 1..Len(q) /\ tablaDe[q[p]] = t /\ q \in Seq(S)
  BY <1>1, <1>2 DEF SinPrimera
<1>4. r \in Seq(S) /\ Quitada(q, p, r)
  BY <1>3, SinTipo
<1> HIDE DEF p, q, S, r
<1>5. ASSUME NEW u, u # t PROVE Halla(r, tablaDe, u) = Halla(q, tablaDe, u)
  <2>1. tablaDe[q[p]] # u
    BY <1>3, <1>5
  <2> QED
    BY <1>3, <1>4, <2>1, HallaAlQuitar
<1> QED
  BY <1>3, <1>4, <1>5, HallaEsListFind DEF q, S

-----------------------------------------------------------------------------
(* Every action keeps the types.                                           *)

LEMMA ClienteMueve ==
  ASSUME Tipos, NEW c \in Clientes, NEW lugar \in LugaresCliente, Va(c, lugar),
         NEW t \in Tablas \cup {Nadie}, tabla' = [tabla EXCEPT ![c] = t],
         lugar # "libre" => t \in Tablas,
         NEW p \in 0..usados, puntero' = [puntero EXCEPT ![c] = p],
         p # NULL <=> lugar \in ConPuntero,
         pc[c] \in Altas <=> lugar \in Altas,
         usados' = usados, tablaDe' = tablaDe, UNCHANGED hilos
  PROVE  TipoClientes' /\ Direcciones' /\ Alcanza'
<1>1. usados' \in {usados, usados + 1} /\ usados' \in 0..MaxSemaforos /\ p \in 0..usados'
  BY Partes DEF Tipos, TipoLista
<1>2. /\ TipoClientes'
      /\ \A d \in Clientes : /\ pc'[d] # "libre" => tabla'[d] \in Tablas
                             /\ puntero'[d] \in 0..usados'
                             /\ puntero'[d] # NULL <=> pc'[d] \in ConPuntero
  BY <1>1, TipoCliente DEF Va
<1>3. Direcciones'
  BY <1>2 DEF Tipos, Direcciones, hilos
<1> QED
  BY <1>2, <1>3, AlcanzaIgual DEF Tipos

LEMMA ClienteSigue ==
  ASSUME Tipos, NEW c \in Clientes, NEW lugar \in LugaresCliente, lugar # "libre",
         pc[c] # "libre", Sigue(c, lugar),
         pc[c] \in ConPuntero <=> lugar \in ConPuntero,
         pc[c] \in Altas <=> lugar \in Altas,
         usados' = usados, tablaDe' = tablaDe, UNCHANGED hilos
  PROVE  TipoClientes' /\ Direcciones' /\ Alcanza'
<1>1. tabla[c] \in Tablas /\ puntero[c] \in 0..usados /\ (puntero[c] # NULL <=> pc[c] \in ConPuntero)
  BY DEF Tipos, Direcciones
<1>2. tabla' = [tabla EXCEPT ![c] = tabla[c]] /\ puntero' = [puntero EXCEPT ![c] = puntero[c]]
  BY Partes DEF Sigue, Tipos, TipoClientes
<1>3. Va(c, lugar)
  BY DEF Sigue
<1> QED
  BY <1>1, <1>2, <1>3, ClienteMueve

LEMMA ClienteTermina ==
  ASSUME Tipos, NEW c \in Clientes, Termina(c), pc[c] \notin Altas,
         usados' = usados, tablaDe' = tablaDe, UNCHANGED hilos
  PROVE  TipoClientes' /\ Direcciones' /\ Alcanza'
<1>1. "libre" \in LugaresCliente /\ "libre" \notin ConPuntero /\ "libre" \notin Altas
  BY DEF LugaresCliente, ConPuntero, Creando, Esperando, Leyendo, Altas
<1>2. NULL \in 0..usados
  BY Partes, Constantes DEF Tipos, TipoLista
<1>3. Va(c, "libre") /\ tabla' = [tabla EXCEPT ![c] = Nadie]
        /\ puntero' = [puntero EXCEPT ![c] = NULL]
  BY DEF Termina
<1>4. Nadie \in Tablas \cup {Nadie}
  OBVIOUS
<1> QED
  BY <1>1, <1>2, <1>3, <1>4, ClienteMueve

LEMMA TiposMuere ==
  ASSUME Tipos, Muere, NEW S \in SUBSET Sucesos, Anota(S)
  PROVE  Tipos'
<1>1. TipoResto'
  BY AnotaTipo, Partes DEF Tipos, TipoResto, Muere
<1>2. UNCHANGED <<disco, memoria, lista, semaforos, clientes, hilos>>
  BY DEF Muere
<1> QED
  BY <1>1, <1>2, Quietos, Partes DEF Tipos, semaforos

LEMMA TiposEmpieza ==
  ASSUME Tipos, NEW c \in Clientes, NEW t \in Tablas,
         NEW lugar \in {"select_verifica", "select_inexistente", "insert", "describe",
                        "drop_verifica", "create_carpeta", "consola_verifica"},
         Empieza(c, t, lugar), lugar = "create_carpeta" => Alcanza'
  PROVE  Tipos'
<1>1. TipoResto'
  <2>1. pedidos' = pedidos + 1 /\ pedidos < MaxPedidos /\ MaxPedidos \in Nat
    BY ConstantesCiclo DEF Empieza
  <2>2. riesgo' \subseteq Sucesos
    BY RecuerdaTipo DEF Tipos, Empieza
  <2> QED
    BY <2>1, <2>2, Partes DEF Tipos, TipoResto, Empieza
<1>2. UNCHANGED <<disco, memoria, lista, semaforos, hilos>>
  BY DEF Empieza
<1>3. /\ lugar \in LugaresCliente /\ lugar \notin ConPuntero /\ pc[c] \notin ConPuntero
      /\ lugar # "libre" /\ (lugar # "create_carpeta" => lugar \notin Altas) /\ pc[c] \notin Altas
  BY DEF Empieza, En, LugaresCliente, ConPuntero, Creando, Esperando, Leyendo, Altas, Bajas,
         Usos, DeConsola
<1>4. puntero' = [puntero EXCEPT ![c] = NULL] /\ NULL \in 0..usados
  BY <1>3, Partes, Constantes
     DEF Empieza, Tipos, Direcciones, TipoClientes, TipoLista
<1>5. usados' = usados /\ usados' \in 0..MaxSemaforos /\ tablaDe' = tablaDe
  BY <1>2, Partes DEF Tipos, TipoLista, lista
<1>6. /\ TipoClientes'
      /\ \A d \in Clientes : /\ pc'[d] # "libre" => tabla'[d] \in Tablas
                             /\ puntero'[d] \in 0..usados'
                             /\ puntero'[d] # NULL <=> pc'[d] \in ConPuntero
  BY <1>3, <1>4, <1>5, TipoCliente DEF Empieza
<1>7. Direcciones'
  BY <1>2, <1>5, <1>6 DEF Tipos, Direcciones, hilos
<1>8. Alcanza'
  BY <1>3, <1>5, AlcanzaIgual DEF Tipos, Empieza, Va
<1> QED
  BY <1>1, <1>2, <1>6, <1>7, <1>8, Quietos, Partes DEF Tipos, semaforos

LEMMA TiposPide ==
  ASSUME Tipos, NEW c \in Clientes, Pide(c)
  PROVE  Tipos'
<1>1. PICK t \in Tablas : \/ SELECT(c, t) \/ APIselect(c, t) \/ INSERT(c, t)
                          \/ DESCRIBE(c, t) \/ DROP(c, t) \/ CREATE(c, t)
  BY DEF Pide
<1>2. CASE SELECT(c, t)
  BY <1>2, TiposEmpieza DEF SELECT
<1>7. CASE APIselect(c, t)
  BY <1>7, TiposEmpieza DEF APIselect
<1>3. CASE INSERT(c, t)
  BY <1>3, TiposEmpieza DEF INSERT
<1>4. CASE DESCRIBE(c, t)
  BY <1>4, TiposEmpieza DEF DESCRIBE
<1>5. CASE DROP(c, t)
  BY <1>5, TiposEmpieza DEF DROP
<1>6. CASE CREATE(c, t)
  <2>1. Alcanza'
    BY <1>6, AlcanzaCREATE DEF Tipos
  <2> QED
    BY <1>6, <2>1, TiposEmpieza DEF CREATE
<1> QED
  BY <1>1, <1>2, <1>3, <1>4, <1>5, <1>6, <1>7

LEMMA Lugares ==
  /\ LugaresCliente = {"libre", "create_anota", "select_inexistente", "create_carpeta",
       "create_metadata", "create_particion", "create_prueba", "create_lista",
       "create_semaforo", "drop_memtable",
       "drop_particion", "drop_temporales", "drop_metadata", "drop_carpeta",
       "select_verifica", "select_tabla", "select_busca", "select_espera", "select_lee",
       "select_memtable", "select_postea", "insert", "describe", "drop_verifica",
       "drop_espera", "create_hilo", "consola_verifica", "consola_tabla", "consola_lee",
       "consola_memtable"}
  /\ LugaresHilo = {"no", "duerme", "indice", "saca", "olvida", "fin", "arranca", "busca",
       "espera", "renombra", "une", "borra_bin", "escribe_bin", "suelta"}
  /\ Altas = {"create_carpeta", "create_metadata", "create_particion", "create_prueba",
       "create_lista", "create_semaforo"}
  /\ Borrando = {"drop_particion", "drop_temporales", "drop_metadata", "drop_carpeta"}
  /\ ConPuntero = {"create_hilo", "create_anota", "select_tabla", "consola_tabla",
                   "select_espera", "drop_espera", "select_lee", "select_memtable",
                   "select_postea"}
  /\ Trabajando = {"renombra", "une", "borra_bin", "escribe_bin", "suelta"}
  BY DEF LugaresCliente, LugaresHilo, Altas, Bajas, Usos, DeConsola, Compactando, Borrando, ConPuntero,
         Creando, Esperando, Leyendo, Trabajando

LEMMA AnotaQuieto ==
  ASSUME Tipos, NEW S \in SUBSET Sucesos, Anota(S), UNCHANGED <<volcador, viva>>
  PROVE  TipoResto'
  BY AnotaTipo, Partes DEF Tipos, TipoResto

LEMMA TiposVerificar ==
  ASSUME Tipos, NEW c \in Clientes, NEW semaforo,
         \/ verificar(c, semaforo, "select_verifica", "select_tabla", "select_busca")
         \/ verificar(c, semaforo, "drop_verifica", "drop_espera", "drop_memtable")
         \/ verificar(c, semaforo, "consola_verifica", "consola_tabla", "consola_lee")
  PROVE  Tipos'
<1>1. PICK desde \in {"select_verifica", "drop_verifica", "consola_verifica"},
           espera \in {"select_tabla", "drop_espera", "consola_tabla"},
           hasta \in {"select_busca", "drop_memtable", "consola_lee"} :
        verificar(c, semaforo, desde, espera, hasta)
  OBVIOUS
<1>2. UNCHANGED <<disco, memoria, lista, semaforos, hilos, volcador, viva>> /\ Anota({})
  BY <1>1 DEF verificar
<1>3. TipoResto'
  BY <1>2, AnotaQuieto
<1>4. usados' = usados /\ tablaDe' = tablaDe /\ UNCHANGED hilos
  BY <1>2 DEF lista
<1>5. /\ list_find(tabla[c]) \in 0..usados /\ NULL \in 0..usados
      /\ pc[c] # "libre" => tabla[c] \in Tablas /\ tabla' = [tabla EXCEPT ![c] = tabla[c]]
  BY <1>1, HallaTipo, Partes, Constantes
     DEF Tipos, Direcciones, TipoLista, TipoClientes, verificar, Sigue
<1>6. CASE En(c, desde) /\ Sigue(c, hasta)
  BY <1>4, <1>6, ClienteSigue, Lugares, <1>2, <1>3, Quietos, Partes DEF En, Tipos, semaforos
<1>7. CASE /\ En(c, desde)
           /\ list_find(tabla[c]) # NULL
           /\ Va(c, espera)
           /\ puntero' = [puntero EXCEPT ![c] = list_find(tabla[c])]
  <2>1. PICK t \in Tablas, p \in 0..usados :
          /\ tabla' = [tabla EXCEPT ![c] = t] /\ puntero' = [puntero EXCEPT ![c] = p]
          /\ p # NULL
    BY <1>5, <1>7 DEF En
  <2>2. /\ espera \in LugaresCliente /\ Va(c, espera)
        /\ t \in Tablas \cup {Nadie} /\ (espera # "libre" => t \in Tablas)
        /\ p # NULL <=> espera \in ConPuntero
        /\ pc[c] \in Altas <=> espera \in Altas
    BY <1>7, <2>1, Lugares DEF En
  <2>3. TipoClientes' /\ Direcciones' /\ Alcanza'
    BY <1>4, <2>1, <2>2, ClienteMueve, ZenonT(60)
  <2> QED
    BY <2>3, <1>2, <1>3, Quietos, Partes DEF Tipos, semaforos
<1>8. CASE En(c, espera) /\ Va(c, hasta) /\ puntero' = [puntero EXCEPT ![c] = NULL]
  <2>1. PICK t \in Tablas, p \in 0..usados :
          /\ tabla' = [tabla EXCEPT ![c] = t] /\ puntero' = [puntero EXCEPT ![c] = p]
          /\ p = NULL
    BY <1>5, <1>8, Lugares DEF En
  <2>2. /\ hasta \in LugaresCliente /\ Va(c, hasta)
        /\ t \in Tablas \cup {Nadie} /\ (hasta # "libre" => t \in Tablas)
        /\ p # NULL <=> hasta \in ConPuntero
        /\ pc[c] \in Altas <=> hasta \in Altas
    BY <1>8, <2>1, Lugares DEF En
  <2>3. TipoClientes' /\ Direcciones' /\ Alcanza'
    BY <1>4, <2>1, <2>2, ClienteMueve, ZenonT(60)
  <2> QED
    BY <2>3, <1>2, <1>3, Quietos, Partes DEF Tipos, semaforos
<1> QED
  BY <1>1, <1>6, <1>7, <1>8 DEF verificar

\* SELECT, INSERT and DESCRIBE.
LEMMA TiposUsa ==
  ASSUME Tipos, NEW c \in Clientes,
         \/ waitearSemTable(c) \/ Toma(c) \/ LeeParticion(c) \/ LeeMemtable(c)
         \/ postearSemTable(c) \/ agregarTabla(c) \/ obtenerMetadataTabla(c)
         \/ LeeParticionDesdeConsola(c) \/ LeeMemtableDesdeConsola(c)
  PROVE  Tipos'
<1>1. CASE waitearSemTable(c)
  <2>1. UNCHANGED <<disco, memoria, lista, semaforos, hilos, volcador, viva>> /\ Anota({})
    BY <1>1 DEF waitearSemTable
  <2>2. tabla' = [tabla EXCEPT ![c] = tabla[c]] /\ tabla[c] \in Tablas
    BY <1>1, Partes DEF waitearSemTable, En, Tipos, TipoClientes, Direcciones
  <2>4. /\ Va(c, "select_espera") /\ pc[c] = "select_busca"
        /\ puntero' = [puntero EXCEPT ![c] = list_find(tabla[c])] /\ list_find(tabla[c]) # NULL
        /\ UNCHANGED <<tablaDe, usados, hilos>>
    BY <1>1, <2>1 DEF waitearSemTable, En, lista
  <2>5. PICK s : s = list_find(tabla[c])
    OBVIOUS
  <2>6. s \in 0..usados /\ (s # NULL => tablaDe[s] = tabla[c])
    BY <2>4, <2>5, HallaTipo
  <2>3. TipoClientes' /\ Direcciones' /\ Alcanza'
    BY <2>2, <2>4, <2>5, <2>6, ClienteMueve, Lugares
  <2> QED
    BY <2>1, <2>3, AnotaQuieto, Quietos, Partes DEF Tipos, semaforos
<1>2. CASE Toma(c)
  <2>1. UNCHANGED <<semaforoTabla, disco, memoria, lista, hilos, volcador, viva>> /\ Anota({})
    BY <1>2 DEF Toma
  <2>2. TipoClientes' /\ Direcciones' /\ Alcanza'
    BY <1>2, <2>1, ClienteSigue, Lugares DEF Toma, En, lista
  <2>3. TipoSemaforos'
    <3>1. puntero[c] \in Numeros
      BY <1>2, Lugares, Partes DEF Toma, En, Tipos, Direcciones, TipoClientes
    <3> QED
      BY <1>2, <2>1, <3>1, Partes DEF Toma, Tipos, TipoSemaforos
  <2> QED
    BY <2>1, <2>2, <2>3, AnotaQuieto, Quietos, Partes DEF Tipos
<1>3. CASE LeeParticion(c) \/ LeeMemtable(c) \/ LeeParticionDesdeConsola(c)
  <2>1. UNCHANGED <<disco, memoria, lista, semaforos, hilos, volcador, viva>> /\ Anota({})
    BY <1>3 DEF LeeParticion, LeeMemtable, LeeParticionDesdeConsola
  <2>2. TipoClientes' /\ Direcciones' /\ Alcanza'
    BY <1>3, <2>1, ClienteSigue, Lugares
       DEF LeeParticion, LeeMemtable, LeeParticionDesdeConsola, En, lista
  <2> QED
    BY <2>1, <2>2, AnotaQuieto, Quietos, Partes DEF Tipos, semaforos
<1>4. CASE postearSemTable(c)
  <2> DEFINE S == IF pc[c] = "select_inexistente" THEN {"inexistente"} ELSE {}
  <2>1. UNCHANGED <<semaforoTabla, disco, memoria, lista, hilos, volcador, viva>> /\ Anota(S)
    BY <1>4 DEF postearSemTable
  <2>2. S \in SUBSET Sucesos
    BY DEF Sucesos
  <2> HIDE DEF S
  <2>3. TipoClientes' /\ Direcciones' /\ Alcanza'
    BY <1>4, <2>1, ClienteTermina, Lugares DEF postearSemTable, En, lista
  <2>4. TipoSemaforos'
    <3>1. list_find(tabla[c]) \in Numeros
      BY <1>4, HallaTipo, Constantes DEF postearSemTable
    <3> QED
      BY <1>4, <2>1, <3>1, Partes DEF postearSemTable, Tipos, TipoSemaforos
  <2> QED
    BY <2>1, <2>2, <2>3, <2>4, AnotaQuieto, Quietos, Partes DEF Tipos
<1>5. CASE agregarTabla(c)
  <2>1. UNCHANGED <<SemaforoMemtable, disco, lista, semaforos, hilos, volcador, viva>>
          /\ Anota({})
    BY <1>5 DEF agregarTabla
  <2>2. TipoClientes' /\ Direcciones' /\ Alcanza'
    BY <1>5, <2>1, ClienteTermina, Lugares DEF agregarTabla, En, lista
  <2>3. TipoMemoria'
    BY <1>5, <2>1, Partes DEF agregarTabla, En, Tipos, TipoMemoria, Direcciones
  <2> QED
    BY <2>1, <2>2, <2>3, AnotaQuieto, Quietos, Partes DEF Tipos, semaforos
<1>6. CASE obtenerMetadataTabla(c) \/ LeeMemtableDesdeConsola(c)
  <2>1. UNCHANGED <<disco, memoria, lista, semaforos, hilos, volcador, viva>> /\ Anota({})
    BY <1>6 DEF obtenerMetadataTabla, LeeMemtableDesdeConsola
  <2>2. TipoClientes' /\ Direcciones' /\ Alcanza'
    BY <1>6, <2>1, ClienteTermina, Lugares
       DEF obtenerMetadataTabla, LeeMemtableDesdeConsola, En, lista
  <2> QED
    BY <2>1, <2>2, AnotaQuieto, Quietos, Partes DEF Tipos, semaforos
<1> QED
  BY <1>1, <1>2, <1>3, <1>4, <1>5, <1>6

\* DROP.
LEMMA TiposBaja ==
  ASSUME Tipos, NEW c \in Clientes,
         \/ RemoverDeLaMemtable(c) \/ RemoverParticionesDeTablaYSusBloques(c)
         \/ RemoverTemporalesDeTablaYSusBloques(c) \/ RemoverMetadataDeTabla(c)
         \/ RemoverCarpetaVaciaDeTabla(c)
  PROVE  Tipos'
<1>1. CASE RemoverDeLaMemtable(c)
  <2> DEFINE S == IF volcador = "vuelca" /\ memTable' = {} THEN {"memtable"} ELSE {}
  <2>1. UNCHANGED <<disco, lista, semaforos, hilos, volcador, viva>> /\ Anota(S)
    BY <1>1 DEF RemoverDeLaMemtable
  <2>2. S \in SUBSET Sucesos
    BY DEF Sucesos
  <2> HIDE DEF S
  <2>3. TipoClientes' /\ Direcciones' /\ Alcanza'
    BY <1>1, <2>1, ClienteSigue, Lugares DEF RemoverDeLaMemtable, En, lista
  <2>4. TipoMemoria'
    BY <1>1, Partes DEF RemoverDeLaMemtable, Tipos, TipoMemoria
  <2> QED
    BY <2>1, <2>2, <2>3, <2>4, AnotaQuieto, Quietos, Partes DEF Tipos, semaforos
<1>2. ASSUME NEW lugar \in Borrando, NEW F, NEW hasta \in Borrando, Borra(c, lugar, F, hasta)
      PROVE  Tipos'
  <2>1. UNCHANGED <<carpetas, memoria, lista, semaforos, hilos, volcador, viva>> /\ Anota({})
    BY <1>2 DEF Borra
  <2>2. TipoClientes' /\ Direcciones' /\ Alcanza'
    BY <1>2, <2>1, ClienteSigue, Lugares DEF Borra, En, lista
  <2>3. TipoDisco'
    BY <1>2, <2>1, Partes DEF Borra, Tipos, TipoDisco
  <2> QED
    BY <2>1, <2>2, <2>3, AnotaQuieto, Quietos, Partes DEF Tipos, semaforos
<1>3. CASE \/ RemoverParticionesDeTablaYSusBloques(c) \/ RemoverTemporalesDeTablaYSusBloques(c)
           \/ RemoverMetadataDeTabla(c)
  BY <1>2, <1>3, Lugares DEF RemoverParticionesDeTablaYSusBloques,
     RemoverTemporalesDeTablaYSusBloques, RemoverMetadataDeTabla
<1>4. CASE RemoverCarpetaVaciaDeTabla(c)
  <2> DEFINE S == IF archivos[tabla[c]] # {} THEN {"resto"} ELSE {}
  <2>1. UNCHANGED <<archivos, memTable, lista, semaforos, hilos, volcador, viva>> /\ Anota(S)
    BY <1>4 DEF RemoverCarpetaVaciaDeTabla
  <2>2. S \in SUBSET Sucesos
    BY DEF Sucesos
  <2> HIDE DEF S
  <2>3. TipoClientes' /\ Direcciones' /\ Alcanza'
    BY <1>4, <2>1, ClienteTermina, Lugares DEF RemoverCarpetaVaciaDeTabla, En, lista
  <2>4. TipoMemoria' /\ TipoDisco'
    BY <1>4, <2>1, Partes DEF RemoverCarpetaVaciaDeTabla, Tipos, TipoMemoria, TipoDisco
  <2> QED
    BY <2>1, <2>2, <2>3, <2>4, AnotaQuieto, Quietos, Partes DEF Tipos, semaforos
<1> QED
  BY <1>1, <1>3, <1>4

\* CREATE.
LEMMA TiposAlta ==
  ASSUME Tipos, NEW c \in Clientes,
         \/ crearTabla(c) \/ crearMetadataConfig(c) \/ crearParticion(c)
         \/ dictionary_is_empty(c) \/ list_create(c)
         \/ levantarHiloCompactacion(c) \/ AnotaHilo(c)
  PROVE  Tipos'
<1>1. CASE crearTabla(c)
  <2>1. UNCHANGED <<archivos, memoria, lista, semaforos, hilos, volcador, viva>> /\ Anota({})
    BY <1>1 DEF crearTabla
  <2>2. TipoClientes' /\ Direcciones' /\ Alcanza'
    BY <1>1, <2>1, ClienteSigue, Lugares DEF crearTabla, En, lista
  <2>3. TipoDisco'
    BY <1>1, <2>1, Partes DEF crearTabla, En, Tipos, TipoDisco, Direcciones
  <2> QED
    BY <2>1, <2>2, <2>3, AnotaQuieto, Quietos, Partes DEF Tipos, semaforos
<1>2. ASSUME NEW lugar \in Altas, NEW f \in {"metadata", "bin"}, NEW hasta \in Altas,
             Crea(c, lugar, f, hasta)
      PROVE  Tipos'
  <2>1. UNCHANGED <<carpetas, memoria, lista, semaforos, hilos, volcador, viva>> /\ Anota({})
    BY <1>2 DEF Crea
  <2>2. TipoClientes' /\ Direcciones' /\ Alcanza'
    BY <1>2, <2>1, ClienteSigue, Lugares DEF Crea, En, lista
  <2>3. TipoDisco'
    BY <1>2, <2>1, Partes DEF Crea, Tipos, TipoDisco
  <2> QED
    BY <2>1, <2>2, <2>3, AnotaQuieto, Quietos, Partes DEF Tipos, semaforos
<1>3. CASE crearMetadataConfig(c) \/ crearParticion(c)
  BY <1>2, <1>3, Lugares DEF crearMetadataConfig, crearParticion
<1>4. CASE levantarHiloCompactacion(c)
  <2>1. UNCHANGED <<punteroHilo, disco, memoria, lista, semaforos, volcador, viva>> /\ Anota({})
    BY <1>4 DEF levantarHiloCompactacion
  <2>2. /\ tabla[c] \in Tablas /\ tabla' = [tabla EXCEPT ![c] = tabla[c]]
        /\ puntero[c] \in 1..usados /\ puntero' = [puntero EXCEPT ![c] = puntero[c]]
        /\ usados' \in 0..MaxSemaforos /\ usados' = usados /\ tablaDe' = tablaDe
    BY <1>4, <2>1, Partes, Lugares, Constantes
       DEF levantarHiloCompactacion, Sigue, En, Tipos, Direcciones, TipoClientes, TipoLista,
           lista
  <2>3. /\ TipoClientes'
        /\ \A d \in Clientes : /\ pc'[d] # "libre" => tabla'[d] \in Tablas
                               /\ puntero'[d] \in 0..usados'
                               /\ puntero'[d] # NULL <=> pc'[d] \in ConPuntero
    <3>1. /\ pc' = [pc EXCEPT ![c] = "create_anota"] /\ "create_anota" \in LugaresCliente
          /\ "create_anota" \in ConPuntero /\ puntero[c] \in 0..usados'
          /\ puntero[c] # NULL /\ usados' \in {usados, usados + 1}
      BY <1>4, <2>2, Lugares, Constantes DEF levantarHiloCompactacion, Sigue, Va
    <3> QED
      BY <3>1, <2>2, TipoCliente
  <2>4. TipoHilos'
    BY <1>4, <2>1, Partes, Lugares
       DEF levantarHiloCompactacion, VaHilo, Tipos, TipoHilos
  <2>5. \A g \in Numeros : hilo'[g] \in {hilo[g], "arranca"} /\ (g > usados => hilo'[g] = hilo[g])
    BY <1>4, <2>2, Partes, Constantes
       DEF levantarHiloCompactacion, VaHilo, Tipos, TipoHilos, TipoLista
  <2>6. Direcciones' /\ SinBin'
    BY <2>1, <2>2, <2>3, <2>5, Lugares DEF Tipos, Direcciones, SinBin, semaforos
  <2>7. Alcanza'
    BY <1>4, <2>2, AlcanzaIgual, Lugares DEF Tipos, levantarHiloCompactacion, Sigue, En
  <2> QED
    BY <2>1, <2>3, <2>4, <2>6, <2>7, AnotaQuieto, Quietos, Partes DEF Tipos
<1>5. CASE AnotaHilo(c)
  <2>1. UNCHANGED <<ListaSem, tablaDe, usados, disco, memoria, semaforos, hilos, volcador, viva>>
          /\ Anota({})
    BY <1>5 DEF AnotaHilo
  <2>2. TipoClientes' /\ Direcciones' /\ Alcanza'
    BY <1>5, <2>1, ClienteTermina, Lugares DEF AnotaHilo, En
  <2>3. TipoLista'
    BY <1>5, <2>1, Partes DEF AnotaHilo, En, Tipos, TipoLista, Direcciones
  <2> QED
    BY <2>1, <2>2, <2>3, AnotaQuieto, Quietos, Partes DEF Tipos, semaforos
<1>6. CASE dictionary_is_empty(c)
  <2>1. UNCHANGED <<disco, memoria, lista, semaforos, hilos, volcador, viva>> /\ Anota({})
    BY <1>6 DEF dictionary_is_empty
  <2>2. PICK lugar \in {"create_lista", "create_semaforo"} : Sigue(c, lugar)
    BY <1>6 DEF dictionary_is_empty
  <2>3. TipoClientes' /\ Direcciones' /\ Alcanza'
    BY <1>6, <2>1, <2>2, ClienteSigue, Lugares DEF dictionary_is_empty, En, lista
  <2> QED
    BY <2>1, <2>3, AnotaQuieto, Quietos, Partes DEF Tipos, semaforos
<1>7. CASE list_create(c)
  <2> DEFINE S == IF ListaSem # <<>> THEN {"lista"} ELSE {}
  <2>1. UNCHANGED <<tablaDe, usados, disco, memoria, semaforos, hilos, volcador, viva>>
          /\ Anota(S)
    BY <1>7 DEF list_create
  <2>2. S \in SUBSET Sucesos
    BY DEF Sucesos
  <2> HIDE DEF S
  <2>3. TipoClientes' /\ Direcciones' /\ Alcanza'
    BY <1>7, <2>1, ClienteSigue, Lugares DEF list_create, En
  <2>4. TipoLista'
    <3>1. ListaSem' = <<>> /\ TablasCompactacion' = {}
      BY <1>7 DEF list_create
    <3>2. <<>> \in Seq(1..usados)
      OBVIOUS
    <3> QED
      BY <2>1, <3>1, <3>2, Partes DEF Tipos, TipoLista
  <2> QED
    BY <2>1, <2>2, <2>3, <2>4, AnotaQuieto, Quietos, Partes DEF Tipos, semaforos
<1> QED
  BY <1>1, <1>3, <1>4, <1>5, <1>6, <1>7

LEMMA SeqMayor ==
  ASSUME NEW S, NEW T, S \subseteq T, NEW q \in Seq(S)
  PROVE  q \in Seq(T)
<1>1. Len(q) \in Nat /\ q \in [1..Len(q) -> S]
  OBVIOUS
<1>2. q \in [1..Len(q) -> T]
  BY <1>1
<1> QED
  BY <1>1, <1>2

\* The new semaphore, its place in the list and its thread, which has not started.
LEMMA TiposSemaforo ==
  ASSUME Tipos, NEW c \in Clientes, crearSemaforo(c)
  PROVE  Tipos'
<1> DEFINE S == {}
           q == ListaSem
           n == usados + 1
<1>1. UNCHANGED <<tabla, TablasCompactacion, disco, memoria, hilos, volcador, viva>> /\ Anota(S)
  BY DEF crearSemaforo
<1>2. S \in SUBSET Sucesos
  BY DEF Sucesos
<1>3. Alcanza' /\ usados' = n /\ n \in Numeros /\ usados \in Nat /\ n \in 1..n /\ usados < n
        /\ n \in 0..MaxSemaforos
  BY AlcanzaSemaforo, Constantes DEF Tipos
<1>4. tabla[c] \in Tablas
  BY DEF crearSemaforo, En, Tipos, Direcciones
<1>5. /\ ListaSem' = Append(q, n) \/ ListaSem' = q
      /\ tablaDe' = [tablaDe EXCEPT ![n] = tabla[c]]
      /\ semaforoCompactacion' = [semaforoCompactacion EXCEPT ![n] = 1]
      /\ semaforoTabla' = [semaforoTabla EXCEPT ![n] = 1]
      /\ puntero' = [puntero EXCEPT ![c] = n] /\ pc' = [pc EXCEPT ![c] = "create_hilo"]
      /\ pc[c] = "create_semaforo"
  BY <1>3 DEF crearSemaforo, Va, En
<1>6. TipoLista'
  <2>1. q \in Seq(1..n)
    <3>1. ListaSem \in Seq(1..usados) /\ 1..usados \subseteq 1..n
      BY <1>3, Partes DEF Tipos, TipoLista
    <3> QED
      BY <3>1, SeqMayor
  <2> HIDE DEF q
  <2>2. Append(q, n) \in Seq(1..n)
    BY <2>1, <1>3
  <2>3. /\ TablasCompactacion' \subseteq Tablas
        /\ tablaDe' \in [Numeros -> Tablas \cup {Nadie}]
    BY <1>1, <1>4, <1>5, Partes DEF Tipos, TipoLista
  <2> HIDE DEF n
  <2> QED
    BY <2>1, <2>2, <2>3, <1>3, <1>5 DEF TipoLista
<1> HIDE DEF q, S, n
<1>7. TipoSemaforos'
  BY <1>3, <1>5, Partes DEF Tipos, TipoSemaforos
<1>8. /\ TipoClientes'
      /\ \A d \in Clientes : /\ pc'[d] # "libre" => tabla'[d] \in Tablas
                             /\ puntero'[d] \in 0..usados'
                             /\ puntero'[d] # NULL <=> pc'[d] \in ConPuntero
  <2>1. tabla' = [tabla EXCEPT ![c] = tabla[c]]
    BY <1>1, Partes DEF Tipos, TipoClientes
  <2>2. n \in 0..usados' /\ n # NULL /\ usados' \in {usados, usados + 1}
          /\ usados' \in 0..MaxSemaforos
    BY <1>3, Constantes DEF n
  <2> QED
    BY <1>4, <1>5, <2>1, <2>2, TipoCliente, Lugares
<1>9. Direcciones'
  <2>1. ASSUME NEW g \in Numeros
        PROVE  /\ punteroHilo'[g] \in 0..usados'
               /\ g > usados' => hilo'[g] = "no" /\ punteroHilo'[g] = NULL
               /\ g <= usados' => tablaDe'[g] \in Tablas
               /\ hilo'[g] \in Trabajando \cup {"espera"} => punteroHilo'[g] # NULL
    <3>1. g \in Nat /\ (g <= n => g <= usados \/ g = n) /\ (g > n => g > usados)
      BY <1>3, Constantes DEF n
    <3>2. \A p \in 0..usados : p \in 0..n
      BY <1>3
    <3> QED
      BY <1>1, <1>3, <1>4, <1>5, <3>1, <3>2, Partes DEF Tipos, Direcciones, TipoLista, hilos
  <2> QED
    BY <2>1, <1>8 DEF Direcciones
<1>10. SinBin'
  <2>1. \A g \in Numeros : punteroHilo[g] # n
    BY <1>3 DEF Tipos, Direcciones, n
  <2> QED
    BY <2>1, <1>1, <1>5, Partes DEF Tipos, SinBin, TipoSemaforos, hilos
<1> QED
  BY <1>1, <1>2, <1>3, <1>6, <1>7, <1>8, <1>9, <1>10, AnotaQuieto, Quietos, Partes
     DEF Tipos

LEMMA TiposAtiende ==
  ASSUME Tipos, NEW c \in Clientes, Atiende(c)
  PROVE  Tipos'
<1>1. CASE verificarSemaforoTabla(c) \/ verificarSemaforoCompactacion(c)
             \/ verificarDesdeConsola(c)
  BY <1>1, TiposVerificar
     DEF verificarSemaforoTabla, verificarSemaforoCompactacion, verificarDesdeConsola
<1>2. CASE SinSemaforo(c)
  <2> DEFINE S == IF pc[c] = "select_inexistente" THEN {"inexistente"} ELSE {}
  <2>1. S \in SUBSET Sucesos /\ Muere /\ Anota(S)
    BY <1>2 DEF Sucesos, SinSemaforo
  <2> HIDE DEF S
  <2> QED
    BY <2>1, TiposMuere
<1>3. CASE SinArchivo(c)
  <2>1. Muere /\ Anota({})
    BY <1>3 DEF SinArchivo
  <2> QED
    BY <2>1, TiposMuere
<1> QED
  BY <1>1, <1>2, <1>3, TiposUsa, TiposBaja, TiposAlta, TiposSemaforo DEF Atiende

LEMMA HiloMueve ==
  ASSUME Tipos, NEW g \in Numeros, NEW lugar \in LugaresHilo, VaHilo(g, lugar),
         hilo[g] # "no", NEW p \in 0..usados, punteroHilo' = [punteroHilo EXCEPT ![g] = p],
         lugar \in Trabajando \cup {"espera"} => p # NULL,
         usados' = usados, tablaDe' = tablaDe, UNCHANGED clientes
  PROVE  TipoHilos' /\ Direcciones' /\ Alcanza'
<1>1. TipoHilos'
  <2>1. p \in {NULL} \cup Numeros
    BY Constantes, Partes DEF Tipos, TipoLista
  <2> QED
    BY <2>1, Partes DEF Tipos, TipoHilos, VaHilo
<1>2. Direcciones'
  <2>1. ASSUME NEW h \in Numeros
        PROVE  /\ punteroHilo'[h] \in 0..usados'
               /\ h > usados' => hilo'[h] = "no" /\ punteroHilo'[h] = NULL
               /\ h <= usados' => tablaDe'[h] \in Tablas
               /\ hilo'[h] \in Trabajando \cup {"espera"} => punteroHilo'[h] # NULL
    BY Partes, Constantes DEF Tipos, TipoHilos, Direcciones, VaHilo
  <2>2. \A c \in Clientes : /\ pc'[c] # "libre" => tabla'[c] \in Tablas
                            /\ puntero'[c] \in 0..usados'
                            /\ puntero'[c] # NULL <=> pc'[c] \in ConPuntero
    BY DEF Tipos, Direcciones, clientes
  <2> QED
    BY <2>1, <2>2 DEF Direcciones
<1>3. Alcanza'
  BY DEF Tipos, Alcanza, Creadores, clientes
<1> QED
  BY <1>1, <1>2, <1>3

\* The thread keeps its address.
LEMMA HiloSigue ==
  ASSUME Tipos, NEW g \in Numeros, NEW lugar \in LugaresHilo, VaHilo(g, lugar),
         hilo[g] # "no", UNCHANGED punteroHilo,
         lugar \in Trabajando => hilo[g] \in Trabajando \cup {"espera"}, lugar # "espera",
         usados' = usados, tablaDe' = tablaDe, UNCHANGED clientes
  PROVE  TipoHilos' /\ Direcciones' /\ Alcanza'
<1>1. /\ punteroHilo' = [punteroHilo EXCEPT ![g] = punteroHilo[g]]
      /\ punteroHilo[g] \in 0..usados
      /\ lugar \in Trabajando \cup {"espera"} => punteroHilo[g] # NULL
  BY Partes DEF Tipos, TipoHilos, Direcciones
<1> QED
  BY <1>1, HiloMueve

LEMMA SinBinIgual ==
  ASSUME Tipos, NEW g \in Numeros, NEW lugar, VaHilo(g, lugar), lugar # "escribe_bin",
         semaforoTabla' = semaforoTabla,
         \A h \in Numeros : h # g => punteroHilo'[h] = punteroHilo[h]
  PROVE  SinBin'
<1>1. hilo'[g] # "escribe_bin" /\ \A h \in Numeros : h # g => hilo'[h] = hilo[h]
  BY Partes DEF VaHilo, Tipos, TipoHilos
<1> QED
  BY <1>1 DEF Tipos, SinBin

LEMMA TiposAvanza ==
  ASSUME Tipos, NEW g \in Numeros, NEW desde \in LugaresHilo, NEW hasta \in LugaresHilo,
         desde # "no", hasta \notin {"espera", "escribe_bin"},
         hasta \in Trabajando => desde \in Trabajando,
         Avanza(g, desde, hasta)
  PROVE  Tipos'
<1>1. UNCHANGED <<punteroHilo, disco, memoria, lista, semaforos, clientes, volcador, viva>>
        /\ Anota({}) /\ hilo[g] = desde /\ VaHilo(g, hasta)
  BY DEF Avanza, EnHilo
<1>2. TipoHilos' /\ Direcciones' /\ Alcanza'
  BY <1>1, HiloSigue DEF lista
<1>3. SinBin'
  BY <1>1, SinBinIgual DEF semaforos
<1> QED
  BY <1>1, <1>2, <1>3, AnotaQuieto, Quietos, Partes DEF Tipos

LEMMA TiposHilo ==
  ASSUME Tipos, NEW g \in Numeros, funcionCompactar(g)
  PROVE  Tipos'
<1>1. CASE Arranca(g) \/ Despierta(g) \/ Indice(g)
  <2>1. Avanza(g, "arranca", "duerme") \/ Avanza(g, "duerme", "busca")
          \/ Avanza(g, "duerme", "indice") \/ Avanza(g, "indice", "saca")
    BY <1>1 DEF Arranca, Despierta, Indice
  <2> QED
    BY <2>1, TiposAvanza, Lugares
<1>2. CASE Busca(g)
  <2>1. UNCHANGED <<disco, memoria, lista, semaforos, clientes, volcador, viva>> /\ Anota({})
          /\ hilo[g] = "busca"
    BY <1>2 DEF Busca, EnHilo
  <2>2. TipoHilos' /\ Direcciones' /\ Alcanza'
    <3>1. CASE VaHilo(g, "duerme") /\ UNCHANGED punteroHilo
      BY <2>1, <3>1, HiloSigue, Lugares DEF lista
    <3>2. CASE /\ VaHilo(g, "espera")
               /\ list_find(tablaDe[g]) # NULL
               /\ punteroHilo' = [punteroHilo EXCEPT ![g] = list_find(tablaDe[g])]
      BY <2>1, <3>2, HiloMueve, HallaTipo, Lugares DEF lista
    <3> QED
      BY <1>2, <3>1, <3>2 DEF Busca
  <2>3. SinBin'
    <3>1. PICK lugar \in {"duerme", "espera"} : VaHilo(g, lugar)
      BY <1>2 DEF Busca
    <3>2. \A h \in Numeros : h # g => punteroHilo'[h] = punteroHilo[h]
      BY <1>2, Partes DEF Busca, Tipos, TipoHilos
    <3> QED
      BY <2>1, <3>1, <3>2, SinBinIgual DEF semaforos
  <2> QED
    BY <2>1, <2>2, <2>3, AnotaQuieto, Quietos, Partes DEF Tipos
<1>3. CASE TomaCompactacion(g)
  <2>1. UNCHANGED <<punteroHilo, semaforoTabla, disco, memoria, lista, clientes, volcador, viva>>
          /\ Anota({}) /\ hilo[g] = "espera" /\ VaHilo(g, "renombra")
    BY <1>3 DEF TomaCompactacion, EnHilo
  <2>2. TipoHilos' /\ Direcciones' /\ Alcanza'
    BY <2>1, HiloSigue, Lugares DEF lista
  <2>3. SinBin'
    BY <2>1, SinBinIgual
  <2>4. TipoSemaforos'
    <3>1. punteroHilo[g] \in Numeros
      BY <2>1, Partes DEF Tipos, Direcciones, TipoHilos
    <3> QED
      BY <1>3, <2>1, <3>1, Partes DEF TomaCompactacion, Tipos, TipoSemaforos
  <2> QED
    BY <2>1, <2>2, <2>3, <2>4, AnotaQuieto, Quietos, Partes DEF Tipos
<1>4. CASE cambiarNombreTmpATmpc(g)
  <2>1. UNCHANGED <<carpetas, punteroHilo, memoria, lista, semaforos, clientes, volcador, viva>>
          /\ Anota({}) /\ hilo[g] = "renombra" /\ VaHilo(g, "une")
    BY <1>4 DEF cambiarNombreTmpATmpc, EnHilo
  <2>2. TipoHilos' /\ Direcciones' /\ Alcanza'
    BY <2>1, HiloSigue, Lugares DEF lista
  <2>3. SinBin'
    BY <2>1, SinBinIgual DEF semaforos
  <2>4. TipoDisco'
    BY <1>4, <2>1, Partes DEF cambiarNombreTmpATmpc, Tipos, TipoDisco
  <2> QED
    BY <2>1, <2>2, <2>3, <2>4, AnotaQuieto, Quietos, Partes DEF Tipos
<1>5. CASE Une(g)
  <2>1. Avanza(g, "une", "borra_bin") \/ Avanza(g, "une", "suelta")
    BY <1>5 DEF Une
  <2> QED
    BY <2>1, TiposAvanza, Lugares
<1>6. CASE BorraBin(g)
  <2>1. UNCHANGED <<carpetas, punteroHilo, semaforoCompactacion, memoria, lista, clientes,
                    volcador, viva>>
          /\ Anota({}) /\ hilo[g] = "borra_bin" /\ VaHilo(g, "escribe_bin")
          /\ semaforoTabla[punteroHilo[g]] > 0
          /\ semaforoTabla' = [semaforoTabla EXCEPT ![punteroHilo[g]] = @ - 1]
    BY <1>6 DEF BorraBin, EnHilo
  <2>2. TipoHilos' /\ Direcciones' /\ Alcanza'
    BY <2>1, HiloSigue, Lugares DEF lista
  <2>3. punteroHilo[g] \in Numeros /\ semaforoTabla[punteroHilo[g]] = 1
    BY <2>1, Partes, Lugares DEF Tipos, Direcciones, TipoHilos, TipoSemaforos
  <2>4. TipoSemaforos'
    BY <2>1, <2>3, Partes DEF Tipos, TipoSemaforos
  <2>5. SinBin'
    <3>1. semaforoTabla'[punteroHilo[g]] = 0
            /\ \A s \in Numeros : s # punteroHilo[g] => semaforoTabla'[s] = semaforoTabla[s]
      BY <2>1, <2>3, Partes DEF Tipos, TipoSemaforos
    <3>2. \A h \in Numeros : h # g => hilo'[h] = hilo[h]
      BY <2>1, Partes DEF VaHilo, Tipos, TipoHilos
    <3>3. \A h \in Numeros : hilo[h] = "escribe_bin" => punteroHilo[h] \in Numeros
      BY Partes, Lugares DEF Tipos, Direcciones, TipoHilos
    <3>4. \A h \in Numeros : hilo[h] = "escribe_bin" => punteroHilo[h] # punteroHilo[g]
      BY <2>3 DEF Tipos, SinBin
    <3> QED
      BY <2>1, <3>1, <3>2, <3>3, <3>4 DEF Tipos, SinBin
  <2>6. TipoDisco'
    BY <1>6, <2>1, Partes DEF BorraBin, Tipos, TipoDisco
  <2> QED
    BY <2>1, <2>2, <2>4, <2>5, <2>6, AnotaQuieto, Quietos, Partes DEF Tipos
<1>7. CASE crearParticionNueva(g)
  <2>1. UNCHANGED <<carpetas, punteroHilo, semaforoCompactacion, memoria, lista, clientes,
                    volcador, viva>>
          /\ Anota({}) /\ hilo[g] = "escribe_bin" /\ VaHilo(g, "suelta")
          /\ semaforoTabla' = [semaforoTabla EXCEPT ![punteroHilo[g]] = @ + 1]
    BY <1>7 DEF crearParticionNueva, EnHilo
  <2>2. TipoHilos' /\ Direcciones' /\ Alcanza'
    BY <2>1, HiloSigue, Lugares DEF lista
  <2>3. punteroHilo[g] \in Numeros /\ semaforoTabla[punteroHilo[g]] = 0
    BY <2>1, Partes, Lugares DEF Tipos, Direcciones, TipoHilos, SinBin
  <2>4. TipoSemaforos'
    BY <2>1, <2>3, Partes DEF Tipos, TipoSemaforos
  <2>5. SinBin'
    <3>1. \A s \in Numeros : s # punteroHilo[g] => semaforoTabla'[s] = semaforoTabla[s]
      BY <2>1, <2>3, Partes DEF Tipos, TipoSemaforos
    <3>2. hilo'[g] # "escribe_bin" /\ \A h \in Numeros : h # g => hilo'[h] = hilo[h]
      BY <2>1, Partes DEF VaHilo, Tipos, TipoHilos
    <3>3. \A h \in Numeros : hilo[h] = "escribe_bin" => punteroHilo[h] \in Numeros
      BY Partes, Lugares DEF Tipos, Direcciones, TipoHilos
    <3>4. \A h \in Numeros : h # g /\ hilo[h] = "escribe_bin" => punteroHilo[h] # punteroHilo[g]
      BY <2>1 DEF Tipos, SinBin
    <3> QED
      BY <2>1, <3>1, <3>2, <3>3, <3>4 DEF Tipos, SinBin
  <2>6. TipoDisco'
    BY <1>7, <2>1, Partes DEF crearParticionNueva, Tipos, TipoDisco
  <2> QED
    BY <2>1, <2>2, <2>4, <2>5, <2>6, AnotaQuieto, Quietos, Partes DEF Tipos
<1>8. CASE SueltaCompactacion(g)
  <2>1. UNCHANGED <<semaforoTabla, disco, memoria, lista, clientes, volcador, viva>>
          /\ Anota({}) /\ hilo[g] = "suelta" /\ VaHilo(g, "duerme")
          /\ punteroHilo' = [punteroHilo EXCEPT ![g] = NULL]
          /\ semaforoCompactacion' = [semaforoCompactacion EXCEPT ![punteroHilo[g]] = @ + 1]
    BY <1>8 DEF SueltaCompactacion, EnHilo
  <2>2. NULL \in 0..usados
    BY Partes, Constantes DEF Tipos, TipoLista
  <2>3. TipoHilos' /\ Direcciones' /\ Alcanza'
    BY <2>1, <2>2, HiloMueve, Lugares DEF lista
  <2>4. SinBin'
    <3>1. \A h \in Numeros : h # g => punteroHilo'[h] = punteroHilo[h]
      BY <2>1, Partes DEF Tipos, TipoHilos
    <3> QED
      BY <2>1, <3>1, SinBinIgual
  <2>5. TipoSemaforos'
    <3>1. punteroHilo[g] \in Numeros
      BY <2>1, Partes, Lugares DEF Tipos, Direcciones, TipoHilos
    <3> QED
      BY <2>1, <3>1, Partes DEF Tipos, TipoSemaforos
  <2> QED
    BY <2>1, <2>3, <2>4, <2>5, AnotaQuieto, Quietos, Partes DEF Tipos
<1>9. CASE Saca(g)
  <2> DEFINE s == list_find(tablaDe[g])
             S == IF s # NULL /\ Apuntan(s) THEN {"liberado"} ELSE {}
  <2>1. UNCHANGED <<TablasCompactacion, tablaDe, usados, semaforoTabla, punteroHilo, disco,
                    memoria, clientes, volcador, viva>>
          /\ Anota(S) /\ hilo[g] = "saca" /\ VaHilo(g, "olvida")
    BY <1>9 DEF Saca, EnHilo
  <2>2. S \in SUBSET Sucesos
    BY DEF Sucesos
  <2>3. TipoHilos' /\ Direcciones' /\ Alcanza'
    BY <2>1, HiloSigue, Lugares
  <2>4. SinBin'
    BY <2>1, SinBinIgual
  <2>5. TipoLista' /\ TipoSemaforos'
    <3>1. CASE UNCHANGED <<ListaSem, semaforoCompactacion>>
      BY <2>1, <3>1, Partes DEF Tipos, TipoLista, TipoSemaforos
    <3>2. ASSUME NEW p \in 1..Len(ListaSem), Destruye(p)
          PROVE  TipoLista' /\ TipoSemaforos'
      <4>1. PICK v \in 0..1 :
              semaforoCompactacion' = [semaforoCompactacion EXCEPT ![ListaSem[p]] = v]
        BY <3>2 DEF Destruye
      <4>2. ListaSem' = Sin(p) /\ Sin(p) \in Seq(1..usados) /\ v \in Nat
        BY <3>2, SinTipo DEF Destruye
      <4>3. TipoLista'
        BY <2>1, <4>2, Partes DEF Tipos, TipoLista
      <4>4. TipoSemaforos'
        BY <2>1, <4>1, <4>2, Partes DEF Tipos, TipoSemaforos
      <4> QED
        BY <4>3, <4>4
    <3>3. s # NULL => Primera(tablaDe[g]) \in 1..Len(ListaSem)
      BY PrimeraDonde
    <3> QED
      BY <1>9, <3>1, <3>2, <3>3 DEF Saca
  <2> HIDE DEF S
  <2> QED
    BY <2>1, <2>2, <2>3, <2>4, <2>5, AnotaQuieto, Quietos, Partes DEF Tipos
<1>10. CASE Olvida(g)
  <2>1. UNCHANGED <<ListaSem, tablaDe, usados, punteroHilo, disco, memoria, semaforos, clientes,
                    volcador, viva>>
          /\ Anota({}) /\ hilo[g] = "olvida" /\ VaHilo(g, "fin")
    BY <1>10 DEF Olvida, EnHilo
  <2>2. TipoHilos' /\ Direcciones' /\ Alcanza'
    BY <2>1, HiloSigue, Lugares
  <2>3. SinBin'
    BY <2>1, SinBinIgual DEF semaforos
  <2>4. TipoLista'
    BY <1>10, <2>1, Partes DEF Olvida, Tipos, TipoLista
  <2> QED
    BY <2>1, <2>2, <2>3, <2>4, AnotaQuieto, Quietos, Partes DEF Tipos
<1>11. CASE MuereHilo(g)
  <2>1. Muere /\ Anota({})
    BY <1>11 DEF MuereHilo
  <2> QED
    BY <2>1, TiposMuere
<1> QED
  BY <1>1, <1>2, <1>3, <1>4, <1>5, <1>6, <1>7, <1>8, <1>9, <1>10, <1>11 DEF funcionCompactar

LEMMA TiposDump ==
  ASSUME Tipos, chekearDumpeo \/ dump
  PROVE  Tipos'
<1>1. CASE chekearDumpeo
  <2>1. UNCHANGED <<disco, memoria, lista, semaforos, clientes, hilos, viva>> /\ Anota({})
          /\ volcador' = "vuelca"
    BY <1>1 DEF chekearDumpeo
  <2>2. TipoResto'
    BY <2>1, AnotaTipo, Partes DEF Tipos, TipoResto
  <2> QED
    BY <2>1, <2>2, Quietos, Partes DEF Tipos, semaforos
<1>2. CASE dump /\ Muere
  BY <1>2, TiposMuere DEF dump
<1>3. CASE dump /\ ~Muere
  <2>1. UNCHANGED <<carpetas, SemaforoMemtable, lista, semaforos, clientes, hilos, viva>>
          /\ Anota({}) /\ volcador' = "duerme" /\ memTable' = {}
    BY <1>3 DEF dump
  <2>2. TipoResto'
    BY <2>1, AnotaTipo, Partes DEF Tipos, TipoResto
  <2>3. TipoDisco' /\ TipoMemoria'
    BY <1>3, <2>1, Partes DEF dump, Tipos, TipoDisco, TipoMemoria
  <2> QED
    BY <2>1, <2>2, <2>3, Quietos, Partes DEF Tipos, semaforos
<1> QED
  BY <1>1, <1>2, <1>3

\* Init, once the tables there are and their order are known.
EstadoInicial(n, tablas) ==
  /\ carpetas = {tablas[i] : i \in 1..n}
  /\ archivos \in [Tablas -> SUBSET {"metadata", "bin", "tmp", "tmpc"}]
  /\ memTable = {} /\ SemaforoMemtable = 1
  /\ ListaSem = [i \in 1..n |-> i] /\ usados = n
  /\ TablasCompactacion = carpetas
  /\ tablaDe = [g \in Numeros |-> IF g <= n THEN tablas[g] ELSE Nadie]
  /\ semaforoCompactacion = [g \in Numeros |-> IF g <= n THEN 1 ELSE 0]
  /\ semaforoTabla = [g \in Numeros |-> IF g <= n THEN 1 ELSE 0]
  /\ pc = [c \in Clientes |-> "libre"]
  /\ tabla = [c \in Clientes |-> Nadie]
  /\ puntero = [c \in Clientes |-> NULL]
  /\ hilo = [g \in Numeros |-> IF g <= n THEN "arranca" ELSE "no"]
  /\ punteroHilo = [g \in Numeros |-> NULL]
  /\ volcador = "duerme"
  /\ viva = TRUE /\ pedidos = 0 /\ riesgo = {}

LEMMA TiposInit == Init => Tipos
<1> SUFFICES ASSUME Init PROVE Tipos
  OBVIOUS
<1>0. PICK n \in 0..MaxSemaforos : \E tablas \in [1..n -> Tablas] : EstadoInicial(n, tablas)
  BY SMTT(30) DEF Init, EstadoInicial
<1>1. PICK tablas \in [1..n -> Tablas] : EstadoInicial(n, tablas)
  BY <1>0
<1>2. n \in Nat /\ MaxSemaforos \in Nat /\ n <= MaxSemaforos /\ NULL = 0 /\ MaxPedidos \in Nat
  BY Constantes, ConstantesCiclo
<1>3. TipoDisco /\ TipoMemoria /\ TipoResto
  BY <1>1, <1>2 DEF EstadoInicial, TipoDisco, TipoMemoria, TipoResto
<1>4. TipoClientes /\ TipoHilos
  BY <1>1, Lugares DEF EstadoInicial, TipoClientes, TipoHilos
<1>5. TipoSemaforos
  BY <1>1 DEF EstadoInicial, TipoSemaforos
<1>6. TipoLista
  <2>1. \A g \in Numeros : g <= n => g \in 1..n
    BY <1>2, Constantes
  <2>2. ListaSem \in Seq(1..usados)
    BY <1>1, <1>2 DEF EstadoInicial
  <2>3. tablaDe \in [Numeros -> Tablas \cup {Nadie}]
    BY <1>1, <2>1 DEF EstadoInicial
  <2> QED
    BY <1>1, <2>2, <2>3 DEF EstadoInicial, TipoLista
<1>7. Direcciones
  <2>1. \A g \in Numeros : g <= n => g \in 1..n
    BY <1>2, Constantes
  <2>2. \A g \in Numeros : g > n => ~(g <= n)
    BY <1>2, Constantes
  <2> QED
    BY <1>1, <1>2, <2>1, <2>2, Lugares DEF EstadoInicial, Direcciones
<1>8. Alcanza
  <2>1. Creadores = {}
    BY <1>1, Lugares DEF EstadoInicial, Creadores
  <2> QED
    BY <1>1, <1>2, <2>1, FS_EmptySet DEF EstadoInicial, Alcanza
<1>9. SinBin
  BY <1>1 DEF EstadoInicial, SinBin
<1> QED
  BY <1>3, <1>4, <1>5, <1>6, <1>7, <1>8, <1>9, Partes DEF Tipos

LEMMA TiposQuietos ==
  ASSUME Tipos, UNCHANGED vars
  PROVE  Tipos'
<1>1. UNCHANGED <<disco, memoria, lista, semaforos, clientes, hilos, volcador, viva, pedidos,
                  riesgo>>
  BY DEF vars
<1>2. TipoResto'
  BY <1>1, Partes DEF Tipos, TipoResto
<1> QED
  BY <1>1, <1>2, Quietos, Partes DEF Tipos, semaforos

LEMMA TiposNext == Tipos /\ [Next]_vars => Tipos'
  BY TiposPide, TiposAtiende, TiposHilo, TiposDump, TiposQuietos DEF Next

\* Every variable keeps its type: a semaphore of a table counts to one, and there are
\* never more of them than MaxSemaforos, CREATEs on their way included.
THEOREM TiposCorrectos == Spec => []TypeOK
<1>1. Spec => []Tipos
  BY TiposInit, TiposNext, PTL DEF Spec
<1> QED
  BY <1>1, PTL DEF Tipos

-----------------------------------------------------------------------------
(* What is in memory has a table.                                          *)

Conserva == Archivos /\ MemtableConTabla

\* A client that moves to a place that is not of a DROP, and the others stay.
LEMMA NadieBorra ==
  ASSUME Tipos, NEW c \in Clientes, NEW lugar, lugar \notin Borrando, Va(c, lugar),
         \A d \in Clientes : d # c => tabla'[d] = tabla[d]
  PROVE  \A d \in Clientes : pc'[d] \in Borrando => pc[d] \in Borrando /\ tabla'[d] = tabla[d]
<1>1. \A d \in Clientes : d # c => pc'[d] = pc[d]
  BY Partes DEF Va, Tipos, TipoClientes
<1>2. pc'[c] = lugar
  BY Partes DEF Va, Tipos, TipoClientes
<1> QED
  BY <1>1, <1>2

LEMMA ConservaQuieto ==
  ASSUME Conserva, UNCHANGED <<disco, memoria>>,
         \A d \in Clientes : pc'[d] \in Borrando => pc[d] \in Borrando /\ tabla'[d] = tabla[d]
  PROVE  Conserva'
  BY DEF Conserva, Archivos, MemtableConTabla, disco, memoria

\* Files come and go, but not those of a table with records in memory.
LEMMA ConservaArchivos ==
  ASSUME Conserva, carpetas' = carpetas, UNCHANGED memoria,
         \A t \in Tablas : archivos[t] = {} => archivos'[t] = {} \/ t \in carpetas,
         \A t \in memTable : "metadata" \in archivos[t] => "metadata" \in archivos'[t],
         \A d \in Clientes : pc'[d] \in Borrando => pc[d] \in Borrando /\ tabla'[d] = tabla[d]
  PROVE  Conserva'
  BY DEF Conserva, Archivos, MemtableConTabla, memoria

LEMMA ConservaPide ==
  ASSUME Tipos, Conserva, NEW c \in Clientes, Pide(c)
  PROVE  Conserva'
<1>1. PICK t \in Tablas, lugar \in {"select_verifica", "select_inexistente", "insert",
                                    "describe", "drop_verifica", "create_carpeta", "consola_verifica"} :
        Empieza(c, t, lugar)
  BY DEF Pide, SELECT, APIselect, INSERT, DESCRIBE, DROP, CREATE
<1>2. \A d \in Clientes : d # c => tabla'[d] = tabla[d]
  BY <1>1, Partes DEF Empieza, Tipos, TipoClientes
<1>3. Va(c, lugar) /\ lugar \notin Borrando
  BY <1>1, Lugares DEF Empieza, Va
<1> QED
  BY <1>1, <1>2, <1>3, NadieBorra, ConservaQuieto DEF Empieza

LEMMA TerminaNadieBorra ==
  ASSUME Tipos, NEW c \in Clientes, Termina(c)
  PROVE  \A d \in Clientes : pc'[d] \in Borrando => pc[d] \in Borrando /\ tabla'[d] = tabla[d]
<1>1. \A d \in Clientes : d # c => tabla'[d] = tabla[d]
  BY Partes DEF Termina, Tipos, TipoClientes
<1>2. Va(c, "libre") /\ "libre" \notin Borrando
  BY Lugares DEF Termina
<1> QED
  BY <1>1, <1>2, NadieBorra

LEMMA SigueNadieBorra ==
  ASSUME Tipos, NEW c \in Clientes, NEW lugar, lugar \notin Borrando, Sigue(c, lugar)
  PROVE  \A d \in Clientes : pc'[d] \in Borrando => pc[d] \in Borrando /\ tabla'[d] = tabla[d]
  BY NadieBorra DEF Sigue

\* SELECT, DESCRIBE and the semaphores: nothing on disk or in memory.
LEMMA ConservaUsa ==
  ASSUME Tipos, Conserva, NEW c \in Clientes,
         \/ verificarSemaforoTabla(c) \/ waitearSemTable(c) \/ Toma(c)
         \/ LeeParticion(c) \/ LeeMemtable(c) \/ postearSemTable(c)
         \/ obtenerMetadataTabla(c) \/ verificarSemaforoCompactacion(c)
         \/ verificarDesdeConsola(c) \/ LeeParticionDesdeConsola(c)
         \/ LeeMemtableDesdeConsola(c) \/ dictionary_is_empty(c) \/ list_create(c)
         \/ crearSemaforo(c) \/ levantarHiloCompactacion(c) \/ AnotaHilo(c)
  PROVE  Conserva'
<1> DEFINE SinBajas == \A d \in Clientes :
             pc'[d] \in Borrando => pc[d] \in Borrando /\ tabla'[d] = tabla[d]
<1>1. CASE \/ verificarSemaforoTabla(c) \/ verificarSemaforoCompactacion(c)
           \/ verificarDesdeConsola(c)
  <2>1. UNCHANGED <<disco, memoria, tabla>>
    BY <1>1 DEF verificarSemaforoTabla, verificarSemaforoCompactacion, verificarDesdeConsola,
       verificar, Sigue
  <2>2. PICK lugar \in {"select_tabla", "select_busca", "drop_espera", "drop_memtable",
                        "consola_tabla", "consola_lee"} :
          Va(c, lugar)
    BY <1>1 DEF verificarSemaforoTabla, verificarSemaforoCompactacion, verificarDesdeConsola,
       verificar, Sigue
  <2>3. SinBajas
    BY <2>1, <2>2, NadieBorra, Lugares
  <2> QED
    BY <2>1, <2>3, ConservaQuieto
<1>2. CASE postearSemTable(c) \/ obtenerMetadataTabla(c) \/ AnotaHilo(c)
             \/ LeeMemtableDesdeConsola(c)
  <2>1. UNCHANGED <<disco, memoria>> /\ Termina(c)
    BY <1>2 DEF postearSemTable, obtenerMetadataTabla, AnotaHilo, LeeMemtableDesdeConsola
  <2> QED
    BY <2>1, TerminaNadieBorra, ConservaQuieto
<1>3. CASE \/ waitearSemTable(c) \/ Toma(c) \/ LeeParticion(c) \/ LeeMemtable(c)
           \/ LeeParticionDesdeConsola(c) \/ dictionary_is_empty(c) \/ list_create(c)
           \/ crearSemaforo(c) \/ levantarHiloCompactacion(c)
  <2>1. UNCHANGED <<disco, memoria, tabla>>
    BY <1>3 DEF waitearSemTable, Toma, LeeParticion, LeeMemtable, LeeParticionDesdeConsola,
       dictionary_is_empty, list_create, crearSemaforo, levantarHiloCompactacion, Sigue
  <2>2. PICK lugar \in {"select_espera", "select_lee", "select_memtable", "select_postea",
                        "consola_memtable", "create_lista", "create_semaforo",
                        "create_hilo", "create_anota"} : Va(c, lugar)
    BY <1>3 DEF waitearSemTable, Toma, LeeParticion, LeeMemtable, LeeParticionDesdeConsola,
       dictionary_is_empty, list_create, crearSemaforo, levantarHiloCompactacion, Sigue
  <2>3. SinBajas
    BY <2>1, <2>2, NadieBorra, Lugares
  <2> QED
    BY <2>1, <2>3, ConservaQuieto
<1> QED
  BY <1>1, <1>2, <1>3

\* INSERT puts in memory what has metadata, and so a directory.
LEMMA ConservaINSERT ==
  ASSUME Tipos, Conserva, NEW c \in Clientes, agregarTabla(c)
  PROVE  Conserva'
<1>1. /\ SemaforoMemtable = 1 /\ SemaforoMemtable' = 1 /\ UNCHANGED disco
      /\ memTable' = memTable \cup {tabla[c]} /\ "metadata" \in archivos[tabla[c]]
      /\ tabla[c] \in Tablas /\ Termina(c)
  BY DEF agregarTabla, En, Tipos, Direcciones
<1>2. tabla[c] \in carpetas
  BY <1>1 DEF Conserva, Archivos
<1>3. \A d \in Clientes : pc'[d] \notin Borrando
  BY <1>1, TerminaNadieBorra DEF Conserva, Archivos
<1> QED
  BY <1>1, <1>2, <1>3 DEF Conserva, Archivos, MemtableConTabla, disco

\* DROP takes the table out of the memory, and then it is alone.
LEMMA ConservaDROP ==
  ASSUME Tipos, Conserva, NEW c \in Clientes,
         \/ RemoverDeLaMemtable(c) \/ RemoverParticionesDeTablaYSusBloques(c)
         \/ RemoverTemporalesDeTablaYSusBloques(c) \/ RemoverMetadataDeTabla(c)
         \/ RemoverCarpetaVaciaDeTabla(c)
  PROVE  Conserva'
<1>1. CASE RemoverDeLaMemtable(c)
  <2>1. /\ SemaforoMemtable = 1 /\ SemaforoMemtable' = 0 /\ UNCHANGED disco
        /\ memTable' = memTable \ {tabla[c]} /\ tabla' = tabla /\ Va(c, "drop_particion")
    BY <1>1 DEF RemoverDeLaMemtable, Sigue
  <2>2. \A d \in Clientes : d # c => pc'[d] \notin Borrando
    BY <2>1, Partes DEF Va, Tipos, TipoClientes, Conserva, Archivos
  <2> QED
    BY <2>1, <2>2 DEF Conserva, Archivos, MemtableConTabla, disco
<1>2. ASSUME NEW lugar \in Borrando, NEW F, NEW hasta \in Borrando, Borra(c, lugar, F, hasta)
      PROVE  Conserva'
  <2>1. /\ carpetas' = carpetas /\ UNCHANGED memoria /\ tabla' = tabla /\ Va(c, hasta)
        /\ pc[c] \in Borrando /\ archivos' = [archivos EXCEPT ![tabla[c]] = @ \ F]
    BY <1>2 DEF Borra, Sigue, En
  <2>2. \A d \in Clientes : pc'[d] \in Borrando => pc[d] \in Borrando /\ tabla'[d] = tabla[d]
    BY <2>1, Partes DEF Va, Tipos, TipoClientes
  <2>3. \A t \in Tablas : archivos'[t] = IF t = tabla[c] THEN archivos[t] \ F ELSE archivos[t]
    BY <2>1, Partes DEF Tipos, TipoDisco
  <2>4. tabla[c] \notin memTable /\ memTable \subseteq Tablas
    BY <2>1, Partes DEF Conserva, Archivos, Tipos, TipoMemoria
  <2> QED
    BY <2>1, <2>2, <2>3, <2>4, ConservaArchivos
<1>3. CASE \/ RemoverParticionesDeTablaYSusBloques(c) \/ RemoverTemporalesDeTablaYSusBloques(c)
           \/ RemoverMetadataDeTabla(c)
  BY <1>2, <1>3, Lugares DEF RemoverParticionesDeTablaYSusBloques,
     RemoverTemporalesDeTablaYSusBloques, RemoverMetadataDeTabla
<1>4. CASE RemoverCarpetaVaciaDeTabla(c)
  <2>1. /\ pc[c] \in Borrando /\ archivos' = archivos /\ memTable' = memTable /\ Termina(c)
        /\ carpetas' = IF archivos[tabla[c]] = {} THEN carpetas \ {tabla[c]} ELSE carpetas
    BY <1>4, Lugares DEF RemoverCarpetaVaciaDeTabla, En
  <2>2. \A d \in Clientes : pc'[d] \notin Borrando
    <3>1. pc'[c] \notin Borrando
      BY <2>1, Partes, Lugares DEF Termina, Va, Tipos, TipoClientes
    <3> QED
      BY <2>1, <3>1, TerminaNadieBorra DEF Conserva, Archivos
  <2>3. tabla[c] \notin memTable
    BY <2>1 DEF Conserva, Archivos
  <2> QED
    BY <2>1, <2>2, <2>3 DEF Conserva, Archivos, MemtableConTabla
<1> QED
  BY <1>1, <1>3, <1>4

\* CREATE only adds.
LEMMA ConservaCREATE ==
  ASSUME Tipos, Conserva, NEW c \in Clientes,
         crearTabla(c) \/ crearMetadataConfig(c) \/ crearParticion(c)
  PROVE  Conserva'
<1>1. CASE crearTabla(c)
  <2>1. /\ carpetas' = carpetas \cup {tabla[c]} /\ archivos' = archivos /\ UNCHANGED memoria
        /\ Sigue(c, "create_metadata") /\ "create_metadata" \notin Borrando
    BY <1>1, Lugares DEF crearTabla
  <2>2. \A d \in Clientes : pc'[d] \in Borrando => pc[d] \in Borrando /\ tabla'[d] = tabla[d]
    BY <2>1, SigueNadieBorra
  <2> QED
    BY <2>1, <2>2 DEF Conserva, Archivos, MemtableConTabla, memoria
<1>2. ASSUME NEW lugar, NEW f, NEW hasta \in Altas, Crea(c, lugar, f, hasta)
      PROVE  Conserva'
  <2>1. /\ carpetas' = carpetas /\ UNCHANGED memoria /\ Sigue(c, hasta) /\ hasta \notin Borrando
        /\ archivos' = [archivos EXCEPT ![tabla[c]] = @ \cup {f}] /\ tabla[c] \in carpetas
    BY <1>2, Lugares DEF Crea, existeTabla
  <2>2. \A d \in Clientes : pc'[d] \in Borrando => pc[d] \in Borrando /\ tabla'[d] = tabla[d]
    BY <2>1, SigueNadieBorra
  <2>3. \A t \in Tablas : archivos'[t] = IF t = tabla[c] THEN archivos[t] \cup {f} ELSE archivos[t]
    BY <2>1, Partes DEF Tipos, TipoDisco
  <2>4. memTable \subseteq Tablas
    BY Partes DEF Tipos, TipoMemoria
  <2> QED
    BY <2>1, <2>2, <2>3, <2>4, ConservaArchivos
<1>3. CASE crearMetadataConfig(c) \/ crearParticion(c)
  BY <1>2, <1>3, Lugares DEF crearMetadataConfig, crearParticion
<1> QED
  BY <1>1, <1>3

\* The compaction never deletes the metadata, nor creates a file in no directory.
LEMMA ConservaHilo ==
  ASSUME Tipos, Conserva, NEW g \in Numeros, funcionCompactar(g)
  PROVE  Conserva'
<1>1. CASE Busca(g) \/ TomaCompactacion(g) \/ SueltaCompactacion(g) \/ Saca(g) \/ Olvida(g)
             \/ MuereHilo(g)
  <2>1. UNCHANGED <<disco, memoria, clientes>>
    BY <1>1 DEF Busca, TomaCompactacion, SueltaCompactacion, Saca, Olvida, MuereHilo, Muere
  <2> QED
    BY <2>1, ConservaQuieto DEF clientes
<1>2. CASE Arranca(g) \/ Despierta(g) \/ Une(g) \/ Indice(g)
  <2>1. UNCHANGED <<disco, memoria, clientes>>
    BY <1>2 DEF Arranca, Despierta, Une, Indice, Avanza
  <2> QED
    BY <2>1, ConservaQuieto DEF clientes
<1>3. CASE cambiarNombreTmpATmpc(g)
  <2>1. /\ carpetas' = carpetas /\ UNCHANGED <<memoria, clientes>>
        /\ archivos' = [archivos EXCEPT ![tablaDe[g]] =
                          IF "tmp" \in @ THEN (@ \ {"tmp"}) \cup {"tmpc"} ELSE @]
    BY <1>3 DEF cambiarNombreTmpATmpc
  <2>2. \A t \in Tablas : /\ archivos[t] = {} => archivos'[t] = {}
                          /\ "metadata" \in archivos[t] => "metadata" \in archivos'[t]
    BY <2>1, Partes DEF Tipos, TipoDisco
  <2>3. memTable \subseteq Tablas
    BY Partes DEF Tipos, TipoMemoria
  <2> QED
    BY <2>1, <2>2, <2>3, ConservaArchivos DEF clientes
<1>4. CASE BorraBin(g)
  <2>1. /\ carpetas' = carpetas /\ UNCHANGED <<memoria, clientes>>
        /\ archivos' = [archivos EXCEPT ![tablaDe[g]] = @ \ {"bin"}]
    BY <1>4 DEF BorraBin
  <2>2. \A t \in Tablas : /\ archivos[t] = {} => archivos'[t] = {}
                          /\ "metadata" \in archivos[t] => "metadata" \in archivos'[t]
    BY <2>1, Partes DEF Tipos, TipoDisco
  <2>3. memTable \subseteq Tablas
    BY Partes DEF Tipos, TipoMemoria
  <2> QED
    BY <2>1, <2>2, <2>3, ConservaArchivos DEF clientes
<1>5. CASE crearParticionNueva(g)
  <2>1. /\ carpetas' = carpetas /\ UNCHANGED <<memoria, clientes>> /\ tablaDe[g] \in carpetas
        /\ archivos' = [archivos EXCEPT ![tablaDe[g]] = (@ \cup {"bin"}) \ {"tmpc"}]
    BY <1>5 DEF crearParticionNueva, existeTabla
  <2>2. \A t \in Tablas : /\ archivos[t] = {} => archivos'[t] = {} \/ t \in carpetas
                          /\ "metadata" \in archivos[t] => "metadata" \in archivos'[t]
    BY <2>1, Partes DEF Tipos, TipoDisco
  <2>3. memTable \subseteq Tablas
    BY Partes DEF Tipos, TipoMemoria
  <2> QED
    BY <2>1, <2>2, <2>3, ConservaArchivos DEF clientes
<1> QED
  BY <1>1, <1>2, <1>3, <1>4, <1>5 DEF funcionCompactar

\* The dump empties the memory.
LEMMA ConservaDump ==
  ASSUME Tipos, Conserva, chekearDumpeo \/ dump
  PROVE  Conserva'
<1>1. CASE chekearDumpeo \/ Muere
  <2>1. UNCHANGED <<disco, memoria, clientes>>
    BY <1>1 DEF chekearDumpeo, Muere
  <2> QED
    BY <2>1, ConservaQuieto DEF clientes
<1>2. CASE dump /\ ~Muere
  <2>1. /\ memTable \subseteq carpetas /\ carpetas' = carpetas /\ memTable' = {}
        /\ UNCHANGED clientes /\ SemaforoMemtable' = SemaforoMemtable
        /\ archivos' = [t \in Tablas |-> IF t \in memTable THEN archivos[t] \cup {"tmp"}
                                         ELSE archivos[t]]
    BY <1>2 DEF dump
  <2> QED
    BY <2>1 DEF Conserva, Archivos, MemtableConTabla, clientes
<1> QED
  BY <1>1, <1>2

LEMMA ConservaInit == Init => Conserva
<1> SUFFICES ASSUME Init PROVE Conserva
  OBVIOUS
<1>1. /\ memTable = {} /\ pc = [c \in Clientes |-> "libre"]
      /\ \A t \in Tablas : IF t \in carpetas THEN {"metadata", "bin"} \subseteq archivos[t]
                                             ELSE archivos[t] = {}
  BY DEF Init
<1> QED
  BY <1>1, Lugares DEF Conserva, Archivos, MemtableConTabla

LEMMA ConservaNext == Tipos /\ Conserva /\ [Next]_vars => Conserva'
<1> SUFFICES ASSUME Tipos, Conserva, [Next]_vars PROVE Conserva'
  OBVIOUS
<1>1. ASSUME NEW c \in Clientes, Atiende(c) PROVE Conserva'
  <2>1. CASE SinSemaforo(c) \/ SinArchivo(c)
    <3>1. UNCHANGED <<disco, memoria, clientes>>
      BY <2>1 DEF SinSemaforo, SinArchivo, Muere
    <3> QED
      BY <3>1, ConservaQuieto DEF clientes
  <2> QED
    BY <1>1, <2>1, ConservaUsa, ConservaINSERT, ConservaDROP, ConservaCREATE DEF Atiende
<1>2. CASE UNCHANGED vars
  BY <1>2, ConservaQuieto DEF vars, clientes
<1> QED
  BY <1>1, <1>2, ConservaPide, ConservaHilo, ConservaDump DEF Next

\* What INSERT leaves in memory is of a table with metadata: DROP takes it away before
\* it deletes anything, so the dump never meets a missing directory.
THEOREM MemoriaConTabla == Spec => []MemtableConTabla
<1>1. Spec => [](Tipos /\ Conserva)
  BY TiposInit, TiposNext, ConservaInit, ConservaNext, PTL DEF Spec
<1> QED
  BY <1>1, PTL DEF Conserva

-----------------------------------------------------------------------------
(* One reader or one compaction.                                           *)

Exclusiva == Limpio => Firmes /\ Tomados

\* The history only grows.
LEMMA LimpioAntes ==
  ASSUME Tipos, NEW S \in SUBSET Sucesos, Anota(S), Limpio'
  PROVE  Limpio /\ S \cap {"inexistente", "liberado", "lista", "enlaces"} = {}
<1>1. riesgo \subseteq riesgo' /\ S \subseteq riesgo'
  BY RecuerdaTipo DEF Tipos, Anota
<1> QED
  BY <1>1 DEF Limpio

\* What an address is of.
LEMMA DireccionDe ==
  ASSUME Tipos, Firmes
  PROVE  /\ \A c \in Clientes : pc[c] \in Esperando \cup Leyendo =>
              /\ puntero[c] \in Numeros /\ puntero[c] \in 1..usados
              /\ tablaDe[puntero[c]] = tabla[c]
         /\ \A g \in Numeros : punteroHilo[g] # NULL =>
              punteroHilo[g] \in Numeros /\ tablaDe[punteroHilo[g]] = tablaDe[g]
         /\ \A g \in Numeros : hilo[g] \in Trabajando \cup {"espera"} =>
              punteroHilo[g] # NULL /\ punteroHilo[g] \in 1..usados
<1>1. ASSUME NEW c \in Clientes, pc[c] \in Esperando \cup Leyendo
      PROVE  /\ puntero[c] \in Numeros /\ puntero[c] \in 1..usados
             /\ tablaDe[puntero[c]] = tabla[c]
  <2>1. pc[c] \in ConPuntero
    BY <1>1 DEF ConPuntero
  <2>2. puntero[c] # NULL /\ puntero[c] \in 0..usados
    BY <2>1 DEF Tipos, Direcciones
  <2>3. puntero[c] = list_find(tabla[c])
    BY <1>1 DEF Firmes
  <2> QED
    BY <2>2, <2>3, HallaTipo, Constantes
<1>2. ASSUME NEW g \in Numeros, punteroHilo[g] # NULL
      PROVE  punteroHilo[g] \in Numeros /\ tablaDe[punteroHilo[g]] = tablaDe[g]
  <2>1. punteroHilo[g] = list_find(tablaDe[g])
    BY <1>2 DEF Firmes
  <2> QED
    BY <1>2, <2>1, HallaTipo, Constantes
<1>3. ASSUME NEW g \in Numeros, hilo[g] \in Trabajando \cup {"espera"}
      PROVE  punteroHilo[g] # NULL /\ punteroHilo[g] \in 1..usados
  BY <1>3, Constantes DEF Tipos, Direcciones
<1> QED
  BY <1>1, <1>2, <1>3

LEMMA FirmesQuietos ==
  ASSUME Firmes, ListaSem' = ListaSem, tablaDe' = tablaDe,
         \A c \in Clientes : pc'[c] \in Esperando \cup Leyendo =>
           \/ /\ pc[c] \in Esperando \cup Leyendo /\ puntero'[c] = puntero[c]
              /\ tabla'[c] = tabla[c]
           \/ puntero'[c] = list_find(tabla'[c]),
         \A g \in Numeros : punteroHilo'[g] \in {NULL, punteroHilo[g], list_find(tablaDe[g])}
  PROVE  Firmes'
<1>1. ASSUME NEW c \in Clientes, pc'[c] \in Esperando \cup Leyendo
      PROVE  puntero'[c] = list_find(tabla'[c])
  BY <1>1 DEF Firmes
<1>2. ASSUME NEW g \in Numeros, punteroHilo'[g] # NULL
      PROVE  punteroHilo'[g] = list_find(tablaDe[g])
  BY <1>2 DEF Firmes
<1>3. \A c \in Clientes : list_find(tabla[c])' = list_find(tabla'[c])
  BY HallaEsListFind
<1>4. \A g \in Numeros : list_find(tablaDe[g])' = list_find(tablaDe[g])
  BY HallaEsListFind
<1> QED
  BY <1>1, <1>2, <1>3, <1>4 DEF Firmes

LEMMA ExclusivaQuieta ==
  ASSUME Exclusiva, Limpio' => Limpio, ListaSem' = ListaSem, tablaDe' = tablaDe,
         semaforoCompactacion' = semaforoCompactacion,
         \A c \in Clientes : pc'[c] \in Esperando \cup Leyendo =>
           \/ /\ pc[c] \in Esperando \cup Leyendo /\ puntero'[c] = puntero[c]
              /\ tabla'[c] = tabla[c]
           \/ puntero'[c] = list_find(tabla'[c]),
         \A c \in Clientes : pc'[c] \in Leyendo => pc[c] \in Leyendo /\ puntero'[c] = puntero[c],
         \A g \in Numeros : punteroHilo'[g] \in {NULL, punteroHilo[g], list_find(tablaDe[g])},
         \A g \in Numeros : hilo'[g] \in Trabajando =>
           hilo[g] \in Trabajando /\ punteroHilo'[g] = punteroHilo[g]
  PROVE  Exclusiva'
<1> SUFFICES ASSUME Limpio' PROVE Firmes' /\ Tomados'
  BY DEF Exclusiva
<1>1. Firmes /\ Tomados
  BY DEF Exclusiva
<1>2. Firmes'
  BY <1>1, FirmesQuietos
<1>3. Tomados'
  BY <1>1 DEF Tomados
<1> QED
  BY <1>2, <1>3

\* One client moves, or one thread.
LEMMA ExclusivaCliente ==
  ASSUME Tipos, Exclusiva, NEW c \in Clientes, NEW lugar, Va(c, lugar), Limpio' => Limpio,
         ListaSem' = ListaSem, tablaDe' = tablaDe,
         semaforoCompactacion' = semaforoCompactacion, UNCHANGED hilos,
         \A d \in Clientes : d # c => tabla'[d] = tabla[d] /\ puntero'[d] = puntero[d],
         lugar \in Esperando \cup Leyendo =>
           \/ /\ pc[c] \in Esperando \cup Leyendo /\ puntero'[c] = puntero[c]
              /\ tabla'[c] = tabla[c]
           \/ puntero'[c] = list_find(tabla'[c]),
         lugar \in Leyendo => pc[c] \in Leyendo /\ puntero'[c] = puntero[c]
  PROVE  Exclusiva'
<1>1. pc'[c] = lugar /\ \A d \in Clientes : d # c => pc'[d] = pc[d]
  BY Partes DEF Va, Tipos, TipoClientes
<1>2. \A d \in Clientes : pc'[d] \in Esperando \cup Leyendo =>
        \/ /\ pc[d] \in Esperando \cup Leyendo /\ puntero'[d] = puntero[d]
           /\ tabla'[d] = tabla[d]
        \/ puntero'[d] = list_find(tabla'[d])
  BY <1>1
<1>3. \A d \in Clientes : pc'[d] \in Leyendo => pc[d] \in Leyendo /\ puntero'[d] = puntero[d]
  BY <1>1
<1>4. /\ \A g \in Numeros : punteroHilo'[g] = punteroHilo[g] /\ hilo'[g] = hilo[g]
  BY DEF hilos
<1> QED
  BY <1>2, <1>3, <1>4, ExclusivaQuieta

LEMMA ExclusivaSigue ==
  ASSUME Tipos, Exclusiva, NEW c \in Clientes, NEW lugar, Sigue(c, lugar), Limpio' => Limpio,
         ListaSem' = ListaSem, tablaDe' = tablaDe,
         semaforoCompactacion' = semaforoCompactacion, UNCHANGED hilos,
         lugar \in Esperando \cup Leyendo => pc[c] \in Esperando \cup Leyendo,
         lugar \in Leyendo => pc[c] \in Leyendo
  PROVE  Exclusiva'
<1>1. Va(c, lugar) /\ tabla' = tabla /\ puntero' = puntero
  BY DEF Sigue
<1>2. tabla'[c] = tabla[c] /\ puntero'[c] = puntero[c]
        /\ \A d \in Clientes : d # c => tabla'[d] = tabla[d] /\ puntero'[d] = puntero[d]
  BY <1>1
<1> QED
  BY <1>1, <1>2, ExclusivaCliente

LEMMA ExclusivaTermina ==
  ASSUME Tipos, Exclusiva, NEW c \in Clientes, Termina(c), Limpio' => Limpio,
         ListaSem' = ListaSem, tablaDe' = tablaDe,
         semaforoCompactacion' = semaforoCompactacion, UNCHANGED hilos
  PROVE  Exclusiva'
<1>1. Va(c, "libre")
        /\ \A d \in Clientes : d # c => tabla'[d] = tabla[d] /\ puntero'[d] = puntero[d]
  BY Partes DEF Termina, Tipos, TipoClientes
<1>2. "libre" \notin Esperando \cup Leyendo
  BY DEF Esperando, Leyendo
<1> QED
  BY <1>1, <1>2, ExclusivaCliente

LEMMA ExclusivaHilo ==
  ASSUME Tipos, Exclusiva, NEW g \in Numeros, NEW lugar, VaHilo(g, lugar), Limpio' => Limpio,
         ListaSem' = ListaSem, tablaDe' = tablaDe,
         semaforoCompactacion' = semaforoCompactacion, UNCHANGED clientes,
         punteroHilo'[g] \in {NULL, punteroHilo[g], list_find(tablaDe[g])},
         \A h \in Numeros : h # g => punteroHilo'[h] = punteroHilo[h],
         lugar \in Trabajando => hilo[g] \in Trabajando /\ punteroHilo'[g] = punteroHilo[g]
  PROVE  Exclusiva'
<1>1. hilo'[g] = lugar /\ \A h \in Numeros : h # g => hilo'[h] = hilo[h]
  BY Partes DEF VaHilo, Tipos, TipoHilos
<1>2. \A h \in Numeros : punteroHilo'[h] \in {NULL, punteroHilo[h], list_find(tablaDe[h])}
  OBVIOUS
<1>3. \A h \in Numeros : hilo'[h] \in Trabajando =>
        hilo[h] \in Trabajando /\ punteroHilo'[h] = punteroHilo[h]
  BY <1>1
<1>4. \A d \in Clientes : pc'[d] = pc[d] /\ puntero'[d] = puntero[d] /\ tabla'[d] = tabla[d]
  BY DEF clientes
<1> QED
  BY <1>2, <1>3, <1>4, ExclusivaQuieta

LEMMA ExclusivaPide ==
  ASSUME Tipos, Exclusiva, NEW c \in Clientes, Pide(c)
  PROVE  Exclusiva'
<1>1. PICK t \in Tablas, lugar \in {"select_verifica", "select_inexistente", "insert",
                                    "describe", "drop_verifica", "create_carpeta", "consola_verifica"} :
        Empieza(c, t, lugar)
  BY DEF Pide, SELECT, APIselect, INSERT, DESCRIBE, DROP, CREATE
<1>2. \A d \in Clientes : d # c => tabla'[d] = tabla[d] /\ puntero'[d] = puntero[d]
  BY <1>1, Partes DEF Empieza, Tipos, TipoClientes
<1>3. Va(c, lugar) /\ lugar \notin Esperando \cup Leyendo
  BY <1>1 DEF Empieza, Va, Esperando, Leyendo
<1>4. Limpio' => Limpio
  BY <1>1, RecuerdaTipo DEF Empieza, Tipos, Limpio
<1>5. UNCHANGED <<lista, semaforos, hilos>>
  BY <1>1 DEF Empieza
<1> QED
  BY <1>2, <1>3, <1>4, <1>5, ExclusivaCliente DEF lista, semaforos

\* The steps of clients that take and give back nothing.
LEMMA ExclusivaUsa ==
  ASSUME Tipos, Exclusiva, NEW c \in Clientes,
         \/ verificarSemaforoTabla(c) \/ waitearSemTable(c)
         \/ LeeParticion(c) \/ LeeMemtable(c) \/ agregarTabla(c)
         \/ obtenerMetadataTabla(c) \/ verificarSemaforoCompactacion(c)
         \/ verificarDesdeConsola(c) \/ LeeParticionDesdeConsola(c)
         \/ LeeMemtableDesdeConsola(c)
         \/ crearTabla(c) \/ crearMetadataConfig(c) \/ crearParticion(c)
         \/ dictionary_is_empty(c) \/ list_create(c) \/ AnotaHilo(c)
  PROVE  Exclusiva'
<1>1. ASSUME NEW semaforo, NEW desde, NEW espera \in Esperando,
             NEW hasta \in {"select_busca", "drop_memtable", "consola_lee"},
             verificar(c, semaforo, desde, espera, hasta)
      PROVE  Exclusiva'
  <2>1. UNCHANGED <<lista, semaforos, hilos, tabla>> /\ Anota({})
    BY <1>1 DEF verificar, Sigue
  <2>2. Limpio' => Limpio
    BY <2>1, LimpioAntes
  <2>3. hasta \notin Esperando \cup Leyendo /\ espera \notin Leyendo
    BY DEF Esperando, Leyendo
  <2>4. \A d \in Clientes : d # c => tabla'[d] = tabla[d] /\ puntero'[d] = puntero[d]
    BY <1>1, <2>1, Partes DEF verificar, Sigue, Tipos, TipoClientes
  <2>5. CASE Va(c, hasta)
    BY <2>1, <2>2, <2>3, <2>4, <2>5, ExclusivaCliente DEF lista, semaforos
  <2>6. CASE Va(c, espera) /\ puntero' = [puntero EXCEPT ![c] = list_find(tabla[c])]
    <3>1. puntero'[c] = list_find(tabla'[c])
      BY <2>1, <2>6, Partes DEF Tipos, TipoClientes
    <3> QED
      BY <2>1, <2>2, <2>3, <2>4, <2>6, <3>1, ExclusivaCliente DEF lista, semaforos
  <2> QED
    BY <1>1, <2>5, <2>6 DEF verificar, Sigue
<1>2. CASE verificarSemaforoTabla(c) \/ verificarSemaforoCompactacion(c)
             \/ verificarDesdeConsola(c)
  <2>1. /\ "select_tabla" \in Esperando /\ "drop_espera" \in Esperando
        /\ "consola_tabla" \in Esperando
    BY DEF Esperando
  <2> QED
    BY <1>1, <1>2, <2>1
       DEF verificarSemaforoTabla, verificarSemaforoCompactacion, verificarDesdeConsola
<1>3. CASE waitearSemTable(c)
  <2>1. UNCHANGED <<lista, semaforos, hilos, tabla>> /\ Anota({}) /\ Va(c, "select_espera")
          /\ puntero' = [puntero EXCEPT ![c] = list_find(tabla[c])]
    BY <1>3 DEF waitearSemTable
  <2>2. puntero'[c] = list_find(tabla'[c])
          /\ \A d \in Clientes : d # c => tabla'[d] = tabla[d] /\ puntero'[d] = puntero[d]
    BY <2>1, Partes DEF Tipos, TipoClientes
  <2>3. "select_espera" \notin Leyendo
    BY DEF Leyendo
  <2>4. Limpio' => Limpio
    BY <2>1, LimpioAntes
  <2> QED
    BY <2>1, <2>2, <2>3, <2>4, ExclusivaCliente DEF lista, semaforos
<1>4. CASE LeeParticion(c) \/ LeeMemtable(c) \/ crearTabla(c) \/ crearMetadataConfig(c)
             \/ crearParticion(c) \/ LeeParticionDesdeConsola(c) \/ dictionary_is_empty(c)
  <2>1. UNCHANGED <<lista, semaforos, hilos>> /\ Anota({})
    BY <1>4 DEF LeeParticion, LeeMemtable, crearTabla, crearMetadataConfig, crearParticion,
       Crea, LeeParticionDesdeConsola, dictionary_is_empty
  <2>2. PICK lugar \in {"select_memtable", "select_postea", "create_metadata",
                        "create_particion", "create_prueba", "create_lista",
                        "create_semaforo", "consola_memtable"} :
          Sigue(c, lugar) /\ (lugar \in Leyendo => pc[c] \in Leyendo)
    BY <1>4 DEF LeeParticion, LeeMemtable, crearTabla, crearMetadataConfig, crearParticion,
       Crea, LeeParticionDesdeConsola, dictionary_is_empty, En, Leyendo
  <2>3. lugar \notin Esperando
    BY DEF Esperando
  <2>4. Limpio' => Limpio
    BY <2>1, LimpioAntes
  <2> QED
    BY <2>1, <2>2, <2>3, <2>4, ExclusivaSigue DEF lista, semaforos
<1>5. CASE agregarTabla(c) \/ obtenerMetadataTabla(c) \/ AnotaHilo(c)
             \/ LeeMemtableDesdeConsola(c)
  <2>1. UNCHANGED <<ListaSem, tablaDe, semaforos, hilos>> /\ Anota({}) /\ Termina(c)
    BY <1>5 DEF agregarTabla, obtenerMetadataTabla, AnotaHilo, LeeMemtableDesdeConsola, lista
  <2>2. Limpio' => Limpio
    BY <2>1, LimpioAntes
  <2> QED
    BY <2>1, <2>2, ExclusivaTermina DEF semaforos
<1>6. CASE list_create(c)
  <2> DEFINE S == IF ListaSem # <<>> THEN {"lista"} ELSE {}
  <2>1. /\ UNCHANGED <<tablaDe, semaforos, hilos>> /\ Anota(S) /\ ListaSem' = <<>>
        /\ Sigue(c, "create_semaforo")
    BY <1>6 DEF list_create
  <2>2. S \in SUBSET Sucesos
    BY DEF Sucesos
  <2> SUFFICES ASSUME Limpio' PROVE Exclusiva'
    BY DEF Exclusiva
  <2>3. Limpio /\ "lista" \notin S
    <3> HIDE DEF S
    <3> QED
      BY <2>1, <2>2, LimpioAntes
  <2>4. ListaSem' = ListaSem
    BY <2>1, <2>3
  <2>5. "create_semaforo" \notin Esperando \cup Leyendo
    BY DEF Esperando, Leyendo
  <2> HIDE DEF S
  <2> QED
    BY <2>1, <2>3, <2>4, <2>5, ExclusivaSigue DEF semaforos
<1> QED
  BY <1>2, <1>3, <1>4, <1>5, <1>6

\* DROP takes neither.
LEMMA ExclusivaDROP ==
  ASSUME Tipos, Exclusiva, NEW c \in Clientes,
         \/ RemoverDeLaMemtable(c) \/ RemoverParticionesDeTablaYSusBloques(c)
         \/ RemoverTemporalesDeTablaYSusBloques(c) \/ RemoverMetadataDeTabla(c)
         \/ RemoverCarpetaVaciaDeTabla(c)
  PROVE  Exclusiva'
<1>1. ASSUME NEW S \in SUBSET Sucesos, Anota(S),
             \/ RemoverDeLaMemtable(c)
             \/ \E lugar \in Borrando, F \in SUBSET {"metadata", "bin", "tmp"}, hasta \in Borrando :
                  Borra(c, lugar, F, hasta)
      PROVE  Exclusiva'
  <2>1. UNCHANGED <<lista, semaforos, hilos>>
    BY <1>1 DEF RemoverDeLaMemtable, Borra
  <2>2. PICK lugar \in Borrando : Sigue(c, lugar)
    BY <1>1, Lugares DEF RemoverDeLaMemtable, Borra
  <2>3. lugar \notin Esperando \cup Leyendo
    BY Lugares DEF Esperando, Leyendo
  <2>4. Limpio' => Limpio
    BY <1>1, LimpioAntes
  <2> QED
    BY <2>1, <2>2, <2>3, <2>4, ExclusivaSigue DEF lista, semaforos
<1>2. CASE RemoverDeLaMemtable(c)
  <2> DEFINE S == IF volcador = "vuelca" /\ memTable' = {} THEN {"memtable"} ELSE {}
  <2>1. Anota(S) /\ S \in SUBSET Sucesos
    BY <1>2 DEF RemoverDeLaMemtable, Sucesos
  <2> HIDE DEF S
  <2> QED
    BY <1>1, <1>2, <2>1
<1>3. CASE \/ RemoverParticionesDeTablaYSusBloques(c) \/ RemoverTemporalesDeTablaYSusBloques(c)
           \/ RemoverMetadataDeTabla(c)
  <2>1. /\ Anota({}) /\ {} \in SUBSET Sucesos
        /\ \E lugar \in Borrando, F \in SUBSET {"metadata", "bin", "tmp"}, hasta \in Borrando :
             Borra(c, lugar, F, hasta)
    BY <1>3, Lugares DEF RemoverParticionesDeTablaYSusBloques,
       RemoverTemporalesDeTablaYSusBloques, RemoverMetadataDeTabla, Borra
  <2> QED
    BY <1>1, <2>1
<1>4. CASE RemoverCarpetaVaciaDeTabla(c)
  <2> DEFINE S == IF archivos[tabla[c]] # {} THEN {"resto"} ELSE {}
  <2>1. Anota(S) /\ S \in SUBSET Sucesos
    BY <1>4 DEF RemoverCarpetaVaciaDeTabla, Sucesos
  <2>2. UNCHANGED <<lista, semaforos, hilos>> /\ Termina(c)
    BY <1>4 DEF RemoverCarpetaVaciaDeTabla
  <2> HIDE DEF S
  <2>3. Limpio' => Limpio
    BY <2>1, LimpioAntes
  <2> QED
    BY <2>2, <2>3, ExclusivaTermina DEF lista, semaforos
<1> QED
  BY <1>2, <1>3, <1>4

\* The semaphore of whoever holds one is taken by nobody else.
LEMMA TomadosAlTomar ==
  ASSUME Tomados, NEW s \in Numeros, semaforoCompactacion[s] > 0,
         semaforoCompactacion \in [Numeros -> Nat],
         semaforoCompactacion' = [semaforoCompactacion EXCEPT ![s] = @ - 1]
  PROVE  /\ \A r \in Numeros : semaforoCompactacion'[r] \in 0..1
         /\ semaforoCompactacion'[s] = 0
         /\ \A r \in Numeros : semaforoCompactacion[r] = 0 => semaforoCompactacion'[r] = 0 /\ r # s
<1>1. semaforoCompactacion[s] = 1
  BY DEF Tomados
<1>2. \A r \in Numeros : semaforoCompactacion'[r] =
        IF r = s THEN semaforoCompactacion[s] - 1 ELSE semaforoCompactacion[r]
  OBVIOUS
<1> QED
  BY <1>1, <1>2 DEF Tomados

LEMMA TomadosAlSoltar ==
  ASSUME Tomados, NEW s \in Numeros, semaforoCompactacion[s] = 0,
         semaforoCompactacion \in [Numeros -> Nat],
         semaforoCompactacion' = [semaforoCompactacion EXCEPT ![s] = @ + 1]
  PROVE  /\ \A r \in Numeros : semaforoCompactacion'[r] \in 0..1
         /\ \A r \in Numeros : r # s => semaforoCompactacion'[r] = semaforoCompactacion[r]
<1>1. \A r \in Numeros : semaforoCompactacion'[r] =
        IF r = s THEN semaforoCompactacion[s] + 1 ELSE semaforoCompactacion[r]
  OBVIOUS
<1> QED
  BY <1>1 DEF Tomados

\* SELECT takes.
LEMMA ExclusivaToma ==
  ASSUME Tipos, Exclusiva, NEW c \in Clientes, Toma(c)
  PROVE  Exclusiva'
<1>1. /\ UNCHANGED <<lista, hilos, tabla, puntero>> /\ Anota({}) /\ Va(c, "select_lee")
      /\ pc[c] = "select_espera" /\ semaforoCompactacion[puntero[c]] > 0
      /\ semaforoCompactacion' = [semaforoCompactacion EXCEPT ![puntero[c]] = @ - 1]
  BY DEF Toma, Sigue, En
<1> SUFFICES ASSUME Limpio' PROVE Firmes' /\ Tomados'
  BY DEF Exclusiva
<1>2. Firmes /\ Tomados
  BY <1>1, LimpioAntes DEF Exclusiva
<1>3. /\ "select_espera" \in Esperando /\ "select_espera" \notin Leyendo
      /\ "select_lee" \in Leyendo
  BY DEF Esperando, Leyendo
<1>4. pc'[c] = "select_lee" /\ \A d \in Clientes : d # c => pc'[d] = pc[d]
  BY <1>1, Partes DEF Va, Tipos, TipoClientes
<1>5. Firmes'
  <2>1. \A d \in Clientes : pc'[d] \in Esperando \cup Leyendo =>
          /\ pc[d] \in Esperando \cup Leyendo /\ puntero'[d] = puntero[d]
          /\ tabla'[d] = tabla[d]
    BY <1>1, <1>3, <1>4
  <2>2. \A g \in Numeros : punteroHilo'[g] = punteroHilo[g]
    BY <1>1 DEF hilos
  <2> QED
    BY <1>1, <1>2, <2>1, <2>2, FirmesQuietos DEF lista
<1>6. puntero[c] \in Numeros
  BY <1>1, <1>2, <1>3, DireccionDe
<1>7. /\ \A r \in Numeros : semaforoCompactacion'[r] \in 0..1
      /\ semaforoCompactacion'[puntero[c]] = 0
      /\ \A r \in Numeros :
           semaforoCompactacion[r] = 0 => semaforoCompactacion'[r] = 0 /\ r # puntero[c]
  BY <1>1, <1>2, <1>6, TomadosAlTomar, Partes DEF Tipos, TipoSemaforos
<1>8. /\ \A d \in Clientes : pc[d] \in Leyendo => puntero[d] \in Numeros
      /\ \A g \in Numeros : hilo[g] \in Trabajando => punteroHilo[g] \in Numeros
  BY <1>2, DireccionDe
<1>9. /\ \A d \in Clientes : pc[d] \in Leyendo => puntero[d] # puntero[c] /\ d # c
      /\ \A g \in Numeros : hilo[g] \in Trabajando => punteroHilo[g] # puntero[c]
  BY <1>1, <1>2, <1>3, <1>7, <1>8 DEF Tomados
<1>10. Tomados'
  BY <1>1, <1>2, <1>4, <1>7, <1>8, <1>9 DEF Tomados, hilos
<1> QED
  BY <1>5, <1>10

\* SELECT posts by name what it took by name.
LEMMA ExclusivaPostea ==
  ASSUME Tipos, Exclusiva, NEW c \in Clientes, postearSemTable(c)
  PROVE  Exclusiva'
<1> DEFINE S == IF pc[c] = "select_inexistente" THEN {"inexistente"} ELSE {}
           s == list_find(tabla[c])
<1>1. /\ UNCHANGED <<lista, hilos>> /\ Anota(S) /\ Termina(c)
      /\ pc[c] = "select_postea" \/ pc[c] = "select_inexistente"
      /\ semaforoCompactacion' = [semaforoCompactacion EXCEPT ![s] = @ + 1]
  BY DEF postearSemTable, En
<1>2. S \in SUBSET Sucesos
  BY DEF Sucesos
<1> SUFFICES ASSUME Limpio' PROVE Firmes' /\ Tomados'
  BY DEF Exclusiva
<1>3. Limpio /\ "inexistente" \notin S
  <2> HIDE DEF S
  <2> QED
    BY <1>1, <1>2, LimpioAntes
<1>4. pc[c] = "select_postea" /\ Firmes /\ Tomados
  BY <1>1, <1>3 DEF Exclusiva
<1>5. "select_postea" \in Leyendo /\ "libre" \notin Esperando \cup Leyendo
  BY DEF Leyendo, Esperando
<1>6. puntero[c] = s /\ s \in Numeros /\ semaforoCompactacion[s] = 0
  BY <1>4, <1>5, DireccionDe DEF Firmes, Tomados
<1> HIDE DEF s, S
<1>7. /\ pc'[c] = "libre"
      /\ \A d \in Clientes : d # c => /\ pc'[d] = pc[d] /\ puntero'[d] = puntero[d]
                                      /\ tabla'[d] = tabla[d]
  BY <1>1, Partes DEF Termina, Va, Tipos, TipoClientes
<1>8. Firmes'
  <2>1. \A d \in Clientes : pc'[d] \in Esperando \cup Leyendo =>
          /\ pc[d] \in Esperando \cup Leyendo /\ puntero'[d] = puntero[d]
          /\ tabla'[d] = tabla[d]
    BY <1>5, <1>7
  <2>2. \A g \in Numeros : punteroHilo'[g] = punteroHilo[g]
    BY <1>1 DEF hilos
  <2> QED
    BY <1>1, <1>4, <2>1, <2>2, FirmesQuietos DEF lista
<1>9. /\ \A r \in Numeros : semaforoCompactacion'[r] \in 0..1
      /\ \A r \in Numeros : r # s => semaforoCompactacion'[r] = semaforoCompactacion[r]
  BY <1>1, <1>4, <1>6, TomadosAlSoltar, Partes DEF Tipos, TipoSemaforos
<1>10. /\ \A d \in Clientes : pc[d] \in Leyendo => puntero[d] \in Numeros
       /\ \A g \in Numeros : hilo[g] \in Trabajando => punteroHilo[g] \in Numeros
  BY <1>4, DireccionDe
<1>11. /\ \A d \in Clientes : pc[d] \in Leyendo /\ d # c => puntero[d] # s
       /\ \A g \in Numeros : hilo[g] \in Trabajando => punteroHilo[g] # s
  BY <1>4, <1>5, <1>6 DEF Tomados
<1>12. Tomados'
  BY <1>1, <1>4, <1>5, <1>7, <1>9, <1>10, <1>11 DEF Tomados, hilos
<1> QED
  BY <1>8, <1>12

\* The compaction takes.
LEMMA ExclusivaTomaCompactacion ==
  ASSUME Tipos, Exclusiva, NEW g \in Numeros, TomaCompactacion(g)
  PROVE  Exclusiva'
<1>1. /\ UNCHANGED <<lista, clientes, punteroHilo>> /\ Anota({}) /\ VaHilo(g, "renombra")
      /\ hilo[g] = "espera" /\ semaforoCompactacion[punteroHilo[g]] > 0
      /\ semaforoCompactacion' = [semaforoCompactacion EXCEPT ![punteroHilo[g]] = @ - 1]
  BY DEF TomaCompactacion, EnHilo
<1> SUFFICES ASSUME Limpio' PROVE Firmes' /\ Tomados'
  BY DEF Exclusiva
<1>2. Firmes /\ Tomados
  BY <1>1, LimpioAntes DEF Exclusiva
<1>3. hilo'[g] = "renombra" /\ \A h \in Numeros : h # g => hilo'[h] = hilo[h]
  BY <1>1, Partes DEF VaHilo, Tipos, TipoHilos
<1>4. "renombra" \in Trabajando /\ "espera" \notin Trabajando
  BY Lugares
<1>5. Firmes'
  <2>1. \A d \in Clientes : pc'[d] \in Esperando \cup Leyendo =>
          /\ pc[d] \in Esperando \cup Leyendo /\ puntero'[d] = puntero[d]
          /\ tabla'[d] = tabla[d]
    BY <1>1 DEF clientes
  <2>2. \A h \in Numeros : punteroHilo'[h] = punteroHilo[h]
    BY <1>1
  <2> QED
    BY <1>1, <1>2, <2>1, <2>2, FirmesQuietos DEF lista
<1>6. punteroHilo[g] \in Numeros
  BY <1>1, <1>2, DireccionDe
<1>7. /\ \A r \in Numeros : semaforoCompactacion'[r] \in 0..1
      /\ semaforoCompactacion'[punteroHilo[g]] = 0
      /\ \A r \in Numeros :
           semaforoCompactacion[r] = 0 => semaforoCompactacion'[r] = 0 /\ r # punteroHilo[g]
  BY <1>1, <1>2, <1>6, TomadosAlTomar, Partes DEF Tipos, TipoSemaforos
<1>8. /\ \A d \in Clientes : pc[d] \in Leyendo => puntero[d] \in Numeros
      /\ \A h \in Numeros : hilo[h] \in Trabajando => punteroHilo[h] \in Numeros
  BY <1>2, DireccionDe
<1>9. /\ \A d \in Clientes : pc[d] \in Leyendo => puntero[d] # punteroHilo[g]
      /\ \A h \in Numeros : hilo[h] \in Trabajando => punteroHilo[h] # punteroHilo[g] /\ h # g
  BY <1>1, <1>2, <1>4, <1>7, <1>8 DEF Tomados
<1>10. Tomados'
  BY <1>1, <1>2, <1>3, <1>7, <1>8, <1>9 DEF Tomados, clientes
<1> QED
  BY <1>5, <1>10

\* The compaction gives back.
LEMMA ExclusivaSuelta ==
  ASSUME Tipos, Exclusiva, NEW g \in Numeros, SueltaCompactacion(g)
  PROVE  Exclusiva'
<1> DEFINE s == punteroHilo[g]
<1>1. /\ UNCHANGED <<lista, clientes>> /\ Anota({}) /\ VaHilo(g, "duerme")
      /\ hilo[g] = "suelta" /\ punteroHilo' = [punteroHilo EXCEPT ![g] = NULL]
      /\ semaforoCompactacion' = [semaforoCompactacion EXCEPT ![s] = @ + 1]
  BY DEF SueltaCompactacion, EnHilo
<1> SUFFICES ASSUME Limpio' PROVE Firmes' /\ Tomados'
  BY DEF Exclusiva
<1>2. Firmes /\ Tomados
  BY <1>1, LimpioAntes DEF Exclusiva
<1>3. /\ hilo'[g] = "duerme" /\ punteroHilo'[g] = NULL
      /\ \A h \in Numeros : h # g => hilo'[h] = hilo[h] /\ punteroHilo'[h] = punteroHilo[h]
  BY <1>1, Partes DEF VaHilo, Tipos, TipoHilos
<1>4. "suelta" \in Trabajando /\ "duerme" \notin Trabajando
  BY Lugares
<1>5. Firmes'
  <2>1. \A d \in Clientes : pc'[d] \in Esperando \cup Leyendo =>
          /\ pc[d] \in Esperando \cup Leyendo /\ puntero'[d] = puntero[d]
          /\ tabla'[d] = tabla[d]
    BY <1>1 DEF clientes
  <2>2. \A h \in Numeros : punteroHilo'[h] \in {NULL, punteroHilo[h]}
    BY <1>3
  <2> QED
    BY <1>1, <1>2, <2>1, <2>2, FirmesQuietos DEF lista
<1>6. s \in Numeros /\ semaforoCompactacion[s] = 0
  BY <1>1, <1>2, <1>4, DireccionDe DEF Tomados
<1> HIDE DEF s
<1>7. /\ \A r \in Numeros : semaforoCompactacion'[r] \in 0..1
      /\ \A r \in Numeros : r # s => semaforoCompactacion'[r] = semaforoCompactacion[r]
  BY <1>1, <1>2, <1>6, TomadosAlSoltar, Partes DEF Tipos, TipoSemaforos
<1>8. /\ \A d \in Clientes : pc[d] \in Leyendo => puntero[d] \in Numeros
      /\ \A h \in Numeros : hilo[h] \in Trabajando => punteroHilo[h] \in Numeros
  BY <1>2, DireccionDe
<1>9. /\ \A d \in Clientes : pc[d] \in Leyendo => puntero[d] # s
      /\ \A h \in Numeros : hilo[h] \in Trabajando /\ h # g => punteroHilo[h] # s
  BY <1>1, <1>2, <1>4 DEF Tomados, s
<1>10. Tomados'
  BY <1>1, <1>2, <1>3, <1>4, <1>7, <1>8, <1>9 DEF Tomados, clientes
<1> QED
  BY <1>5, <1>10

\* A semaphore leaves the list: nobody had its address, or "riesgo" says so, and the
\* first elements of the other names are still first.
LEMMA ExclusivaSaca ==
  ASSUME Tipos, Exclusiva, NEW g \in Numeros, Saca(g)
  PROVE  Exclusiva'
<1> DEFINE t == tablaDe[g]
           s == list_find(t)
           S == IF s # NULL /\ Apuntan(s) THEN {"liberado"} ELSE {}
<1>1. /\ UNCHANGED <<tablaDe, punteroHilo, clientes>> /\ Anota(S) /\ VaHilo(g, "olvida")
  BY DEF Saca
<1>2. S \in SUBSET Sucesos
  BY DEF Sucesos
<1> SUFFICES ASSUME Limpio' PROVE Firmes' /\ Tomados'
  BY DEF Exclusiva
<1>3. Limpio /\ "liberado" \notin S
  <2> HIDE DEF S
  <2> QED
    BY <1>1, <1>2, LimpioAntes
<1>0. "enlaces" \notin riesgo
  BY <1>3 DEF Limpio
<1>4. Firmes /\ Tomados
  BY <1>3 DEF Exclusiva
<1>5. hilo'[g] \notin Trabajando /\ \A h \in Numeros : h # g => hilo'[h] = hilo[h]
  BY <1>1, Partes, Lugares DEF VaHilo, Tipos, TipoHilos
<1>6. /\ \A d \in Clientes : pc'[d] = pc[d] /\ puntero'[d] = puntero[d] /\ tabla'[d] = tabla[d]
  BY <1>1 DEF clientes
<1>7. CASE s = NULL
  <2>1. ListaSem' = ListaSem /\ semaforoCompactacion' = semaforoCompactacion
    BY <1>0, <1>7 DEF Saca
  <2>2. \A h \in Numeros : hilo'[h] \in Trabajando =>
          hilo[h] \in Trabajando /\ punteroHilo'[h] = punteroHilo[h]
    BY <1>1, <1>5
  <2>3. Exclusiva'
    BY <1>1, <1>3, <1>6, <2>1, <2>2, ExclusivaQuieta
  <2> QED
    BY <2>3 DEF Exclusiva
<1>8. CASE s # NULL
  <2>0. Destruye(Primera(t)) /\ ListaSem[Primera(t)] = s
    BY <1>0, <1>8, PrimeraDonde DEF Saca
  <2>1. ListaSem' = SinPrimera(t)
    BY <2>0 DEF Destruye, SinPrimera
  <2>2. PICK v \in 0..1 : semaforoCompactacion' = [semaforoCompactacion EXCEPT ![s] = v]
    BY <2>0 DEF Destruye
  <2>3. ~Apuntan(s)
    BY <1>3, <1>8
  <2>4. /\ \A d \in Clientes : pc[d] \in Esperando \cup Leyendo => puntero[d] # s
        /\ \A h \in Numeros : punteroHilo[h] # s
    <3>1. "create_hilo" \notin Esperando \cup Leyendo /\ "create_anota" \notin Esperando \cup Leyendo
      BY DEF Esperando, Leyendo
    <3> QED
      BY <2>3, <3>1 DEF Apuntan
  <2>5. \A u : u # t => list_find(u)' = list_find(u)
    BY <1>1, <1>8, <2>1, HallaAlSacar, HallaEsListFind
  <2>6. Firmes'
    <3>1. ASSUME NEW d \in Clientes, pc[d] \in Esperando \cup Leyendo
          PROVE  puntero[d] = list_find(tabla[d]) /\ tabla[d] # t
      BY <1>4, <2>4, <3>1 DEF Firmes
    <3>2. ASSUME NEW h \in Numeros, punteroHilo[h] # NULL
          PROVE  punteroHilo[h] = list_find(tablaDe[h]) /\ tablaDe[h] # t
      BY <1>4, <2>4, <3>2 DEF Firmes
    <3>3. ASSUME NEW d \in Clientes, pc[d] \in Esperando \cup Leyendo
          PROVE  list_find(tabla[d])' = puntero[d]
      <4>1. list_find(tabla[d])' = Halla(ListaSem', tablaDe', tabla'[d])
        BY HallaEsListFind
      <4>2. list_find(tabla[d]) = Halla(SinPrimera(t), tablaDe, tabla[d])
        BY <1>8, <3>1, <3>3, HallaAlSacar
      <4> QED
        BY <1>1, <1>6, <2>1, <3>1, <3>3, <4>1, <4>2
    <3>4. ASSUME NEW h \in Numeros, punteroHilo[h] # NULL
          PROVE  list_find(tablaDe[h])' = punteroHilo[h]
      <4>1. list_find(tablaDe[h])' = Halla(ListaSem', tablaDe', tablaDe'[h])
        BY HallaEsListFind
      <4>2. list_find(tablaDe[h]) = Halla(SinPrimera(t), tablaDe, tablaDe[h])
        BY <1>8, <3>2, <3>4, HallaAlSacar
      <4> QED
        BY <1>1, <2>1, <3>2, <3>4, <4>1, <4>2
    <3> QED
      BY <1>1, <1>6, <3>3, <3>4 DEF Firmes
  <2>7. s \in Numeros
    BY <1>8, HallaTipo, Constantes
  <2> HIDE DEF s, S
  <2>8. /\ \A r \in Numeros : semaforoCompactacion'[r] \in 0..1
        /\ \A r \in Numeros : r # s => semaforoCompactacion'[r] = semaforoCompactacion[r]
    BY <1>4, <2>2, <2>7, Partes DEF Tomados, Tipos, TipoSemaforos
  <2>9. /\ \A d \in Clientes : pc[d] \in Leyendo => puntero[d] \in Numeros /\ puntero[d] # s
        /\ \A h \in Numeros : hilo[h] \in Trabajando => punteroHilo[h] \in Numeros
    BY <1>4, <2>4, DireccionDe
  <2>10. Tomados'
    BY <1>1, <1>4, <1>5, <1>6, <2>4, <2>8, <2>9 DEF Tomados
  <2> QED
    BY <2>6, <2>10
<1> QED
  BY <1>7, <1>8

\* A semaphore goes to the end of the list.
LEMMA ExclusivaSemaforo ==
  ASSUME Tipos, Exclusiva, NEW c \in Clientes, crearSemaforo(c)
  PROVE  Exclusiva'
<1> DEFINE S == {}
           n == usados + 1
<1>1. UNCHANGED <<tabla, hilos>> /\ Anota(S) /\ Va(c, "create_hilo")
  BY DEF crearSemaforo
<1>2. S \in SUBSET Sucesos
  BY DEF Sucesos
<1>3. usados' = n /\ n \in Numeros /\ usados \in Nat /\ \A r \in 0..usados : r # n
  BY AlcanzaSemaforo, Constantes DEF Tipos
<1> SUFFICES ASSUME Limpio' PROVE Firmes' /\ Tomados'
  BY DEF Exclusiva
<1>4. Limpio /\ "enlaces" \notin riesgo
  BY <1>1, <1>2, LimpioAntes DEF Limpio
<1>5. Firmes /\ Tomados
  BY <1>4 DEF Exclusiva
<1>6. /\ ListaSem' = Append(ListaSem, n) /\ tablaDe' = [tablaDe EXCEPT ![n] = tabla[c]]
      /\ semaforoCompactacion' = [semaforoCompactacion EXCEPT ![n] = 1]
      /\ puntero' = [puntero EXCEPT ![c] = n]
  BY <1>3, <1>4 DEF crearSemaforo
<1> HIDE DEF S, n
<1>7. /\ pc'[c] = "create_hilo" /\ "create_hilo" \notin Esperando \cup Leyendo
      /\ \A d \in Clientes : d # c => pc'[d] = pc[d] /\ puntero'[d] = puntero[d]
  BY <1>1, <1>6, Partes DEF Va, Tipos, TipoClientes, Esperando, Leyendo
<1>8. ASSUME NEW t, list_find(t) # NULL
      PROVE  Halla(ListaSem', tablaDe', t) = list_find(t)
  <2>1. ListaSem \in Seq(1..usados)
    BY Partes DEF Tipos, TipoLista
  <2>2. Coinciden(tablaDe', tablaDe, 1..usados)
    <3>1. \A r \in 1..usados : r \in Numeros /\ r # n
      BY <1>3, Partes, Constantes DEF Tipos, TipoLista
    <3> QED
      BY <3>1, <1>6, Partes DEF Tipos, TipoLista, Coinciden
  <2>3. Halla(ListaSem, tablaDe, t) = list_find(t)
    BY HallaEsListFind
  <2> QED
    BY <1>6, <1>8, <2>1, <2>2, <2>3, HallaAlAgregar
<1>9. Firmes'
  <2>1. ASSUME NEW d \in Clientes, pc'[d] \in Esperando \cup Leyendo
        PROVE  puntero'[d] = list_find(tabla[d])'
    <3>1. d # c /\ pc[d] \in Esperando \cup Leyendo /\ puntero'[d] = puntero[d]
            /\ tabla'[d] = tabla[d]
      BY <1>1, <1>7, <2>1
    <3>2. puntero[d] \in Numeros /\ puntero[d] = list_find(tabla[d])
      BY <1>5, <3>1, DireccionDe DEF Firmes
    <3>3. list_find(tabla[d])' = Halla(ListaSem', tablaDe', tabla'[d])
      BY HallaEsListFind
    <3>4. puntero[d] # NULL
      BY <3>2, Constantes
    <3> QED
      BY <1>8, <3>1, <3>2, <3>3, <3>4
  <2>2. ASSUME NEW h \in Numeros, punteroHilo'[h] # NULL
        PROVE  punteroHilo'[h] = list_find(tablaDe[h])'
    <3>1. punteroHilo'[h] = punteroHilo[h] /\ punteroHilo[h] = list_find(tablaDe[h])
      BY <1>1, <1>5, <2>2 DEF hilos, Firmes
    <3>2. h <= usados /\ h # n
      BY <1>1, <1>3, <2>2, Constantes DEF hilos, Tipos, Direcciones, n
    <3>3. tablaDe'[h] = tablaDe[h]
      BY <1>6, <3>2, Partes DEF Tipos, TipoLista
    <3>4. list_find(tablaDe[h])' = Halla(ListaSem', tablaDe', tablaDe'[h])
      BY HallaEsListFind
    <3> QED
      BY <1>8, <2>2, <3>1, <3>3, <3>4
  <2> QED
    BY <2>1, <2>2 DEF Firmes
<1>10. /\ \A r \in Numeros : semaforoCompactacion'[r] \in 0..1
       /\ \A r \in Numeros : r # n => semaforoCompactacion'[r] = semaforoCompactacion[r]
  BY <1>3, <1>5, <1>6, Partes DEF Tomados, Tipos, TipoSemaforos
<1>11. /\ \A d \in Clientes : pc[d] \in Leyendo => puntero[d] \in Numeros /\ puntero[d] # n
       /\ \A h \in Numeros : hilo[h] \in Trabajando =>
            punteroHilo[h] \in Numeros /\ punteroHilo[h] # n
  <2>1. \A d \in Clientes : puntero[d] \in 0..usados
    BY DEF Tipos, Direcciones
  <2>2. \A h \in Numeros : punteroHilo[h] \in 0..usados
    BY DEF Tipos, Direcciones
  <2> QED
    BY <1>3, <1>5, <2>1, <2>2, DireccionDe
<1>12. Tomados'
  BY <1>1, <1>5, <1>7, <1>10, <1>11 DEF Tomados, hilos
<1> QED
  BY <1>9, <1>12

LEMMA ExclusivaLevanta ==
  ASSUME Tipos, Exclusiva, NEW c \in Clientes, levantarHiloCompactacion(c)
  PROVE  Exclusiva'
<1>1. /\ UNCHANGED <<lista, semaforos, punteroHilo, tabla, puntero>> /\ Anota({})
      /\ Va(c, "create_anota") /\ VaHilo(puntero[c], "arranca")
  BY DEF levantarHiloCompactacion, Sigue
<1>2. Limpio' => Limpio
  BY <1>1, LimpioAntes
<1>3. "arranca" \notin Trabajando /\ "create_anota" \notin Esperando \cup Leyendo
  BY Lugares DEF Esperando, Leyendo
<1>4. \A g \in Numeros : hilo'[g] \in Trabajando => hilo[g] \in Trabajando
  BY <1>1, <1>3, Partes DEF VaHilo, Tipos, TipoHilos
<1>5. \A d \in Clientes : /\ pc'[d] \in Esperando \cup Leyendo => pc'[d] = pc[d]
                          /\ puntero'[d] = puntero[d] /\ tabla'[d] = tabla[d]
  BY <1>1, <1>3, Partes DEF Va, Tipos, TipoClientes
<1>6. \A d \in Clientes :
        /\ pc'[d] \in Esperando \cup Leyendo =>
             /\ pc[d] \in Esperando \cup Leyendo /\ puntero'[d] = puntero[d]
             /\ tabla'[d] = tabla[d]
        /\ pc'[d] \in Leyendo => pc[d] \in Leyendo /\ puntero'[d] = puntero[d]
  BY <1>5
<1>7. \A g \in Numeros : /\ punteroHilo'[g] \in {NULL, punteroHilo[g], list_find(tablaDe[g])}
                         /\ punteroHilo'[g] = punteroHilo[g]
  BY <1>1
<1> QED
  BY <1>1, <1>2, <1>4, <1>6, <1>7, ExclusivaQuieta DEF lista, semaforos

\* Nothing of it changes.
LEMMA ExclusivaIgual ==
  ASSUME Exclusiva, Limpio' => Limpio, UNCHANGED <<lista, semaforos, clientes, hilos>>
  PROVE  Exclusiva'
<1>1. \A d \in Clientes : pc'[d] = pc[d] /\ puntero'[d] = puntero[d] /\ tabla'[d] = tabla[d]
  BY DEF clientes
<1>2. \A g \in Numeros : hilo'[g] = hilo[g] /\ punteroHilo'[g] = punteroHilo[g]
  BY DEF hilos
<1> QED
  BY <1>1, <1>2, ExclusivaQuieta DEF lista, semaforos

LEMMA ExclusivaCompactar ==
  ASSUME Tipos, Exclusiva, NEW g \in Numeros, funcionCompactar(g)
  PROVE  Exclusiva'
<1>1. ASSUME NEW desde, NEW hasta, hasta \in Trabajando => desde \in Trabajando,
             Avanza(g, desde, hasta)
      PROVE  Exclusiva'
  <2>1. /\ UNCHANGED <<punteroHilo, lista, semaforos, clientes>> /\ Anota({})
        /\ VaHilo(g, hasta) /\ hilo[g] = desde
    BY <1>1 DEF Avanza, EnHilo
  <2>2. Limpio' => Limpio
    BY <2>1, LimpioAntes
  <2>3. \A h \in Numeros : punteroHilo'[h] = punteroHilo[h]
    BY <2>1
  <2> QED
    BY <1>1, <2>1, <2>2, <2>3, ExclusivaHilo DEF lista, semaforos
<1>2. CASE Arranca(g) \/ Despierta(g) \/ Une(g) \/ Indice(g)
  BY <1>1, <1>2, Lugares DEF Arranca, Despierta, Une, Indice
<1>3. CASE Busca(g)
  <2>1. UNCHANGED <<lista, semaforos, clientes>> /\ Anota({})
    BY <1>3 DEF Busca
  <2>2. PICK lugar \in {"espera", "duerme"} : VaHilo(g, lugar)
    BY <1>3 DEF Busca
  <2>3. /\ punteroHilo'[g] \in {NULL, punteroHilo[g], list_find(tablaDe[g])}
        /\ \A h \in Numeros : h # g => punteroHilo'[h] = punteroHilo[h]
    BY <1>3, Partes DEF Busca, Tipos, TipoHilos
  <2>4. Limpio' => Limpio
    BY <2>1, LimpioAntes
  <2>5. lugar \notin Trabajando
    BY Lugares
  <2> QED
    BY <2>1, <2>2, <2>3, <2>4, <2>5, ExclusivaHilo DEF lista, semaforos
<1>4. CASE cambiarNombreTmpATmpc(g) \/ BorraBin(g) \/ crearParticionNueva(g) \/ Olvida(g)
  <2>1. /\ UNCHANGED <<punteroHilo, ListaSem, tablaDe, semaforoCompactacion, clientes>>
        /\ Anota({})
    BY <1>4 DEF cambiarNombreTmpATmpc, BorraBin, crearParticionNueva, Olvida, lista, semaforos
  <2>2. PICK lugar \in {"une", "escribe_bin", "suelta", "fin"} :
          VaHilo(g, lugar) /\ (lugar \in Trabajando => hilo[g] \in Trabajando)
    BY <1>4, Lugares DEF cambiarNombreTmpATmpc, BorraBin, crearParticionNueva, Olvida, EnHilo
  <2>3. Limpio' => Limpio
    BY <2>1, LimpioAntes
  <2>4. \A h \in Numeros : punteroHilo'[h] = punteroHilo[h]
    BY <2>1
  <2> QED
    BY <2>1, <2>2, <2>3, <2>4, ExclusivaHilo
<1>5. CASE MuereHilo(g)
  <2>1. UNCHANGED <<lista, semaforos, clientes, hilos>> /\ Anota({})
    BY <1>5 DEF MuereHilo, Muere
  <2> QED
    BY <2>1, LimpioAntes, ExclusivaIgual
<1> QED
  BY <1>2, <1>3, <1>4, <1>5, ExclusivaTomaCompactacion, ExclusivaSuelta, ExclusivaSaca
     DEF funcionCompactar

LEMMA ExclusivaNext == Tipos /\ Exclusiva /\ [Next]_vars => Exclusiva'
<1> SUFFICES ASSUME Tipos, Exclusiva, [Next]_vars PROVE Exclusiva'
  OBVIOUS
<1>1. ASSUME NEW c \in Clientes, Atiende(c) PROVE Exclusiva'
  <2>1. CASE SinSemaforo(c) \/ SinArchivo(c)
    <3> DEFINE S == IF pc[c] = "select_inexistente" THEN {"inexistente"} ELSE {}
    <3>1. UNCHANGED <<lista, semaforos, clientes, hilos>> /\ (Anota(S) \/ Anota({}))
      BY <2>1 DEF SinSemaforo, SinArchivo, Muere
    <3>2. S \in SUBSET Sucesos
      BY DEF Sucesos
    <3> HIDE DEF S
    <3>3. Limpio' => Limpio
      BY <3>1, <3>2, LimpioAntes
    <3> QED
      BY <3>1, <3>3, ExclusivaIgual
  <2> QED
    BY <1>1, <2>1, ExclusivaUsa, ExclusivaToma, ExclusivaPostea, ExclusivaDROP,
       ExclusivaSemaforo, ExclusivaLevanta DEF Atiende
<1>2. CASE chekearDumpeo \/ dump
  <2>1. UNCHANGED <<lista, semaforos, clientes, hilos>> /\ Anota({})
    BY <1>2 DEF chekearDumpeo, dump, Muere
  <2> QED
    BY <2>1, LimpioAntes, ExclusivaIgual
<1>3. CASE UNCHANGED vars
  BY <1>3, ExclusivaIgual DEF vars, Limpio
<1> QED
  BY <1>1, <1>2, <1>3, ExclusivaPide, ExclusivaCompactar DEF Next

LEMMA ExclusivaInit == Init => Exclusiva
<1> SUFFICES ASSUME Init PROVE Firmes /\ Tomados
  BY DEF Exclusiva
<1>1. PICK n \in 0..MaxSemaforos : \E tablas \in [1..n -> Tablas] : EstadoInicial(n, tablas)
  BY SMTT(30) DEF Init, EstadoInicial
<1>2. /\ semaforoCompactacion = [g \in Numeros |-> IF g <= n THEN 1 ELSE 0]
      /\ pc = [c \in Clientes |-> "libre"]
      /\ hilo = [g \in Numeros |-> IF g <= n THEN "arranca" ELSE "no"]
      /\ punteroHilo = [g \in Numeros |-> NULL]
  BY <1>1 DEF EstadoInicial
<1> QED
  BY <1>2, Lugares DEF Firmes, Tomados, Esperando, Leyendo

\* All who hold a semaphore of a table hold the same one.
LEMMA UnoSolo ==
  ASSUME Tipos, Firmes, Tomados, NEW t \in Tablas
  PROVE  Cardinality(Lectores(t)) + Cardinality(Compactadores(t)) <= 1
<1>1. \A c \in Lectores(t) : c \in Clientes /\ pc[c] \in Leyendo /\ puntero[c] = list_find(t)
  BY DEF Lectores, EnTabla, Leyendo, Firmes
<1>2. \A g \in Compactadores(t) :
        g \in Numeros /\ hilo[g] \in Trabajando /\ punteroHilo[g] = list_find(t)
  <2>1. \A g \in Compactadores(t) : g \in Numeros /\ hilo[g] \in Trabajando /\ tablaDe[g] = t
    BY DEF Compactadores, Trabajando
  <2>2. \A g \in Compactadores(t) : punteroHilo[g] # NULL
    BY <2>1 DEF Tipos, Direcciones
  <2> QED
    BY <2>1, <2>2 DEF Firmes
<1>3. \A c, d \in Lectores(t) : c = d
  BY <1>1 DEF Tomados
<1>4. \A g, h \in Compactadores(t) : g = h
  BY <1>2 DEF Tomados
<1>5. Lectores(t) = {} \/ Compactadores(t) = {}
  BY <1>1, <1>2 DEF Tomados
<1>6. Cardinality({}) = 0
  BY FS_EmptySet
<1>7. Lectores(t) = {} \/ \E c : Lectores(t) = {c}
  BY <1>3
<1>8. Compactadores(t) = {} \/ \E g : Compactadores(t) = {g}
  BY <1>4
<1>9. Lectores(t) = {} \/ Cardinality(Lectores(t)) = 1
  BY <1>7, FS_Singleton
<1>10. Compactadores(t) = {} \/ Cardinality(Compactadores(t)) = 1
  BY <1>8, FS_Singleton
<1> QED
  BY <1>5, <1>6, <1>9, <1>10

\* Whatever DROP and CREATE do to the list of semaphores, a table has one reader or one
\* compaction, until a SELECT posts what it did not take, a semaphore is destroyed in use,
\* the list is started again or two changes of it overlap.
THEOREM UnLectorOUnaCompactacion == Spec => []Exclusion
<1>1. Spec => [](Tipos /\ Exclusiva)
  BY TiposInit, TiposNext, ExclusivaInit, ExclusivaNext, PTL DEF Spec
<1>2. Tipos /\ Exclusiva => Exclusion
  BY UnoSolo DEF Exclusiva, Exclusion, Limpio
<1> QED
  BY <1>1, <1>2, PTL

-----------------------------------------------------------------------------
(* What a directory holds while no CREATE or DROP overlaps another         *)
(* operation on its table: Vida.                                           *)

Aparte == "solapa" \notin riesgo

\* Where a client is when its table has a directory, and where the files of the
\* table are coming or going.
Dentro == Usos \cup Bajas \cup {"create_metadata", "create_particion", "create_prueba",
                                "create_lista", "create_semaforo"}
Fijos == {"create_metadata", "create_particion", "drop_temporales", "drop_metadata",
          "drop_carpeta"}

Directorios ==
  /\ \A c \in Clientes : pc[c] \in Dentro => tabla[c] \in carpetas
  /\ \A g \in Numeros : hilo[g] \in Compactando => tablaDe[g] \in carpetas

\* What a DROP has already deleted does not come back.
Retirados ==
  \A c \in Clientes :
    /\ pc[c] = "drop_temporales" => "bin" \notin archivos[tabla[c]]
    /\ pc[c] = "drop_metadata" => archivos[tabla[c]] \subseteq {"metadata", "tmpc"}
    /\ pc[c] = "drop_carpeta" => archivos[tabla[c]] \subseteq {"tmpc"}

\* A compaction found the metadata, and it is still there.
HilosConMetadata ==
  \A g \in Numeros : hilo[g] \in Compactando \ {"arranca", "busca"}
    => "metadata" \in archivos[tablaDe[g]]

\* The operation that leaves table t without the file for a while.
Falta(L, t) == \E c \in Clientes : pc[c] \in L /\ tabla[c] = t
Reescribe(t) == \E g \in Numeros : hilo[g] = "escribe_bin" /\ tablaDe[g] = t

ConMetadata ==
  \A t \in carpetas : \/ "metadata" \in archivos[t]
                      \/ Falta({"create_metadata", "drop_carpeta"}, t)
                      \/ "tmpc" \in archivos[t] /\ "resto" \in riesgo
ConParticion ==
  \A t \in carpetas : \/ "bin" \in archivos[t]
                      \/ Falta(Fijos, t) \/ Reescribe(t)
                      \/ "resto" \in riesgo

Ordenada == /\ ~Solapan /\ Directorios /\ Retirados /\ HilosConMetadata
            /\ ConMetadata /\ ConParticion
Vida == Aparte => Ordenada

\* The thread of a CREATE that has not started it: it is nobody else's.
Nacientes ==
  /\ \A c \in Clientes : pc[c] = "create_hilo" =>
       puntero[c] \in Numeros /\ hilo[puntero[c]] = "no" /\ tablaDe[puntero[c]] = tabla[c]
  /\ \A c, d \in Clientes :
       pc[c] = "create_hilo" /\ pc[d] = "create_hilo" /\ puntero[c] = puntero[d] => c = d

LEMMA MasLugares ==
  /\ Usos = {"select_verifica", "select_tabla", "select_busca", "select_espera", "select_lee",
       "select_memtable", "select_postea", "insert", "describe", "drop_verifica",
       "drop_espera", "create_hilo", "consola_verifica", "consola_tabla", "consola_lee",
       "consola_memtable"}
  /\ Bajas = {"drop_memtable", "drop_particion", "drop_temporales", "drop_metadata",
       "drop_carpeta"}
  /\ Compactando = {"arranca", "busca", "espera", "renombra", "une", "borra_bin",
       "escribe_bin", "suelta"}
  /\ Dentro = {"create_metadata", "create_particion", "create_prueba", "create_lista",
       "create_semaforo", "drop_memtable",
       "drop_particion", "drop_temporales", "drop_metadata", "drop_carpeta",
       "select_verifica", "select_tabla", "select_busca", "select_espera", "select_lee",
       "select_memtable", "select_postea", "insert", "describe", "drop_verifica",
       "drop_espera", "create_hilo", "consola_verifica", "consola_tabla", "consola_lee",
       "consola_memtable"}
  BY DEF Usos, DeConsola, Bajas, Compactando, Dentro

\* Beside a CREATE or a DROP there is nobody on its table.
LEMMA ASolas ==
  ASSUME Tipos, ~Solapan, NEW c \in Clientes, pc[c] \in Altas \cup Bajas
  PROVE  /\ tabla[c] \in Tablas
         /\ \A d \in Clientes : d # c /\ pc[d] \in Altas \cup Bajas \cup Usos
              => tabla[d] # tabla[c]
         /\ \A g \in Numeros : hilo[g] \in Compactando => tablaDe[g] # tabla[c]
<1>1. tabla[c] \in Tablas
  BY Lugares, MasLugares DEF Tipos, Direcciones
<1>2. c \in EnTabla(Altas \cup Bajas, tabla[c])
  BY DEF EnTabla
<1>3. ASSUME NEW d \in Clientes, d # c, pc[d] \in Altas \cup Bajas \cup Usos,
             tabla[d] = tabla[c]
      PROVE  FALSE
  <2>1. d \in EnTabla(Altas \cup Bajas \cup Usos, tabla[c]) \ {c}
    BY <1>3 DEF EnTabla
  <2> QED
    BY <1>1, <1>2, <2>1 DEF Solapan
<1>4. ASSUME NEW g \in Numeros, hilo[g] \in Compactando, tablaDe[g] = tabla[c]
      PROVE  FALSE
  BY <1>1, <1>2, <1>4 DEF Solapan
<1> QED
  BY <1>1, <1>3, <1>4

\* The history remembers an overlap.
LEMMA ApartaAntes ==
  ASSUME Tipos, NEW S \in SUBSET Sucesos, Recuerda(S), Aparte'
  PROVE  Aparte /\ ~Solapan' /\ riesgo \subseteq riesgo' /\ S \subseteq riesgo'
<1>1. riesgo \subseteq riesgo' /\ S \subseteq riesgo'
  BY RecuerdaTipo DEF Tipos
<1>2. ~Solapan'
  BY DEF Recuerda, Ocurre, Aparte
<1> QED
  BY <1>1, <1>2 DEF Aparte

\* Steps that leave the disk alone: who is in Fijos stays, and who enters has a directory.
ClientesQuietos ==
  \A c \in Clientes :
    \/ pc'[c] = pc[c] /\ tabla'[c] = tabla[c]
    \/ /\ pc[c] \notin Fijos /\ pc'[c] \notin Fijos
       /\ pc'[c] \in Dentro => tabla'[c] \in carpetas
HilosQuietos ==
  \A g \in Numeros :
    /\ hilo[g] = "escribe_bin" <=> hilo'[g] = "escribe_bin"
    /\ hilo'[g] \in Compactando =>
         /\ tablaDe'[g] = tablaDe[g] /\ tablaDe[g] \in carpetas
         /\ hilo'[g] \in {"arranca", "busca"} \/ "metadata" \in archivos[tablaDe[g]]

LEMMA VidaQuieta ==
  ASSUME Ordenada, ~Solapan', riesgo \subseteq riesgo', UNCHANGED disco,
         ClientesQuietos, HilosQuietos
  PROVE  Ordenada'
<1> USE DEF Ordenada
<1>1. carpetas' = carpetas /\ archivos' = archivos
  BY DEF disco
<1>2. Directorios'
  <2>1. ASSUME NEW c \in Clientes, pc'[c] \in Dentro PROVE tabla'[c] \in carpetas'
    BY <1>1, <2>1 DEF ClientesQuietos, Directorios
  <2>2. ASSUME NEW g \in Numeros, hilo'[g] \in Compactando PROVE tablaDe'[g] \in carpetas'
    BY <1>1, <2>2 DEF HilosQuietos
  <2> QED
    BY <2>1, <2>2 DEF Directorios
<1>3. Retirados'
  <2> SUFFICES ASSUME NEW c \in Clientes
               PROVE  /\ pc'[c] = "drop_temporales" => "bin" \notin archivos'[tabla'[c]]
                      /\ pc'[c] = "drop_metadata" => archivos'[tabla'[c]] \subseteq {"metadata", "tmpc"}
                      /\ pc'[c] = "drop_carpeta" => archivos'[tabla'[c]] \subseteq {"tmpc"}
    BY DEF Retirados
  <2>1. pc'[c] \in Fijos => pc'[c] = pc[c] /\ tabla'[c] = tabla[c]
    BY DEF ClientesQuietos
  <2> QED
    BY <1>1, <2>1 DEF Retirados, Fijos
<1>4. HilosConMetadata'
  BY <1>1 DEF HilosQuietos, HilosConMetadata
<1>5. ASSUME NEW L \in SUBSET Fijos, NEW t, Falta(L, t) PROVE Falta(L, t)'
  BY <1>5 DEF Falta, ClientesQuietos
<1>6. ASSUME NEW t, Reescribe(t) PROVE Reescribe(t)'
  <2>1. PICK g \in Numeros : hilo[g] = "escribe_bin" /\ tablaDe[g] = t
    BY <1>6 DEF Reescribe
  <2>2. hilo'[g] = "escribe_bin" /\ tablaDe'[g] = t
    BY <2>1, MasLugares DEF HilosQuietos
  <2> QED
    BY <2>2 DEF Reescribe
<1>7. ConMetadata'
  <2>1. {"create_metadata", "drop_carpeta"} \in SUBSET Fijos
    BY DEF Fijos
  <2> QED
    BY <1>1, <1>5, <2>1 DEF ConMetadata
<1>8. ConParticion'
  BY <1>1, <1>5, <1>6 DEF ConParticion
<1> QED
  BY <1>2, <1>3, <1>4, <1>7, <1>8


\* A step of a client moves no other, and one of a thread, no client and no other thread.
Movido(c) ==
  \A d \in Clientes : d # c => pc'[d] = pc[d] /\ tabla'[d] = tabla[d] /\ puntero'[d] = puntero[d]
HiloMovido(g) ==
  /\ UNCHANGED <<clientes, tablaDe, usados, viva>>
  /\ \A h \in Numeros : h # g => hilo'[h] = hilo[h]
  /\ hilo[g] # "no" /\ hilo'[g] # "no" /\ hilo'[g] # hilo[g]

LEMMA MovidoVa ==
  ASSUME Tipos, NEW c \in Clientes, NEW lugar, Va(c, lugar),
         tabla' = tabla \/ \E t : tabla' = [tabla EXCEPT ![c] = t],
         puntero' = puntero \/ \E p : puntero' = [puntero EXCEPT ![c] = p]
  PROVE  Movido(c) /\ pc'[c] = lugar
<1>1. /\ pc'[c] = lugar /\ \A d \in Clientes : d # c => pc'[d] = pc[d]
  BY Partes DEF Va, Tipos, TipoClientes
<1>2. \A d \in Clientes : d # c => tabla'[d] = tabla[d]
  BY Partes DEF Tipos, TipoClientes
<1>3. \A d \in Clientes : d # c => puntero'[d] = puntero[d]
  BY Partes DEF Tipos, TipoClientes
<1> QED
  BY <1>1, <1>2, <1>3 DEF Movido

LEMMA MovidoSigue ==
  ASSUME Tipos, NEW c \in Clientes, NEW lugar, Sigue(c, lugar)
  PROVE  Movido(c) /\ pc'[c] = lugar /\ tabla'[c] = tabla[c]
  BY MovidoVa DEF Sigue

LEMMA MovidoTermina ==
  ASSUME Tipos, NEW c \in Clientes, Termina(c)
  PROVE  Movido(c) /\ pc'[c] = "libre"
<1>1. Va(c, "libre") /\ (\E t : tabla' = [tabla EXCEPT ![c] = t])
        /\ (\E p : puntero' = [puntero EXCEPT ![c] = p])
  BY DEF Termina
<1> QED
  BY <1>1, MovidoVa

LEMMA MovidoEmpieza ==
  ASSUME Tipos, NEW c \in Clientes, NEW t \in Tablas, NEW lugar, Empieza(c, t, lugar)
  PROVE  Movido(c) /\ pc[c] = "libre" /\ pc'[c] = lugar /\ tabla'[c] = t
<1>1. Va(c, lugar) /\ tabla' = [tabla EXCEPT ![c] = t] /\ puntero' = puntero /\ pc[c] = "libre"
  BY DEF Empieza, Va, En
<1>2. tabla'[c] = t
  BY <1>1, Partes DEF Tipos, TipoClientes
<1> QED
  BY <1>1, <1>2, MovidoVa

LEMMA MovidoVerificar ==
  ASSUME Tipos, NEW c \in Clientes, NEW semaforo, NEW desde, NEW espera, NEW hasta,
         verificar(c, semaforo, desde, espera, hasta)
  PROVE  /\ Movido(c) /\ tabla'[c] = tabla[c] /\ pc[c] \in {desde, espera} /\ pc'[c] \in {espera, hasta}
         /\ UNCHANGED <<disco, memoria, lista, semaforos, hilos, volcador, viva>> /\ Anota({})
<1>1. PICK lugar \in {espera, hasta} : Va(c, lugar)
  BY DEF verificar, Sigue
<1>2. tabla' = tabla /\ (puntero' = puntero \/ \E p : puntero' = [puntero EXCEPT ![c] = p])
  BY DEF verificar, Sigue
<1> QED
  BY <1>1, <1>2, MovidoVa DEF verificar, En

\* What the steps of a client that leave the disk alone have in common.
LEMMA Pasos ==
  ASSUME Tipos, NEW c \in Clientes,
         \/ verificarSemaforoTabla(c) \/ waitearSemTable(c) \/ Toma(c)
         \/ LeeParticion(c) \/ LeeMemtable(c) \/ postearSemTable(c)
         \/ verificarDesdeConsola(c) \/ LeeParticionDesdeConsola(c) \/ LeeMemtableDesdeConsola(c)
         \/ agregarTabla(c) \/ obtenerMetadataTabla(c)
         \/ verificarSemaforoCompactacion(c) \/ RemoverDeLaMemtable(c)
         \/ dictionary_is_empty(c) \/ list_create(c) \/ crearSemaforo(c)
         \/ levantarHiloCompactacion(c) \/ AnotaHilo(c)
  PROVE  /\ Movido(c) /\ UNCHANGED <<disco, viva>>
         /\ \E S \in SUBSET Sucesos : Anota(S)
         /\ \/ pc[c] \in Usos /\ pc'[c] \in Usos \cup {"drop_memtable"} /\ tabla'[c] = tabla[c]
            \/ pc[c] = "drop_memtable" /\ pc'[c] = "drop_particion" /\ tabla'[c] = tabla[c]
            \/ /\ pc[c] \in {"create_prueba", "create_lista", "create_semaforo"}
               /\ pc'[c] \in {"create_lista", "create_semaforo", "create_hilo"}
               /\ tabla'[c] = tabla[c]
            \/ pc[c] \notin Fijos /\ pc'[c] \in {"libre", "create_anota"}
<1> DEFINE Va1 == pc[c] \in Usos /\ pc'[c] \in Usos \cup {"drop_memtable"} /\ tabla'[c] = tabla[c]
<1>1. CASE verificarSemaforoTabla(c) \/ verificarSemaforoCompactacion(c) \/ verificarDesdeConsola(c)
  <2>1. /\ Movido(c) /\ tabla'[c] = tabla[c]
        /\ pc[c] \in {"select_verifica", "select_tabla", "drop_verifica", "drop_espera",
                      "consola_verifica", "consola_tabla"}
        /\ pc'[c] \in {"select_tabla", "select_busca", "drop_espera", "drop_memtable",
                       "consola_tabla", "consola_lee"}
        /\ UNCHANGED <<disco, viva>> /\ Anota({})
    BY <1>1, MovidoVerificar DEF verificarSemaforoTabla, verificarSemaforoCompactacion,
       verificarDesdeConsola
  <2> QED
    BY <2>1, MasLugares
<1>2. CASE waitearSemTable(c) \/ Toma(c) \/ LeeParticion(c) \/ LeeMemtable(c)
             \/ LeeParticionDesdeConsola(c)
  <2>1. /\ pc[c] \in Usos /\ UNCHANGED <<disco, viva, tabla>> /\ Anota({})
        /\ puntero' = puntero \/ \E p : puntero' = [puntero EXCEPT ![c] = p]
    BY <1>2, MasLugares DEF waitearSemTable, Toma, LeeParticion, LeeMemtable,
       LeeParticionDesdeConsola, Sigue, En
  <2>2. PICK lugar \in {"select_espera", "select_lee", "select_memtable", "select_postea",
                        "consola_memtable"} : Va(c, lugar)
    BY <1>2 DEF waitearSemTable, Toma, LeeParticion, LeeMemtable, LeeParticionDesdeConsola, Sigue
  <2>3. Movido(c) /\ pc'[c] = lugar /\ lugar \in Usos
    BY <2>1, <2>2, MovidoVa, MasLugares
  <2> QED
    BY <2>1, <2>3
<1>3. CASE postearSemTable(c) \/ agregarTabla(c) \/ obtenerMetadataTabla(c) \/ AnotaHilo(c)
             \/ LeeMemtableDesdeConsola(c)
  <2>1. /\ pc[c] \in {"select_postea", "select_inexistente", "insert", "describe", "create_anota",
                      "consola_memtable"}
        /\ Termina(c) /\ UNCHANGED <<disco, viva>>
    BY <1>3 DEF postearSemTable, agregarTabla, obtenerMetadataTabla, AnotaHilo,
       LeeMemtableDesdeConsola, En
  <2>2. \E S \in SUBSET Sucesos : Anota(S)
    <3>1. {} \in SUBSET Sucesos /\ {"inexistente"} \in SUBSET Sucesos
      BY DEF Sucesos
    <3>2. Anota({}) \/ Anota({"inexistente"})
      BY <1>3 DEF postearSemTable, agregarTabla, obtenerMetadataTabla, AnotaHilo,
         LeeMemtableDesdeConsola
    <3> QED
      BY <3>1, <3>2
  <2> QED
    BY <2>1, <2>2, MovidoTermina DEF Fijos
<1>4. CASE RemoverDeLaMemtable(c)
  <2>1. pc[c] = "drop_memtable" /\ Sigue(c, "drop_particion") /\ UNCHANGED <<disco, viva>>
          /\ (Anota({}) \/ Anota({"memtable"}))
    BY <1>4 DEF RemoverDeLaMemtable, En
  <2>2. {} \in SUBSET Sucesos /\ {"memtable"} \in SUBSET Sucesos
    BY DEF Sucesos
  <2>3. Movido(c) /\ pc'[c] = "drop_particion" /\ tabla'[c] = tabla[c]
    BY <2>1, MovidoSigue
  <2> QED
    BY <2>1, <2>2, <2>3
<1>5. CASE crearSemaforo(c)
  <2>1. /\ pc[c] = "create_semaforo" /\ Va(c, "create_hilo") /\ UNCHANGED <<disco, viva, tabla>>
        /\ puntero' = [puntero EXCEPT ![c] = usados'] /\ Anota({})
    BY <1>5 DEF crearSemaforo, En
  <2>3. Movido(c) /\ pc'[c] = "create_hilo" /\ tabla'[c] = tabla[c]
    BY <2>1, MovidoVa
  <2> QED
    BY <2>1, <2>3
<1>7. CASE dictionary_is_empty(c) \/ list_create(c)
  <2>1. /\ pc[c] \in {"create_prueba", "create_lista"} /\ UNCHANGED <<disco, viva>>
        /\ (Anota({}) \/ Anota({"lista"}))
    BY <1>7 DEF dictionary_is_empty, list_create, En
  <2>2. {} \in SUBSET Sucesos /\ {"lista"} \in SUBSET Sucesos
    BY DEF Sucesos
  <2>3. PICK lugar \in {"create_lista", "create_semaforo"} : Sigue(c, lugar)
    BY <1>7 DEF dictionary_is_empty, list_create
  <2> QED
    BY <2>1, <2>2, <2>3, MovidoSigue
<1>6. CASE levantarHiloCompactacion(c)
  <2>1. pc[c] = "create_hilo" /\ Sigue(c, "create_anota") /\ UNCHANGED <<disco, viva>> /\ Anota({})
    BY <1>6 DEF levantarHiloCompactacion, En
  <2> QED
    BY <2>1, MovidoSigue DEF Fijos
<1> QED
  BY <1>1, <1>2, <1>3, <1>4, <1>5, <1>6, <1>7

\* The others of a client: those that touch the disk.
LEMMA PasosDisco ==
  ASSUME Tipos, NEW c \in Clientes,
         \/ RemoverParticionesDeTablaYSusBloques(c) \/ RemoverTemporalesDeTablaYSusBloques(c)
         \/ RemoverMetadataDeTabla(c) \/ RemoverCarpetaVaciaDeTabla(c)
         \/ crearTabla(c) \/ crearMetadataConfig(c) \/ crearParticion(c)
  PROVE  /\ Movido(c) /\ pc[c] \in Altas \cup Bajas
         /\ pc'[c] \in {"libre", "drop_temporales", "drop_metadata", "drop_carpeta",
                        "create_metadata", "create_particion", "create_prueba"}
         /\ pc'[c] # "libre" => tabla'[c] = tabla[c]
         /\ UNCHANGED <<lista, hilos, semaforos, memTable, volcador, viva>>
         /\ \E S \in SUBSET Sucesos : Anota(S)
<1>1. CASE RemoverCarpetaVaciaDeTabla(c)
  <2>1. /\ pc[c] = "drop_carpeta" /\ Termina(c) /\ (Anota({}) \/ Anota({"resto"}))
        /\ UNCHANGED <<lista, hilos, semaforos, memTable, volcador, viva>>
    BY <1>1 DEF RemoverCarpetaVaciaDeTabla, En
  <2>2. {} \in SUBSET Sucesos /\ {"resto"} \in SUBSET Sucesos
    BY DEF Sucesos
  <2> QED
    BY <2>1, <2>2, MovidoTermina, MasLugares
<1>2. CASE ~RemoverCarpetaVaciaDeTabla(c)
  <2>1. PICK lugar \in {"drop_temporales", "drop_metadata", "drop_carpeta",
                        "create_metadata", "create_particion", "create_prueba"} : Sigue(c, lugar)
    BY <1>2 DEF RemoverParticionesDeTablaYSusBloques, RemoverTemporalesDeTablaYSusBloques,
       RemoverMetadataDeTabla, crearTabla, crearMetadataConfig, crearParticion, Borra, Crea
  <2>2. /\ UNCHANGED <<lista, hilos, semaforos, memTable, volcador, viva>> /\ Anota({})
        /\ pc[c] \in {"drop_particion", "drop_temporales", "drop_metadata",
                      "create_carpeta", "create_metadata", "create_particion"}
    BY <1>2 DEF RemoverParticionesDeTablaYSusBloques, RemoverTemporalesDeTablaYSusBloques,
       RemoverMetadataDeTabla, crearTabla, crearMetadataConfig, crearParticion, Borra, Crea,
       memoria, En
  <2>3. {} \in SUBSET Sucesos /\ pc[c] \in Altas \cup Bajas
    BY <2>2, Lugares, MasLugares
  <2> QED
    BY <2>1, <2>2, <2>3, MovidoSigue
<1> QED
  BY <1>1, <1>2

LEMMA HiloMovidoVa ==
  ASSUME Tipos, NEW g \in Numeros, NEW desde, NEW lugar, EnHilo(g, desde), VaHilo(g, lugar),
         desde # "no", lugar # "no", desde # lugar, UNCHANGED <<clientes, tablaDe, usados, viva>>
  PROVE  HiloMovido(g) /\ hilo[g] = desde /\ hilo'[g] = lugar
  BY Partes DEF Tipos, TipoHilos, VaHilo, EnHilo, HiloMovido

LEMMA PasosHilo ==
  ASSUME Tipos, NEW g \in Numeros, funcionCompactar(g), ~MuereHilo(g)
  PROVE  /\ HiloMovido(g) /\ UNCHANGED <<memoria, volcador>>
         /\ \E S \in SUBSET Sucesos : Anota(S)
<1>1. ASSUME NEW desde \in LugaresHilo \ {"no"}, NEW hasta \in LugaresHilo \ {"no", desde},
             Avanza(g, desde, hasta)
      PROVE  HiloMovido(g) /\ UNCHANGED <<memoria, volcador>> /\ Anota({})
  BY <1>1, HiloMovidoVa DEF Avanza, lista
<1>2. CASE Arranca(g) \/ Despierta(g) \/ Une(g) \/ Indice(g)
  <2>1. \/ Avanza(g, "arranca", "duerme") \/ Avanza(g, "duerme", "busca")
        \/ Avanza(g, "duerme", "indice") \/ Avanza(g, "une", "borra_bin")
        \/ Avanza(g, "une", "suelta") \/ Avanza(g, "indice", "saca")
    BY <1>2 DEF Arranca, Despierta, Une, Indice
  <2>2. {} \in SUBSET Sucesos
    OBVIOUS
  <2> QED
    BY <1>1, <2>1, <2>2, Lugares
<1>3. CASE ~(Arranca(g) \/ Despierta(g) \/ Une(g) \/ Indice(g))
  <2>1. PICK desde, lugar : /\ EnHilo(g, desde) /\ VaHilo(g, lugar)
                            /\ desde # "no" /\ lugar # "no" /\ desde # lugar
    BY <1>3 DEF funcionCompactar, Busca, TomaCompactacion, cambiarNombreTmpATmpc, BorraBin,
       crearParticionNueva, SueltaCompactacion, Saca, Olvida
  <2>2. UNCHANGED <<clientes, tablaDe, usados, viva, memoria, volcador>>
    BY <1>3 DEF funcionCompactar, Busca, TomaCompactacion, cambiarNombreTmpATmpc, BorraBin,
       crearParticionNueva, SueltaCompactacion, Saca, Olvida, lista
  <2>3. Anota({}) \/ Anota({"liberado"})
    BY <1>3 DEF funcionCompactar, Busca, TomaCompactacion, cambiarNombreTmpATmpc, BorraBin,
       crearParticionNueva, SueltaCompactacion, Saca, Olvida
  <2>4. {} \in SUBSET Sucesos /\ {"liberado"} \in SUBSET Sucesos
    BY DEF Sucesos
  <2>5. HiloMovido(g)
    BY <2>1, <2>2, HiloMovidoVa
  <2> QED
    BY <2>2, <2>3, <2>4, <2>5
<1> QED
  BY <1>2, <1>3


-----------------------------------------------------------------------------
(* A CREATE and its thread.                                                *)

LEMMA NacientesQuietos ==
  ASSUME Nacientes,
         \A d \in Clientes : pc'[d] = "create_hilo" =>
           /\ pc[d] = "create_hilo" /\ puntero'[d] = puntero[d] /\ tabla'[d] = tabla[d]
           /\ hilo'[puntero[d]] = hilo[puntero[d]] /\ tablaDe'[puntero[d]] = tablaDe[puntero[d]]
  PROVE  Nacientes'
  BY DEF Nacientes

LEMMA NacientesNext == Tipos /\ Nacientes /\ [Next]_vars => Nacientes'
<1> SUFFICES ASSUME Tipos, Nacientes, [Next]_vars PROVE Nacientes'
  OBVIOUS
<1>1. ASSUME NEW c \in Clientes, Movido(c), pc'[c] # "create_hilo", UNCHANGED <<lista, hilos>>
      PROVE  Nacientes'
  <2>1. \A d \in Clientes : pc'[d] = "create_hilo" => d # c
    BY <1>1
  <2> QED
    BY <1>1, <2>1, NacientesQuietos DEF Movido, lista, hilos
<1>2. ASSUME NEW c \in Clientes, Pide(c) PROVE Nacientes'
  <2>1. PICK t \in Tablas, lugar \in {"select_verifica", "select_inexistente", "insert",
                                      "describe", "drop_verifica", "create_carpeta", "consola_verifica"} :
          Empieza(c, t, lugar)
    BY <1>2 DEF Pide, SELECT, APIselect, INSERT, DESCRIBE, DROP, CREATE
  <2>2. Movido(c) /\ pc'[c] # "create_hilo" /\ UNCHANGED <<lista, hilos>>
    BY <2>1, MovidoEmpieza DEF Empieza
  <2> QED
    BY <1>1, <2>2
<1>3. ASSUME NEW c \in Clientes, Atiende(c), ~SinSemaforo(c), ~SinArchivo(c) PROVE Nacientes'
  <2>1. CASE crearSemaforo(c)
    <3>1. /\ usados' = usados + 1 /\ usados' \in Numeros /\ usados \in Nat
          /\ puntero' = [puntero EXCEPT ![c] = usados'] /\ UNCHANGED <<tabla, hilo>>
          /\ tablaDe' = [tablaDe EXCEPT ![usados'] = tabla[c]]
      BY <2>1, AlcanzaSemaforo DEF crearSemaforo, Tipos, hilos
    <3>2. Movido(c) /\ puntero'[c] = usados' /\ tablaDe'[usados'] = tabla[c] /\ tabla'[c] = tabla[c]
      BY <2>1, <3>1, Pasos, Partes DEF Tipos, TipoClientes, TipoLista
    <3>3. hilo[usados'] = "no"
      <4>1. usados' > usados
        BY <3>1
      <4> QED
        BY <3>1, <4>1 DEF Tipos, Direcciones
    <3>4. ASSUME NEW d \in Clientes, d # c, pc'[d] = "create_hilo"
          PROVE  /\ pc[d] = "create_hilo" /\ puntero'[d] = puntero[d] /\ tabla'[d] = tabla[d]
                 /\ puntero[d] \in Numeros /\ puntero[d] # usados'
                 /\ tablaDe'[puntero[d]] = tablaDe[puntero[d]]
      <4>1. pc[d] = "create_hilo" /\ puntero'[d] = puntero[d] /\ tabla'[d] = tabla[d]
        BY <3>2, <3>4 DEF Movido
      <4>2. puntero[d] \in Numeros /\ puntero[d] \in 0..usados
        BY <4>1 DEF Nacientes, Tipos, Direcciones
      <4>3. puntero[d] # usados'
        BY <4>2, <3>1
      <4> QED
        BY <4>1, <4>2, <4>3, <3>1, Partes DEF Tipos, TipoLista
    <3> QED
      BY <3>1, <3>2, <3>3, <3>4 DEF Nacientes
  <2>2. CASE levantarHiloCompactacion(c)
    <3>1. /\ pc[c] = "create_hilo" /\ hilo' = [hilo EXCEPT ![puntero[c]] = "arranca"]
          /\ UNCHANGED lista /\ Movido(c) /\ pc'[c] = "create_anota"
      BY <2>2, MovidoSigue DEF levantarHiloCompactacion, En, VaHilo
    <3>2. ASSUME NEW d \in Clientes, pc'[d] = "create_hilo"
          PROVE  /\ pc[d] = "create_hilo" /\ puntero'[d] = puntero[d] /\ tabla'[d] = tabla[d]
                 /\ hilo'[puntero[d]] = hilo[puntero[d]]
      <4>1. d # c /\ pc[d] = "create_hilo" /\ puntero'[d] = puntero[d] /\ tabla'[d] = tabla[d]
        BY <3>1, <3>2 DEF Movido
      <4>2. puntero[d] # puntero[c] /\ puntero[d] \in Numeros
        BY <3>1, <4>1 DEF Nacientes
      <4> QED
        BY <3>1, <4>1, <4>2, Partes DEF Tipos, TipoHilos
    <3> QED
      BY <3>1, <3>2, NacientesQuietos DEF lista
  <2>3. CASE ~crearSemaforo(c) /\ ~levantarHiloCompactacion(c)
    <3>1. CASE \/ verificarSemaforoTabla(c) \/ verificarSemaforoCompactacion(c)
               \/ verificarDesdeConsola(c)
      <4>1. Movido(c) /\ UNCHANGED <<lista, hilos>> /\ pc'[c] # "create_hilo"
        BY <3>1, MovidoVerificar DEF verificarSemaforoTabla, verificarSemaforoCompactacion,
           verificarDesdeConsola
      <4> QED
        BY <4>1, <1>1
    <3>2. CASE \/ waitearSemTable(c) \/ Toma(c) \/ LeeParticion(c) \/ LeeMemtable(c)
               \/ LeeParticionDesdeConsola(c) \/ dictionary_is_empty(c)
      <4>1. UNCHANGED <<lista, hilos>>
        BY <3>2 DEF waitearSemTable, Toma, LeeParticion, LeeMemtable, LeeParticionDesdeConsola,
           dictionary_is_empty
      <4>2. PICK lugar \in {"select_espera", "select_lee", "select_memtable", "select_postea",
                            "consola_memtable", "create_lista", "create_semaforo"} :
              Va(c, lugar)
        BY <3>2 DEF waitearSemTable, Toma, LeeParticion, LeeMemtable, LeeParticionDesdeConsola,
           dictionary_is_empty, Sigue
      <4>3. Movido(c) /\ pc'[c] = lugar
        BY <3>2, <4>2, Pasos, Partes DEF Va, Tipos, TipoClientes
      <4> QED
        BY <4>1, <4>3, <1>1
    <3>3. CASE postearSemTable(c) \/ agregarTabla(c) \/ obtenerMetadataTabla(c)
               \/ LeeMemtableDesdeConsola(c)
      <4>1. Termina(c) /\ UNCHANGED <<lista, hilos>>
        BY <3>3 DEF postearSemTable, agregarTabla, obtenerMetadataTabla, LeeMemtableDesdeConsola
      <4> QED
        BY <4>1, <1>1, MovidoTermina
    <3>4. CASE AnotaHilo(c) \/ list_create(c)
      <4>1. (Termina(c) \/ Sigue(c, "create_semaforo")) /\ UNCHANGED <<tablaDe, hilos>>
        BY <3>4 DEF AnotaHilo, list_create
      <4>2. Movido(c) /\ pc'[c] # "create_hilo"
        BY <4>1, MovidoTermina, MovidoSigue
      <4>3. \A d \in Clientes : pc'[d] = "create_hilo" => d # c
        BY <4>2
      <4> QED
        BY <4>1, <4>2, <4>3, NacientesQuietos DEF Movido, hilos
    <3>5. CASE RemoverDeLaMemtable(c)
      <4>1. Sigue(c, "drop_particion") /\ UNCHANGED <<lista, hilos>>
        BY <3>5 DEF RemoverDeLaMemtable
      <4>2. Movido(c) /\ pc'[c] # "create_hilo"
        BY <4>1, MovidoSigue
      <4> QED
        BY <4>1, <4>2, <1>1
    <3>6. CASE \/ RemoverParticionesDeTablaYSusBloques(c) \/ RemoverTemporalesDeTablaYSusBloques(c)
               \/ RemoverMetadataDeTabla(c) \/ RemoverCarpetaVaciaDeTabla(c)
               \/ crearTabla(c) \/ crearMetadataConfig(c) \/ crearParticion(c)
      BY <3>6, <1>1, PasosDisco
    <3> QED
      BY <1>3, <2>3, <3>1, <3>2, <3>3, <3>4, <3>5, <3>6 DEF Atiende
  <2> QED
    BY <2>1, <2>2, <2>3
<1>4. ASSUME NEW g \in Numeros, funcionCompactar(g), ~MuereHilo(g) PROVE Nacientes'
  <2>1. HiloMovido(g)
    BY <1>4, PasosHilo
  <2>2. \A d \in Clientes : pc[d] = "create_hilo" => puntero[d] # g /\ puntero[d] \in Numeros
    BY <2>1 DEF HiloMovido, Nacientes
  <2> QED
    BY <2>1, <2>2, NacientesQuietos DEF HiloMovido, clientes
<1>5. CASE \/ chekearDumpeo \/ dump \/ UNCHANGED vars
           \/ \E c \in Clientes : SinSemaforo(c) \/ SinArchivo(c)
           \/ \E g \in Numeros : MuereHilo(g)
  <2>1. UNCHANGED <<lista, clientes, hilos>>
    BY <1>5 DEF chekearDumpeo, dump, SinSemaforo, SinArchivo, MuereHilo, Muere, vars
  <2> QED
    BY <2>1, NacientesQuietos DEF lista, clientes, hilos
<1> QED
  BY <1>2, <1>3, <1>4, <1>5 DEF Next

LEMMA NacientesInit == Init => Nacientes
  BY DEF Init, Nacientes

-----------------------------------------------------------------------------
(* Every step keeps Ordenada, if it does not overlap another.               *)

LEMMA OrdenadaPide ==
  ASSUME Tipos, Ordenada, NEW c \in Clientes, Pide(c), Aparte'
  PROVE  Ordenada'
<1>1. PICK t \in Tablas, lugar \in {"select_verifica", "select_inexistente", "insert",
                                    "describe", "drop_verifica", "create_carpeta", "consola_verifica"} :
        /\ Empieza(c, t, lugar)
        /\ lugar \in {"select_inexistente", "create_carpeta"} \/ t \in carpetas
  BY DEF Pide, SELECT, APIselect, INSERT, DESCRIBE, DROP, CREATE, existeTabla
<1>2. Movido(c) /\ pc[c] = "libre" /\ pc'[c] = lugar /\ tabla'[c] = t
  BY <1>1, MovidoEmpieza
<1>3. UNCHANGED <<disco, lista, hilos>> /\ ~Solapan' /\ riesgo \subseteq riesgo'
  BY <1>1, ApartaAntes DEF Empieza
<1>4. ClientesQuietos
  BY <1>1, <1>2, MasLugares DEF ClientesQuietos, Movido, Fijos
<1>5. HilosQuietos
  BY <1>3, MasLugares DEF HilosQuietos, Ordenada, Directorios, HilosConMetadata, hilos, lista
<1> QED
  BY <1>3, <1>4, <1>5, VidaQuieta

LEMMA OrdenadaUsa ==
  ASSUME Tipos, Ordenada, Nacientes, NEW c \in Clientes, Aparte',
         \/ verificarSemaforoTabla(c) \/ waitearSemTable(c) \/ Toma(c)
         \/ LeeParticion(c) \/ LeeMemtable(c) \/ postearSemTable(c)
         \/ verificarDesdeConsola(c) \/ LeeParticionDesdeConsola(c) \/ LeeMemtableDesdeConsola(c)
         \/ agregarTabla(c) \/ obtenerMetadataTabla(c)
         \/ verificarSemaforoCompactacion(c) \/ RemoverDeLaMemtable(c)
         \/ dictionary_is_empty(c) \/ list_create(c) \/ crearSemaforo(c)
         \/ levantarHiloCompactacion(c) \/ AnotaHilo(c)
  PROVE  Ordenada'
<1>1. Movido(c) /\ UNCHANGED disco
  BY Pasos
<1>2. ~Solapan' /\ riesgo \subseteq riesgo'
  <2>1. PICK S \in SUBSET Sucesos : Anota(S)
    BY Pasos
  <2> QED
    BY <2>1, ApartaAntes DEF Anota
<1>3. ClientesQuietos
  <2>1. \/ pc[c] \notin Fijos /\ pc'[c] \notin Fijos /\ (pc'[c] \in Dentro => tabla'[c] \in carpetas)
    <3>1. \/ pc[c] \in Usos /\ pc'[c] \in Usos \cup {"drop_memtable"} /\ tabla'[c] = tabla[c]
          \/ pc[c] = "drop_memtable" /\ pc'[c] = "drop_particion" /\ tabla'[c] = tabla[c]
          \/ /\ pc[c] \in {"create_prueba", "create_lista", "create_semaforo"}
             /\ pc'[c] \in {"create_lista", "create_semaforo", "create_hilo"}
             /\ tabla'[c] = tabla[c]
          \/ pc[c] \notin Fijos /\ pc'[c] \in {"libre", "create_anota"}
      BY Pasos
    <3>2. CASE pc'[c] \in {"libre", "create_anota"}
      BY <3>1, <3>2, MasLugares DEF Fijos
    <3>3. CASE pc'[c] \notin {"libre", "create_anota"}
      <4>1. pc[c] \in Dentro /\ tabla'[c] = tabla[c] /\ pc[c] \notin Fijos /\ pc'[c] \notin Fijos
        BY <3>1, <3>3, MasLugares DEF Fijos
      <4> QED
        BY <4>1 DEF Ordenada, Directorios
    <3> QED
      BY <3>2, <3>3
  <2> QED
    BY <1>1, <2>1 DEF ClientesQuietos, Movido
<1>4. HilosQuietos
  <2>0. \A g \in Numeros : hilo[g] \in Compactando =>
          /\ tablaDe[g] \in carpetas
          /\ hilo[g] \in {"arranca", "busca"} \/ "metadata" \in archivos[tablaDe[g]]
    BY DEF Ordenada, Directorios, HilosConMetadata
  <2>1. CASE levantarHiloCompactacion(c)
    <3>1. /\ pc[c] = "create_hilo" /\ hilo' = [hilo EXCEPT ![puntero[c]] = "arranca"]
          /\ tablaDe' = tablaDe
      BY <2>1 DEF levantarHiloCompactacion, En, VaHilo, lista
    <3>2. /\ hilo[puntero[c]] = "no" /\ tablaDe[puntero[c]] \in carpetas /\ puntero[c] \in Numeros
      BY <3>1, MasLugares DEF Nacientes, Ordenada, Directorios
    <3>3. /\ hilo'[puntero[c]] = "arranca"
          /\ \A g \in Numeros : g # puntero[c] => hilo'[g] = hilo[g]
      BY <3>1, <3>2, Partes DEF Tipos, TipoHilos
    <3>4. \A g \in Numeros : hilo[g] = "escribe_bin" <=> hilo'[g] = "escribe_bin"
      BY <3>2, <3>3
    <3>5. ASSUME NEW g \in Numeros, hilo'[g] \in Compactando
          PROVE  /\ tablaDe'[g] = tablaDe[g] /\ tablaDe[g] \in carpetas
                 /\ hilo'[g] \in {"arranca", "busca"} \/ "metadata" \in archivos[tablaDe[g]]
      BY <2>0, <3>1, <3>2, <3>3, <3>5
    <3> QED
      BY <3>4, <3>5 DEF HilosQuietos
  <2>2. CASE crearSemaforo(c)
    <3>1. hilo' = hilo /\ tablaDe' = [tablaDe EXCEPT ![usados'] = tabla[c]]
      BY <2>2 DEF crearSemaforo, hilos
    <3>2. usados' = usados + 1 /\ usados \in Nat /\ usados' \in Numeros
      BY <2>2, AlcanzaSemaforo DEF Tipos
    <3>3. hilo[usados'] = "no"
      <4>1. usados' > usados
        BY <3>2
      <4> QED
        BY <3>2, <4>1 DEF Tipos, Direcciones
    <3>4. "no" \notin Compactando
      BY MasLugares
    <3>5. \A g \in Numeros : hilo[g] \in Compactando => tablaDe'[g] = tablaDe[g]
      BY <3>1, <3>2, <3>3, <3>4, Partes DEF Tipos, TipoLista
    <3> QED
      BY <2>0, <3>1, <3>5 DEF HilosQuietos
  <2>3. CASE ~levantarHiloCompactacion(c) /\ ~crearSemaforo(c)
    <3>1. UNCHANGED <<hilos, tablaDe>>
      BY <2>3 DEF verificarSemaforoTabla, waitearSemTable, Toma, LeeParticion, LeeMemtable,
         postearSemTable, agregarTabla, obtenerMetadataTabla, verificarSemaforoCompactacion,
         verificar, verificarDesdeConsola, LeeParticionDesdeConsola, LeeMemtableDesdeConsola,
         dictionary_is_empty, list_create, RemoverDeLaMemtable, AnotaHilo, lista
    <3> QED
      BY <2>0, <3>1 DEF HilosQuietos, hilos
  <2> QED
    BY <2>1, <2>2, <2>3
<1> QED
  BY <1>1, <1>2, <1>3, <1>4, VidaQuieta


\* A CREATE or a DROP changes the files of its table, where nobody else is.
LEMMA OrdenadaDisco ==
  ASSUME Tipos, Ordenada, ~Solapan', riesgo \subseteq riesgo', NEW c \in Clientes, NEW t,
         Movido(c), pc[c] \in Altas \cup Bajas, tabla[c] = t, UNCHANGED <<lista, hilos>>,
         \A u \in Tablas : u # t => archivos'[u] = archivos[u] /\ (u \in carpetas' <=> u \in carpetas),
         carpetas' \subseteq Tablas,
         pc'[c] \in {"libre", "drop_temporales", "drop_metadata", "drop_carpeta",
                     "create_metadata", "create_particion", "create_prueba"},
         pc'[c] # "libre" => tabla'[c] = t /\ t \in carpetas',
         pc'[c] = "drop_temporales" => "bin" \notin archivos'[t],
         pc'[c] = "drop_metadata" => archivos'[t] \subseteq {"metadata", "tmpc"},
         pc'[c] = "drop_carpeta" => archivos'[t] \subseteq {"tmpc"},
         t \in carpetas' => \/ "metadata" \in archivos'[t]
                            \/ pc'[c] \in {"create_metadata", "drop_carpeta"}
                            \/ "tmpc" \in archivos'[t] /\ "resto" \in riesgo',
         t \in carpetas' => \/ "bin" \in archivos'[t] \/ pc'[c] \in Fijos \/ "resto" \in riesgo'
  PROVE  Ordenada'
<1> USE DEF Ordenada
<1>1. /\ t \in Tablas
      /\ \A d \in Clientes : d # c /\ pc[d] \in Altas \cup Bajas \cup Usos => tabla[d] # t
      /\ \A g \in Numeros : hilo[g] \in Compactando => tablaDe[g] # t
  BY ASolas
<1>2. \A d \in Clientes : pc[d] # "libre" => tabla[d] \in Tablas
  BY DEF Tipos, Direcciones
<1>3. \A g \in Numeros : /\ hilo'[g] = hilo[g] /\ tablaDe'[g] = tablaDe[g]
                         /\ hilo[g] \in Compactando => tablaDe[g] \in carpetas /\ tablaDe[g] \in Tablas
  BY Partes DEF Directorios, hilos, lista, Tipos, TipoDisco
<1>4. \A d \in Clientes : d # c => pc'[d] = pc[d] /\ tabla'[d] = tabla[d]
  BY DEF Movido
<1>5. \A d \in Clientes : d # c /\ pc[d] \in Dentro => tabla[d] # t /\ tabla[d] \in Tablas
  BY <1>1, <1>2, Lugares, MasLugares
<1>6. Directorios'
  <2>1. ASSUME NEW d \in Clientes, pc'[d] \in Dentro PROVE tabla'[d] \in carpetas'
    <3>1. CASE d = c
      BY <2>1, <3>1, MasLugares
    <3>2. CASE d # c
      BY <1>4, <1>5, <2>1, <3>2 DEF Directorios
    <3> QED
      BY <3>1, <3>2
  <2>2. ASSUME NEW g \in Numeros, hilo'[g] \in Compactando PROVE tablaDe'[g] \in carpetas'
    BY <1>1, <1>3, <2>2
  <2> QED
    BY <2>1, <2>2 DEF Directorios
<1>7. Retirados'
  <2> SUFFICES ASSUME NEW d \in Clientes
               PROVE  /\ pc'[d] = "drop_temporales" => "bin" \notin archivos'[tabla'[d]]
                      /\ pc'[d] = "drop_metadata" => archivos'[tabla'[d]] \subseteq {"metadata", "tmpc"}
                      /\ pc'[d] = "drop_carpeta" => archivos'[tabla'[d]] \subseteq {"tmpc"}
    BY DEF Retirados
  <2>1. CASE d = c
    BY <2>1
  <2>2. CASE d # c
    <3>1. pc[d] \in {"drop_temporales", "drop_metadata", "drop_carpeta"} =>
            archivos'[tabla[d]] = archivos[tabla[d]]
      BY <1>5, <2>2, MasLugares
    <3> QED
      BY <1>4, <2>2, <3>1 DEF Retirados
  <2> QED
    BY <2>1, <2>2
<1>8. HilosConMetadata'
  BY <1>1, <1>3 DEF HilosConMetadata
<1>9. ASSUME NEW L \in SUBSET Fijos, NEW u, u # t, Falta(L, u) PROVE Falta(L, u)'
  <2>1. PICK d \in Clientes : pc[d] \in L /\ tabla[d] = u
    BY <1>9 DEF Falta
  <2>2. d # c
    BY <1>9, <2>1
  <2> QED
    BY <1>4, <2>1, <2>2 DEF Falta
<1>10. ASSUME NEW u, Reescribe(u) PROVE Reescribe(u)'
  BY <1>3, <1>10 DEF Reescribe
<1>11. ConMetadata'
  <2> SUFFICES ASSUME NEW u \in carpetas'
               PROVE  \/ "metadata" \in archivos'[u]
                      \/ Falta({"create_metadata", "drop_carpeta"}, u)'
                      \/ "tmpc" \in archivos'[u] /\ "resto" \in riesgo'
    BY DEF ConMetadata
  <2>1. CASE u = t
    BY <2>1 DEF Falta
  <2>2. CASE u # t
    <3>1. {"create_metadata", "drop_carpeta"} \in SUBSET Fijos
      BY DEF Fijos
    <3>2. u \in carpetas /\ archivos'[u] = archivos[u]
      BY <2>2
    <3> QED
      BY <1>9, <2>2, <3>1, <3>2 DEF ConMetadata
  <2> QED
    BY <2>1, <2>2
<1>12. ConParticion'
  <2> SUFFICES ASSUME NEW u \in carpetas'
               PROVE  \/ "bin" \in archivos'[u] \/ Falta(Fijos, u)' \/ Reescribe(u)'
                      \/ "resto" \in riesgo'
    BY DEF ConParticion
  <2>1. CASE u = t
    <3>1. pc'[c] \in Fijos => tabla'[c] = t
      BY DEF Fijos
    <3> QED
      BY <2>1, <3>1 DEF Falta
  <2>2. CASE u # t
    <3>1. u \in carpetas /\ archivos'[u] = archivos[u]
      BY <2>2
    <3> QED
      BY <1>9, <1>10, <2>2, <3>1 DEF ConParticion
  <2> QED
    BY <2>1, <2>2
<1> QED
  BY <1>6, <1>7, <1>8, <1>11, <1>12

LEMMA OrdenadaCREATE ==
  ASSUME Tipos, Ordenada, NEW c \in Clientes, Aparte',
         crearTabla(c) \/ crearMetadataConfig(c) \/ crearParticion(c)
  PROVE  Ordenada'
<1>1. PICK t : t = tabla[c]
  OBVIOUS
<1>2. Movido(c) /\ pc[c] \in Altas \cup Bajas /\ UNCHANGED <<lista, hilos>>
  BY PasosDisco
<1>3. ~Solapan' /\ riesgo \subseteq riesgo'
  <2>1. PICK S \in SUBSET Sucesos : Anota(S)
    BY PasosDisco
  <2> QED
    BY <2>1, ApartaAntes DEF Anota
<1>4. t \in Tablas /\ carpetas \subseteq Tablas /\ archivos \in [Tablas -> SUBSET {"metadata", "bin", "tmp", "tmpc"}]
  BY <1>1, <1>2, ASolas, Partes DEF Ordenada, Tipos, TipoDisco
<1>5. CASE crearTabla(c)
  <2>1. /\ carpetas' = carpetas \cup {t} /\ archivos' = archivos
        /\ pc'[c] = "create_metadata" /\ tabla'[c] = t
    BY <1>1, <1>5, MovidoSigue DEF crearTabla
  <2>2. pc'[c] \in Fijos
    BY <2>1 DEF Fijos
  <2> QED
    BY <1>1, <1>2, <1>3, <1>4, <2>1, <2>2, OrdenadaDisco
<1>6. CASE crearMetadataConfig(c)
  <2>1. /\ carpetas' = carpetas /\ archivos' = [archivos EXCEPT ![t] = @ \cup {"metadata"}]
        /\ pc'[c] = "create_particion" /\ tabla'[c] = t /\ t \in carpetas
    BY <1>1, <1>6, MovidoSigue DEF crearMetadataConfig, Crea, existeTabla
  <2>2. pc'[c] \in Fijos
    BY <2>1 DEF Fijos
  <2>3. "metadata" \in archivos'[t] /\ \A u \in Tablas : u # t => archivos'[u] = archivos[u]
    BY <1>4, <2>1
  <2> QED
    BY <1>1, <1>2, <1>3, <1>4, <2>1, <2>2, <2>3, OrdenadaDisco
<1>7. CASE crearParticion(c)
  <2>1. /\ carpetas' = carpetas /\ archivos' = [archivos EXCEPT ![t] = @ \cup {"bin"}]
        /\ pc'[c] = "create_prueba" /\ tabla'[c] = t /\ t \in carpetas
        /\ pc[c] = "create_particion"
    BY <1>1, <1>7, MovidoSigue DEF crearParticion, Crea, existeTabla, En
  <2>2. /\ "bin" \in archivos'[t] /\ \A u \in Tablas : u # t => archivos'[u] = archivos[u]
        /\ archivos[t] \subseteq archivos'[t]
    BY <1>4, <2>1
  <2>3. ~Falta({"create_metadata", "drop_carpeta"}, t)
    <3>1. \A d \in Clientes : d # c /\ pc[d] \in Altas \cup Bajas \cup Usos => tabla[d] # t
      BY <1>1, <1>2, ASolas DEF Ordenada
    <3> QED
      BY <2>1, <3>1, Lugares, MasLugares DEF Falta
  <2>4. "metadata" \in archivos'[t] \/ ("tmpc" \in archivos'[t] /\ "resto" \in riesgo')
    BY <1>3, <2>1, <2>2, <2>3 DEF Ordenada, ConMetadata
  <2> QED
    BY <1>1, <1>2, <1>3, <1>4, <2>1, <2>2, <2>4, OrdenadaDisco
<1> QED
  BY <1>5, <1>6, <1>7

LEMMA OrdenadaDROP ==
  ASSUME Tipos, Ordenada, NEW c \in Clientes, Aparte',
         \/ RemoverParticionesDeTablaYSusBloques(c) \/ RemoverTemporalesDeTablaYSusBloques(c)
         \/ RemoverMetadataDeTabla(c) \/ RemoverCarpetaVaciaDeTabla(c)
  PROVE  Ordenada'
<1>1. PICK t : t = tabla[c]
  OBVIOUS
<1>2. Movido(c) /\ pc[c] \in Altas \cup Bajas /\ UNCHANGED <<lista, hilos>>
  BY PasosDisco
<1>3. ~Solapan' /\ riesgo \subseteq riesgo'
  <2>1. PICK S \in SUBSET Sucesos : Anota(S)
    BY PasosDisco
  <2> QED
    BY <2>1, ApartaAntes DEF Anota
<1>4. t \in Tablas /\ carpetas \subseteq Tablas /\ archivos \in [Tablas -> SUBSET {"metadata", "bin", "tmp", "tmpc"}]
  BY <1>1, <1>2, ASolas, Partes DEF Ordenada, Tipos, TipoDisco
<1>5. ASSUME NEW F, NEW lugar, NEW hasta, Borra(c, lugar, F, hasta), lugar \in Bajas
      PROVE  /\ carpetas' = carpetas /\ t \in carpetas /\ pc'[c] = hasta /\ tabla'[c] = t
             /\ archivos'[t] = archivos[t] \ F /\ pc[c] = lugar
             /\ \A u \in Tablas : u # t => archivos'[u] = archivos[u]
  <2>1. /\ carpetas' = carpetas /\ pc'[c] = hasta /\ tabla'[c] = t /\ pc[c] = lugar
        /\ archivos' = [archivos EXCEPT ![t] = @ \ F]
    BY <1>1, <1>5, MovidoSigue DEF Borra, En
  <2>2. t \in carpetas
    BY <1>1, <1>5, <2>1 DEF Ordenada, Directorios, Dentro
  <2> QED
    BY <1>4, <2>1, <2>2
<1>6. ~Falta({"create_metadata", "drop_carpeta"} \ {pc[c]}, t)
  <2>1. \A d \in Clientes : d # c /\ pc[d] \in Altas \cup Bajas \cup Usos => tabla[d] # t
    BY <1>1, <1>2, ASolas DEF Ordenada
  <2> QED
    BY <2>1, Lugares, MasLugares DEF Falta
<1>7. CASE RemoverParticionesDeTablaYSusBloques(c)
  <2>1. Borra(c, "drop_particion", {"bin"}, "drop_temporales") /\ "drop_particion" \in Bajas
    BY <1>7, MasLugares DEF RemoverParticionesDeTablaYSusBloques
  <2>2. /\ carpetas' = carpetas /\ t \in carpetas /\ pc'[c] = "drop_temporales" /\ tabla'[c] = t
        /\ archivos'[t] = archivos[t] \ {"bin"} /\ pc[c] = "drop_particion"
        /\ \A u \in Tablas : u # t => archivos'[u] = archivos[u]
    BY <1>5, <2>1
  <2>3. ~Falta({"create_metadata", "drop_carpeta"}, t)
    BY <1>6, <2>2 DEF Falta
  <2>4. "metadata" \in archivos'[t] \/ ("tmpc" \in archivos'[t] /\ "resto" \in riesgo')
    BY <1>3, <2>2, <2>3 DEF Ordenada, ConMetadata
  <2>5. pc'[c] \in Fijos
    BY <2>2 DEF Fijos
  <2> QED
    BY <1>1, <1>2, <1>3, <1>4, <2>2, <2>4, <2>5, OrdenadaDisco
<1>8. CASE RemoverTemporalesDeTablaYSusBloques(c)
  <2>1. Borra(c, "drop_temporales", {"tmp"}, "drop_metadata") /\ "drop_temporales" \in Bajas
    BY <1>8, MasLugares DEF RemoverTemporalesDeTablaYSusBloques
  <2>2. /\ carpetas' = carpetas /\ t \in carpetas /\ pc'[c] = "drop_metadata" /\ tabla'[c] = t
        /\ archivos'[t] = archivos[t] \ {"tmp"} /\ pc[c] = "drop_temporales"
        /\ \A u \in Tablas : u # t => archivos'[u] = archivos[u]
    BY <1>5, <2>1
  <2>3. ~Falta({"create_metadata", "drop_carpeta"}, t)
    BY <1>6, <2>2 DEF Falta
  <2>4. "metadata" \in archivos'[t] \/ ("tmpc" \in archivos'[t] /\ "resto" \in riesgo')
    BY <1>3, <2>2, <2>3 DEF Ordenada, ConMetadata
  <2>5. archivos'[t] \subseteq {"metadata", "tmpc"} /\ pc'[c] \in Fijos
    <3>1. "bin" \notin archivos[t]
      BY <1>1, <2>2 DEF Ordenada, Retirados
    <3> QED
      BY <1>4, <2>2, <3>1 DEF Fijos
  <2> QED
    BY <1>1, <1>2, <1>3, <1>4, <2>2, <2>4, <2>5, OrdenadaDisco
<1>9. CASE RemoverMetadataDeTabla(c)
  <2>1. Borra(c, "drop_metadata", {"metadata"}, "drop_carpeta") /\ "drop_metadata" \in Bajas
    BY <1>9, MasLugares DEF RemoverMetadataDeTabla
  <2>2. /\ carpetas' = carpetas /\ t \in carpetas /\ pc'[c] = "drop_carpeta" /\ tabla'[c] = t
        /\ archivos'[t] = archivos[t] \ {"metadata"} /\ pc[c] = "drop_metadata"
        /\ \A u \in Tablas : u # t => archivos'[u] = archivos[u]
    BY <1>5, <2>1
  <2>3. archivos'[t] \subseteq {"tmpc"} /\ pc'[c] \in Fijos
    <3>1. archivos[t] \subseteq {"metadata", "tmpc"}
      BY <1>1, <2>2 DEF Ordenada, Retirados
    <3> QED
      BY <2>2, <3>1 DEF Fijos
  <2> QED
    BY <1>1, <1>2, <1>3, <1>4, <2>2, <2>3, OrdenadaDisco
<1>10. CASE RemoverCarpetaVaciaDeTabla(c)
  <2>1. /\ pc[c] = "drop_carpeta" /\ pc'[c] = "libre" /\ archivos' = archivos
        /\ carpetas' = IF archivos[t] = {} THEN carpetas \ {t} ELSE carpetas
        /\ Anota(IF archivos[t] # {} THEN {"resto"} ELSE {})
    BY <1>1, <1>10, MovidoTermina DEF RemoverCarpetaVaciaDeTabla, En
  <2>2. archivos[t] \subseteq {"tmpc"}
    BY <1>1, <2>1 DEF Ordenada, Retirados
  <2>3. CASE archivos[t] = {}
    BY <1>1, <1>2, <1>3, <1>4, <2>1, <2>3, OrdenadaDisco
  <2>4. CASE archivos[t] # {}
    <3>1. {"resto"} \in SUBSET Sucesos /\ Anota({"resto"})
      BY <2>1, <2>4 DEF Sucesos
    <3>2. "resto" \in riesgo'
      BY <3>1, RecuerdaTipo DEF Tipos, Anota
    <3>3. "tmpc" \in archivos'[t]
      BY <2>1, <2>2, <2>4
    <3> QED
      BY <1>1, <1>2, <1>3, <1>4, <2>1, <2>4, <3>2, <3>3, OrdenadaDisco
  <2> QED
    BY <2>3, <2>4
<1> QED
  BY <1>7, <1>8, <1>9, <1>10


\* A compaction changes the files of its table, which nobody creates or drops.
LEMMA OrdenadaHiloDisco ==
  ASSUME Tipos, Ordenada, ~Solapan', riesgo \subseteq riesgo', NEW g \in Numeros, NEW t,
         HiloMovido(g), tablaDe[g] = t, hilo[g] \in Compactando \ {"arranca", "busca"},
         hilo'[g] \in Compactando, carpetas' = carpetas,
         \A u \in Tablas : u # t => archivos'[u] = archivos[u],
         "metadata" \in archivos'[t],
         "bin" \in archivos[t] \/ hilo[g] = "escribe_bin"
           => "bin" \in archivos'[t] \/ hilo'[g] = "escribe_bin"
  PROVE  Ordenada'
<1> USE DEF Ordenada
<1>1. /\ t \in carpetas /\ carpetas \subseteq Tablas
      /\ \A c \in Clientes : pc'[c] = pc[c] /\ tabla'[c] = tabla[c]
      /\ \A h \in Numeros : h # g => hilo'[h] = hilo[h]
      /\ tablaDe' = tablaDe
  BY Partes DEF Directorios, HiloMovido, clientes, Tipos, TipoDisco
<1>2. ASSUME NEW c \in Clientes, pc[c] \in Altas \cup Bajas
      PROVE  tabla[c] # t /\ tabla[c] \in Tablas
  BY <1>2, ASolas
<1>3. Directorios'
  BY <1>1 DEF Directorios
<1>4. Retirados'
  <2>1. ASSUME NEW c \in Clientes, pc[c] \in Bajas
        PROVE  archivos'[tabla'[c]] = archivos[tabla[c]]
    BY <1>1, <1>2, <2>1
  <2> QED
    BY <1>1, <2>1, MasLugares DEF Retirados
<1>5. HilosConMetadata'
  <2> SUFFICES ASSUME NEW h \in Numeros, hilo'[h] \in Compactando \ {"arranca", "busca"}
               PROVE  "metadata" \in archivos'[tablaDe[h]]
    BY <1>1 DEF HilosConMetadata
  <2>1. CASE tablaDe[h] = t
    BY <2>1
  <2>2. CASE tablaDe[h] # t
    <3>1. h # g /\ hilo[h] = hilo'[h]
      BY <1>1, <2>2
    <3>2. "metadata" \in archivos[tablaDe[h]] /\ tablaDe[h] \in Tablas
      BY <1>1, <3>1 DEF HilosConMetadata, Directorios
    <3> QED
      BY <2>2, <3>2
  <2> QED
    BY <2>1, <2>2
<1>6. \A L, u : Falta(L, u)' <=> Falta(L, u)
  BY <1>1 DEF Falta
<1>7. ConMetadata'
  <2> SUFFICES ASSUME NEW u \in carpetas
               PROVE  \/ "metadata" \in archivos'[u]
                      \/ Falta({"create_metadata", "drop_carpeta"}, u)'
                      \/ "tmpc" \in archivos'[u] /\ "resto" \in riesgo'
    BY DEF ConMetadata
  <2>1. u # t => archivos'[u] = archivos[u]
    BY <1>1
  <2> QED
    BY <1>6, <2>1 DEF ConMetadata
<1>8. ConParticion'
  <2> SUFFICES ASSUME NEW u \in carpetas
               PROVE  \/ "bin" \in archivos'[u] \/ Falta(Fijos, u)' \/ Reescribe(u)'
                      \/ "resto" \in riesgo'
    BY DEF ConParticion
  <2>1. ASSUME NEW h \in Numeros, hilo[h] = "escribe_bin", tablaDe[h] = u, h # g
        PROVE  Reescribe(u)'
    BY <1>1, <2>1 DEF Reescribe
  <2>2. CASE u # t
    <3>1. archivos'[u] = archivos[u]
      BY <1>1, <2>2
    <3>2. Reescribe(u) => Reescribe(u)'
      BY <2>1, <2>2 DEF Reescribe
    <3> QED
      BY <1>6, <3>1, <3>2 DEF ConParticion
  <2>3. CASE u = t
    <3>1. hilo'[g] = "escribe_bin" => Reescribe(u)'
      BY <1>1, <2>3 DEF Reescribe
    <3>2. Reescribe(u) => Reescribe(u)' \/ hilo[g] = "escribe_bin"
      BY <2>1 DEF Reescribe
    <3> QED
      BY <1>6, <2>3, <3>1, <3>2 DEF ConParticion
  <2> QED
    BY <2>2, <2>3
<1> QED
  BY <1>3, <1>4, <1>5, <1>7, <1>8

LEMMA OrdenadaHilo ==
  ASSUME Tipos, Ordenada, NEW g \in Numeros, funcionCompactar(g), ~MuereHilo(g), Aparte'
  PROVE  Ordenada'
<1>1. HiloMovido(g)
  BY PasosHilo
<1>2. ~Solapan' /\ riesgo \subseteq riesgo'
  <2>1. PICK S \in SUBSET Sucesos : Anota(S)
    BY PasosHilo
  <2> QED
    BY <2>1, ApartaAntes DEF Anota
<1>3. archivos \in [Tablas -> SUBSET {"metadata", "bin", "tmp", "tmpc"}] /\ carpetas \subseteq Tablas
  BY Partes DEF Tipos, TipoDisco
<1>4. \A h \in Numeros : hilo[h] \in Compactando =>
        /\ tablaDe[h] \in carpetas
        /\ hilo[h] \in {"arranca", "busca"} \/ "metadata" \in archivos[tablaDe[h]]
  BY DEF Ordenada, Directorios, HilosConMetadata
\* The thread moves and leaves the disk alone.
<1>5. ASSUME UNCHANGED disco, hilo[g] # "escribe_bin", hilo'[g] # "escribe_bin",
             hilo'[g] \in Compactando =>
               /\ tablaDe[g] \in carpetas
               /\ hilo'[g] \in {"arranca", "busca"} \/ "metadata" \in archivos[tablaDe[g]]
      PROVE  Ordenada'
  <2>1. HilosQuietos
    BY <1>1, <1>4, <1>5 DEF HilosQuietos, HiloMovido
  <2>2. ClientesQuietos
    BY <1>1 DEF ClientesQuietos, HiloMovido, clientes
  <2> QED
    BY <1>2, <1>5, <2>1, <2>2, VidaQuieta
<1>6. ASSUME NEW desde, NEW hasta, Avanza(g, desde, hasta)
      PROVE  hilo[g] = desde /\ hilo'[g] = hasta /\ UNCHANGED disco
  BY <1>6, Partes DEF Avanza, EnHilo, VaHilo, Tipos, TipoHilos
<1>7. ASSUME NEW desde, NEW lugar, EnHilo(g, desde), VaHilo(g, lugar)
      PROVE  hilo[g] = desde /\ hilo'[g] = lugar
  BY <1>7, Partes DEF EnHilo, VaHilo, Tipos, TipoHilos
<1>8. CASE Arranca(g)
  BY <1>5, <1>6, <1>8, MasLugares DEF Arranca
<1>9. CASE Despierta(g)
  <2>1. \/ Avanza(g, "duerme", "busca") /\ tablaDe[g] \in carpetas
        \/ Avanza(g, "duerme", "indice")
    BY <1>9 DEF Despierta, existeTabla
  <2> QED
    BY <1>5, <1>6, <2>1, MasLugares
<1>14. CASE Indice(g)
  BY <1>5, <1>6, <1>14, MasLugares DEF Indice
<1>10. CASE Busca(g)
  <2>1. /\ hilo[g] = "busca" /\ "metadata" \in archivos[tablaDe[g]] /\ UNCHANGED disco
        /\ hilo'[g] \in {"espera", "duerme"}
    BY <1>7, <1>10 DEF Busca, EnHilo
  <2>2. tablaDe[g] \in carpetas
    BY <1>4, <2>1, MasLugares
  <2> QED
    BY <1>5, <2>1, <2>2
<1>11. CASE TomaCompactacion(g) \/ SueltaCompactacion(g) \/ Saca(g) \/ Olvida(g)
  <2>1. UNCHANGED disco
    BY <1>11 DEF TomaCompactacion, SueltaCompactacion, Saca, Olvida
  <2>2. \/ hilo[g] = "espera" /\ hilo'[g] = "renombra"
        \/ hilo'[g] \in {"duerme", "olvida", "fin"} /\ hilo[g] # "escribe_bin"
    BY <1>7, <1>11 DEF TomaCompactacion, SueltaCompactacion, Saca, Olvida, EnHilo
  <2> QED
    BY <1>4, <1>5, <2>1, <2>2, MasLugares
<1>12. CASE Une(g)
  <2>1. Avanza(g, "une", "borra_bin") \/ Avanza(g, "une", "suelta")
    BY <1>12 DEF Une
  <2>2. hilo[g] = "une" /\ hilo'[g] \in {"borra_bin", "suelta"} /\ UNCHANGED disco
    BY <1>6, <2>1
  <2>3. tablaDe[g] \in carpetas /\ "metadata" \in archivos[tablaDe[g]]
    BY <1>4, <2>2, MasLugares
  <2> QED
    BY <1>5, <2>2, <2>3
<1>13. CASE cambiarNombreTmpATmpc(g) \/ BorraBin(g) \/ crearParticionNueva(g)
  <2>1. PICK t : t = tablaDe[g]
    OBVIOUS
  <2>2. /\ hilo[g] \in {"renombra", "borra_bin", "escribe_bin"} /\ carpetas' = carpetas
        /\ hilo'[g] \in {"une", "escribe_bin", "suelta"}
    BY <1>7, <1>13 DEF cambiarNombreTmpATmpc, BorraBin, crearParticionNueva, EnHilo
  <2>3. /\ t \in Tablas /\ "metadata" \in archivos[t]
        /\ hilo[g] \in Compactando \ {"arranca", "busca"} /\ hilo'[g] \in Compactando
    BY <1>3, <1>4, <2>1, <2>2, MasLugares
  <2>4. /\ \A u \in Tablas : u # t => archivos'[u] = archivos[u]
        /\ "metadata" \in archivos'[t]
        /\ \/ hilo'[g] = "escribe_bin" \/ "bin" \in archivos'[t]
           \/ "bin" \notin archivos[t] /\ hilo[g] # "escribe_bin"
    <3>1. CASE cambiarNombreTmpATmpc(g)
      <4>1. /\ archivos' = [archivos EXCEPT ![t] =
                              IF "tmp" \in @ THEN (@ \ {"tmp"}) \cup {"tmpc"} ELSE @]
            /\ hilo[g] = "renombra"
        BY <2>1, <3>1 DEF cambiarNombreTmpATmpc, EnHilo
      <4> QED
        BY <1>3, <2>3, <4>1
    <3>2. CASE BorraBin(g)
      <4>1. archivos' = [archivos EXCEPT ![t] = @ \ {"bin"}] /\ hilo'[g] = "escribe_bin"
        BY <1>7, <2>1, <3>2 DEF BorraBin
      <4> QED
        BY <1>3, <2>3, <4>1
    <3>3. CASE crearParticionNueva(g)
      <4>1. archivos' = [archivos EXCEPT ![t] = (@ \cup {"bin"}) \ {"tmpc"}]
        BY <2>1, <3>3 DEF crearParticionNueva
      <4> QED
        BY <1>3, <2>3, <4>1
    <3> QED
      BY <1>13, <3>1, <3>2, <3>3
  <2> QED
    BY <1>1, <1>2, <2>1, <2>2, <2>3, <2>4, OrdenadaHiloDisco
<1> QED
  BY <1>8, <1>9, <1>10, <1>11, <1>12, <1>13, <1>14 DEF funcionCompactar

\* The dump adds temporals, but not where a DROP has begun to delete.
LEMMA OrdenadaDump ==
  ASSUME Tipos, Ordenada, Conserva, dump, ~Muere, Aparte'
  PROVE  Ordenada'
<1>1. /\ carpetas' = carpetas /\ UNCHANGED <<lista, clientes, hilos>> /\ Anota({})
      /\ archivos' = [t \in Tablas |-> IF t \in memTable THEN archivos[t] \cup {"tmp"}
                                       ELSE archivos[t]]
  BY DEF dump
<1>2. ~Solapan' /\ riesgo \subseteq riesgo'
  BY <1>1, ApartaAntes DEF Anota
<1>3. \A t \in Tablas : archivos[t] \subseteq archivos'[t]
                        /\ (t \notin memTable => archivos'[t] = archivos[t])
  BY <1>1
<1>4. /\ \A c \in Clientes : pc'[c] = pc[c] /\ tabla'[c] = tabla[c]
      /\ \A g \in Numeros : hilo'[g] = hilo[g] /\ tablaDe'[g] = tablaDe[g]
      /\ carpetas \subseteq Tablas
  BY <1>1, Partes DEF clientes, hilos, lista, Tipos, TipoDisco
<1> USE DEF Ordenada
<1>5. Directorios'
  BY <1>1, <1>4 DEF Directorios
<1>6. Retirados'
  <2>1. ASSUME NEW c \in Clientes, pc[c] \in Borrando
        PROVE  archivos'[tabla'[c]] = archivos[tabla[c]]
    <3>1. tabla[c] \notin memTable /\ tabla[c] \in Tablas
      BY <2>1, Lugares DEF Conserva, Archivos, Tipos, Direcciones
    <3> QED
      BY <1>3, <1>4, <3>1
  <2> QED
    BY <1>4, <2>1, Lugares DEF Retirados
<1>7. HilosConMetadata'
  BY <1>3, <1>4 DEF HilosConMetadata, Directorios
<1>8. \A L, u : (Falta(L, u)' <=> Falta(L, u)) /\ (Reescribe(u)' <=> Reescribe(u))
  BY <1>4 DEF Falta, Reescribe
<1>9. ConMetadata' /\ ConParticion'
  BY <1>1, <1>2, <1>3, <1>4, <1>8 DEF ConMetadata, ConParticion
<1> QED
  BY <1>2, <1>5, <1>6, <1>7, <1>9

LEMMA OrdenadaIgual ==
  ASSUME Ordenada, ~Solapan', riesgo \subseteq riesgo',
         UNCHANGED <<disco, lista, clientes, hilos>>
  PROVE  Ordenada'
<1>1. ClientesQuietos
  BY DEF ClientesQuietos, clientes
<1>2. HilosQuietos
  BY DEF HilosQuietos, hilos, lista, Ordenada, Directorios, HilosConMetadata
<1> QED
  BY <1>1, <1>2, VidaQuieta

LEMMA VidaNext == Tipos /\ Conserva /\ Nacientes /\ Vida /\ [Next]_vars => Vida'
<1> SUFFICES ASSUME Tipos, Conserva, Nacientes, Vida, [Next]_vars, Aparte' PROVE Ordenada'
  BY DEF Vida
<1>1. CASE UNCHANGED vars
  <2>1. UNCHANGED <<disco, lista, clientes, hilos, riesgo>>
    BY <1>1 DEF vars
  <2>2. Ordenada
    BY <2>1 DEF Vida, Aparte
  <2>3. Solapan' <=> Solapan
    BY <2>1 DEF Solapan, EnTabla, clientes, hilos, lista
  <2> QED
    BY <2>1, <2>2, <2>3, OrdenadaIgual DEF Ordenada
<1>2. ASSUME NEW S \in SUBSET Sucesos, Recuerda(S) PROVE Ordenada /\ ~Solapan' /\ riesgo \subseteq riesgo'
  BY <1>2, ApartaAntes DEF Vida
<1>3. ASSUME NEW S \in SUBSET Sucesos, Anota(S) PROVE Ordenada /\ ~Solapan' /\ riesgo \subseteq riesgo'
  BY <1>2, <1>3 DEF Anota
<1>4. ASSUME NEW S \in SUBSET Sucesos, Anota(S), UNCHANGED <<disco, lista, clientes, hilos>>
      PROVE  Ordenada'
  BY <1>3, <1>4, OrdenadaIgual
<1>5. ASSUME NEW S \in SUBSET Sucesos, Anota(S), Muere PROVE Ordenada'
  BY <1>4, <1>5 DEF Muere
<1>6. ASSUME NEW c \in Clientes, Pide(c) PROVE Ordenada'
  <2>1. Recuerda({})
    BY <1>6 DEF Pide, SELECT, APIselect, INSERT, DESCRIBE, DROP, CREATE, Empieza
  <2> QED
    BY <1>2, <1>6, <2>1, OrdenadaPide
<1>7. ASSUME NEW c \in Clientes, Atiende(c) PROVE Ordenada'
  <2>1. CASE SinSemaforo(c) \/ SinArchivo(c)
    <3>1. Muere /\ (Anota({}) \/ Anota({"inexistente"}))
      BY <2>1 DEF SinSemaforo, SinArchivo
    <3>2. {} \in SUBSET Sucesos /\ {"inexistente"} \in SUBSET Sucesos
      BY DEF Sucesos
    <3> QED
      BY <1>5, <3>1, <3>2
  <2>2. CASE \/ verificarSemaforoTabla(c) \/ waitearSemTable(c) \/ Toma(c)
             \/ LeeParticion(c) \/ LeeMemtable(c) \/ postearSemTable(c)
             \/ verificarDesdeConsola(c) \/ LeeParticionDesdeConsola(c)
             \/ LeeMemtableDesdeConsola(c)
             \/ agregarTabla(c) \/ obtenerMetadataTabla(c)
             \/ verificarSemaforoCompactacion(c) \/ RemoverDeLaMemtable(c)
             \/ dictionary_is_empty(c) \/ list_create(c) \/ crearSemaforo(c)
             \/ levantarHiloCompactacion(c) \/ AnotaHilo(c)
    <3>1. \E S \in SUBSET Sucesos : Anota(S)
      BY <2>2, Pasos
    <3> QED
      BY <1>3, <2>2, <3>1, OrdenadaUsa
  <2>3. CASE \/ RemoverParticionesDeTablaYSusBloques(c) \/ RemoverTemporalesDeTablaYSusBloques(c)
             \/ RemoverMetadataDeTabla(c) \/ RemoverCarpetaVaciaDeTabla(c)
             \/ crearTabla(c) \/ crearMetadataConfig(c) \/ crearParticion(c)
    <3>1. \E S \in SUBSET Sucesos : Anota(S)
      BY <2>3, PasosDisco
    <3> QED
      BY <1>3, <2>3, <3>1, OrdenadaCREATE, OrdenadaDROP
  <2> QED
    BY <1>7, <2>1, <2>2, <2>3 DEF Atiende
<1>8. ASSUME NEW g \in Numeros, funcionCompactar(g) PROVE Ordenada'
  <2>1. CASE MuereHilo(g)
    <3>1. Muere /\ Anota({}) /\ {} \in SUBSET Sucesos
      BY <2>1 DEF MuereHilo
    <3> QED
      BY <1>5, <3>1
  <2>2. CASE ~MuereHilo(g)
    <3>1. \E S \in SUBSET Sucesos : Anota(S)
      BY <1>8, <2>2, PasosHilo
    <3> QED
      BY <1>3, <1>8, <2>2, <3>1, OrdenadaHilo
  <2> QED
    BY <2>1, <2>2
<1>9. CASE chekearDumpeo
  BY <1>4, <1>9 DEF chekearDumpeo
<1>10. CASE dump
  <2>1. Anota({}) /\ {} \in SUBSET Sucesos
    BY <1>10 DEF dump
  <2> QED
    BY <1>3, <1>5, <1>10, <2>1, OrdenadaDump
<1> QED
  BY <1>1, <1>6, <1>7, <1>8, <1>9, <1>10 DEF Next

LEMMA VidaInit == Init => Vida
<1> SUFFICES ASSUME Init PROVE Ordenada
  BY DEF Vida
<1>1. PICK n \in 0..MaxSemaforos : \E tablas \in [1..n -> Tablas] : EstadoInicial(n, tablas)
  BY SMTT(30) DEF Init, EstadoInicial
<1>2. PICK tablas \in [1..n -> Tablas] : EstadoInicial(n, tablas)
  BY <1>1
<1>3. /\ pc = [c \in Clientes |-> "libre"]
      /\ hilo = [g \in Numeros |-> IF g <= n THEN "arranca" ELSE "no"]
      /\ tablaDe = [g \in Numeros |-> IF g <= n THEN tablas[g] ELSE Nadie]
      /\ carpetas = {tablas[i] : i \in 1..n} /\ carpetas \subseteq Tablas
  BY <1>2 DEF EstadoInicial
<1>8. \A t \in carpetas : {"metadata", "bin"} \subseteq archivos[t]
  <2>1. \A t \in Tablas : t \in carpetas => {"metadata", "bin"} \subseteq archivos[t]
    BY DEF Init
  <2> QED
    BY <1>3, <2>1
<1>4. ~Solapan
  BY <1>3, Lugares, MasLugares DEF Solapan, EnTabla
<1>5. Directorios
  <2>1. ASSUME NEW g \in Numeros, hilo[g] \in Compactando PROVE tablaDe[g] \in carpetas
    <3>1. g <= n /\ g \in 1..n
      BY <1>3, <2>1, MasLugares, Constantes
    <3> QED
      BY <1>3, <3>1
  <2> QED
    BY <1>3, <2>1, MasLugares DEF Directorios
<1>6. Retirados /\ HilosConMetadata
  BY <1>3, MasLugares DEF Retirados, HilosConMetadata
<1>7. ConMetadata /\ ConParticion
  BY <1>8 DEF ConMetadata, ConParticion
<1> QED
  BY <1>4, <1>5, <1>6, <1>7 DEF Ordenada

\* While nothing overlaps a CREATE or a DROP, the directory that stays without metadata
\* is one where a DROP found the temporal of a compaction.
THEOREM NingunaCarpetaHueca == Spec => []SinCarpetaHueca
<1>1. Spec => [](Tipos /\ Conserva /\ Nacientes /\ Vida)
  BY TiposInit, TiposNext, ConservaInit, ConservaNext, NacientesInit, NacientesNext, VidaInit,
     VidaNext, PTL DEF Spec
<1>2. Vida => SinCarpetaHueca
  <2> SUFFICES ASSUME Ordenada, NEW t \in carpetas, "metadata" \notin archivos[t],
                      EnTabla(Altas \cup Bajas, t) = {}
               PROVE  "tmpc" \in archivos[t]
    BY DEF Vida, Aparte, SinCarpetaHueca
  <2>1. ~Falta({"create_metadata", "drop_carpeta"}, t)
    BY Lugares, MasLugares DEF Falta, EnTabla
  <2> QED
    BY <2>1 DEF Ordenada, ConMetadata
<1> QED
  BY <1>1, <1>2, PTL


-----------------------------------------------------------------------------
(* ListaSem has a semaphore for each thread that is to remove one: Contados. *)
(* A table with metadata has such a thread, or a CREATE that will make one:  *)
(* ConDueno.                                                                 *)

Acabado == {"olvida", "fin"}
Vigentes(t) == {g \in 1..usados : tablaDe[g] = t /\ hilo[g] \notin Acabado}
Contados ==
  riesgo \cap {"lista", "enlaces"} = {} =>
    \A t \in Tablas : Cardinality(Posiciones(t)) = Cardinality(Vigentes(t))

Yendose == {"indice", "saca", "olvida", "fin"}
Dueno(g, t) == g <= usados /\ tablaDe[g] = t /\ hilo[g] \notin Yendose
\* A CREATE that has written the metadata and has not made its semaphore.
SinHilo == {"create_particion", "create_prueba", "create_lista", "create_semaforo"}
ConDueno ==
  \A t \in Tablas : "metadata" \in archivos[t]
    => (\E g \in Numeros : Dueno(g, t)) \/ Falta(SinHilo, t)

\* Positions of a name in any list.
Lugar(q, nombre, t) == {i \in 1..Len(q) : nombre[q[i]] = t}

LEMMA LugarFinito ==
  ASSUME NEW S, NEW q \in Seq(S), NEW nombre, NEW t
  PROVE  /\ IsFiniteSet(Lugar(q, nombre, t)) /\ Cardinality(Lugar(q, nombre, t)) \in Nat
<1>1. IsFiniteSet(1..Len(q))
  BY FS_Interval
<1>2. Lugar(q, nombre, t) \in SUBSET (1..Len(q))
  BY DEF Lugar
<1> QED
  BY <1>1, <1>2, FS_Subset, FS_CardinalityType

LEMMA LugarAlAgregar ==
  ASSUME NEW S, NEW q \in Seq(S), NEW nombre, NEW nombre2, NEW s, NEW t,
         Coinciden(nombre2, nombre, S)
  PROVE  Cardinality(Lugar(Append(q, s), nombre2, t)) =
           IF nombre2[s] = t THEN Cardinality(Lugar(q, nombre, t)) + 1
                             ELSE Cardinality(Lugar(q, nombre, t))
<1>1. PICK n \in Nat : n = Len(q)
  OBVIOUS
<1> DEFINE r == Append(q, s)
<1>2. Len(r) = n + 1 /\ r[n + 1] = s /\ \A i \in 1..n : r[i] = q[i] /\ q[i] \in S
  BY <1>1
<1> HIDE DEF r
<1>3. \A i \in 1..n : nombre2[r[i]] = nombre[q[i]]
  BY <1>2 DEF Coinciden
<1>4. CASE nombre2[s] = t
  <2>1. Lugar(r, nombre2, t) = Lugar(q, nombre, t) \cup {n + 1}
    <3>1. ASSUME NEW i PROVE i \in Lugar(r, nombre2, t) <=> i \in Lugar(q, nombre, t) \cup {n + 1}
      <4>1. i \in 1..(n + 1) <=> i \in 1..n \/ i = n + 1
        BY <1>1
      <4> QED
        BY <1>1, <1>2, <1>3, <1>4, <4>1 DEF Lugar
    <3> QED
      BY <3>1
  <2>2. n + 1 \notin Lugar(q, nombre, t)
    BY <1>1 DEF Lugar
  <2> QED
    BY <1>4, <2>1, <2>2, LugarFinito, FS_AddElement DEF r
<1>5. CASE nombre2[s] # t
  <2>1. Lugar(r, nombre2, t) = Lugar(q, nombre, t)
    <3>1. ASSUME NEW i PROVE i \in Lugar(r, nombre2, t) <=> i \in Lugar(q, nombre, t)
      <4>1. i \in 1..(n + 1) <=> i \in 1..n \/ i = n + 1
        BY <1>1
      <4>2. n + 1 \notin 1..n
        BY <1>1
      <4> QED
        BY <1>1, <1>2, <1>3, <1>5, <4>1, <4>2 DEF Lugar
    <3> QED
      BY <3>1
  <2> QED
    BY <1>5, <2>1 DEF r
<1> QED
  BY <1>4, <1>5

LEMMA LugarAlQuitar ==
  ASSUME NEW S, NEW q \in Seq(S), NEW nombre, NEW p \in 1..Len(q), NEW r \in Seq(S),
         Quitada(q, p, r), NEW t
  PROVE  Cardinality(Lugar(r, nombre, t)) =
           IF nombre[q[p]] = t THEN Cardinality(Lugar(q, nombre, t)) - 1
                               ELSE Cardinality(Lugar(q, nombre, t))
<1>1. PICK n \in Nat : n = Len(q) /\ n >= 1 /\ Len(r) = n - 1
  BY DEF Quitada
<1> DEFINE A == Lugar(r, nombre, t)
           B == Lugar(q, nombre, t) \ {p}
           f == [i \in A |-> IF i < p THEN i ELSE i + 1]
<1>2. \A i \in 1..(n - 1) : /\ i < p => r[i] = q[i]
                            /\ ~(i < p) => r[i] = q[i + 1]
  BY <1>1 DEF Quitada
<1>3. ASSUME NEW i \in A PROVE f[i] \in B
  <2>1. i \in 1..(n - 1) /\ nombre[r[i]] = t
    BY <1>1, <1>3 DEF Lugar
  <2>2. CASE i < p
    <3>1. i \in 1..n /\ i # p
      BY <1>1, <2>1, <2>2
    <3> QED
      BY <1>1, <1>2, <1>3, <2>1, <2>2, <3>1 DEF Lugar
  <2>3. CASE ~(i < p)
    <3>1. i + 1 \in 1..n /\ i + 1 # p
      BY <1>1, <2>1, <2>3
    <3> QED
      BY <1>1, <1>2, <1>3, <2>1, <2>3, <3>1 DEF Lugar
  <2> QED
    BY <2>2, <2>3
<1>4. ASSUME NEW i \in A, NEW j \in A, f[i] = f[j] PROVE i = j
  <2>1. i \in Nat /\ j \in Nat /\ p \in Nat
    BY <1>1 DEF Lugar
  <2> QED
    BY <1>4, <2>1
<1>5. ASSUME NEW k \in B PROVE \E i \in A : f[i] = k
  <2>1. k \in 1..n /\ k # p /\ nombre[q[k]] = t
    BY <1>1 DEF Lugar
  <2>2. CASE k < p
    <3>1. k \in 1..(n - 1)
      BY <1>1, <2>1, <2>2
    <3>2. k \in A
      BY <1>1, <1>2, <2>1, <2>2, <3>1 DEF Lugar
    <3> QED
      BY <2>2, <3>2
  <2>3. CASE ~(k < p)
    <3>1. k - 1 \in 1..(n - 1) /\ ~(k - 1 < p) /\ (k - 1) + 1 = k
      BY <1>1, <2>1, <2>3
    <3>2. nombre[r[k - 1]] = t
      BY <1>2, <2>1, <3>1
    <3>3. k - 1 \in A
      BY <1>1, <3>1, <3>2 DEF Lugar
    <3> QED
      BY <3>1, <3>3
  <2> QED
    BY <2>2, <2>3
<1>6. f \in [A -> B]
  BY <1>3
<1> HIDE DEF f
<1>7. f \in Injection(A, B) /\ f \in Surjection(A, B)
  BY <1>4, <1>5, <1>6 DEF Injection, Surjection, IsInjective
<1>8. IsFiniteSet(A)
  BY LugarFinito
<1>9. Cardinality(B) = Cardinality(A)
  BY <1>7, <1>8, FS_Surjection
<1>10. p \in Lugar(q, nombre, t) <=> nombre[q[p]] = t
  BY DEF Lugar
<1> QED
  BY <1>9, <1>10, LugarFinito, FS_RemoveElement

LEMMA PosicionesSon ==
  ASSUME NEW t
  PROVE  /\ Posiciones(t) = Lugar(ListaSem, tablaDe, t)
         /\ Posiciones(t)' = Lugar(ListaSem', tablaDe', t)
  BY DEF Posiciones, Lugar

LEMMA VigentesFinito ==
  ASSUME Tipos, NEW t
  PROVE  IsFiniteSet(Vigentes(t)) /\ Cardinality(Vigentes(t)) \in Nat
<1>1. usados \in Nat
  BY Partes, Constantes DEF Tipos, TipoLista
<1>2. IsFiniteSet(1..usados) /\ Vigentes(t) \in SUBSET (1..usados)
  BY <1>1, FS_Interval DEF Vigentes
<1> QED
  BY <1>2, FS_Subset, FS_CardinalityType

\* The threads come no nearer to their end, nor does the list change.
LEMMA ContadosQuietos ==
  ASSUME Contados, riesgo \subseteq riesgo', UNCHANGED <<ListaSem, tablaDe, usados>>,
         \A g \in 1..usados : hilo'[g] \in Acabado <=> hilo[g] \in Acabado
  PROVE  Contados'
<1>1. ASSUME NEW t \in Tablas PROVE Vigentes(t)' = Vigentes(t) /\ Posiciones(t)' = Posiciones(t)
  BY PosicionesSon DEF Vigentes
<1> QED
  BY <1>1 DEF Contados

LEMMA ContadosSemaforo ==
  ASSUME Tipos, Contados, NEW c \in Clientes, crearSemaforo(c)
  PROVE  Contados'
<1>1. PICK n : n = usados + 1
  OBVIOUS
<1>2. usados' = n /\ n \in Numeros /\ usados \in Nat
  BY <1>1, AlcanzaSemaforo DEF Tipos
<1>3. Anota({}) /\ hilo' = hilo /\ tablaDe' = [tablaDe EXCEPT ![n] = tabla[c]]
  BY <1>2 DEF crearSemaforo, hilos
<1> SUFFICES ASSUME riesgo' \cap {"lista", "enlaces"} = {}, NEW t \in Tablas
             PROVE  Cardinality(Posiciones(t)') = Cardinality(Vigentes(t)')
  BY DEF Contados
<1>5. riesgo \cap {"lista", "enlaces"} = {} /\ "enlaces" \notin riesgo
  <2>1. riesgo \subseteq riesgo'
    BY <1>3 DEF Anota, Recuerda
  <2> QED
    BY <2>1
<1>6. ListaSem' = Append(ListaSem, n)
  BY <1>2, <1>5 DEF crearSemaforo
<1>7. ListaSem \in Seq(1..usados)
  BY Partes DEF Tipos, TipoLista
<1>8. tablaDe'[n] = tabla[c] /\ \A g \in 1..usados : g \in Numeros /\ g # n /\ tablaDe'[g] = tablaDe[g]
  <2>1. \A g \in 1..usados : g \in Numeros /\ g # n
    BY <1>1, <1>2, Constantes
  <2> QED
    BY <1>2, <1>3, <2>1, Partes DEF Tipos, TipoLista
<1>9. Coinciden(tablaDe', tablaDe, 1..usados)
  BY <1>8 DEF Coinciden
<1>10. Cardinality(Posiciones(t)') = IF tablaDe'[n] = t THEN Cardinality(Posiciones(t)) + 1
                                                        ELSE Cardinality(Posiciones(t))
  BY <1>6, <1>7, <1>9, LugarAlAgregar, PosicionesSon
<1>11. hilo[n] = "no"
  <2>1. n > usados
    BY <1>1, <1>2
  <2> QED
    BY <1>2, <2>1 DEF Tipos, Direcciones
<1>12. Vigentes(t)' = IF tablaDe'[n] = t THEN Vigentes(t) \cup {n} ELSE Vigentes(t)
  <2>1. \A g : g \in 1..n <=> g \in 1..usados \/ g = n
    BY <1>1, <1>2
  <2>2. Vigentes(t)' = {g \in 1..n : tablaDe'[g] = t /\ hilo[g] \notin Acabado}
    BY <1>2, <1>3 DEF Vigentes
  <2>3. \A g : g \in Vigentes(t)' <=> (g \in Vigentes(t) \/ (g = n /\ tablaDe'[n] = t))
    BY <1>8, <1>11, <2>1, <2>2 DEF Vigentes, Acabado
  <2> QED
    BY <2>3
<1>13. n \notin Vigentes(t)
  BY <1>8 DEF Vigentes
<1>14. Cardinality(Vigentes(t)') = IF tablaDe'[n] = t THEN Cardinality(Vigentes(t)) + 1
                                                      ELSE Cardinality(Vigentes(t))
  BY <1>12, <1>13, VigentesFinito, FS_AddElement
<1> QED
  BY <1>5, <1>10, <1>14 DEF Contados

LEMMA ContadosSaca ==
  ASSUME Tipos, Contados, NEW g \in Numeros, Saca(g)
  PROVE  Contados'
<1>1. PICK t, s : t = tablaDe[g] /\ s = list_find(t)
  OBVIOUS
<1>2. /\ hilo[g] = "saca" /\ hilo'[g] = "olvida" /\ \A h \in Numeros : h # g => hilo'[h] = hilo[h]
      /\ tablaDe' = tablaDe /\ usados' = usados
  BY Partes DEF Saca, EnHilo, VaHilo, Tipos, TipoHilos
<1>3. g \in 1..usados /\ t \in Tablas /\ usados \in Nat
  <2>1. ~(g > usados) /\ usados \in 0..MaxSemaforos
    BY <1>2, Partes DEF Tipos, Direcciones, TipoLista
  <2>2. g \in 1..usados /\ g <= usados
    BY <2>1, Constantes
  <2> QED
    BY <1>1, <2>1, <2>2, Constantes DEF Tipos, Direcciones
<1>4. riesgo \subseteq riesgo'
  <2>1. PICK S \in SUBSET Sucesos : Anota(S)
    <3>1. {} \in SUBSET Sucesos /\ {"liberado"} \in SUBSET Sucesos
      BY DEF Sucesos
    <3> QED
      BY <3>1 DEF Saca
  <2> QED
    BY <2>1, RecuerdaTipo DEF Anota, Tipos
<1> SUFFICES ASSUME riesgo' \cap {"lista", "enlaces"} = {}, NEW u \in Tablas
             PROVE  Cardinality(Posiciones(u)') = Cardinality(Vigentes(u)')
  BY DEF Contados
<1>5. Cardinality(Posiciones(t)) = Cardinality(Vigentes(t))
        /\ Cardinality(Posiciones(u)) = Cardinality(Vigentes(u))
  BY <1>3, <1>4 DEF Contados
<1>6. g \in Vigentes(t)
  BY <1>1, <1>2, <1>3 DEF Vigentes, Acabado
<1>7. ListaSem \in Seq(1..usados)
  BY Partes DEF Tipos, TipoLista
<1>8. s # NULL
  <2>1. Cardinality(Vigentes(t)) # 0
    BY <1>6, VigentesFinito, FS_EmptySet
  <2>2. Posiciones(t) # {}
    BY <1>5, <2>1, FS_EmptySet
  <2>3. \E i \in 1..Len(ListaSem) : EsPrimera(ListaSem, tablaDe, t, i)
    BY <1>7, <2>2, HallaDonde DEF Ausente, Posiciones
  <2>4. PICK i \in 1..Len(ListaSem) : EsPrimera(ListaSem, tablaDe, t, i)
    BY <2>3
  <2>5. s = ListaSem[i]
    BY <1>1, <1>7, <2>4, HallaPrimero, HallaEsListFind
  <2>6. ListaSem[i] \in 1..usados
    BY <1>3, <1>7, <2>4 DEF EsPrimera
  <2> QED
    BY <1>3, <2>5, <2>6, Constantes
<1>9. ListaSem' = SinPrimera(t)
  <2>1. "enlaces" \notin riesgo
    BY <1>4
  <2> QED
    BY <1>1, <1>8, <2>1 DEF Saca, Destruye, SinPrimera
<1>10. PICK p \in 1..Len(ListaSem) :
         tablaDe[ListaSem[p]] = t /\ ListaSem' \in Seq(1..usados) /\ Quitada(ListaSem, p, ListaSem')
  <2>1. PICK p : p = Primera(t)
    OBVIOUS
  <2>2. Posiciones(t) # {} /\ Posiciones(t) \in SUBSET Nat
    BY <1>1, <1>7, <1>8 DEF list_find, Posiciones
  <2>3. p \in 1..Len(ListaSem) /\ tablaDe[ListaSem[p]] = t
    <3>1. Primera(t) \in Posiciones(t)
      BY <2>2, HayPrimera DEF Primera
    <3> QED
      BY <2>1, <3>1 DEF Posiciones
  <2>4. ListaSem' = [i \in 1..(Len(ListaSem) - 1) |-> IF i < p THEN ListaSem[i] ELSE ListaSem[i + 1]]
    BY <1>9, <2>1 DEF SinPrimera, Sin
  <2>5. ListaSem' \in Seq(1..usados)
    BY <1>1, <1>8, <1>9, HallaAlSacar
  <2>6. Len(ListaSem') = Len(ListaSem) - 1
    BY <1>7, <2>3, <2>4
  <2> QED
    BY <2>3, <2>4, <2>5, <2>6 DEF Quitada
<1>11. Cardinality(Posiciones(u)') = IF t = u THEN Cardinality(Posiciones(u)) - 1
                                              ELSE Cardinality(Posiciones(u))
  <2>1. PICK q, r : q = ListaSem /\ r = ListaSem'
    OBVIOUS
  <2>2. Cardinality(Lugar(r, tablaDe, u)) =
          IF tablaDe[q[p]] = u THEN Cardinality(Lugar(q, tablaDe, u)) - 1
                               ELSE Cardinality(Lugar(q, tablaDe, u))
    BY <1>7, <1>10, <2>1, LugarAlQuitar
  <2>3. Posiciones(u)' = Lugar(r, tablaDe, u) /\ Posiciones(u) = Lugar(q, tablaDe, u)
    BY <1>2, <2>1, PosicionesSon
  <2> QED
    BY <1>10, <2>1, <2>2, <2>3
<1>12. Vigentes(u)' = IF t = u THEN Vigentes(u) \ {g} ELSE Vigentes(u)
  <2>1. \A h \in 1..usados : h \in Numeros
    BY Partes, Constantes DEF Tipos, TipoLista
  <2>2. Vigentes(u)' = {h \in 1..usados : tablaDe[h] = u /\ hilo'[h] \notin Acabado}
    BY <1>2 DEF Vigentes
  <2>3. \A h : h \in Vigentes(u)' <=> h \in Vigentes(u) /\ ~(h = g /\ t = u)
    BY <1>1, <1>2, <1>3, <2>1, <2>2 DEF Vigentes, Acabado
  <2> QED
    BY <2>3
<1>13. Cardinality(Vigentes(u)') = IF t = u THEN Cardinality(Vigentes(u)) - 1
                                            ELSE Cardinality(Vigentes(u))
  BY <1>6, <1>12, VigentesFinito, FS_RemoveElement
<1> QED
  BY <1>5, <1>11, <1>13


LEMMA ContadosNext == Tipos /\ Nacientes /\ Contados /\ [Next]_vars => Contados'
<1> SUFFICES ASSUME Tipos, Nacientes, Contados, [Next]_vars PROVE Contados'
  OBVIOUS
<1>1. CASE UNCHANGED vars
  BY <1>1, ContadosQuietos DEF vars, lista, hilos
<1>2. ASSUME NEW S \in SUBSET Sucesos, Recuerda(S) PROVE riesgo \subseteq riesgo'
  BY <1>2, RecuerdaTipo DEF Tipos
<1>3. ASSUME NEW S \in SUBSET Sucesos, Recuerda(S), UNCHANGED <<ListaSem, tablaDe, usados, hilos>>
      PROVE  Contados'
  BY <1>2, <1>3, ContadosQuietos DEF hilos
<1>4. ASSUME NEW S \in SUBSET Sucesos, Anota(S), UNCHANGED <<ListaSem, tablaDe, usados, hilos>>
      PROVE  Contados'
  BY <1>3, <1>4 DEF Anota
<1>5. ASSUME NEW S \in SUBSET Sucesos, Anota(S), Muere PROVE Contados'
  BY <1>4, <1>5 DEF Muere, lista
<1>6. ASSUME NEW c \in Clientes, Pide(c) PROVE Contados'
  <2>1. Recuerda({}) /\ UNCHANGED <<lista, hilos>> /\ {} \in SUBSET Sucesos
    BY <1>6 DEF Pide, SELECT, APIselect, INSERT, DESCRIBE, DROP, CREATE, Empieza
  <2> QED
    BY <1>3, <2>1 DEF lista
<1>7. ASSUME NEW c \in Clientes, Atiende(c) PROVE Contados'
  <2>1. CASE SinSemaforo(c) \/ SinArchivo(c)
    <3>1. Muere /\ (Anota({}) \/ Anota({"inexistente"}))
      BY <2>1 DEF SinSemaforo, SinArchivo
    <3>2. {} \in SUBSET Sucesos /\ {"inexistente"} \in SUBSET Sucesos
      BY DEF Sucesos
    <3> QED
      BY <1>5, <3>1, <3>2
  <2>2. CASE levantarHiloCompactacion(c)
    <3>1. /\ pc[c] = "create_hilo" /\ hilo' = [hilo EXCEPT ![puntero[c]] = "arranca"]
          /\ UNCHANGED <<ListaSem, tablaDe, usados>> /\ Anota({}) /\ {} \in SUBSET Sucesos
      BY <2>2 DEF levantarHiloCompactacion, En, VaHilo, lista
    <3>2. hilo[puntero[c]] = "no" /\ puntero[c] \in Numeros
      BY <3>1 DEF Nacientes
    <3>3. \A g \in Numeros : hilo'[g] \in Acabado <=> hilo[g] \in Acabado
      BY <3>1, <3>2, Partes DEF Tipos, TipoHilos, Acabado
    <3>4. \A g \in 1..usados : g \in Numeros
      BY Partes, Constantes DEF Tipos, TipoLista
    <3>5. riesgo \subseteq riesgo'
      BY <1>2, <3>1 DEF Anota
    <3> QED
      BY <3>1, <3>3, <3>4, <3>5, ContadosQuietos
  <2>3. CASE \/ verificarSemaforoTabla(c) \/ waitearSemTable(c) \/ Toma(c)
             \/ LeeParticion(c) \/ LeeMemtable(c) \/ postearSemTable(c)
             \/ verificarDesdeConsola(c) \/ LeeParticionDesdeConsola(c)
             \/ LeeMemtableDesdeConsola(c) \/ dictionary_is_empty(c)
             \/ agregarTabla(c) \/ obtenerMetadataTabla(c)
             \/ verificarSemaforoCompactacion(c) \/ RemoverDeLaMemtable(c) \/ AnotaHilo(c)
    <3>1. UNCHANGED <<ListaSem, tablaDe, usados, hilos>>
      BY <2>3 DEF verificarSemaforoTabla, waitearSemTable, Toma, LeeParticion, LeeMemtable,
         postearSemTable, agregarTabla, obtenerMetadataTabla, verificarSemaforoCompactacion,
         verificar, verificarDesdeConsola, LeeParticionDesdeConsola, LeeMemtableDesdeConsola,
         dictionary_is_empty, RemoverDeLaMemtable, AnotaHilo, lista
    <3>2. \E S \in SUBSET Sucesos : Anota(S)
      BY <2>3, Pasos
    <3> QED
      BY <1>4, <3>1, <3>2
  <2>4. CASE \/ RemoverParticionesDeTablaYSusBloques(c) \/ RemoverTemporalesDeTablaYSusBloques(c)
             \/ RemoverMetadataDeTabla(c) \/ RemoverCarpetaVaciaDeTabla(c)
             \/ crearTabla(c) \/ crearMetadataConfig(c) \/ crearParticion(c)
    <3>1. UNCHANGED <<lista, hilos>> /\ \E S \in SUBSET Sucesos : Anota(S)
      BY <2>4, PasosDisco
    <3> QED
      BY <1>4, <3>1 DEF lista
  <2>5. CASE list_create(c)
    <3>1. PICK S : S = IF ListaSem # <<>> THEN {"lista"} ELSE {}
      OBVIOUS
    <3>2. /\ ListaSem' = <<>> /\ UNCHANGED <<tablaDe, usados, hilos>> /\ Anota(S)
          /\ S \in SUBSET Sucesos
      BY <2>5, <3>1 DEF list_create, Sucesos
    <3>3. CASE ListaSem = <<>>
      BY <1>4, <3>2, <3>3
    <3>4. CASE ListaSem # <<>>
      <4>1. "lista" \in riesgo'
        BY <3>1, <3>2, <3>4 DEF Anota, Recuerda
      <4> QED
        BY <4>1 DEF Contados
    <3> QED
      BY <3>3, <3>4
  <2> QED
    BY <1>7, <2>1, <2>2, <2>3, <2>4, <2>5, ContadosSemaforo DEF Atiende
<1>8. ASSUME NEW g \in Numeros, funcionCompactar(g) PROVE Contados'
  <2>1. CASE MuereHilo(g)
    <3>1. Muere /\ Anota({}) /\ {} \in SUBSET Sucesos
      BY <2>1 DEF MuereHilo
    <3> QED
      BY <1>5, <3>1
  <2>2. CASE ~MuereHilo(g) /\ ~Saca(g)
    <3>1. HiloMovido(g) /\ \E S \in SUBSET Sucesos : Anota(S)
      BY <1>8, <2>2, PasosHilo
    <3>2. hilo'[g] \in Acabado <=> hilo[g] \in Acabado
      <4>1. ASSUME NEW desde, NEW lugar, EnHilo(g, desde), VaHilo(g, lugar)
            PROVE  hilo[g] = desde /\ hilo'[g] = lugar
        BY <4>1, Partes DEF EnHilo, VaHilo, Tipos, TipoHilos
      <4>2. CASE Arranca(g) \/ Despierta(g) \/ Une(g) \/ Indice(g)
        <5>1. \/ Avanza(g, "arranca", "duerme") \/ Avanza(g, "duerme", "busca")
              \/ Avanza(g, "duerme", "indice") \/ Avanza(g, "une", "borra_bin")
              \/ Avanza(g, "une", "suelta") \/ Avanza(g, "indice", "saca")
          BY <4>2 DEF Arranca, Despierta, Une, Indice
        <5> QED
          BY <4>1, <5>1 DEF Avanza, Acabado
      <4>3. CASE Busca(g) \/ TomaCompactacion(g) \/ cambiarNombreTmpATmpc(g) \/ BorraBin(g)
                 \/ crearParticionNueva(g) \/ SueltaCompactacion(g) \/ Olvida(g)
        <5>1. \/ EnHilo(g, "olvida") /\ VaHilo(g, "fin")
              \/ \E desde \in {"busca", "espera", "renombra", "borra_bin", "escribe_bin", "suelta"},
                    lugar \in {"espera", "duerme", "renombra", "une", "escribe_bin", "suelta"} :
                   EnHilo(g, desde) /\ VaHilo(g, lugar)
          BY <4>3 DEF Busca, TomaCompactacion, cambiarNombreTmpATmpc, BorraBin,
             crearParticionNueva, SueltaCompactacion, Olvida
        <5> QED
          BY <4>1, <5>1 DEF Acabado
      <4> QED
        BY <1>8, <2>2, <4>2, <4>3 DEF funcionCompactar
    <3>3. UNCHANGED <<ListaSem, tablaDe, usados>>
      BY <1>8, <2>2 DEF funcionCompactar, Arranca, Despierta, Indice, Busca, TomaCompactacion,
         cambiarNombreTmpATmpc, Une, BorraBin, crearParticionNueva, SueltaCompactacion, Olvida,
         Avanza, lista
    <3>4. \A h \in 1..usados : h \in Numeros
      BY Partes, Constantes DEF Tipos, TipoLista
    <3>5. \A h \in 1..usados : hilo'[h] \in Acabado <=> hilo[h] \in Acabado
      BY <3>1, <3>2, <3>4 DEF HiloMovido
    <3>6. riesgo \subseteq riesgo'
      BY <1>2, <3>1 DEF Anota
    <3> QED
      BY <3>3, <3>5, <3>6, ContadosQuietos
  <2> QED
    BY <1>8, <2>1, <2>2, ContadosSaca
<1>9. CASE chekearDumpeo \/ dump
  <2>1. UNCHANGED <<lista, hilos>> /\ Anota({}) /\ {} \in SUBSET Sucesos
    BY <1>9 DEF chekearDumpeo, dump, Muere
  <2> QED
    BY <1>4, <2>1 DEF lista
<1> QED
  BY <1>1, <1>6, <1>7, <1>8, <1>9 DEF Next

LEMMA ContadosInit == Init => Contados
<1> SUFFICES ASSUME Init, NEW t \in Tablas
             PROVE  Cardinality(Posiciones(t)) = Cardinality(Vigentes(t))
  BY DEF Contados
<1>1. PICK n \in 0..MaxSemaforos : \E tablas \in [1..n -> Tablas] : EstadoInicial(n, tablas)
  BY SMTT(30) DEF Init, EstadoInicial
<1>2. /\ ListaSem = [i \in 1..n |-> i] /\ usados = n /\ n \in Nat
      /\ hilo = [g \in Numeros |-> IF g <= n THEN "arranca" ELSE "no"]
  BY <1>1 DEF EstadoInicial
<1>3. Len(ListaSem) = n /\ \A i \in 1..n : ListaSem[i] = i
  BY <1>2
<1>4. \A g \in 1..n : g \in Numeros /\ hilo[g] = "arranca"
  BY <1>1, <1>2, Constantes
<1>5. Posiciones(t) = {g \in 1..n : tablaDe[g] = t}
  BY <1>3 DEF Posiciones
<1>6. Vigentes(t) = {g \in 1..n : tablaDe[g] = t}
  BY <1>2, <1>4 DEF Vigentes, Acabado
<1> QED
  BY <1>5, <1>6


\* No metadata appears, no thread gives up and no CREATE goes away.
LEMMA ConDuenoQuieto ==
  ASSUME ConDueno,
         \A t \in Tablas : "metadata" \in archivos'[t] => "metadata" \in archivos[t],
         \A g \in Numeros, t \in Tablas : Dueno(g, t) /\ "metadata" \in archivos[t] => Dueno(g, t)',
         \A c \in Clientes : pc[c] \in SinHilo =>
           /\ pc'[c] \in SinHilo /\ tabla'[c] = tabla[c]
  PROVE  ConDueno'
<1> SUFFICES ASSUME NEW t \in Tablas, "metadata" \in archivos'[t]
             PROVE  \/ \E g \in Numeros : Dueno(g, t)'
                    \/ Falta(SinHilo, t)'
  BY DEF ConDueno
<1>1. "metadata" \in archivos[t]
  OBVIOUS
<1>2. CASE \E g \in Numeros : Dueno(g, t)
  BY <1>1, <1>2
<1>3. CASE Falta(SinHilo, t)
  BY <1>3 DEF Falta
<1> QED
  BY <1>1, <1>2, <1>3 DEF ConDueno

LEMMA DuenosIguales ==
  ASSUME Tipos, UNCHANGED <<lista, hilos>>
  PROVE  \A g \in Numeros, t \in Tablas : Dueno(g, t) => Dueno(g, t)'
  BY DEF Dueno, lista, hilos

LEMMA ConDuenoAtiende ==
  ASSUME Tipos, Nacientes, ConDueno, NEW c \in Clientes, Atiende(c), ~SinSemaforo(c), ~SinArchivo(c)
  PROVE  ConDueno'
<1>1. archivos \in [Tablas -> SUBSET {"metadata", "bin", "tmp", "tmpc"}]
  BY Partes DEF Tipos, TipoDisco
<1>2. ASSUME Movido(c), pc[c] \notin SinHilo,
             \A g \in Numeros, t \in Tablas : Dueno(g, t) => Dueno(g, t)',
             \A t \in Tablas : "metadata" \in archivos'[t] => "metadata" \in archivos[t]
      PROVE  ConDueno'
  <2>1. \A d \in Clientes : pc[d] \in SinHilo =>
          pc'[d] \in SinHilo /\ tabla'[d] = tabla[d]
    BY <1>2 DEF Movido
  <2> QED
    BY <1>2, <2>1, ConDuenoQuieto
<1>9. CASE dictionary_is_empty(c) \/ list_create(c)
  <2>1. PICK lugar \in {"create_lista", "create_semaforo"} : Sigue(c, lugar)
    BY <1>9 DEF dictionary_is_empty, list_create
  <2>2. /\ Movido(c) /\ pc'[c] \in SinHilo /\ tabla'[c] = tabla[c]
        /\ UNCHANGED <<disco, tablaDe, usados, hilos>>
    BY <1>9, <2>1, MovidoSigue DEF dictionary_is_empty, list_create, SinHilo, lista
  <2>3. \A d \in Clientes : pc[d] \in SinHilo => pc'[d] \in SinHilo /\ tabla'[d] = tabla[d]
    BY <2>2 DEF Movido
  <2>4. \A g \in Numeros, u \in Tablas : Dueno(g, u) => Dueno(g, u)'
    BY <2>2 DEF Dueno, hilos
  <2> QED
    BY <2>2, <2>3, <2>4, ConDuenoQuieto DEF disco
<1>3. CASE crearMetadataConfig(c)
  <2>1. PICK t : t = tabla[c]
    OBVIOUS
  <2>2. /\ pc[c] = "create_metadata" /\ pc'[c] = "create_particion" /\ tabla'[c] = t /\ Movido(c)
        /\ archivos' = [archivos EXCEPT ![t] = @ \cup {"metadata"}] /\ UNCHANGED <<lista, hilos>>
    BY <1>3, <2>1, MovidoSigue DEF crearMetadataConfig, Crea, En
  <2>3. Falta(SinHilo, t)'
    BY <2>2 DEF Falta, SinHilo
  <2> SUFFICES ASSUME NEW u \in Tablas, "metadata" \in archivos'[u], u # t
               PROVE  \/ \E g \in Numeros : Dueno(g, u)'
                      \/ Falta(SinHilo, u)'
    BY <2>3 DEF ConDueno
  <2>4. "metadata" \in archivos[u]
    BY <1>1, <2>2
  <2>5. CASE \E g \in Numeros : Dueno(g, u)
    BY <2>2, <2>5, DuenosIguales
  <2>6. CASE Falta(SinHilo, u)
    <3>1. PICK d \in Clientes : pc[d] \in SinHilo /\ tabla[d] = u
      BY <2>6 DEF Falta
    <3>2. d # c
      BY <2>2, <3>1 DEF SinHilo
    <3> QED
      BY <2>2, <3>1, <3>2 DEF Movido, Falta
  <2> QED
    BY <2>4, <2>5, <2>6 DEF ConDueno
<1>4. CASE crearParticion(c)
  <2>1. PICK t : t = tabla[c]
    OBVIOUS
  <2>2. /\ pc'[c] = "create_prueba" /\ tabla'[c] = tabla[c] /\ Movido(c)
        /\ archivos' = [archivos EXCEPT ![t] = @ \cup {"bin"}] /\ UNCHANGED <<lista, hilos>>
    BY <1>4, <2>1, MovidoSigue DEF crearParticion, Crea
  <2>3. \A d \in Clientes : pc[d] \in SinHilo =>
          pc'[d] \in SinHilo /\ tabla'[d] = tabla[d]
    BY <2>2 DEF Movido, SinHilo
  <2>4. \A u \in Tablas : "metadata" \in archivos'[u] => "metadata" \in archivos[u]
    BY <1>1, <2>2
  <2>5. \A g \in Numeros, u \in Tablas : Dueno(g, u) => Dueno(g, u)'
    BY <2>2, DuenosIguales
  <2> QED
    BY <2>3, <2>4, <2>5, ConDuenoQuieto
<1>5. CASE crearSemaforo(c)
  <2>1. PICK t, n : t = tabla[c] /\ n = usados + 1
    OBVIOUS
  <2>2. usados' = n /\ n \in Numeros /\ usados \in Nat /\ n > usados
    BY <1>5, <2>1, AlcanzaSemaforo DEF Tipos
  <2>3. /\ hilo' = hilo /\ archivos' = archivos /\ Movido(c) /\ pc[c] = "create_semaforo"
        /\ tablaDe' = [tablaDe EXCEPT ![n] = t]
    BY <1>5, <2>1, <2>2, Pasos DEF crearSemaforo, hilos, disco, En
  <2>4. hilo[n] = "no"
    BY <2>2 DEF Tipos, Direcciones
  <2>5. Dueno(n, t)'
    <3>1. tablaDe'[n] = t
      BY <2>2, <2>3, Partes DEF Tipos, TipoLista
    <3>2. n <= n
      BY <2>1, <2>2
    <3>3. hilo'[n] = "no" /\ n <= usados'
      BY <2>2, <2>3, <2>4, <3>2
    <3> QED
      BY <3>1, <3>3 DEF Dueno, Yendose
  <2> SUFFICES ASSUME NEW u \in Tablas, "metadata" \in archivos[u], u # t
               PROVE  \/ \E g \in Numeros : Dueno(g, u)'
                      \/ Falta(SinHilo, u)'
    BY <2>2, <2>3, <2>5 DEF ConDueno
  <2>6. ASSUME NEW g \in Numeros, Dueno(g, u) PROVE Dueno(g, u)'
    <3>1. g <= usados /\ g # n /\ g <= n
      BY <2>2, <2>6, Constantes DEF Dueno
    <3>2. tablaDe'[g] = tablaDe[g]
      BY <2>3, <3>1, Partes DEF Tipos, TipoLista
    <3> QED
      BY <2>2, <2>3, <2>6, <3>1, <3>2 DEF Dueno
  <2>7. CASE Falta(SinHilo, u)
    <3>1. PICK d \in Clientes : pc[d] \in SinHilo /\ tabla[d] = u
      BY <2>7 DEF Falta
    <3>2. d # c
      BY <2>1, <3>1
    <3> QED
      BY <2>3, <3>1, <3>2 DEF Movido, Falta
  <2> QED
    BY <2>6, <2>7 DEF ConDueno
<1>6. CASE levantarHiloCompactacion(c)
  <2>1. /\ pc[c] = "create_hilo" /\ hilo' = [hilo EXCEPT ![puntero[c]] = "arranca"]
        /\ UNCHANGED <<disco, tablaDe, usados>> /\ Movido(c)
    BY <1>6, Pasos DEF levantarHiloCompactacion, En, VaHilo, lista
  <2>2. \A g \in Numeros : hilo'[g] = hilo[g] \/ hilo'[g] = "arranca"
    BY <2>1, Partes DEF Tipos, TipoHilos
  <2>3. \A g \in Numeros, t \in Tablas : Dueno(g, t) => Dueno(g, t)'
    BY <2>1, <2>2 DEF Dueno, Yendose
  <2> QED
    BY <1>2, <2>1, <2>3 DEF disco, SinHilo
<1>7. CASE \/ verificarSemaforoTabla(c) \/ waitearSemTable(c) \/ Toma(c)
           \/ LeeParticion(c) \/ LeeMemtable(c) \/ postearSemTable(c)
           \/ verificarDesdeConsola(c) \/ LeeParticionDesdeConsola(c)
           \/ LeeMemtableDesdeConsola(c)
           \/ agregarTabla(c) \/ obtenerMetadataTabla(c)
           \/ verificarSemaforoCompactacion(c) \/ RemoverDeLaMemtable(c) \/ AnotaHilo(c)
  <2>1. UNCHANGED <<tablaDe, usados, hilos>>
    BY <1>7 DEF verificarSemaforoTabla, waitearSemTable, Toma, LeeParticion, LeeMemtable,
       postearSemTable, agregarTabla, obtenerMetadataTabla, verificarSemaforoCompactacion,
       verificar, verificarDesdeConsola, LeeParticionDesdeConsola, LeeMemtableDesdeConsola,
       RemoverDeLaMemtable, AnotaHilo, lista
  <2>2. Movido(c) /\ UNCHANGED disco
    BY <1>7, Pasos
  <2>3. pc[c] \notin SinHilo
    BY <1>7 DEF verificarSemaforoTabla, waitearSemTable, Toma, LeeParticion, LeeMemtable,
       postearSemTable, agregarTabla, obtenerMetadataTabla, verificarSemaforoCompactacion,
       verificar, verificarDesdeConsola, LeeParticionDesdeConsola, LeeMemtableDesdeConsola,
       RemoverDeLaMemtable, AnotaHilo, En, SinHilo
  <2>4. \A g \in Numeros, t \in Tablas : Dueno(g, t) => Dueno(g, t)'
    BY <2>1 DEF Dueno, hilos
  <2> QED
    BY <1>2, <2>2, <2>3, <2>4 DEF disco
<1>8. CASE \/ RemoverParticionesDeTablaYSusBloques(c) \/ RemoverTemporalesDeTablaYSusBloques(c)
           \/ RemoverMetadataDeTabla(c) \/ RemoverCarpetaVaciaDeTabla(c) \/ crearTabla(c)
  <2>1. Movido(c) /\ UNCHANGED <<lista, hilos>>
    BY <1>8, PasosDisco
  <2>2. \/ archivos' = archivos
        \/ \E F : archivos' = [archivos EXCEPT ![tabla[c]] = @ \ F]
    BY <1>8 DEF RemoverParticionesDeTablaYSusBloques, RemoverTemporalesDeTablaYSusBloques,
       RemoverMetadataDeTabla, RemoverCarpetaVaciaDeTabla, crearTabla, Borra
  <2>3. pc[c] \notin SinHilo
    BY <1>8 DEF RemoverParticionesDeTablaYSusBloques, RemoverTemporalesDeTablaYSusBloques,
       RemoverMetadataDeTabla, RemoverCarpetaVaciaDeTabla, crearTabla, Borra, En, SinHilo
  <2>4. \A t \in Tablas : "metadata" \in archivos'[t] => "metadata" \in archivos[t]
    BY <1>1, <2>2
  <2>5. \A g \in Numeros, t \in Tablas : Dueno(g, t) => Dueno(g, t)'
    BY <2>1, DuenosIguales
  <2> QED
    BY <1>2, <2>1, <2>3, <2>4, <2>5
<1> QED
  BY <1>3, <1>4, <1>5, <1>6, <1>7, <1>8, <1>9 DEF Atiende

\* A thread gives up only if the directory is not there, and then there is no metadata.
LEMMA ConDuenoHilo ==
  ASSUME Tipos, Conserva, ConDueno, NEW g \in Numeros, funcionCompactar(g), ~MuereHilo(g)
  PROVE  ConDueno'
<1>1. HiloMovido(g)
  BY PasosHilo
<1>2. archivos \in [Tablas -> SUBSET {"metadata", "bin", "tmp", "tmpc"}]
  BY Partes DEF Tipos, TipoDisco
<1>3. ASSUME NEW desde, NEW lugar, EnHilo(g, desde), VaHilo(g, lugar)
      PROVE  hilo[g] = desde /\ hilo'[g] = lugar
  BY <1>3, Partes DEF EnHilo, VaHilo, Tipos, TipoHilos
<1>4. ASSUME \A t \in Tablas : "metadata" \in archivos'[t] => "metadata" \in archivos[t],
             \/ hilo'[g] \notin Yendose \/ hilo[g] \in Yendose
             \/ tablaDe[g] \in Tablas => archivos[tablaDe[g]] = {}
      PROVE  ConDueno'
  <2>1. ASSUME NEW h \in Numeros, NEW t \in Tablas, Dueno(h, t), "metadata" \in archivos[t]
        PROVE  Dueno(h, t)'
    BY <1>1, <1>4, <2>1 DEF Dueno, HiloMovido
  <2>2. \A c \in Clientes : pc'[c] = pc[c] /\ tabla'[c] = tabla[c]
    BY <1>1 DEF HiloMovido, clientes
  <2> QED
    BY <1>4, <2>1, <2>2, ConDuenoQuieto
<1>9. CASE Indice(g)
  BY <1>3, <1>4, <1>9 DEF Indice, Avanza, Yendose, disco
<1>5. CASE Despierta(g)
  <2>1. UNCHANGED disco
    BY <1>5 DEF Despierta, Avanza
  <2>2. \/ hilo'[g] = "busca"
        \/ tablaDe[g] \notin carpetas
    BY <1>3, <1>5 DEF Despierta, Avanza, existeTabla
  <2> QED
    BY <1>4, <2>1, <2>2 DEF disco, Conserva, Archivos, Yendose
<1>6. CASE Arranca(g) \/ Une(g)
  <2>1. \/ Avanza(g, "arranca", "duerme") \/ Avanza(g, "une", "borra_bin")
        \/ Avanza(g, "une", "suelta")
    BY <1>6 DEF Arranca, Une
  <2> QED
    BY <1>3, <1>4, <2>1 DEF Avanza, disco, Yendose
<1>7. CASE Busca(g) \/ TomaCompactacion(g) \/ SueltaCompactacion(g) \/ Saca(g) \/ Olvida(g)
  <2>1. UNCHANGED disco
    BY <1>7 DEF Busca, TomaCompactacion, SueltaCompactacion, Saca, Olvida
  <2>2. hilo'[g] \in {"espera", "duerme", "renombra"} \/ hilo[g] \in {"saca", "olvida"}
    BY <1>3, <1>7 DEF Busca, TomaCompactacion, SueltaCompactacion, Saca, Olvida
  <2> QED
    BY <1>4, <2>1, <2>2 DEF disco, Yendose
<1>8. CASE cambiarNombreTmpATmpc(g) \/ BorraBin(g) \/ crearParticionNueva(g)
  <2>1. hilo'[g] \in {"une", "escribe_bin", "suelta"}
    BY <1>3, <1>8 DEF cambiarNombreTmpATmpc, BorraBin, crearParticionNueva
  <2>2. PICK t : t = tablaDe[g]
    OBVIOUS
  <2>3. \/ archivos' = [archivos EXCEPT ![t] =
                          IF "tmp" \in @ THEN (@ \ {"tmp"}) \cup {"tmpc"} ELSE @]
        \/ archivos' = [archivos EXCEPT ![t] = @ \ {"bin"}]
        \/ archivos' = [archivos EXCEPT ![t] = (@ \cup {"bin"}) \ {"tmpc"}]
    BY <1>8, <2>2 DEF cambiarNombreTmpATmpc, BorraBin, crearParticionNueva
  <2>4. \A u \in Tablas : "metadata" \in archivos'[u] => "metadata" \in archivos[u]
    BY <1>2, <2>3
  <2> QED
    BY <1>4, <2>1, <2>4 DEF Yendose
<1> QED
  BY <1>5, <1>6, <1>7, <1>8, <1>9 DEF funcionCompactar

LEMMA ConDuenoNext == Tipos /\ Conserva /\ Nacientes /\ ConDueno /\ [Next]_vars => ConDueno'
<1> SUFFICES ASSUME Tipos, Conserva, Nacientes, ConDueno, [Next]_vars PROVE ConDueno'
  OBVIOUS
<1>1. ASSUME UNCHANGED <<disco, lista, hilos, clientes>> PROVE ConDueno'
  BY <1>1, DuenosIguales, ConDuenoQuieto DEF disco, clientes
<1>2. ASSUME NEW c \in Clientes, Pide(c) PROVE ConDueno'
  <2>1. PICK t \in Tablas, lugar \in {"select_verifica", "select_inexistente", "insert",
                                      "describe", "drop_verifica", "create_carpeta", "consola_verifica"} :
          Empieza(c, t, lugar)
    BY <1>2 DEF Pide, SELECT, APIselect, INSERT, DESCRIBE, DROP, CREATE
  <2>2. Movido(c) /\ pc[c] = "libre" /\ UNCHANGED <<disco, lista, hilos>>
    BY <2>1, MovidoEmpieza DEF Empieza
  <2>3. \A d \in Clientes : pc[d] \in SinHilo =>
          pc'[d] \in SinHilo /\ tabla'[d] = tabla[d]
    BY <2>2 DEF Movido, SinHilo
  <2> QED
    BY <2>2, <2>3, DuenosIguales, ConDuenoQuieto DEF disco
<1>3. CASE dump /\ ~Muere
  <2>1. /\ archivos' = [t \in Tablas |-> IF t \in memTable THEN archivos[t] \cup {"tmp"}
                                         ELSE archivos[t]]
        /\ UNCHANGED <<lista, hilos, clientes>>
    BY <1>3 DEF dump
  <2> QED
    BY <2>1, DuenosIguales, ConDuenoQuieto DEF clientes
<1>4. CASE \/ chekearDumpeo \/ Muere \/ UNCHANGED vars
  BY <1>1, <1>4 DEF chekearDumpeo, Muere, vars
<1>5. ASSUME NEW c \in Clientes, Atiende(c) PROVE ConDueno'
  <2>1. SinSemaforo(c) \/ SinArchivo(c) => Muere
    BY DEF SinSemaforo, SinArchivo
  <2> QED
    BY <1>4, <1>5, <2>1, ConDuenoAtiende
<1>6. ASSUME NEW g \in Numeros, funcionCompactar(g) PROVE ConDueno'
  <2>1. MuereHilo(g) => Muere
    BY DEF MuereHilo
  <2> QED
    BY <1>4, <1>6, <2>1, ConDuenoHilo
<1> QED
  BY <1>2, <1>3, <1>4, <1>5, <1>6 DEF Next

LEMMA ConDuenoInit == Init => ConDueno
<1> SUFFICES ASSUME Init PROVE ConDueno
  OBVIOUS
<1>1. PICK n \in 0..MaxSemaforos : \E tablas \in [1..n -> Tablas] : EstadoInicial(n, tablas)
  BY SMTT(30) DEF Init, EstadoInicial
<1>2. PICK tablas \in [1..n -> Tablas] : EstadoInicial(n, tablas)
  BY <1>1
<1>3. /\ hilo = [g \in Numeros |-> IF g <= n THEN "arranca" ELSE "no"] /\ usados = n
      /\ tablaDe = [g \in Numeros |-> IF g <= n THEN tablas[g] ELSE Nadie]
      /\ carpetas = {tablas[i] : i \in 1..n}
  BY <1>2 DEF EstadoInicial
<1>4. \A t \in Tablas : t \notin carpetas => archivos[t] = {}
  BY DEF Init
<1>5. ASSUME NEW t \in carpetas PROVE \E g \in Numeros : Dueno(g, t)
  <2>1. PICK g \in 1..n : t = tablas[g]
    BY <1>3
  <2>2. g \in Numeros /\ g <= n
    BY <1>1, Constantes
  <2>3. Dueno(g, t)
    BY <1>3, <2>1, <2>2 DEF Dueno, Yendose
  <2> QED
    BY <2>2, <2>3
<1> QED
  BY <1>4, <1>5 DEF ConDueno

\* A complete table that nobody creates or drops has a semaphore to find.
LEMMA HaySemaforo ==
  ASSUME Tipos, Contados, ConDueno, riesgo \cap {"lista", "enlaces"} = {}, NEW t \in Tablas,
         "metadata" \in archivos[t], ~Falta(SinHilo, t)
  PROVE  list_find(t) # NULL
<1>1. PICK g \in Numeros : Dueno(g, t)
  BY DEF ConDueno
<1>2. usados \in Nat /\ ListaSem \in Seq(1..usados)
  BY Partes, Constantes DEF Tipos, TipoLista
<1>3. g \in Vigentes(t)
  BY <1>1, <1>2, Constantes DEF Dueno, Yendose, Vigentes, Acabado
<1>4. Cardinality(Vigentes(t)) # 0
  BY <1>3, VigentesFinito, FS_EmptySet
<1>5. Posiciones(t) # {}
  BY <1>4, FS_EmptySet DEF Contados
<1>6. PICK i \in 1..Len(ListaSem) : EsPrimera(ListaSem, tablaDe, t, i)
  BY <1>2, <1>5, HallaDonde DEF Ausente, Posiciones
<1>7. list_find(t) = ListaSem[i]
  BY <1>2, <1>6, HallaPrimero, HallaEsListFind
<1>8. ListaSem[i] \in 1..usados
  BY <1>2, <1>6 DEF EsPrimera
<1> QED
  BY <1>2, <1>7, <1>8, Constantes

\* ListaSem has an element of a table for each thread of that name that is to remove one,
\* and a complete table has one to find, whatever DROPs and CREATEs of its name went
\* before and however late their threads notice; until CREATE starts the list again over
\* other tables or two changes of the list overlap.
THEOREM UnSemaforoPorHilo == Spec => []SemaforoPorHilo
<1>1. Spec => [](Tipos /\ Conserva /\ Nacientes /\ Contados /\ ConDueno)
  BY TiposInit, TiposNext, ConservaInit, ConservaNext, NacientesInit, NacientesNext,
     ContadosInit, ContadosNext, ConDuenoInit, ConDuenoNext, PTL DEF Spec
<1>2. Tipos /\ Contados /\ ConDueno => SemaforoPorHilo
  <2> SUFFICES ASSUME Tipos, Contados, ConDueno, riesgo \cap {"lista", "enlaces"} = {},
                      NEW t \in Tablas
               PROVE  /\ Cardinality(Posiciones(t))
                           = Cardinality({g \in 1..usados : tablaDe[g] = t /\ hilo[g] \notin {"olvida", "fin"}})
                      /\ "metadata" \in archivos[t] /\ EnTabla(Altas \cup Bajas, t) = {}
                           => list_find(t) # NULL
    BY DEF SemaforoPorHilo
  <2>1. Cardinality(Posiciones(t)) = Cardinality(Vigentes(t))
    BY DEF Contados
  <2>2. EnTabla(Altas \cup Bajas, t) = {} => ~Falta(SinHilo, t)
    BY Lugares DEF EnTabla, Falta, SinHilo
  <2> QED
    BY <2>1, <2>2, HaySemaforo DEF Vigentes, Acabado
<1> QED
  BY <1>1, <1>2, PTL

-----------------------------------------------------------------------------
(* Nobody dies before one of the sequences "riesgo" names.                  *)

\* chekearDumpeo saw records, and they are still there when the dump starts.
Volcada == riesgo = {} /\ volcador = "vuelca" => memTable # {}

\* The console that is to open the .bin of a table meets no thread that rewrites it, or
\* "riesgo" says so.
NadieEspia ==
  "consola" \notin riesgo => \A c \in Clientes : pc[c] = "consola_lee" => ~Reescribe(tabla[c])

Sano == /\ Tipos /\ Conserva /\ Exclusiva /\ Nacientes /\ Vida /\ Contados /\ ConDueno
        /\ Volcada /\ NadieEspia

\* Every step writes its history.
LEMMA TodosRecuerdan ==
  ASSUME Next
  PROVE  \E S : Recuerda(S)
<1>1. ASSUME NEW S, Anota(S) \/ Recuerda(S) PROVE \E T : Recuerda(T)
  BY <1>1 DEF Anota
<1>2. ASSUME NEW c \in Clientes, Pide(c) PROVE \E S : Recuerda(S)
  BY <1>1, <1>2 DEF Pide, SELECT, APIselect, INSERT, DESCRIBE, DROP, CREATE, Empieza
<1>3. ASSUME NEW c \in Clientes, Atiende(c) PROVE \E S : Recuerda(S)
  BY <1>1, <1>3
     DEF Atiende, verificarSemaforoTabla, verificarSemaforoCompactacion, verificar,
         waitearSemTable, Toma, LeeParticion, LeeMemtable, postearSemTable, agregarTabla,
         obtenerMetadataTabla, RemoverDeLaMemtable, RemoverParticionesDeTablaYSusBloques,
         RemoverTemporalesDeTablaYSusBloques, RemoverMetadataDeTabla, Borra,
         RemoverCarpetaVaciaDeTabla, crearTabla, crearMetadataConfig, crearParticion, Crea,
         verificarDesdeConsola, LeeParticionDesdeConsola, LeeMemtableDesdeConsola,
         dictionary_is_empty, list_create, crearSemaforo, levantarHiloCompactacion, AnotaHilo,
         SinSemaforo, SinArchivo
<1>4. ASSUME NEW g \in Numeros, funcionCompactar(g) PROVE \E S : Recuerda(S)
  BY <1>1, <1>4
     DEF funcionCompactar, Arranca, Despierta, Avanza, Busca, TomaCompactacion,
         cambiarNombreTmpATmpc, Une, BorraBin, crearParticionNueva, SueltaCompactacion, Saca,
         Indice, Olvida, MuereHilo
<1>5. chekearDumpeo \/ dump => \E S : Recuerda(S)
  BY <1>1 DEF chekearDumpeo, dump
<1> QED
  BY <1>2, <1>3, <1>4, <1>5 DEF Next

LEMMA RiesgoCrece ==
  ASSUME [Next]_vars
  PROVE  riesgo \subseteq riesgo'
  BY TodosRecuerdan DEF Recuerda, vars

LEMMA NadieEspiaNext == NadieEspia /\ [Next]_vars => NadieEspia'
<1> SUFFICES ASSUME NadieEspia, [Next]_vars, "consola" \notin riesgo', NEW c \in Clientes,
                    pc'[c] = "consola_lee", NEW g \in Numeros, hilo'[g] = "escribe_bin",
                    tablaDe'[g] = tabla'[c]
             PROVE  FALSE
  BY DEF NadieEspia, Reescribe
<1>1. CASE UNCHANGED vars
  BY <1>1 DEF vars, clientes, hilos, lista, NadieEspia, Reescribe
<1>2. CASE Next
  <2>1. PICK S : Recuerda(S)
    BY <1>2, TodosRecuerdan
  <2>2. Espia
    BY DEF Espia
  <2> QED
    BY <2>1, <2>2 DEF Recuerda, Ocurre
<1> QED
  BY <1>1, <1>2

\* INSERT only adds; a DROP that leaves nothing for the dump is remembered.
LEMMA VolcadaNext == Tipos /\ Volcada /\ [Next]_vars => Volcada'
<1> SUFFICES ASSUME Tipos, Volcada, [Next]_vars, riesgo' = {}, volcador' = "vuelca"
             PROVE  memTable' # {}
  BY DEF Volcada
<1>1. riesgo = {}
  BY RiesgoCrece
<1>2. CASE memTable \subseteq memTable' /\ volcador' = volcador
  BY <1>1, <1>2 DEF Volcada
<1>3. CASE UNCHANGED memoria /\ volcador' = volcador
  BY <1>2, <1>3 DEF memoria
<1>4. ASSUME NEW c \in Clientes, Pide(c) PROVE memTable' # {}
  BY <1>3, <1>4 DEF Pide, SELECT, APIselect, INSERT, DESCRIBE, DROP, CREATE, Empieza
<1>5. ASSUME NEW c \in Clientes, Atiende(c) PROVE memTable' # {}
  <2>1. CASE RemoverDeLaMemtable(c)
    <3>1. volcador' = volcador /\ "memtable" \notin riesgo'
      BY <2>1 DEF RemoverDeLaMemtable
    <3> QED
      BY <2>1, <3>1 DEF RemoverDeLaMemtable, Anota, Recuerda
  <2>2. CASE agregarTabla(c) \/ RemoverCarpetaVaciaDeTabla(c)
    BY <1>2, <2>2 DEF agregarTabla, RemoverCarpetaVaciaDeTabla
  <2>3. CASE SinSemaforo(c) \/ SinArchivo(c)
    BY <1>3, <2>3 DEF SinSemaforo, SinArchivo, Muere
  <2>4. CASE \/ verificarSemaforoTabla(c) \/ verificarSemaforoCompactacion(c)
             \/ waitearSemTable(c) \/ Toma(c) \/ LeeParticion(c) \/ LeeMemtable(c)
             \/ postearSemTable(c) \/ obtenerMetadataTabla(c) \/ verificarDesdeConsola(c)
             \/ LeeParticionDesdeConsola(c) \/ LeeMemtableDesdeConsola(c)
    BY <1>3, <2>4 DEF verificarSemaforoTabla, verificarSemaforoCompactacion, verificar,
         waitearSemTable, Toma, LeeParticion, LeeMemtable, postearSemTable, obtenerMetadataTabla,
         verificarDesdeConsola, LeeParticionDesdeConsola, LeeMemtableDesdeConsola
  <2>5. CASE \/ RemoverParticionesDeTablaYSusBloques(c) \/ RemoverTemporalesDeTablaYSusBloques(c)
             \/ RemoverMetadataDeTabla(c) \/ crearTabla(c) \/ crearMetadataConfig(c)
             \/ crearParticion(c) \/ dictionary_is_empty(c) \/ list_create(c)
             \/ crearSemaforo(c) \/ levantarHiloCompactacion(c) \/ AnotaHilo(c)
    BY <1>3, <2>5 DEF RemoverParticionesDeTablaYSusBloques, RemoverTemporalesDeTablaYSusBloques,
         RemoverMetadataDeTabla, Borra, crearTabla, crearMetadataConfig, crearParticion, Crea,
         dictionary_is_empty, list_create, crearSemaforo, levantarHiloCompactacion, AnotaHilo
  <2> QED
    BY <1>5, <2>1, <2>2, <2>3, <2>4, <2>5 DEF Atiende
<1>6. ASSUME NEW g \in Numeros, funcionCompactar(g) PROVE memTable' # {}
  <2>1. UNCHANGED memoria /\ volcador' = volcador
    BY <1>6 DEF funcionCompactar, Arranca, Despierta, Avanza, Busca, TomaCompactacion,
         cambiarNombreTmpATmpc, Une, BorraBin, crearParticionNueva, SueltaCompactacion, Saca,
         Indice, Olvida, MuereHilo, Muere
  <2> QED
    BY <1>3, <2>1
<1>7. chekearDumpeo => memTable' # {}
  BY DEF chekearDumpeo, memoria
<1>8. dump => memTable' # {}
  <2>1. dump => (UNCHANGED memoria /\ volcador' = volcador) \/ volcador' = "duerme"
    BY DEF dump, Muere
  <2> QED
    BY <1>3, <2>1
<1>9. UNCHANGED vars => memTable' # {}
  BY <1>3 DEF vars
<1> QED
  BY <1>4, <1>5, <1>6, <1>7, <1>8, <1>9 DEF Next

\* A step that kills leaves all but the history.
LEMMA MuereSano ==
  ASSUME Sano, Muere, NEW S, Anota(S), riesgo' = {}
  PROVE  /\ S = {} /\ riesgo = {} /\ Ordenada /\ Firmes /\ Tomados
         /\ MemtableConTabla /\ NadieEspia
<1>1. S = {} /\ riesgo = {}
  BY DEF Anota, Recuerda
<1>2. Ordenada /\ Firmes /\ Tomados
  BY <1>1 DEF Sano, Vida, Aparte, Exclusiva, Limpio
<1> QED
  BY <1>1, <1>2 DEF Sano, Conserva

\* A table with a directory that nobody creates or drops.
Estable(t) == t \in carpetas /\ \A d \in Clientes : pc[d] \in Altas \cup Bajas => tabla[d] # t

\* It has all that its users open and look up.
LEMMA EstableEntera ==
  ASSUME Sano, Ordenada, riesgo = {}, NEW t \in Tablas, Estable(t)
  PROVE  /\ "metadata" \in archivos[t] /\ list_find(t) # NULL
         /\ "bin" \in archivos[t] \/ Reescribe(t)
<1>1. {"create_metadata", "drop_carpeta"} \cup SinHilo \cup Fijos
        \subseteq Altas \cup Bajas
  BY DEF Altas, Bajas, Fijos, SinHilo
<1>2. /\ ~Falta({"create_metadata", "drop_carpeta"}, t) /\ ~Falta(Fijos, t)
      /\ ~Falta(SinHilo, t)
  BY <1>1 DEF Estable, Falta
<1>3. "metadata" \in archivos[t] /\ ("bin" \in archivos[t] \/ Reescribe(t))
  BY <1>2 DEF Estable, Ordenada, ConMetadata, ConParticion
<1> QED
  BY <1>2, <1>3, HaySemaforo DEF Sano

\* The users are the clients of a request and the threads at work.
LEMMA UsaEstable ==
  ASSUME Tipos, Ordenada
  PROVE  /\ \A c \in Clientes : pc[c] \in Usos => tabla[c] \in Tablas /\ Estable(tabla[c])
         /\ \A g \in Numeros : hilo[g] \in Compactando =>
              tablaDe[g] \in Tablas /\ Estable(tablaDe[g])
<1>1. carpetas \subseteq Tablas
  BY Partes DEF Tipos, TipoDisco
<1>2. ASSUME NEW c \in Clientes, pc[c] \in Usos PROVE tabla[c] \in Tablas /\ Estable(tabla[c])
  <2>1. tabla[c] \in carpetas
    BY <1>2 DEF Ordenada, Directorios, Dentro
  <2>2. pc[c] \notin Altas \cup Bajas
    BY <1>2, Lugares, MasLugares
  <2> QED
    BY <1>1, <1>2, <2>1, <2>2, ASolas DEF Estable, Ordenada
<1>3. ASSUME NEW g \in Numeros, hilo[g] \in Compactando
      PROVE  tablaDe[g] \in Tablas /\ Estable(tablaDe[g])
  <2>1. tablaDe[g] \in carpetas
    BY <1>3 DEF Ordenada, Directorios
  <2> QED
    BY <1>1, <1>3, <2>1, ASolas DEF Estable, Ordenada
<1> QED
  BY <1>2, <1>3

\* Who rewrites the .bin of a table has the only semaphore of its name.
LEMMA ReescribeSolo ==
  ASSUME Tipos, Firmes, Tomados, NEW t, Reescribe(t)
  PROVE  /\ \A c \in Clientes : pc[c] \in Leyendo => tabla[c] # t
         /\ \A g \in Numeros : hilo[g] \in Trabajando /\ tablaDe[g] = t => hilo[g] = "escribe_bin"
<1>1. PICK h \in Numeros : hilo[h] = "escribe_bin" /\ tablaDe[h] = t
  BY DEF Reescribe
<1>2. hilo[h] \in Trabajando /\ punteroHilo[h] = list_find(t)
  BY <1>1, DireccionDe DEF Firmes, Trabajando
<1>3. ASSUME NEW c \in Clientes, pc[c] \in Leyendo, tabla[c] = t PROVE FALSE
  <2>1. puntero[c] = list_find(t)
    BY <1>3 DEF Firmes
  <2> QED
    BY <1>2, <1>3, <2>1 DEF Tomados
<1>4. ASSUME NEW g \in Numeros, hilo[g] \in Trabajando, tablaDe[g] = t
      PROVE  hilo[g] = "escribe_bin"
  <2>1. punteroHilo[g] = list_find(t)
    BY <1>4, DireccionDe DEF Firmes
  <2> QED
    BY <1>1, <1>2, <1>4, <2>1 DEF Tomados
<1> QED
  BY <1>3, <1>4

\* The lookup of a client finds a semaphore, and the files that it opens are there.
LEMMA ClienteVive ==
  ASSUME Sano, NEW c \in Clientes, SinSemaforo(c) \/ SinArchivo(c)
  PROVE  riesgo' # {}
<1> SUFFICES ASSUME riesgo' = {} PROVE FALSE
  OBVIOUS
<1>1. Tipos
  BY DEF Sano
<1>2. CASE SinSemaforo(c)
  <2>1. pc[c] # "select_inexistente"
    <3>1. pc[c] = "select_inexistente" => Anota({"inexistente"})
      BY <1>2 DEF SinSemaforo
    <3> QED
      BY <3>1 DEF Anota, Recuerda
  <2>2. Muere /\ Anota({}) /\ pc[c] \in Usos /\ list_find(tabla[c]) = NULL
    <3>1. Muere /\ Anota({}) /\ "enlaces" \notin riesgo
      <4>1. Muere /\ Anota({})
        BY <1>2, <2>1 DEF SinSemaforo
      <4> QED
        BY <4>1, MuereSano
    <3>2. pc[c] \in BuscaSemaforo /\ list_find(tabla[c]) = NULL
      BY <1>2, <3>1 DEF SinSemaforo
    <3> QED
      BY <2>1, <3>1, <3>2, MasLugares DEF BuscaSemaforo
  <2> QED
    BY <1>1, <2>2, MuereSano, UsaEstable, EstableEntera
<1>3. CASE SinArchivo(c)
  <2>1. /\ riesgo = {} /\ Ordenada /\ Firmes /\ Tomados /\ NadieEspia
    BY <1>3, MuereSano DEF SinArchivo
  <2>6. CASE pc[c] = "consola_lee" /\ ~({"metadata", "bin"} \subseteq archivos[tabla[c]])
    <3>1. pc[c] \in Usos /\ ~Reescribe(tabla[c])
      BY <2>1, <2>6, MasLugares DEF NadieEspia
    <3> QED
      BY <1>1, <2>1, <2>6, <3>1, UsaEstable, EstableEntera
  <2>2. CASE pc[c] \in {"insert", "describe"} /\ "metadata" \notin archivos[tabla[c]]
    <3>1. pc[c] \in Usos
      BY <2>2, MasLugares
    <3> QED
      BY <1>1, <2>1, <2>2, <3>1, UsaEstable, EstableEntera
  <2>3. CASE pc[c] = "select_lee" /\ ~({"metadata", "bin"} \subseteq archivos[tabla[c]])
    <3>1. pc[c] \in Usos /\ pc[c] \in Leyendo
      BY <2>3, MasLugares DEF Leyendo
    <3>2. ~Reescribe(tabla[c])
      BY <1>1, <2>1, <3>1, ReescribeSolo
    <3> QED
      BY <1>1, <2>1, <2>3, <3>1, <3>2, UsaEstable, EstableEntera
  <2>4. CASE pc[c] = "drop_particion" /\ ~({"metadata", "bin"} \subseteq archivos[tabla[c]])
    <3>1. /\ tabla[c] \in Tablas
          /\ \A d \in Clientes : d # c /\ pc[d] \in Altas \cup Bajas => tabla[d] # tabla[c]
          /\ ~Reescribe(tabla[c])
      BY <1>1, <2>1, <2>4, ASolas, MasLugares DEF Ordenada, Reescribe
    <3>2. /\ Fijos \subseteq Altas \cup Bajas /\ pc[c] \notin Fijos
          /\ {"create_metadata", "drop_carpeta"} \subseteq Fijos
      BY <2>4 DEF Altas, Bajas, Fijos
    <3>3. ~Falta({"create_metadata", "drop_carpeta"}, tabla[c]) /\ ~Falta(Fijos, tabla[c])
      BY <3>1, <3>2 DEF Falta
    <3>4. tabla[c] \in carpetas
      BY <2>1, <2>4, MasLugares DEF Ordenada, Directorios
    <3> QED
      BY <2>1, <2>4, <3>1, <3>3, <3>4 DEF Ordenada, ConMetadata, ConParticion
  <2>5. CASE pc[c] \in {"create_metadata", "create_particion"} /\ ~existeTabla(tabla[c])
    BY <2>1, <2>5, MasLugares DEF Ordenada, Directorios, existeTabla
  <2> QED
    BY <1>3, <2>1, <2>2, <2>3, <2>4, <2>5, <2>6 DEF SinArchivo, En
<1> QED
  BY <1>2, <1>3

\* So does a compaction thread.
LEMMA HiloVive ==
  ASSUME Sano, NEW g \in Numeros, MuereHilo(g)
  PROVE  riesgo' # {}
<1> SUFFICES ASSUME riesgo' = {} PROVE FALSE
  OBVIOUS
<1>1. Tipos
  BY DEF Sano
<1>2. riesgo = {} /\ Ordenada /\ Firmes /\ Tomados
  BY MuereSano DEF MuereHilo
<1>3. hilo[g] \in {"arranca", "busca", "une", "borra_bin", "escribe_bin"}
  BY <1>2 DEF MuereHilo, EnHilo
<1>4. hilo[g] \in Compactando
  BY <1>3, MasLugares
<1>5. /\ tablaDe[g] \in Tablas /\ tablaDe[g] \in carpetas
      /\ "metadata" \in archivos[tablaDe[g]] /\ list_find(tablaDe[g]) # NULL
      /\ "bin" \in archivos[tablaDe[g]] \/ Reescribe(tablaDe[g])
  BY <1>1, <1>2, <1>4, UsaEstable, EstableEntera DEF Estable
<1>6. hilo[g] \in {"une", "borra_bin"} => "bin" \in archivos[tablaDe[g]]
  <2>1. hilo[g] \in {"une", "borra_bin"} => hilo[g] \in Trabajando /\ hilo[g] # "escribe_bin"
    BY DEF Trabajando
  <2> QED
    BY <1>1, <1>2, <1>5, <2>1, ReescribeSolo
<1> QED
  BY <1>2, <1>3, <1>5, <1>6 DEF MuereHilo, EnHilo, existeTabla

\* And the dump.
LEMMA VolcadorVive ==
  ASSUME Sano, dump, Muere
  PROVE  riesgo' # {}
<1> SUFFICES ASSUME riesgo' = {} PROVE FALSE
  OBVIOUS
<1>1. riesgo = {} /\ MemtableConTabla
  BY MuereSano DEF dump
<1>2. memTable # {} /\ memTable \subseteq carpetas
  BY <1>1 DEF Sano, Volcada, dump, MemtableConTabla
<1>3. viva' = viva
  BY <1>2 DEF dump
<1> QED
  BY <1>3 DEF dump, Muere

LEMMA MuertesNext == Sano /\ SinMuertes /\ [Next]_vars => SinMuertes'
<1> SUFFICES ASSUME Sano, SinMuertes, [Next]_vars, ~viva', riesgo' = {} PROVE FALSE
  BY DEF SinMuertes
<1>1. Tipos
  BY DEF Sano
<1>2. viva' # viva
  BY RiesgoCrece DEF SinMuertes
<1>3. ASSUME NEW c \in Clientes, Pide(c) PROVE FALSE
  BY <1>2, <1>3 DEF Pide, SELECT, APIselect, INSERT, DESCRIBE, DROP, CREATE, Empieza
<1>4. ASSUME NEW c \in Clientes, Atiende(c) PROVE FALSE
  <2>1. CASE SinSemaforo(c) \/ SinArchivo(c)
    BY <2>1, ClienteVive
  <2>2. CASE \/ verificarSemaforoTabla(c) \/ waitearSemTable(c) \/ Toma(c)
             \/ LeeParticion(c) \/ LeeMemtable(c) \/ postearSemTable(c)
             \/ verificarDesdeConsola(c) \/ LeeParticionDesdeConsola(c)
             \/ LeeMemtableDesdeConsola(c)
             \/ agregarTabla(c) \/ obtenerMetadataTabla(c)
             \/ verificarSemaforoCompactacion(c) \/ RemoverDeLaMemtable(c)
             \/ dictionary_is_empty(c) \/ list_create(c) \/ crearSemaforo(c)
             \/ levantarHiloCompactacion(c) \/ AnotaHilo(c)
    BY <1>1, <1>2, <2>2, Pasos
  <2>3. CASE \/ RemoverParticionesDeTablaYSusBloques(c) \/ RemoverTemporalesDeTablaYSusBloques(c)
             \/ RemoverMetadataDeTabla(c) \/ RemoverCarpetaVaciaDeTabla(c)
             \/ crearTabla(c) \/ crearMetadataConfig(c) \/ crearParticion(c)
    BY <1>1, <1>2, <2>3, PasosDisco
  <2> QED
    BY <1>4, <2>1, <2>2, <2>3 DEF Atiende
<1>5. ASSUME NEW g \in Numeros, funcionCompactar(g) PROVE FALSE
  <2>1. CASE MuereHilo(g)
    BY <2>1, HiloVive
  <2>2. CASE ~MuereHilo(g)
    BY <1>1, <1>2, <1>5, <2>2, PasosHilo DEF HiloMovido
  <2> QED
    BY <2>1, <2>2
<1>6. chekearDumpeo => FALSE
  BY <1>2 DEF chekearDumpeo
<1>7. dump => FALSE
  BY <1>2, VolcadorVive DEF dump
<1>8. UNCHANGED vars => FALSE
  BY <1>2 DEF vars
<1> QED
  BY <1>3, <1>4, <1>5, <1>6, <1>7, <1>8 DEF Next

\* No lookup in ListaSem comes back empty and no file is missing when it is opened, for
\* any number of clients that create, use and drop tables, until one of the sequences that
\* "riesgo" names.
THEOREM NadieMuere == Spec => []SinMuertes
<1>1. Init => Volcada /\ NadieEspia /\ SinMuertes
  BY DEF Init, Volcada, NadieEspia, SinMuertes
<1>2. Spec => [](Sano /\ SinMuertes)
  <2>1. Init => Sano /\ SinMuertes
    BY <1>1, TiposInit, ConservaInit, ExclusivaInit, NacientesInit, VidaInit, ContadosInit,
       ConDuenoInit DEF Sano
  <2>2. Sano /\ SinMuertes /\ [Next]_vars => Sano' /\ SinMuertes'
    BY TiposNext, ConservaNext, ExclusivaNext, NacientesNext, VidaNext, ContadosNext,
       ConDuenoNext, VolcadaNext, NadieEspiaNext, MuertesNext DEF Sano
  <2> QED
    BY <2>1, <2>2, PTL DEF Spec
<1> QED
  BY <1>2, PTL

-----------------------------------------------------------------------------
(* Who waits waits for somebody.                                            *)

\* ListaSem has every semaphore once.
Distintos(q) == \A i, j \in 1..Len(q) : q[i] = q[j] => i = j
UnaVez == Distintos(ListaSem)

\* A semaphore of the list that is at zero is somebody's.
Listado(s) == \E i \in 1..Len(ListaSem) : ListaSem[i] = s
CerosConDueno ==
  Limpio => \A s \in Numeros : Listado(s) => semaforoCompactacion[s] > 0 \/ Ocupan(s)

\* So is a semaforoTabla at zero, and SemaforoMemtable.
TablaDeAlguien ==
  \A s \in 1..usados : semaforoTabla[s] = 0 =>
    \E g \in Numeros : hilo[g] = "escribe_bin" /\ punteroHilo[g] = s
MemtableDeAlguien == SemaforoMemtable = 0 => \E c \in Clientes : pc[c] \in Borrando

TodoConDueno == UnaVez /\ CerosConDueno /\ TablaDeAlguien /\ MemtableDeAlguien

LEMMA OcupanEs ==
  ASSUME NEW s
  PROVE  /\ Ocupan(s) <=> \/ \E c \in Clientes : pc[c] \in Leyendo /\ puntero[c] = s
                          \/ \E g \in Numeros : hilo[g] \in Trabajando /\ punteroHilo[g] = s
         /\ Ocupan(s)' <=> \/ \E c \in Clientes : pc'[c] \in Leyendo /\ puntero'[c] = s
                           \/ \E g \in Numeros : hilo'[g] \in Trabajando /\ punteroHilo'[g] = s
  BY DEF Ocupan, Leyendo, Trabajando

\* What is appended, and what stays when an element goes.
LEMMA AgregadoUnaVez ==
  ASSUME NEW S, NEW q \in Seq(S), Distintos(q), NEW s, s \notin S
  PROVE  /\ Distintos(Append(q, s))
         /\ \A i \in 1..Len(Append(q, s)) :
              Append(q, s)[i] = s \/ \E j \in 1..Len(q) : Append(q, s)[i] = q[j]
<1>1. PICK n \in Nat : n = Len(q)
  OBVIOUS
<1>2. PICK r : r = Append(q, s)
  OBVIOUS
<1>3. Len(r) = n + 1 /\ r[n + 1] = s /\ \A i \in 1..n : r[i] = q[i] /\ q[i] \in S
  BY <1>1, <1>2
<1>4. \A i : i \in 1..(n + 1) <=> i \in 1..n \/ i = n + 1
  BY <1>1
<1>5. Distintos(r)
  BY <1>1, <1>3, <1>4 DEF Distintos
<1>6. \A i \in 1..Len(r) : r[i] = s \/ \E j \in 1..Len(q) : r[i] = q[j]
  BY <1>1, <1>3, <1>4
<1> QED
  BY <1>2, <1>5, <1>6

LEMMA QuitadoUnaVez ==
  ASSUME NEW S, NEW q \in Seq(S), Distintos(q), NEW p \in 1..Len(q), NEW r \in Seq(S),
         Quitada(q, p, r)
  PROVE  /\ Distintos(r)
         /\ \A i \in 1..Len(r) : r[i] # q[p] /\ \E j \in 1..Len(q) : r[i] = q[j]
<1>1. PICK n \in Nat : n = Len(q) /\ Len(r) = n - 1
  BY DEF Quitada
<1>2. PICK f : f = [i \in 1..(n - 1) |-> IF i < p THEN i ELSE i + 1]
  OBVIOUS
<1>3. \A i \in 1..(n - 1) : f[i] \in 1..n /\ f[i] # p
  BY <1>1, <1>2
<1>4. \A i, j \in 1..(n - 1) : f[i] = f[j] => i = j
  BY <1>1, <1>2
<1>5. \A i \in 1..(n - 1) : r[i] = q[f[i]]
  BY <1>1, <1>2 DEF Quitada
<1>6. \A i, j \in 1..n : q[i] = q[j] => i = j
  BY <1>1 DEF Distintos
<1>7. ASSUME NEW i \in 1..(n - 1), NEW j \in 1..(n - 1), r[i] = r[j] PROVE i = j
  <2>1. q[f[i]] = q[f[j]]
    BY <1>5, <1>7
  <2>2. f[i] = f[j]
    BY <2>1, <1>3, <1>6
  <2> QED
    BY <2>2, <1>4
<1>8. ASSUME NEW i \in 1..(n - 1) PROVE r[i] # q[p] /\ \E j \in 1..n : r[i] = q[j]
  <2>1. p \in 1..n
    BY <1>1
  <2>2. q[f[i]] # q[p]
    BY <2>1, <1>3, <1>6
  <2> QED
    BY <2>2, <1>3, <1>5
<1> QED
  BY <1>1, <1>7, <1>8 DEF Distintos

\* What Saca leaves, whatever position it found.
LEMMA SacadoUnaVez ==
  ASSUME Tipos, UnaVez, NEW p \in 1..Len(ListaSem)
  PROVE  /\ Distintos(Sin(p))
         /\ \A i \in 1..Len(Sin(p)) :
              /\ Sin(p)[i] # ListaSem[p]
              /\ \E j \in 1..Len(ListaSem) : Sin(p)[i] = ListaSem[j]
<1>1. ListaSem \in Seq(1..usados) /\ Sin(p) \in Seq(1..usados)
        /\ Quitada(ListaSem, p, Sin(p))
  BY SinTipo, Partes DEF Tipos, TipoLista
<1>2. PICK r : r = Sin(p)
  OBVIOUS
<1> QED
  BY <1>1, <1>2, QuitadoUnaVez DEF UnaVez

\* Where neither the list nor its counts change, and whoever holds a semaphore keeps it.
LEMMA CerosQuietos ==
  ASSUME CerosConDueno, Limpio' => Limpio, UNCHANGED <<ListaSem, semaforoCompactacion>>,
         \A c \in Clientes : pc[c] \in Leyendo => pc'[c] \in Leyendo /\ puntero'[c] = puntero[c],
         \A g \in Numeros : hilo[g] \in Trabajando =>
           hilo'[g] \in Trabajando /\ punteroHilo'[g] = punteroHilo[g]
  PROVE  CerosConDueno'
<1>1. ASSUME NEW s, Ocupan(s) PROVE Ocupan(s)'
  BY <1>1, OcupanEs
<1> SUFFICES ASSUME Limpio', NEW s \in Numeros, Listado(s)'
             PROVE  semaforoCompactacion'[s] > 0 \/ Ocupan(s)'
  BY DEF CerosConDueno
<1>2. Listado(s)
  BY DEF Listado
<1> QED
  BY <1>1, <1>2 DEF CerosConDueno

\* A client that is not a reader, or goes on being one with its address, changes none.
LEMMA LectoresQuedan ==
  ASSUME NEW c \in Clientes, Movido(c),
         pc[c] \in Leyendo => pc'[c] \in Leyendo /\ puntero'[c] = puntero[c]
  PROVE  \A d \in Clientes : pc[d] \in Leyendo => pc'[d] \in Leyendo /\ puntero'[d] = puntero[d]
  BY DEF Movido

\* Whoever takes a semaphore is who has it.
LEMMA CerosAlTomar ==
  ASSUME Tipos, CerosConDueno, Limpio' => Limpio, ListaSem' = ListaSem, NEW p,
         semaforoCompactacion' = [semaforoCompactacion EXCEPT ![p] = @ - 1], Ocupan(p)',
         \A c \in Clientes : pc[c] \in Leyendo => pc'[c] \in Leyendo /\ puntero'[c] = puntero[c],
         \A g \in Numeros : hilo[g] \in Trabajando =>
           hilo'[g] \in Trabajando /\ punteroHilo'[g] = punteroHilo[g]
  PROVE  CerosConDueno'
<1>1. ASSUME NEW s, Ocupan(s) PROVE Ocupan(s)'
  BY <1>1, OcupanEs
<1> SUFFICES ASSUME Limpio', NEW s \in Numeros, Listado(s)', s # p
             PROVE  semaforoCompactacion'[s] > 0 \/ Ocupan(s)'
  BY DEF CerosConDueno
<1>2. Listado(s)
  BY DEF Listado
<1>3. semaforoCompactacion'[s] = semaforoCompactacion[s]
  BY Partes DEF Tipos, TipoSemaforos
<1> QED
  BY <1>1, <1>2, <1>3 DEF CerosConDueno

\* Whoever gives it back leaves it above zero.
LEMMA CerosAlSoltar ==
  ASSUME Tipos, CerosConDueno, Limpio' => Limpio, ListaSem' = ListaSem, NEW p,
         semaforoCompactacion' = [semaforoCompactacion EXCEPT ![p] = @ + 1],
         \A c \in Clientes : pc[c] \in Leyendo /\ puntero[c] # p =>
           pc'[c] \in Leyendo /\ puntero'[c] = puntero[c],
         \A g \in Numeros : hilo[g] \in Trabajando /\ punteroHilo[g] # p =>
           hilo'[g] \in Trabajando /\ punteroHilo'[g] = punteroHilo[g]
  PROVE  CerosConDueno'
<1>1. ASSUME NEW s, s # p, Ocupan(s) PROVE Ocupan(s)'
  BY <1>1, OcupanEs
<1> SUFFICES ASSUME Limpio', NEW s \in Numeros, Listado(s)'
             PROVE  semaforoCompactacion'[s] > 0 \/ Ocupan(s)'
  BY DEF CerosConDueno
<1>2. Listado(s)
  BY DEF Listado
<1>3. semaforoCompactacion \in [Numeros -> Nat]
  BY Partes DEF Tipos, TipoSemaforos
<1>4. CASE s = p
  BY <1>3, <1>4
<1>5. CASE s # p
  <2>1. semaforoCompactacion'[s] = semaforoCompactacion[s]
    BY <1>3, <1>5
  <2> QED
    BY <1>1, <1>2, <1>5, <2>1 DEF CerosConDueno
<1> QED
  BY <1>4, <1>5

LEMMA LimpioCrece == [Next]_vars => (Limpio' => Limpio)
  BY RiesgoCrece DEF Limpio

\* The clients' steps that take nothing and give nothing back.
LEMMA CerosPide ==
  ASSUME Tipos, CerosConDueno, Limpio' => Limpio, NEW c \in Clientes, Pide(c)
  PROVE  CerosConDueno'
<1>1. PICK t \in Tablas, lugar \in {"select_verifica", "select_inexistente", "insert",
                                    "describe", "drop_verifica", "create_carpeta", "consola_verifica"} :
        Empieza(c, t, lugar)
  BY DEF Pide, SELECT, APIselect, INSERT, DESCRIBE, DROP, CREATE
<1>2. UNCHANGED <<lista, semaforos, hilos>> /\ Movido(c) /\ pc[c] = "libre"
  BY <1>1, MovidoEmpieza DEF Empieza
<1>3. "libre" \notin Leyendo
  BY DEF Leyendo
<1> QED
  BY <1>2, <1>3, LectoresQuedan, CerosQuietos DEF lista, semaforos, hilos

LEMMA CerosUsa ==
  ASSUME Tipos, CerosConDueno, Limpio' => Limpio, NEW c \in Clientes, Atiende(c),
         ~Toma(c), ~postearSemTable(c), ~list_create(c), ~crearSemaforo(c),
         ~levantarHiloCompactacion(c)
  PROVE  CerosConDueno'
<1>1. CASE SinSemaforo(c) \/ SinArchivo(c)
  <2>1. UNCHANGED <<lista, semaforos, clientes, hilos>>
    BY <1>1 DEF SinSemaforo, SinArchivo, Muere
  <2> QED
    BY <2>1, CerosQuietos DEF lista, semaforos, clientes, hilos
<1>2. CASE \/ RemoverParticionesDeTablaYSusBloques(c) \/ RemoverTemporalesDeTablaYSusBloques(c)
           \/ RemoverMetadataDeTabla(c) \/ RemoverCarpetaVaciaDeTabla(c)
           \/ crearTabla(c) \/ crearMetadataConfig(c) \/ crearParticion(c)
  <2>1. /\ Movido(c) /\ pc[c] \in Altas \cup Bajas /\ UNCHANGED <<lista, hilos, semaforos>>
    BY <1>2, PasosDisco
  <2>2. pc[c] \notin Leyendo
    BY <2>1, Lugares, MasLugares DEF Leyendo
  <2> QED
    BY <2>1, <2>2, LectoresQuedan, CerosQuietos DEF lista, semaforos, hilos
<1>3. CASE LeeParticion(c) \/ LeeMemtable(c)
  <2>1. /\ UNCHANGED <<lista, semaforos, hilos, puntero>> /\ Movido(c)
    BY <1>3, Pasos DEF LeeParticion, LeeMemtable, Sigue
  <2>2. pc'[c] \in Leyendo
    BY <1>3, MovidoSigue DEF LeeParticion, LeeMemtable, Leyendo
  <2> QED
    BY <2>1, <2>2, LectoresQuedan, CerosQuietos DEF lista, semaforos, hilos
<1>4. CASE \/ verificarSemaforoTabla(c) \/ waitearSemTable(c) \/ agregarTabla(c)
           \/ verificarDesdeConsola(c) \/ LeeParticionDesdeConsola(c)
           \/ LeeMemtableDesdeConsola(c) \/ dictionary_is_empty(c)
           \/ obtenerMetadataTabla(c) \/ verificarSemaforoCompactacion(c)
           \/ RemoverDeLaMemtable(c) \/ AnotaHilo(c)
  <2>1. UNCHANGED <<ListaSem, semaforos, hilos>> /\ Movido(c)
    BY <1>4, Pasos DEF verificarSemaforoTabla, waitearSemTable, agregarTabla,
       obtenerMetadataTabla, verificarSemaforoCompactacion, verificar, verificarDesdeConsola,
       LeeParticionDesdeConsola, LeeMemtableDesdeConsola, dictionary_is_empty, RemoverDeLaMemtable,
       AnotaHilo, lista
  <2>2. pc[c] \notin Leyendo
    BY <1>4 DEF verificarSemaforoTabla, waitearSemTable, agregarTabla,
       obtenerMetadataTabla, verificarSemaforoCompactacion, verificar, verificarDesdeConsola,
       LeeParticionDesdeConsola, LeeMemtableDesdeConsola, dictionary_is_empty, RemoverDeLaMemtable,
       AnotaHilo, En, Leyendo
  <2> QED
    BY <2>1, <2>2, LectoresQuedan, CerosQuietos DEF semaforos, hilos
<1> QED
  BY <1>1, <1>2, <1>3, <1>4 DEF Atiende

\* Nothing is listed in an empty list.
LEMMA CerosLista ==
  ASSUME NEW c \in Clientes, list_create(c)
  PROVE  CerosConDueno' /\ UnaVez'
<1>1. ListaSem' = <<>>
  BY DEF list_create
<1> QED
  BY <1>1 DEF CerosConDueno, Listado, UnaVez, Distintos

\* The new semaphore is at one.
LEMMA CerosSemaforo ==
  ASSUME Tipos, CerosConDueno, UnaVez, Limpio' => Limpio, NEW c \in Clientes, crearSemaforo(c)
  PROVE  CerosConDueno' /\ UnaVez'
<1>1. /\ usados' = usados + 1 /\ usados' \in Numeros /\ usados \in Nat
      /\ Movido(c) /\ UNCHANGED hilos /\ pc[c] = "create_semaforo"
      /\ semaforoCompactacion' = [semaforoCompactacion EXCEPT ![usados'] = 1]
  BY AlcanzaSemaforo, Pasos DEF Tipos, crearSemaforo, En
<1>2. PICK q : q = ListaSem
  OBVIOUS
<1>3. ListaSem' = Append(q, usados') \/ ListaSem' = q
  BY <1>2 DEF crearSemaforo
<1>4. PICK S : S = 1..usados
  OBVIOUS
<1>6. q \in Seq(S)
  BY <1>2, <1>4, Partes DEF Tipos, TipoLista
<1>8. Distintos(q)
  BY <1>2 DEF UnaVez
<1>9. PICK n : n = usados' /\ n \notin S
  BY <1>1, <1>4
<1>10. /\ Distintos(Append(q, n))
      /\ \A i \in 1..Len(Append(q, n)) :
           Append(q, n)[i] = n \/ \E j \in 1..Len(q) : Append(q, n)[i] = q[j]
  BY <1>6, <1>8, <1>9, AgregadoUnaVez
<1>11. UnaVez'
  BY <1>3, <1>8, <1>9, <1>10 DEF UnaVez
<1>12. \A d \in Clientes : pc[d] \in Leyendo => pc'[d] \in Leyendo /\ puntero'[d] = puntero[d]
  BY <1>1, LectoresQuedan DEF Leyendo
<1>13. ASSUME NEW s, Ocupan(s) PROVE Ocupan(s)'
  BY <1>1, <1>12, <1>13, OcupanEs DEF hilos
<1>14. ASSUME Limpio', NEW s \in Numeros, Listado(s)'
       PROVE  semaforoCompactacion'[s] > 0 \/ Ocupan(s)'
  <2>1. semaforoCompactacion \in [Numeros -> Nat]
    BY Partes DEF Tipos, TipoSemaforos
  <2>2. CASE s = n
    BY <1>1, <1>9, <2>1, <2>2
  <2>3. CASE s # n
    <3>1. \E j \in 1..Len(q) : s = q[j]
      BY <1>3, <1>9, <1>10, <1>14, <2>3 DEF Listado
    <3>2. Listado(s)
      BY <1>2, <3>1 DEF Listado
    <3>3. semaforoCompactacion'[s] = semaforoCompactacion[s]
      BY <1>1, <1>9, <2>1, <2>3
    <3> QED
      BY <1>13, <1>14, <3>2, <3>3 DEF CerosConDueno
  <2> QED
    BY <2>2, <2>3
<1> QED
  BY <1>11, <1>14 DEF CerosConDueno

\* Nobody listed has the element that goes.
LEMMA CerosSaca ==
  ASSUME Tipos, CerosConDueno, UnaVez, Limpio' => Limpio, NEW g \in Numeros, Saca(g), ~MuereHilo(g)
  PROVE  CerosConDueno' /\ UnaVez'
<1>3. /\ UNCHANGED <<punteroHilo, clientes>> /\ hilo[g] = "saca" /\ HiloMovido(g)
  BY PasosHilo DEF Saca, EnHilo, funcionCompactar
<1>4. "saca" \notin Trabajando
  BY Lugares
<1>5. /\ \A c \in Clientes : pc[c] \in Leyendo => pc'[c] \in Leyendo /\ puntero'[c] = puntero[c]
      /\ \A h \in Numeros : hilo[h] \in Trabajando =>
           hilo'[h] \in Trabajando /\ punteroHilo'[h] = punteroHilo[h]
  BY <1>3, <1>4 DEF clientes, HiloMovido
<1>6. CASE UNCHANGED <<ListaSem, semaforoCompactacion>>
  BY <1>5, <1>6, CerosQuietos DEF UnaVez
<1>7. ASSUME NEW p \in 1..Len(ListaSem), Destruye(p) PROVE CerosConDueno' /\ UnaVez'
  <2>0. PICK x : x = ListaSem[p]
    OBVIOUS
  <2>1. ListaSem' = Sin(p)
    BY <1>7 DEF Destruye
  <2>2. PICK v \in 0..1 : semaforoCompactacion' = [semaforoCompactacion EXCEPT ![x] = v]
    BY <1>7, <2>0 DEF Destruye
  <2>3. PICK r : r = Sin(p)
    OBVIOUS
  <2>4. /\ Distintos(r)
        /\ \A i \in 1..Len(r) : r[i] # x /\ \E j \in 1..Len(ListaSem) : r[i] = ListaSem[j]
    BY <2>0, <2>3, SacadoUnaVez
  <2>5. UnaVez'
    BY <2>1, <2>3, <2>4 DEF UnaVez
  <2>6. ASSUME NEW s, Ocupan(s) PROVE Ocupan(s)'
    BY <1>5, <2>6, OcupanEs
  <2>7. ASSUME Limpio', NEW s \in Numeros, Listado(s)'
        PROVE  semaforoCompactacion'[s] > 0 \/ Ocupan(s)'
    <3>1. Listado(s) /\ s # x
      BY <2>1, <2>3, <2>4, <2>7 DEF Listado
    <3>2. semaforoCompactacion'[s] = semaforoCompactacion[s]
      BY <2>2, <3>1, Partes DEF Tipos, TipoSemaforos
    <3> QED
      BY <2>6, <2>7, <3>1, <3>2 DEF CerosConDueno
  <2> QED
    BY <2>5, <2>7 DEF CerosConDueno
<1>8. \/ UNCHANGED <<ListaSem, semaforoCompactacion>>
      \/ \E p \in 1..Len(ListaSem) : Destruye(p)
  BY PrimeraDonde DEF Saca
<1> QED
  BY <1>6, <1>7, <1>8

LEMMA CerosToma ==
  ASSUME Tipos, CerosConDueno, Limpio' => Limpio, NEW c \in Clientes, Toma(c)
  PROVE  CerosConDueno'
<1>1. /\ UNCHANGED <<lista, hilos, puntero>> /\ Movido(c) /\ pc'[c] = "select_lee"
      /\ semaforoCompactacion' = [semaforoCompactacion EXCEPT ![puntero[c]] = @ - 1]
  BY MovidoSigue DEF Toma, Sigue
<1>2. pc'[c] \in Leyendo /\ puntero'[c] = puntero[c]
  BY <1>1 DEF Leyendo
<1>3. PICK p : p = puntero[c]
  OBVIOUS
<1>4. Ocupan(p)'
  BY <1>2, <1>3, OcupanEs
<1> QED
  BY <1>1, <1>2, <1>3, <1>4, LectoresQuedan, CerosAlTomar DEF lista, hilos

\* Until a SELECT posts what it did not take, it posts what it took.
LEMMA CerosPostea ==
  ASSUME Tipos, CerosConDueno, Exclusiva, Limpio' => Limpio, NEW c \in Clientes,
         postearSemTable(c)
  PROVE  CerosConDueno'
<1> SUFFICES ASSUME Limpio' PROVE CerosConDueno'
  BY DEF CerosConDueno
<1>1. PICK p : p = list_find(tabla[c])
  OBVIOUS
<1>2. /\ UNCHANGED <<lista, hilos>> /\ Termina(c)
      /\ semaforoCompactacion' = [semaforoCompactacion EXCEPT ![p] = @ + 1]
  BY <1>1 DEF postearSemTable
<1>3. Movido(c)
  BY <1>2, MovidoTermina
<1>4. pc[c] = "select_postea"
  <2>1. pc[c] = "select_inexistente" => "inexistente" \in riesgo'
    BY DEF postearSemTable, Anota, Recuerda
  <2> QED
    BY <2>1 DEF postearSemTable, En, Limpio
<1>5. puntero[c] = p
  BY <1>1, <1>4 DEF Exclusiva, Firmes, Leyendo
<1>6. \A d \in Clientes : pc[d] \in Leyendo /\ puntero[d] # p =>
        pc'[d] \in Leyendo /\ puntero'[d] = puntero[d]
  BY <1>3, <1>5 DEF Movido
<1> QED
  BY <1>2, <1>6, CerosAlSoltar DEF lista, hilos

LEMMA CerosLevanta ==
  ASSUME Tipos, Nacientes, CerosConDueno, Limpio' => Limpio, NEW c \in Clientes,
         levantarHiloCompactacion(c)
  PROVE  CerosConDueno'
<1>1. /\ UNCHANGED <<lista, semaforos, punteroHilo>> /\ Movido(c) /\ pc[c] = "create_hilo"
      /\ hilo' = [hilo EXCEPT ![puntero[c]] = "arranca"]
  BY Pasos DEF levantarHiloCompactacion, En, VaHilo
<1>2. hilo[puntero[c]] = "no" /\ "no" \notin Trabajando
  BY <1>1, Lugares DEF Nacientes
<1>3. \A g \in Numeros : hilo[g] \in Trabajando => hilo'[g] = hilo[g]
  BY <1>1, <1>2, Partes DEF Tipos, TipoHilos
<1>4. pc[c] \notin Leyendo
  BY <1>1 DEF Leyendo
<1> QED
  BY <1>1, <1>3, <1>4, LectoresQuedan, CerosQuietos DEF lista, semaforos

\* The threads.
LEMMA HiloQueda ==
  ASSUME NEW g \in Numeros, HiloMovido(g),
         \A h \in Numeros : h # g => punteroHilo'[h] = punteroHilo[h],
         hilo[g] \in Trabajando => hilo'[g] \in Trabajando /\ punteroHilo'[g] = punteroHilo[g]
  PROVE  /\ \A c \in Clientes : pc[c] \in Leyendo => pc'[c] \in Leyendo /\ puntero'[c] = puntero[c]
         /\ \A h \in Numeros : hilo[h] \in Trabajando =>
              hilo'[h] \in Trabajando /\ punteroHilo'[h] = punteroHilo[h]
  BY DEF HiloMovido, clientes

LEMMA CerosHilo ==
  ASSUME Tipos, CerosConDueno, UnaVez, Limpio' => Limpio, NEW g \in Numeros,
         funcionCompactar(g)
  PROVE  CerosConDueno'
<1>1. CASE MuereHilo(g)
  <2>1. UNCHANGED <<lista, semaforos, clientes, hilos>>
    BY <1>1 DEF MuereHilo, Muere
  <2> QED
    BY <2>1, CerosQuietos DEF lista, semaforos, clientes, hilos
<1>2. CASE ~MuereHilo(g)
  <2>1. HiloMovido(g)
    BY <1>2, PasosHilo
  <2>2. CASE Arranca(g) \/ Despierta(g) \/ Busca(g) \/ Indice(g) \/ Olvida(g)
    <3>1. /\ UNCHANGED <<ListaSem, semaforoCompactacion>>
          /\ \A h \in Numeros : h # g => punteroHilo'[h] = punteroHilo[h]
      BY <2>2, Partes DEF Arranca, Despierta, Busca, Indice, Olvida, Avanza, lista, semaforos, Tipos,
         TipoHilos
    <3>2. hilo[g] \notin Trabajando
      BY <2>2, Lugares DEF Arranca, Despierta, Busca, Indice, Olvida, Avanza, EnHilo
    <3> QED
      BY <2>1, <3>1, <3>2, HiloQueda, CerosQuietos
  <2>3. CASE cambiarNombreTmpATmpc(g) \/ Une(g) \/ BorraBin(g) \/ crearParticionNueva(g)
    <3>1. UNCHANGED <<ListaSem, semaforoCompactacion, punteroHilo>>
      BY <2>3 DEF cambiarNombreTmpATmpc, Une, BorraBin, crearParticionNueva, Avanza, lista,
         semaforos
    <3>2. PICK lugar \in {"une", "borra_bin", "suelta", "escribe_bin"} : VaHilo(g, lugar)
      BY <2>3 DEF cambiarNombreTmpATmpc, Une, BorraBin, crearParticionNueva, Avanza
    <3>3. hilo'[g] \in Trabajando
      BY <3>2, Lugares, Partes DEF VaHilo, Tipos, TipoHilos
    <3> QED
      BY <2>1, <3>1, <3>3, HiloQueda, CerosQuietos
  <2>4. CASE TomaCompactacion(g)
    <3>1. PICK p : p = punteroHilo[g]
      OBVIOUS
    <3>2. /\ UNCHANGED <<ListaSem, punteroHilo>> /\ VaHilo(g, "renombra")
          /\ semaforoCompactacion' = [semaforoCompactacion EXCEPT ![p] = @ - 1]
      BY <2>4, <3>1 DEF TomaCompactacion, lista
    <3>3. hilo'[g] \in Trabajando
      BY <3>2, Lugares, Partes DEF VaHilo, Tipos, TipoHilos
    <3>4. Ocupan(p)'
      BY <3>1, <3>2, <3>3, OcupanEs
    <3> QED
      BY <2>1, <3>2, <3>3, <3>4, HiloQueda, CerosAlTomar
  <2>5. CASE SueltaCompactacion(g)
    <3>1. PICK p : p = punteroHilo[g]
      OBVIOUS
    <3>2. /\ UNCHANGED <<ListaSem, clientes>> /\ punteroHilo' = [punteroHilo EXCEPT ![g] = NULL]
          /\ semaforoCompactacion' = [semaforoCompactacion EXCEPT ![p] = @ + 1]
      BY <2>5, <3>1 DEF SueltaCompactacion, lista
    <3>3. \A h \in Numeros : hilo[h] \in Trabajando /\ punteroHilo[h] # p =>
            hilo'[h] \in Trabajando /\ punteroHilo'[h] = punteroHilo[h]
      BY <2>1, <3>1, <3>2, Partes DEF HiloMovido, Tipos, TipoHilos
    <3> QED
      BY <3>2, <3>3, CerosAlSoltar DEF clientes
  <2> QED
    BY <1>2, <2>2, <2>3, <2>4, <2>5, CerosSaca DEF funcionCompactar
<1> QED
  BY <1>1, <1>2

LEMMA CerosNext ==
  ASSUME Tipos, Nacientes, Exclusiva, UnaVez, CerosConDueno, [Next]_vars
  PROVE  CerosConDueno'
<1>1. Limpio' => Limpio
  BY LimpioCrece
<1>2. ASSUME NEW c \in Clientes, Pide(c) \/ Atiende(c) PROVE CerosConDueno'
  BY <1>1, <1>2, CerosPide, CerosUsa, CerosToma, CerosPostea, CerosLista, CerosSemaforo,
     CerosLevanta
<1>3. CASE chekearDumpeo \/ dump \/ UNCHANGED vars
  <2>1. UNCHANGED <<lista, semaforos, clientes, hilos>>
    BY <1>3 DEF chekearDumpeo, dump, Muere, vars
  <2> QED
    BY <1>1, <2>1, CerosQuietos DEF lista, semaforos, clientes, hilos
<1> QED
  BY <1>1, <1>2, <1>3, CerosHilo DEF Next

LEMMA UnaVezNext ==
  ASSUME Tipos, Nacientes, UnaVez, CerosConDueno, [Next]_vars
  PROVE  UnaVez'
<1>1. Limpio' => Limpio
  BY LimpioCrece
<1>2. ListaSem' = ListaSem => UnaVez'
  BY DEF UnaVez
<1>3. ASSUME NEW c \in Clientes, Pide(c) PROVE UnaVez'
  BY <1>2, <1>3 DEF Pide, SELECT, APIselect, INSERT, DESCRIBE, DROP, CREATE, Empieza, lista
<1>4. ASSUME NEW c \in Clientes, Atiende(c), ~list_create(c), ~crearSemaforo(c) PROVE UnaVez'
  <2>1. CASE \/ RemoverParticionesDeTablaYSusBloques(c) \/ RemoverTemporalesDeTablaYSusBloques(c)
             \/ RemoverMetadataDeTabla(c) \/ RemoverCarpetaVaciaDeTabla(c)
             \/ crearTabla(c) \/ crearMetadataConfig(c) \/ crearParticion(c)
    BY <1>2, <2>1, PasosDisco DEF lista
  <2> QED
    BY <1>2, <1>4, <2>1 DEF Atiende, verificarSemaforoTabla, waitearSemTable, Toma,
       LeeParticion, LeeMemtable, postearSemTable, agregarTabla, obtenerMetadataTabla,
       verificarSemaforoCompactacion, verificar, verificarDesdeConsola,
       LeeParticionDesdeConsola, LeeMemtableDesdeConsola, dictionary_is_empty, RemoverDeLaMemtable,
       levantarHiloCompactacion, AnotaHilo, SinSemaforo, SinArchivo, Muere, lista
<1>5. ASSUME NEW g \in Numeros, funcionCompactar(g), MuereHilo(g) \/ ~Saca(g) PROVE UnaVez'
  BY <1>2, <1>5 DEF funcionCompactar, Arranca, Despierta, Indice, Busca, TomaCompactacion,
     cambiarNombreTmpATmpc, Une, BorraBin, crearParticionNueva, SueltaCompactacion, Olvida,
     MuereHilo, Avanza, Muere, lista
<1>6. CASE chekearDumpeo \/ dump \/ UNCHANGED vars
  BY <1>2, <1>6 DEF chekearDumpeo, dump, Muere, vars, lista
<1> QED
  BY <1>1, <1>3, <1>4, <1>5, <1>6, CerosLista, CerosSemaforo, CerosSaca DEF Next

\* A thread that has begun to replace the .bin keeps semaforoTabla until it has finished.
LEMMA TablaQuieta ==
  ASSUME TablaDeAlguien, UNCHANGED <<usados, semaforoTabla>>,
         \A g \in Numeros : hilo[g] = "escribe_bin" =>
           hilo'[g] = "escribe_bin" /\ punteroHilo'[g] = punteroHilo[g]
  PROVE  TablaDeAlguien'
  BY DEF TablaDeAlguien

LEMMA TablaHilo ==
  ASSUME Tipos, TablaDeAlguien, NEW g \in Numeros, funcionCompactar(g), ~MuereHilo(g)
  PROVE  TablaDeAlguien'
<1>1. /\ UNCHANGED usados /\ \A h \in Numeros : h # g => hilo'[h] = hilo[h]
  BY PasosHilo DEF HiloMovido
<1>2. /\ semaforoTabla \in [Numeros -> 0..1] /\ hilo \in [Numeros -> LugaresHilo]
      /\ punteroHilo \in [Numeros -> {NULL} \cup Numeros]
  BY Partes DEF Tipos, TipoSemaforos, TipoHilos
<1>3. \A s \in 1..usados : s \in Numeros
  BY Constantes, Partes DEF Tipos, TipoLista
<1>4. PICK p : p = punteroHilo[g]
  OBVIOUS
<1>5. CASE BorraBin(g)
  <2>1. /\ hilo'[g] = "escribe_bin" /\ hilo[g] = "borra_bin" /\ UNCHANGED punteroHilo
        /\ semaforoTabla' = [semaforoTabla EXCEPT ![p] = @ - 1]
    BY <1>2, <1>4, <1>5 DEF BorraBin, VaHilo, EnHilo
  <2> SUFFICES ASSUME NEW s \in 1..usados, semaforoTabla'[s] = 0
               PROVE  \E h \in Numeros : hilo'[h] = "escribe_bin" /\ punteroHilo'[h] = s
    BY <1>1 DEF TablaDeAlguien
  <2>2. CASE s = p
    BY <1>4, <2>1, <2>2
  <2>3. CASE s # p
    <3>1. semaforoTabla[s] = 0
      BY <1>2, <1>3, <2>1, <2>3
    <3>2. PICK h \in Numeros : hilo[h] = "escribe_bin" /\ punteroHilo[h] = s
      BY <3>1 DEF TablaDeAlguien
    <3> QED
      BY <1>1, <2>1, <3>2
  <2> QED
    BY <2>2, <2>3
<1>6. CASE crearParticionNueva(g)
  <2>1. /\ hilo[g] = "escribe_bin" /\ UNCHANGED punteroHilo
        /\ semaforoTabla' = [semaforoTabla EXCEPT ![p] = @ + 1]
    BY <1>4, <1>6 DEF crearParticionNueva, EnHilo
  <2> SUFFICES ASSUME NEW s \in 1..usados, semaforoTabla'[s] = 0
               PROVE  \E h \in Numeros : hilo'[h] = "escribe_bin" /\ punteroHilo'[h] = s
    BY <1>1 DEF TablaDeAlguien
  <2>2. s # p /\ semaforoTabla[s] = 0
    BY <1>2, <1>3, <2>1
  <2>3. PICK h \in Numeros : hilo[h] = "escribe_bin" /\ punteroHilo[h] = s
    BY <2>2 DEF TablaDeAlguien
  <2>4. h # g
    BY <1>4, <2>2, <2>3
  <2> QED
    BY <1>1, <2>1, <2>3, <2>4
<1>7. CASE ~BorraBin(g) /\ ~crearParticionNueva(g)
  <2>1. UNCHANGED semaforoTabla /\ hilo[g] # "escribe_bin"
          /\ \A h \in Numeros : h # g => punteroHilo'[h] = punteroHilo[h]
    BY <1>2, <1>7 DEF funcionCompactar, Arranca, Despierta, Indice, Destruye, Busca, TomaCompactacion,
       cambiarNombreTmpATmpc, Une, SueltaCompactacion, Saca, Olvida, Avanza, semaforos, EnHilo
  <2> QED
    BY <1>1, <2>1, TablaQuieta
<1> QED
  BY <1>5, <1>6, <1>7

LEMMA TablaCliente ==
  ASSUME Tipos, Nacientes, TablaDeAlguien, NEW c \in Clientes, Pide(c) \/ Atiende(c)
  PROVE  TablaDeAlguien'
<1>1. CASE crearSemaforo(c)
  <2>1. /\ usados' = usados + 1 /\ usados \in Nat /\ usados' \in Numeros /\ UNCHANGED hilos
        /\ semaforoTabla' = [semaforoTabla EXCEPT ![usados'] = 1]
    BY <1>1, AlcanzaSemaforo DEF Tipos, crearSemaforo
  <2>2. semaforoTabla \in [Numeros -> 0..1]
    BY Partes DEF Tipos, TipoSemaforos
  <2> SUFFICES ASSUME NEW s \in 1..usados', semaforoTabla'[s] = 0
               PROVE  \E g \in Numeros : hilo[g] = "escribe_bin" /\ punteroHilo[g] = s
    BY <2>1 DEF TablaDeAlguien, hilos
  <2>3. s # usados'
    BY <2>1, <2>2
  <2>4. s \in 1..usados /\ s \in Numeros
    BY <2>1, <2>3, Constantes
  <2>5. semaforoTabla[s] = 0
    BY <2>1, <2>2, <2>3, <2>4
  <2> QED
    BY <2>4, <2>5 DEF TablaDeAlguien
<1>2. CASE levantarHiloCompactacion(c)
  <2>1. /\ UNCHANGED <<lista, semaforos, punteroHilo>>
        /\ hilo' = [hilo EXCEPT ![puntero[c]] = "arranca"] /\ hilo[puntero[c]] = "no"
    BY <1>2 DEF levantarHiloCompactacion, VaHilo, En, Nacientes
  <2>2. \A g \in Numeros : hilo[g] = "escribe_bin" => hilo'[g] = "escribe_bin"
    BY <2>1, Partes DEF Tipos, TipoHilos
  <2> QED
    BY <2>1, <2>2, TablaQuieta DEF lista, semaforos
<1>3. CASE ~crearSemaforo(c) /\ ~levantarHiloCompactacion(c)
  <2>1. CASE \/ RemoverParticionesDeTablaYSusBloques(c) \/ RemoverTemporalesDeTablaYSusBloques(c)
             \/ RemoverMetadataDeTabla(c) \/ RemoverCarpetaVaciaDeTabla(c)
             \/ crearTabla(c) \/ crearMetadataConfig(c) \/ crearParticion(c)
    BY <2>1, PasosDisco, TablaQuieta DEF lista, semaforos, hilos
  <2>2. UNCHANGED <<usados, semaforoTabla, hilos>>
    BY <1>3, <2>1, PasosDisco DEF Pide, SELECT, APIselect, INSERT, DESCRIBE, DROP, CREATE, Empieza,
       Atiende, verificarSemaforoTabla, waitearSemTable, Toma, LeeParticion, LeeMemtable,
       postearSemTable, agregarTabla, obtenerMetadataTabla, verificarSemaforoCompactacion,
       verificar, verificarDesdeConsola, LeeParticionDesdeConsola, LeeMemtableDesdeConsola,
       dictionary_is_empty, list_create, RemoverDeLaMemtable, AnotaHilo, SinSemaforo, SinArchivo,
       Muere, lista, semaforos
  <2> QED
    BY <2>2, TablaQuieta DEF hilos
<1> QED
  BY <1>1, <1>2, <1>3

LEMMA TablaNext ==
  ASSUME Tipos, Nacientes, TablaDeAlguien, [Next]_vars
  PROVE  TablaDeAlguien'
<1>1. CASE \/ chekearDumpeo \/ dump \/ UNCHANGED vars \/ \E g \in Numeros : MuereHilo(g)
  <2>1. UNCHANGED <<lista, semaforos, hilos>>
    BY <1>1 DEF chekearDumpeo, dump, Muere, MuereHilo, vars
  <2> QED
    BY <2>1, TablaQuieta DEF lista, semaforos, hilos
<1> QED
  BY <1>1, TablaCliente, TablaHilo DEF Next

\* SemaforoMemtable is a DROP's, from its memtable to its directory.
LEMMA MemtableNext ==
  ASSUME Tipos, MemtableDeAlguien, [Next]_vars
  PROVE  MemtableDeAlguien'
<1>1. ASSUME UNCHANGED SemaforoMemtable,
             \A c \in Clientes : pc[c] \in Borrando => pc'[c] \in Borrando
      PROVE  MemtableDeAlguien'
  BY <1>1 DEF MemtableDeAlguien
<1>2. ASSUME UNCHANGED <<memoria, clientes>> PROVE MemtableDeAlguien'
  BY <1>1, <1>2 DEF memoria, clientes
<1>3. ASSUME NEW c \in Clientes, UNCHANGED SemaforoMemtable, Movido(c),
             pc[c] \in Borrando => pc'[c] \in Borrando
      PROVE  MemtableDeAlguien'
  BY <1>1, <1>3 DEF Movido
<1>4. ASSUME NEW c \in Clientes, Pide(c) PROVE MemtableDeAlguien'
  <2>1. PICK t \in Tablas, lugar \in {"select_verifica", "select_inexistente", "insert",
                                      "describe", "drop_verifica", "create_carpeta", "consola_verifica"} :
          Empieza(c, t, lugar)
    BY <1>4 DEF Pide, SELECT, APIselect, INSERT, DESCRIBE, DROP, CREATE
  <2>2. Movido(c) /\ pc[c] = "libre" /\ UNCHANGED memoria
    BY <2>1, MovidoEmpieza DEF Empieza
  <2> QED
    BY <1>3, <2>2, Lugares DEF memoria
<1>5. ASSUME NEW c \in Clientes, Atiende(c) PROVE MemtableDeAlguien'
  <2>1. CASE SinSemaforo(c) \/ SinArchivo(c)
    BY <1>2, <2>1 DEF SinSemaforo, SinArchivo, Muere
  <2>2. CASE RemoverDeLaMemtable(c)
    <3>1. pc'[c] = "drop_particion"
      BY <2>2, MovidoSigue DEF RemoverDeLaMemtable
    <3> QED
      BY <3>1, Lugares DEF MemtableDeAlguien
  <2>3. CASE RemoverCarpetaVaciaDeTabla(c)
    BY <2>3 DEF RemoverCarpetaVaciaDeTabla, MemtableDeAlguien
  <2>4. CASE \/ RemoverParticionesDeTablaYSusBloques(c) \/ RemoverTemporalesDeTablaYSusBloques(c)
             \/ RemoverMetadataDeTabla(c)
    <3>1. UNCHANGED memoria /\ \E lugar \in Borrando : Sigue(c, lugar)
      BY <2>4, Lugares DEF RemoverParticionesDeTablaYSusBloques,
         RemoverTemporalesDeTablaYSusBloques, RemoverMetadataDeTabla, Borra
    <3> QED
      BY <1>3, <3>1, MovidoSigue DEF memoria
  <2>5. CASE crearTabla(c) \/ crearMetadataConfig(c) \/ crearParticion(c)
    <3>1. UNCHANGED memoria /\ pc[c] \in Altas
      BY <2>5, Lugares DEF crearTabla, crearMetadataConfig, crearParticion, Crea, En
    <3>2. pc[c] \notin Borrando
      BY <3>1, Lugares
    <3> QED
      BY <1>3, <2>5, <3>1, <3>2, PasosDisco DEF memoria
  <2>6. CASE \/ verificarSemaforoTabla(c) \/ waitearSemTable(c) \/ Toma(c)
             \/ LeeParticion(c) \/ LeeMemtable(c) \/ postearSemTable(c)
             \/ agregarTabla(c) \/ obtenerMetadataTabla(c) \/ verificarSemaforoCompactacion(c)
             \/ verificarDesdeConsola(c) \/ LeeParticionDesdeConsola(c)
             \/ LeeMemtableDesdeConsola(c) \/ dictionary_is_empty(c) \/ list_create(c)
             \/ crearSemaforo(c) \/ levantarHiloCompactacion(c) \/ AnotaHilo(c)
    <3>1. UNCHANGED SemaforoMemtable /\ pc[c] \notin Borrando
      BY <2>6, Lugares DEF verificarSemaforoTabla, waitearSemTable, Toma,
         LeeParticion, LeeMemtable, postearSemTable, agregarTabla, obtenerMetadataTabla,
         verificarSemaforoCompactacion, verificar, verificarDesdeConsola,
         LeeParticionDesdeConsola, LeeMemtableDesdeConsola, dictionary_is_empty, list_create,
         crearSemaforo, levantarHiloCompactacion,
         AnotaHilo, memoria, En
    <3> QED
      BY <1>3, <2>6, <3>1, Pasos
  <2> QED
    BY <1>5, <2>1, <2>2, <2>3, <2>4, <2>5, <2>6 DEF Atiende
<1>6. ASSUME NEW g \in Numeros, funcionCompactar(g) PROVE MemtableDeAlguien'
  <2>1. UNCHANGED <<memoria, clientes>>
    BY <1>6, PasosHilo DEF MuereHilo, Muere, HiloMovido
  <2> QED
    BY <1>2, <2>1
<1>7. CASE chekearDumpeo \/ UNCHANGED vars
  BY <1>2, <1>7 DEF chekearDumpeo, vars
<1>8. CASE dump
  BY <1>1, <1>8 DEF dump, Muere, memoria, clientes
<1> QED
  BY <1>4, <1>5, <1>6, <1>7, <1>8 DEF Next

LEMMA TodoConDuenoInit == Init => TodoConDueno
<1> SUFFICES ASSUME Init PROVE TodoConDueno
  OBVIOUS
<1>1. PICK n \in 0..MaxSemaforos : \E tablas \in [1..n -> Tablas] : EstadoInicial(n, tablas)
  BY SMTT(30) DEF Init, EstadoInicial
<1>2. /\ ListaSem = [i \in 1..n |-> i] /\ usados = n /\ SemaforoMemtable = 1
      /\ semaforoCompactacion = [g \in Numeros |-> IF g <= n THEN 1 ELSE 0]
      /\ semaforoTabla = [g \in Numeros |-> IF g <= n THEN 1 ELSE 0]
  BY <1>1 DEF EstadoInicial
<1>3. n \in Nat /\ Len(ListaSem) = n /\ \A i \in 1..n : i \in Numeros
  BY <1>2, Constantes
<1>4. UnaVez
  BY <1>2, <1>3 DEF UnaVez, Distintos
<1>5. CerosConDueno
  BY <1>2, <1>3 DEF CerosConDueno, Listado
<1>6. TablaDeAlguien /\ MemtableDeAlguien
  BY <1>2, <1>3 DEF TablaDeAlguien, MemtableDeAlguien
<1> QED
  BY <1>4, <1>5, <1>6 DEF TodoConDueno

\* What list_find gave is an element of the list.
LEMMA HalladoListado ==
  ASSUME Tipos, NEW t, list_find(t) # NULL
  PROVE  list_find(t) \in Numeros /\ Listado(list_find(t))
<1>1. ListaSem \in Seq(1..usados)
  BY Partes DEF Tipos, TipoLista
<1>2. ~Ausente(ListaSem, tablaDe, t)
  BY HallaNinguno, HallaEsListFind
<1>3. PICK i \in 1..Len(ListaSem) : EsPrimera(ListaSem, tablaDe, t, i)
  BY <1>1, <1>2, HallaDonde
<1>4. list_find(t) = ListaSem[i]
  BY <1>1, <1>3, HallaPrimero, HallaEsListFind
<1> QED
  BY <1>3, <1>4, HallaTipo DEF Listado

LEMMA NadieEnVano ==
  ASSUME Tipos, Exclusiva, TodoConDueno
  PROVE  NadieEsperaEnVano
<1> SUFFICES ASSUME Limpio
             PROVE  /\ \A c \in Clientes : pc[c] \in {"select_espera", "drop_espera"} =>
                         semaforoCompactacion[puntero[c]] > 0 \/ Ocupan(puntero[c])
                    /\ \A g \in Numeros : hilo[g] = "espera" =>
                         semaforoCompactacion[punteroHilo[g]] > 0 \/ Ocupan(punteroHilo[g])
                    /\ \A c \in Clientes :
                         pc[c] \in {"select_tabla", "consola_tabla"} /\ semaforoTabla[puntero[c]] = 0 =>
                         \E g \in Numeros : hilo[g] = "escribe_bin" /\ punteroHilo[g] = puntero[c]
                    /\ \A g \in Numeros : hilo[g] = "borra_bin" => semaforoTabla[punteroHilo[g]] > 0
                    /\ SemaforoMemtable = 0 => \E c \in Clientes : pc[c] \in Bajas \ {"drop_memtable"}
  BY DEF NadieEsperaEnVano, Limpio
<1>1. Firmes /\ Tomados
  BY DEF Exclusiva
<1>2. ASSUME NEW t, list_find(t) # NULL
      PROVE  semaforoCompactacion[list_find(t)] > 0 \/ Ocupan(list_find(t))
  BY <1>2, HalladoListado DEF TodoConDueno, CerosConDueno
<1>3. ASSUME NEW c \in Clientes, pc[c] \in {"select_espera", "drop_espera"}
      PROVE  semaforoCompactacion[puntero[c]] > 0 \/ Ocupan(puntero[c])
  <2>1. pc[c] \in Esperando /\ pc[c] \in ConPuntero
    BY <1>3 DEF Esperando, ConPuntero
  <2>2. puntero[c] = list_find(tabla[c]) /\ puntero[c] # NULL
    BY <1>1, <2>1 DEF Firmes, Tipos, Direcciones
  <2> QED
    BY <1>2, <2>2
<1>4. ASSUME NEW g \in Numeros, hilo[g] = "espera"
      PROVE  semaforoCompactacion[punteroHilo[g]] > 0 \/ Ocupan(punteroHilo[g])
  <2>1. punteroHilo[g] # NULL /\ punteroHilo[g] = list_find(tablaDe[g])
    BY <1>1, <1>4, DireccionDe DEF Firmes
  <2> QED
    BY <1>2, <2>1
<1>5. ASSUME NEW c \in Clientes, pc[c] \in {"select_tabla", "consola_tabla"},
             semaforoTabla[puntero[c]] = 0
      PROVE  \E g \in Numeros : hilo[g] = "escribe_bin" /\ punteroHilo[g] = puntero[c]
  <2>1. puntero[c] \in 1..usados
    BY <1>1, <1>5, DireccionDe DEF Esperando
  <2> QED
    BY <1>5, <2>1 DEF TodoConDueno, TablaDeAlguien
<1>6. ASSUME NEW g \in Numeros, hilo[g] = "borra_bin"
      PROVE  semaforoTabla[punteroHilo[g]] > 0
  <2>1. hilo[g] \in Trabajando /\ punteroHilo[g] \in 1..usados
    BY <1>1, <1>6, Lugares, DireccionDe
  <2>2. semaforoTabla[punteroHilo[g]] \in 0..1
    BY <1>1, <2>1, DireccionDe, Partes, Constantes DEF Tipos, TipoSemaforos
  <2>3. ASSUME semaforoTabla[punteroHilo[g]] = 0 PROVE FALSE
    <3>1. PICK h \in Numeros : hilo[h] = "escribe_bin" /\ punteroHilo[h] = punteroHilo[g]
      BY <2>1, <2>3 DEF TodoConDueno, TablaDeAlguien
    <3>2. h = g
      BY <1>1, <2>1, <3>1, Lugares DEF Tomados
    <3> QED
      BY <1>6, <3>1, <3>2
  <2> QED
    BY <2>2, <2>3
<1>7. SemaforoMemtable = 0 => \E c \in Clientes : pc[c] \in Bajas \ {"drop_memtable"}
  BY DEF TodoConDueno, MemtableDeAlguien, Borrando
<1> QED
  BY <1>3, <1>4, <1>5, <1>6, <1>7

\* However tables are created, used, dropped and compacted, whoever waits for a semaphore
\* waits for somebody who has it, and whoever has one waits at most for SemaforoMemtable,
\* which is a DROP's that waits for nothing: no circle, and no semaphore nobody will post;
\* until the counts are those of other semaphores or the list was broken.
THEOREM NadieSeTraba == Spec => []NadieEsperaEnVano
<1>1. Tipos /\ Nacientes /\ Exclusiva /\ TodoConDueno /\ [Next]_vars => TodoConDueno'
  BY CerosNext, UnaVezNext, TablaNext, MemtableNext DEF TodoConDueno
<1>2. Spec => [](Tipos /\ Nacientes /\ Exclusiva /\ TodoConDueno)
  BY <1>1, TiposInit, TiposNext, NacientesInit, NacientesNext, ExclusivaInit, ExclusivaNext,
     TodoConDuenoInit, PTL DEF Spec
<1> QED
  BY <1>2, NadieEnVano, PTL

=============================================================================
