----------------------------- MODULE CicloTabla -----------------------------
(***************************************************************************)
(* The life of the tables of LissandraFileSystem: CREATE, DROP, and what   *)
(* they share with SELECT, INSERT, DESCRIBE, the dump and the compaction   *)
(* threads.  The server has a thread per connection, the console, the dump *)
(* thread and one compaction thread per CREATE.                            *)
(*                                                                         *)
(* A table is a directory.  Its semaphores are an element of ListaSem that *)
(* every operation looks up by name, so an element outlives its table      *)
(* until the compaction thread, which sleeps, notices that the directory   *)
(* is gone; and a CREATE in the meantime appends another of the same name. *)
(* What the files contain is in LFSTabla; here a file exists or not, and   *)
(* opening one that does not ends the process.                             *)
(*                                                                         *)
(* ListaSem and TablasCompactacion have no lock: a change of them is a     *)
(* search and then a link, and two at once, or a lookup during a removal,  *)
(* leave anything.  The console's SELECT takes no semaphore either.        *)
(*                                                                         *)
(* "riesgo" remembers the sequences of operations the code has no answer   *)
(* for; up to the first of them the properties below hold.                 *)
(***************************************************************************)
EXTENDS Integers, Sequences, FiniteSets, Functions

CONSTANTS
  Tablas,            \* names of tables
  Clientes,          \* connection threads and the console, whichever of them asks
  MaxSemaforos,      \* bound: elements ListaSem is ever given
  MaxPedidos,        \* bound: requests of all the clients
  MaxCuenta,         \* bound: value of a semaphore
  Nadie              \* no table

ASSUME ConstantesCiclo ==
  /\ IsFiniteSet(Tablas) /\ IsFiniteSet(Clientes)
  /\ MaxSemaforos \in Nat /\ MaxPedidos \in Nat /\ MaxCuenta \in Nat \ {0}
  /\ Nadie \notin Tablas

VARIABLES
  carpetas,              \* the directories under Tables/
  archivos,              \* kinds of files each of them holds
  memTable,              \* the tables with records in memory; {} is NULL
  SemaforoMemtable,
  ListaSem,              \* the list of semaforoTabla, by number
  TablasCompactacion,    \* keys of the dictionary of compaction threads
  tablaDe,               \* nombreTabla of each semaforoTabla and of its thread
  semaforoCompactacion,
  semaforoTabla,
  usados,                \* semaphores created so far
  pedidos,               \* requests so far
  pc, tabla, puntero,    \* each client: where, table, Tablasemaforo
  hilo, punteroHilo,     \* each compaction thread: where, Tablasemaforo
  volcador,              \* chekearDumpeo
  viva,                  \* FALSE after a null pointer
  riesgo                 \* history

disco == <<carpetas, archivos>>
memoria == <<memTable, SemaforoMemtable>>
lista == <<ListaSem, TablasCompactacion, tablaDe, usados>>
semaforos == <<semaforoCompactacion, semaforoTabla>>
clientes == <<pc, tabla, puntero>>
hilos == <<hilo, punteroHilo>>
vars == <<disco, memoria, lista, semaforos, clientes, hilos, volcador, viva, pedidos, riesgo>>

Numeros == 1..MaxSemaforos      \* a semaforoTabla, and the thread created with it
NULL == 0

-----------------------------------------------------------------------------
(* What overlaps.                                                          *)

Altas == {"create_carpeta", "create_metadata", "create_particion", "create_prueba",
          "create_lista", "create_semaforo"}
Bajas == {"drop_memtable", "drop_particion", "drop_temporales", "drop_metadata",
          "drop_carpeta"}
DeConsola == {"consola_verifica", "consola_tabla", "consola_lee", "consola_memtable"}
Usos == {"select_verifica", "select_tabla", "select_busca", "select_espera", "select_lee",
         "select_memtable", "select_postea", "insert", "describe", "drop_verifica",
         "drop_espera", "create_hilo"} \cup DeConsola
Compactando == {"arranca", "busca", "espera", "renombra", "une", "borra_bin",
                "escribe_bin", "suelta"}

\* Clients in one of the places of S on table t.
EnTabla(S, t) == {c \in Clientes : pc[c] \in S /\ tabla[c] = t}

\* A CREATE or a DROP of a table beside another operation on it.
Solapan ==
  \E t \in Tablas, c \in Clientes :
    /\ c \in EnTabla(Altas \cup Bajas, t)
    /\ \/ EnTabla(Altas \cup Bajas \cup Usos, t) \ {c} # {}
       \/ \E g \in Numeros : tablaDe[g] = t /\ hilo[g] \in Compactando

\* Two threads between the test and the link of a change of ListaSem or of the
\* dictionary, or a thread that looks a name up while another removes an element.
CambiaLista == {c \in Clientes : pc[c] \in {"create_lista", "create_semaforo", "create_anota"}}
                 \X {"cliente"}
               \cup {g \in Numeros : hilo[g] \in {"saca", "olvida"}} \X {"hilo"}
BuscaSemaforo == {"select_verifica", "select_busca", "select_postea", "select_inexistente",
                  "drop_verifica", "consola_verifica"}
SeCruzan ==
  \/ \E x, y \in CambiaLista' : x # y
  \/ /\ \E g \in Numeros : hilo[g] = "saca"
     /\ \/ \E c \in Clientes : pc[c] \in BuscaSemaforo /\ pc'[c] # pc[c]
        \/ \E g \in Numeros : hilo[g] = "busca" /\ hilo'[g] # "busca"

\* The console reads a table that a compaction works on, or the memtable while it changes.
Espia ==
  \/ \E c \in Clientes, g \in Numeros :
       /\ pc'[c] \in {"consola_lee", "consola_memtable"} /\ tablaDe'[g] = tabla'[c]
       /\ hilo'[g] \in {"renombra", "une", "borra_bin", "escribe_bin"}
  \/ /\ \E c \in Clientes : pc[c] = "consola_memtable"
     /\ memTable' # memTable \/ \E c \in Clientes : pc[c] = "insert" /\ pc'[c] # "insert"

\* Last conjunct of every action: the history, and no new request.
Ocurre == (IF Solapan' THEN {"solapa"} ELSE {}) \cup (IF SeCruzan THEN {"enlaces"} ELSE {})
            \cup (IF Espia THEN {"consola"} ELSE {})
Recuerda(sucesos) == riesgo' = riesgo \cup sucesos \cup Ocurre
Anota(sucesos) == Recuerda(sucesos) /\ UNCHANGED pedidos

-----------------------------------------------------------------------------
(* Helpers of the code.                                                    *)

existeTabla(t) == t \in carpetas

\* Positions of ListaSem that buscarSemaforo accepts, the first of them, and what
\* list_find answers with it.
Posiciones(t) == {i \in 1..Len(ListaSem) : tablaDe[ListaSem[i]] = t}
Primera(t) == CHOOSE i \in Posiciones(t) : \A j \in Posiciones(t) : i <= j
list_find(t) == IF Posiciones(t) = {} THEN NULL ELSE ListaSem[Primera(t)]

\* list_remove of a position.
Sin(p) == [i \in 1..(Len(ListaSem) - 1) |-> IF i < p THEN ListaSem[i] ELSE ListaSem[i + 1]]
SinPrimera(t) == Sin(Primera(t))

En(c, lugar) == viva /\ pc[c] = lugar
EnHilo(g, lugar) == viva /\ hilo[g] = lugar
Va(c, lugar) == pc' = [pc EXCEPT ![c] = lugar]
VaHilo(g, lugar) == hilo' = [hilo EXCEPT ![g] = lugar]

\* The client goes on, or its operation ends, and nothing else of it changes.
Sigue(c, lugar) == Va(c, lugar) /\ UNCHANGED <<tabla, puntero>>
Termina(c) ==
  /\ Va(c, "libre")
  /\ tabla' = [tabla EXCEPT ![c] = Nadie]
  /\ puntero' = [puntero EXCEPT ![c] = NULL]

\* A null pointer: the process ends.
Muere ==
  /\ viva' = FALSE
  /\ UNCHANGED <<disco, memoria, lista, semaforos, clientes, hilos, volcador>>

\* existeTabla, the first line of every operation.
Empieza(c, t, lugar) ==
  /\ En(c, "libre")
  /\ pedidos < MaxPedidos
  /\ pedidos' = pedidos + 1
  /\ pc' = [pc EXCEPT ![c] = lugar]
  /\ tabla' = [tabla EXCEPT ![c] = t]
  /\ UNCHANGED <<puntero, disco, memoria, lista, semaforos, hilos, volcador, viva>>
  /\ Recuerda({})

\* verificarSemaforoTabla and verificarSemaforoCompactacion: a semaphore at zero
\* is waited for and given back.
verificar(c, semaforo, desde, espera, hasta) ==
  /\ \/ /\ En(c, desde)
        /\ list_find(tabla[c]) # NULL
        /\ IF semaforo[list_find(tabla[c])] > 0
             THEN Sigue(c, hasta)
             ELSE /\ Va(c, espera)
                  /\ puntero' = [puntero EXCEPT ![c] = list_find(tabla[c])]
                  /\ UNCHANGED tabla
     \/ /\ En(c, espera)
        /\ semaforo[puntero[c]] > 0
        /\ Va(c, hasta)
        /\ puntero' = [puntero EXCEPT ![c] = NULL]
        /\ UNCHANGED tabla
  /\ UNCHANGED <<disco, memoria, lista, semaforos, hilos, volcador, viva>>
  /\ Anota({})

\* list_find gave NULL to a function that takes the address of its field; or the list
\* was broken, and with it any operation that is under way.
SinSemaforo(c) ==
  /\ viva
  /\ \/ pc[c] \in BuscaSemaforo /\ list_find(tabla[c]) = NULL
     \/ pc[c] # "libre" /\ "enlaces" \in riesgo
  /\ Muere
  /\ Anota(IF pc[c] = "select_inexistente" THEN {"inexistente"} ELSE {})

\* config_create of a file that is not there gave NULL, or what the console was reading
\* was freed.
SinArchivo(c) ==
  /\ \/ /\ \E lugar \in {"insert", "describe"} : En(c, lugar)
        /\ "metadata" \notin archivos[tabla[c]]
        /\ pc[c] = "insert" => SemaforoMemtable = 1
     \/ /\ \E lugar \in {"select_lee", "consola_lee", "drop_particion"} : En(c, lugar)
        /\ ~({"metadata", "bin"} \subseteq archivos[tabla[c]])
     \/ En(c, "consola_memtable") /\ "consola" \in riesgo
     \/ /\ \E lugar \in {"create_metadata", "create_particion"} : En(c, lugar)
        /\ ~existeTabla(tabla[c])
  /\ Muere
  /\ Anota({})

-----------------------------------------------------------------------------
(* SELECT of a memory.  It posts by name: a second lookup, and also when    *)
(* there was no table and it had taken nothing.                             *)

SELECT(c, t) == Empieza(c, t, IF existeTabla(t) THEN "select_verifica" ELSE "select_inexistente")

verificarSemaforoTabla(c) ==
  verificar(c, semaforoTabla, "select_verifica", "select_tabla", "select_busca")

\* verificarSemaforoMemTable, and the lookup of waitearSemTable.
waitearSemTable(c) ==
  /\ En(c, "select_busca")
  /\ SemaforoMemtable = 1
  /\ list_find(tabla[c]) # NULL
  /\ Va(c, "select_espera")
  /\ puntero' = [puntero EXCEPT ![c] = list_find(tabla[c])]
  /\ UNCHANGED <<tabla, disco, memoria, lista, semaforos, hilos, volcador, viva>>
  /\ Anota({})

\* Mutant: the semaphore is only looked at.
SoloMira(c) ==
  /\ En(c, "select_espera")
  /\ semaforoCompactacion[puntero[c]] > 0
  /\ Sigue(c, "select_lee")
  /\ UNCHANGED <<semaforos, disco, memoria, lista, hilos, volcador, viva>>
  /\ Anota({})
Toma(c) ==
  /\ En(c, "select_espera")
  /\ semaforoCompactacion[puntero[c]] > 0
  /\ semaforoCompactacion' = [semaforoCompactacion EXCEPT ![puntero[c]] = @ - 1]
  /\ Sigue(c, "select_lee")
  /\ UNCHANGED <<semaforoTabla, disco, memoria, lista, hilos, volcador, viva>>
  /\ Anota({})

\* obtenerMetadataTabla and buscarEnParticion.
LeeParticion(c) ==
  /\ En(c, "select_lee")
  /\ {"metadata", "bin"} \subseteq archivos[tabla[c]]
  /\ Sigue(c, "select_memtable")
  /\ UNCHANGED <<disco, memoria, lista, semaforos, hilos, volcador, viva>>
  /\ Anota({})

\* waitearMemTable; of the temporals it reads those there are.
LeeMemtable(c) ==
  /\ En(c, "select_memtable")
  /\ SemaforoMemtable = 1
  /\ Sigue(c, "select_postea")
  /\ UNCHANGED <<disco, memoria, lista, semaforos, hilos, volcador, viva>>
  /\ Anota({})

postearSemTable(c) ==
  /\ En(c, "select_postea") \/ En(c, "select_inexistente")
  /\ LET s == list_find(tabla[c])
     IN  /\ s # NULL
         /\ pc[c] = "select_inexistente" => semaforoCompactacion[s] < MaxCuenta
         /\ semaforoCompactacion' = [semaforoCompactacion EXCEPT ![s] = @ + 1]
  /\ Termina(c)
  /\ UNCHANGED <<semaforoTabla, disco, memoria, lista, hilos, volcador, viva>>
  /\ Anota(IF pc[c] = "select_inexistente" THEN {"inexistente"} ELSE {})

-----------------------------------------------------------------------------
(* SELECT of the console, of which there is one: it looks at semaforoTabla  *)
(* and at SemaforoMemtable and reads without them.                          *)

APIselect(c, t) ==
  /\ existeTabla(t)
  /\ \A d \in Clientes : pc[d] \notin DeConsola
  /\ Empieza(c, t, "consola_verifica")

verificarDesdeConsola(c) ==
  verificar(c, semaforoTabla, "consola_verifica", "consola_tabla", "consola_lee")

LeeParticionDesdeConsola(c) ==
  /\ En(c, "consola_lee")
  /\ SemaforoMemtable = 1
  /\ {"metadata", "bin"} \subseteq archivos[tabla[c]]
  /\ Sigue(c, "consola_memtable")
  /\ UNCHANGED <<disco, memoria, lista, semaforos, hilos, volcador, viva>>
  /\ Anota({})

\* buscarMemTable, and the temporals there are.
LeeMemtableDesdeConsola(c) ==
  /\ En(c, "consola_memtable")
  /\ Termina(c)
  /\ UNCHANGED <<disco, memoria, lista, semaforos, hilos, volcador, viva>>
  /\ Anota({})

-----------------------------------------------------------------------------
(* INSERT and DESCRIBE.                                                     *)

INSERT(c, t) == existeTabla(t) /\ Empieza(c, t, "insert")

\* Mutant: without the semaphore.
agregarSinSemaforo(c) ==
  /\ En(c, "insert")
  /\ "metadata" \in archivos[tabla[c]]
  /\ memTable' = memTable \cup {tabla[c]}
  /\ Termina(c)
  /\ UNCHANGED <<SemaforoMemtable, disco, lista, semaforos, hilos, volcador, viva>>
  /\ Anota({})
\* A critical section of SemaforoMemtable: metadata, agregarTabla.
agregarTabla(c) ==
  /\ En(c, "insert")
  /\ SemaforoMemtable = 1
  /\ "metadata" \in archivos[tabla[c]]
  /\ memTable' = memTable \cup {tabla[c]}
  /\ Termina(c)
  /\ UNCHANGED <<SemaforoMemtable, disco, lista, semaforos, hilos, volcador, viva>>
  /\ Anota({})

\* Of one table; of all, for each name readdir gives.
DESCRIBE(c, t) == existeTabla(t) /\ Empieza(c, t, "describe")

obtenerMetadataTabla(c) ==
  /\ En(c, "describe")
  /\ "metadata" \in archivos[tabla[c]]
  /\ Termina(c)
  /\ UNCHANGED <<disco, memoria, lista, semaforos, hilos, volcador, viva>>
  /\ Anota({})

-----------------------------------------------------------------------------
(* DROP: it looks at semaforoCompactacion and then deletes without it, all  *)
(* under SemaforoMemtable.  It deletes the temporals, not those that a      *)
(* compaction has renamed, and the directory if it is empty.                *)

\* Mutant: the table is not looked for.
DROPSinMirar(c, t) == Empieza(c, t, "drop_verifica")
DROP(c, t) == existeTabla(t) /\ Empieza(c, t, "drop_verifica")

verificarSemaforoCompactacion(c) ==
  verificar(c, semaforoCompactacion, "drop_verifica", "drop_espera", "drop_memtable")

RemoverDeLaMemtable(c) ==
  /\ En(c, "drop_memtable")
  /\ SemaforoMemtable = 1
  /\ SemaforoMemtable' = 0
  /\ memTable' = memTable \ {tabla[c]}
  /\ Sigue(c, "drop_particion")
  /\ UNCHANGED <<disco, lista, semaforos, hilos, volcador, viva>>
  /\ Anota(IF volcador = "vuelca" /\ memTable' = {} THEN {"memtable"} ELSE {})

\* One of the removals: F are the files that go.
Borra(c, lugar, F, hasta) ==
  /\ En(c, lugar)
  /\ archivos' = [archivos EXCEPT ![tabla[c]] = @ \ F]
  /\ Sigue(c, hasta)
  /\ UNCHANGED <<carpetas, memoria, lista, semaforos, hilos, volcador, viva>>
  /\ Anota({})

RemoverParticionesDeTablaYSusBloques(c) ==
  /\ En(c, "drop_particion")
  /\ {"metadata", "bin"} \subseteq archivos[tabla[c]]
  /\ Borra(c, "drop_particion", {"bin"}, "drop_temporales")
\* Mutant: the extension of the other temporals.
RemoverTmpc(c) == Borra(c, "drop_temporales", {"tmpc"}, "drop_metadata")
RemoverTemporalesDeTablaYSusBloques(c) == Borra(c, "drop_temporales", {"tmp"}, "drop_metadata")
RemoverMetadataDeTabla(c) == Borra(c, "drop_metadata", {"metadata"}, "drop_carpeta")

RemoverCarpetaVaciaDeTabla(c) ==
  /\ En(c, "drop_carpeta")
  /\ carpetas' = IF archivos[tabla[c]] = {} THEN carpetas \ {tabla[c]} ELSE carpetas
  /\ SemaforoMemtable' = 1
  /\ Termina(c)
  /\ UNCHANGED <<archivos, memTable, lista, semaforos, hilos, volcador, viva>>
  /\ Anota(IF archivos[tabla[c]] # {} THEN {"resto"} ELSE {})

-----------------------------------------------------------------------------
(* CREATE: directory, metadata, partitions, and then the semaphores, the    *)
(* thread and its entry in the dictionary.                                  *)

CREATE(c, t) ==
  /\ ~existeTabla(t)
  /\ usados + Cardinality({d \in Clientes : pc[d] \in Altas}) < MaxSemaforos
  /\ Empieza(c, t, "create_carpeta")

crearTabla(c) ==
  /\ En(c, "create_carpeta")
  /\ carpetas' = carpetas \cup {tabla[c]}
  /\ Sigue(c, "create_metadata")
  /\ UNCHANGED <<archivos, memoria, lista, semaforos, hilos, volcador, viva>>
  /\ Anota({})

\* fopen creates the file if the directory is there.
Crea(c, lugar, f, hasta) ==
  /\ En(c, lugar)
  /\ existeTabla(tabla[c])
  /\ archivos' = [archivos EXCEPT ![tabla[c]] = @ \cup {f}]
  /\ Sigue(c, hasta)
  /\ UNCHANGED <<carpetas, memoria, lista, semaforos, hilos, volcador, viva>>
  /\ Anota({})

crearMetadataConfig(c) == Crea(c, "create_metadata", "metadata", "create_particion")
crearParticion(c) == Crea(c, "create_particion", "bin", "create_prueba")

\* crearHiloCompactacion.  Without keys in the dictionary it starts both collections
\* again, whatever ListaSem holds.
dictionary_is_empty(c) ==
  /\ En(c, "create_prueba")
  /\ Sigue(c, IF TablasCompactacion = {} THEN "create_lista" ELSE "create_semaforo")
  /\ UNCHANGED <<disco, memoria, lista, semaforos, hilos, volcador, viva>>
  /\ Anota({})

list_create(c) ==
  /\ En(c, "create_lista")
  /\ ListaSem' = <<>> /\ TablasCompactacion' = {}
  /\ Sigue(c, "create_semaforo")
  /\ UNCHANGED <<tablaDe, usados, disco, memoria, semaforos, hilos, volcador, viva>>
  /\ Anota(IF ListaSem # <<>> THEN {"lista"} ELSE {})

\* Mutant: a semaphore of that name that is still in the list is used again.
ReusaSemaforo(c) ==
  /\ En(c, "create_semaforo")
  /\ usados' = usados + 1
  /\ tablaDe' = [tablaDe EXCEPT ![usados'] = tabla[c]]
  /\ ListaSem' = IF list_find(tabla[c]) = NULL THEN Append(ListaSem, usados') ELSE ListaSem
  /\ semaforoCompactacion' = [semaforoCompactacion EXCEPT ![usados'] = 1]
  /\ semaforoTabla' = [semaforoTabla EXCEPT ![usados'] = 1]
  /\ puntero' = [puntero EXCEPT ![c] = usados']
  /\ Va(c, "create_hilo")
  /\ UNCHANGED <<tabla, TablasCompactacion, disco, memoria, hilos, volcador, viva>>
  /\ Anota({})
\* crearSemaforo and list_add, whose element another change may lose.
crearSemaforo(c) ==
  /\ En(c, "create_semaforo")
  /\ usados' = usados + 1
  /\ tablaDe' = [tablaDe EXCEPT ![usados'] = tabla[c]]
  /\ \/ ListaSem' = Append(ListaSem, usados')
     \/ "enlaces" \in riesgo /\ ListaSem' = ListaSem
  /\ semaforoCompactacion' = [semaforoCompactacion EXCEPT ![usados'] = 1]
  /\ semaforoTabla' = [semaforoTabla EXCEPT ![usados'] = 1]
  /\ puntero' = [puntero EXCEPT ![c] = usados']
  /\ Va(c, "create_hilo")
  /\ UNCHANGED <<tabla, TablasCompactacion, disco, memoria, hilos, volcador, viva>>
  /\ Anota({})

levantarHiloCompactacion(c) ==
  /\ En(c, "create_hilo")
  /\ VaHilo(puntero[c], "arranca")
  /\ Sigue(c, "create_anota")
  /\ UNCHANGED <<punteroHilo, disco, memoria, lista, semaforos, volcador, viva>>
  /\ Anota({})

\* dictionary_put.
AnotaHilo(c) ==
  /\ En(c, "create_anota")
  /\ TablasCompactacion' = TablasCompactacion \cup {tabla[c]}
  /\ Termina(c)
  /\ UNCHANGED <<ListaSem, tablaDe, usados, disco, memoria, semaforos, hilos, volcador, viva>>
  /\ Anota({})

-----------------------------------------------------------------------------
(* funcionCompactar and compactar, of the thread that was created with      *)
(* semaphore g.  It too finds its semaphores by name.                       *)

\* config_create of the metadata, the partition or the directory gave NULL, or
\* list_find did and there is a temporal; or the list was broken.
MuereHilo(g) ==
  /\ \/ EnHilo(g, "arranca") /\ "metadata" \notin archivos[tablaDe[g]]
     \/ /\ EnHilo(g, "busca")
        /\ \/ "metadata" \notin archivos[tablaDe[g]]
           \/ "tmp" \in archivos[tablaDe[g]] /\ list_find(tablaDe[g]) = NULL
     \/ EnHilo(g, "une") /\ "bin" \notin archivos[tablaDe[g]]
     \/ EnHilo(g, "borra_bin") /\ ~({"metadata", "bin"} \subseteq archivos[tablaDe[g]])
     \/ EnHilo(g, "escribe_bin") /\ ~existeTabla(tablaDe[g])
     \/ viva /\ hilo[g] \notin {"no", "fin"} /\ "enlaces" \in riesgo
  /\ Muere
  /\ Anota({})

\* A step that only moves the thread.
Avanza(g, desde, hasta) ==
  /\ EnHilo(g, desde)
  /\ VaHilo(g, hasta)
  /\ UNCHANGED <<punteroHilo, disco, memoria, lista, semaforos, clientes, volcador, viva>>
  /\ Anota({})

Arranca(g) ==
  /\ EnHilo(g, "arranca")
  /\ "metadata" \in archivos[tablaDe[g]]
  /\ Avanza(g, "arranca", "duerme")

\* Mutant: the thread leaves its semaphore in the list.
DespiertaSinSacar(g) == Avanza(g, "duerme", IF existeTabla(tablaDe[g]) THEN "busca" ELSE "olvida")
\* After each sleep: is the directory there?
Despierta(g) == Avanza(g, "duerme", IF existeTabla(tablaDe[g]) THEN "busca" ELSE "indice")

\* compactar, up to the first temporal.
Busca(g) ==
  /\ EnHilo(g, "busca")
  /\ "metadata" \in archivos[tablaDe[g]]
  /\ IF "tmp" \in archivos[tablaDe[g]]
       THEN /\ list_find(tablaDe[g]) # NULL
            /\ VaHilo(g, "espera")
            /\ punteroHilo' = [punteroHilo EXCEPT ![g] = list_find(tablaDe[g])]
       ELSE VaHilo(g, "duerme") /\ UNCHANGED punteroHilo
  /\ UNCHANGED <<disco, memoria, lista, semaforos, clientes, volcador, viva>>
  /\ Anota({})

TomaCompactacion(g) ==
  /\ EnHilo(g, "espera")
  /\ semaforoCompactacion[punteroHilo[g]] > 0
  /\ semaforoCompactacion' = [semaforoCompactacion EXCEPT ![punteroHilo[g]] = @ - 1]
  /\ VaHilo(g, "renombra")
  /\ UNCHANGED <<punteroHilo, semaforoTabla, disco, memoria, lista, clientes, volcador, viva>>
  /\ Anota({})

cambiarNombreTmpATmpc(g) ==
  /\ EnHilo(g, "renombra")
  /\ archivos' = [archivos EXCEPT ![tablaDe[g]] =
                    IF "tmp" \in @ THEN (@ \ {"tmp"}) \cup {"tmpc"} ELSE @]
  /\ VaHilo(g, "une")
  /\ UNCHANGED <<carpetas, punteroHilo, memoria, lista, semaforos, clientes, volcador, viva>>
  /\ Anota({})

\* LiberarTmpc, LiberarBin and the merge.  Without records there is nothing to write.
Une(g) ==
  /\ EnHilo(g, "une")
  /\ "bin" \in archivos[tablaDe[g]]
  /\ \/ Avanza(g, "une", "borra_bin")
     \/ "tmpc" \notin archivos[tablaDe[g]] /\ Avanza(g, "une", "suelta")

\* sem_wait of semaforoTabla, RemoverParticionDeTablaEspecificaYSusBloques.
BorraBin(g) ==
  /\ EnHilo(g, "borra_bin")
  /\ semaforoTabla[punteroHilo[g]] > 0
  /\ {"metadata", "bin"} \subseteq archivos[tablaDe[g]]
  /\ semaforoTabla' = [semaforoTabla EXCEPT ![punteroHilo[g]] = @ - 1]
  /\ archivos' = [archivos EXCEPT ![tablaDe[g]] = @ \ {"bin"}]
  /\ VaHilo(g, "escribe_bin")
  /\ UNCHANGED <<carpetas, punteroHilo, semaforoCompactacion, memoria, lista, clientes,
                 volcador, viva>>
  /\ Anota({})

\* crearParticionNueva, RemoverTemporalesCompactadosDeTablaYSusBloques.
crearParticionNueva(g) ==
  /\ EnHilo(g, "escribe_bin")
  /\ existeTabla(tablaDe[g])
  /\ archivos' = [archivos EXCEPT ![tablaDe[g]] = (@ \cup {"bin"}) \ {"tmpc"}]
  /\ semaforoTabla' = [semaforoTabla EXCEPT ![punteroHilo[g]] = @ + 1]
  /\ VaHilo(g, "suelta")
  /\ UNCHANGED <<carpetas, punteroHilo, semaforoCompactacion, memoria, lista, clientes,
                 volcador, viva>>
  /\ Anota({})

\* Mutant: the thread goes to sleep with the semaphore taken.
DuermeSinSoltar(g) ==
  /\ EnHilo(g, "suelta")
  /\ VaHilo(g, "duerme")
  /\ punteroHilo' = [punteroHilo EXCEPT ![g] = NULL]
  /\ UNCHANGED <<semaforos, disco, memoria, lista, clientes, volcador, viva>>
  /\ Anota({})
\* Both semaphores have been given back; the thread sleeps again.
SueltaCompactacion(g) ==
  /\ EnHilo(g, "suelta")
  /\ semaforoCompactacion' = [semaforoCompactacion EXCEPT ![punteroHilo[g]] = @ + 1]
  /\ VaHilo(g, "duerme")
  /\ punteroHilo' = [punteroHilo EXCEPT ![g] = NULL]
  /\ UNCHANGED <<semaforoTabla, disco, memoria, lista, clientes, volcador, viva>>
  /\ Anota({})

\* Threads and clients with the address of semaphore s.
Apuntan(s) ==
  (\E c \in Clientes : puntero[c] = s /\ pc[c] # "create_hilo" /\ pc[c] # "create_anota")
  \/ \E g \in Numeros : punteroHilo[g] = s

\* list_remove_and_destroy_by_condition looks for the first of that name and then removes
\* what is at that position, and its memory.  Whoever still has the address finds any
\* count there.
Indice(g) == Avanza(g, "indice", "saca")
Destruye(p) ==
  /\ ListaSem' = Sin(p)
  /\ \E v \in 0..1 :
       /\ Apuntan(ListaSem[p]) \/ v = 0
       /\ semaforoCompactacion' = [semaforoCompactacion EXCEPT ![ListaSem[p]] = v]
Saca(g) ==
  LET s == list_find(tablaDe[g])
  IN  /\ EnHilo(g, "saca")
      /\ \/ s = NULL /\ UNCHANGED <<ListaSem, semaforoCompactacion>>
         \/ s # NULL /\ Destruye(Primera(tablaDe[g]))
         \/ "enlaces" \in riesgo /\ \E p \in 1..Len(ListaSem) : Destruye(p)
      /\ VaHilo(g, "olvida")
      /\ UNCHANGED <<TablasCompactacion, tablaDe, usados, semaforoTabla, punteroHilo, disco,
                     memoria, clientes, volcador, viva>>
      /\ Anota(IF s # NULL /\ Apuntan(s) THEN {"liberado"} ELSE {})

\* dictionary_remove, and the thread ends.
Olvida(g) ==
  /\ EnHilo(g, "olvida")
  /\ TablasCompactacion' = TablasCompactacion \ {tablaDe[g]}
  /\ VaHilo(g, "fin")
  /\ UNCHANGED <<ListaSem, tablaDe, usados, punteroHilo, disco, memoria, semaforos, clientes,
                 volcador, viva>>
  /\ Anota({})

-----------------------------------------------------------------------------
(* chekearDumpeo looks at memTable without its semaphore; dump takes it.    *)

chekearDumpeo ==
  /\ viva
  /\ volcador = "duerme"
  /\ memTable # {}
  /\ volcador' = "vuelca"
  /\ UNCHANGED <<disco, memoria, lista, semaforos, clientes, hilos, viva>>
  /\ Anota({})

\* A temporal of each table.  The iterator does not look for a NULL dictionary.
dump ==
  /\ viva
  /\ volcador = "vuelca"
  /\ SemaforoMemtable = 1
  /\ IF memTable = {} \/ ~(memTable \subseteq carpetas)
       THEN Muere
       ELSE /\ archivos' = [t \in Tablas |-> IF t \in memTable THEN archivos[t] \cup {"tmp"}
                                             ELSE archivos[t]]
            /\ memTable' = {}
            /\ volcador' = "duerme"
            /\ UNCHANGED <<carpetas, SemaforoMemtable, lista, semaforos, clientes, hilos, viva>>
  /\ Anota({})

-----------------------------------------------------------------------------
(* The specification.                                                       *)

\* After levantarHilosTablasExistentesCompactacion, on a file system that may
\* have been left in the middle of a compaction.
Init ==
  \E n \in 0..MaxSemaforos : \E tablas \in [1..n -> Tablas] :
    /\ \A i, j \in 1..n : tablas[i] = tablas[j] => i = j
    /\ carpetas = {tablas[i] : i \in 1..n}
    /\ archivos \in [Tablas -> SUBSET {"metadata", "bin", "tmp", "tmpc"}]
    /\ \A t \in Tablas : IF t \in carpetas THEN {"metadata", "bin"} \subseteq archivos[t]
                                           ELSE archivos[t] = {}
    /\ memTable = {} /\ SemaforoMemtable = 1
    /\ ListaSem = [i \in 1..n |-> i] /\ usados = n
    /\ TablasCompactacion = carpetas
    /\ tablaDe = [g \in Numeros |-> IF g <= n THEN tablas[g] ELSE Nadie]
    /\ semaforoCompactacion = [g \in Numeros |-> IF g <= n THEN 1 ELSE 0]
    /\ semaforoTabla = [g \in Numeros |-> IF g <= n THEN 1 ELSE 0]
    /\ pc = [c \in Clientes |-> "libre"]
    /\ tabla = [c \in Clientes |-> Nadie]
    /\ puntero = [c \in Clientes |-> NULL]
    /\ hilo = [g \in Numeros |-> IF g <= n THEN "arranca" ELSE "no"]
    /\ punteroHilo = [g \in Numeros |-> NULL]
    /\ volcador = "duerme"
    /\ viva = TRUE /\ pedidos = 0 /\ riesgo = {}

Pide(c) ==
  \E t \in Tablas :
    \/ SELECT(c, t) \/ APIselect(c, t) \/ INSERT(c, t) \/ DESCRIBE(c, t)
    \/ DROP(c, t) \/ CREATE(c, t)

Atiende(c) ==
  \/ verificarSemaforoTabla(c) \/ waitearSemTable(c) \/ Toma(c)
  \/ LeeParticion(c) \/ LeeMemtable(c) \/ postearSemTable(c)
  \/ verificarDesdeConsola(c) \/ LeeParticionDesdeConsola(c) \/ LeeMemtableDesdeConsola(c)
  \/ agregarTabla(c) \/ obtenerMetadataTabla(c)
  \/ verificarSemaforoCompactacion(c) \/ RemoverDeLaMemtable(c)
  \/ RemoverParticionesDeTablaYSusBloques(c) \/ RemoverTemporalesDeTablaYSusBloques(c)
  \/ RemoverMetadataDeTabla(c) \/ RemoverCarpetaVaciaDeTabla(c)
  \/ crearTabla(c) \/ crearMetadataConfig(c) \/ crearParticion(c)
  \/ dictionary_is_empty(c) \/ list_create(c) \/ crearSemaforo(c)
  \/ levantarHiloCompactacion(c) \/ AnotaHilo(c)
  \/ SinSemaforo(c) \/ SinArchivo(c)

funcionCompactar(g) ==
  \/ Arranca(g) \/ Despierta(g) \/ Busca(g) \/ TomaCompactacion(g)
  \/ cambiarNombreTmpATmpc(g) \/ Une(g) \/ BorraBin(g) \/ crearParticionNueva(g)
  \/ SueltaCompactacion(g) \/ Indice(g) \/ Saca(g) \/ Olvida(g) \/ MuereHilo(g)

Next ==
  \/ \E c \in Clientes : Pide(c) \/ Atiende(c)
  \/ \E g \in Numeros : funcionCompactar(g)
  \/ chekearDumpeo \/ dump

Fairness ==
  /\ \A c \in Clientes : WF_vars(Atiende(c))
  /\ \A g \in Numeros : WF_vars(funcionCompactar(g))
  /\ WF_vars(chekearDumpeo \/ dump)

Spec == Init /\ [][Next]_vars /\ Fairness

-----------------------------------------------------------------------------
(* Properties.                                                              *)

TypeOK ==
  /\ carpetas \subseteq Tablas
  /\ archivos \in [Tablas -> SUBSET {"metadata", "bin", "tmp", "tmpc"}]
  /\ memTable \subseteq Tablas /\ SemaforoMemtable \in 0..1
  /\ ListaSem \in Seq(1..usados) /\ usados \in 0..MaxSemaforos
  /\ TablasCompactacion \subseteq Tablas
  /\ tablaDe \in [Numeros -> Tablas \cup {Nadie}]
  /\ semaforoCompactacion \in [Numeros -> Nat] /\ semaforoTabla \in [Numeros -> 0..1]
  /\ pc \in [Clientes -> {"libre", "create_anota", "select_inexistente"} \cup Altas \cup Bajas \cup Usos]
  /\ tabla \in [Clientes -> Tablas \cup {Nadie}]
  /\ puntero \in [Clientes -> {NULL} \cup Numeros]
  /\ hilo \in [Numeros -> {"no", "duerme", "indice", "saca", "olvida", "fin"} \cup Compactando]
  /\ punteroHilo \in [Numeros -> {NULL} \cup Numeros]
  /\ volcador \in {"duerme", "vuelca"} /\ viva \in BOOLEAN /\ pedidos \in 0..MaxPedidos
  /\ riesgo \subseteq {"solapa", "inexistente", "liberado", "lista", "memtable", "resto",
                       "enlaces", "consola"}

\* ListaSem has an element of a table for each compaction thread of that name that is
\* to remove one, and a complete table has one to find, whatever DROPs and CREATEs of
\* its name went before and however late their threads notice; until CREATE starts the
\* list again over other tables, or two changes of the list overlap.
SemaforoPorHilo ==
  riesgo \cap {"lista", "enlaces"} = {} =>
    \A t \in Tablas :
      /\ Cardinality(Posiciones(t))
           = Cardinality({g \in 1..usados : tablaDe[g] = t /\ hilo[g] \notin {"olvida", "fin"}})
      /\ "metadata" \in archivos[t] /\ EnTabla(Altas \cup Bajas, t) = {} => list_find(t) # NULL

\* What INSERT leaves in memory is of a table with metadata: DROP takes it away
\* before it deletes anything, and the dump never meets a missing directory.
MemtableConTabla == \A t \in memTable : t \in carpetas /\ "metadata" \in archivos[t]

\* SELECTs that read and compactions that work, by table.
Lectores(t) == EnTabla({"select_lee", "select_memtable", "select_postea"}, t)
Compactadores(t) ==
  {g \in Numeros : tablaDe[g] = t /\ hilo[g] \in {"renombra", "une", "borra_bin",
                                                  "escribe_bin", "suelta"}}

\* Whatever DROP and CREATE do to the list, a table has one reader or one compaction,
\* until a SELECT posts what it did not take, a semaphore in use is destroyed, the list is
\* started again or two changes of it overlap.  The console's SELECT is not one of them.
Exclusion ==
  riesgo \cap {"inexistente", "liberado", "lista", "enlaces"} = {} =>
    \A t \in Tablas : Cardinality(Lectores(t)) + Cardinality(Compactadores(t)) <= 1

\* Whoever waits for a semaphore waits for somebody who has it, and who has it waits at
\* most for SemaforoMemtable: a compaction that has begun finds semaforoTabla free, and a
\* DROP, who is the only one to keep SemaforoMemtable, waits for nothing.  So nobody waits
\* for ever, and there is no circle; until the counts are those of other semaphores.
Ocupan(s) ==
  \/ \E c \in Clientes : pc[c] \in {"select_lee", "select_memtable", "select_postea"} /\ puntero[c] = s
  \/ \E g \in Numeros : /\ hilo[g] \in {"renombra", "une", "borra_bin", "escribe_bin", "suelta"}
                       /\ punteroHilo[g] = s
NadieEsperaEnVano ==
  riesgo \cap {"inexistente", "liberado", "lista", "enlaces"} = {} =>
    /\ \A c \in Clientes : pc[c] \in {"select_espera", "drop_espera"} =>
         semaforoCompactacion[puntero[c]] > 0 \/ Ocupan(puntero[c])
    /\ \A g \in Numeros : hilo[g] = "espera" =>
         semaforoCompactacion[punteroHilo[g]] > 0 \/ Ocupan(punteroHilo[g])
    /\ \A c \in Clientes :
         pc[c] \in {"select_tabla", "consola_tabla"} /\ semaforoTabla[puntero[c]] = 0 =>
           \E g \in Numeros : hilo[g] = "escribe_bin" /\ punteroHilo[g] = puntero[c]
    /\ \A g \in Numeros : hilo[g] = "borra_bin" => semaforoTabla[punteroHilo[g]] > 0
    /\ SemaforoMemtable = 0 => \E c \in Clientes : pc[c] \in Bajas \ {"drop_memtable"}

\* A directory without metadata, which no operation can use again, is left only if
\* a DROP overlapped or there was a .tmpc to leave.
SinCarpetaHueca ==
  \A t \in carpetas :
    "metadata" \notin archivos[t] /\ EnTabla(Altas \cup Bajas, t) = {}
      => "solapa" \in riesgo \/ "tmpc" \in archivos[t]

\* The process ends only after one of the sequences "riesgo" names.
SinMuertes == ~viva => riesgo # {}

\* After a DROP the compaction thread notices, and its semaphore goes.
BajaLibera ==
  \A t \in Tablas : t \notin carpetas ~> t \in carpetas \/ list_find(t) = NULL \/ riesgo # {}
=============================================================================
