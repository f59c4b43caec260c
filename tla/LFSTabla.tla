----------------------------- MODULE LFSTabla -----------------------------
(***************************************************************************)
(* One table of the LissandraFileSystem while it lives: the memtable, the   *)
(* temporals a dump writes (.tmp), those a compaction has renamed (.tmpc),  *)
(* the partitions (.bin), and the threads that meet there: one per INSERT   *)
(* or SELECT that arrives from a memory, the SELECTs of the console, the    *)
(* dump thread and the compaction thread of the table, with the semaphores  *)
(* they take.  The process may die at any moment and start again over the   *)
(* files it left.                                                           *)
(*                                                                          *)
(* A file is the set of records in its blocks; which blocks, and the text   *)
(* of a record, are left out.  A file is being written from the step that   *)
(* opens it to the one that ends its last block, and in between a reader    *)
(* finds some of its records, or no BLOCKS, or half a record at the end of  *)
(* a block.                                                                 *)
(*                                                                          *)
(* riesgo names the overlaps that have happened:                            *)
(*   renombre_a_medias  the compaction renamed a temporal the dump was      *)
(*                      still writing                                       *)
(*   hueco              the dump left a hole in the numbering               *)
(*   caida_compactando  the process died compacting                         *)
(*   roto               the process died writing a file                     *)
(*   lee_a_medias       somebody read a file being written, or one left so, *)
(*                      and not just its whole records                      *)
(***************************************************************************)
EXTENDS Integers, FiniteSets

CONSTANTS
  Claves,          \* keys (uint16_t)
  NumParticiones,  \* PARTITIONS of the table's metadata
  MaxTimestamp,    \* bound: records carry timestamps 1..MaxTimestamp
  MaxInserts,      \* bound: INSERTs accepted
  MaxTemporales,   \* bound: temporals are numbered 1..MaxTemporales
  Red,             \* SELECT requests from memories, one thread each
  Consola,         \* SELECT requests typed at the console
  PuedeCaer        \* TRUE: the process may be killed and restarted

ASSUME ConstantesLFSTabla ==
  /\ Claves \subseteq Nat
  /\ NumParticiones \in Nat \ {0}
  /\ MaxTimestamp \in Nat
  /\ MaxInserts \in Nat
  /\ MaxTemporales \in Nat \ {0}
  /\ Red \cap Consola = {}
  /\ PuedeCaer \in BOOLEAN

VARIABLES
  viva,                  \* FALSE once the process has died
  memTable,              \* records of the table in the memtable; {} is NULL
  tmp, tmpc,             \* the temporals, by number
  bin,                   \* the partitions
  SemaforoMemtable,      \* the three semaphores
  semaforoTabla,
  semaforoCompactacion,
  compactador,           \* where the compaction thread is
  renombrando,           \* number of the temporal it is renaming
  temporales,            \* ListaRegistrosTemporales
  cargar,                \* RegistrosACargar of each partition
  pendientes,            \* partitions still to be rewritten
  dumpeo,                \* where the dump thread is
  numero,                \* number of the temporal it is about to create
  lugar,                 \* the file its blocks belong to by now
  lector,                \* the SELECT requests
  aceptados,             \* history: records whose INSERT has returned
  riesgo                 \* history: which hazardous overlaps have happened

archivos == <<tmp, tmpc, bin>>
semaforos == <<SemaforoMemtable, semaforoTabla, semaforoCompactacion>>
compactacion == <<compactador, renombrando, temporales, cargar, pendientes>>
volcado == <<dumpeo, numero, lugar>>
historia == <<aceptados, riesgo>>
vars == <<viva, memTable, archivos, semaforos, compactacion, volcado, lector, historia>>

-----------------------------------------------------------------------------
Lectores == Red \cup Consola
Particiones == 0..(NumParticiones - 1)
Numeros == 1..MaxTemporales
Sellos == 0..MaxTimestamp
Registro == [key: Claves, timestamp: 1..MaxTimestamp]

Archivo == [existe: BOOLEAN, registros: SUBSET Registro]
SinArchivo == [existe |-> FALSE, registros |-> {}]
Vacio == [existe |-> TRUE, registros |-> {}]
Con(R) == [existe |-> TRUE, registros |-> R]

FasesCompactador ==
  {"duerme", "espera", "renombra", "lee", "une", "espera_tabla", "borra",
   "crea", "escribe", "limpia", "suelta"}
FasesDumpeo == {"duerme", "numera", "escribe", "libera"}
Lugares == {"tmp", "tmpc", "borrado"}
Riesgos == {"renombre_a_medias", "hueco", "caida_compactando", "roto", "lee_a_medias"}

SinPedir == [fase |-> "libre"]
FasesLectura ==
  {"verifica_tabla", "verifica_memtable", "espera", "particion", "memtable",
   "temporales", "compactando", "responde"}
Lector ==
  {SinPedir}
    \cup [fase: FasesLectura, key: Claves, RegistrosEncontrados: SUBSET Registro,
          mem: BOOLEAN, desde: SUBSET Registro]
    \cup [fase: {"fin"}, key: Claves, timestamp: Sellos]

TypeOK ==
  /\ viva \in BOOLEAN
  /\ memTable \subseteq Registro
  /\ tmp \in [Numeros -> Archivo]
  /\ tmpc \in [Numeros -> Archivo]
  /\ bin \in [Particiones -> Archivo]
  /\ SemaforoMemtable \in {0, 1}
  /\ semaforoTabla \in {0, 1}
  /\ semaforoCompactacion \in {0, 1}
  /\ compactador \in FasesCompactador
  /\ renombrando \in 1..(MaxTemporales + 1)
  /\ temporales \subseteq Registro
  /\ cargar \in [Particiones -> SUBSET Registro]
  /\ pendientes \subseteq Particiones
  /\ dumpeo \in FasesDumpeo
  /\ numero \in 1..(MaxTemporales + 1)
  /\ lugar \in Lugares
  /\ lector \in [Lectores -> Lector]
  /\ aceptados \subseteq Registro
  /\ riesgo \subseteq Riesgos

Init ==
  /\ viva = TRUE
  /\ memTable = {}
  /\ tmp = [i \in Numeros |-> SinArchivo]
  /\ tmpc = [i \in Numeros |-> SinArchivo]
  /\ bin = [p \in Particiones |-> Vacio]
  /\ SemaforoMemtable = 1
  /\ semaforoTabla = 1
  /\ semaforoCompactacion = 1
  /\ compactador = "duerme"
  /\ renombrando = 1
  /\ temporales = {}
  /\ cargar = [p \in Particiones |-> {}]
  /\ pendientes = {}
  /\ dumpeo = "duerme"
  /\ numero = 1
  /\ lugar = "tmp"
  /\ lector = [l \in Lectores |-> SinPedir]
  /\ aceptados = {}
  /\ riesgo = {}

-----------------------------------------------------------------------------
(* Operators of the code.                                                  *)

particionDeKey(k) == k % NumParticiones

\* Every loop over temporals starts at 1 and ends at the first missing one.
Seguidos(archivo) == {i \in Numeros : \A j \in 1..i : archivo[j].existe}

\* The temporals a compaction in the middle of its renames will still rename.
PorRenombrar ==
  {i \in Numeros : /\ compactador = "renombra" /\ i >= renombrando
                   /\ \A j \in renombrando..i : tmp[j].existe}
Alcanzables == Seguidos(tmp) \cup PorRenombrar
RegistrosDe(archivo) == UNION {archivo[i].registros : i \in Seguidos(archivo)}

\* The partition being rewritten: the lowest one left.
EnTurno(p) == p \in pendientes /\ \A q \in pendientes : p <= q

\* What is in the file being written by now, as far as whole records go: some of
\* those the dump, or the compaction, is writing.
AMediasTmp == dumpeo = "escribe" /\ lugar = "tmp" /\ numero \in Seguidos(tmp)
AMediasTmpc == dumpeo = "escribe" /\ lugar = "tmpc" /\ numero \in Seguidos(tmpc)
AMediasBin(p) == compactador = "escribe" /\ EnTurno(p)
Parte(aMedias, R) == SUBSET (IF aMedias THEN R ELSE {})

\* A file is read.  When it is being written, or was when the process died, it
\* may have no BLOCKS yet (a null pointer), or end in half a record, which has
\* no value (another) or part of one.
LeeArchivo(aMedias) ==
  \/ UNCHANGED <<viva, riesgo>>
  \/ /\ aMedias \/ "roto" \in riesgo
     /\ viva' \in BOOLEAN
     /\ riesgo' = riesgo \cup {"lee_a_medias"}

\* The records of S with key k and the greatest timestamp: what
\* buscarEnParticion, buscarMemTable and buscarRegistroTemporalMasReciente find.
MasRecientes(S, k) ==
  {r \in S : r.key = k /\ \A q \in S : q.key = k => q.timestamp <= r.timestamp}

\* ActualizarRegistrosParticion: of every key, the newest record of both.
\* Mutant: the comparison of CambiarRegistro turned around.
ConservaAntiguos(P, T) ==
  {r \in P \cup T : \A q \in P \cup T : q.key = r.key => q.timestamp >= r.timestamp}
ActualizarRegistrosParticion(P, T) ==
  {r \in P \cup T : \A q \in P \cup T : q.key = r.key => q.timestamp <= r.timestamp}

\* list_filter with filtrarPorMismaKey.
DeParticion(T, p) == {r \in T : particionDeKey(r.key) = p}

-----------------------------------------------------------------------------
(* INSERT, from a memory or from the console: one critical section of      *)
(* SemaforoMemtable.  Two INSERTs of a key carry different timestamps.      *)

INSERT(k, ts) ==
  /\ viva
  /\ SemaforoMemtable = 1
  /\ Cardinality(aceptados) < MaxInserts
  /\ \A r \in aceptados : ~(r.key = k /\ r.timestamp = ts)
  /\ memTable' = memTable \cup {[key |-> k, timestamp |-> ts]}
  /\ aceptados' = aceptados \cup {[key |-> k, timestamp |-> ts]}
  /\ UNCHANGED <<viva, archivos, semaforos, compactacion, volcado, lector, riesgo>>

-----------------------------------------------------------------------------
(* The dump thread: chekearDumpeo, dump, crearTemporal.                    *)

\* memTable != NULL is read outside the semaphore; nothing empties it here.
EmpiezaDump ==
  /\ viva
  /\ dumpeo = "duerme"
  /\ memTable # {}
  /\ SemaforoMemtable = 1
  /\ SemaforoMemtable' = 0
  /\ dumpeo' = "numera"
  /\ numero' = 1
  /\ UNCHANGED <<viva, memTable, archivos, semaforoTabla, semaforoCompactacion,
                 compactacion, lugar, lector, historia>>

\* DirectorioDeTemporalNuevo: the lowest number without a file ...
SaltaNumero ==
  /\ viva
  /\ dumpeo = "numera"
  /\ numero \in Numeros
  /\ tmp[numero].existe
  /\ numero' = numero + 1
  /\ UNCHANGED <<viva, memTable, archivos, semaforos, compactacion, dumpeo, lugar,
                 lector, historia>>

\* Mutant: the file is opened whether it exists or not.
CreaEncima ==
  /\ viva
  /\ dumpeo = "numera"
  /\ numero \in Numeros
  /\ tmp' = [tmp EXCEPT ![numero] = Vacio]
  /\ dumpeo' = "escribe"
  /\ lugar' = "tmp"
  /\ UNCHANGED <<viva, memTable, tmpc, bin, semaforos, compactacion, numero, lector,
                 historia>>

\* ... and fopen: the file is there, with nothing to read yet.  When the compaction
\* has renamed a lower number meanwhile, there is a hole in the numbering.
CreaTemporal ==
  /\ viva
  /\ dumpeo = "numera"
  /\ numero \in Numeros
  /\ ~tmp[numero].existe
  /\ tmp' = [tmp EXCEPT ![numero] = Vacio]
  /\ dumpeo' = "escribe"
  /\ lugar' = "tmp"
  /\ riesgo' = IF numero - 1 \in Alcanzables \cup {0} THEN riesgo
                                                      ELSE riesgo \cup {"hueco"}
  /\ UNCHANGED <<viva, memTable, tmpc, bin, semaforos, compactacion, numero, lector,
                 aceptados>>

\* fclose and cargarRegistros, block by block, end here: the records are in the
\* blocks, whatever file lists them now.
EscribeTemporal ==
  /\ viva
  /\ dumpeo = "escribe"
  /\ dumpeo' = "libera"
  /\ tmp' = IF lugar = "tmp" THEN [tmp EXCEPT ![numero] = Con(memTable)] ELSE tmp
  /\ tmpc' = IF lugar = "tmpc" THEN [tmpc EXCEPT ![numero] = Con(memTable)] ELSE tmpc
  /\ UNCHANGED <<viva, memTable, bin, semaforos, compactacion, numero, lugar, lector,
                 historia>>

\* dictionary_destroy, memTable = NULL, sem_post.
TerminaDump ==
  /\ viva
  /\ dumpeo = "libera"
  /\ dumpeo' = "duerme"
  /\ memTable' = {}
  /\ SemaforoMemtable' = SemaforoMemtable + 1
  /\ UNCHANGED <<viva, archivos, semaforoTabla, semaforoCompactacion, compactacion,
                 numero, lugar, lector, historia>>

-----------------------------------------------------------------------------
(* The compaction thread: funcionCompactar, compactar.                     *)

EncuentraTemporal ==
  /\ viva
  /\ compactador = "duerme"
  /\ tmp[1].existe
  /\ compactador' = "espera"
  /\ UNCHANGED <<viva, memTable, archivos, semaforos, renombrando, temporales, cargar,
                 pendientes, volcado, lector, historia>>

\* Mutant: the semaphore is only looked at.
EmpiezaSinBajar ==
  /\ viva
  /\ compactador = "espera"
  /\ semaforoCompactacion = 1
  /\ compactador' = "renombra"
  /\ renombrando' = 1
  /\ UNCHANGED <<viva, memTable, archivos, semaforos, temporales, cargar, pendientes,
                 volcado, lector, historia>>
EmpiezaCompactacion ==
  /\ viva
  /\ compactador = "espera"
  /\ semaforoCompactacion = 1
  /\ semaforoCompactacion' = 0
  /\ compactador' = "renombra"
  /\ renombrando' = 1
  /\ UNCHANGED <<viva, memTable, archivos, SemaforoMemtable, semaforoTabla, temporales,
                 cargar, pendientes, volcado, lector, historia>>

\* cambiarNombreTmpATmpc: rename replaces a .tmpc that was left there.
Renombra ==
  /\ viva
  /\ compactador = "renombra"
  /\ renombrando \in Numeros
  /\ tmp[renombrando].existe
  /\ tmpc' = [tmpc EXCEPT ![renombrando] = tmp[renombrando]]
  /\ tmp' = [tmp EXCEPT ![renombrando] = SinArchivo]
  /\ renombrando' = renombrando + 1
  /\ IF dumpeo = "escribe" /\ numero = renombrando
       THEN /\ lugar' = IF lugar = "tmp" THEN "tmpc" ELSE "borrado"
            /\ riesgo' = riesgo \cup {"renombre_a_medias"}
       ELSE UNCHANGED <<lugar, riesgo>>
  /\ UNCHANGED <<viva, memTable, bin, semaforos, compactador, temporales, cargar,
                 pendientes, dumpeo, numero, lector, aceptados>>

TerminaRenombres ==
  /\ viva
  /\ compactador = "renombra"
  /\ renombrando \in Numeros => ~tmp[renombrando].existe
  /\ compactador' = "lee"
  /\ UNCHANGED <<viva, memTable, archivos, semaforos, renombrando, temporales, cargar,
                 pendientes, volcado, lector, historia>>

\* LiberarTmpc
LeeTemporales ==
  /\ viva
  /\ compactador = "lee"
  /\ \E S \in Parte(AMediasTmpc, memTable) : temporales' = RegistrosDe(tmpc) \cup S
  /\ LeeArchivo(AMediasTmpc)
  /\ compactador' = "une"
  /\ UNCHANGED <<memTable, archivos, semaforos, renombrando, cargar, pendientes,
                 volcado, lector, aceptados>>

\* LiberarBin and ActualizarRegistrosParticion for every partition; a partition
\* that has no file is a null configuration.
Une ==
  /\ viva
  /\ compactador = "une"
  /\ IF \A p \in Particiones : bin[p].existe
       THEN /\ cargar' = [p \in Particiones |->
                            ActualizarRegistrosParticion(bin[p].registros,
                                                         DeParticion(temporales, p))]
            /\ compactador' = "espera_tabla"
            /\ LeeArchivo(FALSE)
       ELSE /\ viva' = FALSE
            /\ UNCHANGED <<cargar, compactador, riesgo>>
  /\ UNCHANGED <<memTable, archivos, semaforos, renombrando, temporales, pendientes,
                 volcado, lector, aceptados>>

TomaTabla ==
  /\ viva
  /\ compactador = "espera_tabla"
  /\ semaforoTabla = 1
  /\ semaforoTabla' = 0
  /\ pendientes' = {p \in Particiones : cargar[p] # {}}
  /\ compactador' = "borra"
  /\ UNCHANGED <<viva, memTable, archivos, SemaforoMemtable, semaforoCompactacion,
                 renombrando, temporales, cargar, volcado, lector, historia>>

\* RemoverParticionDeTablaEspecificaYSusBloques
BorraParticion(p) ==
  /\ viva
  /\ compactador = "borra" /\ EnTurno(p)
  /\ bin' = [bin EXCEPT ![p] = SinArchivo]
  /\ compactador' = "crea"
  /\ UNCHANGED <<viva, memTable, tmp, tmpc, semaforos, renombrando, temporales, cargar,
                 pendientes, volcado, lector, historia>>

\* crearParticionNueva: crearArchivobin, then cargarRegistros.
CreaParticion(p) ==
  /\ viva
  /\ compactador = "crea" /\ EnTurno(p)
  /\ bin' = [bin EXCEPT ![p] = Vacio]
  /\ compactador' = "escribe"
  /\ UNCHANGED <<viva, memTable, tmp, tmpc, semaforos, renombrando, temporales, cargar,
                 pendientes, volcado, lector, historia>>

EscribeParticion(p) ==
  /\ viva
  /\ compactador = "escribe" /\ EnTurno(p)
  /\ bin' = [bin EXCEPT ![p] = Con(cargar[p])]
  /\ compactador' = "limpia"
  /\ UNCHANGED <<viva, memTable, tmp, tmpc, semaforos, renombrando, temporales, cargar,
                 pendientes, volcado, lector, historia>>

\* RemoverTemporalesCompactadosDeTablaYSusBloques, after EACH partition.
BorraTemporales(p) ==
  /\ viva
  /\ compactador = "limpia" /\ EnTurno(p)
  /\ tmpc' = [i \in Numeros |-> IF i \in Seguidos(tmpc) THEN SinArchivo ELSE tmpc[i]]
  /\ lugar' = IF lugar = "tmpc" /\ numero \in Seguidos(tmpc) THEN "borrado" ELSE lugar
  /\ pendientes' = pendientes \ {p}
  /\ compactador' = "borra"
  /\ UNCHANGED <<viva, memTable, tmp, bin, semaforos, renombrando, temporales, cargar,
                 dumpeo, numero, lector, historia>>

\* Mutant: the semaphore is not given back.
SinSoltarTabla ==
  /\ viva
  /\ compactador = "borra" /\ pendientes = {}
  /\ compactador' = "suelta"
  /\ UNCHANGED <<viva, memTable, archivos, semaforos, renombrando, temporales, cargar,
                 pendientes, volcado, lector, historia>>
SueltaTabla ==
  /\ viva
  /\ compactador = "borra" /\ pendientes = {}
  /\ semaforoTabla' = semaforoTabla + 1
  /\ compactador' = "suelta"
  /\ UNCHANGED <<viva, memTable, archivos, SemaforoMemtable, semaforoCompactacion,
                 renombrando, temporales, cargar, pendientes, volcado, lector, historia>>

TerminaCompactacion ==
  /\ viva
  /\ compactador = "suelta"
  /\ semaforoCompactacion' = semaforoCompactacion + 1
  /\ temporales' = {}
  /\ cargar' = [p \in Particiones |-> {}]
  /\ compactador' = "duerme"
  /\ UNCHANGED <<viva, memTable, archivos, SemaforoMemtable, semaforoTabla, renombrando,
                 pendientes, volcado, lector, historia>>

-----------------------------------------------------------------------------
(* SELECT: APIselectRESPUESTA for a memory (l \in Red), which holds          *)
(* semaforoCompactacion, and APIselect for the console (l \in Consola),      *)
(* which does not.                                                           *)

\* The order in which the places are searched.  Mutant: the temporals before
\* the memtable.
OrdenCambiado == [particion |-> "temporales", temporales |-> "memtable",
                  memtable |-> "compactando"]
Orden == [particion |-> "memtable", memtable |-> "temporales",
          temporales |-> "compactando"]

EnFase(l, f) == viva /\ lector[l].fase = f
Pasa(l, f) == lector' = [lector EXCEPT ![l] = [lector[l] EXCEPT !.fase = f]]

\* The request arrives; "desde" remembers what it has to take into account.
PideSELECT(l, k) ==
  /\ EnFase(l, "libre")
  /\ lector' = [lector EXCEPT ![l] =
       [fase |-> "verifica_tabla", key |-> k, RegistrosEncontrados |-> {},
        mem |-> FALSE, desde |-> {r \in aceptados : r.key = k}]]
  /\ UNCHANGED <<viva, memTable, archivos, semaforos, compactacion, volcado, historia>>

\* verificarSemaforoTabla, verificarSemaforoMemTable: waited for and given back.
VerificaTabla(l) ==
  /\ EnFase(l, "verifica_tabla")
  /\ semaforoTabla = 1
  /\ Pasa(l, "verifica_memtable")
  /\ UNCHANGED <<viva, memTable, archivos, semaforos, compactacion, volcado, historia>>

VerificaMemTable(l) ==
  /\ EnFase(l, "verifica_memtable")
  /\ SemaforoMemtable = 1
  /\ Pasa(l, IF l \in Red THEN "espera" ELSE "particion")
  /\ UNCHANGED <<viva, memTable, archivos, semaforos, compactacion, volcado, historia>>

\* waitearSemTable.  Mutant: only verified, like the other two.
SoloVerifica(l) ==
  /\ EnFase(l, "espera")
  /\ semaforoCompactacion = 1
  /\ Pasa(l, "particion")
  /\ UNCHANGED <<viva, memTable, archivos, semaforos, compactacion, volcado, historia>>
waitearSemTable(l) ==
  /\ EnFase(l, "espera")
  /\ semaforoCompactacion = 1
  /\ semaforoCompactacion' = 0
  /\ Pasa(l, "particion")
  /\ UNCHANGED <<viva, memTable, archivos, SemaforoMemtable, semaforoTabla, compactacion,
                 volcado, historia>>

\* The records found in one place are added to those found before.
Agrega(l, S, f) ==
  lector' = [lector EXCEPT ![l] =
    [lector[l] EXCEPT !.RegistrosEncontrados = @ \cup MasRecientes(S, lector[l].key),
                      !.fase = f]]

\* A partition that has no file is a null configuration.
buscarEnParticion(l) ==
  /\ EnFase(l, "particion")
  /\ LET p == particionDeKey(lector[l].key)
     IN /\ \E S \in Parte(AMediasBin(p), cargar[p]) :
             Agrega(l, bin[p].registros \cup S, Orden.particion)
        /\ \/ bin[p].existe /\ LeeArchivo(AMediasBin(p))
           \/ ~bin[p].existe /\ viva' = FALSE /\ UNCHANGED riesgo
  /\ UNCHANGED <<memTable, archivos, semaforos, compactacion, volcado, aceptados>>

\* A memory's SELECT locks the memtable; the console's reads it as it is, and
\* while the dump is freeing the records it may die or find nothing.
buscarMemTable(l) ==
  /\ EnFase(l, "memtable")
  /\ l \in Red => SemaforoMemtable = 1
  /\ \/ /\ dumpeo # "libera"
        /\ lector' = [lector EXCEPT ![l] =
             [lector[l] EXCEPT
                !.RegistrosEncontrados = @ \cup MasRecientes(memTable, lector[l].key),
                !.mem = \E r \in memTable : r.key = lector[l].key,
                !.fase = Orden.memtable]]
        /\ UNCHANGED viva
     \/ /\ dumpeo = "libera"
        /\ Pasa(l, Orden.memtable)
        /\ viva' \in BOOLEAN
  /\ UNCHANGED <<memTable, archivos, semaforos, compactacion, volcado, historia>>

buscarEnTemporales(l) ==
  /\ EnFase(l, "temporales")
  /\ \E S \in Parte(AMediasTmp, memTable) :
       Agrega(l, RegistrosDe(tmp) \cup S, Orden.temporales)
  /\ LeeArchivo(AMediasTmp)
  /\ UNCHANGED <<memTable, archivos, semaforos, compactacion, volcado, aceptados>>

\* buscarEnTemporalesCompactando: when it finds a record, the one of the
\* memtable is put in the list in its place.  That is a null pointer, or a
\* record which will be freed twice.
buscarEnTemporalesCompactando(l) ==
  /\ EnFase(l, "compactando")
  /\ \E S \in Parte(AMediasTmpc, memTable) :
       IF \E r \in RegistrosDe(tmpc) \cup S : r.key = lector[l].key
         THEN /\ viva' \in IF lector[l].mem THEN BOOLEAN ELSE {FALSE}
              /\ UNCHANGED riesgo
         ELSE LeeArchivo(AMediasTmpc)
  /\ Pasa(l, "responde")
  /\ UNCHANGED <<memTable, archivos, semaforos, compactacion, volcado, aceptados>>

\* elegirRegistroDeMayorTimeStamp, or bit = 1 when nothing was found.
Elegidos(l) ==
  LET R == lector[l].RegistrosEncontrados
  IN  IF R = {} THEN {0} ELSE {r.timestamp : r \in MasRecientes(R, lector[l].key)}

\* Mutant: the semaphore is not given back.
RespondeSinSoltar(l) ==
  /\ EnFase(l, "responde")
  /\ \E ts \in Elegidos(l) :
       lector' = [lector EXCEPT ![l] =
                    [fase |-> "fin", key |-> lector[l].key, timestamp |-> ts]]
  /\ UNCHANGED <<viva, memTable, archivos, semaforos, compactacion, volcado, historia>>
RespondeSELECT(l) ==
  /\ EnFase(l, "responde")
  /\ \E ts \in Elegidos(l) :
       lector' = [lector EXCEPT ![l] =
                    [fase |-> "fin", key |-> lector[l].key, timestamp |-> ts]]
  /\ semaforoCompactacion' = IF l \in Red THEN semaforoCompactacion + 1
                                        ELSE semaforoCompactacion
  /\ UNCHANGED <<viva, memTable, archivos, SemaforoMemtable, semaforoTabla, compactacion,
                 volcado, historia>>

-----------------------------------------------------------------------------
(* The process dies and is started again: the memtable, the threads and the *)
(* semaphores are lost, the files stay as they are, the one being written   *)
(* too.  Only what had reached a file is owed to anybody afterwards.        *)

Caida ==
  /\ PuedeCaer
  /\ viva
  /\ viva' = FALSE
  /\ UNCHANGED <<memTable, archivos, semaforos, compactacion, volcado, lector, historia>>

EnArchivos == (UNION {tmp[i].registros \cup tmpc[i].registros : i \in Numeros})
                \cup (UNION {bin[p].registros : p \in Particiones})

Reinicio ==
  /\ PuedeCaer
  /\ ~viva
  /\ viva' = TRUE
  /\ memTable' = {}
  /\ SemaforoMemtable' = 1 /\ semaforoTabla' = 1 /\ semaforoCompactacion' = 1
  /\ compactador' = "duerme"
  /\ renombrando' = 1
  /\ temporales' = {}
  /\ cargar' = [p \in Particiones |-> {}]
  /\ pendientes' = {}
  /\ dumpeo' = "duerme"
  /\ numero' = 1
  /\ lugar' = "tmp"
  /\ lector' = [l \in Lectores |->
                  IF lector[l].fase \in FasesLectura THEN SinPedir ELSE lector[l]]
  /\ aceptados' = aceptados \cap EnArchivos
  /\ riesgo' = riesgo
       \cup (IF compactador \in {"duerme", "espera", "suelta"} THEN {} ELSE {"caida_compactando"})
       \cup (IF dumpeo = "escribe" \/ compactador = "escribe" THEN {"roto"} ELSE {})
  /\ UNCHANGED archivos

-----------------------------------------------------------------------------
Dump == EmpiezaDump \/ SaltaNumero \/ CreaTemporal \/ EscribeTemporal \/ TerminaDump

Compacta ==
  \/ EncuentraTemporal \/ EmpiezaCompactacion \/ Renombra \/ TerminaRenombres
  \/ LeeTemporales \/ Une \/ TomaTabla
  \/ \E p \in Particiones :
       BorraParticion(p) \/ CreaParticion(p) \/ EscribeParticion(p) \/ BorraTemporales(p)
  \/ SueltaTabla \/ TerminaCompactacion

Lee(l) ==
  \/ VerificaTabla(l) \/ VerificaMemTable(l) \/ waitearSemTable(l)
  \/ buscarEnParticion(l) \/ buscarMemTable(l) \/ buscarEnTemporales(l)
  \/ buscarEnTemporalesCompactando(l) \/ RespondeSELECT(l)

Next ==
  \/ \E k \in Claves, ts \in 1..MaxTimestamp : INSERT(k, ts)
  \/ Dump
  \/ Compacta
  \/ \E l \in Lectores, k \in Claves : PideSELECT(l, k)
  \/ \E l \in Lectores : Lee(l)
  \/ Caida
  \/ Reinicio

Spec == Init /\ [][Next]_vars

\* Every thread that has something to do and is not blocked gets to run; the
\* clients ask when they like.
Equidad == WF_vars(Dump) /\ WF_vars(Compacta) /\ \A l \in Lectores : WF_vars(Lee(l))
SpecEquitativa == Spec /\ Equidad

-----------------------------------------------------------------------------
(* Properties.                                                             *)

\* The compaction, from its first rename to the end, and a memory's SELECT,
\* from its first read to its answer, exclude each other and one another:
\* semaforoCompactacion is down exactly while one of them is inside.
CompactadorDentro == compactador \notin {"duerme", "espera"}
LeyendoDentro ==
  {l \in Red : lector[l].fase \in FasesLectura
                                    \ {"verifica_tabla", "verifica_memtable", "espera"}}
Exclusion ==
  viva =>
    /\ semaforoCompactacion = 0 <=> CompactadorDentro \/ LeyendoDentro # {}
    /\ CompactadorDentro => LeyendoDentro = {}
    /\ \A l, m \in LeyendoDentro : l = m

\* Nobody waits for somebody who waits: whoever holds the memtable or the table waits for
\* nothing, and the compaction, which holds semaforoCompactacion, finds the table free.
SinEsperaCircular ==
  viva =>
    /\ SemaforoMemtable = 0 => dumpeo \in {"numera", "escribe", "libera"}
    /\ semaforoTabla = 0 => compactador \in {"borra", "crea", "escribe", "limpia"}
    /\ compactador = "espera_tabla" => semaforoTabla = 1

\* What a SELECT can find, apart from what a compaction holds in its hands.
Visibles ==
  memTable \cup (UNION {tmp[i].registros : i \in Alcanzables})
    \cup RegistrosDe(tmpc) \cup temporales
    \cup (UNION {bin[p].registros : p \in Particiones})
    \cup (UNION {cargar[p] : p \in Particiones})

SupersedidoEn(r, S) == \E q \in S : q.key = r.key /\ q.timestamp >= r.timestamp

\* No INSERT that has returned is lost, through dumps and compactions: it, or a
\* newer record of its key, is in the memtable, in a temporal that can be
\* reached, in a partition, or in the hands of the compaction.  It holds until
\* the compaction renames a temporal whose blocks the dump has not written, the
\* dump leaves a hole in the numbering, or the process dies compacting or writing.
Conservado ==
  riesgo \subseteq {"lee_a_medias"} /\ viva => \A r \in aceptados : SupersedidoEn(r, Visibles)

\* A hole in the numbering hides records, and loses none: they are still in a
\* file of the table.
HuecoNoPierde ==
  riesgo \subseteq {"hueco", "lee_a_medias"} /\ viva =>
    \A r \in aceptados : SupersedidoEn(r, Visibles \cup EnArchivos)

\* The answer to a memory's SELECT is no older than any INSERT of the key that
\* had returned when the SELECT arrived.
SelectFresco ==
  riesgo = {} /\ viva => \A l \in Red :
    lector[l].fase = "responde" =>
      \A r \in lector[l].desde \cap aceptados :
        SupersedidoEn(r, lector[l].RegistrosEncontrados)

\* Without such an overlap (a SELECT that reads the temporal the dump is writing
\* is one) no request of a memory kills the process.
SinMuertes == riesgo = {} /\ Consola = {} /\ ~PuedeCaer => viva

\* What the comments of struct semaforoTabla say together: a SELECT waits for
\* the compaction only while files of the table are removed, and is served the
\* rest of the time: a step taken then, away from the dump and from the other
\* overlaps, does not kill the process.  The console's SELECT is served, and does.
ServidoCompactando ==
  [][riesgo = {} /\ CompactadorDentro /\ semaforoTabla = 1 /\ dumpeo = "duerme" /\ viva
       => viva']_vars

\* Every accepted record is superseded in the partition of its key, the only one
\* a SELECT of that key will read.
Compactado == \A r \in aceptados : SupersedidoEn(r, bin[particionDeKey(r.key)].registros)

\* Nothing is left to dump or to compact.
Reposo ==
  /\ memTable = {} /\ dumpeo = "duerme" /\ compactador = "duerme"
  /\ \A i \in Numeros : ~tmp[i].existe

\* When the threads have nothing left to do, every record is where SELECT looks for it:
\* none is left in a .tmpc, in a list of the compaction or in another partition.
EnReposoCompactado == riesgo = {} /\ viva /\ Reposo => Compactado

\* Once the INSERTs stop, everything ends up in the partitions: the memtable is
\* dumped and every temporal compacted.
TodoCompactado == <>[](riesgo # {} \/ ~viva \/ (Reposo /\ Compactado))

\* Every SELECT is answered: nobody waits for a semaphore for ever.
SelectTermina ==
  \A l \in Lectores :
    lector[l].fase = "verifica_tabla" ~> lector[l].fase = "fin" \/ ~viva \/ riesgo # {}

MasNuevo(S, k) ==
  IF \E r \in S : r.key = k THEN (CHOOSE r \in MasRecientes(S, k) : TRUE).timestamp ELSE 0

PedidoDe(l) ==
  IF lector[l].fase \in FasesLectura
    THEN [fase |-> "pendiente", key |-> lector[l].key,
          desde |-> MasNuevo(lector[l].desde, lector[l].key)]
    ELSE lector[l]

A == INSTANCE Almacen WITH
       registro <- [k \in Claves |-> MasNuevo(Visibles, k)],
       pedido <- [l \in Red |-> PedidoDe(l)]
\* The table is an Almacen: as long as none of the overlaps happens, every step of
\* the code is one of its operations, or none.
ImplementaAlmacen == A!Init /\ [][riesgo' = {} => A!Next]_A!vars
=============================================================================
