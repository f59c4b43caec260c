-------------------------- MODULE LFSTablaProofs --------------------------
(***************************************************************************)
(* What is proved of LFSTabla, for any keys, partitions, requests and       *)
(* bounds: the types, that the compaction and the SELECTs of the memories   *)
(* exclude one another, that the three semaphores close no circle of        *)
(* waits, that no accepted record is lost, and that until then nobody dies. *)
(*                                                                          *)
(* The argument for the last: every record is superseded in Guardados, what *)
(* is in the files and in the hands of the compaction, or is still in the   *)
(* memtable.  A step of any thread only replaces records of Guardados by    *)
(* newer ones of their keys.  That needs to be known, in each phase of the  *)
(* compaction, which of its four copies (.tmp, .tmpc, lists, .bin) already  *)
(* holds what the next one to be destroyed does: the conjuncts of Datos.    *)
(* SinHuecos says besides that no temporal is out of reach, so Guardados is *)
(* what a SELECT can find.                                                  *)
(***************************************************************************)
EXTENDS LFSTabla, WellFoundedInduction, TLAPS

-----------------------------------------------------------------------------
(* The inductive invariant.                                                *)

Ocupando == {"borra", "crea", "escribe", "limpia"}
Cargadas == {"espera_tabla"} \cup Ocupando \cup {"suelta"}

Semaforos ==
  /\ SemaforoMemtable = IF dumpeo = "duerme" THEN 1 ELSE 0
  /\ semaforoTabla = IF compactador \in Ocupando THEN 0 ELSE 1
  /\ semaforoCompactacion = 0 <=> CompactadorDentro \/ LeyendoDentro # {}
  /\ CompactadorDentro => LeyendoDentro = {}
  /\ \A l, m \in LeyendoDentro : l = m
  /\ \A l \in Lectores : lector[l].fase = "espera" => l \in Red

\* Every copy of a record outside the memtable, reachable or not.
Guardados == EnArchivos \cup temporales \cup (UNION {cargar[p] : p \in Particiones})

SinContenido(archivo) == \A i \in Numeros : archivo[i].registros = {}

\* A file that is not there holds nothing.
SoloExistentes ==
  /\ \A i \in Numeros : tmp[i].registros # {} => tmp[i].existe
  /\ \A i \in Numeros : tmpc[i].registros # {} => tmpc[i].existe

\* Every temporal can be reached.
SinHuecos == \A i \in Numeros : tmp[i].existe => i \in Alcanzables

\* The temporal being dumped is still a .tmp, and empty.
Volcando ==
  /\ dumpeo = "escribe" => lugar = "tmp" /\ numero \in Numeros /\ tmp[numero] = Vacio
  /\ dumpeo = "libera" => \A r \in memTable : SupersedidoEn(r, Guardados)

\* What the .tmpc files hold in each phase.
Renombrados ==
  /\ compactador \in {"duerme", "espera", "suelta"} => SinContenido(tmpc)
  /\ compactador = "renombra" =>
       \A i \in Numeros : /\ i < renombrando => tmpc[i].existe
                          /\ i >= renombrando => tmpc[i].registros = {}
  /\ \A i \in Numeros : tmpc[i].registros # {} => i \in Seguidos(tmpc)
  /\ compactador \in {"une"} \cup Cargadas =>
       \A i \in Numeros : tmpc[i].registros \subseteq temporales
  /\ compactador \in Ocupando /\ pendientes # {p \in Particiones : cargar[p] # {}} =>
       SinContenido(tmpc)

\* What the compaction has in its hands.
EnManos ==
  /\ compactador \notin {"une"} \cup Cargadas => temporales = {}
  /\ compactador \notin Cargadas => \A p \in Particiones : cargar[p] = {}
  /\ compactador \in Cargadas => \A p \in Particiones :
       \A r \in bin[p].registros \cup DeParticion(temporales, p) :
         SupersedidoEn(r, cargar[p])
  /\ compactador \in Ocupando \cup {"suelta"} => \A p \in Particiones \ pendientes :
       cargar[p] \subseteq bin[p].registros
  /\ compactador = "limpia" => \A p \in Particiones :
       EnTurno(p) => cargar[p] \subseteq bin[p].registros
  /\ compactador = "suelta" => pendientes = {}

Conservados == \A r \in aceptados : SupersedidoEn(r, memTable \cup Guardados)

Datos == SoloExistentes /\ Volcando /\ Renombrados /\ EnManos /\ Conservados

Inv ==
  /\ TypeOK
  /\ Semaforos
  /\ riesgo \subseteq {"hueco", "lee_a_medias"} => Datos
  /\ riesgo \subseteq {"lee_a_medias"} => SinHuecos

-----------------------------------------------------------------------------
(* Types and semaphores.                                                   *)

Leyendo ==
  [fase: FasesLectura, key: Claves, RegistrosEncontrados: SUBSET Registro,
   mem: BOOLEAN, desde: SUBSET Registro]

\* A request in one of the phases of the search is a record of Leyendo, and
\* stays one when its phase and what it has found change.
LEMMA LectorLeyendo ==
  ASSUME TypeOK, NEW l \in Lectores, lector[l].fase \in FasesLectura
  PROVE  /\ lector[l] \in Leyendo
         /\ lector[l].key \in Claves /\ lector[l].RegistrosEncontrados \in SUBSET Registro
         /\ \A f \in FasesLectura : /\ [lector[l] EXCEPT !.fase = f] \in Leyendo
                                     /\ [lector[l] EXCEPT !.fase = f].fase = f
         /\ \A f \in FasesLectura, S \in SUBSET Registro, m \in BOOLEAN :
              /\ [lector[l] EXCEPT !.RegistrosEncontrados = @ \cup S, !.fase = f] \in Leyendo
              /\ [lector[l] EXCEPT !.RegistrosEncontrados = @ \cup S, !.mem = m, !.fase = f]
                   \in Leyendo
<1>1. lector[l] \in Leyendo
  BY DEF TypeOK, Lector, SinPedir, FasesLectura, Leyendo
<1> QED
  BY <1>1 DEF Leyendo

\* A key has its partition.
LEMMA ParticionValida ==
  ASSUME NEW k \in Claves
  PROVE  particionDeKey(k) \in Particiones
<1>1. k \in Nat /\ NumParticiones \in Nat /\ NumParticiones > 0
  BY ConstantesLFSTabla
<1>2. k % NumParticiones \in Int /\ 0 <= k % NumParticiones
        /\ k % NumParticiones <= NumParticiones - 1
  BY <1>1, Z3
<1> QED
  BY <1>1, <1>2 DEF particionDeKey, Particiones

\* Reading a file may kill the process, or the reader of what is half written finds
\* some of its records.
LEMMA LecturaDeArchivo ==
  ASSUME TypeOK, NEW a \in BOOLEAN, LeeArchivo(a)
  PROVE  /\ viva' \in BOOLEAN /\ riesgo' \subseteq Riesgos /\ riesgo \subseteq riesgo'
         /\ riesgo' \subseteq {"hueco"} => UNCHANGED <<viva, riesgo>>
BY DEF LeeArchivo, TypeOK, Riesgos

LEMMA ParteDe ==
  ASSUME NEW a \in BOOLEAN, NEW R, NEW S \in Parte(a, R)
  PROVE  S \subseteq R /\ (~a => S = {})
BY DEF Parte

LEMMA AMediasBool ==
  AMediasTmp \in BOOLEAN /\ AMediasTmpc \in BOOLEAN
    /\ \A p \in Particiones : AMediasBin(p) \in BOOLEAN
BY DEF AMediasTmp, AMediasTmpc, AMediasBin

LEMMA LeyendoEsLector == Leyendo \subseteq Lector
  BY DEF Leyendo, Lector

\* The initial state.
LEMMA TiposInit == Init => TypeOK /\ Semaforos
<1> SUFFICES ASSUME Init PROVE TypeOK /\ Semaforos
  OBVIOUS
<1>1. SinArchivo \in Archivo /\ Vacio \in Archivo /\ SinPedir \in Lector
  BY DEF SinArchivo, Vacio, Archivo, Lector
<1>2. TypeOK
  BY <1>1, ConstantesLFSTabla
     DEF Init, TypeOK, FasesCompactador, FasesDumpeo, Lugares, Particiones, Numeros, Registro
<1>3. Semaforos
  BY DEF Init, Semaforos, Ocupando, CompactadorDentro, LeyendoDentro, Lectores, SinPedir,
         FasesLectura
<1> QED
  BY <1>2, <1>3

\* INSERT and the dump thread keep the types and the semaphores.
LEMMA TiposDump ==
  ASSUME TypeOK, Semaforos, (\E k \in Claves, ts \in 1..MaxTimestamp : INSERT(k, ts)) \/ Dump
  PROVE  TypeOK' /\ Semaforos'
<1> USE DEF TypeOK, Semaforos, CompactadorDentro, LeyendoDentro
<1>1. ASSUME NEW k \in Claves, NEW ts \in 1..MaxTimestamp, INSERT(k, ts)
      PROVE  TypeOK' /\ Semaforos'
  BY <1>1 DEF INSERT, Registro, archivos, semaforos, compactacion, volcado
<1>2. CASE EmpiezaDump
  BY <1>2, ConstantesLFSTabla
     DEF EmpiezaDump, FasesDumpeo, archivos, compactacion, historia
<1>3. CASE SaltaNumero
  BY <1>3, ConstantesLFSTabla
     DEF SaltaNumero, Numeros, archivos, semaforos, compactacion, historia
<1>4. CASE CreaTemporal
  BY <1>4 DEF CreaTemporal, Vacio, Archivo, FasesDumpeo, Lugares, Riesgos, semaforos,
                compactacion
<1>5. CASE EscribeTemporal
  <2>1. Con(memTable) \in Archivo
    BY DEF Con, Archivo
  <2> QED
    BY <1>5, <2>1 DEF EscribeTemporal, FasesDumpeo, semaforos, compactacion, historia
<1>6. CASE TerminaDump
  BY <1>6 DEF TerminaDump, FasesDumpeo, archivos, compactacion, historia
<1> QED
  BY <1>1, <1>2, <1>3, <1>4, <1>5, <1>6 DEF Dump

\* The compaction thread keeps them.
LEMMA TiposCompacta ==
  ASSUME TypeOK, Semaforos, Compacta
  PROVE  TypeOK' /\ Semaforos'
<1> USE DEF TypeOK, Semaforos, CompactadorDentro, LeyendoDentro, FasesCompactador, Ocupando
<1>1. CASE EncuentraTemporal
  BY <1>1 DEF EncuentraTemporal, archivos, semaforos, volcado, historia
<1>2. CASE EmpiezaCompactacion
  BY <1>2, ConstantesLFSTabla DEF EmpiezaCompactacion, archivos, volcado, historia
<1>3. CASE Renombra
  <2>1. tmpc' \in [Numeros -> Archivo] /\ tmp' \in [Numeros -> Archivo]
    BY <1>3 DEF Renombra, SinArchivo, Archivo
  <2>2. renombrando' \in 1..(MaxTemporales + 1)
    BY <1>3, ConstantesLFSTabla DEF Renombra, Numeros
  <2>3. lugar' \in Lugares /\ riesgo' \subseteq Riesgos
    <3>1. CASE dumpeo = "escribe" /\ numero = renombrando
      <4>1. /\ lugar' = IF lugar = "tmp" THEN "tmpc" ELSE "borrado"
            /\ riesgo' = riesgo \cup {"renombre_a_medias"}
        BY <1>3, <3>1 DEF Renombra
      <4> QED
        BY <4>1 DEF Lugares, Riesgos
    <3>2. CASE ~(dumpeo = "escribe" /\ numero = renombrando)
      BY <1>3, <3>2 DEF Renombra
    <3> QED
      BY <3>1, <3>2
  <2> QED
    BY <1>3, <2>1, <2>2, <2>3 DEF Renombra, semaforos
<1>4. CASE TerminaRenombres
  BY <1>4 DEF TerminaRenombres, archivos, semaforos, volcado, historia
<1>5. CASE LeeTemporales
  <2>1. RegistrosDe(tmpc) \subseteq Registro
    BY DEF RegistrosDe, Seguidos, Archivo
  <2>2. PICK S \in Parte(AMediasTmpc, memTable) : temporales' = RegistrosDe(tmpc) \cup S
    BY <1>5 DEF LeeTemporales
  <2>3. S \subseteq memTable
    BY <2>2, ParteDe, AMediasBool
  <2>4. temporales' \subseteq Registro
    BY <2>1, <2>2, <2>3
  <2>5. viva' \in BOOLEAN /\ riesgo' \subseteq Riesgos
    BY <1>5, LecturaDeArchivo, AMediasBool DEF LeeTemporales
  <2> QED
    BY <1>5, <2>4, <2>5 DEF LeeTemporales, archivos, semaforos, volcado
<1>6. CASE Une
  <2>1. cargar' \in [Particiones -> SUBSET Registro]
    <3>1. \A p \in Particiones :
            ActualizarRegistrosParticion(bin[p].registros, DeParticion(temporales, p))
              \subseteq Registro
      BY DEF ActualizarRegistrosParticion, DeParticion, Archivo
    <3>2. CASE \A p \in Particiones : bin[p].existe
      <4>1. cargar' = [p \in Particiones |-> ActualizarRegistrosParticion(bin[p].registros,
                                                DeParticion(temporales, p))]
        BY <1>6, <3>2 DEF Une
      <4> QED
        BY <3>1, <4>1, ZenonT(60)
    <3>3. CASE ~(\A p \in Particiones : bin[p].existe)
      BY <1>6, <3>3 DEF Une
    <3> QED
      BY <3>2, <3>3
  <2>2. viva' \in BOOLEAN /\ riesgo' \subseteq Riesgos
    <3>1. CASE \A p \in Particiones : bin[p].existe
      BY <1>6, <3>1, LecturaDeArchivo DEF Une
    <3>2. CASE ~(\A p \in Particiones : bin[p].existe)
      BY <1>6, <3>2 DEF Une
    <3> QED
      BY <3>1, <3>2
  <2>3. /\ compactador = "une" /\ compactador' \in {"une", "espera_tabla"}
        /\ UNCHANGED <<memTable, archivos, semaforos, renombrando, temporales, pendientes,
                       volcado, lector, aceptados>>
    BY <1>6 DEF Une
  <2> QED
    BY <2>1, <2>2, <2>3 DEF archivos, semaforos, volcado
<1>7. CASE TomaTabla
  BY <1>7 DEF TomaTabla, archivos, volcado, historia
<1>8. ASSUME NEW p \in Particiones, BorraParticion(p)
      PROVE  TypeOK' /\ Semaforos'
  BY <1>8 DEF BorraParticion, SinArchivo, Archivo, semaforos, volcado, historia
<1>9. ASSUME NEW p \in Particiones, CreaParticion(p)
      PROVE  TypeOK' /\ Semaforos'
  BY <1>9 DEF CreaParticion, Vacio, Archivo, semaforos, volcado, historia
<1>10. ASSUME NEW p \in Particiones, EscribeParticion(p)
       PROVE  TypeOK' /\ Semaforos'
  <2>1. Con(cargar[p]) \in Archivo
    BY DEF Con, Archivo
  <2> QED
    BY <1>10, <2>1 DEF EscribeParticion, semaforos, volcado, historia
<1>11. ASSUME NEW p \in Particiones, BorraTemporales(p)
       PROVE  TypeOK' /\ Semaforos'
  <2>1. tmpc' \in [Numeros -> Archivo]
    BY <1>11 DEF BorraTemporales, SinArchivo, Archivo
  <2> QED
    BY <1>11, <2>1 DEF BorraTemporales, Lugares, semaforos, historia
<1>12. CASE SueltaTabla
  BY <1>12 DEF SueltaTabla, archivos, volcado, historia
<1>13. CASE TerminaCompactacion
  BY <1>13 DEF TerminaCompactacion, archivos, volcado, historia
<1> QED
  BY <1>1, <1>2, <1>3, <1>4, <1>5, <1>6, <1>7, <1>8, <1>9, <1>10, <1>11, <1>12, <1>13
     DEF Compacta

\* What a step of a request does to the others, and to the set of those that
\* are reading.
LEMMA PasoDeLector ==
  ASSUME TypeOK, NEW l \in Lectores, NEW r \in Lector, lector' = [lector EXCEPT ![l] = r]
  PROVE  /\ lector' \in [Lectores -> Lector]
         /\ LeyendoDentro' \ {l} = LeyendoDentro \ {l}
         /\ l \in LeyendoDentro' <=>
              /\ l \in Red
              /\ r.fase \in FasesLectura \ {"verifica_tabla", "verifica_memtable", "espera"}
BY DEF TypeOK, LeyendoDentro, Lectores

\* The SELECTs keep types and semaphores.
LEMMA TiposLee ==
  ASSUME TypeOK, Semaforos, NEW l \in Lectores,
         (\E k \in Claves : PideSELECT(l, k)) \/ Lee(l)
  PROVE  TypeOK' /\ Semaforos'
<1> DEFINE Fuera == {"verifica_tabla", "verifica_memtable", "espera"}
<1>lec. \A f \in FasesLectura : lector[l].fase \in FasesLectura =>
          [lector[l] EXCEPT !.fase = f] \in Lector /\ [lector[l] EXCEPT !.fase = f].fase = f
  BY LectorLeyendo, LeyendoEsLector
\* A step that leaves the semaphores alone and lets the request neither in nor out.
<1>a. ASSUME NEW r \in Lector, lector' = [lector EXCEPT ![l] = r],
             r.fase \in FasesLectura \ Fuera /\ l \in Red <=> l \in LeyendoDentro,
             r.fase = "espera" => l \in Red,
             viva' \in BOOLEAN, riesgo' \subseteq Riesgos,
             UNCHANGED <<memTable, archivos, semaforos, compactacion, volcado, aceptados>>
      PROVE  TypeOK' /\ Semaforos'
  <2>d. /\ lector' \in [Lectores -> Lector] /\ LeyendoDentro' \ {l} = LeyendoDentro \ {l}
        /\ l \in LeyendoDentro' <=> l \in LeyendoDentro
    BY <1>a, PasoDeLector
  <2>1. lector' \in [Lectores -> Lector] /\ LeyendoDentro' = LeyendoDentro
    BY <2>d
  <2>e. \A m \in Lectores : lector'[m].fase = "espera" => m \in Red
    BY <1>a DEF TypeOK, Semaforos
  <2>2. TypeOK'
    BY <1>a, <2>1 DEF TypeOK, archivos, semaforos, compactacion, volcado
  <2>3. Semaforos'
    BY <1>a, <2>1, <2>e DEF Semaforos, CompactadorDentro, semaforos, compactacion, volcado
  <2> QED
    BY <2>2, <2>3
<1>1. ASSUME NEW k \in Claves, PideSELECT(l, k)
      PROVE  TypeOK' /\ Semaforos'
  <2> DEFINE r == [fase |-> "verifica_tabla", key |-> k, RegistrosEncontrados |-> {},
                   mem |-> FALSE, desde |-> {q \in aceptados : q.key = k}]
  <2>1. r \in Lector /\ r.fase = "verifica_tabla"
    BY DEF TypeOK, Lector, FasesLectura
  <2>3. l \notin LeyendoDentro
    BY <1>1 DEF PideSELECT, EnFase, LeyendoDentro, FasesLectura
  <2>2. lector' = [lector EXCEPT ![l] = r] /\ viva' \in BOOLEAN /\ riesgo' \subseteq Riesgos
    BY <1>1 DEF PideSELECT, TypeOK, historia
  <2> HIDE DEF r
  <2> QED
    BY <1>1, <2>1, <2>2, <2>3, <1>a DEF PideSELECT, historia
<1>2. ASSUME NEW f \in FasesLectura, NEW g \in FasesLectura, EnFase(l, f), Pasa(l, g),
             l \in Red => (g \in Fuera <=> f \in Fuera), g = "espera" => l \in Red,
             viva' \in BOOLEAN, riesgo' \subseteq Riesgos,
             UNCHANGED <<memTable, archivos, semaforos, compactacion, volcado, aceptados>>
      PROVE  TypeOK' /\ Semaforos'
  <2>1. [lector[l] EXCEPT !.fase = g] \in Lector /\ [lector[l] EXCEPT !.fase = g].fase = g
    BY <1>2, <1>lec DEF EnFase
  <2>2. l \in Red /\ f \notin Fuera <=> l \in LeyendoDentro
    BY <1>2 DEF EnFase, LeyendoDentro
  <2> QED
    BY <1>2, <2>1, <2>2, <1>a DEF Pasa
<1>3. CASE VerificaTabla(l)
  BY <1>3, <1>2 DEF VerificaTabla, FasesLectura, TypeOK, historia
<1>4. CASE VerificaMemTable(l)
  BY <1>4, <1>2 DEF VerificaMemTable, FasesLectura, TypeOK, historia
<1>5. CASE waitearSemTable(l)
  <2> DEFINE r == [lector[l] EXCEPT !.fase = "particion"]
  <2>1. /\ r \in Lector /\ lector' = [lector EXCEPT ![l] = r] /\ r.fase = "particion"
        /\ l \in Red
    BY <1>5, <1>lec DEF waitearSemTable, EnFase, Pasa, FasesLectura, Semaforos
  <2> HIDE DEF r
  <2>2. /\ lector' \in [Lectores -> Lector] /\ LeyendoDentro' \ {l} = LeyendoDentro \ {l}
        /\ l \in LeyendoDentro'
    BY <2>1, PasoDeLector DEF FasesLectura
  <2>3. ~CompactadorDentro /\ LeyendoDentro = {}
    BY <1>5 DEF waitearSemTable, Semaforos
  <2>e. \A m \in Lectores : lector'[m].fase = "espera" => m \in Red
    BY <2>1 DEF TypeOK, Semaforos
  <2>4. TypeOK'
    BY <1>5, <2>2 DEF TypeOK, waitearSemTable, archivos, compactacion, volcado, historia
  <2>5. Semaforos'
    BY <1>5, <2>2, <2>3, <2>e DEF Semaforos, waitearSemTable, CompactadorDentro, compactacion,
                                  volcado
  <2> QED
    BY <2>4, <2>5
\* A search adds records and moves on.
<1>6. ASSUME NEW f \in FasesLectura \ Fuera, NEW g \in FasesLectura \ Fuera, NEW S \in SUBSET Registro,
             EnFase(l, f), Agrega(l, S, g), viva' \in BOOLEAN, riesgo' \subseteq Riesgos,
             UNCHANGED <<memTable, archivos, semaforos, compactacion, volcado, aceptados>>
      PROVE  TypeOK' /\ Semaforos'
  <2> DEFINE r == [lector[l] EXCEPT !.RegistrosEncontrados = @ \cup MasRecientes(S, lector[l].key),
                                    !.fase = g]
  <2>1. MasRecientes(S, lector[l].key) \in SUBSET Registro
    BY DEF MasRecientes
  <2>g. lector[l].fase \in FasesLectura /\ g \in FasesLectura /\ TRUE \in BOOLEAN
    BY <1>6 DEF EnFase
  <2>l. \A M \in SUBSET Registro :
          [lector[l] EXCEPT !.RegistrosEncontrados = @ \cup M, !.fase = g] \in Leyendo
    BY <2>g, LectorLeyendo
  <2>2. r \in Lector
    BY <2>l, <2>1, LeyendoEsLector
  <2>x. lector[l] \in Leyendo
    BY <2>g, LectorLeyendo
  <2>f. r.fase = g
    BY <2>x DEF Leyendo
  <2>3. l \in Red <=> l \in LeyendoDentro
    BY <1>6 DEF EnFase, LeyendoDentro
  <2>4. lector' = [lector EXCEPT ![l] = r]
    BY <1>6 DEF Agrega
  <2> HIDE DEF r
  <2> QED
    BY <1>6, <2>2, <2>f, <2>3, <2>4, <1>a
<1>7. CASE buscarEnParticion(l)
  <2> DEFINE p == particionDeKey(lector[l].key)
  <2>1. lector[l].key \in Claves
    BY <1>7, LectorLeyendo DEF buscarEnParticion, EnFase, FasesLectura
  <2>2. p \in Particiones
    BY <2>1, ParticionValida
  <2>3. /\ bin[p].registros \in SUBSET Registro /\ bin[p].existe \in BOOLEAN
        /\ cargar[p] \in SUBSET Registro
    BY <2>2 DEF TypeOK, Archivo
  <2>4. PICK S \in Parte(AMediasBin(p), cargar[p]) :
               Agrega(l, bin[p].registros \cup S, Orden.particion)
    BY <1>7 DEF buscarEnParticion
  <2>5. S \subseteq cargar[p]
    BY <2>2, <2>4, ParteDe, AMediasBool
  <2>6. viva' \in BOOLEAN /\ riesgo' \subseteq Riesgos
    <3>1. CASE LeeArchivo(AMediasBin(p))
      BY <2>2, <3>1, LecturaDeArchivo, AMediasBool
    <3>2. CASE viva' = FALSE /\ UNCHANGED riesgo
      BY <3>2 DEF TypeOK
    <3> QED
      BY <1>7, <3>1, <3>2 DEF buscarEnParticion
  <2> DEFINE T == bin[p].registros \cup S
  <2>7. T \in SUBSET Registro
    BY <2>3, <2>5
  <2>8. EnFase(l, "particion") /\ Agrega(l, T, Orden.particion)
        /\ UNCHANGED <<memTable, archivos, semaforos, compactacion, volcado, aceptados>>
    BY <1>7, <2>4 DEF buscarEnParticion
  <2> HIDE DEF T
  <2> QED
    BY <2>6, <2>7, <2>8, <1>6 DEF FasesLectura, Orden
<1>8. CASE buscarMemTable(l)
  <2> DEFINE M == MasRecientes(memTable, lector[l].key)
             m == \E q \in memTable : q.key = lector[l].key
             r == [lector[l] EXCEPT !.RegistrosEncontrados = @ \cup M, !.mem = m,
                                    !.fase = Orden.memtable]
  <2>1. CASE dumpeo # "libera"
    <3>1. M \in SUBSET Registro /\ m \in BOOLEAN /\ Orden.memtable \in FasesLectura
      BY DEF MasRecientes, TypeOK, Orden, FasesLectura
    <3>f. r.fase = Orden.memtable
      <4>1. lector[l] \in Leyendo
        BY <1>8, LectorLeyendo DEF buscarMemTable, EnFase, FasesLectura
      <4> QED
        BY <4>1 DEF Leyendo
    <3>2. r \in Lector
      <4> HIDE DEF M, m
      <4> QED
        BY <1>8, <3>1, LectorLeyendo, LeyendoEsLector
           DEF buscarMemTable, EnFase, FasesLectura
    <3>3. l \in Red <=> l \in LeyendoDentro
      BY <1>8 DEF buscarMemTable, EnFase, LeyendoDentro, FasesLectura
    <3>4. lector' = [lector EXCEPT ![l] = r] /\ viva' \in BOOLEAN /\ riesgo' \subseteq Riesgos
      BY <1>8, <2>1 DEF buscarMemTable, TypeOK, historia
    <3> HIDE DEF r
    <3> QED
      BY <1>8, <3>2, <3>f, <3>3, <3>4, <1>a DEF buscarMemTable, Orden, FasesLectura, historia
  <2>2. CASE dumpeo = "libera"
    BY <1>8, <2>2, <1>2 DEF buscarMemTable, FasesLectura, Orden, historia, TypeOK
  <2> QED
    BY <2>1, <2>2
<1>9. CASE buscarEnTemporales(l)
  <2>1. RegistrosDe(tmp) \in SUBSET Registro
    BY DEF RegistrosDe, Seguidos, TypeOK, Archivo
  <2>2. PICK S \in Parte(AMediasTmp, memTable) :
               Agrega(l, RegistrosDe(tmp) \cup S, Orden.temporales)
    BY <1>9 DEF buscarEnTemporales
  <2>3. S \subseteq memTable
    BY <2>2, ParteDe, AMediasBool
  <2>4. viva' \in BOOLEAN /\ riesgo' \subseteq Riesgos
    BY <1>9, LecturaDeArchivo, AMediasBool DEF buscarEnTemporales
  <2> DEFINE T == RegistrosDe(tmp) \cup S
  <2>5. T \in SUBSET Registro
    BY <2>1, <2>3 DEF TypeOK
  <2>6. EnFase(l, "temporales") /\ Agrega(l, T, Orden.temporales)
        /\ UNCHANGED <<memTable, archivos, semaforos, compactacion, volcado, aceptados>>
    BY <1>9, <2>2 DEF buscarEnTemporales
  <2> HIDE DEF T
  <2> QED
    BY <2>4, <2>5, <2>6, <1>6 DEF FasesLectura, Orden
<1>10. CASE buscarEnTemporalesCompactando(l)
  <2>1. viva' \in BOOLEAN /\ riesgo' \subseteq Riesgos
    <3>1. PICK S \in Parte(AMediasTmpc, memTable) :
                 IF \E r \in RegistrosDe(tmpc) \cup S : r.key = lector[l].key
                   THEN /\ viva' \in IF lector[l].mem THEN BOOLEAN ELSE {FALSE}
                        /\ UNCHANGED riesgo
                   ELSE LeeArchivo(AMediasTmpc)
      BY <1>10 DEF buscarEnTemporalesCompactando
    <3>2. CASE \E r \in RegistrosDe(tmpc) \cup S : r.key = lector[l].key
      BY <3>1, <3>2 DEF TypeOK
    <3>3. CASE ~(\E r \in RegistrosDe(tmpc) \cup S : r.key = lector[l].key)
      BY <3>1, <3>3, LecturaDeArchivo, AMediasBool
    <3> QED
      BY <3>2, <3>3
  <2>2. EnFase(l, "compactando") /\ Pasa(l, "responde")
    BY <1>10 DEF buscarEnTemporalesCompactando
  <2> QED
    BY <1>10, <2>1, <2>2, <1>2 DEF buscarEnTemporalesCompactando, FasesLectura
<1>11. CASE RespondeSELECT(l)
  <2>1. PICK ts \in Elegidos(l) : lector' = [lector EXCEPT ![l] =
                      [fase |-> "fin", key |-> lector[l].key, timestamp |-> ts]]
    BY <1>11 DEF RespondeSELECT
  <2> DEFINE r == [fase |-> "fin", key |-> lector[l].key, timestamp |-> ts]
  <2>2. lector[l].key \in Claves /\ lector[l].RegistrosEncontrados \in SUBSET Registro
    BY <1>11, LectorLeyendo DEF RespondeSELECT, EnFase, FasesLectura
  <2>3. ts \in Sellos
    BY <2>1, <2>2, ConstantesLFSTabla DEF Elegidos, MasRecientes, Registro, Sellos
  <2>4. r \in Lector /\ r.fase \notin FasesLectura
    BY <2>2, <2>3 DEF Lector, FasesLectura
  <2>r. lector' = [lector EXCEPT ![l] = r]
    BY <2>1
  <2> HIDE DEF r
  <2>5. /\ lector' \in [Lectores -> Lector] /\ LeyendoDentro' \ {l} = LeyendoDentro \ {l}
        /\ l \notin LeyendoDentro'
    BY <2>r, <2>4, PasoDeLector
  <2>e. \A m \in Lectores : lector'[m].fase = "espera" => m \in Red
    BY <2>r, <2>4 DEF TypeOK, Semaforos, FasesLectura
  <2>6. l \in Red <=> l \in LeyendoDentro
    BY <1>11 DEF RespondeSELECT, EnFase, LeyendoDentro, FasesLectura
  <2>7. l \in Red => semaforoCompactacion = 0 /\ LeyendoDentro = {l} /\ ~CompactadorDentro
    BY <2>6 DEF Semaforos, TypeOK
  <2>8. TypeOK'
    BY <1>11, <2>5, <2>7 DEF TypeOK, RespondeSELECT, archivos, compactacion, volcado, historia
  <2>9. Semaforos'
    BY <1>11, <2>5, <2>6, <2>7, <2>e
       DEF Semaforos, RespondeSELECT, CompactadorDentro, compactacion, volcado, TypeOK
  <2> QED
    BY <2>8, <2>9
<1> QED
  BY <1>1, <1>3, <1>4, <1>5, <1>7, <1>8, <1>9, <1>10, <1>11 DEF Lee

\* After a restart nobody is inside.
LEMMA TiposReinicio ==
  ASSUME TypeOK, Semaforos, Caida \/ Reinicio
  PROVE  TypeOK' /\ Semaforos'
<1>1. CASE Caida
  BY <1>1 DEF Caida, TypeOK, Semaforos, CompactadorDentro, LeyendoDentro, archivos,
              semaforos, compactacion, volcado, historia
<1>2. CASE Reinicio
  <2>1. /\ lector' \in [Lectores -> Lector]
        /\ \A l \in Lectores : lector'[l].fase \notin FasesLectura
    BY <1>2 DEF Reinicio, TypeOK, SinPedir, Lector, FasesLectura
  <2>2. LeyendoDentro' = {}
    BY <2>1 DEF LeyendoDentro, Lectores
  <2>3. aceptados' \subseteq Registro /\ riesgo' \subseteq Riesgos
    BY <1>2 DEF Reinicio, TypeOK, Riesgos
  <2>4. TypeOK'
    BY <1>2, <2>1, <2>3, ConstantesLFSTabla
       DEF Reinicio, TypeOK, archivos, FasesCompactador, FasesDumpeo, Lugares
  <2>5. Semaforos'
    BY <1>2, <2>1, <2>2 DEF Reinicio, Semaforos, CompactadorDentro, Ocupando, FasesLectura
  <2> QED
    BY <2>4, <2>5
<1> QED
  BY <1>1, <1>2

LEMMA TiposPaso == TypeOK /\ Semaforos /\ [Next]_vars => TypeOK' /\ Semaforos'
<1> SUFFICES ASSUME TypeOK, Semaforos, [Next]_vars
             PROVE  TypeOK' /\ Semaforos'
  OBVIOUS
<1>1. CASE Next
  BY <1>1, TiposDump, TiposCompacta, TiposLee, TiposReinicio DEF Next
<1>2. CASE UNCHANGED vars
  BY <1>2 DEF vars, archivos, semaforos, compactacion, volcado, historia, TypeOK,
              Semaforos, CompactadorDentro, LeyendoDentro
<1> QED
  BY <1>1, <1>2

\* Every variable keeps its type: no semaphore is posted above 1 by the dump,
\* the compaction or a SELECT, and no file number leaves its range.
THEOREM TipoCorrecto == Spec => []TypeOK
<1>1. TypeOK /\ Semaforos /\ [Next]_vars => (TypeOK /\ Semaforos)'
  BY TiposPaso
<1> QED
  BY TiposInit, <1>1, PTL DEF Spec

\* A compaction and the SELECTs of the memories never overlap, however many
\* requests there are.
THEOREM ExclusionMutua == Spec => []Exclusion
<1>1. TypeOK /\ Semaforos /\ [Next]_vars => (TypeOK /\ Semaforos)'
  BY TiposPaso
<1>2. TypeOK /\ Semaforos => Exclusion
  BY DEF TypeOK, Semaforos, Exclusion
<1> QED
  BY TiposInit, <1>1, <1>2, PTL DEF Spec

\* Three semaphores taken in different orders by the dump, the compaction and the
\* SELECTs: none of them waits for one that is waiting for it.
THEOREM SinAbrazoMortal == Spec => []SinEsperaCircular
<1>1. TypeOK /\ Semaforos /\ [Next]_vars => (TypeOK /\ Semaforos)'
  BY TiposPaso
<1>2. TypeOK /\ Semaforos => SinEsperaCircular
  BY DEF TypeOK, Semaforos, SinEsperaCircular, Ocupando, FasesDumpeo
<1> QED
  BY TiposInit, <1>1, <1>2, PTL DEF Spec

-----------------------------------------------------------------------------
(* The newest record of a key.                                             *)

\* Timestamps are bounded, so among the records of a key there is a newest one.
LEMMA HayMasReciente ==
  ASSUME NEW S \in SUBSET Registro, NEW r \in S
  PROVE  \E q \in S : /\ q.key = r.key /\ q.timestamp >= r.timestamp
                      /\ \A x \in S : x.key = r.key => x.timestamp <= q.timestamp
<1> DEFINE T == {MaxTimestamp - x.timestamp : x \in {y \in S : y.key = r.key}}
<1>1. \A x \in S : x.timestamp \in Nat /\ x.timestamp <= MaxTimestamp
  BY ConstantesLFSTabla DEF Registro
<1>2. T \subseteq Nat /\ T # {}
  BY <1>1, ConstantesLFSTabla
<1>3. PICK n \in T : \A m \in T : <<m, n>> \notin OpToRel(<, Nat)
  <2> HIDE DEF T
  <2> QED
    BY <1>2, NatLessThanWellFounded, WFMin
<1>4. PICK q \in S : q.key = r.key /\ n = MaxTimestamp - q.timestamp
  BY <1>3
<1>5. \A x \in S : x.key = r.key => x.timestamp <= q.timestamp
  <2> SUFFICES ASSUME NEW x \in S, x.key = r.key, x.timestamp > q.timestamp
               PROVE  FALSE
    BY <1>1
  <2> DEFINE m == MaxTimestamp - x.timestamp
  <2>1. m \in T /\ m \in Nat /\ n \in Nat /\ m < n
    BY <1>1, <1>2, <1>4, ConstantesLFSTabla
  <2>2. <<m, n>> \in OpToRel(<, Nat)
    BY <2>1 DEF OpToRel
  <2> QED
    BY <1>3, <2>1, <2>2
<1> QED
  BY <1>1, <1>4, <1>5

\* Being superseded composes.
LEMMA Supersede ==
  ASSUME NEW r \in Registro, NEW S \in SUBSET Registro, NEW T \in SUBSET Registro,
         SupersedidoEn(r, S), \A q \in S : SupersedidoEn(q, T)
  PROVE  SupersedidoEn(r, T)
<1>1. PICK q \in S : q.key = r.key /\ q.timestamp >= r.timestamp
  BY DEF SupersedidoEn
<1>2. PICK x \in T : x.key = q.key /\ x.timestamp >= q.timestamp
  BY DEF SupersedidoEn
<1>3. r.timestamp \in Int /\ q.timestamp \in Int /\ x.timestamp \in Int
  BY DEF Registro
<1>4. x.key = r.key /\ x.timestamp >= r.timestamp
  BY <1>1, <1>2, <1>3
<1> QED
  BY <1>4 DEF SupersedidoEn

LEMMA SupersedidoPorSi ==
  ASSUME NEW S \in SUBSET Registro, NEW r \in S
  PROVE  SupersedidoEn(r, S)
BY DEF SupersedidoEn, Registro

\* The records merged for a partition supersede those they were merged from.
LEMMA MezclaSupersede ==
  ASSUME NEW P \in SUBSET Registro, NEW T \in SUBSET Registro, NEW r \in P \cup T
  PROVE  SupersedidoEn(r, ActualizarRegistrosParticion(P, T))
<1>1. PICK q \in P \cup T : /\ q.key = r.key /\ q.timestamp >= r.timestamp
                            /\ \A x \in P \cup T : x.key = r.key => x.timestamp <= q.timestamp
  BY HayMasReciente
<1> QED
  BY <1>1 DEF SupersedidoEn, ActualizarRegistrosParticion

\* Where a record of Guardados is, in a state and in the next one.
LEMMA DondeEsta ==
  ASSUME NEW r
  PROVE  /\ r \in EnArchivos <=> \/ \E i \in Numeros : r \in tmp[i].registros
                                 \/ \E i \in Numeros : r \in tmpc[i].registros
                                 \/ \E p \in Particiones : r \in bin[p].registros
         /\ r \in Guardados <=> \/ r \in EnArchivos \/ r \in temporales
                                \/ \E p \in Particiones : r \in cargar[p]
<1> DEFINE T == UNION {tmp[i].registros \cup tmpc[i].registros : i \in Numeros}
           B == UNION {bin[p].registros : p \in Particiones}
           C == UNION {cargar[p] : p \in Particiones}
<1>1. r \in T <=> \/ \E i \in Numeros : r \in tmp[i].registros
                  \/ \E i \in Numeros : r \in tmpc[i].registros
  OBVIOUS
<1>2. r \in B <=> \E p \in Particiones : r \in bin[p].registros
  OBVIOUS
<1>3. r \in C <=> \E p \in Particiones : r \in cargar[p]
  OBVIOUS
<1>4. EnArchivos = T \cup B
  BY Zenon DEF EnArchivos
<1>5. Guardados = EnArchivos \cup temporales \cup C
  BY Zenon DEF Guardados
<1> HIDE DEF T, B, C
<1>6. r \in EnArchivos <=> r \in T \/ r \in B
  BY <1>4
<1>7. r \in Guardados <=> r \in EnArchivos \/ r \in temporales \/ r \in C
  BY <1>5
<1> QED
  BY <1>1, <1>2, <1>3, <1>6, <1>7

LEMMA DondeEstara ==
  ASSUME NEW r
  PROVE  /\ r \in EnArchivos' <=> \/ \E i \in Numeros : r \in tmp'[i].registros
                                  \/ \E i \in Numeros : r \in tmpc'[i].registros
                                  \/ \E p \in Particiones : r \in bin'[p].registros
         /\ r \in Guardados' <=> \/ r \in EnArchivos' \/ r \in temporales'
                                 \/ \E p \in Particiones : r \in cargar'[p]
<1> DEFINE T == UNION {tmp'[i].registros \cup tmpc'[i].registros : i \in Numeros}
           B == UNION {bin'[p].registros : p \in Particiones}
           C == UNION {cargar'[p] : p \in Particiones}
<1>1. r \in T <=> \/ \E i \in Numeros : r \in tmp'[i].registros
                  \/ \E i \in Numeros : r \in tmpc'[i].registros
  OBVIOUS
<1>2. r \in B <=> \E p \in Particiones : r \in bin'[p].registros
  OBVIOUS
<1>3. r \in C <=> \E p \in Particiones : r \in cargar'[p]
  OBVIOUS
<1>4. EnArchivos' = T \cup B
  BY Zenon DEF EnArchivos
<1>5. Guardados' = EnArchivos' \cup temporales' \cup C
  BY Zenon DEF Guardados
<1> HIDE DEF T, B, C
<1>6. r \in EnArchivos' <=> r \in T \/ r \in B
  BY <1>4
<1>7. r \in Guardados' <=> r \in EnArchivos' \/ r \in temporales' \/ r \in C
  BY <1>5
<1> QED
  BY <1>1, <1>2, <1>3, <1>6, <1>7

LEMMA GuardadosRegistro ==
  /\ TypeOK => Guardados \in SUBSET Registro
  /\ TypeOK' => Guardados' \in SUBSET Registro
<1>1. TypeOK => \A r \in Guardados : r \in Registro
  BY DondeEsta DEF TypeOK, Archivo
<1>2. TypeOK' => \A r \in Guardados' : r \in Registro
  BY DondeEstara DEF TypeOK, Archivo
<1> QED
  BY <1>1, <1>2

\* If every record of Guardados is superseded in the next state, and neither the
\* memtable nor the accepted records change, nothing is lost.
LEMMA Hereda ==
  ASSUME TypeOK, TypeOK', \A q \in Guardados : SupersedidoEn(q, Guardados'),
         UNCHANGED <<memTable, aceptados>>
  PROVE  /\ Conservados => Conservados'
         /\ (\A r \in memTable : SupersedidoEn(r, Guardados)) =>
              (\A r \in memTable' : SupersedidoEn(r, Guardados'))
<1>1. Guardados \in SUBSET Registro /\ Guardados' \in SUBSET Registro
      /\ memTable \in SUBSET Registro /\ aceptados \in SUBSET Registro
  BY GuardadosRegistro DEF TypeOK
<1>2. \A q \in memTable \cup Guardados : SupersedidoEn(q, memTable \cup Guardados')
  BY <1>1, SupersedidoPorSi DEF SupersedidoEn
<1>3. Conservados => Conservados'
  BY <1>1, <1>2, Supersede DEF Conservados
<1> QED
  BY <1>1, <1>3, Supersede

-----------------------------------------------------------------------------
(* No step loses a record.                                                 *)

\* What the requests, INSERT and most of the dump leave alone.
LEMMA ArchivosQuietos ==
  ASSUME UNCHANGED <<archivos, compactacion>>, SoloExistentes, Renombrados, EnManos
  PROVE  Guardados' = Guardados /\ SoloExistentes' /\ Renombrados' /\ EnManos'
<1>1. Guardados' = Guardados
  BY DEF Guardados, EnArchivos, archivos, compactacion
<1>2. SoloExistentes'
  BY DEF SoloExistentes, archivos
<1>3. Renombrados'
  BY DEF Renombrados, SinContenido, Seguidos, archivos, compactacion
<1>4. EnManos'
  BY DEF EnManos, EnTurno, DeParticion, SupersedidoEn, archivos, compactacion
<1> QED
  BY <1>1, <1>2, <1>3, <1>4

\* The requests and a death leave everything alone.
LEMMA DatosQuietos ==
  ASSUME Datos, UNCHANGED <<memTable, archivos, compactacion, volcado, aceptados>>
  PROVE  Datos'
<1>1. Guardados' = Guardados /\ SoloExistentes' /\ Renombrados' /\ EnManos'
  BY ArchivosQuietos DEF Datos
<1>2. Volcando'
  BY <1>1 DEF Datos, Volcando, archivos, volcado
<1>3. Conservados'
  BY <1>1 DEF Datos, Conservados
<1> QED
  BY <1>1, <1>2, <1>3 DEF Datos

\* INSERT and the dump.
LEMMA DatosDump ==
  ASSUME TypeOK, TypeOK', Semaforos, Datos, riesgo \subseteq {"hueco", "lee_a_medias"},
         (\E k \in Claves, ts \in 1..MaxTimestamp : INSERT(k, ts)) \/ Dump
  PROVE  Datos'
<1>1. ASSUME NEW k \in Claves, NEW ts \in 1..MaxTimestamp, INSERT(k, ts)
      PROVE  Datos'
  <2>1. dumpeo = "duerme"
    BY <1>1 DEF INSERT, Semaforos
  <2>2. UNCHANGED <<archivos, compactacion, volcado>>
    BY <1>1 DEF INSERT
  <2>3. Guardados' = Guardados /\ SoloExistentes' /\ Renombrados' /\ EnManos'
    BY <2>2, ArchivosQuietos DEF Datos
  <2>4. Volcando'
    BY <2>1, <2>2 DEF Volcando, volcado
  <2>5. Conservados'
    <3> DEFINE n == [key |-> k, timestamp |-> ts]
    <3>1. SupersedidoEn(n, {n})
      BY DEF SupersedidoEn
    <3>2. aceptados' = aceptados \cup {n} /\ memTable' = memTable \cup {n}
      BY <1>1 DEF INSERT
    <3> HIDE DEF n
    <3> QED
      BY <3>1, <3>2, <2>3 DEF Datos, Conservados, SupersedidoEn
  <2> QED
    BY <2>3, <2>4, <2>5 DEF Datos
<1>2. ASSUME UNCHANGED <<memTable, archivos, compactacion, historia>>, dumpeo' = "numera"
      PROVE  Datos'
  <2>1. Guardados' = Guardados /\ SoloExistentes' /\ Renombrados' /\ EnManos'
    BY <1>2, ArchivosQuietos DEF Datos
  <2> QED
    BY <1>2, <2>1 DEF Datos, Volcando, Conservados, historia
<1>3. CASE EmpiezaDump \/ SaltaNumero
  BY <1>2, <1>3 DEF EmpiezaDump, SaltaNumero
<1>4. CASE CreaTemporal
  <2>1. tmp[numero].registros = {} /\ numero \in Numeros
    BY <1>4 DEF CreaTemporal, Datos, SoloExistentes
  <2>2. /\ tmp' = [tmp EXCEPT ![numero] = Vacio] /\ lugar' = "tmp" /\ numero' = numero
        /\ dumpeo' = "escribe" /\ UNCHANGED <<memTable, tmpc, bin, compactacion, aceptados>>
    BY <1>4 DEF CreaTemporal
  <2>3. SoloExistentes' /\ Volcando' /\ \A i \in Numeros : tmp[i].registros = tmp'[i].registros
    BY <2>1, <2>2 DEF TypeOK, Datos, SoloExistentes, Volcando, Vacio
  <2>4. Renombrados' /\ EnManos'
    BY <2>2 DEF Datos, Renombrados, EnManos, SinContenido, Seguidos, EnTurno, compactacion
  <2>5. Guardados' = Guardados
    BY <2>2, <2>3 DEF Guardados, EnArchivos, compactacion
  <2>6. Conservados'
    BY <2>2, <2>5 DEF Datos, Conservados
  <2> QED
    BY <2>3, <2>4, <2>6 DEF Datos
<1>5. CASE EscribeTemporal
  <2>1. lugar = "tmp" /\ numero \in Numeros /\ tmp[numero] = Vacio
    BY <1>5 DEF EscribeTemporal, Datos, Volcando
  <2>2. /\ tmp' = [tmp EXCEPT ![numero] = Con(memTable)] /\ tmpc' = tmpc /\ numero' = numero
        /\ dumpeo' = "libera" /\ UNCHANGED <<memTable, bin, compactacion, aceptados>>
    BY <1>5, <2>1 DEF EscribeTemporal, historia
  <2>3. /\ tmp'[numero].registros = memTable /\ tmp'[numero].existe
        /\ \A i \in Numeros : i # numero => tmp'[i] = tmp[i]
        /\ tmp[numero].registros = {}
    BY <2>1, <2>2 DEF TypeOK, Con, Vacio
  <2>4. SoloExistentes'
    BY <2>2, <2>3 DEF Datos, SoloExistentes
  <2>5. Renombrados' /\ EnManos'
    BY <2>2 DEF Datos, Renombrados, EnManos, SinContenido, Seguidos, EnTurno, compactacion
  <2>6. memTable' \subseteq Guardados' /\ Guardados \subseteq Guardados'
    <3>1. \A r \in memTable' : r \in EnArchivos'
      BY <2>1, <2>2, <2>3, DondeEstara
    <3>2. \A r \in EnArchivos : r \in EnArchivos'
      BY <2>1, <2>2, <2>3, DondeEsta, DondeEstara
    <3> QED
      BY <2>2, <3>1, <3>2 DEF Guardados, compactacion
  <2>7. Guardados' \in SUBSET Registro
    BY GuardadosRegistro
  <2>8. Volcando'
    BY <2>2, <2>6, <2>7, SupersedidoPorSi DEF Volcando
  <2>9. Conservados'
    BY <2>2, <2>6 DEF Datos, Conservados, SupersedidoEn
  <2> QED
    BY <2>4, <2>5, <2>8, <2>9 DEF Datos
<1>6. CASE TerminaDump
  <2>1. UNCHANGED <<archivos, compactacion, aceptados>> /\ dumpeo' = "duerme"
    BY <1>6 DEF TerminaDump, historia
  <2>2. Guardados' = Guardados /\ SoloExistentes' /\ Volcando' /\ Renombrados' /\ EnManos'
    BY <2>1, ArchivosQuietos DEF Datos, Volcando
  <2>3. \A r \in memTable \cup Guardados : SupersedidoEn(r, Guardados)
    BY <1>6, GuardadosRegistro, SupersedidoPorSi DEF TerminaDump, Datos, Volcando
  <2>4. Conservados'
    <3>1. Guardados \in SUBSET Registro /\ memTable \in SUBSET Registro
          /\ aceptados \in SUBSET Registro
      BY GuardadosRegistro DEF TypeOK
    <3>2. \A r \in aceptados : SupersedidoEn(r, Guardados)
      BY <2>3, <3>1, Supersede DEF Datos, Conservados
    <3> QED
      BY <2>1, <2>2, <3>2 DEF Conservados, SupersedidoEn
  <2> QED
    BY <2>2, <2>4 DEF Datos
<1> QED
  BY <1>1, <1>2, <1>3, <1>4, <1>5, <1>6 DEF Dump

\* How a step of the compaction that moves records about is shown harmless.
LEMMA DatosCompactando ==
  ASSUME TypeOK, TypeOK', Datos, UNCHANGED <<memTable, aceptados, dumpeo>>,
         SoloExistentes', Renombrados', EnManos',
         \A q \in Guardados : SupersedidoEn(q, Guardados'),
         dumpeo = "escribe" => UNCHANGED <<numero, lugar>> /\ tmp'[numero] = tmp[numero]
  PROVE  Datos'
<1>1. Conservados'
  BY Hereda DEF Datos
<1>2. Volcando'
  BY Hereda DEF Datos, Volcando
<1> QED
  BY <1>1, <1>2 DEF Datos

\* The same when no copy disappears.
LEMMA DatosCreciendo ==
  ASSUME TypeOK, TypeOK', Datos, UNCHANGED <<memTable, aceptados, dumpeo>>,
         SoloExistentes', Renombrados', EnManos',
         \A q \in Guardados : q \in Guardados',
         dumpeo = "escribe" => UNCHANGED <<numero, lugar>> /\ tmp'[numero] = tmp[numero]
  PROVE  Datos'
<1>1. \A q \in Guardados : SupersedidoEn(q, Guardados')
  BY GuardadosRegistro, SupersedidoPorSi
<1> QED
  BY <1>1, DatosCompactando

\* The renames, up to the partitions being merged.
LEMMA DatosRenombra ==
  ASSUME TypeOK, TypeOK', Datos,
         riesgo \subseteq {"hueco", "lee_a_medias"}, riesgo' \subseteq {"hueco", "lee_a_medias"},
         EncuentraTemporal \/ EmpiezaCompactacion \/ Renombra \/ TerminaRenombres
  PROVE  Datos'
<1> USE DEF Datos
<1>1. CASE EncuentraTemporal \/ EmpiezaCompactacion \/ TerminaRenombres
  <2>1. UNCHANGED <<memTable, archivos, temporales, cargar, pendientes, volcado, historia>>
    BY <1>1 DEF EncuentraTemporal, EmpiezaCompactacion, TerminaRenombres
  <2>2. /\ compactador \in {"duerme", "espera", "renombra"}
        /\ compactador' \in {"espera", "renombra", "lee"}
        /\ compactador' = "espera" => compactador = "duerme"
        /\ compactador' = "renombra" => compactador = "espera" /\ renombrando' = 1
    BY <1>1 DEF EncuentraTemporal, EmpiezaCompactacion, TerminaRenombres
  <2>3. SoloExistentes'
    BY <2>1 DEF SoloExistentes, archivos
  <2>4. Renombrados'
    <3>1. compactador' \in {"espera", "renombra"} => SinContenido(tmpc)
      BY <2>2 DEF Renombrados
    <3>2. \A i \in Numeros : i >= 1 /\ ~(i < 1)
      BY ConstantesLFSTabla DEF Numeros
    <3>3. \A i \in Numeros : tmpc[i].registros # {} => i \in Seguidos(tmpc)
      BY DEF Renombrados
    <3> QED
      BY <2>1, <2>2, <3>1, <3>2, <3>3
         DEF Renombrados, SinContenido, Seguidos, archivos, Cargadas, Ocupando
  <2>5. EnManos'
    BY <2>1, <2>2 DEF EnManos, Cargadas, Ocupando
  <2>6. Guardados' = Guardados
    BY <2>1 DEF Guardados, EnArchivos, archivos
  <2> QED
    BY <2>1, <2>3, <2>4, <2>5, <2>6, DatosCreciendo DEF archivos, volcado, historia
<1>2. CASE Renombra
  <2> DEFINE n == renombrando
  <2>1. /\ n \in Numeros /\ tmp[n].existe /\ n' = n + 1
        /\ tmpc' = [tmpc EXCEPT ![n] = tmp[n]] /\ tmp' = [tmp EXCEPT ![n] = SinArchivo]
        /\ compactador = "renombra" /\ compactador' = "renombra"
        /\ UNCHANGED <<memTable, bin, temporales, cargar, pendientes, dumpeo, numero, aceptados>>
    BY <1>2 DEF Renombra
  <2>2. ~(dumpeo = "escribe" /\ numero = n) /\ UNCHANGED lugar
    BY <1>2 DEF Renombra
  <2>3. /\ tmpc'[n] = tmp[n] /\ tmp'[n] = SinArchivo
        /\ \A i \in Numeros : i # n => tmpc'[i] = tmpc[i] /\ tmp'[i] = tmp[i]
    BY <2>1 DEF TypeOK
  <2>4. SoloExistentes'
    BY <2>1, <2>3 DEF SoloExistentes, SinArchivo
  <2>5. Renombrados'
    <3>1. \A i \in Numeros : /\ i < n + 1 => tmpc'[i].existe
                             /\ i >= n + 1 => tmpc'[i].registros = {}
      BY <2>1, <2>3, ConstantesLFSTabla DEF Renombrados, Numeros
    <3>2. \A i \in Numeros : tmpc'[i].registros # {} => i \in Seguidos(tmpc')
      BY <2>1, <3>1, ConstantesLFSTabla DEF Seguidos, Numeros
    <3>3. Seguidos(tmpc)' = Seguidos(tmpc')
      BY DEF Seguidos
    <3> QED
      BY <2>1, <3>1, <3>2, <3>3 DEF Renombrados, Cargadas, Ocupando
  <2>6. EnManos'
    BY <2>1 DEF EnManos, Cargadas, Ocupando
  <2>7. \A q \in Guardados : q \in Guardados'
    <3>1. tmpc[n].registros = {}
      BY <2>1, ConstantesLFSTabla DEF Renombrados, Numeros
    <3>2. \A q \in EnArchivos : q \in EnArchivos'
      BY <2>1, <2>3, <3>1, DondeEsta, DondeEstara
    <3> QED
      BY <2>1, <3>2, DondeEsta, DondeEstara
  <2>8. dumpeo = "escribe" => tmp'[numero] = tmp[numero]
    BY <2>2, <2>3 DEF Volcando
  <2> QED
    BY <2>1, <2>2, <2>4, <2>5, <2>6, <2>7, <2>8, DatosCreciendo
<1> QED
  BY <1>1, <1>2

\* The temporals read and merged with the partitions, and the table taken.
LEMMA DatosLee ==
  ASSUME TypeOK, TypeOK', Datos, LeeTemporales \/ Une \/ TomaTabla
  PROVE  Datos'
<1> USE DEF Datos
<1>0. UNCHANGED <<memTable, archivos, volcado, aceptados>>
  BY DEF LeeTemporales, Une, TomaTabla, historia
<1>1. SoloExistentes'
  BY <1>0 DEF SoloExistentes, archivos
<1>2. Seguidos(tmpc)' = Seguidos(tmpc)
  BY <1>0 DEF Seguidos, archivos
<1>3. \A i \in Numeros : tmpc[i].registros # {} => i \in Seguidos(tmpc)
  BY DEF Renombrados
<1>4. CASE LeeTemporales
  <2>1. /\ compactador = "lee" /\ compactador' = "une" /\ RegistrosDe(tmpc) \subseteq temporales'
        /\ temporales = {} /\ UNCHANGED <<cargar, pendientes>>
    BY <1>4 DEF LeeTemporales, EnManos, Cargadas, Ocupando
  <2>2. \A i \in Numeros : tmpc[i].registros \subseteq temporales'
    BY <1>3, <2>1 DEF RegistrosDe
  <2>3. Renombrados'
    BY <1>0, <1>2, <1>3, <2>1, <2>2 DEF Renombrados, archivos, Cargadas, Ocupando
  <2>4. EnManos'
    BY <2>1 DEF EnManos, Cargadas, Ocupando
  <2>5. \A q \in Guardados : q \in Guardados'
    BY <1>0, <2>1, DondeEsta, DondeEstara DEF archivos
  <2> QED
    BY <1>0, <1>1, <2>3, <2>4, <2>5, DatosCreciendo DEF archivos, volcado
<1>5. CASE Une
  <2>1. CASE \A p \in Particiones : bin[p].existe
    <3> DEFINE T(p) == DeParticion(temporales, p)
    <3>1. /\ compactador = "une" /\ compactador' = "espera_tabla"
          /\ UNCHANGED <<temporales, pendientes>>
          /\ cargar' = [p \in Particiones |->
                          ActualizarRegistrosParticion(bin[p].registros, T(p))]
      BY <1>5, <2>1 DEF Une
    <3>2. \A p \in Particiones : cargar[p] = {}
      BY <3>1 DEF EnManos, Cargadas, Ocupando
    <3>3. Renombrados'
      BY <1>0, <1>2, <1>3, <3>1 DEF Renombrados, archivos, Cargadas, Ocupando
    <3>4. ASSUME NEW p \in Particiones, NEW r \in bin[p].registros \cup T(p)
          PROVE  SupersedidoEn(r, cargar'[p])
      <4>1. bin[p].registros \in SUBSET Registro /\ T(p) \in SUBSET Registro
        BY DEF TypeOK, Archivo, DeParticion
      <4>2. SupersedidoEn(r, ActualizarRegistrosParticion(bin[p].registros, T(p)))
        BY <3>4, <4>1, MezclaSupersede
      <4> QED
        BY <3>1, <4>2
    <3>5. bin' = bin /\ \A p \in Particiones : DeParticion(temporales, p)' = T(p)
      BY <1>0, <3>1 DEF archivos, DeParticion
    <3>6. EnManos'
      BY <3>1, <3>4, <3>5 DEF EnManos, Cargadas, Ocupando, SupersedidoEn
    <3>7. \A q \in Guardados : q \in Guardados'
      BY <1>0, <3>1, <3>2, DondeEsta, DondeEstara DEF archivos
    <3> QED
      BY <1>0, <1>1, <3>3, <3>6, <3>7, DatosCreciendo DEF archivos, volcado
  <2>2. CASE ~(\A p \in Particiones : bin[p].existe)
    <3>1. UNCHANGED compactacion
      BY <1>5, <2>2 DEF Une, compactacion
    <3> QED
      BY <1>0, <3>1, DatosQuietos
  <2> QED
    BY <2>1, <2>2
<1>6. CASE TomaTabla
  <2>1. /\ compactador = "espera_tabla" /\ compactador' = "borra"
        /\ pendientes' = {p \in Particiones : cargar[p] # {}} /\ UNCHANGED <<temporales, cargar>>
    BY <1>6 DEF TomaTabla
  <2>2. Renombrados'
    BY <1>0, <1>2, <1>3, <2>1 DEF Renombrados, archivos, Cargadas, Ocupando
  <2>3. \A p \in Particiones : DeParticion(temporales, p)' = DeParticion(temporales, p)
    BY <2>1 DEF DeParticion
  <2>4. EnManos'
    BY <1>0, <2>1, <2>3 DEF EnManos, archivos, Cargadas, Ocupando, SupersedidoEn
  <2>5. Guardados' = Guardados
    BY <1>0, <2>1 DEF Guardados, EnArchivos, archivos
  <2> QED
    BY <1>0, <1>1, <2>2, <2>4, <2>5, DatosCreciendo DEF archivos, volcado
<1> QED
  BY <1>4, <1>5, <1>6

\* A partition's file being replaced: its old contents are superseded by the
\* list that will be written.
LEMMA DatosParticion ==
  ASSUME TypeOK, TypeOK', Datos, NEW p \in Particiones,
         BorraParticion(p) \/ CreaParticion(p) \/ EscribeParticion(p)
  PROVE  Datos'
<1> USE DEF Datos
<1>1. /\ UNCHANGED <<memTable, tmp, tmpc, temporales, cargar, pendientes, volcado, aceptados>>
      /\ EnTurno(p) /\ compactador \in Ocupando /\ compactador' \in {"crea", "escribe", "limpia"}
  BY DEF BorraParticion, CreaParticion, EscribeParticion, historia, Ocupando
<1>2. PICK f \in {SinArchivo, Vacio, Con(cargar[p])} :
        /\ bin' = [bin EXCEPT ![p] = f]
        /\ compactador' = "limpia" => f = Con(cargar[p])
  BY DEF BorraParticion, CreaParticion, EscribeParticion
<1>3. /\ bin'[p] = f /\ f.registros \subseteq cargar[p]
      /\ compactador' = "limpia" => f.registros = cargar[p]
      /\ \A q \in Particiones : q # p => bin'[q] = bin[q]
  BY <1>2 DEF TypeOK, SinArchivo, Vacio, Con
<1>4. SoloExistentes'
  BY <1>1 DEF SoloExistentes
<1>5. Renombrados'
  <2>1. Seguidos(tmpc)' = Seguidos(tmpc)
    BY <1>1 DEF Seguidos
  <2>2. \A i \in Numeros : tmpc[i].registros # {} => i \in Seguidos(tmpc)
    BY DEF Renombrados
  <2> QED
    BY <1>1, <2>1, <2>2 DEF Renombrados, SinContenido, Cargadas, Ocupando
<1>6. \A q \in Particiones : cargar[q] \in SUBSET Registro
  BY DEF TypeOK
<1>7. EnManos'
  <2>1. ASSUME NEW q \in Particiones,
               NEW r \in bin'[q].registros \cup DeParticion(temporales, q)
        PROVE  SupersedidoEn(r, cargar[q])
    <3>1. CASE r \in bin[q].registros \cup DeParticion(temporales, q)
      BY <1>1, <3>1 DEF EnManos, Cargadas
    <3>2. CASE r \in cargar[q]
      BY <1>6, <3>2, SupersedidoPorSi
    <3> QED
      BY <1>3, <2>1, <3>1, <3>2
  <2>2. \A q \in Particiones \ pendientes : cargar[q] \subseteq bin'[q].registros
    BY <1>1, <1>3 DEF EnManos, EnTurno
  <2>3. compactador' = "limpia" => \A q \in Particiones :
          EnTurno(q) => cargar[q] \subseteq bin'[q].registros
    <3>1. \A q \in Particiones : EnTurno(q) => q = p
      BY <1>1, ConstantesLFSTabla DEF EnTurno, Particiones, TypeOK
    <3> QED
      BY <1>3, <3>1
  <2>4. \A q \in Particiones : DeParticion(temporales, q)' = DeParticion(temporales, q)
                                 /\ EnTurno(q)' = EnTurno(q)
    BY <1>1 DEF DeParticion, EnTurno
  <2> QED
    BY <1>1, <2>1, <2>2, <2>3, <2>4 DEF EnManos, Cargadas, Ocupando, SupersedidoEn
<1>8. ASSUME NEW q \in Guardados
      PROVE  SupersedidoEn(q, Guardados')
  <2>1. CASE q \in Guardados'
    BY <2>1, GuardadosRegistro, SupersedidoPorSi
  <2>2. CASE q \notin Guardados'
    <3>1. q \in bin[p].registros
      BY <1>1, <1>3, <2>2, DondeEsta, DondeEstara
    <3>2. SupersedidoEn(q, cargar[p])
      BY <1>1, <3>1 DEF EnManos, Cargadas
    <3>3. \A r \in cargar[p] : r \in Guardados'
      BY <1>1, DondeEstara
    <3> QED
      BY <3>2, <3>3 DEF SupersedidoEn
  <2> QED
    BY <2>1, <2>2
<1> QED
  BY <1>1, <1>4, <1>5, <1>7, <1>8, DatosCompactando DEF volcado

\* The temporals removed after a partition: what they held is in the lists.
LEMMA DatosLimpia ==
  ASSUME TypeOK, TypeOK', Datos, NEW p \in Particiones, BorraTemporales(p)
  PROVE  Datos'
<1> USE DEF Datos
<1>1. /\ UNCHANGED <<memTable, tmp, bin, temporales, cargar, dumpeo, numero, aceptados>>
      /\ EnTurno(p) /\ compactador = "limpia" /\ compactador' = "borra"
      /\ pendientes' = pendientes \ {p}
      /\ tmpc' = [i \in Numeros |-> IF i \in Seguidos(tmpc) THEN SinArchivo ELSE tmpc[i]]
  BY DEF BorraTemporales, historia
<1>2. dumpeo = "escribe" => UNCHANGED lugar
  BY DEF BorraTemporales, Volcando
<1>3. \A i \in Numeros : tmpc'[i].registros = {}
  BY <1>1 DEF Renombrados, SinArchivo
<1>4. SoloExistentes'
  BY <1>1, <1>3 DEF SoloExistentes
<1>5. Renombrados'
  BY <1>1, <1>3 DEF Renombrados, SinContenido, Cargadas, Ocupando
<1>6. EnManos'
  <2>1. cargar[p] \subseteq bin[p].registros
    BY <1>1 DEF EnManos
  <2>2. \A q \in Particiones \ pendientes' : cargar[q] \subseteq bin[q].registros
    BY <1>1, <2>1 DEF EnManos, Ocupando
  <2>3. \A q \in Particiones : DeParticion(temporales, q)' = DeParticion(temporales, q)
    BY <1>1 DEF DeParticion
  <2> QED
    BY <1>1, <2>2, <2>3 DEF EnManos, Cargadas, Ocupando, SupersedidoEn
<1>7. \A q \in Guardados : q \in Guardados'
  <2>1. \A i \in Numeros : tmpc[i].registros \subseteq temporales
    BY <1>1 DEF Renombrados, Cargadas, Ocupando
  <2> QED
    BY <1>1, <2>1, DondeEsta, DondeEstara
<1> QED
  BY <1>1, <1>2, <1>4, <1>5, <1>7, <1>6, DatosCreciendo

\* The end: the table is released when every partition has been rewritten, and
\* then the lists can be destroyed.
LEMMA DatosTermina ==
  ASSUME TypeOK, TypeOK', Datos, SueltaTabla \/ TerminaCompactacion
  PROVE  Datos'
<1> USE DEF Datos
<1>0. UNCHANGED <<memTable, archivos, pendientes, volcado, aceptados>>
  BY DEF SueltaTabla, TerminaCompactacion, historia
<1>1. SoloExistentes' /\ Seguidos(tmpc)' = Seguidos(tmpc)
  BY <1>0 DEF SoloExistentes, Seguidos, archivos
<1>2. \A i \in Numeros : tmpc[i].registros # {} => i \in Seguidos(tmpc)
  BY DEF Renombrados
<1>3. CASE SueltaTabla
  <2>1. /\ compactador = "borra" /\ compactador' = "suelta" /\ pendientes = {}
        /\ UNCHANGED <<temporales, cargar>>
    BY <1>3 DEF SueltaTabla
  <2>2. SinContenido(tmpc)
    <3>1. CASE pendientes # {q \in Particiones : cargar[q] # {}}
      BY <2>1, <3>1 DEF Renombrados, Ocupando
    <3>2. CASE \A q \in Particiones : cargar[q] = {}
      <4>1. ASSUME NEW r \in temporales PROVE FALSE
        <5> DEFINE q == particionDeKey(r.key)
        <5>1. q \in Particiones
          BY ParticionValida DEF TypeOK, Registro
        <5>2. SupersedidoEn(r, cargar[q])
          BY <2>1, <5>1 DEF EnManos, DeParticion, Cargadas, Ocupando
        <5> QED
          BY <3>2, <5>1, <5>2 DEF SupersedidoEn
      <4> QED
        BY <2>1, <4>1 DEF SinContenido, Renombrados, Cargadas, Ocupando
    <3> QED
      BY <2>1, <3>1, <3>2
  <2>3. Renombrados'
    BY <1>0, <1>1, <1>2, <2>1, <2>2
       DEF Renombrados, SinContenido, archivos, Cargadas, Ocupando
  <2>4. \A q \in Particiones : DeParticion(temporales, q)' = DeParticion(temporales, q)
    BY <2>1 DEF DeParticion
  <2>5. EnManos'
    BY <1>0, <2>1, <2>4 DEF EnManos, archivos, Cargadas, Ocupando, SupersedidoEn
  <2>6. Guardados' = Guardados
    BY <1>0, <2>1 DEF Guardados, EnArchivos, archivos
  <2> QED
    BY <1>0, <1>1, <2>3, <2>5, <2>6, DatosCreciendo DEF archivos, volcado
<1>4. CASE TerminaCompactacion
  <2>1. /\ compactador = "suelta" /\ compactador' = "duerme" /\ temporales' = {}
        /\ cargar' = [q \in Particiones |-> {}]
    BY <1>4 DEF TerminaCompactacion
  <2>2. Renombrados'
    BY <1>0, <1>1, <1>2, <2>1 DEF Renombrados, SinContenido, archivos, Cargadas, Ocupando
  <2>3. EnManos'
    BY <2>1 DEF EnManos, Cargadas, Ocupando
  <2>4. \A q \in Particiones : cargar[q] \subseteq bin[q].registros
    BY <2>1 DEF EnManos
  <2>5. ASSUME NEW q \in Guardados
        PROVE  SupersedidoEn(q, Guardados')
    <3>1. CASE q \in Guardados'
      BY <3>1, GuardadosRegistro, SupersedidoPorSi
    <3>2. CASE q \notin Guardados'
      <4> DEFINE p == particionDeKey(q.key)
      <4>1. q \in temporales
        BY <1>0, <2>4, <3>2, DondeEsta, DondeEstara DEF archivos
      <4>2. p \in Particiones
        BY <4>1, ParticionValida DEF TypeOK, Registro
      <4>3. SupersedidoEn(q, cargar[p])
        BY <2>1, <4>1, <4>2 DEF EnManos, DeParticion, Cargadas
      <4>4. \A r \in cargar[p] : r \in Guardados'
        BY <1>0, <2>4, <4>2, DondeEstara DEF archivos
      <4> QED
        BY <4>3, <4>4 DEF SupersedidoEn
    <3> QED
      BY <3>1, <3>2
  <2> QED
    BY <1>0, <1>1, <2>1, <2>2, <2>3, <2>5, DatosCompactando DEF archivos, volcado
<1> QED
  BY <1>3, <1>4

\* After a restart, what is owed is in the files; no compaction was under way.
LEMMA DatosReinicio ==
  ASSUME TypeOK, TypeOK', Datos, Reinicio, "caida_compactando" \notin riesgo'
  PROVE  Datos'
<1> USE DEF Datos
<1>1. /\ UNCHANGED archivos /\ memTable' = {} /\ temporales' = {} /\ dumpeo' = "duerme"
      /\ cargar' = [p \in Particiones |-> {}] /\ compactador' = "duerme"
      /\ aceptados' = aceptados \cap EnArchivos
      /\ compactador \in {"duerme", "espera", "suelta"}
  BY DEF Reinicio
<1>2. SoloExistentes' /\ Seguidos(tmpc)' = Seguidos(tmpc)
  BY <1>1 DEF SoloExistentes, Seguidos, archivos
<1>3. Volcando' /\ EnManos'
  BY <1>1 DEF Volcando, EnManos, Cargadas, Ocupando
<1>4. Renombrados'
  BY <1>1, <1>2 DEF Renombrados, SinContenido, archivos, Cargadas, Ocupando
<1>5. Conservados'
  <2>1. EnArchivos' = EnArchivos
    BY <1>1 DEF EnArchivos, archivos
  <2>2. ASSUME NEW r \in aceptados' PROVE SupersedidoEn(r, (memTable \cup Guardados)')
    <3>1. r \in Guardados'
      BY <1>1, <2>1, <2>2, DondeEstara
    <3> QED
      BY <3>1, GuardadosRegistro, SupersedidoPorSi DEF SupersedidoEn
  <2> QED
    BY <2>2 DEF Conservados
<1> QED
  BY <1>2, <1>3, <1>4, <1>5

-----------------------------------------------------------------------------
(* Every temporal stays within reach.                                      *)

\* A step that creates and removes no temporal, and neither starts nor ends the
\* renames nor moves them on.
LEMMA AlcanceQuieto ==
  ASSUME TypeOK, SinHuecos, \A i \in Numeros : tmp'[i].existe = tmp[i].existe,
         \/ UNCHANGED <<compactador, renombrando>>
         \/ compactador # "renombra" /\ compactador' # "renombra"
  PROVE  SinHuecos'
<1>1. Seguidos(tmp)' = Seguidos(tmp)
  BY ConstantesLFSTabla DEF Seguidos, Numeros
<1>2. PorRenombrar' = PorRenombrar
  <2>1. CASE UNCHANGED <<compactador, renombrando>>
    <3>1. \A i \in Numeros : \A j \in renombrando..i : j \in Numeros
      BY ConstantesLFSTabla DEF TypeOK, Numeros
    <3> QED
      BY <2>1, <3>1 DEF PorRenombrar
  <2>2. CASE compactador # "renombra" /\ compactador' # "renombra"
    BY <2>2 DEF PorRenombrar
  <2> QED
    BY <2>1, <2>2
<1> QED
  BY <1>1, <1>2 DEF SinHuecos, Alcanzables

LEMMA AlcancePaso ==
  ASSUME TypeOK, Semaforos, Datos, SinHuecos, Dump \/ Compacta,
         riesgo' \subseteq {"lee_a_medias"}
  PROVE  SinHuecos'
<1>1. CASE UNCHANGED <<tmp, compactador, renombrando>>
  BY <1>1, AlcanceQuieto
<1>2. CASE EmpiezaDump \/ SaltaNumero \/ TerminaDump
  BY <1>1, <1>2 DEF EmpiezaDump, SaltaNumero, TerminaDump, archivos, compactacion
<1>3. CASE CreaTemporal
  <2>1. /\ numero \in Numeros /\ tmp' = [tmp EXCEPT ![numero] = Vacio]
        /\ numero - 1 \in Alcanzables \cup {0} /\ UNCHANGED <<compactador, renombrando>>
    BY <1>3 DEF CreaTemporal, compactacion
  <2>2. \A i \in Numeros : tmp[i].existe => tmp'[i].existe
    BY <2>1 DEF TypeOK, Vacio
  <2>3. tmp'[numero].existe /\ \A i \in Numeros : i # numero => tmp'[i] = tmp[i]
    BY <2>1 DEF TypeOK, Vacio
  <2>4. Seguidos(tmp) \subseteq Seguidos(tmp')
    BY <2>2, ConstantesLFSTabla DEF Seguidos, Numeros
  <2>5. \A i \in Numeros : \A j \in renombrando..i : j \in Numeros
    BY ConstantesLFSTabla DEF TypeOK, Numeros
  <2>6. PorRenombrar \subseteq PorRenombrar'
    BY <2>1, <2>2, <2>5 DEF PorRenombrar
  <2>7. numero \in Seguidos(tmp') \cup PorRenombrar'
    <3>1. CASE numero = 1
      BY <2>1, <2>3, <3>1 DEF Seguidos
    <3>2. CASE numero - 1 \in Seguidos(tmp)
      <4>1. \A j \in 1..numero : j = numero \/ j \in 1..(numero - 1)
        BY <2>1 DEF Numeros
      <4>2. \A j \in 1..numero : tmp'[j].existe
        BY <2>3, <2>4, <3>2, <4>1 DEF Seguidos
      <4> QED
        BY <2>1, <4>2 DEF Seguidos
    <3>3. CASE numero - 1 \in PorRenombrar
      <4>1. renombrando \in Int /\ numero \in Int
        BY <2>1 DEF TypeOK, Numeros
      <4>2. \A j \in renombrando..numero : j = numero \/ j \in renombrando..(numero - 1)
        BY <4>1
      <4>3. \A j \in renombrando..numero : tmp'[j].existe
        BY <2>2, <2>3, <2>5, <3>3, <4>2 DEF PorRenombrar
      <4> QED
        BY <2>1, <3>3, <4>1, <4>3 DEF PorRenombrar
    <3> QED
      BY <2>1, <3>1, <3>2, <3>3 DEF Alcanzables, Numeros
  <2>8. Alcanzables' = Seguidos(tmp') \cup PorRenombrar'
    BY DEF Alcanzables, Seguidos
  <2> QED
    BY <2>3, <2>4, <2>6, <2>7, <2>8 DEF SinHuecos, Alcanzables
<1>4. CASE EscribeTemporal
  <2>1. /\ lugar = "tmp" /\ numero \in Numeros /\ tmp[numero] = Vacio
        /\ tmp' = [tmp EXCEPT ![numero] = Con(memTable)]
        /\ UNCHANGED <<compactador, renombrando>>
    BY <1>4 DEF EscribeTemporal, Datos, Volcando, compactacion
  <2>2. \A i \in Numeros : tmp'[i].existe = tmp[i].existe
    <3>1. tmp[numero].existe = TRUE /\ tmp'[numero].existe = TRUE
      BY <2>1 DEF TypeOK, Vacio, Con
    <3>2. \A i \in Numeros : i # numero => tmp'[i] = tmp[i]
      BY <2>1 DEF TypeOK
    <3> QED
      BY <3>1, <3>2
  <2> QED
    BY <2>1, <2>2, AlcanceQuieto
<1>5. CASE EncuentraTemporal \/ LeeTemporales \/ Une \/ TomaTabla \/ SueltaTabla
             \/ TerminaCompactacion
             \/ \E p \in Particiones : \/ BorraParticion(p) \/ CreaParticion(p)
                                       \/ EscribeParticion(p) \/ BorraTemporales(p)
  <2>1. UNCHANGED tmp /\ compactador # "renombra" /\ compactador' # "renombra"
    BY <1>5 DEF EncuentraTemporal, LeeTemporales, Une, TomaTabla, SueltaTabla,
                TerminaCompactacion, BorraParticion, CreaParticion, EscribeParticion,
                BorraTemporales, archivos
  <2> QED
    BY <2>1, AlcanceQuieto
<1>6. CASE EmpiezaCompactacion
  <2>1. UNCHANGED tmp /\ compactador = "espera" /\ compactador' = "renombra"
    BY <1>6 DEF EmpiezaCompactacion, archivos
  <2>2. Alcanzables = Seguidos(tmp) /\ Seguidos(tmp') \subseteq Alcanzables'
    BY <2>1 DEF Alcanzables, PorRenombrar, Seguidos
  <2> QED
    BY <2>1, <2>2 DEF SinHuecos
<1>7. CASE TerminaRenombres
  <2>1. /\ UNCHANGED <<tmp, renombrando>> /\ compactador' = "lee"
        /\ renombrando \in Numeros => ~tmp[renombrando].existe
    BY <1>7 DEF TerminaRenombres, archivos
  <2>2. PorRenombrar = {}
    <3> SUFFICES ASSUME NEW i \in PorRenombrar PROVE FALSE
      OBVIOUS
    <3>1. i \in Numeros /\ i >= renombrando /\ renombrando \in Numeros
            /\ renombrando \in renombrando..i
      BY ConstantesLFSTabla DEF PorRenombrar, TypeOK, Numeros
    <3> QED
      BY <2>1, <3>1 DEF PorRenombrar
  <2>3. Alcanzables = Seguidos(tmp) /\ Seguidos(tmp) \subseteq Alcanzables'
    BY <2>1, <2>2 DEF Alcanzables, Seguidos
  <2> QED
    BY <2>1, <2>3 DEF SinHuecos
<1>8. CASE Renombra
  <2> DEFINE n == renombrando
  <2>1. /\ n \in Numeros /\ tmp[n].existe /\ n' = n + 1
        /\ tmp' = [tmp EXCEPT ![n] = SinArchivo]
        /\ compactador = "renombra" /\ compactador' = "renombra"
    BY <1>8 DEF Renombra
  <2>2. ~tmp'[n].existe /\ \A i \in Numeros : i # n => tmp'[i] = tmp[i]
    BY <2>1 DEF TypeOK, SinArchivo
  <2> SUFFICES ASSUME NEW i \in Numeros, tmp'[i].existe
               PROVE  i \in Alcanzables'
    BY DEF SinHuecos
  <2>3. i # n /\ i \in Alcanzables
    BY <2>2 DEF SinHuecos
  <2>4. CASE i < n
    <3>1. \A j \in 1..i : j \in Numeros /\ j # n /\ tmp[j].existe
      BY <2>1, <2>3, <2>4, ConstantesLFSTabla
         DEF Alcanzables, Seguidos, PorRenombrar, Numeros
    <3>2. \A j \in 1..i : tmp'[j].existe
      BY <2>2, <3>1
    <3> QED
      BY <3>2 DEF Alcanzables, Seguidos
  <2>5. CASE i > n
    <3>1. \A j \in (n + 1)..i : j \in Numeros /\ j # n /\ tmp[j].existe
      BY <2>1, <2>3, <2>5, ConstantesLFSTabla
         DEF Alcanzables, Seguidos, PorRenombrar, Numeros
    <3>2. \A j \in (n + 1)..i : tmp'[j].existe
      BY <2>2, <3>1
    <3>3. i >= n + 1
      BY <2>1, <2>5 DEF Numeros
    <3> QED
      BY <2>1, <3>2, <3>3 DEF Alcanzables, PorRenombrar
  <2> QED
    BY <2>1, <2>3, <2>4, <2>5 DEF Numeros
<1> QED
  BY <1>2, <1>3, <1>4, <1>5, <1>6, <1>7, <1>8 DEF Dump, Compacta

-----------------------------------------------------------------------------
(* The invariant and its consequences.                                     *)

LEMMA InvInit == Init => Inv
<1> SUFFICES ASSUME Init PROVE Inv
  OBVIOUS
<1>1. /\ \A i \in Numeros : tmp[i] = SinArchivo /\ tmpc[i] = SinArchivo
      /\ \A p \in Particiones : cargar[p] = {}
      /\ compactador = "duerme" /\ dumpeo = "duerme" /\ temporales = {} /\ aceptados = {}
  BY DEF Init
<1>2. Datos
  BY <1>1 DEF Datos, SoloExistentes, Volcando, Renombrados, EnManos, Conservados,
              SinContenido, SinArchivo, Cargadas, Ocupando
<1>3. SinHuecos
  BY <1>1 DEF SinHuecos, SinArchivo
<1> QED
  BY <1>2, <1>3, TiposInit DEF Inv

\* An overlap that has happened is not forgotten.
LEMMA RiesgoCrece == [Next]_vars => riesgo \subseteq riesgo'
BY DEF LeeArchivo, Next, vars, historia, INSERT, Dump, EmpiezaDump, SaltaNumero, CreaTemporal,
       EscribeTemporal, TerminaDump, Compacta, EncuentraTemporal, EmpiezaCompactacion,
       Renombra, TerminaRenombres, LeeTemporales, Une, TomaTabla, BorraParticion,
       CreaParticion, EscribeParticion, BorraTemporales, SueltaTabla, TerminaCompactacion,
       PideSELECT, Lee, VerificaTabla, VerificaMemTable, waitearSemTable, buscarEnParticion,
       buscarMemTable, buscarEnTemporales, buscarEnTemporalesCompactando, RespondeSELECT,
       Caida, Reinicio

\* What leaves the table's data alone.
LEMMA NoTocan ==
  ASSUME \/ \E l \in Lectores, k \in Claves : PideSELECT(l, k)
         \/ \E l \in Lectores : Lee(l)
         \/ Caida
         \/ UNCHANGED vars
  PROVE  UNCHANGED <<memTable, archivos, compactacion, volcado, aceptados>>
BY DEF vars, historia, PideSELECT, Lee, VerificaTabla, VerificaMemTable, waitearSemTable,
       buscarEnParticion, buscarMemTable, buscarEnTemporales, buscarEnTemporalesCompactando,
       RespondeSELECT, Caida

LEMMA InvPaso == Inv /\ [Next]_vars => Inv'
<1> SUFFICES ASSUME Inv, [Next]_vars
             PROVE  Inv'
  OBVIOUS
<1>1. TypeOK /\ Semaforos /\ TypeOK' /\ Semaforos'
  BY TiposPaso DEF Inv
<1>2. riesgo \subseteq riesgo'
  BY RiesgoCrece
<1>3. ASSUME riesgo' \subseteq {"hueco", "lee_a_medias"}
      PROVE  Datos'
  <2>1. Datos /\ riesgo \subseteq {"hueco", "lee_a_medias"}
    BY <1>2, <1>3 DEF Inv
  <2>2. CASE (\E k \in Claves, ts \in 1..MaxTimestamp : INSERT(k, ts)) \/ Dump
    BY <1>1, <2>1, <2>2, DatosDump
  <2>3. CASE Compacta
    BY <1>1, <1>3, <2>1, <2>3, DatosRenombra, DatosLee, DatosParticion, DatosLimpia,
       DatosTermina DEF Compacta
  <2>4. CASE Reinicio
    BY <1>1, <1>3, <2>1, <2>4, DatosReinicio
  <2> QED
    BY <2>1, <2>2, <2>3, <2>4, NoTocan, DatosQuietos DEF Next
<1>4. ASSUME riesgo' \subseteq {"lee_a_medias"}
      PROVE  SinHuecos'
  <2>1. Datos /\ SinHuecos
    BY <1>2, <1>4 DEF Inv
  <2>2. CASE Dump \/ Compacta
    BY <1>1, <1>4, <2>1, <2>2, AlcancePaso
  <2>3. CASE UNCHANGED <<archivos, compactacion>>
    BY <1>1, <2>1, <2>3, AlcanceQuieto DEF archivos, compactacion
  <2>4. CASE Reinicio
    <3>1. UNCHANGED tmp /\ compactador # "renombra" /\ compactador' # "renombra"
      BY <1>4, <2>4 DEF Reinicio, archivos
    <3> QED
      BY <1>1, <2>1, <3>1, AlcanceQuieto
  <2>5. \A k \in Claves, ts \in 1..MaxTimestamp :
          INSERT(k, ts) => UNCHANGED <<archivos, compactacion>>
    BY DEF INSERT
  <2> QED
    BY <2>2, <2>3, <2>4, <2>5, NoTocan DEF Next
<1> QED
  BY <1>1, <1>3, <1>4 DEF Inv

\* No accepted INSERT is lost, for any number of keys, partitions, temporals and
\* requests, until one of the overlaps of riesgo happens.
THEOREM NadaSePierde == Spec => []Conservado
<1>1. Inv => Conservado
  <2> SUFFICES ASSUME Inv, riesgo \subseteq {"lee_a_medias"}, NEW r \in aceptados
               PROVE  SupersedidoEn(r, Visibles)
    BY DEF Conservado
  <2>1. Datos /\ SinHuecos /\ TypeOK
    BY DEF Inv
  <2>2. ASSUME NEW q \in Guardados PROVE q \in Visibles
    <3>1. CASE \E i \in Numeros : q \in tmp[i].registros
      BY <2>1, <3>1 DEF Visibles, Datos, SoloExistentes, SinHuecos
    <3>2. CASE \E i \in Numeros : q \in tmpc[i].registros
      BY <2>1, <3>2 DEF Visibles, RegistrosDe, Datos, Renombrados
    <3>3. CASE q \in temporales \/ (\E p \in Particiones : q \in bin[p].registros)
                 \/ \E p \in Particiones : q \in cargar[p]
      BY <3>3 DEF Visibles
    <3> QED
      BY <3>1, <3>2, <3>3, DondeEsta
  <2>3. memTable \cup Guardados \subseteq Visibles
    BY <2>2 DEF Visibles
  <2> QED
    BY <2>1, <2>3 DEF Datos, Conservados, SupersedidoEn
<1> QED
  BY InvInit, InvPaso, <1>1, PTL DEF Spec

\* A hole in the numbering of the temporals hides records but destroys none.
THEOREM HuecoSoloOculta == Spec => []HuecoNoPierde
<1>1. Inv => HuecoNoPierde
  <2> SUFFICES ASSUME Inv, riesgo \subseteq {"hueco", "lee_a_medias"}, NEW r \in aceptados
               PROVE  SupersedidoEn(r, Visibles \cup EnArchivos)
    BY DEF HuecoNoPierde
  <2>1. \A q \in memTable \cup Guardados : q \in Visibles \cup EnArchivos
    BY DondeEsta DEF Visibles
  <2> QED
    BY <2>1 DEF Inv, Datos, Conservados, SupersedidoEn
<1> QED
  BY InvInit, InvPaso, <1>1, PTL DEF Spec

-----------------------------------------------------------------------------
(* Nobody reads a file that is not there.                                   *)

\* Every partition has its file, but for the one a compaction is rewriting.
Existen == \A p \in Particiones : ~bin[p].existe => compactador = "crea" /\ EnTurno(p)

LEMMA ExistenPaso ==
  ASSUME ~PuedeCaer, TypeOK, Existen, [Next]_vars
  PROVE  Existen'
<1>1. CASE UNCHANGED <<bin, pendientes>> /\ (compactador = "crea" => compactador' = "crea")
  BY <1>1 DEF Existen, EnTurno
<1>2. ASSUME NEW p \in Particiones, BorraParticion(p)
      PROVE  Existen'
  BY <1>2 DEF BorraParticion, Existen, EnTurno, TypeOK
<1>3. ASSUME NEW p \in Particiones, CreaParticion(p)
      PROVE  Existen'
  <2>1. \A q \in Particiones : EnTurno(q) => q = p
    BY <1>3 DEF CreaParticion, EnTurno, Particiones, TypeOK
  <2>2. \A q \in Particiones : q # p => bin[q].existe
    BY <2>1 DEF Existen
  <2>3. \A q \in Particiones : bin'[q].existe
    BY <1>3, <2>2 DEF CreaParticion, Vacio, TypeOK
  <2> QED
    BY <2>3 DEF Existen
<1>4. ASSUME NEW p \in Particiones, EscribeParticion(p) \/ BorraTemporales(p)
      PROVE  Existen'
  <2>1. \A q \in Particiones : bin[q].existe
    BY <1>4 DEF EscribeParticion, BorraTemporales, Existen
  <2>2. \A q \in Particiones : bin'[q].existe
    BY <1>4, <2>1 DEF EscribeParticion, BorraTemporales, Con, TypeOK
  <2> QED
    BY <2>2 DEF Existen
<1>5. CASE TomaTabla
  BY <1>5 DEF TomaTabla, Existen, EnTurno, archivos
<1>6. CASE EncuentraTemporal \/ EmpiezaCompactacion \/ Renombra \/ TerminaRenombres
             \/ LeeTemporales \/ Une \/ SueltaTabla \/ TerminaCompactacion
  BY <1>1, <1>6 DEF EncuentraTemporal, EmpiezaCompactacion, Renombra, TerminaRenombres,
                    LeeTemporales, Une, SueltaTabla, TerminaCompactacion, archivos
<1>7. CASE (\E k \in Claves, ts \in 1..MaxTimestamp : INSERT(k, ts)) \/ Dump
  BY <1>1, <1>7 DEF INSERT, Dump, EmpiezaDump, SaltaNumero, CreaTemporal, EscribeTemporal,
                    TerminaDump, archivos, compactacion
<1>8. CASE UNCHANGED <<archivos, compactacion>>
  BY <1>1, <1>8 DEF archivos, compactacion
<1>9. ~Reinicio
  BY DEF Reinicio
<1> QED
  BY <1>2, <1>3, <1>4, <1>5, <1>6, <1>7, <1>8, <1>9, NoTocan DEF Next, Compacta

\* The steps that can kill the process do not.
LEMMA VivaPaso ==
  ASSUME ~PuedeCaer, Consola = {}, Inv, Existen, riesgo = {}, riesgo' = {}, viva, [Next]_vars
  PROVE  viva'
<1>1. TypeOK /\ Semaforos /\ Datos
  BY DEF Inv
<1>2. ASSUME NEW l \in Lectores, l \in LeyendoDentro
      PROVE  compactador \in {"duerme", "espera"}
  BY <1>1, <1>2 DEF Semaforos, CompactadorDentro, TypeOK
<1>3. ASSUME NEW l \in Lectores, buscarEnParticion(l)
      PROVE  viva'
  <2>1. l \in LeyendoDentro /\ lector[l].fase \in FasesLectura
    BY <1>3 DEF buscarEnParticion, EnFase, LeyendoDentro, FasesLectura, Lectores
  <2>2. particionDeKey(lector[l].key) \in Particiones
    BY <1>1, <2>1, LectorLeyendo, ParticionValida
  <2>3. bin[particionDeKey(lector[l].key)].existe
    BY <1>2, <2>1, <2>2 DEF Existen
  <2> QED
    BY <1>3, <2>3 DEF buscarEnParticion, LeeArchivo
<1>4. ASSUME NEW l \in Lectores, buscarMemTable(l)
      PROVE  viva'
  <2>1. l \in Red
    BY DEF Lectores
  <2>2. dumpeo = "duerme"
    BY <1>1, <1>4, <2>1 DEF buscarMemTable, Semaforos
  <2> QED
    BY <1>4, <2>2 DEF buscarMemTable
<1>5. ASSUME NEW l \in Lectores, buscarEnTemporalesCompactando(l)
      PROVE  viva'
  <2>1. l \in LeyendoDentro
    BY <1>5 DEF buscarEnTemporalesCompactando, EnFase, LeyendoDentro, FasesLectura, Lectores
  <2>2. \A i \in Numeros : tmpc[i].registros = {}
    BY <1>1, <1>2, <2>1 DEF Datos, Renombrados, SinContenido
  <2>3. \A r : r \notin RegistrosDe(tmpc)
    BY <2>2 DEF RegistrosDe, Seguidos
  <2>4. ~AMediasTmpc
    BY <1>1 DEF Datos, Volcando, AMediasTmpc
  <2>5. PICK S \in Parte(AMediasTmpc, memTable) :
               IF \E r \in RegistrosDe(tmpc) \cup S : r.key = lector[l].key
                 THEN /\ viva' \in IF lector[l].mem THEN BOOLEAN ELSE {FALSE}
                      /\ UNCHANGED riesgo
                 ELSE LeeArchivo(AMediasTmpc)
    BY <1>5 DEF buscarEnTemporalesCompactando
  <2>6. S = {}
    BY <2>4, <2>5, ParteDe, AMediasBool
  <2>7. LeeArchivo(AMediasTmpc)
    BY <2>3, <2>5, <2>6
  <2> QED
    BY <2>7 DEF LeeArchivo
<1>6. CASE Une \/ LeeTemporales \/ \E l \in Lectores : buscarEnTemporales(l)
  BY <1>6 DEF Une, LeeTemporales, buscarEnTemporales, LeeArchivo, Existen
<1>7. CASE UNCHANGED viva
  BY <1>7
<1> QED
  BY <1>3, <1>4, <1>5, <1>6, <1>7
     DEF Next, vars, INSERT, Dump, EmpiezaDump, SaltaNumero, CreaTemporal, EscribeTemporal,
         TerminaDump, Compacta, EncuentraTemporal, EmpiezaCompactacion, Renombra,
         TerminaRenombres, TomaTabla, BorraParticion, CreaParticion,
         EscribeParticion, BorraTemporales, SueltaTabla, TerminaCompactacion, PideSELECT, Lee,
         VerificaTabla, VerificaMemTable, waitearSemTable, RespondeSELECT,
         Caida, Reinicio

\* Until one of the overlaps of riesgo (a temporal or partition read while it is being
\* written is one) no request of a memory kills the process: whoever reads a partition
\* finds its file, and nobody reads the .tmpc of a compaction in progress.
THEOREM NadieLaMata == Spec => []SinMuertes
<1> DEFINE J == Inv /\ (~PuedeCaer => Existen) /\ SinMuertes
<1>1. Init => J
  <2> SUFFICES ASSUME Init PROVE J
    OBVIOUS
  <2>1. (\A p \in Particiones : bin[p].existe) /\ viva
    BY DEF Init, Vacio
  <2> QED
    BY <2>1, InvInit DEF Existen, SinMuertes
<1>2. J /\ [Next]_vars => J'
  <2> SUFFICES ASSUME J, [Next]_vars PROVE J'
    OBVIOUS
  <2>1. Inv'
    BY InvPaso
  <2>2. ~PuedeCaer => Existen'
    BY ExistenPaso DEF Inv
  <2>3. SinMuertes'
    BY VivaPaso, RiesgoCrece DEF SinMuertes
  <2> QED
    BY <2>1, <2>2, <2>3
<1> QED
  BY <1>1, <1>2, PTL DEF Spec
=============================================================================
