------------------------ MODULE LFSTablaImplementa ------------------------
(***************************************************************************)
(* LFSTabla implements Almacen, for any keys, partitions, requests and      *)
(* bounds, as long as the process is not killed and none of the overlaps    *)
(* of riesgo happens.                                                       *)
(*                                                                          *)
(* LFSTablaProofs says that every accepted record is superseded by one a    *)
(* SELECT can find; here, that what can be found has been accepted          *)
(* (Propios).  So the newest visible record of a key is the newest accepted *)
(* one, and only INSERT changes it.  Lectura says what a SELECT in the      *)
(* middle of its search still has to find: each place is read before        *)
(* anything can leave it for a place already read.                          *)
(***************************************************************************)
EXTENDS LFSTablaProofs

-----------------------------------------------------------------------------
(* The invariant.                                                           *)

\* Nothing is invented, and a record is in the partition of its key.
Propios ==
  /\ \A r \in memTable : r \in aceptados
  /\ \A r \in Guardados : r \in aceptados
EnSuParticion ==
  \A p \in Particiones : \A r \in bin[p].registros \cup cargar[p] : particionDeKey(r.key) = p

\* What the .tmp files hold.
EnTemporales == UNION {tmp[i].registros : i \in Numeros}

\* A request of a memory: what it has been asked and has found, and, once it has read a
\* place, that what it was asked for is in what it has found or in a place to come.
Encuentra(l, S) ==
  \A r \in lector[l].desde : SupersedidoEn(r, lector[l].RegistrosEncontrados \cup S)
Lectura(l) ==
  lector[l].fase \in FasesLectura =>
    /\ \A r \in lector[l].desde \cup lector[l].RegistrosEncontrados :
         r.key = lector[l].key /\ r \in aceptados
    /\ lector[l].fase = "memtable" => Encuentra(l, memTable \cup EnTemporales)
    /\ lector[l].fase = "temporales" => Encuentra(l, EnTemporales)
    /\ lector[l].fase \in {"compactando", "responde"} => Encuentra(l, {})
    /\ lector[l].fase = "memtable" =>
         \A r \in bin[particionDeKey(lector[l].key)].registros :
           r.key = lector[l].key => SupersedidoEn(r, lector[l].RegistrosEncontrados)

InvLectura ==
  /\ Inv
  /\ Propios
  /\ EnSuParticion
  /\ riesgo = {} => \A l \in Red : Lectura(l)

-----------------------------------------------------------------------------
(* Where the records come from.                                             *)

\* A step puts in a file, or in the hands of the compaction, only what was there or in
\* the memtable.
LEMMA GuardadosViene ==
  ASSUME TypeOK, Dump \/ Compacta, NEW r \in Guardados'
  PROVE  r \in Guardados \/ r \in memTable
<1>1. CASE UNCHANGED <<archivos, temporales, cargar>>
  BY <1>1 DEF Guardados, EnArchivos, archivos
<1>2. CASE EmpiezaDump \/ SaltaNumero \/ TerminaDump \/ EncuentraTemporal \/ EmpiezaCompactacion
             \/ TerminaRenombres \/ TomaTabla \/ SueltaTabla
  BY <1>1, <1>2 DEF EmpiezaDump, SaltaNumero, TerminaDump, EncuentraTemporal,
       EmpiezaCompactacion, TerminaRenombres, TomaTabla, SueltaTabla, compactacion
<1>3. CASE CreaTemporal
  BY <1>3, DondeEsta, DondeEstara DEF CreaTemporal, compactacion, Vacio, TypeOK
<1>4. CASE EscribeTemporal
  BY <1>4, DondeEsta, DondeEstara DEF EscribeTemporal, compactacion, Con, TypeOK
<1>5. CASE Renombra
  BY <1>5, DondeEsta, DondeEstara DEF Renombra, SinArchivo, TypeOK
<1>6. CASE LeeTemporales
  <2>1. \A q \in RegistrosDe(tmpc) : \E i \in Numeros : q \in tmpc[i].registros
    BY DEF RegistrosDe, Seguidos
  <2>2. PICK S \in Parte(AMediasTmpc, memTable) : temporales' = RegistrosDe(tmpc) \cup S
    BY <1>6 DEF LeeTemporales
  <2>3. S \subseteq memTable
    BY <2>2, ParteDe, AMediasBool
  <2> QED
    BY <1>6, <2>1, <2>2, <2>3, DondeEsta, DondeEstara DEF LeeTemporales, archivos
<1>7. CASE Une
  <2>1. \A p \in Particiones : cargar'[p] \subseteq cargar[p] \cup bin[p].registros \cup temporales
    BY <1>7 DEF Une, ActualizarRegistrosParticion, DeParticion
  <2> QED
    BY <1>7, <2>1, DondeEsta, DondeEstara DEF Une, archivos
<1>8. ASSUME NEW p \in Particiones,
             BorraParticion(p) \/ CreaParticion(p) \/ EscribeParticion(p)
      PROVE  r \in Guardados
  <2>1. /\ \A q \in Particiones : bin'[q].registros \subseteq bin[q].registros \cup cargar[q]
        /\ UNCHANGED <<tmp, tmpc, temporales, cargar>>
    BY <1>8 DEF BorraParticion, CreaParticion, EscribeParticion, SinArchivo, Vacio, Con, TypeOK
  <2> QED
    BY <2>1, DondeEsta, DondeEstara
<1>9. ASSUME NEW p \in Particiones, BorraTemporales(p)
      PROVE  r \in Guardados
  BY <1>9, DondeEsta, DondeEstara DEF BorraTemporales, SinArchivo
<1>10. CASE TerminaCompactacion
  BY <1>10, DondeEsta, DondeEstara DEF TerminaCompactacion, archivos
<1> QED
  BY <1>2, <1>3, <1>4, <1>5, <1>6, <1>7, <1>8, <1>9, <1>10 DEF Dump, Compacta

LEMMA PropiosPaso ==
  ASSUME TypeOK, Propios, [Next]_vars
  PROVE  Propios'
<1>1. CASE Dump \/ Compacta
  <2>1. memTable' \subseteq memTable /\ aceptados' = aceptados
    BY <1>1 DEF historia, Dump, EmpiezaDump, SaltaNumero, CreaTemporal, EscribeTemporal, TerminaDump,
       Compacta, EncuentraTemporal, EmpiezaCompactacion, Renombra, TerminaRenombres,
       LeeTemporales, Une, TomaTabla, BorraParticion, CreaParticion, EscribeParticion,
       BorraTemporales, SueltaTabla, TerminaCompactacion
  <2> QED
    BY <1>1, <2>1, GuardadosViene DEF Propios
<1>2. ASSUME NEW k \in Claves, NEW ts \in 1..MaxTimestamp, INSERT(k, ts)
      PROVE  Propios'
  <2>1. Guardados' = Guardados
    BY <1>2 DEF INSERT, Guardados, EnArchivos, archivos, compactacion
  <2> QED
    BY <1>2, <2>1 DEF INSERT, Propios
<1>3. CASE Reinicio
  <2>1. memTable' = {} /\ aceptados' = aceptados \cap EnArchivos /\ UNCHANGED archivos
        /\ temporales' = {} /\ \A p \in Particiones : cargar'[p] = {}
    BY <1>3 DEF Reinicio
  <2>2. EnArchivos' = EnArchivos
    BY <2>1 DEF EnArchivos, archivos
  <2> QED
    BY <2>1, <2>2, DondeEsta, DondeEstara DEF Propios
<1>4. CASE UNCHANGED <<memTable, archivos, compactacion, aceptados>>
  BY <1>4 DEF Propios, Guardados, EnArchivos, archivos, compactacion
<1> QED
  BY <1>1, <1>2, <1>3, <1>4, NoTocan DEF Next

LEMMA ParticionPaso ==
  ASSUME TypeOK, EnSuParticion, [Next]_vars
  PROVE  EnSuParticion'
<1>1. CASE UNCHANGED <<bin, cargar>>
  BY <1>1 DEF EnSuParticion
<1>2. CASE Dump
  BY <1>1, <1>2 DEF Dump, EmpiezaDump, SaltaNumero, CreaTemporal, EscribeTemporal, TerminaDump,
                    archivos, compactacion
<1>3. CASE Une
  <2>1. bin' = bin /\ \A p \in Particiones : \A r \in cargar'[p] :
          r \in cargar[p] \/ r \in bin[p].registros \/ r \in DeParticion(temporales, p)
    BY <1>3 DEF Une, archivos, ActualizarRegistrosParticion
  <2> QED
    BY <2>1 DEF EnSuParticion, DeParticion
<1>4. ASSUME NEW p \in Particiones,
             BorraParticion(p) \/ CreaParticion(p) \/ EscribeParticion(p) \/ BorraTemporales(p)
      PROVE  EnSuParticion'
  <2>1. /\ \A q \in Particiones : bin'[q].registros \subseteq bin[q].registros \cup cargar[q]
        /\ UNCHANGED cargar
    BY <1>4 DEF BorraParticion, CreaParticion, EscribeParticion, BorraTemporales, SinArchivo,
                Vacio, Con, TypeOK
  <2> QED
    BY <2>1 DEF EnSuParticion
<1>5. CASE TerminaCompactacion
  BY <1>5 DEF TerminaCompactacion, archivos, EnSuParticion
<1>6. CASE EncuentraTemporal \/ EmpiezaCompactacion \/ Renombra \/ TerminaRenombres
             \/ LeeTemporales \/ TomaTabla \/ SueltaTabla
  BY <1>1, <1>6 DEF EncuentraTemporal, EmpiezaCompactacion, Renombra, TerminaRenombres,
                    LeeTemporales, TomaTabla, SueltaTabla, archivos
<1>7. CASE Reinicio
  BY <1>7 DEF Reinicio, archivos, EnSuParticion
<1>8. ASSUME NEW k \in Claves, NEW ts \in 1..MaxTimestamp, INSERT(k, ts)
      PROVE  EnSuParticion'
  BY <1>1, <1>8 DEF INSERT, archivos, compactacion
<1>9. CASE UNCHANGED <<archivos, compactacion>>
  BY <1>1, <1>9 DEF archivos, compactacion
<1> QED
  BY <1>2, <1>3, <1>4, <1>5, <1>6, <1>7, <1>8, <1>9, NoTocan DEF Next, Compacta


-----------------------------------------------------------------------------
(* What a SELECT still has to find.                                         *)

\* The types of what a request has found.
LEMMA LecturaTipo ==
  ASSUME TypeOK, NEW l \in Lectores, lector[l].fase \in FasesLectura
  PROVE  /\ lector[l].desde \in SUBSET Registro
         /\ lector[l].RegistrosEncontrados \in SUBSET Registro
         /\ lector[l].key \in Claves /\ particionDeKey(lector[l].key) \in Particiones
         /\ bin[particionDeKey(lector[l].key)].registros \in SUBSET Registro
         /\ memTable \in SUBSET Registro /\ EnTemporales \in SUBSET Registro
         /\ RegistrosDe(tmp) \in SUBSET Registro
<1>1. lector[l] \in Leyendo
  BY LectorLeyendo
<1>2. lector[l].key \in Claves /\ particionDeKey(lector[l].key) \in Particiones
  BY <1>1, ParticionValida DEF Leyendo
<1>3. \A i \in Numeros : tmp[i].registros \in SUBSET Registro
  BY DEF TypeOK, Archivo
<1>4. EnTemporales \in SUBSET Registro /\ RegistrosDe(tmp) \in SUBSET Registro
  BY <1>3 DEF EnTemporales, RegistrosDe, Seguidos
<1>5. bin[particionDeKey(lector[l].key)].registros \in SUBSET Registro
  BY <1>2 DEF TypeOK, Archivo
<1> QED
  BY <1>1, <1>2, <1>4, <1>5 DEF Leyendo, TypeOK

\* The newest records of a key supersede all of them.
LEMMA RecientesSuperan ==
  ASSUME NEW S \in SUBSET Registro, NEW k, NEW r \in S, r.key = k
  PROVE  SupersedidoEn(r, MasRecientes(S, k))
<1>1. PICK q \in S : /\ q.key = r.key /\ q.timestamp >= r.timestamp
                     /\ \A x \in S : x.key = r.key => x.timestamp <= q.timestamp
  BY HayMasReciente
<1> QED
  BY <1>1 DEF SupersedidoEn, MasRecientes

\* While no compaction is at work the records outside the memtable are in temporals or in
\* the partition of their key.
LEMMA Fuera ==
  ASSUME Inv, riesgo = {}, EnSuParticion, compactador \in {"duerme", "espera"},
         NEW r \in Guardados
  PROVE  r \in EnTemporales \/ \E p \in Particiones : p = particionDeKey(r.key)
                                                      /\ r \in bin[p].registros
<1>1. /\ \A i \in Numeros : tmpc[i].registros = {}
      /\ temporales = {} /\ \A p \in Particiones : cargar[p] = {}
  BY DEF Inv, Datos, Renombrados, EnManos, SinContenido, Cargadas, Ocupando
<1>2. \/ \E i \in Numeros : r \in tmp[i].registros
      \/ \E p \in Particiones : r \in bin[p].registros
  BY <1>1, DondeEsta
<1> QED
  BY <1>2 DEF EnTemporales, EnSuParticion

\* ... and the loops over the temporals reach all of them.
LEMMA TodosSeguidos ==
  ASSUME Inv, riesgo = {}, compactador \in {"duerme", "espera"}
  PROVE  EnTemporales = RegistrosDe(tmp)
<1>1. \A i \in Numeros : tmp[i].registros # {} => i \in Seguidos(tmp)
  BY DEF Inv, Datos, SoloExistentes, SinHuecos, Alcanzables, PorRenombrar
<1>2. \A r : r \in EnTemporales <=> r \in RegistrosDe(tmp)
  BY <1>1 DEF EnTemporales, RegistrosDe, Seguidos
<1> QED
  BY <1>2

\* What is to be found may move, to places still to be read or below what has been found.
LEMMA EncuentraSigue ==
  ASSUME NEW D \in SUBSET Registro, NEW S \in SUBSET Registro, NEW T \in SUBSET Registro,
         \A r \in D : SupersedidoEn(r, S), \A q \in S : SupersedidoEn(q, T)
  PROVE  \A r \in D : SupersedidoEn(r, T)
  BY Supersede

\* A SELECT that is reading keeps the compaction out.
LEMMA LeyendoFuera ==
  ASSUME Semaforos, TypeOK, NEW l \in LeyendoDentro
  PROVE  compactador \in {"duerme", "espera"} /\ semaforoCompactacion # 1
  BY DEF Semaforos, CompactadorDentro

\* The other threads.
LEMMA LecturaDump ==
  ASSUME InvLectura, Inv', riesgo' = {}, riesgo = {}, NEW l \in Red,
         Dump \/ Compacta \/ \E k \in Claves, ts \in 1..MaxTimestamp : INSERT(k, ts)
  PROVE  Lectura(l)'
<1>1. lector' = lector /\ \A r \in aceptados : r \in aceptados'
  BY DEF historia, INSERT, Dump, EmpiezaDump, SaltaNumero, CreaTemporal, EscribeTemporal, TerminaDump,
     Compacta, EncuentraTemporal, EmpiezaCompactacion, Renombra, TerminaRenombres,
     LeeTemporales, Une, TomaTabla, BorraParticion, CreaParticion, EscribeParticion,
     BorraTemporales, SueltaTabla, TerminaCompactacion
<1>2. Lectura(l) /\ TypeOK /\ Semaforos /\ Datos /\ l \in Lectores /\ TypeOK'
  BY DEF InvLectura, Inv, Lectores
<1>3. CASE l \notin LeyendoDentro
  BY <1>1, <1>2, <1>3 DEF Lectura, LeyendoDentro
<1>4. CASE l \in LeyendoDentro
  <2> DEFINE e == lector[l].RegistrosEncontrados
             p == particionDeKey(lector[l].key)
  <2>1. compactador \in {"duerme", "espera"} /\ semaforoCompactacion # 1
    BY <1>2, <1>4, LeyendoFuera
  <2>2. lector[l].fase \in FasesLectura
    BY <1>4 DEF LeyendoDentro
  <2>3. e \in SUBSET Registro /\ lector[l].desde \in SUBSET Registro
        /\ memTable \in SUBSET Registro /\ EnTemporales \in SUBSET Registro
        /\ memTable' \in SUBSET Registro /\ EnTemporales' \in SUBSET Registro
        /\ lector[l].key \in Claves
    BY <1>1, <1>2, <2>2, LecturaTipo DEF TypeOK, Archivo, EnTemporales
\* It is enough that nothing leaves the temporals, and that what leaves the memtable is
\* superseded.
  <2>4. ASSUME bin' = bin, \A r \in EnTemporales : r \in EnTemporales',
               lector[l].fase = "memtable" =>
                 \A r \in memTable : r.key = lector[l].key =>
                   SupersedidoEn(r, e \cup (memTable' \cup EnTemporales'))
        PROVE  Lectura(l)'
    <3>1. \A r \in EnTemporales : SupersedidoEn(r, EnTemporales')
      BY <2>3, <2>4, SupersedidoPorSi
    <3>2. CASE lector[l].fase = "memtable"
      <4>1. ASSUME NEW r \in lector[l].desde
            PROVE  SupersedidoEn(r, e \cup (memTable' \cup EnTemporales'))
        <5>1. PICK q \in e \cup (memTable \cup EnTemporales) : q.key = r.key /\ q.timestamp >= r.timestamp
          BY <1>2, <2>2, <3>2 DEF Lectura, Encuentra, SupersedidoEn
        <5>2. SupersedidoEn(q, e \cup (memTable' \cup EnTemporales'))
          <6>1. q \in Registro /\ q.key = lector[l].key
            BY <1>2, <2>2, <2>3, <5>1 DEF Lectura
          <6>2. CASE q \in memTable
            BY <2>4, <3>2, <6>1, <6>2
          <6>3. CASE q \in e \cup EnTemporales'
            BY <2>3, <6>3, SupersedidoPorSi DEF SupersedidoEn
          <6> QED
            BY <2>4, <5>1, <6>2, <6>3
        <5>3. PICK x \in e \cup (memTable' \cup EnTemporales') : x.key = q.key /\ x.timestamp >= q.timestamp
          BY <5>2 DEF SupersedidoEn
        <5>4. x.timestamp \in Int /\ q.timestamp \in Int /\ r.timestamp \in Int
          BY <2>3 DEF Registro
        <5> QED
          BY <5>1, <5>3, <5>4 DEF SupersedidoEn
      <4> QED
        BY <1>1, <1>2, <2>2, <2>4, <3>2, <4>1 DEF Lectura, Encuentra
    <3>3. CASE lector[l].fase = "temporales"
      <4>1. \A r \in lector[l].desde : SupersedidoEn(r, e \cup EnTemporales')
        BY <1>2, <2>2, <2>4, <3>3 DEF Lectura, Encuentra, SupersedidoEn
      <4> QED
        BY <1>1, <1>2, <2>2, <3>3, <4>1 DEF Lectura, Encuentra
    <3>4. CASE lector[l].fase \notin {"memtable", "temporales"}
      BY <1>1, <1>2, <2>2, <3>4 DEF Lectura, Encuentra
    <3> QED
      BY <3>2, <3>3, <3>4
  <2>5. ASSUME \A r \in memTable : r \in memTable', bin' = bin,
               \A r \in EnTemporales : r \in EnTemporales'
        PROVE  Lectura(l)'
    <3>1. \A r \in memTable : SupersedidoEn(r, e \cup (memTable' \cup EnTemporales'))
      BY <2>3, <2>5 DEF SupersedidoEn, Registro
    <3> QED
      BY <2>4, <2>5, <3>1
  <2>6. CASE UNCHANGED archivos /\ \A r \in memTable : r \in memTable'
    BY <2>5, <2>6 DEF archivos, EnTemporales
  <2>7. CASE \E k \in Claves, ts \in 1..MaxTimestamp : INSERT(k, ts)
    BY <2>6, <2>7 DEF INSERT
  <2>8. CASE Compacta
    <3>1. EncuentraTemporal
      BY <2>1, <2>8 DEF Compacta, EmpiezaCompactacion, Renombra, TerminaRenombres,
         LeeTemporales, Une, TomaTabla, BorraParticion, CreaParticion, EscribeParticion,
         BorraTemporales, SueltaTabla, TerminaCompactacion
    <3> QED
      BY <2>6, <3>1 DEF EncuentraTemporal
  <2>9. CASE EmpiezaDump \/ SaltaNumero
    BY <2>6, <2>9 DEF EmpiezaDump, SaltaNumero
  <2>10. CASE CreaTemporal \/ EscribeTemporal
    <3>1. /\ numero \in Numeros /\ tmp[numero].registros = {} /\ memTable' = memTable /\ bin' = bin
          /\ \A i \in Numeros : i # numero => tmp'[i] = tmp[i]
      BY <1>2, <2>10 DEF CreaTemporal, EscribeTemporal, Datos, SoloExistentes, Volcando, Vacio,
                         TypeOK
    <3> QED
      BY <2>5, <3>1 DEF EnTemporales
  <2>11. CASE TerminaDump
    <3>1. bin' = bin /\ tmp' = tmp /\ \A r \in memTable : SupersedidoEn(r, Guardados)
      BY <1>2, <2>11 DEF TerminaDump, archivos, Datos, Volcando
    <3>2. EnTemporales' = EnTemporales
      BY <3>1 DEF EnTemporales
    <3>3. ASSUME lector[l].fase = "memtable", NEW r \in memTable, r.key = lector[l].key
          PROVE  SupersedidoEn(r, e \cup (memTable' \cup EnTemporales'))
      <4>1. PICK q \in Guardados : q.key = r.key /\ q.timestamp >= r.timestamp
        BY <3>1 DEF SupersedidoEn
      <4>2. CASE q \in EnTemporales
        BY <3>2, <4>1, <4>2 DEF SupersedidoEn
      <4>3. CASE q \in bin[p].registros
        <5>1. PICK x \in e : x.key = q.key /\ x.timestamp >= q.timestamp
          BY <1>2, <2>2, <3>3, <4>1, <4>3 DEF Lectura, SupersedidoEn
        <5>2. x.timestamp \in Int /\ q.timestamp \in Int /\ r.timestamp \in Int
          BY <1>2, <2>3, GuardadosRegistro DEF Registro
        <5> QED
          BY <4>1, <5>1, <5>2 DEF SupersedidoEn
      <4> QED
        BY <2>1, <3>3, <4>1, <4>2, <4>3, Fuera DEF InvLectura
    <3> QED
      BY <2>4, <3>1, <3>2, <3>3
  <2> QED
    BY <2>7, <2>8, <2>9, <2>10, <2>11 DEF Dump
<1> QED
  BY <1>3, <1>4


\* What a place holds for a key is superseded by its newest records.
LEMMA AlEncontrar ==
  ASSUME NEW r \in Registro, NEW E \in SUBSET Registro, NEW S \in SUBSET Registro,
         NEW T \in SUBSET Registro, SupersedidoEn(r, E \cup (S \cup T))
  PROVE  SupersedidoEn(r, (E \cup MasRecientes(S, r.key)) \cup T)
<1>1. PICK q \in E \cup (S \cup T) : q.key = r.key /\ q.timestamp >= r.timestamp
  BY DEF SupersedidoEn
<1>2. CASE q \in E \cup T
  BY <1>1, <1>2 DEF SupersedidoEn
<1>3. CASE q \in S
  <2>1. SupersedidoEn(q, MasRecientes(S, r.key))
    BY <1>1, <1>3, RecientesSuperan
  <2>2. PICK x \in MasRecientes(S, r.key) : x.key = q.key /\ x.timestamp >= q.timestamp
    BY <2>1 DEF SupersedidoEn
  <2>3. x \in S
    BY <2>2 DEF MasRecientes
  <2>4. x.timestamp \in Int /\ q.timestamp \in Int /\ r.timestamp \in Int
    BY <1>3, <2>3 DEF Registro
  <2>5. x.key = r.key /\ x.timestamp >= r.timestamp
    BY <1>1, <2>2, <2>4
  <2> QED
    BY <2>2, <2>5 DEF SupersedidoEn
<1> QED
  BY <1>2, <1>3

\* The step of another request.
LEMMA LecturaAjena ==
  ASSUME NEW l \in Red, Lectura(l), lector'[l] = lector[l],
         UNCHANGED <<memTable, archivos, aceptados>>
  PROVE  Lectura(l)'
  BY DEF Lectura, Encuentra, EnTemporales, archivos

\* A step of the request that moves on and adds what it has found.
LEMMA LecturaAvanza ==
  ASSUME TypeOK, NEW l \in Red, lector[l].fase \in FasesLectura, Lectura(l),
         UNCHANGED <<memTable, archivos, aceptados>>,
         NEW g \in FasesLectura \ {"memtable"}, NEW S \in SUBSET Registro,
         \A r \in S : r.key = lector[l].key /\ r \in aceptados,
         lector'[l].fase = g, lector'[l].key = lector[l].key,
         lector'[l].desde = lector[l].desde,
         lector'[l].RegistrosEncontrados = lector[l].RegistrosEncontrados \cup S,
         g = "temporales" =>
           \A r \in lector[l].desde :
             SupersedidoEn(r, (lector[l].RegistrosEncontrados \cup S) \cup EnTemporales),
         g \in {"compactando", "responde"} =>
           \A r \in lector[l].desde :
             SupersedidoEn(r, lector[l].RegistrosEncontrados \cup S)
  PROVE  Lectura(l)'
<1>1. EnTemporales' = EnTemporales
  BY DEF EnTemporales, archivos
<1> QED
  BY <1>1 DEF Lectura, Encuentra

\* A step that only moves on.
LEMMA LecturaSigue ==
  ASSUME TypeOK, NEW l \in Red, lector[l].fase \in FasesLectura, Lectura(l),
         UNCHANGED <<memTable, archivos, aceptados>>,
         lector'[l].key = lector[l].key, lector'[l].desde = lector[l].desde,
         lector'[l].RegistrosEncontrados = lector[l].RegistrosEncontrados,
         \/ lector'[l].fase \in {"verifica_memtable", "espera", "particion"}
         \/ lector[l].fase = "compactando" /\ lector'[l].fase = "responde"
  PROVE  Lectura(l)'
  BY DEF Lectura, Encuentra

\* The request's own steps.
LEMMA LecturaLee ==
  ASSUME InvLectura, riesgo = {}, NEW l \in Red,
         (\E k \in Claves : PideSELECT(l, k)) \/ Lee(l)
  PROVE  Lectura(l)'
<1> DEFINE e == lector[l].RegistrosEncontrados
           k == lector[l].key
           p == particionDeKey(k)
<1>t. /\ TypeOK /\ Semaforos /\ Datos /\ l \in Lectores /\ Lectura(l) /\ Propios
      /\ lector \in [Lectores -> Lector]
  BY DEF InvLectura, Inv, Lectores, TypeOK
<1>u. UNCHANGED <<memTable, archivos, aceptados>>
  BY DEF Lee, PideSELECT, VerificaTabla, VerificaMemTable, waitearSemTable, buscarEnParticion,
         buscarMemTable, buscarEnTemporales, buscarEnTemporalesCompactando, RespondeSELECT,
         historia
<1>1. ASSUME NEW c \in Claves, PideSELECT(l, c)
      PROVE  Lectura(l)'
  <2>1. lector'[l] = [fase |-> "verifica_tabla", key |-> c, RegistrosEncontrados |-> {},
                      mem |-> FALSE, desde |-> {r \in aceptados : r.key = c}]
    BY <1>1, <1>t DEF PideSELECT
  <2> QED
    BY <2>1, <1>u DEF Lectura
\* Only the phase changes.
<1>2. ASSUME NEW f \in FasesLectura, NEW g \in FasesLectura, EnFase(l, f), Pasa(l, g)
      PROVE  /\ lector[l].fase = f /\ lector'[l].fase = g /\ lector'[l].key = k
             /\ lector'[l].desde = lector[l].desde
             /\ lector'[l].RegistrosEncontrados = e
  <2>1. lector[l] \in Leyendo
    BY <1>2, <1>t, LectorLeyendo DEF EnFase
  <2>2. lector'[l] = [lector[l] EXCEPT !.fase = g]
    BY <1>2, <1>t DEF Pasa
  <2> QED
    BY <1>2, <2>1, <2>2 DEF EnFase, Leyendo
<1>3. CASE VerificaTabla(l) \/ VerificaMemTable(l) \/ waitearSemTable(l)
  <2>1. \E f \in {"verifica_tabla", "verifica_memtable", "espera"},
          g \in {"verifica_memtable", "espera", "particion"} : EnFase(l, f) /\ Pasa(l, g)
    BY <1>3 DEF VerificaTabla, VerificaMemTable, waitearSemTable
  <2>2. PICK f \in {"verifica_tabla", "verifica_memtable", "espera"},
             g \in {"verifica_memtable", "espera", "particion"} : EnFase(l, f) /\ Pasa(l, g)
    BY <2>1
  <2>3. f \in FasesLectura /\ g \in FasesLectura
    BY DEF FasesLectura
  <2>4. /\ lector[l].fase = f /\ lector'[l].fase = g /\ lector'[l].key = k
        /\ lector'[l].desde = lector[l].desde
        /\ lector'[l].RegistrosEncontrados = e
    BY <1>2, <2>2, <2>3
  <2> QED
    BY <1>t, <1>u, <2>3, <2>4, LecturaSigue
\* What was found in a place is added.
<1>4. ASSUME NEW f \in FasesLectura, NEW g \in FasesLectura, NEW S \in SUBSET Registro,
             EnFase(l, f), Agrega(l, S, g)
      PROVE  /\ lector[l].fase = f /\ lector'[l].fase = g /\ lector'[l].key = k
             /\ lector'[l].desde = lector[l].desde
             /\ lector'[l].RegistrosEncontrados = e \cup MasRecientes(S, k)
  <2>1. lector[l] \in Leyendo
    BY <1>4, <1>t, LectorLeyendo DEF EnFase
  <2>2. lector'[l] = [lector[l] EXCEPT !.RegistrosEncontrados = @ \cup MasRecientes(S, k),
                                       !.fase = g]
    BY <1>4, <1>t DEF Agrega
  <2> QED
    BY <1>4, <2>1, <2>2 DEF EnFase, Leyendo
\* In the search the compaction is kept out, and the types are known.
<1>5. ASSUME lector[l].fase \in FasesLectura
      PROVE  /\ k \in Claves /\ p \in Particiones /\ e \in SUBSET Registro
             /\ lector[l].desde \in SUBSET Registro /\ memTable \in SUBSET Registro
             /\ EnTemporales \in SUBSET Registro /\ RegistrosDe(tmp) \in SUBSET Registro
             /\ bin[p].registros \in SUBSET Registro
             /\ \A r \in lector[l].desde : r.key = k /\ r \in aceptados
             /\ \A r \in e : r.key = k /\ r \in aceptados
  BY <1>5, <1>t, LecturaTipo DEF Lectura
<1>6. ASSUME l \in LeyendoDentro
      PROVE  compactador \in {"duerme", "espera"}
  BY <1>6, <1>t, LeyendoFuera
<1>7. CASE buscarEnParticion(l)
  <2> DEFINE M == MasRecientes(bin[p].registros, k)
  <2>1. lector[l].fase = "particion" /\ l \in LeyendoDentro
    BY <1>7 DEF buscarEnParticion, EnFase, LeyendoDentro, FasesLectura
  <2>2. "particion" \in FasesLectura /\ "memtable" \in FasesLectura
    BY DEF FasesLectura
  <2>3. /\ lector'[l].fase = "memtable" /\ lector'[l].key = k
        /\ lector'[l].desde = lector[l].desde /\ lector'[l].RegistrosEncontrados = e \cup M
    <3>c. ~AMediasBin(p)
      BY <1>6, <2>1 DEF AMediasBin
    <3>p. PICK S \in Parte(AMediasBin(p), cargar[p]) :
                 Agrega(l, bin[p].registros \cup S, "memtable")
      BY <1>7 DEF buscarEnParticion, Orden
    <3>e. bin[p].registros \cup S = bin[p].registros
      BY <3>c, <3>p DEF Parte
    <3>1. EnFase(l, "particion") /\ Agrega(l, bin[p].registros, "memtable")
      BY <1>7, <3>p, <3>e DEF buscarEnParticion
    <3> QED
      BY <1>4, <1>5, <2>1, <2>2, <3>1
  <2>4. \A r \in M : r.key = k /\ r \in aceptados
    <3>1. \A r \in M : r \in bin[p].registros /\ r.key = k
      BY DEF MasRecientes
    <3>2. \A r \in bin[p].registros : r \in Guardados
      BY <1>5, <2>1, <2>2, DondeEsta
    <3> QED
      BY <1>t, <3>1, <3>2 DEF Propios
  <2>5. \A r \in bin[p].registros : r.key = k => SupersedidoEn(r, e \cup M)
    <3> SUFFICES ASSUME NEW r \in bin[p].registros, r.key = k
                 PROVE  SupersedidoEn(r, e \cup M)
      OBVIOUS
    <3>1. SupersedidoEn(r, M)
      BY <1>5, <2>1, <2>2, RecientesSuperan
    <3> QED
      BY <3>1 DEF SupersedidoEn
  <2>6. ASSUME NEW r \in lector[l].desde
        PROVE  SupersedidoEn(r, (e \cup M) \cup (memTable \cup EnTemporales))
    <3>1. r.key = k /\ SupersedidoEn(r, memTable \cup Guardados)
      BY <1>t, <1>5, <2>1, <2>2 DEF Datos, Conservados
    <3>2. PICK q \in memTable \cup Guardados : q.key = r.key /\ q.timestamp >= r.timestamp
      BY <3>1 DEF SupersedidoEn
    <3>3. CASE q \in memTable \cup EnTemporales
      BY <3>2, <3>3 DEF SupersedidoEn
    <3>4. CASE q \in bin[p].registros
      <4>1. PICK x \in e \cup M : x.key = q.key /\ x.timestamp >= q.timestamp
        BY <2>5, <3>1, <3>2, <3>4 DEF SupersedidoEn
      <4>2. x.timestamp \in Int /\ q.timestamp \in Int /\ r.timestamp \in Int
        <5>1. x \in e \/ x \in bin[p].registros
          BY <4>1 DEF MasRecientes
        <5> QED
          BY <1>5, <2>1, <2>2, <3>4, <5>1 DEF Registro
      <4>3. x.key = r.key /\ x.timestamp >= r.timestamp
        BY <3>2, <4>1, <4>2
      <4> QED
        BY <4>1, <4>3 DEF SupersedidoEn
    <3>5. CASE q \in Guardados
      <4>1. q \in EnTemporales \/ q \in bin[p].registros
        BY <1>6, <2>1, <3>1, <3>2, <3>5, Fuera DEF InvLectura
      <4> QED
        BY <3>3, <3>4, <4>1
    <3> QED
      BY <3>3, <3>5
  <2>7. EnTemporales' = EnTemporales /\ bin' = bin
    BY <1>u DEF EnTemporales, archivos
  <2> HIDE DEF M
  <2> QED
    BY <1>5, <1>u, <2>1, <2>2, <2>3, <2>4, <2>5, <2>6, <2>7 DEF Lectura, Encuentra
<1>8. CASE buscarMemTable(l)
  <2> DEFINE M == MasRecientes(memTable, k)
  <2>1. lector[l].fase = "memtable" /\ "memtable" \in FasesLectura
        /\ "temporales" \in FasesLectura \ {"memtable"}
    BY <1>8 DEF buscarMemTable, EnFase, FasesLectura
  <2>2. dumpeo = "duerme"
    BY <1>8, <1>t DEF buscarMemTable, Semaforos
  <2>3. lector'[l] = [lector[l] EXCEPT !.RegistrosEncontrados = @ \cup M,
                                       !.mem = \E r \in memTable : r.key = k,
                                       !.fase = "temporales"]
    BY <1>8, <1>t, <2>2 DEF buscarMemTable, Orden
  <2>4. /\ lector'[l].fase = "temporales" /\ lector'[l].key = k
        /\ lector'[l].desde = lector[l].desde /\ lector'[l].RegistrosEncontrados = e \cup M
    <3>1. lector[l] \in Leyendo
      BY <1>t, <2>1, LectorLeyendo
    <3> QED
      BY <2>3, <3>1 DEF Leyendo
  <2>5. M \in SUBSET Registro /\ \A r \in M : r.key = k /\ r \in aceptados
    BY <1>t, <1>5, <2>1 DEF MasRecientes, Propios
  <2>6. \A r \in lector[l].desde : SupersedidoEn(r, (e \cup M) \cup EnTemporales)
    BY <1>t, <1>5, <2>1, AlEncontrar DEF Lectura, Encuentra
  <2> HIDE DEF M
  <2> QED
    BY <1>t, <1>u, <2>1, <2>4, <2>5, <2>6, LecturaAvanza
<1>9. CASE buscarEnTemporales(l)
  <2>1. lector[l].fase = "temporales" /\ "temporales" \in FasesLectura
        /\ "compactando" \in FasesLectura \ {"memtable"} /\ l \in LeyendoDentro
    BY <1>9 DEF buscarEnTemporales, EnFase, FasesLectura, LeyendoDentro
  <2>2. RegistrosDe(tmp) = EnTemporales
    BY <1>6, <2>1, TodosSeguidos DEF InvLectura
  <2>p. PICK S \in Parte(AMediasTmp, memTable) : Agrega(l, RegistrosDe(tmp) \cup S, "compactando")
    BY <1>9 DEF buscarEnTemporales, Orden
  <2>s. S \subseteq memTable
    BY <2>p, ParteDe, AMediasBool
  <2> DEFINE T == RegistrosDe(tmp) \cup S
             M == MasRecientes(T, k)
  <2>t. T \in SUBSET Registro /\ Agrega(l, T, "compactando")
    BY <1>5, <2>1, <2>p, <2>s
  <2>3. /\ lector'[l].fase = "compactando" /\ lector'[l].key = k
        /\ lector'[l].desde = lector[l].desde /\ lector'[l].RegistrosEncontrados = e \cup M
    <3>1. EnFase(l, "temporales")
      BY <1>9 DEF buscarEnTemporales
    <3> HIDE DEF T
    <3> QED
      BY <1>4, <2>1, <2>t, <3>1
  <2>4. M \in SUBSET Registro /\ \A r \in M : r.key = k /\ r \in aceptados
    <3>1. \A r \in M : (r \in EnTemporales \/ r \in memTable) /\ r.key = k
      BY <2>2, <2>s DEF MasRecientes
    <3>2. \A r \in EnTemporales : r \in Guardados
      BY DondeEsta DEF EnTemporales
    <3>3. M \subseteq T
      BY DEF MasRecientes
    <3> QED
      BY <1>t, <2>t, <3>1, <3>2, <3>3 DEF Propios
  <2>5. ASSUME NEW r \in lector[l].desde
        PROVE  SupersedidoEn(r, e \cup M)
    <3>1. SupersedidoEn(r, e \cup EnTemporales) /\ r \in Registro /\ r.key = k
      BY <1>t, <1>5, <2>1 DEF Lectura, Encuentra
    <3>2. SupersedidoEn(r, e \cup (T \cup {}))
      BY <2>2, <3>1 DEF SupersedidoEn
    <3>3. SupersedidoEn(r, (e \cup M) \cup {})
      <4> HIDE DEF T
      <4> QED
        BY <1>5, <2>1, <2>t, <3>1, <3>2, AlEncontrar
    <3>4. (e \cup M) \cup {} = e \cup M
      OBVIOUS
    <3> QED
      BY <3>3, <3>4
  <2> HIDE DEF M
  <2> QED
    BY <1>t, <1>u, <2>1, <2>3, <2>4, <2>5, LecturaAvanza
<1>10. CASE buscarEnTemporalesCompactando(l)
  <2>1. lector[l].fase = "compactando" /\ "compactando" \in FasesLectura
        /\ "responde" \in FasesLectura \ {"memtable"}
        /\ EnFase(l, "compactando") /\ Pasa(l, "responde")
    BY <1>10 DEF buscarEnTemporalesCompactando, EnFase, FasesLectura
  <2>2. /\ lector'[l].fase = "responde" /\ lector'[l].key = k
        /\ lector'[l].desde = lector[l].desde /\ lector'[l].RegistrosEncontrados = e
    BY <1>2, <2>1
  <2> QED
    BY <1>t, <1>u, <2>1, <2>2, LecturaSigue
<1>11. CASE RespondeSELECT(l)
  <2>1. lector'[l].fase = "fin"
    BY <1>11, <1>t DEF RespondeSELECT
  <2> QED
    BY <2>1 DEF Lectura, FasesLectura
<1> QED
  BY <1>1, <1>3, <1>7, <1>8, <1>9, <1>10, <1>11 DEF Lee

\* A step of a request moves only that request.
LEMMA SoloSuPaso ==
  ASSUME TypeOK, NEW m \in Lectores, (\E k \in Claves : PideSELECT(m, k)) \/ Lee(m)
  PROVE  /\ \A l \in Lectores : l # m => lector'[l] = lector[l]
         /\ UNCHANGED <<memTable, archivos, aceptados>>
<1>1. \E x : lector' = [lector EXCEPT ![m] = x]
  BY DEF Lee, PideSELECT, VerificaTabla, VerificaMemTable, waitearSemTable, buscarEnParticion,
         buscarMemTable, buscarEnTemporales, buscarEnTemporalesCompactando, RespondeSELECT,
         Pasa, Agrega
<1>2. UNCHANGED <<memTable, archivos, aceptados>>
  BY DEF Lee, PideSELECT, VerificaTabla, VerificaMemTable, waitearSemTable, buscarEnParticion,
         buscarMemTable, buscarEnTemporales, buscarEnTemporalesCompactando, RespondeSELECT,
         historia
<1> QED
  BY <1>1, <1>2 DEF TypeOK

\* After a restart nobody is searching.
LEMMA ReinicioSinPedidos ==
  ASSUME TypeOK, Reinicio, NEW l \in Lectores
  PROVE  lector'[l].fase \notin FasesLectura
  BY DEF Reinicio, TypeOK, SinPedir, FasesLectura

LEMMA LecturaPaso ==
  ASSUME InvLectura, Inv', [Next]_vars, riesgo' = {}, NEW l \in Red
  PROVE  Lectura(l)'
<1>1. riesgo = {} /\ TypeOK /\ Lectura(l) /\ l \in Lectores
  BY RiesgoCrece DEF InvLectura, Inv, Lectores
<1>2. CASE Dump \/ Compacta \/ \E k \in Claves, ts \in 1..MaxTimestamp : INSERT(k, ts)
  BY <1>1, <1>2, LecturaDump
<1>3. ASSUME NEW m \in Lectores, (\E k \in Claves : PideSELECT(m, k)) \/ Lee(m)
      PROVE  Lectura(l)'
  <2>1. CASE m = l
    BY <1>1, <1>3, <2>1, LecturaLee
  <2>2. CASE m # l
    <3>1. lector'[l] = lector[l] /\ UNCHANGED <<memTable, archivos, aceptados>>
      BY <1>1, <1>3, <2>2, SoloSuPaso
    <3> QED
      BY <1>1, <3>1, LecturaAjena
  <2> QED
    BY <2>1, <2>2
<1>4. CASE Caida \/ UNCHANGED vars
  <2>1. lector'[l] = lector[l] /\ UNCHANGED <<memTable, archivos, aceptados>>
    BY <1>4 DEF Caida, vars, historia
  <2> QED
    BY <1>1, <2>1, LecturaAjena
<1>5. CASE Reinicio
  BY <1>1, <1>5, ReinicioSinPedidos DEF Lectura
<1> QED
  BY <1>2, <1>3, <1>4, <1>5 DEF Next

LEMMA InvLecturaInit == Init => InvLectura
<1> SUFFICES ASSUME Init PROVE InvLectura
  OBVIOUS
<1>1. Inv
  BY InvInit
<1>2. \A r : r \notin Guardados
  BY DondeEsta DEF Init, SinArchivo, Vacio
<1>3. Propios /\ EnSuParticion
  BY <1>2 DEF Propios, EnSuParticion, Init, Vacio
<1>4. \A l \in Red : Lectura(l)
  BY DEF Lectura, Init, Lectores, SinPedir, FasesLectura
<1> QED
  BY <1>1, <1>3, <1>4 DEF InvLectura

LEMMA InvLecturaPaso == InvLectura /\ [Next]_vars => InvLectura'
<1> SUFFICES ASSUME InvLectura, [Next]_vars PROVE InvLectura'
  OBVIOUS
<1>1. Inv /\ TypeOK /\ Propios /\ EnSuParticion
  BY DEF InvLectura, Inv
<1>2. Inv'
  BY <1>1, InvPaso
<1>3. Propios'
  BY <1>1, PropiosPaso
<1>4. EnSuParticion'
  BY <1>1, ParticionPaso
<1>5. riesgo' = {} => \A l \in Red : Lectura(l)'
  BY <1>2, LecturaPaso
<1> QED
  BY <1>2, <1>3, <1>4, <1>5 DEF InvLectura

-----------------------------------------------------------------------------
(* The newest record.                                                       *)

\* MasNuevo is the greatest timestamp of the key, and 0 when there is none.
LEMMA EsElMasNuevo ==
  ASSUME NEW S \in SUBSET Registro, NEW k
  PROVE  /\ MasNuevo(S, k) \in Nat
         /\ \A r \in S : r.key = k => r.timestamp <= MasNuevo(S, k)
         /\ \/ MasNuevo(S, k) = 0 /\ \A r \in S : r.key # k
            \/ \E r \in S : r.key = k /\ r.timestamp = MasNuevo(S, k)
<1>1. CASE \E r \in S : r.key = k
  <2>1. PICK r \in S : r.key = k
    BY <1>1
  <2>2. \E q : q \in MasRecientes(S, k)
    <3>1. PICK q \in S : /\ q.key = r.key /\ \A x \in S : x.key = r.key => x.timestamp <= q.timestamp
      BY HayMasReciente
    <3> QED
      BY <2>1, <3>1 DEF MasRecientes
  <2> DEFINE c == CHOOSE q \in MasRecientes(S, k) : TRUE
  <2>3. c \in MasRecientes(S, k)
    BY <2>2
  <2>4. MasNuevo(S, k) = c.timestamp
    BY <1>1 DEF MasNuevo
  <2> HIDE DEF c
  <2>5. c \in S /\ c.key = k /\ \A q \in S : q.key = k => q.timestamp <= c.timestamp
    BY <2>3 DEF MasRecientes
  <2>6. c.timestamp \in Nat
    BY <2>5, ConstantesLFSTabla DEF Registro
  <2> QED
    BY <2>4, <2>5, <2>6
<1>2. CASE ~\E r \in S : r.key = k
  <2>1. MasNuevo(S, k) = 0
    BY <1>2 DEF MasNuevo
  <2> QED
    BY <1>2, <2>1
<1> QED
  BY <1>1, <1>2

\* ... and the only number that is.
LEMMA SoloUnMasNuevo ==
  ASSUME NEW S \in SUBSET Registro, NEW k, NEW n \in Nat,
         \A r \in S : r.key = k => r.timestamp <= n,
         \/ n = 0 /\ \A r \in S : r.key # k
         \/ \E r \in S : r.key = k /\ r.timestamp = n
  PROVE  MasNuevo(S, k) = n
<1>1. \A r \in S : r.timestamp \in Int
  BY DEF Registro
<1> QED
  BY <1>1, EsElMasNuevo

\* What supersedes a set, and comes from it, has its newest records.
LEMMA MismoMasNuevo ==
  ASSUME NEW S \in SUBSET Registro, NEW T \in SUBSET Registro, NEW k,
         \A r \in S : r \in T, \A r \in T : SupersedidoEn(r, S)
  PROVE  MasNuevo(S, k) = MasNuevo(T, k)
<1> DEFINE n == MasNuevo(T, k)
<1>1. /\ n \in Nat
      /\ \A r \in T : r.key = k => r.timestamp <= n
      /\ \/ n = 0 /\ \A r \in T : r.key # k
         \/ \E r \in T : r.key = k /\ r.timestamp = n
  BY EsElMasNuevo
<1> HIDE DEF n
<1>2. \A r \in S : r.key = k => r.timestamp <= n
  BY <1>1
<1>3. CASE \E r \in T : r.key = k /\ r.timestamp = n
  <2>1. PICK r \in T : r.key = k /\ r.timestamp = n
    BY <1>3
  <2>2. PICK q \in S : q.key = r.key /\ q.timestamp >= r.timestamp
    BY DEF SupersedidoEn
  <2>3. q.timestamp \in Int
    BY DEF Registro
  <2>4. q.key = k /\ q.timestamp = n
    BY <1>1, <1>2, <2>1, <2>2, <2>3
  <2> QED
    BY <1>1, <1>2, <2>4, SoloUnMasNuevo DEF n
<1>4. CASE n = 0 /\ \A r \in T : r.key # k
  BY <1>1, <1>2, <1>4, SoloUnMasNuevo DEF n
<1> QED
  BY <1>1, <1>3, <1>4

\* The newest record a SELECT can find is the newest one accepted.
LEMMA VisiblesAceptados ==
  InvLectura /\ riesgo = {} =>
    \A k \in Claves : MasNuevo(Visibles, k) = MasNuevo(aceptados, k)
<1> SUFFICES ASSUME InvLectura, riesgo = {}
             PROVE  \A k \in Claves : MasNuevo(Visibles, k) = MasNuevo(aceptados, k)
  OBVIOUS
<1>1. Datos /\ SinHuecos /\ TypeOK /\ Propios
  BY DEF InvLectura, Inv
<1>2. ASSUME NEW q \in Guardados PROVE q \in Visibles
  <2>1. CASE \E i \in Numeros : q \in tmp[i].registros
    BY <1>1, <2>1 DEF Visibles, Datos, SoloExistentes, SinHuecos
  <2>2. CASE \E i \in Numeros : q \in tmpc[i].registros
    BY <1>1, <2>2 DEF Visibles, RegistrosDe, Datos, Renombrados
  <2>3. CASE q \in temporales \/ (\E p \in Particiones : q \in bin[p].registros)
               \/ \E p \in Particiones : q \in cargar[p]
    BY <2>3 DEF Visibles
  <2> QED
    BY <2>1, <2>2, <2>3, DondeEsta
<1>3. ASSUME NEW q \in Visibles PROVE q \in memTable \/ q \in Guardados
  <2>1. \/ q \in memTable
        \/ \E i \in Numeros : q \in tmp[i].registros
        \/ \E i \in Numeros : q \in tmpc[i].registros
        \/ q \in temporales
        \/ \E p \in Particiones : q \in bin[p].registros
        \/ \E p \in Particiones : q \in cargar[p]
    BY <1>3 DEF Visibles, RegistrosDe, Seguidos, Alcanzables, PorRenombrar
  <2> QED
    BY <2>1, DondeEsta
<1>4. Visibles \in SUBSET Registro /\ aceptados \in SUBSET Registro
  BY <1>1, <1>3, GuardadosRegistro DEF TypeOK
<1>5. \A r \in Visibles : r \in aceptados
  BY <1>1, <1>3 DEF Propios
<1>6. ASSUME NEW r \in aceptados PROVE SupersedidoEn(r, Visibles)
  <2>1. SupersedidoEn(r, memTable \cup Guardados)
    BY <1>1 DEF Datos, Conservados
  <2>2. \A q \in memTable : q \in Visibles
    BY DEF Visibles
  <2> QED
    BY <1>2, <2>1, <2>2 DEF SupersedidoEn
<1> QED
  BY <1>4, <1>5, <1>6, MismoMasNuevo

LEMMA VisiblesAceptadosLuego ==
  (InvLectura /\ riesgo = {} => \A k \in Claves : MasNuevo(Visibles, k) = MasNuevo(aceptados, k))'
  BY VisiblesAceptados, PTL

-----------------------------------------------------------------------------
(* The refinement.                                                          *)

\* The state of Almacen.
Registros == [k \in Claves |-> MasNuevo(Visibles, k)]
Pedidos == [l \in Red |-> PedidoDe(l)]

\* Steps that accept nothing, and answer and start no request of a memory, change nothing
\* in Almacen.
LEMMA RegistrosQuietos ==
  ASSUME InvLectura, InvLectura', riesgo = {}, riesgo' = {}, aceptados' = aceptados
  PROVE  Registros' = Registros
<1>1. \A k \in Claves : MasNuevo(Visibles, k) = MasNuevo(aceptados, k)
  BY VisiblesAceptados
<1>2. (\A k \in Claves : MasNuevo(Visibles, k) = MasNuevo(aceptados, k))'
  BY VisiblesAceptadosLuego
<1>3. \A k \in Claves : MasNuevo(aceptados, k)' = MasNuevo(aceptados, k)
  BY DEF MasNuevo, MasRecientes
<1> QED
  BY <1>1, <1>2, <1>3 DEF Registros

LEMMA RegistrosInsert ==
  ASSUME InvLectura, InvLectura', riesgo = {}, riesgo' = {},
         NEW k \in Claves, NEW ts \in 1..MaxTimestamp, INSERT(k, ts)
  PROVE  Registros' = [Registros EXCEPT ![k] = IF ts > Registros[k] THEN ts ELSE Registros[k]]
<1> DEFINE r == [key |-> k, timestamp |-> ts]
<1>1. \A c \in Claves : MasNuevo(Visibles, c) = MasNuevo(aceptados, c)
  BY VisiblesAceptados
<1>2. (\A c \in Claves : MasNuevo(Visibles, c) = MasNuevo(aceptados, c))'
  BY VisiblesAceptadosLuego
<1>3. aceptados' = aceptados \cup {r} /\ aceptados \in SUBSET Registro
  BY DEF INSERT, InvLectura, Inv, TypeOK
<1>4. \A c \in Claves : MasNuevo(aceptados, c)' = MasNuevo(aceptados \cup {r}, c)
  BY <1>3 DEF MasNuevo, MasRecientes
<1>5. ASSUME NEW c \in Claves
      PROVE  MasNuevo(aceptados \cup {r}, c) =
               IF c = k /\ ts > MasNuevo(aceptados, k) THEN ts ELSE MasNuevo(aceptados, c)
  <2> DEFINE n == IF c = k /\ ts > MasNuevo(aceptados, k) THEN ts ELSE MasNuevo(aceptados, c)
  <2>1. r \in Registro /\ r.key = k /\ r.timestamp = ts /\ aceptados \cup {r} \in SUBSET Registro
    BY <1>3 DEF Registro
  <2>2. /\ MasNuevo(aceptados, c) \in Nat
        /\ \A q \in aceptados : q.key = c => q.timestamp <= MasNuevo(aceptados, c)
        /\ \/ MasNuevo(aceptados, c) = 0 /\ \A q \in aceptados : q.key # c
           \/ \E q \in aceptados : q.key = c /\ q.timestamp = MasNuevo(aceptados, c)
    BY <1>3, EsElMasNuevo
  <2>3. \A q \in aceptados : q.timestamp \in Int
    BY <1>3 DEF Registro
  <2>4. ts \in Nat /\ ts > 0
    BY ConstantesLFSTabla
  <2> HIDE DEF r
  <2>5. /\ n \in Nat
        /\ \A q \in aceptados \cup {r} : q.key = c => q.timestamp <= n
        /\ \/ n = 0 /\ \A q \in aceptados \cup {r} : q.key # c
           \/ \E q \in aceptados \cup {r} : q.key = c /\ q.timestamp = n
    <3>1. CASE c = k /\ ts > MasNuevo(aceptados, k)
      BY <2>1, <2>2, <2>3, <2>4, <3>1
    <3>2. CASE ~(c = k /\ ts > MasNuevo(aceptados, k))
      <4>1. n = MasNuevo(aceptados, c)
        BY <3>2
      <4>2. \A q \in aceptados \cup {r} : q.key = c => q.timestamp <= MasNuevo(aceptados, c)
        BY <2>1, <2>2, <2>4, <3>2
      <4>3. \/ MasNuevo(aceptados, c) = 0 /\ \A q \in aceptados \cup {r} : q.key # c
            \/ \E q \in aceptados \cup {r} : q.key = c /\ q.timestamp = MasNuevo(aceptados, c)
        BY <2>1, <2>2, <2>4, <3>2
      <4> QED
        BY <2>2, <4>1, <4>2, <4>3
    <3> QED
      BY <3>1, <3>2
  <2> HIDE DEF n
  <2>6. MasNuevo(aceptados \cup {r}, c) = n
    BY <2>1, <2>5, SoloUnMasNuevo
  <2> QED
    BY <2>6 DEF n
<1> QED
  BY <1>1, <1>2, <1>4, <1>5 DEF Registros

\* The requests of the memories, as Almacen sees them.
LEMMA PedidosQuietos ==
  ASSUME \A l \in Red : \/ lector'[l] = lector[l]
                        \/ /\ lector[l].fase \in FasesLectura /\ lector'[l].fase \in FasesLectura
                           /\ lector'[l].key = lector[l].key /\ lector'[l].desde = lector[l].desde
  PROVE  Pedidos' = Pedidos
<1>1. \A l \in Red : PedidoDe(l)' = PedidoDe(l)
  BY DEF PedidoDe, MasNuevo, MasRecientes
<1> QED
  BY <1>1 DEF Pedidos

LEMMA BuscaSinResponder ==
  ASSUME TypeOK, NEW l \in Lectores, Lee(l), ~RespondeSELECT(l)
  PROVE  /\ lector[l].fase \in FasesLectura /\ lector'[l].fase \in FasesLectura
         /\ lector'[l].key = lector[l].key /\ lector'[l].desde = lector[l].desde
<1>1. lector[l].fase \in FasesLectura
  BY DEF Lee, VerificaTabla, VerificaMemTable, waitearSemTable, buscarEnParticion, buscarMemTable,
         buscarEnTemporales, buscarEnTemporalesCompactando, EnFase, FasesLectura
<1>2. lector[l] \in Leyendo /\ lector \in [Lectores -> Lector]
  BY <1>1, LectorLeyendo DEF TypeOK
<1>3. ASSUME NEW g \in FasesLectura, Pasa(l, g)
      PROVE  lector'[l].fase = g /\ lector'[l].key = lector[l].key
             /\ lector'[l].desde = lector[l].desde
  BY <1>2, <1>3 DEF Pasa, Leyendo
<1>4. ASSUME NEW g \in FasesLectura, NEW S, Agrega(l, S, g)
      PROVE  lector'[l].fase = g /\ lector'[l].key = lector[l].key
             /\ lector'[l].desde = lector[l].desde
  BY <1>2, <1>4 DEF Agrega, Leyendo
<1>5. CASE \E g \in FasesLectura : Pasa(l, g)
  BY <1>1, <1>3, <1>5
<1>6. CASE VerificaTabla(l) \/ VerificaMemTable(l) \/ waitearSemTable(l)
             \/ buscarEnTemporalesCompactando(l)
  BY <1>5, <1>6 DEF VerificaTabla, VerificaMemTable, waitearSemTable,
                    buscarEnTemporalesCompactando, FasesLectura
<1>7. CASE buscarEnParticion(l)
  BY <1>1, <1>4, <1>7 DEF buscarEnParticion, Orden, FasesLectura
<1>8. CASE buscarEnTemporales(l)
  BY <1>1, <1>4, <1>8 DEF buscarEnTemporales, Orden, FasesLectura
<1>9. CASE buscarMemTable(l)
  <2>1. CASE dumpeo # "libera"
    <3> DEFINE M == MasRecientes(memTable, lector[l].key)
               m == \E r \in memTable : r.key = lector[l].key
    <3>1. lector'[l] = [lector[l] EXCEPT !.RegistrosEncontrados = @ \cup M, !.mem = m,
                                         !.fase = "temporales"]
      BY <1>2, <1>9, <2>1 DEF buscarMemTable, Orden
    <3> HIDE DEF M, m
    <3>2. lector'[l].fase = "temporales" /\ lector'[l].key = lector[l].key
          /\ lector'[l].desde = lector[l].desde
      BY <1>2, <3>1 DEF Leyendo
    <3> QED
      BY <1>1, <3>2 DEF FasesLectura
  <2>2. CASE dumpeo = "libera"
    BY <1>5, <1>9, <2>2 DEF buscarMemTable, Orden, FasesLectura
  <2> QED
    BY <2>1, <2>2
<1> QED
  BY <1>6, <1>7, <1>8, <1>9 DEF Lee

\* A new request of a memory is one of Almacen.
LEMMA PideEsPedir ==
  ASSUME InvLectura, riesgo = {}, Registros' = Registros,
         NEW l \in Red, NEW k \in Claves, PideSELECT(l, k)
  PROVE  A!Pedir(l, k)
<1>1. TypeOK /\ l \in Lectores
  BY DEF InvLectura, Inv, Lectores
<1>2. lector[l] = SinPedir
  <2>1. lector[l] \in Lector /\ lector[l].fase = "libre"
    BY <1>1 DEF TypeOK, PideSELECT, EnFase
  <2> QED
    BY <2>1 DEF Lector, FasesLectura
<1>3. PedidoDe(l) = SinPedir
  BY <1>2 DEF PedidoDe, SinPedir, FasesLectura
<1> DEFINE D == {r \in aceptados : r.key = k}
<1>4. lector'[l] = [fase |-> "verifica_tabla", key |-> k, RegistrosEncontrados |-> {},
                    mem |-> FALSE, desde |-> D]
  BY <1>1 DEF PideSELECT, TypeOK
<1>5. MasNuevo(D, k) = MasNuevo(aceptados, k)
  <2>1. aceptados \in SUBSET Registro /\ D \in SUBSET Registro
    BY <1>1 DEF TypeOK
  <2>2. /\ MasNuevo(D, k) \in Nat
        /\ \A r \in D : r.key = k => r.timestamp <= MasNuevo(D, k)
        /\ \/ MasNuevo(D, k) = 0 /\ \A r \in D : r.key # k
           \/ \E r \in D : r.key = k /\ r.timestamp = MasNuevo(D, k)
    BY <2>1, EsElMasNuevo
  <2>3. /\ \A r \in aceptados : r.key = k => r.timestamp <= MasNuevo(D, k)
        /\ \/ MasNuevo(D, k) = 0 /\ \A r \in aceptados : r.key # k
           \/ \E r \in aceptados : r.key = k /\ r.timestamp = MasNuevo(D, k)
    BY <2>2
  <2> HIDE DEF D
  <2> QED
    BY <2>1, <2>2, <2>3, SoloUnMasNuevo
<1>6. MasNuevo(aceptados, k) = Registros[k]
  BY VisiblesAceptados DEF Registros
<1> HIDE DEF D
<1>7. PedidoDe(l)' = [fase |-> "pendiente", key |-> k, desde |-> MasNuevo(D, k)]
  <2>1. lector'[l].fase \in FasesLectura /\ lector'[l].key = k /\ lector'[l].desde = D
    BY <1>4 DEF FasesLectura
  <2>2. PedidoDe(l)' = [fase |-> "pendiente", key |-> lector'[l].key,
                        desde |-> MasNuevo(lector'[l].desde, lector'[l].key)]
    BY <2>1 DEF PedidoDe, MasNuevo, MasRecientes
  <2> QED
    BY <2>1, <2>2
<1>8. \A m \in Red : m # l => PedidoDe(m)' = PedidoDe(m)
  <2>1. \A m \in Red : m # l => lector'[m] = lector[m]
    BY <1>1, SoloSuPaso DEF Lectores
  <2> QED
    BY <2>1 DEF PedidoDe, MasNuevo, MasRecientes
<1>9. Pedidos' = [Pedidos EXCEPT ![l] = [fase |-> "pendiente", key |-> k, desde |-> Registros[k]]]
  BY <1>5, <1>6, <1>7, <1>8 DEF Pedidos
<1>10. Pedidos[l] = SinPedir
  BY <1>3 DEF Pedidos
<1> QED
  BY <1>9, <1>10 DEF A!Pedir, A!SinPedir, SinPedir, Pedidos, Registros

\* An answer to a memory is one of Almacen: nothing older than what the request was to
\* find, nothing that has not been accepted.
LEMMA RespondeEsResponder ==
  ASSUME InvLectura, riesgo = {}, Registros' = Registros,
         NEW l \in Red, RespondeSELECT(l)
  PROVE  A!Responder(l)
<1> DEFINE k == lector[l].key
           R == lector[l].RegistrosEncontrados
           D == lector[l].desde
<1>1. TypeOK /\ l \in Lectores /\ Lectura(l)
  BY DEF InvLectura, Inv, Lectores
<1>2. lector[l].fase = "responde" /\ lector[l].fase \in FasesLectura
  BY DEF RespondeSELECT, EnFase, FasesLectura
<1>3. /\ k \in Claves /\ R \in SUBSET Registro /\ D \in SUBSET Registro
      /\ aceptados \in SUBSET Registro
      /\ \A r \in D \cup R : r.key = k /\ r \in aceptados
      /\ \A r \in D : SupersedidoEn(r, R)
  <2>1. \A r \in D : SupersedidoEn(r, R \cup {})
    BY <1>1, <1>2 DEF Lectura, Encuentra
  <2>2. R \cup {} = R
    OBVIOUS
  <2> QED
    BY <1>1, <1>2, <2>1, <2>2, LecturaTipo DEF Lectura, TypeOK
<1>4. PICK ts \in Elegidos(l) : lector' = [lector EXCEPT ![l] =
                      [fase |-> "fin", key |-> k, timestamp |-> ts]]
  BY DEF RespondeSELECT
<1>5. Registros[k] = MasNuevo(aceptados, k)
  BY <1>3, VisiblesAceptados DEF Registros
<1>6. PedidoDe(l) = [fase |-> "pendiente", key |-> k, desde |-> MasNuevo(D, k)]
  BY <1>2 DEF PedidoDe
<1>e. ts \in IF R = {} THEN {0} ELSE {r.timestamp : r \in MasRecientes(R, k)}
  BY <1>4 DEF Elegidos
<1> HIDE DEF k, R, D
<1>7. ts \in MasNuevo(D, k)..MasNuevo(aceptados, k)
  <2>1. /\ MasNuevo(D, k) \in Nat
        /\ \/ MasNuevo(D, k) = 0
           \/ \E r \in D : r.key = k /\ r.timestamp = MasNuevo(D, k)
    BY <1>3, EsElMasNuevo
  <2>2. /\ MasNuevo(aceptados, k) \in Nat
        /\ \A r \in aceptados : r.key = k => r.timestamp <= MasNuevo(aceptados, k)
    BY <1>3, EsElMasNuevo
  <2>3. CASE R = {}
    <3>1. D = {}
      BY <1>3, <2>3 DEF SupersedidoEn
    <3> QED
      BY <1>e, <2>1, <2>2, <2>3, <3>1
  <2>4. CASE R # {}
    <3>1. PICK r \in MasRecientes(R, k) : ts = r.timestamp
      BY <1>e, <2>4
    <3>2. r \in R /\ r.key = k /\ \A q \in R : q.key = k => q.timestamp <= r.timestamp
      BY <3>1 DEF MasRecientes
    <3>3. ts \in Nat /\ ts <= MasNuevo(aceptados, k)
      BY <1>3, <2>2, <3>1, <3>2, ConstantesLFSTabla DEF Registro
    <3>4. CASE \E q \in D : q.key = k /\ q.timestamp = MasNuevo(D, k)
      <4>1. PICK q \in D : q.key = k /\ q.timestamp = MasNuevo(D, k)
        BY <3>4
      <4>2. PICK x \in R : x.key = q.key /\ x.timestamp >= q.timestamp
        BY <1>3, <4>1 DEF SupersedidoEn
      <4>3. x.timestamp \in Int /\ x.timestamp <= ts
        BY <1>3, <3>1, <3>2, <4>1, <4>2 DEF Registro
      <4> QED
        BY <2>1, <2>2, <3>3, <4>1, <4>2, <4>3
    <3> QED
      BY <2>1, <2>2, <3>3, <3>4
  <2> QED
    BY <2>3, <2>4
<1>8. PedidoDe(l)' = [fase |-> "fin", key |-> k, timestamp |-> ts]
  <2>1. lector'[l] = [fase |-> "fin", key |-> k, timestamp |-> ts]
    BY <1>1, <1>4 DEF TypeOK
  <2>2. lector'[l].fase \notin FasesLectura
    BY <2>1 DEF FasesLectura
  <2> QED
    BY <2>1, <2>2 DEF PedidoDe
<1>9. \A m \in Red : m # l => PedidoDe(m)' = PedidoDe(m)
  <2>1. \A m \in Red : m # l => lector'[m] = lector[m]
    BY <1>1, <1>4 DEF TypeOK, Lectores
  <2> QED
    BY <2>1 DEF PedidoDe, MasNuevo, MasRecientes
<1>10. /\ Pedidos[l].fase = "pendiente" /\ Pedidos[l].key = k
       /\ Pedidos[l].desde = MasNuevo(D, k)
  BY <1>6 DEF Pedidos
<1>11. Pedidos' = [Pedidos EXCEPT ![l] = [fase |-> "fin", key |-> Pedidos[l].key, timestamp |-> ts]]
  BY <1>8, <1>9, <1>10 DEF Pedidos
<1>12. ts \in Pedidos[l].desde..Registros[Pedidos[l].key]
  BY <1>5, <1>7, <1>10
<1> QED
  BY <1>10, <1>11, <1>12 DEF A!Responder, Pedidos, Registros

LEMMA InicioDeAlmacen == Init => A!Init
<1> SUFFICES ASSUME Init PROVE A!Init
  OBVIOUS
<1>1. \A r : r \notin Visibles
  BY DEF Visibles, RegistrosDe, Seguidos, Alcanzables, PorRenombrar, Init, SinArchivo, Vacio
<1>2. \A k \in Claves : MasNuevo(Visibles, k) = 0
  BY <1>1 DEF MasNuevo
<1>3. \A l \in Red : PedidoDe(l) = SinPedir
  BY DEF PedidoDe, Init, Lectores, SinPedir, FasesLectura
<1> QED
  BY <1>2, <1>3 DEF A!Init, A!SinPedir, SinPedir

LEMMA PasoDeAlmacen ==
  ASSUME ~PuedeCaer, InvLectura, InvLectura', [Next]_vars, riesgo' = {}
  PROVE  A!Next \/ UNCHANGED A!vars
<1>1. riesgo = {} /\ TypeOK
  BY RiesgoCrece DEF InvLectura, Inv
<1>2. ASSUME Registros' = Registros, Pedidos' = Pedidos
      PROVE  UNCHANGED A!vars
  BY <1>2 DEF A!vars, Registros, Pedidos
<1>3. ASSUME aceptados' = aceptados, \A l \in Red : lector'[l] = lector[l]
      PROVE  UNCHANGED A!vars
  <2>1. Registros' = Registros
    BY <1>1, <1>3, RegistrosQuietos
  <2>2. Pedidos' = Pedidos
    BY <1>3, PedidosQuietos
  <2> QED
    BY <1>2, <2>1, <2>2
<1>4. CASE Dump \/ Compacta
  <2>1. lector' = lector /\ aceptados' = aceptados
    BY <1>4 DEF historia, Dump, EmpiezaDump, SaltaNumero, CreaTemporal, EscribeTemporal, TerminaDump,
       Compacta, EncuentraTemporal, EmpiezaCompactacion, Renombra, TerminaRenombres,
       LeeTemporales, Une, TomaTabla, BorraParticion, CreaParticion, EscribeParticion,
       BorraTemporales, SueltaTabla, TerminaCompactacion
  <2> QED
    BY <1>3, <2>1
<1>5. CASE Caida \/ Reinicio
  BY <1>5 DEF Caida, Reinicio
<1>6. CASE UNCHANGED vars
  <2>1. lector' = lector /\ aceptados' = aceptados
    BY <1>6 DEF vars, historia
  <2> QED
    BY <1>3, <2>1
<1>7. ASSUME NEW k \in Claves, NEW ts \in 1..MaxTimestamp, INSERT(k, ts)
      PROVE  A!Next
  <2>1. Registros' = [Registros EXCEPT ![k] = IF ts > Registros[k] THEN ts ELSE Registros[k]]
    BY <1>1, <1>7, RegistrosInsert
  <2>2. lector' = lector
    BY <1>7 DEF INSERT
  <2>3. Pedidos' = Pedidos
    BY <2>2, PedidosQuietos
  <2>4. A!Insertar(k, ts)
    BY <2>1, <2>3 DEF A!Insertar, Registros, Pedidos
  <2> QED
    BY <2>4 DEF A!Next
<1>8. ASSUME NEW l \in Lectores, (\E k \in Claves : PideSELECT(l, k)) \/ Lee(l)
      PROVE  A!Next \/ UNCHANGED A!vars
  <2>1. /\ \A m \in Lectores : m # l => lector'[m] = lector[m]
        /\ aceptados' = aceptados
    BY <1>1, <1>8, SoloSuPaso
  <2>2. Registros' = Registros
    BY <1>1, <2>1, RegistrosQuietos
  <2>3. CASE l \notin Red
    BY <1>3, <2>1, <2>3 DEF Lectores
  <2>4. ASSUME l \in Red, NEW k \in Claves, PideSELECT(l, k)
        PROVE  A!Next
    <3>1. A!Pedir(l, k)
      BY <1>1, <2>2, <2>4, PideEsPedir
    <3> QED
      BY <2>4, <3>1 DEF A!Next
  <2>5. CASE l \in Red /\ RespondeSELECT(l)
    <3>1. A!Responder(l)
      BY <1>1, <2>2, <2>5, RespondeEsResponder
    <3> QED
      BY <2>5, <3>1 DEF A!Next
  <2>6. CASE Lee(l) /\ ~RespondeSELECT(l)
    <3>1. /\ lector[l].fase \in FasesLectura /\ lector'[l].fase \in FasesLectura
          /\ lector'[l].key = lector[l].key /\ lector'[l].desde = lector[l].desde
      BY <1>1, <2>6, BuscaSinResponder
    <3>2. Pedidos' = Pedidos
      BY <2>1, <3>1, PedidosQuietos DEF Lectores
    <3> QED
      BY <1>2, <2>2, <3>2
  <2> QED
    BY <1>8, <2>3, <2>4, <2>5, <2>6
<1> QED
  BY <1>4, <1>5, <1>6, <1>7, <1>8 DEF Next

\* The answer to a memory's SELECT is no older than any INSERT of its key that had
\* returned when the SELECT arrived, for any number of keys, records and requests.
THEOREM RespuestasFrescas == Spec => []SelectFresco
<1>1. InvLectura => SelectFresco
  <2> SUFFICES ASSUME InvLectura, riesgo = {}, NEW l \in Red, lector[l].fase = "responde",
                      NEW r \in lector[l].desde \cap aceptados
               PROVE  SupersedidoEn(r, lector[l].RegistrosEncontrados)
    BY DEF SelectFresco
  <2>1. SupersedidoEn(r, lector[l].RegistrosEncontrados \cup {})
    BY DEF InvLectura, Lectura, Encuentra, FasesLectura
  <2>2. lector[l].RegistrosEncontrados \cup {} = lector[l].RegistrosEncontrados
    OBVIOUS
  <2> QED
    BY <2>1, <2>2
<1> QED
  BY InvLecturaInit, InvLecturaPaso, <1>1, PTL DEF Spec

\* When the dump and the compaction have nothing left to do, every accepted record is
\* superseded in the partition of its key: what TodoCompactado says is reached at last.
THEOREM LoCompactadoEstaEnSuLugar == Spec => []EnReposoCompactado
<1>1. InvLectura => EnReposoCompactado
  <2> SUFFICES ASSUME InvLectura, riesgo = {}, Reposo, NEW r \in aceptados
               PROVE  SupersedidoEn(r, bin[particionDeKey(r.key)].registros)
    BY DEF EnReposoCompactado, Compactado
  <2>1. TypeOK /\ Datos
    BY DEF InvLectura, Inv
  <2>2. /\ memTable = {} /\ temporales = {} /\ \A p \in Particiones : cargar[p] = {}
        /\ \A i \in Numeros : tmpc[i].registros = {}
    BY <2>1 DEF Reposo, Datos, EnManos, Cargadas, Ocupando, Renombrados, SinContenido
  <2>3. \A i \in Numeros : tmp[i].registros = {}
    BY <2>1 DEF Reposo, Datos, SoloExistentes
  <2>4. PICK q \in memTable \cup Guardados : q.key = r.key /\ q.timestamp >= r.timestamp
    BY <2>1 DEF Datos, Conservados, SupersedidoEn
  <2>5. PICK p \in Particiones : q \in bin[p].registros
    BY <2>2, <2>3, <2>4 DEF Guardados, EnArchivos
  <2>6. particionDeKey(r.key) = p
    BY <2>4, <2>5 DEF InvLectura, EnSuParticion
  <2> QED
    BY <2>4, <2>5, <2>6 DEF SupersedidoEn
<1> QED
  BY InvLecturaInit, InvLecturaPaso, <1>1, PTL DEF Spec

\* A table whose process is not killed is an Almacen, for any constants: until one of the
\* overlaps of riesgo happens, each step of INSERT, the dump, the compaction and the
\* SELECTs is an operation of Almacen or none.
THEOREM LaTablaEsUnAlmacen ==
  ASSUME ~PuedeCaer
  PROVE  Spec => ImplementaAlmacen
<1>1. InvLectura /\ InvLectura' /\ [Next]_vars => [riesgo' = {} => A!Next]_A!vars
  BY PasoDeAlmacen
<1> QED
  BY InvLecturaInit, InvLecturaPaso, InicioDeAlmacen, <1>1, PTL DEF Spec, ImplementaAlmacen
=============================================================================
