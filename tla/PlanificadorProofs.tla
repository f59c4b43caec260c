-------------------------- MODULE PlanificadorProofs --------------------------
(***************************************************************************)
(* Proofs about Planificador, for any processes, scripts, number of        *)
(* dispatchers, QUANTUM and MULTIPROCESAMIENTO.                            *)
(*                                                                         *)
(* Sitios says which places a thread of each kind can be in.  Duenios says *)
(* that a process is typed, queued or held by one thread, once, and        *)
(* Renglones that whoever is to run a line still has one.  They hold       *)
(* whatever overlaps, because a lost update of the queue only cuts         *)
(* processes off.  The counts (Cuenta, Cupo) and the order of the lines    *)
(* (Orden) hold until the overlap that each names.                         *)
(*                                                                         *)
(* For the refinement of Ronda: EnlazadaEsAgregar and SegundoEsCabeza say  *)
(* that an update of the list nobody crosses is Append or Tail, Cupo bounds*)
(* those that run, Orden gives the number of the line that is executed, and*)
(* Unicos that of a single request.  SinPerdidos is the conservation of    *)
(* what was typed.                                                         *)
(***************************************************************************)
EXTENDS Planificador, FiniteSetTheorems, TLAPS

EnCola(p) == \E i \in 1..Len(cola_ready) : cola_ready[i] = p

\* Where a thread owns the process it holds.
Poseedores == {"encola", "enlaza", "asigna", "pide"}
Tiene(a) == pc[a] \in Poseedores

Sitios ==
  /\ pc["consola"] \in {"libre", "encola", "enlaza", "suma", "guarda"}
  /\ pc["planificador"] \in {"libre", "miraHilos", "resta", "guardaResta",
                             "crea", "sube", "guardaSube"}
  /\ \A h \in Hilos :
       pc[h] \in {"libre", "saca", "desenlaza", "asigna", "pide", "encola",
                  "enlaza", "suma", "guarda", "baja", "guardaBaja"}

Duenios ==
  /\ \A a \in Encoladores : Tiene(a) \/ pc[a] = "desenlaza" => proceso[a] # Nadie
  /\ \A a \in Encoladores :
       pc[a] \notin Poseedores \cup {"desenlaza", "suma", "guarda"} => proceso[a] = Nadie
  /\ \A a, b \in Encoladores :
       Tiene(a) /\ Tiene(b) /\ proceso[a] = proceso[b] => a = b
  /\ \A a \in Encoladores : Tiene(a) => ~EnCola(proceso[a])
  /\ \A i, j \in 1..Len(cola_ready) : cola_ready[i] = cola_ready[j] => i = j
  /\ \A p \in porIngresar :
       ~EnCola(p) /\ \A a \in Encoladores : Tiene(a) => proceso[a] # p

Renglones ==
  /\ \A p \in Procesos : restan[p] <= Lineas[p]
  /\ \A p \in porIngresar : restan[p] = Lineas[p]
  /\ \A p \in Procesos : EnCola(p) => restan[p] > 0
  /\ \A a \in Encoladores :
       pc[a] \in {"encola", "enlaza", "asigna"} => restan[proceso[a]] > 0
  /\ \A h \in Hilos : pc[h] = "pide" => restan[proceso[h]] < Lineas[proceso[h]]
  /\ \A h \in Hilos : pc[h] = "asigna" => vuelta[h] < QUANTUM
  /\ \A h \in Hilos : pc[h] \notin {"asigna", "pide"} => vuelta[h] = 0

Base == TypeOK /\ Sitios /\ Duenios /\ Renglones

\* The count of the queue: every element is in the counter, or its thread is
\* between the queue and the counter.
Cuenta ==
  riesgo \cap {"elementos", "cola"} = {} =>
    /\ viva
    /\ Len(cola_ready) = elementos_ready + PorContar + PorSacar
    /\ elementos_ready >= 0
    /\ pc["planificador"] \in {"miraHilos", "resta", "guardaResta"} => elementos_ready > 0

\* The slots: the scheduler counts a thread after creating it.
Subiendo == IF pc["planificador"] \in {"sube", "guardaSube"} THEN 1 ELSE 0
Cupo ==
  "hilos" \notin riesgo =>
    /\ Cardinality(Ocupados) = hilos_ejecutando + Subiendo
    /\ hilos_ejecutando <= MULTIPROCESAMIENTO
    /\ pc["planificador"] \in {"resta", "guardaResta", "crea", "sube", "guardaSube"}
         => hilos_ejecutando < MULTIPROCESAMIENTO

\* The lines of a script that have run are the ones taken, without the one
\* that is being asked for.
Pidiendo(p) == \E h \in Hilos : pc[h] = "pide" /\ proceso[h] = p
Orden ==
  riesgo \cap {"cola", "parametro"} = {} =>
    \A p \in Scripts :
      /\ \A i \in 1..Len(hechas[p]) : hechas[p][i] = i
      /\ p \in abortados => restan[p] = 0 /\ ~Pidiendo(p)
      /\ p \notin abortados =>
           Len(hechas[p]) = IF Pidiendo(p) THEN LineaDe(p) - 1 ELSE LineaDe(p)

USE ConstantesPlanificador

-----------------------------------------------------------------------------
(* The list.                                                               *)

LEMMA Agregada ==
  ASSUME NEW S, NEW q \in Seq(S), NEW p \in S
  PROVE  /\ q \o <<p>> \in Seq(S)
         /\ Len(q \o <<p>>) = Len(q) + 1
         /\ \A i \in 1..Len(q) : (q \o <<p>>)[i] = q[i]
         /\ (q \o <<p>>)[Len(q) + 1] = p
  OBVIOUS

\* Whatever was seen of the list, linking p leaves a first part of the list,
\* or nothing of it, with p behind, or the list as it was.
LEMMA EnlazadaForma ==
  ASSUME NEW q \in Seq(Procesos), NEW u \in Procesos \cup {Nadie}, NEW p \in Procesos
  PROVE  \/ Enlazada(q, u, p) = q
         \/ \E k \in 0..Len(q) :
              /\ Enlazada(q, u, p) \in Seq(Procesos)
              /\ Len(Enlazada(q, u, p)) = k + 1
              /\ \A i \in 1..k : Enlazada(q, u, p)[i] = q[i]
              /\ Enlazada(q, u, p)[k + 1] = p
<1>1. CASE u = Nadie
  <2>1. Enlazada(q, u, p) = <<p>>
    BY <1>1 DEF Enlazada
  <2> QED
    BY <2>1
<1>2. CASE u # Nadie /\ ~Esta(u, q)
  BY <1>2 DEF Enlazada
<1>3. CASE u # Nadie /\ Esta(u, q)
  <2> DEFINE k == CHOOSE i \in 1..Len(q) : q[i] = u
  <2>1. k \in 1..Len(q)
    BY <1>3 DEF Esta
  <2>2. Enlazada(q, u, p) = SubSeq(q, 1, k) \o <<p>>
    BY <1>3 DEF Enlazada
  <2> HIDE DEF k
  <2>3. /\ SubSeq(q, 1, k) \in Seq(Procesos)
        /\ Len(SubSeq(q, 1, k)) = k
        /\ \A i \in 1..k : SubSeq(q, 1, k)[i] = q[i]
    BY <2>1
  <2>4. k \in 0..Len(q)
    BY <2>1
  <2> QED
    BY <2>2, <2>3, <2>4, Agregada
<1> QED
  BY <1>1, <1>2, <1>3

\* So what is linked has no repetitions and nothing new but p.
LEMMA EnlazadaUnica ==
  ASSUME NEW q \in Seq(Procesos), NEW u \in Procesos \cup {Nadie}, NEW p \in Procesos,
         \A i, j \in 1..Len(q) : q[i] = q[j] => i = j,
         \A i \in 1..Len(q) : q[i] # p
  PROVE  /\ Enlazada(q, u, p) \in Seq(Procesos)
         /\ \A i, j \in 1..Len(Enlazada(q, u, p)) :
              Enlazada(q, u, p)[i] = Enlazada(q, u, p)[j] => i = j
         /\ \A i \in 1..Len(Enlazada(q, u, p)) :
              \/ Enlazada(q, u, p)[i] = p
              \/ \E j \in 1..Len(q) : q[j] = Enlazada(q, u, p)[i]
<1> DEFINE r == Enlazada(q, u, p)
<1>1. CASE r = q
  BY <1>1
<1>2. ASSUME NEW k \in 0..Len(q), r \in Seq(Procesos), Len(r) = k + 1,
             \A i \in 1..k : r[i] = q[i], r[k + 1] = p
      PROVE  /\ r \in Seq(Procesos)
             /\ \A i, j \in 1..Len(r) : r[i] = r[j] => i = j
             /\ \A i \in 1..Len(r) : r[i] = p \/ \E j \in 1..Len(q) : q[j] = r[i]
  <2> HIDE DEF r
  <2>1. \A i \in 1..Len(r) : i \in 1..k \/ i = k + 1
    BY <1>2
  <2>2. 1..k \subseteq 1..Len(q)
    OBVIOUS
  <2> QED
    BY <1>2, <2>1, <2>2
<1> QED
  BY <1>1, <1>2, EnlazadaForma

\* Linking behind the true last node makes the list one longer.
LEMMA EnlazadaAlFinal ==
  ASSUME NEW q \in Seq(Procesos), NEW p \in Procesos,
         \A i, j \in 1..Len(q) : q[i] = q[j] => i = j
  PROVE  Len(Enlazada(q, UltimoDe(q), p)) = Len(q) + 1
<1>1. CASE q = <<>>
  BY <1>1 DEF Enlazada, UltimoDe
<1>2. CASE q # <<>>
  <2> DEFINE k == CHOOSE i \in 1..Len(q) : q[i] = q[Len(q)]
  <2>1. Len(q) \in 1..Len(q)
    BY <1>2
  <2>2. k = Len(q)
    BY <2>1
  <2>3. UltimoDe(q) = q[Len(q)] /\ q[Len(q)] \in Procesos
    BY <2>1, <1>2 DEF UltimoDe
  <2>4. Esta(q[Len(q)], q)
    BY <2>1 DEF Esta
  <2>5. Enlazada(q, UltimoDe(q), p) = SubSeq(q, 1, k) \o <<p>>
    BY <2>3, <2>4 DEF Enlazada
  <2>6. SubSeq(q, 1, Len(q)) \in Seq(Procesos) /\ Len(SubSeq(q, 1, Len(q))) = Len(q)
    BY <2>1
  <2>7. Len(SubSeq(q, 1, Len(q)) \o <<p>>) = Len(q) + 1
    BY <2>6, Agregada
  <2> QED
    BY <2>2, <2>5, <2>7
<1> QED
  BY <1>1, <1>2

LEMMA ColaSinPrimero ==
  ASSUME NEW q \in Seq(Procesos), q # <<>>
  PROVE  /\ Tail(q) \in Seq(Procesos)
         /\ Len(Tail(q)) = Len(q) - 1
         /\ \A i \in 1..Len(Tail(q)) : i + 1 \in 1..Len(q) /\ Tail(q)[i] = q[i + 1]
         /\ Head(q) = q[1] /\ 1 \in 1..Len(q)
         /\ Head(q) \in Procesos
  OBVIOUS

-----------------------------------------------------------------------------
(* Base is inductive.                                                      *)

LEMMA BaseInicial == Init => Base
<1> SUFFICES ASSUME Init PROVE Base
  OBVIOUS
<1>1. TypeOK
  BY DEF Init, TypeOK, NoHay, Actores, Encoladores
<1>2. Sitios
  BY DEF Init, Sitios, Actores, Encoladores
<1>3. Duenios
  BY DEF Init, Duenios, Tiene, Poseedores, EnCola, Actores, Encoladores
<1>4. Renglones
  BY DEF Init, Renglones, EnCola, Actores, Encoladores
<1> QED
  BY <1>1, <1>2, <1>3, <1>4 DEF Base

\* Steps that only move a thread between places where it owns nothing.
LEMMA BaseVeElementos == Base /\ VeElementos => Base'
  BY SMTT(30) DEF Base, VeElementos, En, Va, contadores, historia, TypeOK, Sitios, Duenios, Renglones,
     Tiene, Poseedores, EnCola, Actores, Encoladores

LEMMA BaseLeeHilos == ASSUME NEW h \in Hilos PROVE Base /\ LeeHilos(h) => Base'
  BY SMTT(30) DEF Base, LeeHilos, En, Va, contadores, historia, TypeOK, Sitios, Duenios, Renglones,
     Tiene, Poseedores, EnCola, Actores, Encoladores

\* What linking does to the queue in a state of Base.
LEMMA ColaEnlazada ==
  ASSUME Base, NEW a \in Encoladores, Enlaza(a)
  PROVE  /\ proceso[a] \in Procesos /\ ~EnCola(proceso[a])
         /\ cola_ready' \in Seq(Procesos)
         /\ \A i, j \in 1..Len(cola_ready') : cola_ready'[i] = cola_ready'[j] => i = j
         /\ \A p : EnCola(p)' => p = proceso[a] \/ EnCola(p)
<1>1. proceso[a] \in Procesos /\ ~EnCola(proceso[a]) /\ visto[a] \in Procesos \cup {Nadie}
  BY DEF Base, TypeOK, Duenios, Tiene, Poseedores, Enlaza, En
<1>2. /\ cola_ready \in Seq(Procesos)
      /\ \A i, j \in 1..Len(cola_ready) : cola_ready[i] = cola_ready[j] => i = j
      /\ \A i \in 1..Len(cola_ready) : cola_ready[i] # proceso[a]
  BY <1>1 DEF Base, TypeOK, Duenios, EnCola
<1>3. cola_ready' = Enlazada(cola_ready, visto[a], proceso[a])
  BY DEF Enlaza
<1> DEFINE r == Enlazada(cola_ready, visto[a], proceso[a])
<1>5. /\ r \in Seq(Procesos)
      /\ \A i, j \in 1..Len(r) : r[i] = r[j] => i = j
      /\ \A i \in 1..Len(r) : r[i] = proceso[a] \/ \E j \in 1..Len(cola_ready) : cola_ready[j] = r[i]
  BY <1>1, <1>2, EnlazadaUnica
<1> HIDE DEF r
<1>4. /\ cola_ready' \in Seq(Procesos)
      /\ \A i, j \in 1..Len(cola_ready') : cola_ready'[i] = cola_ready'[j] => i = j
      /\ \A i \in 1..Len(cola_ready') :
           cola_ready'[i] = proceso[a] \/ \E j \in 1..Len(cola_ready) : cola_ready[j] = cola_ready'[i]
  BY <1>3, <1>5 DEF r
<1> QED
  BY <1>1, <1>4 DEF EnCola

LEMMA BaseEnlaza == ASSUME NEW a \in Encoladores PROVE Base /\ Enlaza(a) => Base'
<1> SUFFICES ASSUME Base, Enlaza(a) PROVE Base'
  OBVIOUS
<1>0. /\ pc[a] = "enlaza" /\ Tiene(a)
      /\ pc' = [pc EXCEPT ![a] = "suma"] /\ visto' = [visto EXCEPT ![a] = Nadie]
      /\ UNCHANGED <<porIngresar, elementos_ready, hilos_ejecutando, parametro, restan,
                     proceso, leido, vuelta, viva, aceptados, abortados, hechas>>
      /\ riesgo' \in {riesgo, riesgo \cup {"cola"}}
  BY DEF Enlaza, En, Va, Solapa, contadores, historia, Tiene, Poseedores
<1>1. TypeOK'
  BY <1>0, ColaEnlazada DEF Base, TypeOK, Riesgos, Actores
<1>2. Sitios'
  BY <1>0 DEF Base, Sitios, TypeOK, Actores, Encoladores
<1>3. Duenios'
  BY <1>0, ColaEnlazada DEF Base, TypeOK, Duenios, Tiene, Poseedores, Actores
<1>4. Renglones'
  BY <1>0, ColaEnlazada DEF Base, TypeOK, Sitios, Renglones, Actores, Encoladores
<1> QED
  BY <1>1, <1>2, <1>3, <1>4 DEF Base

LEMMA BaseRechaza == ASSUME NEW p \in Procesos PROVE Base /\ Rechaza(p) => Base'
  BY DEF Base, Rechaza, En, Va, Solapa, Riesgos, contadores, locales, historia, TypeOK, Sitios,
     Duenios, Renglones, Tiene, Poseedores, EnCola, Actores, Encoladores

LEMMA BaseIngresa == ASSUME NEW p \in Procesos PROVE Base /\ Ingresa(p) => Base'
<1> SUFFICES ASSUME Base, Ingresa(p) PROVE Base'
  OBVIOUS
<1> USE DEF Base, Ingresa, En, Va, Solapa, contadores, locales, historia
<1>1. TypeOK'
  BY SMTT(30) DEF TypeOK, Sitios, Duenios, Renglones, Tiene, Poseedores, Riesgos, Actores, Encoladores
<1>2. Sitios'
  BY SMTT(30) DEF Sitios, TypeOK, Actores, Encoladores
<1>3. Duenios'
  BY SMTT(30) DEF TypeOK, Sitios, Duenios, Tiene, Poseedores, EnCola, Actores, Encoladores
<1>4. Renglones'
  BY SMTT(30) DEF TypeOK, Sitios, Duenios, Renglones, Tiene, Poseedores, EnCola, Actores, Encoladores
<1> QED
  BY <1>1, <1>2, <1>3, <1>4

LEMMA BaseSumaElemento == ASSUME NEW a \in Encoladores PROVE Base /\ SumaElemento(a) => Base'
<1> SUFFICES ASSUME Base, SumaElemento(a) PROVE Base'
  OBVIOUS
<1> USE DEF Base, SumaElemento, En, Va, Solapa, contadores, locales, historia
<1>1. TypeOK'
  BY SMTT(30) DEF TypeOK, Sitios, Duenios, Renglones, Tiene, Poseedores, Riesgos, Actores, Encoladores
<1>2. Sitios'
  BY SMTT(30) DEF Sitios, TypeOK, Actores, Encoladores
<1>3. Duenios'
  BY SMTT(30) DEF TypeOK, Sitios, Duenios, Tiene, Poseedores, EnCola, Actores, Encoladores
<1>4. Renglones'
  BY SMTT(30) DEF TypeOK, Sitios, Duenios, Renglones, Tiene, Poseedores, EnCola, Actores, Encoladores
<1> QED
  BY <1>1, <1>2, <1>3, <1>4

LEMMA BaseVeHilos == Base /\ VeHilos => Base'
<1> SUFFICES ASSUME Base, VeHilos PROVE Base'
  OBVIOUS
<1> USE DEF Base, VeHilos, En, Va, Solapa, contadores, locales, historia
<1>1. TypeOK'
  BY SMTT(30) DEF TypeOK, Sitios, Duenios, Renglones, Tiene, Poseedores, Riesgos, Actores, Encoladores
<1>2. Sitios'
  BY SMTT(30) DEF Sitios, TypeOK, Actores, Encoladores
<1>3. Duenios'
  BY SMTT(30) DEF TypeOK, Sitios, Duenios, Tiene, Poseedores, EnCola, Actores, Encoladores
<1>4. Renglones'
  BY SMTT(30) DEF TypeOK, Sitios, Duenios, Renglones, Tiene, Poseedores, EnCola, Actores, Encoladores
<1> QED
  BY <1>1, <1>2, <1>3, <1>4

LEMMA BaseLeeParaRestar == Base /\ LeeParaRestar => Base'
<1> SUFFICES ASSUME Base, LeeParaRestar PROVE Base'
  OBVIOUS
<1> USE DEF Base, LeeParaRestar, En, Va, Solapa, contadores, locales, historia
<1>1. TypeOK'
  BY SMTT(30) DEF TypeOK, Sitios, Duenios, Renglones, Tiene, Poseedores, Riesgos, Actores, Encoladores
<1>2. Sitios'
  BY SMTT(30) DEF Sitios, TypeOK, Actores, Encoladores
<1>3. Duenios'
  BY SMTT(30) DEF TypeOK, Sitios, Duenios, Tiene, Poseedores, EnCola, Actores, Encoladores
<1>4. Renglones'
  BY SMTT(30) DEF TypeOK, Sitios, Duenios, Renglones, Tiene, Poseedores, EnCola, Actores, Encoladores
<1> QED
  BY <1>1, <1>2, <1>3, <1>4

LEMMA BaseLeeParaSubir == Base /\ LeeParaSubir => Base'
<1> SUFFICES ASSUME Base, LeeParaSubir PROVE Base'
  OBVIOUS
<1> USE DEF Base, LeeParaSubir, En, Va, Solapa, contadores, locales, historia
<1>1. TypeOK'
  BY SMTT(30) DEF TypeOK, Sitios, Duenios, Renglones, Tiene, Poseedores, Riesgos, Actores, Encoladores
<1>2. Sitios'
  BY SMTT(30) DEF Sitios, TypeOK, Actores, Encoladores
<1>3. Duenios'
  BY SMTT(30) DEF TypeOK, Sitios, Duenios, Tiene, Poseedores, EnCola, Actores, Encoladores
<1>4. Renglones'
  BY SMTT(30) DEF TypeOK, Sitios, Duenios, Renglones, Tiene, Poseedores, EnCola, Actores, Encoladores
<1> QED
  BY <1>1, <1>2, <1>3, <1>4

LEMMA BaseSubeHilo == Base /\ SubeHilo => Base'
<1> SUFFICES ASSUME Base, SubeHilo PROVE Base'
  OBVIOUS
<1> USE DEF Base, SubeHilo, En, Va, Solapa, contadores, locales, historia
<1>1. TypeOK'
  BY SMTT(30) DEF TypeOK, Sitios, Duenios, Renglones, Tiene, Poseedores, Riesgos, Actores, Encoladores
<1>2. Sitios'
  BY SMTT(30) DEF Sitios, TypeOK, Actores, Encoladores
<1>3. Duenios'
  BY SMTT(30) DEF TypeOK, Sitios, Duenios, Tiene, Poseedores, EnCola, Actores, Encoladores
<1>4. Renglones'
  BY SMTT(30) DEF TypeOK, Sitios, Duenios, Renglones, Tiene, Poseedores, EnCola, Actores, Encoladores
<1> QED
  BY <1>1, <1>2, <1>3, <1>4

LEMMA BaseBajaHilo == ASSUME NEW h \in Hilos PROVE Base /\ BajaHilo(h) => Base'
<1> SUFFICES ASSUME Base, BajaHilo(h) PROVE Base'
  OBVIOUS
<1> USE DEF Base, BajaHilo, En, Va, Solapa, contadores, locales, historia
<1>1. TypeOK'
  BY SMTT(30) DEF TypeOK, Sitios, Duenios, Renglones, Tiene, Poseedores, Riesgos, Actores, Encoladores
<1>2. Sitios'
  BY SMTT(30) DEF Sitios, TypeOK, Actores, Encoladores
<1>3. Duenios'
  BY SMTT(30) DEF TypeOK, Sitios, Duenios, Tiene, Poseedores, EnCola, Actores, Encoladores
<1>4. Renglones'
  BY SMTT(30) DEF TypeOK, Sitios, Duenios, Renglones, Tiene, Poseedores, EnCola, Actores, Encoladores
<1> QED
  BY <1>1, <1>2, <1>3, <1>4

\* What a thread sees of the list is a process or nobody.
LEMMA Vistos ==
  ASSUME NEW q \in Seq(Procesos)
  PROVE  /\ UltimoDe(q) \in Procesos \cup {Nadie}
         /\ SegundoDe(q) \in Procesos \cup {Nadie}
  BY DEF UltimoDe, SegundoDe

LEMMA BaseVeUltimo == ASSUME NEW a \in Encoladores PROVE Base /\ VeUltimo(a) => Base'
<1> SUFFICES ASSUME Base, VeUltimo(a) PROVE Base'
  OBVIOUS
<1> USE DEF Base, VeUltimo, En, Va, Solapa, contadores, locales, historia
<1>1. TypeOK'
  BY Vistos DEF TypeOK, Sitios, Duenios, Renglones, Tiene, Poseedores, Riesgos, Actores, Encoladores
<1>2. Sitios'
  BY DEF Sitios, TypeOK, Actores, Encoladores
<1>3. Duenios'
  BY Vistos, SMTT(30) DEF TypeOK, Sitios, Duenios, Tiene, Poseedores, EnCola, Actores, Encoladores
<1>4. Renglones'
  BY Vistos DEF TypeOK, Sitios, Duenios, Renglones, Tiene, Poseedores, EnCola, Actores, Encoladores
<1> QED
  BY <1>1, <1>2, <1>3, <1>4

LEMMA BaseLeeElementos == ASSUME NEW a \in Encoladores PROVE Base /\ LeeElementos(a) => Base'
<1> SUFFICES ASSUME Base, LeeElementos(a) PROVE Base'
  OBVIOUS
<1> USE DEF Base, LeeElementos, En, Va, Solapa, contadores, locales, historia
<1>1. TypeOK'
  BY SMTT(30) DEF TypeOK, Sitios, Duenios, Renglones, Tiene, Poseedores, Riesgos, Actores, Encoladores
<1>2. Sitios'
  BY DEF Sitios, TypeOK, Actores, Encoladores
<1>3. Duenios'
  BY SMTT(30) DEF TypeOK, Sitios, Duenios, Tiene, Poseedores, EnCola, Actores, Encoladores
<1>4. Renglones'
  BY SMTT(30) DEF TypeOK, Sitios, Duenios, Renglones, Tiene, Poseedores, EnCola, Actores, Encoladores
<1> QED
  BY <1>1, <1>2, <1>3, <1>4

LEMMA BaseRestaElemento == Base /\ RestaElemento => Base'
<1> SUFFICES ASSUME Base, RestaElemento PROVE Base'
  OBVIOUS
<1> USE DEF Base, RestaElemento, En, Va, Solapa, contadores, locales, historia
<1>1. TypeOK'
  BY SMTT(30) DEF TypeOK, Sitios, Duenios, Renglones, Tiene, Poseedores, Riesgos, Actores, Encoladores
<1>2. Sitios'
  BY DEF Sitios, TypeOK, Actores, Encoladores
<1>3. Duenios'
  BY SMTT(30) DEF TypeOK, Sitios, Duenios, Tiene, Poseedores, EnCola, Actores, Encoladores
<1>4. Renglones'
  BY SMTT(30) DEF TypeOK, Sitios, Duenios, Renglones, Tiene, Poseedores, EnCola, Actores, Encoladores
<1> QED
  BY <1>1, <1>2, <1>3, <1>4

LEMMA BaseCrear_hilo == ASSUME NEW h \in Hilos PROVE Base /\ crear_hilo(h) => Base'
<1> SUFFICES ASSUME Base, crear_hilo(h) PROVE Base'
  OBVIOUS
<1> USE DEF Base
<1>0. /\ pc[h] = "libre" /\ h \in Encoladores /\ h # "planificador" /\ h # "consola"
      /\ pc' = [pc EXCEPT !["planificador"] = "sube", ![h] = "saca"]
      /\ UNCHANGED <<porIngresar, cola_ready, elementos_ready, hilos_ejecutando, parametro,
                     restan, proceso, visto, leido, vuelta, viva, aceptados, abortados,
                     hechas, riesgo>>
  BY DEF crear_hilo, En, contadores, historia, Encoladores
<1>1. TypeOK'
  BY <1>0 DEF TypeOK, Actores
<1>2. /\ pc'[h] = "saca"
      /\ \A a \in Encoladores \ {h} : pc'[a] = pc[a]
      /\ pc'["planificador"] = "sube"
  BY <1>0 DEF TypeOK, Actores, Encoladores
<1>3. Sitios'
  BY <1>0, <1>2 DEF Sitios, Encoladores
<1>4. \A a \in Encoladores : Tiene(a)' <=> Tiene(a)
  BY <1>0, <1>2 DEF Tiene, Poseedores
<1>7. \A p : EnCola(p)' <=> EnCola(p)
  BY <1>0 DEF EnCola
<1>5. Duenios'
  BY <1>0, <1>2, <1>4, <1>7 DEF Duenios, Poseedores
<1>6. Renglones'
  BY <1>0, <1>2, <1>4, <1>7 DEF Renglones, Encoladores
<1> QED
  BY <1>1, <1>3, <1>5, <1>6

LEMMA BaseVePrimero == ASSUME NEW h \in Hilos PROVE Base /\ VePrimero(h) => Base'
<1> SUFFICES ASSUME Base, VePrimero(h) PROVE Base'
  OBVIOUS
<1> USE DEF Base
<1>0. /\ pc[h] = "saca" /\ h \in Encoladores /\ Encoladores \subseteq Actores
      /\ UNCHANGED <<porIngresar, cola_ready, elementos_ready, hilos_ejecutando, parametro,
                     restan, leido, vuelta, aceptados, abortados, hechas, riesgo>>
  BY DEF VePrimero, En, contadores, historia, Encoladores, Actores
<1>1. CASE UNCHANGED <<proceso, visto, pc>> /\ viva' = FALSE
  BY <1>0, <1>1, ZenonT(60) DEF TypeOK, Sitios, Duenios, Renglones, Tiene, EnCola
<1>2. ASSUME NEW p \in Procesos, NEW v \in Procesos \cup {Nadie},
             proceso' = [proceso EXCEPT ![h] = p], visto' = [visto EXCEPT ![h] = v],
             pc' = [pc EXCEPT ![h] = "desenlaza"], UNCHANGED viva
      PROVE  Base'
  <2>1. TypeOK'
    BY <1>0, <1>2 DEF TypeOK
  <2>2. Sitios'
    BY <1>0, <1>2 DEF TypeOK, Sitios, Actores, Encoladores
  <2>3. /\ \A a \in Encoladores : Tiene(a)' => Tiene(a) /\ a # h
        /\ \A a \in Encoladores \ {h} : pc'[a] = pc[a] /\ proceso'[a] = proceso[a]
        /\ proceso'[h] = p /\ pc'[h] = "desenlaza"
    BY <1>0, <1>2 DEF TypeOK, Tiene, Poseedores
  <2>4. Duenios'
    BY <1>0, <2>3 DEF Duenios, Tiene, EnCola, Poseedores
  <2>5. Renglones'
    BY <1>0, <1>2, <2>3 DEF TypeOK, Renglones, EnCola, Encoladores
  <2> QED
    BY <2>1, <2>2, <2>4, <2>5
<1>3. cola_ready # <<>> => Head(cola_ready) \in Procesos /\ SegundoDe(cola_ready) \in Procesos \cup {Nadie}
  BY ColaSinPrimero, Vistos DEF TypeOK
<1> QED
  BY <1>1, <1>2, <1>3 DEF VePrimero, Va

\* What is left of the queue when its head is unlinked.
LEMMA ColaDesenlazada ==
  ASSUME Base, NEW h \in Hilos, EsPrimero(proceso[h]),
         cola_ready' = IF visto[h] = Nadie THEN <<>> ELSE Tail(cola_ready)
  PROVE  /\ proceso[h] \in Procesos /\ EnCola(proceso[h])
         /\ cola_ready' \in Seq(Procesos)
         /\ \A i, j \in 1..Len(cola_ready') : cola_ready'[i] = cola_ready'[j] => i = j
         /\ \A p : EnCola(p)' => p # proceso[h] /\ EnCola(p)
<1>1. /\ cola_ready \in Seq(Procesos) /\ cola_ready # <<>>
      /\ \A i, j \in 1..Len(cola_ready) : cola_ready[i] = cola_ready[j] => i = j
      /\ proceso[h] = Head(cola_ready)
  BY DEF Base, TypeOK, Duenios, EsPrimero
<1>2. /\ proceso[h] \in Procesos /\ proceso[h] = cola_ready[1] /\ 1 \in 1..Len(cola_ready)
      /\ Tail(cola_ready) \in Seq(Procesos)
      /\ \A i \in 1..Len(Tail(cola_ready)) :
           i + 1 \in 1..Len(cola_ready) /\ Tail(cola_ready)[i] = cola_ready[i + 1]
  BY <1>1, ColaSinPrimero
<1>5. EnCola(proceso[h])
  BY <1>2 DEF EnCola
<1>3. CASE visto[h] = Nadie
  <2>1. cola_ready' = <<>>
    BY <1>3
  <2>5. <<>> \in Seq(Procesos) /\ Len(<<>>) = 0
    OBVIOUS
  <2>4. cola_ready' \in Seq(Procesos) /\ Len(cola_ready') = 0
    BY <2>1, <2>5, Zenon
  <2>2. 1..Len(cola_ready') = {}
    BY <2>4
  <2>3. \A p : ~EnCola(p)'
    BY <2>2 DEF EnCola
  <2> QED
    BY <1>2, <1>5, <2>2, <2>3, <2>4
<1>4. CASE visto[h] # Nadie
  <2> DEFINE t == Tail(cola_ready)
  <2>1. cola_ready' = t
    BY <1>4
  <2>2. /\ \A i, j \in 1..Len(t) : t[i] = t[j] => i = j
        /\ \A i \in 1..Len(t) : t[i] # proceso[h]
    BY <1>1, <1>2, SMTT(30)
  <2>3. t \in Seq(Procesos) /\ \A i \in 1..Len(t) : \E j \in 1..Len(cola_ready) : cola_ready[j] = t[i]
    BY <1>2
  <2> HIDE DEF t
  <2>4. \A p : EnCola(p)' => p # proceso[h] /\ EnCola(p)
    BY <2>1, <2>2, <2>3 DEF EnCola
  <2> QED
    BY <1>2, <1>5, <2>1, <2>2, <2>3, <2>4, ZenonT(60)
<1> QED
  BY <1>3, <1>4

LEMMA BaseDesenlaza == ASSUME NEW h \in Hilos PROVE Base /\ Desenlaza(h) => Base'
<1> SUFFICES ASSUME Base, Desenlaza(h) PROVE Base'
  OBVIOUS
<1> USE DEF Base
<1>0. /\ pc[h] = "desenlaza" /\ h \in Encoladores /\ Encoladores \subseteq Actores
      /\ UNCHANGED <<porIngresar, elementos_ready, hilos_ejecutando, parametro,
                     restan, proceso, leido, vuelta, aceptados, abortados, hechas>>
      /\ riesgo' \in {riesgo, riesgo \cup {"cola"}}
  BY DEF Desenlaza, En, contadores, historia, Solapa, Encoladores, Actores
<1>1. CASE UNCHANGED <<cola_ready, visto, pc>> /\ viva' = FALSE
  BY <1>0, <1>1, ZenonT(60) DEF TypeOK, Sitios, Duenios, Renglones, Tiene, EnCola, Riesgos
<1>2. CASE /\ EsPrimero(proceso[h])
           /\ cola_ready' = IF visto[h] = Nadie THEN <<>> ELSE Tail(cola_ready)
           /\ visto' = [visto EXCEPT ![h] = Nadie]
           /\ pc' = [pc EXCEPT ![h] = "asigna"]
           /\ UNCHANGED viva
  <2>0. /\ proceso[h] \in Procesos /\ EnCola(proceso[h])
        /\ cola_ready' \in Seq(Procesos)
        /\ \A i, j \in 1..Len(cola_ready') : cola_ready'[i] = cola_ready'[j] => i = j
        /\ \A p : EnCola(p)' => p # proceso[h] /\ EnCola(p)
    BY <1>2, ColaDesenlazada
  <2>1. TypeOK'
    BY <1>0, <1>2, <2>0 DEF TypeOK, Riesgos
  <2>2. Sitios'
    BY <1>0, <1>2 DEF TypeOK, Sitios, Actores, Encoladores
  <2>3. /\ \A a \in Encoladores : Tiene(a)' => Tiene(a) \/ a = h
        /\ \A a \in Encoladores \ {h} : pc'[a] = pc[a]
        /\ pc'[h] = "asigna"
    BY <1>0, <1>2 DEF TypeOK, Tiene, Poseedores
  <2>4. Duenios'
    BY <1>0, <2>0, <2>3 DEF Duenios, Tiene, Poseedores
  <2>5. Renglones'
    BY <1>0, <1>2, <2>0, <2>3, SMTT(30) DEF TypeOK, Renglones, Encoladores
  <2> QED
    BY <2>1, <2>2, <2>4, <2>5
<1> QED
  BY <1>1, <1>2 DEF Desenlaza, Va

LEMMA BaseAsigna == ASSUME NEW h \in Hilos PROVE Base /\ Asigna(h) => Base'
<1> SUFFICES ASSUME Base, Asigna(h) PROVE Base'
  OBVIOUS
<1> USE DEF Base
<1>0. /\ pc[h] = "asigna" /\ h \in Encoladores /\ Encoladores \subseteq Actores
      /\ proceso[h] \in Procesos /\ restan[proceso[h]] \in 1..Lineas[proceso[h]]
      /\ restan' = [restan EXCEPT ![proceso[h]] = restan[proceso[h]] - 1]
      /\ parametro' = <<proceso[h], Lineas[proceso[h]] - restan[proceso[h]] + 1>>
      /\ vuelta' = [vuelta EXCEPT ![h] = vuelta[h] + 1] /\ vuelta[h] < QUANTUM
      /\ pc' = [pc EXCEPT ![h] = "pide"]
      /\ UNCHANGED <<porIngresar, cola_ready, elementos_ready, hilos_ejecutando, proceso, visto,
                     leido, viva, aceptados, abortados, hechas, riesgo>>
  BY DEF Asigna, En, Va, LineaDe, contadores, historia, Encoladores, Actores, TypeOK,
     Renglones, Duenios, Tiene, Poseedores
<1>1. parametro' \in Pedidos
  BY <1>0 DEF Pedidos
<1>2. TypeOK'
  BY <1>0, <1>1, SMTT(30) DEF TypeOK
<1>3. Sitios'
  BY <1>0 DEF TypeOK, Sitios, Actores, Encoladores
<1>4. /\ pc'[h] = "pide" /\ Tiene(h) /\ Tiene(h)'
      /\ \A a \in Encoladores : (Tiene(a)' <=> Tiene(a)) /\ (a # h => pc'[a] = pc[a])
      /\ \A p : EnCola(p)' <=> EnCola(p)
  BY <1>0 DEF TypeOK, Tiene, Poseedores, EnCola
<1>5. Duenios'
  BY <1>0, <1>4 DEF Duenios, Poseedores
<1>6. /\ Tiene(h) /\ ~EnCola(proceso[h]) /\ proceso[h] \notin porIngresar
      /\ \A a \in Encoladores \ {h} : Tiene(a) => proceso[a] # proceso[h]
  BY <1>0 DEF Duenios, Tiene, Poseedores
<1>8. /\ \A p \in Procesos \ {proceso[h]} : restan'[p] = restan[p]
      /\ restan'[proceso[h]] = restan[proceso[h]] - 1
      /\ \A g \in Hilos \ {h} : vuelta'[g] = vuelta[g]
      /\ \A a \in Encoladores : Tiene(a) => proceso[a] \in Procesos
      /\ porIngresar \subseteq Procesos /\ Lineas[proceso[h]] \in Nat
  BY <1>0 DEF TypeOK, Duenios
<1>7. Renglones'
  BY <1>0, <1>4, <1>6, <1>8 DEF Renglones, Tiene, Poseedores, Encoladores
<1> QED
  BY <1>2, <1>3, <1>5, <1>7

\* The pedido read is one that was put in parametro, or garbage.
LEMMA BaseRequest ==
  ASSUME NEW h \in Hilos, NEW pedido \in PedidosLeidos, NEW exito \in BOOLEAN
  PROVE  Base /\ request(h, pedido, exito) => Base'
<1> SUFFICES ASSUME Base, request(h, pedido, exito) PROVE Base'
  OBVIOUS
<1> USE DEF Base
<1>0. /\ pc[h] = "pide" /\ h \in Encoladores /\ Encoladores \subseteq Actores
      /\ proceso[h] \in Procesos /\ restan[proceso[h]] \in Nat
      /\ UNCHANGED <<porIngresar, cola_ready, elementos_ready, hilos_ejecutando, parametro,
                     visto, leido, viva, aceptados>>
      /\ riesgo' \in {riesgo, riesgo \cup {"parametro"}}
      /\ hechas' = IF exito /\ pedido # NoHay
                     THEN [hechas EXCEPT ![pedido[1]] = Append(@, pedido[2])] ELSE hechas
  BY DEF request, En, contadores, Solapa, Encoladores, Actores, TypeOK, Duenios, Tiene, Poseedores
<1>1. hechas' \in [Procesos -> Seq(Nat)]
  <2>1. CASE exito /\ pedido # NoHay
    <3>1. pedido \in Pedidos
      BY <2>1 DEF PedidosLeidos, TypeOK
    <3>2. pedido[1] \in Procesos /\ pedido[2] \in Nat
      BY <3>1 DEF Pedidos
    <3>3. hechas[pedido[1]] \in Seq(Nat)
      BY <3>2 DEF TypeOK
    <3>4. Append(hechas[pedido[1]], pedido[2]) \in Seq(Nat)
      BY <3>2, <3>3
    <3> QED
      BY <1>0, <2>1, <3>2, <3>4 DEF TypeOK
  <2> QED
    BY <1>0, <2>1 DEF TypeOK
<1>2. ASSUME NEW s \in {"baja", "asigna", "encola"},
             pc' = [pc EXCEPT ![h] = s],
             proceso' = IF s = "baja" THEN [proceso EXCEPT ![h] = Nadie] ELSE proceso,
             vuelta' = [vuelta EXCEPT ![h] = IF s = "asigna" THEN @ ELSE 0],
             s = "asigna" => vuelta[h] < QUANTUM,
             s # "baja" => restan[proceso[h]] > 0,
             \/ UNCHANGED <<restan, abortados>>
             \/ /\ s = "baja"
                /\ restan' = [restan EXCEPT ![proceso[h]] = 0]
                /\ abortados' \subseteq Scripts
      PROVE  Base'
  <2>8. restan' \in [Procesos -> Nat] /\ abortados' \subseteq Scripts
    BY <1>0, <1>2, SMTT(30) DEF TypeOK
  <2>9. proceso' \in [Encoladores -> Procesos \cup {Nadie}]
    BY <1>0, <1>2 DEF TypeOK
  <2>10. vuelta' \in [Hilos -> 0..QUANTUM]
    BY <1>2 DEF TypeOK
  <2>1. TypeOK'
    BY <1>0, <1>1, <1>2, <2>8, <2>9, <2>10 DEF TypeOK, Riesgos
  <2>2. Sitios'
    BY <1>0, <1>2 DEF TypeOK, Sitios, Actores, Encoladores
  <2>3. /\ \A a \in Encoladores : Tiene(a)' => Tiene(a) /\ proceso'[a] = proceso[a]
        /\ \A a \in Encoladores \ {h} : pc'[a] = pc[a] /\ proceso'[a] = proceso[a]
        /\ pc'[h] = s /\ (s = "baja" => proceso'[h] = Nadie)
        /\ Tiene(h)
        /\ \A p : EnCola(p)' <=> EnCola(p)
    BY <1>0, <1>2 DEF TypeOK, Tiene, Poseedores, EnCola
  <2>4. Duenios'
    BY <1>0, <1>2, <2>3 DEF Duenios, Tiene, Poseedores
  <2>5. /\ ~EnCola(proceso[h]) /\ proceso[h] \notin porIngresar
        /\ \A a \in Encoladores \ {h} : Tiene(a) => proceso[a] # proceso[h] /\ proceso[a] \in Procesos
        /\ \A p \in Procesos \ {proceso[h]} : restan'[p] = restan[p]
        /\ restan'[proceso[h]] \in {0, restan[proceso[h]]}
        /\ s # "baja" => restan'[proceso[h]] = restan[proceso[h]]
        /\ \A g \in Hilos \ {h} : vuelta'[g] = vuelta[g]
        /\ vuelta'[h] = IF s = "asigna" THEN vuelta[h] ELSE 0
        /\ Lineas[proceso[h]] \in Nat /\ porIngresar \subseteq Procesos
    BY <1>0, <1>2, <2>3 DEF TypeOK, Duenios
  <2>6. Renglones'
    BY <1>0, <1>2, <2>3, <2>5, SMTT(30) DEF Renglones, Tiene, Poseedores, Encoladores
  <2> QED
    BY <2>1, <2>2, <2>4, <2>6
<1>3. /\ Sigue(h) \in {"baja", "asigna", "encola"}
      /\ Sigue(h) = "asigna" => vuelta[h] < QUANTUM
      /\ Sigue(h) # "baja" => restan[proceso[h]] > 0
  BY <1>0 DEF Sigue
<1>4. CASE exito \/ proceso[h] \notin Scripts
  <2> DEFINE s == Sigue(h)
  <2>1. /\ pc' = [pc EXCEPT ![h] = s]
        /\ proceso' = IF s = "baja" THEN [proceso EXCEPT ![h] = Nadie] ELSE proceso
        /\ vuelta' = [vuelta EXCEPT ![h] = IF s = "asigna" THEN @ ELSE 0]
        /\ UNCHANGED <<restan, abortados>>
    BY <1>4 DEF request, Va
  <2> QED
    BY <1>2, <1>3, <2>1
<1>5. CASE ~(exito \/ proceso[h] \notin Scripts)
  BY <1>2, <1>5 DEF request, Va, TypeOK
<1> QED
  BY <1>4, <1>5

LEMMA BasePaso == Base /\ [Next]_vars => Base'
<1>1. CASE UNCHANGED vars
  BY <1>1 DEF vars, contadores, locales, historia, Base, TypeOK, Sitios, Duenios, Renglones,
     Tiene, EnCola
<1>2. ASSUME NEW a \in Encoladores, Encola(a) PROVE Base => Base'
  BY <1>2, BaseVeUltimo, BaseEnlaza, BaseLeeElementos, BaseSumaElemento DEF Encola
<1>3. CASE Consola
  BY <1>2, <1>3, BaseRechaza, BaseIngresa DEF Consola, Encoladores
<1>4. CASE planificador
  BY <1>4, BaseVeElementos, BaseVeHilos, BaseLeeParaRestar, BaseRestaElemento, BaseCrear_hilo,
     BaseLeeParaSubir, BaseSubeHilo DEF planificador
<1>5. ASSUME NEW h \in Hilos, dispatcher(h) PROVE Base => Base'
  BY <1>2, <1>5, BaseVePrimero, BaseDesenlaza, BaseAsigna, BaseRequest, BaseLeeHilos,
     BaseBajaHilo DEF dispatcher, Encoladores
<1> QED
  BY <1>1, <1>3, <1>4, <1>5 DEF Next

LEMMA BaseSiempre == Spec => []Base
<1> QED
  BY BaseInicial, BasePaso, PTL DEF Spec

\* Every variable keeps its type: no line is taken from an empty script, no
\* dispatcher runs more lines than its quantum, whatever overlaps.
THEOREM TipoCorrecto == Spec => []TypeOK
<1>1. Base => TypeOK
  BY DEF Base
<1> QED
  BY <1>1, BaseSiempre, PTL

-----------------------------------------------------------------------------
(* One place for each process.                                             *)

LEMMA AloSumoUno ==
  ASSUME NEW S, \A x, y \in S : x = y
  PROVE  IsFiniteSet(S) /\ Cardinality(S) \in {0, 1} /\ (S = {} <=> Cardinality(S) = 0)
<1>1. CASE S = {}
  BY <1>1, FS_EmptySet
<1>2. CASE S # {}
  <2>1. PICK x : x \in S
    BY <1>2
  <2>2. S = {x}
    BY <2>1
  <2> QED
    BY <2>2, FS_Singleton
<1> QED
  BY <1>1, <1>2

\* A process is in the queue or in the hands of one thread, never twice.
THEOREM UnLugarPorProceso == Spec => []UnSoloLugar
<1>1. Base => UnSoloLugar
  <2> SUFFICES ASSUME Base, NEW p \in Procesos PROVE Lugares(p) <= 1
    BY DEF UnSoloLugar
  <2> DEFINE C == {i \in 1..Len(cola_ready) : cola_ready[i] = p}
             T == {a \in Encoladores : proceso[a] = p
                     /\ pc[a] \notin {"desenlaza", "suma", "guarda"}}
  <2>1. \A i, j \in C : i = j
    BY DEF Base, Duenios
  <2>2. \A a \in T : Tiene(a)
    BY DEF Base, Duenios, Tiene
  <2>3. \A a, b \in T : a = b
    BY <2>2 DEF Base, Duenios
  <2>4. C = {} \/ T = {}
    BY <2>2 DEF Base, Duenios, EnCola
  <2> HIDE DEF C, T
  <2>5. Cardinality(C) + Cardinality(T) <= 1
    BY <2>1, <2>3, <2>4, AloSumoUno
  <2> QED
    BY <2>5 DEF Lugares, C, T
<1> QED
  BY <1>1, BaseSiempre, PTL

-----------------------------------------------------------------------------
(* The slots.                                                              *)

LEMMA OcupadosFinito ==
  ASSUME NEW S \in SUBSET Hilos
  PROVE  /\ IsFiniteSet(S) /\ Cardinality(S) \in Nat
         /\ \A h \in Hilos \ S : Cardinality(S \cup {h}) = Cardinality(S) + 1
         /\ \A h \in S : Cardinality(S \ {h}) = Cardinality(S) - 1
<1>1. IsFiniteSet(S)
  BY FS_Subset
<1> QED
  BY <1>1, FS_CardinalityType, FS_AddElement, FS_RemoveElement

LEMMA CupoInicial == Init => Cupo
<1> SUFFICES ASSUME Init PROVE Cupo
  OBVIOUS
<1>1. Ocupados = {}
  BY DEF Init, Ocupados, Actores, Encoladores
<1>2. Subiendo = 0
  BY DEF Init, Subiendo, Actores
<1> QED
  BY <1>1, <1>2, FS_EmptySet DEF Init, Cupo, Actores

\* A step that leaves alone the slots and the part of the scheduler that
\* handles them.
LEMMA CupoAjeno ==
  ASSUME Cupo, riesgo \subseteq riesgo', UNCHANGED hilos_ejecutando, Ocupados' = Ocupados,
         pc'["planificador"] = pc["planificador"]
  PROVE  Cupo'
  BY DEF Cupo, Subiendo

LEMMA CupoPaso == Base /\ Cupo /\ [Next]_vars => Cupo'
<1> SUFFICES ASSUME Base, Cupo, [Next]_vars PROVE Cupo'
  OBVIOUS
<1> USE DEF Base
<1>1. CASE UNCHANGED vars
  BY <1>1, CupoAjeno DEF vars, locales, contadores, Ocupados
<1>2. ASSUME NEW a \in Encoladores, Encola(a) PROVE Cupo'
  <2>1. /\ riesgo \subseteq riesgo' /\ UNCHANGED hilos_ejecutando
        /\ pc'["planificador"] = pc["planificador"]
    BY <1>2 DEF Encola, VeUltimo, Enlaza, LeeElementos, SumaElemento, Solapa, Va, contadores,
       historia, TypeOK, Actores, Encoladores
  <2>2. \A h \in Hilos : pc[h] # "libre" <=> pc'[h] # "libre"
    BY <1>2 DEF Encola, VeUltimo, Enlaza, LeeElementos, SumaElemento, En, Va, TypeOK, Actores,
       Encoladores
  <2> QED
    BY <2>1, <2>2, CupoAjeno DEF Ocupados
<1>3. CASE Consola
  <2>1. ASSUME NEW p \in Procesos, Rechaza(p) \/ Ingresa(p) PROVE Cupo'
    <3>1. /\ riesgo \subseteq riesgo' /\ UNCHANGED hilos_ejecutando
          /\ \A a \in Hilos \cup {"planificador"} : pc'[a] = pc[a]
      BY <2>1 DEF Rechaza, Ingresa, Va, contadores, locales, TypeOK, Actores, Encoladores
    <3> QED
      BY <3>1, CupoAjeno DEF Ocupados
  <2> QED
    BY <1>2, <1>3, <2>1 DEF Consola, Encoladores
<1>4. ASSUME NEW h \in Hilos, dispatcher(h) PROVE Cupo'
  <2>1. CASE BajaHilo(h)
    <3>1. /\ Ocupados' = Ocupados \ {h} /\ h \in Ocupados
          /\ pc'["planificador"] = pc["planificador"]
          /\ hilos_ejecutando' = leido[h] - 1
          /\ "hilos" \notin riesgo' => "hilos" \notin riesgo /\ leido[h] = hilos_ejecutando
      BY <2>1 DEF BajaHilo, En, Va, Solapa, Ocupados, TypeOK, Actores, Encoladores
    <3>2. Cardinality(Ocupados') = Cardinality(Ocupados) - 1
      BY <3>1, OcupadosFinito DEF Ocupados
    <3> QED
      BY <3>1, <3>2 DEF Cupo, Subiendo, TypeOK
  <2>2. CASE VePrimero(h) \/ Desenlaza(h) \/ Asigna(h) \/ LeeHilos(h)
             \/ \E pedido \in PedidosLeidos, exito \in BOOLEAN : request(h, pedido, exito)
    <3>1. /\ riesgo \subseteq riesgo' /\ UNCHANGED hilos_ejecutando
          /\ pc'["planificador"] = pc["planificador"]
      BY <2>2 DEF VePrimero, Desenlaza, Asigna, LeeHilos, request, Solapa, Va, contadores,
         historia, TypeOK, Actores, Encoladores
    <3>2. \A g \in Hilos : pc[g] # "libre" <=> pc'[g] # "libre"
      BY <2>2 DEF VePrimero, Desenlaza, Asigna, LeeHilos, request, Sigue, En, Va, TypeOK,
         Actores, Encoladores
    <3> QED
      BY <3>1, <3>2, CupoAjeno DEF Ocupados
  <2> QED
    BY <1>2, <1>4, <2>1, <2>2 DEF dispatcher, Encoladores
<1>5. CASE planificador
  <2>1. ASSUME NEW h \in Hilos, crear_hilo(h) PROVE Cupo'
    <3>1. /\ Ocupados' = Ocupados \cup {h} /\ h \notin Ocupados
          /\ pc["planificador"] = "crea" /\ pc'["planificador"] = "sube"
          /\ UNCHANGED <<hilos_ejecutando, riesgo>>
      BY <2>1 DEF crear_hilo, En, contadores, Ocupados, TypeOK, Actores, Encoladores
    <3>2. Cardinality(Ocupados') = Cardinality(Ocupados) + 1
      BY <3>1, OcupadosFinito DEF Ocupados
    <3> QED
      BY <3>1, <3>2 DEF Cupo, Subiendo, TypeOK
  <2>2. CASE ~ \E h \in Hilos : crear_hilo(h)
    <3>1. Ocupados' = Ocupados /\ riesgo \subseteq riesgo'
      BY <1>5, <2>2 DEF planificador, VeElementos, VeHilos, LeeParaRestar, RestaElemento,
         LeeParaSubir, SubeHilo, Va, Solapa, Ocupados, TypeOK, Actores, Encoladores
    <3>2. CASE VeElementos \/ VeHilos \/ LeeParaRestar \/ RestaElemento \/ LeeParaSubir
      BY <3>1, <3>2 DEF VeElementos, VeHilos, HayCupo, LeeParaRestar, RestaElemento, LeeParaSubir,
         En, Va, contadores, Cupo, Subiendo, TypeOK, Actores
    <3>3. CASE SubeHilo
      BY <3>1, <3>3 DEF SubeHilo, En, Va, Solapa, Cupo, Subiendo, TypeOK, Actores
    <3> QED
      BY <1>5, <2>2, <3>2, <3>3 DEF planificador
  <2> QED
    BY <2>1, <2>2
<1> QED
  BY <1>1, <1>3, <1>4, <1>5 DEF Next

\* Until an update of hilos_ejecutando is lost there are never more dispatchers
\* than MULTIPROCESAMIENTO, however late the scheduler counts them.
THEOREM NuncaDeMas == Spec => []CupoRespetado
<1>1. Base /\ Cupo => CupoRespetado
  <2> SUFFICES ASSUME Base, Cupo, "hilos" \notin riesgo
               PROVE  Cardinality(Ocupados) <= MULTIPROCESAMIENTO
    BY DEF CupoRespetado
  <2> QED
    BY DEF Base, Cupo, Subiendo, TypeOK
<1>2. Init => Base /\ Cupo
  BY BaseInicial, CupoInicial
<1>3. Base /\ Cupo /\ [Next]_vars => (Base /\ Cupo)'
  BY BasePaso, CupoPaso
<1> QED
  BY <1>1, <1>2, <1>3, PTL DEF Spec

-----------------------------------------------------------------------------
(* The count of the queue.                                                 *)

LEMMA ActoresFinitos == IsFiniteSet(Actores)
<1>1. IsFiniteSet({"consola"}) /\ IsFiniteSet({"planificador"})
  BY FS_Singleton
<1>2. IsFiniteSet(Hilos \cup {"consola"})
  BY <1>1, FS_Union
<1> QED
  BY <1>1, <1>2, FS_Union DEF Actores, Encoladores

\* How many threads are in some places, before and after one of them moves.
LEMMA DentroCuenta ==
  ASSUME NEW L
  PROVE  Cardinality(Dentro(L)) \in Nat
<1>1. IsFiniteSet(Dentro(L))
  BY ActoresFinitos, FS_Subset DEF Dentro
<1> QED
  BY <1>1, FS_CardinalityType

LEMMA DentroIgual ==
  ASSUME NEW L, \A b \in Actores : pc'[b] \in L <=> pc[b] \in L
  PROVE  Dentro(L)' = Dentro(L)
  BY DEF Dentro

LEMMA DentroEntra ==
  ASSUME NEW L, NEW a \in Actores, pc[a] \notin L, pc'[a] \in L,
         \A b \in Actores \ {a} : pc'[b] \in L <=> pc[b] \in L
  PROVE  Cardinality(Dentro(L)') = Cardinality(Dentro(L)) + 1
<1>1. IsFiniteSet(Dentro(L))
  BY ActoresFinitos, FS_Subset DEF Dentro
<1>2. Dentro(L)' = Dentro(L) \cup {a} /\ a \notin Dentro(L)
  BY DEF Dentro
<1> QED
  BY <1>1, <1>2, FS_AddElement

LEMMA DentroSale ==
  ASSUME NEW L, NEW a \in Actores, pc[a] \in L, pc'[a] \notin L,
         \A b \in Actores \ {a} : pc'[b] \in L <=> pc[b] \in L
  PROVE  Cardinality(Dentro(L)') = Cardinality(Dentro(L)) - 1
<1>1. IsFiniteSet(Dentro(L))
  BY ActoresFinitos, FS_Subset DEF Dentro
<1>2. Dentro(L)' = Dentro(L) \ {a} /\ a \in Dentro(L)
  BY DEF Dentro
<1> QED
  BY <1>1, <1>2, FS_RemoveElement, ZenonT(60)

LEMMA CuentaInicial == Init => Cuenta
<1> SUFFICES ASSUME Init PROVE Cuenta
  OBVIOUS
<1>1. Dentro({"suma", "guarda"}) = {} /\ Dentro({"crea", "saca", "desenlaza"}) = {}
  BY DEF Init, Dentro
<1>2. PorContar = 0 /\ PorSacar = 0
  BY <1>1, FS_EmptySet DEF PorContar, PorSacar
<1> QED
  BY <1>2 DEF Init, Cuenta, Actores

\* Steps that change neither the queue nor its counter nor who is about to.
LEMMA CuentaAjena ==
  ASSUME Cuenta, riesgo \subseteq riesgo', UNCHANGED <<elementos_ready, cola_ready, viva>>,
         \A b \in Actores :
           /\ pc'[b] \in {"suma", "guarda"} <=> pc[b] \in {"suma", "guarda"}
           /\ pc'[b] \in {"crea", "saca", "desenlaza"} <=> pc[b] \in {"crea", "saca", "desenlaza"},
         pc'["planificador"] \in {"miraHilos", "resta", "guardaResta"} =>
           pc["planificador"] \in {"miraHilos", "resta", "guardaResta"} \/ elementos_ready > 0
  PROVE  Cuenta'
<1>1. PorContar' = PorContar /\ PorSacar' = PorSacar
  BY DentroIgual DEF PorContar, PorSacar
<1> QED
  BY <1>1 DEF Cuenta

LEMMA CuentaEnlaza == ASSUME NEW a \in Encoladores PROVE Base /\ Cuenta /\ Enlaza(a) => Cuenta'
<1> SUFFICES ASSUME Base, Cuenta, Enlaza(a), riesgo' \cap {"elementos", "cola"} = {} PROVE Cuenta'
  BY DEF Cuenta
<1>1. /\ pc[a] = "enlaza" /\ pc' = [pc EXCEPT ![a] = "suma"] /\ a \in Actores
      /\ a # "planificador"
      /\ UNCHANGED <<elementos_ready, viva>>
      /\ riesgo' = riesgo /\ visto[a] = UltimoDe(cola_ready)
      /\ cola_ready' = Enlazada(cola_ready, visto[a], proceso[a])
      /\ proceso[a] \in Procesos
  BY ZenonT(60) DEF Enlaza, En, Va, Solapa, contadores, Base, TypeOK, Duenios, Tiene, Poseedores, Actores,
     Encoladores
<1>2. PorContar' = PorContar + 1
  BY <1>1, DentroEntra, ZenonT(60) DEF PorContar, Base, TypeOK
<1>3. PorSacar' = PorSacar
  BY <1>1, DentroIgual DEF PorSacar, Base, TypeOK
<1>4. Len(cola_ready') = Len(cola_ready) + 1
  BY <1>1, EnlazadaAlFinal DEF Base, TypeOK, Duenios
<1>5. PorContar \in Nat /\ PorSacar \in Nat
  BY DentroCuenta DEF PorContar, PorSacar
<1>6. /\ pc'["planificador"] = pc["planificador"]
      /\ elementos_ready \in Int /\ Len(cola_ready) \in Nat
  BY <1>1 DEF Base, TypeOK, Actores
<1> QED
  BY <1>1, <1>2, <1>3, <1>4, <1>5, <1>6 DEF Cuenta

LEMMA CuentaSuma == ASSUME NEW a \in Encoladores PROVE Base /\ Cuenta /\ SumaElemento(a) => Cuenta'
<1> SUFFICES ASSUME Base, Cuenta, SumaElemento(a), riesgo' \cap {"elementos", "cola"} = {}
             PROVE  Cuenta'
  BY DEF Cuenta
<1>1. /\ pc[a] = "guarda" /\ pc' = [pc EXCEPT ![a] = IF a = "consola" THEN "libre" ELSE "baja"]
      /\ a \in Actores /\ a # "planificador"
      /\ UNCHANGED <<cola_ready, viva>>
      /\ riesgo' = riesgo /\ elementos_ready' = elementos_ready + 1
  BY DEF SumaElemento, En, Va, Solapa, Actores, Encoladores
<1>2. PorContar' = PorContar - 1
  BY <1>1, DentroSale DEF PorContar, Base, TypeOK
<1>3. PorSacar' = PorSacar
  BY <1>1, DentroIgual DEF PorSacar, Base, TypeOK
<1>5. PorContar \in Nat /\ PorSacar \in Nat
  BY DentroCuenta DEF PorContar, PorSacar
<1>6. /\ pc'["planificador"] = pc["planificador"]
      /\ elementos_ready \in Int /\ Len(cola_ready) \in Nat
  BY <1>1 DEF Base, TypeOK, Actores
<1> QED
  BY <1>1, <1>2, <1>3, <1>5, <1>6 DEF Cuenta

LEMMA CuentaResta == Base /\ Cuenta /\ RestaElemento => Cuenta'
<1> SUFFICES ASSUME Base, Cuenta, RestaElemento, riesgo' \cap {"elementos", "cola"} = {}
             PROVE  Cuenta'
  BY DEF Cuenta
<1>1. /\ pc["planificador"] = "guardaResta" /\ "planificador" \in Actores
      /\ pc' = [pc EXCEPT !["planificador"] = "crea"]
      /\ UNCHANGED <<cola_ready, viva>>
      /\ riesgo' = riesgo /\ elementos_ready' = elementos_ready - 1
  BY DEF RestaElemento, En, Va, Solapa, Actores
<1>2. PorContar' = PorContar
  BY <1>1, DentroIgual DEF PorContar, Base, TypeOK
<1>3. PorSacar' = PorSacar + 1
  <2>1. /\ pc["planificador"] \notin {"crea", "saca", "desenlaza"}
        /\ pc'["planificador"] \in {"crea", "saca", "desenlaza"}
        /\ \A b \in Actores \ {"planificador"} : pc'[b] = pc[b]
    BY <1>1 DEF Base, TypeOK
  <2> QED
    BY <1>1, <2>1, DentroEntra, ZenonT(60) DEF PorSacar
<1>5. PorContar \in Nat /\ PorSacar \in Nat
  BY DentroCuenta DEF PorContar, PorSacar
<1>6. /\ pc'["planificador"] = "crea"
      /\ elementos_ready \in Int /\ Len(cola_ready) \in Nat
  BY <1>1 DEF Base, TypeOK, Actores
<1> QED
  BY <1>1, <1>2, <1>3, <1>5, <1>6 DEF Cuenta

LEMMA CuentaCrear_hilo == ASSUME NEW h \in Hilos PROVE Base /\ Cuenta /\ crear_hilo(h) => Cuenta'
<1> SUFFICES ASSUME Base, Cuenta, crear_hilo(h), riesgo' \cap {"elementos", "cola"} = {}
             PROVE  Cuenta'
  BY DEF Cuenta
<1> DEFINE L == {"crea", "saca", "desenlaza"}
<1>1. /\ pc["planificador"] = "crea" /\ pc[h] = "libre" /\ h # "planificador"
      /\ h \in Actores /\ "planificador" \in Actores
      /\ pc' = [pc EXCEPT !["planificador"] = "sube", ![h] = "saca"]
      /\ UNCHANGED <<cola_ready, elementos_ready, viva, riesgo>>
  BY DEF crear_hilo, En, contadores, Actores, Encoladores
<1>2. /\ pc'[h] = "saca" /\ pc'["planificador"] = "sube"
      /\ \A b \in Actores \ {h, "planificador"} : pc'[b] = pc[b]
  BY <1>1 DEF Base, TypeOK
<1>3. PorContar' = PorContar
  BY <1>1, <1>2, DentroIgual DEF PorContar
<1>4. /\ Dentro(L)' = (Dentro(L) \ {"planificador"}) \cup {h}
      /\ "planificador" \in Dentro(L) /\ h \notin Dentro(L)
  BY <1>1, <1>2 DEF Dentro
<1>5. IsFiniteSet(Dentro(L))
  BY ActoresFinitos, FS_Subset DEF Dentro
<1>6. Cardinality(Dentro(L)') = Cardinality(Dentro(L))
  <2> HIDE DEF L
  <2>1. /\ IsFiniteSet(Dentro(L) \ {"planificador"})
        /\ Cardinality(Dentro(L) \ {"planificador"}) = Cardinality(Dentro(L)) - 1
    BY <1>4, <1>5, FS_RemoveElement
  <2>2. h \notin Dentro(L) \ {"planificador"}
    BY <1>4
  <2>3. Cardinality((Dentro(L) \ {"planificador"}) \cup {h})
          = Cardinality(Dentro(L) \ {"planificador"}) + 1
    BY <2>1, <2>2, FS_AddElement
  <2> QED
    BY <1>4, <2>1, <2>3, <1>5, FS_CardinalityType
<1>7. PorSacar' = PorSacar
  BY <1>6 DEF PorSacar
<1> QED
  BY <1>1, <1>2, <1>3, <1>7 DEF Cuenta

\* A dispatcher about to pop is one of those the queue has an element for.
LEMMA HayElemento ==
  ASSUME Base, Cuenta, riesgo \cap {"elementos", "cola"} = {}, NEW h \in Hilos,
         pc[h] \in {"saca", "desenlaza"}
  PROVE  cola_ready # <<>>
<1> DEFINE L == {"crea", "saca", "desenlaza"}
<1>1. h \in Dentro(L) /\ IsFiniteSet(Dentro(L))
  BY ActoresFinitos, FS_Subset DEF Dentro, Actores, Encoladores
<1>2. Cardinality(Dentro(L)) # 0
  BY <1>1, FS_EmptySet
<1>3. PorContar \in Nat /\ PorSacar \in Nat /\ PorSacar # 0
  BY <1>2, DentroCuenta DEF PorContar, PorSacar
<1>4. Len(cola_ready) > 0
  BY <1>3 DEF Base, TypeOK, Cuenta
<1> QED
  BY <1>4

LEMMA CuentaVePrimero == ASSUME NEW h \in Hilos PROVE Base /\ Cuenta /\ VePrimero(h) => Cuenta'
<1> SUFFICES ASSUME Base, Cuenta, VePrimero(h), riesgo' \cap {"elementos", "cola"} = {}
             PROVE  Cuenta'
  BY DEF Cuenta
<1>1. /\ pc[h] = "saca" /\ h # "planificador" /\ h \in Actores
      /\ UNCHANGED <<cola_ready, elementos_ready, riesgo>>
  BY DEF VePrimero, En, contadores, Actores, Encoladores
<1>2. cola_ready # <<>>
  BY <1>1, HayElemento
<1>3. pc' = [pc EXCEPT ![h] = "desenlaza"] /\ UNCHANGED viva
  BY <1>2 DEF VePrimero, Va
<1> QED
  BY <1>1, <1>3, CuentaAjena DEF Base, TypeOK, Actores

LEMMA CuentaDesenlaza == ASSUME NEW h \in Hilos PROVE Base /\ Cuenta /\ Desenlaza(h) => Cuenta'
<1> SUFFICES ASSUME Base, Cuenta, Desenlaza(h), riesgo' \cap {"elementos", "cola"} = {}
             PROVE  Cuenta'
  BY DEF Cuenta
<1>1. /\ pc[h] = "desenlaza" /\ h # "planificador" /\ h \in Actores
      /\ UNCHANGED <<elementos_ready, viva>> /\ riesgo' = riesgo
      /\ pc' = [pc EXCEPT ![h] = "asigna"]
      /\ cola_ready # <<>>
      /\ visto[h] = SegundoDe(cola_ready)
      /\ cola_ready' = IF visto[h] = Nadie THEN <<>> ELSE Tail(cola_ready)
  BY DEF Desenlaza, EsPrimero, En, Va, Solapa, contadores, Actores, Encoladores
<1>7. cola_ready # <<>>
  BY <1>1
<1>8. UNCHANGED <<elementos_ready, viva, riesgo>>
  BY <1>1
<1>2. Len(cola_ready') = Len(cola_ready) - 1
  <2>1. cola_ready \in Seq(Procesos)
    BY DEF Base, TypeOK
  <2>2. CASE Len(cola_ready) < 2
    <3>1. Len(cola_ready) = 1
      <4>1. Len(cola_ready) \in Nat /\ Len(cola_ready) # 0
        BY <1>7, <2>1
      <4>2. \A n \in Nat : n # 0 /\ n < 2 => n = 1
        OBVIOUS
      <4> QED
        BY <2>2, <4>1, <4>2, Zenon
    <3>2. cola_ready' = <<>>
      BY <1>1, <2>2 DEF SegundoDe
    <3> QED
      BY <3>1, <3>2
  <2>3. CASE ~(Len(cola_ready) < 2)
    <3>1. cola_ready[2] \in Procesos
      BY <2>1, <2>3
    <3>2. cola_ready' = Tail(cola_ready)
      BY <1>1, <2>3, <3>1 DEF SegundoDe
    <3> QED
      BY <1>1, <2>1, <3>2, ColaSinPrimero
  <2> QED
    BY <2>2, <2>3
<1>3. PorContar' = PorContar
  BY <1>1, DentroIgual DEF PorContar, Base, TypeOK
<1>4. PorSacar' = PorSacar - 1
  BY <1>1, DentroSale DEF PorSacar, Base, TypeOK
<1>5. PorContar \in Nat /\ PorSacar \in Nat
  BY DentroCuenta DEF PorContar, PorSacar
<1>6. /\ pc'["planificador"] = pc["planificador"]
      /\ elementos_ready \in Int /\ Len(cola_ready) \in Nat
  BY <1>1 DEF Base, TypeOK, Actores
<1> QED
  BY <1>2, <1>3, <1>4, <1>5, <1>6, <1>8 DEF Cuenta

LEMMA CuentaPaso == Base /\ Cuenta /\ [Next]_vars => Cuenta'
<1> SUFFICES ASSUME Base, Cuenta, [Next]_vars PROVE Cuenta'
  OBVIOUS
<1>1. CASE UNCHANGED vars
  BY <1>1, CuentaAjena DEF vars, locales, contadores
<1>2. ASSUME NEW a \in Encoladores, VeUltimo(a) \/ LeeElementos(a) PROVE Cuenta'
  BY <1>2, CuentaAjena DEF VeUltimo, LeeElementos, En, Va, contadores, Base, TypeOK, Sitios,
     Actores, Encoladores
<1>3. ASSUME NEW a \in Encoladores, Encola(a) PROVE Cuenta'
  BY <1>2, <1>3, CuentaEnlaza, CuentaSuma DEF Encola
<1>4. ASSUME NEW p \in Procesos, Rechaza(p) \/ Ingresa(p) PROVE Cuenta'
  BY <1>4, CuentaAjena DEF Rechaza, Ingresa, En, Va, contadores, locales, Base, TypeOK, Actores
<1>5. CASE VeElementos \/ VeHilos \/ LeeParaRestar \/ LeeParaSubir \/ SubeHilo
  BY <1>5, CuentaAjena DEF VeElementos, VeHilos, LeeParaRestar, LeeParaSubir, SubeHilo, Solapa,
     En, Va, contadores, Base, TypeOK, Actores
<1>6. ASSUME NEW h \in Hilos,
             \/ Asigna(h) \/ LeeHilos(h) \/ BajaHilo(h)
             \/ \E pedido \in PedidosLeidos, exito \in BOOLEAN : request(h, pedido, exito)
      PROVE  Cuenta'
  <2>1. /\ riesgo \subseteq riesgo' /\ UNCHANGED <<elementos_ready, cola_ready, viva>>
        /\ pc[h] \in {"asigna", "baja", "guardaBaja", "pide"} /\ h # "planificador"
    BY <1>6 DEF Asigna, LeeHilos, BajaHilo, request, Solapa, En, contadores
  <2>2. \E s \in {"pide", "guardaBaja", "libre", "baja", "asigna", "encola"} :
          pc' = [pc EXCEPT ![h] = s]
    BY <1>6 DEF Asigna, LeeHilos, BajaHilo, request, Sigue, Va
  <2> QED
    BY <2>1, <2>2, CuentaAjena DEF Base, TypeOK, Actores
<1>7. CASE Consola
  BY <1>3, <1>4, <1>7 DEF Consola, Encoladores
<1>8. CASE planificador
  BY <1>5, <1>8, CuentaResta, CuentaCrear_hilo DEF planificador
<1>9. ASSUME NEW h \in Hilos, dispatcher(h) PROVE Cuenta'
  BY <1>3, <1>6, <1>9, CuentaVePrimero, CuentaDesenlaza DEF dispatcher, Encoladores
<1> QED
  BY <1>1, <1>7, <1>8, <1>9 DEF Next

\* Until an update of the queue or of its counter is lost, every dispatcher
\* finds an element: the Kernel does not die on a NULL from queue_pop.
THEOREM ColaBienContada == Spec => []ColaContada
<1>1. Cuenta => ColaContada
  BY DEF Cuenta, ColaContada
<1>2. Init => Base /\ Cuenta
  BY BaseInicial, CuentaInicial
<1>3. Base /\ Cuenta /\ [Next]_vars => (Base /\ Cuenta)'
  BY BasePaso, CuentaPaso
<1> QED
  BY <1>1, <1>2, <1>3, PTL DEF Spec

-----------------------------------------------------------------------------
(* The order of the lines.                                                 *)

LEMMA OrdenInicial == Init => Orden
  BY DEF Init, Orden, Pidiendo, LineaDe, Actores, Encoladores

LEMMA OrdenAjeno ==
  ASSUME Orden, riesgo \subseteq riesgo', UNCHANGED <<restan, hechas, abortados>>,
         \A h \in Hilos : /\ pc'[h] = "pide" <=> pc[h] = "pide"
                          /\ pc[h] = "pide" => proceso'[h] = proceso[h]
  PROVE  Orden'
<1>1. \A p \in Scripts : /\ Pidiendo(p)' <=> Pidiendo(p)
                         /\ LineaDe(p)' = LineaDe(p)
  BY DEF Pidiendo, LineaDe
<1> QED
  BY <1>1 DEF Orden

LEMMA OrdenAsigna == ASSUME NEW h \in Hilos PROVE Base /\ Orden /\ Asigna(h) => Orden'
<1> SUFFICES ASSUME Base, Orden, Asigna(h), riesgo' \cap {"cola", "parametro"} = {},
                    NEW p \in Scripts
             PROVE  /\ \A i \in 1..Len(hechas'[p]) : hechas'[p][i] = i
                    /\ p \in abortados' => restan'[p] = 0 /\ ~Pidiendo(p)'
                    /\ p \notin abortados' =>
                         Len(hechas'[p]) = IF Pidiendo(p)' THEN LineaDe(p)' - 1 ELSE LineaDe(p)'
  BY DEF Orden
<1>1. /\ pc[h] = "asigna" /\ h \in Encoladores /\ h \in Actores
      /\ Hilos \subseteq Encoladores /\ Hilos \subseteq Actores
      /\ pc' = [pc EXCEPT ![h] = "pide"]
      /\ restan' = [restan EXCEPT ![proceso[h]] = @ - 1]
      /\ UNCHANGED <<proceso, hechas, abortados, riesgo>>
      /\ proceso[h] \in Procesos /\ restan[proceso[h]] > 0
      /\ p \in Procesos /\ restan[p] \in Nat /\ Lineas[p] \in Nat
  BY DEF Asigna, En, Va, historia, Encoladores, Actores, Base, TypeOK, Duenios, Renglones, Tiene,
     Poseedores
<1>2. /\ pc'[h] = "pide" /\ \A g \in Hilos \ {h} : pc'[g] = pc[g]
  BY <1>1 DEF Base, TypeOK
<1>3. /\ \A i \in 1..Len(hechas[p]) : hechas[p][i] = i
      /\ p \in abortados => restan[p] = 0 /\ ~Pidiendo(p)
      /\ p \notin abortados =>
           Len(hechas[p]) = IF Pidiendo(p) THEN LineaDe(p) - 1 ELSE LineaDe(p)
  BY <1>1 DEF Orden
<1>4. CASE p = proceso[h]
  <2>1. ~Pidiendo(p) /\ Pidiendo(p)'
    BY <1>1, <1>2, <1>4 DEF Pidiendo, Base, Duenios, Tiene, Poseedores
  <2>2. LineaDe(p)' = LineaDe(p) + 1 /\ LineaDe(p) \in Int
    BY <1>1, <1>4 DEF LineaDe, Base, TypeOK
  <2> QED
    BY <1>1, <1>3, <1>4, <2>1, <2>2
<1>5. CASE p # proceso[h]
  <2>1. Pidiendo(p)' <=> Pidiendo(p)
    BY <1>1, <1>2, <1>5 DEF Pidiendo
  <2>2. LineaDe(p)' = LineaDe(p) /\ restan'[p] = restan[p]
    BY <1>1, <1>5 DEF LineaDe, Base, TypeOK
  <2> QED
    BY <1>1, <1>3, <2>1, <2>2
<1> QED
  BY <1>4, <1>5

\* While nobody has written over parametro the line read is the line taken.
LEMMA OrdenRequest ==
  ASSUME NEW h \in Hilos, NEW pedido \in PedidosLeidos, NEW exito \in BOOLEAN
  PROVE  Base /\ Orden /\ request(h, pedido, exito) => Orden'
<1> SUFFICES ASSUME Base, Orden, request(h, pedido, exito),
                    riesgo' \cap {"cola", "parametro"} = {}, NEW p \in Scripts
             PROVE  /\ \A i \in 1..Len(hechas'[p]) : hechas'[p][i] = i
                    /\ p \in abortados' => restan'[p] = 0 /\ ~Pidiendo(p)'
                    /\ p \notin abortados' =>
                         Len(hechas'[p]) = IF Pidiendo(p)' THEN LineaDe(p)' - 1 ELSE LineaDe(p)'
  BY DEF Orden
<1>1. /\ pc[h] = "pide" /\ h \in Encoladores /\ h \in Actores
      /\ Hilos \subseteq Encoladores /\ Hilos \subseteq Actores
      /\ proceso[h] \in Procesos
      /\ p \in Procesos /\ restan[p] \in Nat /\ Lineas[p] \in Nat /\ hechas[p] \in Seq(Nat)
      /\ restan[proceso[h]] \in Nat /\ Lineas[proceso[h]] \in Nat
      /\ riesgo \cap {"cola", "parametro"} = {}
      /\ pedido = EnMano(h)
  BY ZenonT(60) DEF request, Solapa, En, Encoladores, Actores, Base, TypeOK, Duenios, Tiene, Poseedores
<1>2. /\ pedido # NoHay /\ pedido[1] = proceso[h] /\ pedido[2] = LineaDe(proceso[h])
      /\ LineaDe(proceso[h]) \in Int
  BY <1>1 DEF EnMano, NoHay, LineaDe
<1>3. hechas' = IF exito THEN [hechas EXCEPT ![proceso[h]] = Append(@, LineaDe(proceso[h]))]
                ELSE hechas
  BY <1>2 DEF request
<1>4. /\ \A i \in 1..Len(hechas[p]) : hechas[p][i] = i
      /\ p \in abortados => restan[p] = 0 /\ ~Pidiendo(p)
      /\ p \notin abortados =>
           Len(hechas[p]) = IF Pidiendo(p) THEN LineaDe(p) - 1 ELSE LineaDe(p)
  BY <1>1 DEF Orden
<1>5. /\ \E s \in {"baja", "asigna", "encola"} : pc' = [pc EXCEPT ![h] = s]
      /\ proceso' \in {proceso, [proceso EXCEPT ![h] = Nadie]}
  BY DEF request, Va, Sigue
<1>6. /\ pc'[h] # "pide"
      /\ \A g \in Hilos \ {h} : pc'[g] = pc[g] /\ proceso'[g] = proceso[g]
  BY <1>1, <1>5 DEF Base, TypeOK
<1>7. \/ /\ exito \/ proceso[h] \notin Scripts
         /\ UNCHANGED <<restan, abortados>>
      \/ /\ ~exito /\ proceso[h] \in Scripts
         /\ restan' = [restan EXCEPT ![proceso[h]] = 0]
         /\ abortados' = abortados \cup {proceso[h]}
  BY DEF request
<1>8. CASE p = proceso[h]
  <2>1. Pidiendo(p) /\ ~Pidiendo(p)'
    BY <1>1, <1>6, <1>8 DEF Pidiendo, Base, Duenios, Tiene, Poseedores
  <2>2. p \notin abortados /\ Len(hechas[p]) = LineaDe(p) - 1
    BY <1>4, <2>1
  <2>3. CASE exito
    <3>1. hechas'[p] = Append(hechas[p], LineaDe(p))
      BY <1>1, <1>3, <1>8, <2>3 DEF Base, TypeOK
    <3>2. Len(hechas'[p]) = LineaDe(p)
      BY <1>1, <1>2, <1>8, <2>2, <3>1
    <3>3. \A i \in 1..Len(hechas'[p]) : hechas'[p][i] = i
      BY <1>1, <1>2, <1>4, <1>8, <2>2, <3>1
    <3>4. p \notin abortados' /\ LineaDe(p)' = LineaDe(p)
      BY <1>7, <2>2, <2>3 DEF LineaDe
    <3> QED
      BY <2>1, <3>2, <3>3, <3>4
  <2>4. CASE ~exito
    <3>1. hechas' = hechas /\ p \in abortados' /\ restan'[p] = 0
      BY <1>1, <1>3, <1>7, <1>8, <2>4 DEF Base, TypeOK
    <3> QED
      BY <1>4, <2>1, <3>1
  <2> QED
    BY <2>3, <2>4
<1>9. CASE p # proceso[h]
  <2>1. Pidiendo(p)' <=> Pidiendo(p)
    BY <1>6, <1>9 DEF Pidiendo
  <2>2. /\ hechas'[p] = hechas[p] /\ restan'[p] = restan[p]
        /\ p \in abortados' <=> p \in abortados
    BY <1>1, <1>3, <1>7, <1>9 DEF Base, TypeOK
  <2>3. LineaDe(p)' = LineaDe(p)
    BY <2>2 DEF LineaDe
  <2> QED
    BY <1>4, <2>1, <2>2, <2>3
<1> QED
  BY <1>8, <1>9

LEMMA OrdenPaso == Base /\ Orden /\ [Next]_vars => Orden'
<1> SUFFICES ASSUME Base, Orden, [Next]_vars PROVE Orden'
  OBVIOUS
<1>0. Hilos \subseteq Actores /\ Hilos \subseteq Encoladores /\ "consola" \notin Hilos
      /\ "planificador" \notin Hilos
  BY DEF Actores, Encoladores
<1>1. CASE UNCHANGED vars
  BY <1>1, OrdenAjeno DEF vars, locales, historia
<1>2. ASSUME NEW a \in Encoladores, Encola(a) PROVE Orden'
  <2>1. /\ pc[a] \in {"encola", "enlaza", "suma", "guarda"}
        /\ \E s \in {"enlaza", "suma", "guarda", "libre", "baja"} : pc' = [pc EXCEPT ![a] = s]
        /\ proceso' \in {proceso, [proceso EXCEPT ![a] = Nadie]}
        /\ riesgo \subseteq riesgo' /\ UNCHANGED <<restan, hechas, abortados>>
    BY <1>2 DEF Encola, VeUltimo, Enlaza, LeeElementos, SumaElemento, En, Va, Solapa, historia
  <2>2. \A h \in Hilos : /\ pc'[h] = "pide" <=> pc[h] = "pide"
                         /\ pc[h] = "pide" => proceso'[h] = proceso[h]
    BY <1>0, <2>1 DEF Base, TypeOK
  <2> QED
    BY <2>1, <2>2, OrdenAjeno
<1>3. ASSUME NEW p \in Procesos, Rechaza(p) \/ Ingresa(p) PROVE Orden'
  <2>1. /\ \A h \in Hilos : pc'[h] = pc[h] /\ proceso'[h] = proceso[h]
        /\ riesgo \subseteq riesgo' /\ UNCHANGED <<restan, hechas, abortados>>
    BY <1>0, <1>3 DEF Rechaza, Ingresa, En, Va, locales, historia, Base, TypeOK
  <2> QED
    BY <2>1, OrdenAjeno
<1>4. CASE Consola
  BY <1>2, <1>3, <1>4 DEF Consola, Encoladores
<1>5. CASE planificador
  <2>1. /\ \A h \in Hilos : pc'[h] = "pide" <=> pc[h] = "pide"
        /\ proceso' = proceso
        /\ riesgo \subseteq riesgo' /\ UNCHANGED <<restan, hechas, abortados>>
    BY <1>0, <1>5 DEF planificador, VeElementos, VeHilos, LeeParaRestar, RestaElemento,
       crear_hilo, LeeParaSubir, SubeHilo, En, Va, Solapa, historia, Base, TypeOK
  <2> QED
    BY <2>1, OrdenAjeno
<1>6. ASSUME NEW h \in Hilos, VePrimero(h) \/ Desenlaza(h) \/ LeeHilos(h) \/ BajaHilo(h)
      PROVE  Orden'
  <2>1. /\ pc[h] \in {"saca", "desenlaza", "baja", "guardaBaja"}
        /\ pc' = pc \/ \E s \in {"desenlaza", "asigna", "guardaBaja", "libre"} :
                         pc' = [pc EXCEPT ![h] = s]
        /\ \A g \in Hilos \ {h} : proceso'[g] = proceso[g]
        /\ riesgo \subseteq riesgo' /\ UNCHANGED <<restan, hechas, abortados>>
    BY <1>0, <1>6 DEF VePrimero, Desenlaza, LeeHilos, BajaHilo, En, Va, Solapa, historia, Base,
       TypeOK
  <2>2. \A g \in Hilos : /\ pc'[g] = "pide" <=> pc[g] = "pide"
                         /\ pc[g] = "pide" => proceso'[g] = proceso[g]
    BY <1>0, <2>1 DEF Base, TypeOK
  <2> QED
    BY <2>1, <2>2, OrdenAjeno
<1>7. ASSUME NEW h \in Hilos, dispatcher(h) PROVE Orden'
  BY <1>2, <1>6, <1>7, OrdenAsigna, OrdenRequest DEF dispatcher, Encoladores
<1> QED
  BY <1>1, <1>4, <1>5, <1>7 DEF Next

\* Until the queue or the shared structure is trampled on, the lines of a
\* script run in their order, each once, and only a failed one ends it early.
THEOREM LineasEnOrden == Spec => []EnOrden
<1>1. Base /\ Orden => EnOrden
  <2> SUFFICES ASSUME Base, Orden, riesgo \cap {"cola", "parametro"} = {}, NEW p \in Scripts,
                      p \notin abortados
               PROVE  Len(hechas[p]) = LineaDe(p)
                        - Cardinality({h \in Hilos : pc[h] = "pide" /\ proceso[h] = p})
    BY DEF Orden, EnOrden
  <2> DEFINE S == {h \in Hilos : pc[h] = "pide" /\ proceso[h] = p}
  <2>1. \A x, y \in S : x = y
    BY DEF Base, Duenios, Tiene, Poseedores, Encoladores
  <2>2. Pidiendo(p) <=> S # {}
    BY DEF Pidiendo
  <2>3. Len(hechas[p]) = IF Pidiendo(p) THEN LineaDe(p) - 1 ELSE LineaDe(p)
    BY DEF Orden
  <2>4. LineaDe(p) \in Int
    BY DEF LineaDe, Base, TypeOK
  <2> HIDE DEF S
  <2>5. Cardinality(S) = IF Pidiendo(p) THEN 1 ELSE 0
    BY <2>1, <2>2, AloSumoUno
  <2>6. Len(hechas[p]) = LineaDe(p) - Cardinality(S)
    BY <2>3, <2>4, <2>5
  <2> QED
    BY <2>6 DEF S
<1>2. Init => Base /\ Orden
  BY BaseInicial, OrdenInicial
<1>3. Base /\ Orden /\ [Next]_vars => (Base /\ Orden)'
  BY BasePaso, OrdenPaso
<1> QED
  BY <1>1, <1>2, <1>3, PTL DEF Spec

-----------------------------------------------------------------------------
(* The scheduler is a Ronda.                                               *)

\* Linking behind the true last node appends.
LEMMA EnlazadaEsAgregar ==
  ASSUME NEW q \in Seq(Procesos), NEW p \in Procesos,
         \A i, j \in 1..Len(q) : q[i] = q[j] => i = j
  PROVE  Enlazada(q, UltimoDe(q), p) = Append(q, p)
<1>1. CASE q = <<>>
  BY <1>1 DEF Enlazada, UltimoDe
<1>2. CASE q # <<>>
  <2> DEFINE k == CHOOSE i \in 1..Len(q) : q[i] = q[Len(q)]
  <2>1. Len(q) \in 1..Len(q)
    BY <1>2
  <2>2. k = Len(q)
    BY <2>1
  <2>3. UltimoDe(q) = q[Len(q)] /\ q[Len(q)] \in Procesos
    BY <2>1, <1>2 DEF UltimoDe
  <2>4. Esta(q[Len(q)], q)
    BY <2>1 DEF Esta
  <2>5. Enlazada(q, UltimoDe(q), p) = SubSeq(q, 1, k) \o <<p>>
    BY <2>3, <2>4 DEF Enlazada
  <2>6. SubSeq(q, 1, Len(q)) = q
    BY <2>1
  <2>7. q \o <<p>> = Append(q, p)
    OBVIOUS
  <2> QED
    BY <2>2, <2>5, <2>6, <2>7
<1> QED
  BY <1>1, <1>2

\* The second node is the new head.
LEMMA SegundoEsCabeza ==
  ASSUME NEW q \in Seq(Procesos), q # <<>>
  PROVE  (IF SegundoDe(q) = Nadie THEN <<>> ELSE Tail(q)) = Tail(q)
<1>1. CASE Len(q) < 2
  <2>1. Len(q) \in Nat /\ Len(q) # 0
    OBVIOUS
  <2>2. \A n \in Nat : n # 0 /\ n < 2 => n = 1
    OBVIOUS
  <2>3. Len(q) = 1
    BY <1>1, <2>1, <2>2, Zenon
  <2>4. Len(Tail(q)) = 0 /\ Tail(q) \in Seq(Procesos)
    BY <2>3, ColaSinPrimero
  <2>5. \A s \in Seq(Procesos) : Len(s) = 0 => s = <<>>
    OBVIOUS
  <2>6. Tail(q) = <<>>
    BY <2>4, <2>5
  <2> QED
    BY <2>6
<1>2. CASE ~(Len(q) < 2)
  <2>1. q[2] \in Procesos
    BY <1>2
  <2> QED
    BY <1>2, <2>1 DEF SegundoDe
<1> QED
  BY <1>1, <1>2

\* A single request that has run has no line left and is not being asked for.
Unicos ==
  riesgo \cap {"cola", "parametro"} = {} =>
    \A p \in Procesos \ Scripts : hechas[p] # <<>> =>
      Len(hechas[p]) = 1 /\ restan[p] = 0 /\ ~Pidiendo(p)

LEMMA UnicosAjeno ==
  ASSUME Unicos, riesgo \subseteq riesgo', UNCHANGED <<restan, hechas>>,
         \A h \in Hilos : /\ pc'[h] = "pide" <=> pc[h] = "pide"
                          /\ pc[h] = "pide" => proceso'[h] = proceso[h]
  PROVE  Unicos'
<1>1. \A p \in Procesos : Pidiendo(p)' <=> Pidiendo(p)
  BY DEF Pidiendo
<1> QED
  BY <1>1 DEF Unicos

LEMMA UnicosAsigna == ASSUME NEW h \in Hilos PROVE Base /\ Unicos /\ Asigna(h) => Unicos'
<1> SUFFICES ASSUME Base, Unicos, Asigna(h), riesgo' \cap {"cola", "parametro"} = {},
                    NEW p \in Procesos \ Scripts, hechas'[p] # <<>>
             PROVE  Len(hechas'[p]) = 1 /\ restan'[p] = 0 /\ ~Pidiendo(p)'
  BY DEF Unicos
<1>1. /\ pc[h] = "asigna" /\ h \in Encoladores /\ h \in Actores
      /\ Hilos \subseteq Encoladores /\ Hilos \subseteq Actores
      /\ pc' = [pc EXCEPT ![h] = "pide"]
      /\ restan' = [restan EXCEPT ![proceso[h]] = @ - 1]
      /\ UNCHANGED <<proceso, hechas, riesgo>>
      /\ restan[proceso[h]] > 0
  BY DEF Asigna, En, Va, historia, Encoladores, Actores, Base, Renglones
<1>2. Len(hechas[p]) = 1 /\ restan[p] = 0 /\ ~Pidiendo(p)
  BY <1>1 DEF Unicos
<1>3. p # proceso[h]
  BY <1>1, <1>2
<1>4. restan'[p] = restan[p] /\ (Pidiendo(p)' <=> Pidiendo(p))
  BY <1>1, <1>3 DEF Pidiendo, Base, TypeOK
<1> QED
  BY <1>1, <1>2, <1>4

\* What a request that finds its own line in parametro does.
LEMMA PedidoPropio ==
  ASSUME Base, NEW h \in Hilos, NEW pedido \in PedidosLeidos, NEW exito \in BOOLEAN,
         request(h, pedido, exito), riesgo' \cap {"cola", "parametro"} = {}
  PROVE  /\ pc[h] = "pide" /\ proceso[h] \in Procesos
         /\ riesgo \cap {"cola", "parametro"} = {} /\ riesgo \subseteq riesgo'
         /\ hechas' = IF exito THEN [hechas EXCEPT ![proceso[h]] = Append(@, LineaDe(proceso[h]))]
                      ELSE hechas
<1>1. /\ pc[h] = "pide" /\ proceso[h] \in Procesos
      /\ riesgo \cap {"cola", "parametro"} = {} /\ riesgo \subseteq riesgo'
      /\ pedido = EnMano(h)
  BY ZenonT(60) DEF request, Solapa, En, Encoladores, Actores, Base, TypeOK, Duenios, Tiene, Poseedores
<1>2. /\ pedido # NoHay /\ pedido[1] = proceso[h] /\ pedido[2] = LineaDe(proceso[h])
  BY <1>1 DEF EnMano, NoHay
<1> QED
  BY <1>1, <1>2 DEF request

LEMMA UnicosRequest ==
  ASSUME NEW h \in Hilos, NEW pedido \in PedidosLeidos, NEW exito \in BOOLEAN
  PROVE  Base /\ Unicos /\ request(h, pedido, exito) => Unicos'
<1> SUFFICES ASSUME Base, Unicos, request(h, pedido, exito),
                    riesgo' \cap {"cola", "parametro"} = {},
                    NEW p \in Procesos \ Scripts, hechas'[p] # <<>>
             PROVE  Len(hechas'[p]) = 1 /\ restan'[p] = 0 /\ ~Pidiendo(p)'
  BY DEF Unicos
<1>1. /\ pc[h] = "pide" /\ proceso[h] \in Procesos
      /\ riesgo \cap {"cola", "parametro"} = {}
      /\ hechas' = IF exito THEN [hechas EXCEPT ![proceso[h]] = Append(@, LineaDe(proceso[h]))]
                   ELSE hechas
  BY PedidoPropio
<1>2. /\ h \in Encoladores /\ h \in Actores /\ Hilos \subseteq Encoladores /\ Hilos \subseteq Actores
      /\ \E s \in {"baja", "asigna", "encola"} : pc' = [pc EXCEPT ![h] = s]
      /\ proceso' \in {proceso, [proceso EXCEPT ![h] = Nadie]}
      /\ \/ restan' = restan
         \/ proceso[h] \in Scripts /\ restan' = [restan EXCEPT ![proceso[h]] = 0]
  BY DEF request, Va, Sigue, Encoladores, Actores
<1>3. /\ pc'[h] # "pide"
      /\ \A g \in Hilos \ {h} : pc'[g] = pc[g] /\ proceso'[g] = proceso[g]
      /\ restan'[p] = restan[p]
  BY <1>2 DEF Base, TypeOK
<1>4. CASE p = proceso[h]
  <2>1. Pidiendo(p) /\ ~Pidiendo(p)'
    BY <1>1, <1>2, <1>3, <1>4 DEF Pidiendo, Base, Duenios, Tiene, Poseedores
  <2>2. hechas[p] = <<>>
    BY <1>1, <2>1 DEF Unicos
  <2>3. restan[p] = 0
    <3>1. restan[p] < Lineas[p] /\ restan[p] \in Nat /\ Lineas[p] = 1
      BY <1>1, <1>4 DEF Base, Renglones, TypeOK
    <3> QED
      BY <3>1
  <2>4. exito
    BY <1>1, <2>2
  <2>5. hechas'[p] = Append(<<>>, LineaDe(p))
    BY <1>1, <1>4, <2>2, <2>4 DEF Base, TypeOK
  <2> QED
    BY <1>3, <2>1, <2>3, <2>5
<1>5. CASE p # proceso[h]
  <2>1. Pidiendo(p)' <=> Pidiendo(p)
    BY <1>1, <1>3, <1>5 DEF Pidiendo
  <2>2. hechas'[p] = hechas[p]
    BY <1>1, <1>5 DEF Base, TypeOK
  <2> QED
    BY <1>1, <1>3, <2>1, <2>2 DEF Unicos
<1> QED
  BY <1>4, <1>5

\* Every other step leaves the lines of all, and who asks for one, as they were.
LEMMA Inertes ==
  ASSUME Base, [Next]_vars
  PROVE  \/ \E h \in Hilos : Asigna(h)
         \/ \E h \in Hilos, pedido \in PedidosLeidos, exito \in BOOLEAN : request(h, pedido, exito)
         \/ /\ riesgo \subseteq riesgo' /\ UNCHANGED <<restan, hechas>>
            /\ \A h \in Hilos : /\ pc'[h] = "pide" <=> pc[h] = "pide"
                                /\ pc[h] = "pide" => proceso'[h] = proceso[h]
<1> DEFINE Igual == /\ riesgo \subseteq riesgo' /\ UNCHANGED <<restan, hechas>>
                    /\ \A h \in Hilos : /\ pc'[h] = "pide" <=> pc[h] = "pide"
                                        /\ pc[h] = "pide" => proceso'[h] = proceso[h]
<1>0. Hilos \subseteq Actores /\ Hilos \subseteq Encoladores /\ "consola" \notin Hilos
      /\ "planificador" \notin Hilos
  BY DEF Actores, Encoladores
<1>1. CASE UNCHANGED vars
  BY <1>1 DEF vars, locales, historia
<1>2. ASSUME NEW a \in Encoladores, Encola(a) PROVE Igual
  <2>1. /\ pc[a] \in {"encola", "enlaza", "suma", "guarda"}
        /\ \E s \in {"enlaza", "suma", "guarda", "libre", "baja"} : pc' = [pc EXCEPT ![a] = s]
        /\ proceso' \in {proceso, [proceso EXCEPT ![a] = Nadie]}
        /\ riesgo \subseteq riesgo' /\ UNCHANGED <<restan, hechas>>
    BY <1>2 DEF Encola, VeUltimo, Enlaza, LeeElementos, SumaElemento, En, Va, Solapa, historia
  <2> QED
    BY <1>0, <2>1 DEF Base, TypeOK
<1>3. ASSUME NEW p \in Procesos, Rechaza(p) \/ Ingresa(p) PROVE Igual
  BY <1>0, <1>3 DEF Rechaza, Ingresa, En, Va, locales, historia, Base, TypeOK
<1>4. CASE Consola
  BY <1>2, <1>3, <1>4 DEF Consola, Encoladores
<1>5. CASE planificador
  BY <1>0, <1>5 DEF planificador, VeElementos, VeHilos, LeeParaRestar, RestaElemento,
     crear_hilo, LeeParaSubir, SubeHilo, En, Va, Solapa, historia, Base, TypeOK
<1>6. ASSUME NEW h \in Hilos, VePrimero(h) \/ Desenlaza(h) \/ LeeHilos(h) \/ BajaHilo(h)
      PROVE  Igual
  <2>1. /\ pc[h] \in {"saca", "desenlaza", "baja", "guardaBaja"}
        /\ pc' = pc \/ \E s \in {"desenlaza", "asigna", "guardaBaja", "libre"} :
                         pc' = [pc EXCEPT ![h] = s]
        /\ \A g \in Hilos \ {h} : proceso'[g] = proceso[g]
        /\ riesgo \subseteq riesgo' /\ UNCHANGED <<restan, hechas>>
    BY <1>0, <1>6 DEF VePrimero, Desenlaza, LeeHilos, BajaHilo, En, Va, Solapa, historia, Base,
       TypeOK
  <2> QED
    BY <1>0, <2>1 DEF Base, TypeOK
<1> HIDE DEF Igual
<1>7. Igual \/ \E h \in Hilos : \/ Asigna(h)
                                \/ \E pedido \in PedidosLeidos, exito \in BOOLEAN :
                                     request(h, pedido, exito)
  BY <1>1, <1>2, <1>4, <1>5, <1>6 DEF Next, dispatcher, Encoladores, Igual
<1> QED
  BY <1>7 DEF Igual

LEMMA UnicosPaso == Base /\ Unicos /\ [Next]_vars => Unicos'
  BY Inertes, UnicosAjeno, UnicosAsigna, UnicosRequest

\* Who runs, and how far in its turn: at most one thread runs a process.
LEMMA Corren ==
  ASSUME Base
  PROVE  /\ \A h \in Hilos : Corre(h) <=> Tiene(h)
         /\ \A h \in Hilos : Corre(h) =>
              /\ proceso[h] \in Procesos /\ proceso[h] \in EnEjecucion
              /\ TurnoDe(proceso[h]) = Turno(h)
         /\ \A p : p \notin EnEjecucion => TurnoDe(p) = 0
<1>1. \A h \in Hilos : Corre(h) <=> Tiene(h)
  BY DEF Corre, Tiene, Poseedores
<1>2. ASSUME NEW h \in Hilos, Corre(h)
      PROVE  /\ proceso[h] \in Procesos /\ proceso[h] \in EnEjecucion
             /\ TurnoDe(proceso[h]) = Turno(h)
  <2>1. proceso[h] \in Procesos
    BY <1>1, <1>2 DEF Base, TypeOK, Duenios, Encoladores
  <2>2. proceso[h] \in EnEjecucion
    BY <1>2 DEF EnEjecucion
  <2>3. \A g \in Hilos : Corre(g) /\ proceso[g] = proceso[h] => g = h
    BY <1>1, <1>2 DEF Base, Duenios, Encoladores
  <2>4. (CHOOSE g \in Hilos : Corre(g) /\ proceso[g] = proceso[h]) = h
    BY <1>2, <2>3
  <2> QED
    BY <2>1, <2>2, <2>4 DEF TurnoDe
<1> QED
  BY <1>1, <1>2 DEF TurnoDe

LEMMA Correran ==
  ASSUME Base'
  PROVE  /\ \A h \in Hilos : Corre(h)' =>
              /\ proceso'[h] \in Procesos /\ proceso'[h] \in EnEjecucion'
              /\ \A p : p = proceso'[h] => TurnoDe(p)' = Turno(h)'
         /\ \A p : p \notin EnEjecucion' => TurnoDe(p)' = 0
<1>2. ASSUME NEW h \in Hilos, Corre(h)', NEW p, p = proceso'[h]
      PROVE  /\ p \in Procesos /\ p \in EnEjecucion'
             /\ TurnoDe(p)' = Turno(h)'
  <2>0. \A g \in Hilos : Corre(g)' => Tiene(g)'
    BY DEF Corre, Tiene, Poseedores
  <2>1. p \in Procesos
    BY <1>2, <2>0 DEF Base, TypeOK, Duenios, Encoladores
  <2>2. p \in EnEjecucion'
    BY <1>2 DEF EnEjecucion
  <2>3. \A g \in Hilos : Corre(g)' /\ proceso'[g] = p => g = h
    BY <1>2, <2>0 DEF Base, Duenios, Encoladores
  <2>4. (CHOOSE g \in Hilos : Corre(g)' /\ proceso'[g] = p) = h
    BY <1>2, <2>3
  <2> QED
    BY <2>1, <2>2, <2>4 DEF TurnoDe
<1> QED
  BY <1>2 DEF TurnoDe

LEMMA EnEjecucionEs ==
  /\ \A p : p \in EnEjecucion <=> \E h \in Hilos : Corre(h) /\ proceso[h] = p
  /\ \A p : p \in EnEjecucion' <=> \E h \in Hilos : Corre(h)' /\ proceso'[h] = p
  BY DEF EnEjecucion

\* A process that the same thread runs, as far in its turn, or that nobody runs.
LEMMA TurnoIgual ==
  ASSUME Base, Base', NEW p \in Procesos,
         \A g \in Hilos : (Corre(g) /\ proceso[g] = p) <=> (Corre(g)' /\ proceso'[g] = p),
         \A g \in Hilos : Corre(g) /\ proceso[g] = p => Turno(g)' = Turno(g)
  PROVE  /\ p \in EnEjecucion' <=> p \in EnEjecucion
         /\ TurnoDe(p)' = TurnoDe(p)
<1>1. p \in EnEjecucion' <=> p \in EnEjecucion
  BY EnEjecucionEs
<1>2. CASE p \in EnEjecucion
  <2>1. PICK g \in Hilos : Corre(g) /\ proceso[g] = p
    BY <1>2, EnEjecucionEs
  <2>2. TurnoDe(p) = Turno(g)
    BY <2>1, Corren
  <2>3. Corre(g)' /\ proceso'[g] = p /\ Turno(g)' = Turno(g)
    BY <2>1
  <2>4. TurnoDe(p)' = Turno(g)'
    BY <2>3, Correran
  <2> QED
    BY <1>1, <2>2, <2>3, <2>4
<1>3. CASE p \notin EnEjecucion
  BY <1>1, <1>3, Corren, Correran
<1> QED
  BY <1>2, <1>3

\* The threads other than h stay as they were.
LEMMA TurnosAjenos ==
  ASSUME Base, Base', NEW h \in Hilos,
         \A g \in Hilos \ {h} : Corre(g) => proceso'[g] = proceso[g] /\ Turno(g)' = Turno(g),
         \A g \in Hilos \ {h} : Corre(g)' <=> Corre(g),
         NEW p \in Procesos,
         ~(Corre(h) /\ proceso[h] = p), ~(Corre(h)' /\ proceso'[h] = p)
  PROVE  /\ p \in EnEjecucion' <=> p \in EnEjecucion
         /\ TurnoDe(p)' = TurnoDe(p)
<1>1. \A g \in Hilos : (Corre(g) /\ proceso[g] = p) <=> (Corre(g)' /\ proceso'[g] = p)
  OBVIOUS
<1>2. \A g \in Hilos : Corre(g) /\ proceso[g] = p => Turno(g)' = Turno(g)
  OBVIOUS
<1> QED
  BY <1>1, <1>2, TurnoIgual

LEMMA EjecutanProcesos == Base => EnEjecucion \subseteq Procesos
  BY Corren, EnEjecucionEs

LEMMA EjecutaranProcesos == Base' => EnEjecucion' \subseteq Procesos
  BY Correran, EnEjecucionEs

\* A step that changes nothing a Ronda would see.
LEMMA RondaQuieta ==
  ASSUME Base, Base', UNCHANGED <<cola_ready, hechas>>, PorLlegar' = PorLlegar,
         \A g \in Hilos : Corre(g)' <=> Corre(g),
         \A g \in Hilos : Corre(g) => proceso'[g] = proceso[g] /\ Turno(g)' = Turno(g)
  PROVE  UNCHANGED R!vars
<1>1. ASSUME NEW p \in Procesos
      PROVE  (p \in EnEjecucion' <=> p \in EnEjecucion) /\ TurnoDe(p)' = TurnoDe(p)
  BY TurnoIgual
<1>2. EnEjecucion' = EnEjecucion
  BY <1>1, EjecutanProcesos, EjecutaranProcesos
<1>3. [p \in Procesos |-> TurnoDe(p)]' = [p \in Procesos |-> TurnoDe(p)]
  BY <1>1
<1> QED
  BY <1>2, <1>3 DEF R!vars

\* The console has no turn and runs nothing.
LEMMA NadaCambia ==
  ASSUME UNCHANGED <<pc, proceso, vuelta>>
  PROVE  \A g \in Hilos : /\ Corre(g)' <=> Corre(g)
                          /\ proceso'[g] = proceso[g] /\ Turno(g)' = Turno(g)
  BY DEF Corre, Turno

LEMMA RondaRechaza ==
  ASSUME Base, Base', NEW p \in Procesos, Rechaza(p)
  PROVE  R!Rechazar(p)
<1>1. /\ p \in porIngresar /\ porIngresar' = porIngresar \ {p}
      /\ pc["consola"] = "libre"
      /\ UNCHANGED <<cola_ready, hechas, pc, proceso, vuelta>>
  BY DEF Rechaza, En, locales, historia
<1>2. PorLlegar = porIngresar /\ PorLlegar' = porIngresar'
  BY <1>1 DEF PorLlegar
<1>3. ASSUME NEW q \in Procesos
      PROVE  (q \in EnEjecucion' <=> q \in EnEjecucion) /\ TurnoDe(q)' = TurnoDe(q)
  BY <1>1, NadaCambia, TurnoIgual
<1>4. EnEjecucion' = EnEjecucion
  BY <1>3, EjecutanProcesos, EjecutaranProcesos
<1>5. [q \in Procesos |-> TurnoDe(q)]' = [q \in Procesos |-> TurnoDe(q)]
  BY <1>3
<1> QED
  BY <1>1, <1>2, <1>4, <1>5 DEF R!Rechazar

\* A thread moves where it owns nothing.
LEMMA RondaAjena ==
  ASSUME Base, Base', UNCHANGED <<porIngresar, cola_ready, vuelta, hechas>>, NEW a \in Actores,
         NEW s, pc' = [pc EXCEPT ![a] = s],
         pc[a] \notin Poseedores, s \notin Poseedores,
         \A b \in Encoladores \ {a} : proceso'[b] = proceso[b]
  PROVE  UNCHANGED R!vars
<1>1. \A b \in Actores \ {a} : pc'[b] = pc[b]
  BY DEF Base, TypeOK
<1>2. pc'[a] = s
  BY DEF Base, TypeOK
<1>3. Hilos \subseteq Actores /\ Hilos \subseteq Encoladores /\ "consola" \in Actores
      /\ "consola" \in Encoladores
  BY DEF Actores, Encoladores
<1>4. PorLlegar' = PorLlegar
  BY <1>1, <1>2, <1>3 DEF PorLlegar, Poseedores
<1>5. \A g \in Hilos : Corre(g)' <=> Corre(g)
  BY <1>1, <1>2, <1>3 DEF Corre, Poseedores
<1>6. \A g \in Hilos : Corre(g) => g # a
  BY DEF Corre, Poseedores
<1>7. \A g \in Hilos : Corre(g) => proceso'[g] = proceso[g] /\ Turno(g)' = Turno(g)
  BY <1>1, <1>3, <1>6 DEF Turno
<1> QED
  BY <1>4, <1>5, <1>7, RondaQuieta

LEMMA RondaIngresa ==
  ASSUME Base, Base', NEW p \in Procesos, Ingresa(p)
  PROVE  UNCHANGED R!vars
<1>0. Hilos \subseteq Actores /\ Hilos \subseteq Encoladores /\ "consola" \in Actores
      /\ "consola" \in Encoladores /\ "consola" \notin Hilos
  BY DEF Actores, Encoladores
<1>1. /\ pc["consola"] = "libre" /\ p \in porIngresar /\ porIngresar' = porIngresar \ {p}
      /\ pc' = [pc EXCEPT !["consola"] = "encola"]
      /\ proceso' = [proceso EXCEPT !["consola"] = p]
      /\ UNCHANGED <<cola_ready, hechas, vuelta>>
  BY DEF Ingresa, En, Va
<1>2. pc'["consola"] = "encola" /\ proceso'["consola"] = p
  BY <1>0, <1>1 DEF Base, TypeOK
<1>3. \A g \in Hilos : pc'[g] = pc[g] /\ proceso'[g] = proceso[g]
  BY <1>0, <1>1 DEF Base, TypeOK
<1>4. PorLlegar' = PorLlegar
  BY <1>1, <1>2 DEF PorLlegar
<1>5. \A g \in Hilos : /\ Corre(g)' <=> Corre(g)
                       /\ proceso'[g] = proceso[g] /\ Turno(g)' = Turno(g)
  BY <1>1, <1>3 DEF Corre, Turno
<1> QED
  BY <1>1, <1>4, <1>5, RondaQuieta

\* The console or a dispatcher looks for the last node: it still holds its process.
LEMMA RondaVeUltimo ==
  ASSUME Base, Base', NEW a \in Encoladores, VeUltimo(a)
  PROVE  UNCHANGED R!vars
<1>0. Hilos \subseteq Actores /\ Encoladores \subseteq Actores /\ "consola" \in Actores
  BY DEF Actores, Encoladores
<1>1. /\ pc[a] = "encola" /\ pc' = [pc EXCEPT ![a] = "enlaza"]
      /\ UNCHANGED <<porIngresar, cola_ready, proceso, vuelta, hechas>>
  BY DEF VeUltimo, En, Va, historia
<1>2. pc'[a] = "enlaza" /\ \A b \in Actores \ {a} : pc'[b] = pc[b]
  BY <1>0, <1>1 DEF Base, TypeOK
<1>3. PorLlegar' = PorLlegar
  BY <1>0, <1>1, <1>2 DEF PorLlegar
<1>4. \A g \in Hilos : (Corre(g)' <=> Corre(g)) /\ Turno(g)' = Turno(g)
  BY <1>0, <1>1, <1>2 DEF Corre, Turno
<1> QED
  BY <1>1, <1>3, <1>4, RondaQuieta

LEMMA RondaLeeElementos ==
  ASSUME Base, Base', NEW a \in Encoladores, LeeElementos(a)
  PROVE  UNCHANGED R!vars
<1>1. /\ pc[a] = "suma" /\ pc' = [pc EXCEPT ![a] = "guarda"]
      /\ UNCHANGED <<porIngresar, cola_ready, proceso, vuelta, hechas>>
  BY DEF LeeElementos, En, Va, historia
<1>2. /\ a \in Actores /\ pc[a] \notin Poseedores /\ "guarda" \notin Poseedores
      /\ \A b \in Encoladores \ {a} : proceso'[b] = proceso[b]
  BY <1>1 DEF Poseedores, Actores
<1> QED
  BY <1>1, <1>2, RondaAjena

LEMMA RondaSumaElemento ==
  ASSUME Base, Base', NEW a \in Encoladores, SumaElemento(a)
  PROVE  UNCHANGED R!vars
<1>1. PICK s \in {"libre", "baja"} : pc' = [pc EXCEPT ![a] = s]
  BY DEF SumaElemento, Va
<1>2. /\ pc[a] = "guarda" /\ proceso' = [proceso EXCEPT ![a] = Nadie]
      /\ UNCHANGED <<porIngresar, cola_ready, vuelta, hechas>>
  BY DEF SumaElemento, En, historia
<1>3. \A b \in Encoladores \ {a} : proceso'[b] = proceso[b]
  BY <1>2 DEF Base, TypeOK
<1>4. a \in Actores /\ pc[a] \notin Poseedores /\ s \notin Poseedores
  BY <1>1, <1>2 DEF Poseedores, Actores
<1> QED
  BY <1>1, <1>2, <1>3, <1>4, RondaAjena

\* The process that is linked was nowhere else, and nobody will run it.
LEMMA EnlazaAppend ==
  ASSUME Base, NEW a \in Encoladores, Enlaza(a), riesgo' \cap {"cola"} = {}
  PROVE  /\ pc[a] = "enlaza" /\ proceso[a] \in Procesos
         /\ cola_ready' = Append(cola_ready, proceso[a])
         /\ pc' = [pc EXCEPT ![a] = "suma"] /\ pc'[a] = "suma"
         /\ \A b \in Actores \ {a} : pc'[b] = pc[b]
         /\ UNCHANGED <<porIngresar, restan, proceso, vuelta, hechas>>
<1>1. /\ pc[a] = "enlaza" /\ visto[a] = UltimoDe(cola_ready)
      /\ cola_ready' = Enlazada(cola_ready, visto[a], proceso[a])
      /\ pc' = [pc EXCEPT ![a] = "suma"]
      /\ UNCHANGED <<porIngresar, restan, proceso, vuelta, hechas>>
  BY DEF Enlaza, En, Va, Solapa, historia
<1>2. proceso[a] \in Procesos
  BY <1>1 DEF Base, TypeOK, Duenios, Tiene, Poseedores
<1>3. cola_ready \in Seq(Procesos)
      /\ \A i, j \in 1..Len(cola_ready) : cola_ready[i] = cola_ready[j] => i = j
  BY DEF Base, TypeOK, Duenios
<1>4. cola_ready' = Append(cola_ready, proceso[a])
  BY <1>1, <1>2, <1>3, EnlazadaEsAgregar
<1>5. pc'[a] = "suma" /\ \A b \in Actores \ {a} : pc'[b] = pc[b]
  BY <1>1 DEF Base, TypeOK, Actores
<1> QED
  BY <1>1, <1>2, <1>4, <1>5

LEMMA RondaLlega ==
  ASSUME Base, Base', Enlaza("consola"), riesgo' \cap {"cola"} = {}
  PROVE  R!Llegar(proceso["consola"])
<1>0. "consola" \in Encoladores /\ "consola" \notin Hilos /\ Hilos \subseteq Actores
  BY DEF Actores, Encoladores
<1>1. /\ pc["consola"] = "enlaza" /\ proceso["consola"] \in Procesos
      /\ cola_ready' = Append(cola_ready, proceso["consola"])
      /\ pc'["consola"] = "suma" /\ \A b \in Hilos : pc'[b] = pc[b]
      /\ UNCHANGED <<porIngresar, proceso, vuelta, hechas>>
  BY <1>0, EnlazaAppend
<1>2. proceso["consola"] \notin porIngresar
  BY <1>0, <1>1 DEF Base, Duenios, Tiene, Poseedores
<1>3. /\ proceso["consola"] \in PorLlegar
      /\ PorLlegar' = PorLlegar \ {proceso["consola"]}
  BY <1>1, <1>2 DEF PorLlegar
<1>4. ASSUME NEW q \in Procesos
      PROVE  (q \in EnEjecucion' <=> q \in EnEjecucion) /\ TurnoDe(q)' = TurnoDe(q)
  <2>1. \A g \in Hilos : /\ Corre(g)' <=> Corre(g)
                         /\ proceso'[g] = proceso[g] /\ Turno(g)' = Turno(g)
    BY <1>1 DEF Corre, Turno
  <2> QED
    BY <2>1, TurnoIgual
<1>5. EnEjecucion' = EnEjecucion
  BY <1>4, EjecutanProcesos, EjecutaranProcesos
<1>6. [q \in Procesos |-> TurnoDe(q)]' = [q \in Procesos |-> TurnoDe(q)]
  BY <1>4
<1> QED
  BY <1>1, <1>3, <1>5, <1>6 DEF R!Llegar

\* Only h stops running, and only its process.
LEMMA Suelta ==
  ASSUME Base, Base', NEW h \in Hilos, NEW p \in Procesos,
         Corre(h), proceso[h] = p, ~Corre(h)',
         \A g \in Hilos \ {h} : pc'[g] = pc[g] /\ proceso'[g] = proceso[g] /\ vuelta'[g] = vuelta[g]
  PROVE  /\ p \in EnEjecucion /\ TurnoDe(p) = Turno(h)
         /\ EnEjecucion' = EnEjecucion \ {p}
         /\ [q \in Procesos |-> TurnoDe(q)]' = [[q \in Procesos |-> TurnoDe(q)] EXCEPT ![p] = 0]
<1>1. p \in EnEjecucion /\ TurnoDe(p) = Turno(h)
  BY Corren
<1>2. \A g \in Hilos \ {h} : Corre(g)' <=> Corre(g)
  BY DEF Corre
<1>3. \A g \in Hilos \ {h} : Turno(g)' = Turno(g)
  BY DEF Turno
<1>4. \A g \in Hilos \ {h} : Corre(g) => proceso[g] # p
  BY Corren DEF Base, Duenios, Encoladores
<1>5. p \notin EnEjecucion'
  BY <1>2, <1>4, EnEjecucionEs
<1>6. TurnoDe(p)' = 0
  BY <1>5, Correran
<1>7. ASSUME NEW q \in Procesos, q # p
      PROVE  (q \in EnEjecucion' <=> q \in EnEjecucion) /\ TurnoDe(q)' = TurnoDe(q)
  BY <1>2, <1>3, <1>7, TurnosAjenos
<1>8. EnEjecucion' = EnEjecucion \ {p}
  BY <1>5, <1>7, EjecutanProcesos, EjecutaranProcesos
<1>9. [q \in Procesos |-> TurnoDe(q)]' = [[q \in Procesos |-> TurnoDe(q)] EXCEPT ![p] = 0]
  BY <1>6, <1>7
<1> QED
  BY <1>1, <1>8, <1>9

LEMMA LineasQueFaltan ==
  ASSUME Base, Orden, Unicos, riesgo \cap {"cola", "parametro"} = {}, NEW p \in Procesos,
         restan[p] > 0, ~Pidiendo(p)
  PROVE  Len(hechas[p]) < Lineas[p]
<1>1. restan[p] \in Nat /\ Lineas[p] \in Nat \ {0} /\ hechas[p] \in Seq(Nat)
  BY DEF Base, TypeOK
<1>2. CASE p \in Scripts
  <2>1. p \notin abortados
    BY <1>1, <1>2 DEF Orden
  <2>2. Len(hechas[p]) = Lineas[p] - restan[p]
    BY <1>2, <2>1 DEF Orden, LineaDe
  <2> QED
    BY <1>1, <2>2
<1>3. CASE p \notin Scripts
  <2>1. hechas[p] = <<>>
    BY <1>1, <1>3 DEF Unicos
  <2>2. Len(hechas[p]) = 0
    BY <2>1
  <2> QED
    BY <1>1, <2>2
<1> QED
  BY <1>2, <1>3

LEMMA RondaVuelve ==
  ASSUME Base, Base', Orden, Unicos, NEW h \in Hilos, Enlaza(h),
         riesgo \cap {"cola", "parametro"} = {}, riesgo' \cap {"cola"} = {}
  PROVE  R!Volver(proceso[h])
<1>0. h \in Encoladores /\ h # "consola" /\ Hilos \subseteq Actores /\ "consola" \in Actores
  BY DEF Actores, Encoladores
<1>1. /\ pc[h] = "enlaza" /\ proceso[h] \in Procesos
      /\ cola_ready' = Append(cola_ready, proceso[h])
      /\ pc'[h] = "suma" /\ \A b \in Actores \ {h} : pc'[b] = pc[b]
      /\ UNCHANGED <<porIngresar, proceso, vuelta, hechas>>
  BY <1>0, EnlazaAppend
<1>2. PorLlegar' = PorLlegar
  BY <1>0, <1>1 DEF PorLlegar
<1>3. restan[proceso[h]] > 0
  BY <1>0, <1>1 DEF Base, Renglones
<1>4. ~Pidiendo(proceso[h])
  BY <1>0, <1>1 DEF Pidiendo, Base, Duenios, Tiene, Poseedores, Encoladores
<1>5. Len(hechas[proceso[h]]) < Lineas[proceso[h]]
  BY <1>1, <1>3, <1>4, LineasQueFaltan
<1>6. Corre(h) /\ ~Corre(h)' /\ Turno(h) = QUANTUM
  BY <1>1 DEF Corre, Turno
<1>7. PICK p \in Procesos : p = proceso[h]
  BY <1>1
<1>8. \A g \in Hilos \ {h} : pc'[g] = pc[g] /\ proceso'[g] = proceso[g] /\ vuelta'[g] = vuelta[g]
  BY <1>0, <1>1
<1>9. /\ p \in EnEjecucion /\ TurnoDe(p) = QUANTUM
      /\ EnEjecucion' = EnEjecucion \ {p}
      /\ [q \in Procesos |-> TurnoDe(q)]' = [[q \in Procesos |-> TurnoDe(q)] EXCEPT ![p] = 0]
  BY <1>6, <1>7, <1>8, Suelta
<1>10. [q \in Procesos |-> TurnoDe(q)][p] = QUANTUM
  BY <1>9
<1>11. R!Volver(p)
  BY <1>1, <1>2, <1>5, <1>7, <1>9, <1>10 DEF R!Volver
<1> QED
  BY <1>7, <1>11

\* The scheduler creates a dispatcher, which has nothing yet.
LEMMA RondaPlanificador ==
  ASSUME Base, Base', planificador
  PROVE  UNCHANGED R!vars
<1>0. /\ Hilos \subseteq Actores /\ "consola" \in Actores /\ "planificador" \in Actores
      /\ "planificador" \notin Hilos /\ "consola" \notin Hilos
  BY DEF Actores, Encoladores
<1>1. UNCHANGED <<porIngresar, cola_ready, proceso, vuelta, hechas>>
  BY DEF planificador, VeElementos, VeHilos, LeeParaRestar, RestaElemento, crear_hilo,
     LeeParaSubir, SubeHilo, historia
<1>2. /\ pc'["consola"] = pc["consola"]
      /\ \A g \in Hilos : \/ pc'[g] = pc[g]
                          \/ pc[g] = "libre" /\ pc'[g] = "saca"
  BY <1>0, SMTT(30) DEF planificador, VeElementos, VeHilos, LeeParaRestar, RestaElemento, crear_hilo,
     LeeParaSubir, SubeHilo, En, Va, Base, TypeOK
<1>3. PorLlegar' = PorLlegar
  BY <1>1, <1>2 DEF PorLlegar
<1>4. \A g \in Hilos : Corre(g)' <=> Corre(g)
  BY <1>2 DEF Corre
<1>5. \A g \in Hilos : Corre(g) => Turno(g)' = Turno(g)
  BY <1>1, <1>2 DEF Corre, Turno
<1> QED
  BY <1>1, <1>3, <1>4, <1>5, RondaQuieta

LEMMA RondaVePrimero ==
  ASSUME Base, Base', NEW h \in Hilos, VePrimero(h)
  PROVE  UNCHANGED R!vars
<1>0. h \in Actores /\ h \in Encoladores /\ Hilos \subseteq Actores /\ "consola" \notin Hilos
  BY DEF Actores, Encoladores
<1>1. /\ pc[h] = "saca" /\ UNCHANGED <<porIngresar, cola_ready, vuelta, hechas>>
  BY DEF VePrimero, En, historia
<1>2. CASE pc' = pc /\ proceso' = proceso
  <2>1. PorLlegar' = PorLlegar
    BY <1>1, <1>2 DEF PorLlegar
  <2> QED
    BY <1>1, <1>2, <2>1, NadaCambia, RondaQuieta
<1>3. CASE pc' = [pc EXCEPT ![h] = "desenlaza"]
  <2>1. \A b \in Encoladores \ {h} : proceso'[b] = proceso[b]
    BY DEF VePrimero, Base, TypeOK
  <2>2. pc[h] \notin Poseedores /\ "desenlaza" \notin Poseedores
    BY <1>1 DEF Poseedores
  <2> QED
    BY <1>0, <1>1, <1>3, <2>1, <2>2, RondaAjena
<1> QED
  BY <1>2, <1>3 DEF VePrimero, Va

LEMMA RondaBaja ==
  ASSUME Base, Base', NEW h \in Hilos, LeeHilos(h) \/ BajaHilo(h)
  PROVE  UNCHANGED R!vars
<1>1. PICK s \in {"libre", "guardaBaja"} : pc' = [pc EXCEPT ![h] = s]
  BY DEF LeeHilos, BajaHilo, Va
<1>2. /\ pc[h] \in {"baja", "guardaBaja"} /\ h \in Actores
      /\ UNCHANGED <<porIngresar, cola_ready, proceso, vuelta, hechas>>
  BY DEF LeeHilos, BajaHilo, En, historia, Actores, Encoladores
<1>3. /\ pc[h] \notin Poseedores /\ s \notin Poseedores
      /\ \A b \in Encoladores \ {h} : proceso'[b] = proceso[b]
  BY <1>1, <1>2 DEF Poseedores
<1> QED
  BY <1>1, <1>2, <1>3, RondaAjena

\* Taking a line is not yet running it.
LEMMA RondaAsigna ==
  ASSUME Base, Base', NEW h \in Hilos, Asigna(h)
  PROVE  UNCHANGED R!vars
<1>0. h \in Actores /\ Hilos \subseteq Actores /\ "consola" \in Actores /\ "consola" # h
  BY DEF Actores, Encoladores
<1>1. /\ pc[h] = "asigna" /\ pc' = [pc EXCEPT ![h] = "pide"]
      /\ vuelta' = [vuelta EXCEPT ![h] = @ + 1]
      /\ UNCHANGED <<porIngresar, cola_ready, proceso, hechas>>
  BY DEF Asigna, En, Va, historia
<1>2. /\ pc'[h] = "pide" /\ \A b \in Actores \ {h} : pc'[b] = pc[b]
      /\ vuelta'[h] = vuelta[h] + 1 /\ \A g \in Hilos \ {h} : vuelta'[g] = vuelta[g]
      /\ vuelta[h] \in Int
  BY <1>0, <1>1 DEF Base, TypeOK
<1>3. PorLlegar' = PorLlegar
  BY <1>0, <1>1, <1>2 DEF PorLlegar
<1>4. \A g \in Hilos : Corre(g)' <=> Corre(g)
  BY <1>0, <1>1, <1>2 DEF Corre
<1>5. Turno(h)' = Turno(h)
  <2>1. Turno(h) = vuelta[h] /\ Turno(h)' = vuelta'[h] - 1
    BY <1>1, <1>2 DEF Turno
  <2> QED
    BY <1>2, <2>1
<1>6. \A g \in Hilos \ {h} : Turno(g)' = Turno(g)
  BY <1>0, <1>2 DEF Turno
<1> QED
  BY <1>1, <1>3, <1>4, <1>5, <1>6, RondaQuieta

\* Who is about to take an element has one of the slots.
LEMMA HaySlot ==
  ASSUME Base, Cupo, "hilos" \notin riesgo, NEW h \in Hilos, pc[h] = "desenlaza"
  PROVE  Cardinality(EnEjecucion) < MULTIPROCESAMIENTO
<1> DEFINE S == {g \in Hilos : Corre(g)}
           f == [g \in S |-> proceso[g]]
<1>1. f \in Surjection(S, EnEjecucion)
  BY DEF EnEjecucion, Surjection
<1>2. IsFiniteSet(Ocupados) /\ h \in Ocupados
  BY OcupadosFinito DEF Ocupados
<1>3. S \subseteq Ocupados \ {h}
  BY DEF Ocupados, Corre
<1>4. /\ IsFiniteSet(Ocupados \ {h}) /\ Cardinality(Ocupados) \in Nat
      /\ Cardinality(Ocupados \ {h}) = Cardinality(Ocupados) - 1
  BY <1>2, FS_RemoveElement, FS_CardinalityType
<1> HIDE DEF S, f
<1>5. IsFiniteSet(S) /\ Cardinality(S) <= Cardinality(Ocupados \ {h})
  BY <1>3, <1>4, FS_Subset
<1>6. IsFiniteSet(EnEjecucion) /\ Cardinality(EnEjecucion) <= Cardinality(S)
  BY <1>1, <1>5, FS_Surjection
<1>7. Cardinality(EnEjecucion) \in Nat /\ Cardinality(S) \in Nat
  BY <1>5, <1>6, FS_CardinalityType
<1>8. Cardinality(Ocupados) = hilos_ejecutando + Subiendo
      /\ hilos_ejecutando + Subiendo <= MULTIPROCESAMIENTO
  <2>1. /\ Cardinality(Ocupados) = hilos_ejecutando + Subiendo
        /\ hilos_ejecutando <= MULTIPROCESAMIENTO
        /\ pc["planificador"] \in {"resta", "guardaResta", "crea", "sube", "guardaSube"}
             => hilos_ejecutando < MULTIPROCESAMIENTO
    BY DEF Cupo
  <2>2. hilos_ejecutando \in Int
    BY DEF Base, TypeOK
  <2> QED
    BY <2>1, <2>2 DEF Subiendo
<1>9. MULTIPROCESAMIENTO \in Int /\ Cardinality(Ocupados) <= MULTIPROCESAMIENTO
  BY <1>8
<1> QED
  BY <1>4, <1>5, <1>6, <1>7, <1>9

\* Ronda brings its own Cardinality, which is the same.
LEMMA MismoCardinal == ASSUME NEW S PROVE R!Cardinality(S) = Cardinality(S)
  BY DEF R!Cardinality, Cardinality

LEMMA RondaDespacha ==
  ASSUME Base, Base', Cupo, NEW h \in Hilos, Desenlaza(h),
         riesgo' \cap {"hilos", "cola"} = {}
  PROVE  R!Despachar
<1>0. /\ h \in Actores /\ h \in Encoladores /\ Hilos \subseteq Actores /\ Hilos \subseteq Encoladores
      /\ "consola" \in Actores /\ "consola" # h
  BY DEF Actores, Encoladores
<1>1. /\ pc[h] = "desenlaza" /\ EsPrimero(proceso[h])
      /\ visto[h] = SegundoDe(cola_ready)
      /\ cola_ready' = IF visto[h] = Nadie THEN <<>> ELSE Tail(cola_ready)
      /\ pc' = [pc EXCEPT ![h] = "asigna"]
      /\ UNCHANGED <<porIngresar, proceso, vuelta, hechas>>
      /\ "hilos" \notin riesgo
  BY DEF Desenlaza, En, Va, Solapa, historia
<1>2. /\ cola_ready \in Seq(Procesos) /\ cola_ready # <<>> /\ Head(cola_ready) = proceso[h]
      /\ Len(cola_ready) > 0 /\ cola_ready[1] = proceso[h] /\ 1 \in 1..Len(cola_ready)
  <2>1. cola_ready \in Seq(Procesos)
    BY DEF Base, TypeOK
  <2>2. cola_ready # <<>> /\ Head(cola_ready) = proceso[h]
    BY <1>1 DEF EsPrimero
  <2> QED
    BY <2>1, <2>2
<1>3. cola_ready' = Tail(cola_ready)
  BY <1>1, <1>2, SegundoEsCabeza
<1>4. PICK p \in Procesos : p = proceso[h]
  BY <1>2
<1>5. pc'[h] = "asigna" /\ \A b \in Actores \ {h} : pc'[b] = pc[b]
  BY <1>0, <1>1 DEF Base, TypeOK
<1>6. PorLlegar' = PorLlegar
  BY <1>0, <1>1, <1>5 DEF PorLlegar
<1>7. Cardinality(EnEjecucion) < MULTIPROCESAMIENTO
  BY <1>1, HaySlot
<1>8. ~Corre(h) /\ Corre(h)' /\ Turno(h)' = 0
  BY <1>1, <1>5 DEF Corre, Turno, Base, Renglones
<1>9. p \notin EnEjecucion
  <2>1. EnCola(p)
    BY <1>2, <1>4 DEF EnCola
  <2> QED
    BY <1>0, <2>1, Corren, EnEjecucionEs DEF Base, Duenios
<1>10. TurnoDe(p) = 0 /\ TurnoDe(p)' = 0 /\ p \in EnEjecucion'
  BY <1>1, <1>4, <1>8, <1>9, Corren, Correran
<1>11. \A g \in Hilos \ {h} : Corre(g)' <=> Corre(g)
  BY <1>0, <1>5 DEF Corre
<1>12. \A g \in Hilos \ {h} : Turno(g)' = Turno(g)
  BY <1>0, <1>1, <1>5 DEF Turno
<1>13. ASSUME NEW q \in Procesos, q # p
       PROVE  (q \in EnEjecucion' <=> q \in EnEjecucion) /\ TurnoDe(q)' = TurnoDe(q)
  BY <1>1, <1>4, <1>8, <1>11, <1>12, <1>13, TurnosAjenos
<1>14. EnEjecucion' = EnEjecucion \cup {p}
  BY <1>10, <1>13, EjecutanProcesos, EjecutaranProcesos
<1>15. [q \in Procesos |-> TurnoDe(q)]' = [q \in Procesos |-> TurnoDe(q)]
  <2>1. \A q \in Procesos : TurnoDe(q)' = TurnoDe(q)
    BY <1>10, <1>13
  <2> QED
    BY <2>1
<1>16. /\ cola_ready # <<>> /\ EnEjecucion' = EnEjecucion \cup {Head(cola_ready)}
       /\ UNCHANGED hechas
  BY <1>1, <1>2, <1>4, <1>14
<1>17. R!Cardinality(EnEjecucion) < MULTIPROCESAMIENTO
  BY <1>7, MismoCardinal
<1> QED
  BY <1>3, <1>6, <1>15, <1>16, <1>17 DEF R!Despachar

\* A request takes nothing from the queue, and its thread goes on, waits to come back or ends.
LEMMA TrasPedir ==
  ASSUME Base, NEW h \in Hilos, NEW pedido \in PedidosLeidos, NEW exito \in BOOLEAN,
         request(h, pedido, exito)
  PROVE  /\ pc[h] = "pide" /\ proceso[h] \in Procesos
         /\ vuelta[h] \in 0..QUANTUM /\ restan[proceso[h]] \in Nat
         /\ UNCHANGED cola_ready /\ PorLlegar' = PorLlegar
         /\ \A g \in Hilos \ {h} :
              pc'[g] = pc[g] /\ proceso'[g] = proceso[g] /\ vuelta'[g] = vuelta[g]
         /\ \/ /\ pc'[h] = "baja" /\ (exito => restan[proceso[h]] = 0)
            \/ /\ pc'[h] = "asigna" /\ proceso'[h] = proceso[h] /\ vuelta'[h] = vuelta[h]
               /\ vuelta[h] < QUANTUM /\ restan[proceso[h]] # 0 /\ exito
            \/ /\ pc'[h] = "encola" /\ proceso'[h] = proceso[h]
               /\ vuelta[h] = QUANTUM /\ restan[proceso[h]] # 0 /\ exito
<1>0. /\ h \in Actores /\ h \in Encoladores /\ h # "consola" /\ "consola" \in Actores
      /\ "consola" \in Encoladores /\ Hilos \subseteq Actores /\ Hilos \subseteq Encoladores
  BY DEF Actores, Encoladores
<1>1. pc[h] = "pide" /\ UNCHANGED <<porIngresar, cola_ready>>
  BY DEF request, En
<1>2. /\ proceso[h] \in Procesos /\ vuelta[h] \in 0..QUANTUM
      /\ restan[proceso[h]] \in Nat /\ restan[proceso[h]] < Lineas[proceso[h]]
  BY <1>0, <1>1 DEF Base, TypeOK, Duenios, Tiene, Poseedores, Renglones
<1>3. proceso[h] \notin Scripts => restan[proceso[h]] = 0
  <2>1. proceso[h] \notin Scripts => Lineas[proceso[h]] = 1
    BY <1>2
  <2> QED
    BY <1>2, <2>1
<1>4. /\ \E s \in {"baja", "asigna", "encola"} : pc' = [pc EXCEPT ![h] = s]
      /\ proceso' \in {proceso, [proceso EXCEPT ![h] = Nadie]}
      /\ \E n \in {vuelta[h], 0} : vuelta' = [vuelta EXCEPT ![h] = n]
  BY DEF request, Va, Sigue
<1>5. \A g \in Hilos \ {h} :
        pc'[g] = pc[g] /\ proceso'[g] = proceso[g] /\ vuelta'[g] = vuelta[g]
  BY <1>0, <1>4 DEF Base, TypeOK
<1>6. PorLlegar' = PorLlegar
  <2>1. pc'["consola"] = pc["consola"] /\ proceso'["consola"] = proceso["consola"]
    BY <1>0, <1>4 DEF Base, TypeOK
  <2> QED
    BY <1>1, <2>1 DEF PorLlegar
<1>7. CASE exito \/ proceso[h] \notin Scripts
  <2>1. /\ pc' = [pc EXCEPT ![h] = Sigue(h)]
        /\ proceso' = IF Sigue(h) = "baja" THEN [proceso EXCEPT ![h] = Nadie] ELSE proceso
        /\ vuelta' = [vuelta EXCEPT ![h] = IF Sigue(h) = "asigna" THEN @ ELSE 0]
    BY <1>7 DEF request, Va
  <2>2. pc'[h] = Sigue(h)
    BY <1>0, <2>1 DEF Base, TypeOK
  <2>3. CASE restan[proceso[h]] = 0
    BY <2>2, <2>3, <1>1, <1>2, <1>5, <1>6 DEF Sigue
  <2>4. CASE restan[proceso[h]] # 0 /\ vuelta[h] < QUANTUM
    <3>1. Sigue(h) = "asigna" /\ exito
      BY <1>3, <1>7, <2>4 DEF Sigue
    <3>2. vuelta'[h] = vuelta[h] /\ proceso'[h] = proceso[h]
      BY <2>1, <3>1 DEF Base, TypeOK
    <3> QED
      BY <2>2, <2>4, <3>1, <3>2, <1>1, <1>2, <1>5, <1>6
  <2>5. CASE restan[proceso[h]] # 0 /\ ~(vuelta[h] < QUANTUM)
    <3>1. Sigue(h) = "encola" /\ exito
      BY <1>3, <1>7, <2>5 DEF Sigue
    <3>2. proceso'[h] = proceso[h] /\ vuelta[h] = QUANTUM
      BY <2>1, <2>5, <3>1, <1>2
    <3> QED
      BY <2>2, <2>5, <3>1, <3>2, <1>1, <1>2, <1>5, <1>6
  <2> QED
    BY <2>3, <2>4, <2>5
<1>8. CASE ~(exito \/ proceso[h] \notin Scripts)
  <2>1. pc' = [pc EXCEPT ![h] = "baja"]
    BY <1>8 DEF request, Va
  <2>2. pc'[h] = "baja"
    BY <1>0, <2>1 DEF Base, TypeOK
  <2> QED
    BY <1>8, <2>2, <1>1, <1>2, <1>5, <1>6
<1> QED
  BY <1>7, <1>8

\* The line that is asked for is the next of its process.
LEMMA LineaSiguiente ==
  ASSUME Base, Orden, Unicos, riesgo \cap {"cola", "parametro"} = {},
         NEW h \in Hilos, pc[h] = "pide", NEW p \in Procesos, p = proceso[h]
  PROVE  /\ LineaDe(p) = Len(hechas[p]) + 1
         /\ hechas[p] \in Seq(Nat) /\ Len(hechas[p]) < Lineas[p]
         /\ Len(hechas[p]) + 1 = Lineas[p] <=> restan[p] = 0
<1>1. Pidiendo(p)
  BY DEF Pidiendo
<1>2. /\ restan[p] \in Nat /\ Lineas[p] \in Nat /\ hechas[p] \in Seq(Nat)
      /\ restan[p] < Lineas[p] /\ Len(hechas[p]) \in Nat
  BY DEF Base, TypeOK, Renglones
<1>3. LineaDe(p) = Len(hechas[p]) + 1
  <2>1. CASE p \in Scripts
    <3>1. Len(hechas[p]) = LineaDe(p) - 1
      BY <1>1, <2>1 DEF Orden
    <3> QED
      BY <1>2, <3>1 DEF LineaDe
  <2>2. CASE p \notin Scripts
    <3>1. hechas[p] = <<>>
      BY <1>1, <2>2 DEF Unicos
    <3>2. Len(hechas[p]) = 0 /\ Lineas[p] = 1
      BY <2>2, <3>1
    <3>3. restan[p] = 0
      BY <1>2, <3>2
    <3> QED
      BY <3>2, <3>3 DEF LineaDe
  <2> QED
    BY <2>1, <2>2
<1>4. Lineas[p] - restan[p] = Len(hechas[p]) + 1
  BY <1>3 DEF LineaDe
<1> QED
  BY <1>2, <1>3, <1>4

LEMMA RondaPide ==
  ASSUME Base, Base', Orden, Unicos, NEW h \in Hilos, NEW pedido \in PedidosLeidos,
         NEW exito \in BOOLEAN, request(h, pedido, exito),
         riesgo' \cap {"cola", "parametro"} = {}
  PROVE  \E p \in Procesos : R!Ejecutar(p) \/ R!Abortar(p)
<1>1. PICK p \in Procesos : p = proceso[h]
  BY TrasPedir
<1>2. /\ riesgo \cap {"cola", "parametro"} = {}
      /\ hechas' = IF exito THEN [hechas EXCEPT ![p] = Append(@, LineaDe(p))] ELSE hechas
  BY <1>1, PedidoPropio
<1>3. /\ pc[h] = "pide" /\ vuelta[h] \in 0..QUANTUM
      /\ UNCHANGED cola_ready /\ PorLlegar' = PorLlegar
      /\ \A g \in Hilos \ {h} :
           pc'[g] = pc[g] /\ proceso'[g] = proceso[g] /\ vuelta'[g] = vuelta[g]
  BY TrasPedir
<1>4. /\ LineaDe(p) = Len(hechas[p]) + 1
      /\ hechas[p] \in Seq(Nat) /\ Len(hechas[p]) < Lineas[p]
      /\ Len(hechas[p]) + 1 = Lineas[p] <=> restan[p] = 0
  BY <1>1, <1>2, <1>3, LineaSiguiente
<1>5. Corre(h) /\ Turno(h) = vuelta[h] - 1 /\ Turno(h) < QUANTUM
  <2>1. Corre(h) /\ Turno(h) = vuelta[h] - 1
    BY <1>3 DEF Corre, Turno
  <2> QED
    BY <1>3, <2>1
<1>6. p \in EnEjecucion /\ TurnoDe(p) = vuelta[h] - 1 /\ TurnoDe(p) < QUANTUM
  BY <1>1, <1>5, Corren
<1> DEFINE T == [q \in Procesos |-> TurnoDe(q)]
<1>7. T[p] = vuelta[h] - 1 /\ T[p] < QUANTUM
  BY <1>6
<1>8. CASE pc'[h] = "baja" /\ (exito => restan[p] = 0)
  <2>1. ~Corre(h)'
    BY <1>8 DEF Corre
  <2>2. EnEjecucion' = EnEjecucion \ {p} /\ T' = [T EXCEPT ![p] = 0]
    BY <1>1, <1>3, <1>5, <2>1, Suelta
  <2> HIDE DEF T
  <2>3. CASE exito
    <3>1. hechas' = [hechas EXCEPT ![p] = Append(@, Len(@) + 1)]
      BY <1>2, <1>4, <2>3
    <3>2. Len(hechas[p]) + 1 = Lineas[p]
      BY <1>4, <1>8, <2>3
    <3>3. R!Ejecutar(p)
      BY <1>3, <1>4, <1>6, <1>7, <2>2, <3>1, <3>2 DEF R!Ejecutar, T
    <3> QED
      BY <3>3
  <2>4. CASE ~exito
    <3>1. hechas' = hechas
      BY <1>2, <2>4
    <3>2. R!Abortar(p)
      BY <1>3, <1>6, <1>7, <2>2, <3>1 DEF R!Abortar, T
    <3> QED
      BY <3>2
  <2> QED
    BY <2>3, <2>4
<1>9. CASE /\ pc'[h] \in {"asigna", "encola"} /\ proceso'[h] = proceso[h]
           /\ pc'[h] = "asigna" => vuelta'[h] = vuelta[h]
           /\ pc'[h] = "encola" => vuelta[h] = QUANTUM
           /\ restan[p] # 0 /\ exito
  <2>1. Corre(h)'
    BY <1>9 DEF Corre
  <2>2. Turno(h)' = Turno(h) + 1
    <3>1. Turno(h)' = IF pc'[h] = "asigna" THEN vuelta'[h] ELSE QUANTUM
      BY <1>9 DEF Turno
    <3> QED
      BY <1>3, <1>5, <1>9, <3>1
  <2>3. TurnoDe(p)' = TurnoDe(p) + 1 /\ p \in EnEjecucion'
    <3>1. TurnoDe(p)' = Turno(h)' /\ p \in EnEjecucion'
      BY <1>1, <1>9, <2>1, Correran
    <3> QED
      BY <1>5, <1>6, <2>2, <3>1
  <2>4. \A g \in Hilos \ {h} : (Corre(g)' <=> Corre(g)) /\ Turno(g)' = Turno(g)
    BY <1>3 DEF Corre, Turno
  <2>5. ASSUME NEW q \in Procesos, q # p
        PROVE  (q \in EnEjecucion' <=> q \in EnEjecucion) /\ TurnoDe(q)' = TurnoDe(q)
    BY <1>1, <1>3, <1>9, <2>4, <2>5, TurnosAjenos
  <2>6. EnEjecucion' = EnEjecucion
    BY <1>6, <2>3, <2>5, EjecutanProcesos, EjecutaranProcesos
  <2>7. T' = [T EXCEPT ![p] = @ + 1]
    BY <2>3, <2>5
  <2>8. hechas' = [hechas EXCEPT ![p] = Append(@, Len(@) + 1)]
    BY <1>2, <1>4, <1>9
  <2>9. Len(hechas[p]) + 1 # Lineas[p]
    BY <1>4, <1>9
  <2> HIDE DEF T
  <2>10. R!Ejecutar(p)
    BY <1>3, <1>4, <1>6, <1>7, <2>6, <2>7, <2>8, <2>9 DEF R!Ejecutar, T
  <2> QED
    BY <2>10
<1> QED
  BY <1>1, <1>8, <1>9, TrasPedir

LEMMA RondaInicial == Init => R!Init
<1> SUFFICES ASSUME Init PROVE R!Init
  OBVIOUS
<1>1. \A h \in Hilos : ~Corre(h)
  BY DEF Init, Corre, Actores, Encoladores
<1>2. EnEjecucion = {}
  BY <1>1 DEF EnEjecucion
<1>3. PorLlegar = Procesos
  BY DEF Init, PorLlegar, Actores, Encoladores
<1>4. [p \in Procesos |-> TurnoDe(p)] = [p \in Procesos |-> 0]
  BY <1>2 DEF TurnoDe
<1> QED
  BY <1>2, <1>3, <1>4 DEF Init, R!Init

LEMMA RondaEncola ==
  ASSUME Base, Base', Orden, Unicos, NEW a \in Encoladores, Encola(a),
         riesgo \subseteq riesgo', riesgo' \cap {"hilos", "cola", "parametro"} = {}
  PROVE  R!Next \/ UNCHANGED R!vars
<1>1. ASSUME Enlaza(a)
      PROVE  \E p \in Procesos : R!Llegar(p) \/ R!Volver(p)
  <2>1. proceso[a] \in Procesos
    BY <1>1, EnlazaAppend
  <2>2. CASE a = "consola"
    BY <1>1, <2>1, <2>2, RondaLlega
  <2>3. CASE a \in Hilos
    BY <1>1, <2>1, <2>3, RondaVuelve
  <2> QED
    BY <2>2, <2>3 DEF Encoladores
<1>2. ASSUME VeUltimo(a) \/ LeeElementos(a) \/ SumaElemento(a)
      PROVE  UNCHANGED R!vars
  BY <1>2, RondaVeUltimo, RondaLeeElementos, RondaSumaElemento
<1> QED
  BY <1>1, <1>2 DEF Encola, R!Next

LEMMA RiesgoCrece == Next => riesgo \subseteq riesgo'
  BY DEF Next, Consola, Rechaza, Ingresa, Encola, VeUltimo, Enlaza, LeeElementos, SumaElemento,
     planificador, VeElementos, VeHilos, LeeParaRestar, RestaElemento, crear_hilo, LeeParaSubir,
     SubeHilo, dispatcher, VePrimero, Desenlaza, Asigna, request, LeeHilos, BajaHilo, Solapa

LEMMA RondaPaso ==
  ASSUME Base, Base', Cupo, Orden, Unicos, [Next]_vars
  PROVE  [riesgo' \cap {"hilos", "cola", "parametro"} = {} => R!Next]_R!vars
<1> SUFFICES ASSUME riesgo' \cap {"hilos", "cola", "parametro"} = {}
             PROVE  R!Next \/ UNCHANGED R!vars
  OBVIOUS
<1>1. CASE UNCHANGED vars
  <2>1. UNCHANGED <<porIngresar, cola_ready, pc, proceso, vuelta, hechas>>
    BY <1>1 DEF vars, locales, historia
  <2>2. PorLlegar' = PorLlegar
    BY <2>1 DEF PorLlegar
  <2> QED
    BY <2>1, <2>2, NadaCambia, RondaQuieta
<1>2. CASE Next
  <2>0. riesgo \subseteq riesgo'
    BY <1>2, RiesgoCrece
  <2>1. ASSUME NEW a \in Encoladores, Encola(a) PROVE R!Next \/ UNCHANGED R!vars
    BY <2>0, <2>1, RondaEncola
  <2>2. ASSUME NEW p \in Procesos, Rechaza(p) \/ Ingresa(p) PROVE R!Next \/ UNCHANGED R!vars
    BY <2>2, RondaRechaza, RondaIngresa DEF R!Next
  <2>3. ASSUME planificador PROVE UNCHANGED R!vars
    BY <2>3, RondaPlanificador
  <2>4. ASSUME NEW h \in Hilos, VePrimero(h) \/ Asigna(h) \/ LeeHilos(h) \/ BajaHilo(h)
        PROVE  UNCHANGED R!vars
    BY <2>4, RondaVePrimero, RondaAsigna, RondaBaja
  <2>5. ASSUME NEW h \in Hilos, Desenlaza(h) PROVE R!Next
    BY <2>5, RondaDespacha DEF R!Next
  <2>6. ASSUME NEW h \in Hilos, NEW pedido \in PedidosLeidos, NEW exito \in BOOLEAN,
               request(h, pedido, exito)
        PROVE  R!Next
    BY <2>6, RondaPide DEF R!Next
  <2> QED
    BY <1>2, <2>1, <2>2, <2>3, <2>4, <2>5, <2>6 DEF Next, Consola, dispatcher, Encoladores
<1> QED
  BY <1>1, <1>2

\* The scheduler implements a round robin: until an update of the queue or of the slots is
\* lost, or the shared structure is trampled on, every step of the console, the scheduler
\* and the dispatchers is one of those of Ronda, or none.
THEOREM LaColaEsUnaRonda == Spec => ImplementaRonda
<1>1. Init => Base /\ Cupo /\ Orden /\ Unicos
  BY BaseInicial, CupoInicial, OrdenInicial DEF Init, Unicos
<1>2. Base /\ Cupo /\ Orden /\ Unicos /\ [Next]_vars => (Base /\ Cupo /\ Orden /\ Unicos)'
  BY BasePaso, CupoPaso, OrdenPaso, UnicosPaso
<1>3. Base /\ Base' /\ Cupo /\ Orden /\ Unicos /\ [Next]_vars
        => [riesgo' \cap {"hilos", "cola", "parametro"} = {} => R!Next]_R!vars
  BY RondaPaso
<1> QED
  BY <1>1, <1>2, <1>3, RondaInicial, PTL DEF Spec, ImplementaRonda

-----------------------------------------------------------------------------
(* Nobody is lost.                                                         *)

\* Where p still is, or that nothing is left of it.
Guardado(p) ==
  EnCola(p) \/ (\E a \in Encoladores : Tiene(a) /\ proceso[a] = p) \/ restan[p] = 0
SinPerdidos == "cola" \notin riesgo => \A p \in aceptados : Guardado(p)

\* The list and who holds p stay as they were.
LEMMA GuardadoIgual ==
  ASSUME UNCHANGED <<cola_ready, restan>>, NEW p, Guardado(p),
         \A b \in Encoladores : Tiene(b) /\ proceso[b] = p => Tiene(b)' /\ proceso'[b] = p
  PROVE  Guardado(p)'
  BY DEF Guardado, EnCola

LEMMA GuardadoEnlaza ==
  ASSUME Base, NEW a \in Encoladores, Enlaza(a), riesgo' \cap {"cola"} = {}, NEW p, Guardado(p)
  PROVE  Guardado(p)'
<1>1. /\ pc[a] = "enlaza" /\ proceso[a] \in Procesos
      /\ cola_ready' = Append(cola_ready, proceso[a])
      /\ \A b \in Actores \ {a} : pc'[b] = pc[b]
      /\ UNCHANGED <<restan, proceso>>
  BY EnlazaAppend
<1>2. cola_ready \in Seq(Procesos)
  BY DEF Base, TypeOK
<1>3. CASE EnCola(p)
  <2>1. PICK i \in 1..Len(cola_ready) : cola_ready[i] = p
    BY <1>3 DEF EnCola
  <2>2. i \in 1..Len(cola_ready') /\ cola_ready'[i] = p
    BY <1>1, <1>2, <2>1
  <2> QED
    BY <2>2 DEF Guardado, EnCola
<1>4. CASE p = proceso[a]
  <2>1. Len(cola_ready') \in 1..Len(cola_ready') /\ cola_ready'[Len(cola_ready')] = p
    BY <1>1, <1>2, <1>4
  <2> QED
    BY <2>1 DEF Guardado, EnCola
<1>5. CASE p # proceso[a] /\ ~EnCola(p)
  <2>1. Encoladores \subseteq Actores
    BY DEF Actores
  <2> QED
    BY <1>1, <1>5, <2>1 DEF Guardado, Tiene
<1> QED
  BY <1>3, <1>4, <1>5

LEMMA GuardadoDesenlaza ==
  ASSUME Base, NEW h \in Hilos, Desenlaza(h), "cola" \notin riesgo', NEW p, Guardado(p)
  PROVE  Guardado(p)'
<1>1. /\ pc[h] = "desenlaza" /\ EsPrimero(proceso[h])
      /\ visto[h] = SegundoDe(cola_ready)
      /\ cola_ready' = IF visto[h] = Nadie THEN <<>> ELSE Tail(cola_ready)
      /\ pc' = [pc EXCEPT ![h] = "asigna"]
      /\ UNCHANGED <<restan, proceso>>
  BY DEF Desenlaza, En, Va, Solapa
<1>2. /\ cola_ready \in Seq(Procesos) /\ cola_ready # <<>> /\ Head(cola_ready) = proceso[h]
      /\ h \in Encoladores /\ Encoladores \subseteq Actores
  BY <1>1 DEF EsPrimero, Base, TypeOK, Actores, Encoladores
<1>3. cola_ready' = Tail(cola_ready)
  BY <1>1, <1>2, SegundoEsCabeza
<1>4. Tiene(h)' /\ \A b \in Encoladores \ {h} : pc'[b] = pc[b]
  BY <1>1, <1>2 DEF Tiene, Poseedores, Base, TypeOK
<1>5. CASE p = proceso[h]
  BY <1>1, <1>2, <1>4, <1>5 DEF Guardado
<1>6. CASE p # proceso[h] /\ EnCola(p)
  <2>1. PICK i \in 1..Len(cola_ready) : cola_ready[i] = p
    BY <1>6 DEF EnCola
  <2>2. cola_ready[1] = proceso[h]
    BY <1>2
  <2>3. i - 1 \in 1..Len(Tail(cola_ready)) /\ Tail(cola_ready)[i - 1] = p
    BY <1>2, <1>6, <2>1, <2>2
  <2> QED
    BY <1>3, <2>3 DEF Guardado, EnCola
<1>7. CASE p # proceso[h] /\ ~EnCola(p)
  BY <1>1, <1>4, <1>7 DEF Guardado, Tiene, Poseedores
<1> QED
  BY <1>5, <1>6, <1>7

LEMMA GuardadoRequest ==
  ASSUME Base, NEW h \in Hilos, NEW pedido \in PedidosLeidos, NEW exito \in BOOLEAN,
         request(h, pedido, exito), NEW p \in Procesos, Guardado(p)
  PROVE  Guardado(p)'
<1>0. h \in Encoladores /\ h \in Actores /\ Encoladores \subseteq Actores
  BY DEF Encoladores, Actores
<1>1. /\ pc[h] = "pide" /\ UNCHANGED cola_ready
      /\ \/ /\ pc'[h] = "baja"
         \/ /\ pc'[h] \in {"asigna", "encola"} /\ proceso'[h] = proceso[h]
  BY TrasPedir
<1>2. /\ \E s \in {"baja", "asigna", "encola"} : pc' = [pc EXCEPT ![h] = s]
      /\ proceso' \in {proceso, [proceso EXCEPT ![h] = Nadie]}
      /\ restan' \in {restan, [restan EXCEPT ![proceso[h]] = 0]}
  BY DEF request, Va, Sigue
<1>3. \A b \in Encoladores \ {h} : pc'[b] = pc[b] /\ proceso'[b] = proceso[b]
  BY <1>0, <1>2 DEF Base, TypeOK
<1>4. restan'[p] \in {restan[p], 0}
  BY <1>2 DEF Base, TypeOK
<1>5. CASE p = proceso[h]
  <2>1. CASE pc'[h] = "baja"
    <3>1. restan'[p] = 0
      <4>1. CASE exito \/ proceso[h] \notin Scripts
        <5>1. pc' = [pc EXCEPT ![h] = Sigue(h)] /\ restan' = restan
          BY <4>1 DEF request, Va
        <5>2. Sigue(h) = "baja"
          BY <1>0, <2>1, <5>1 DEF Base, TypeOK
        <5> QED
          BY <1>5, <5>1, <5>2 DEF Sigue
      <4>2. CASE ~(exito \/ proceso[h] \notin Scripts)
        <5>1. restan' = [restan EXCEPT ![proceso[h]] = 0]
          BY <4>2 DEF request
        <5> QED
          BY <1>5, <5>1 DEF Base, TypeOK
      <4> QED
        BY <4>1, <4>2
    <3> QED
      BY <3>1 DEF Guardado
  <2>2. CASE pc'[h] \in {"asigna", "encola"} /\ proceso'[h] = proceso[h]
    BY <1>0, <1>5, <2>2 DEF Guardado, Tiene, Poseedores
  <2> QED
    BY <1>1, <2>1, <2>2
<1>6. CASE p # proceso[h]
  BY <1>1, <1>3, <1>4, <1>6 DEF Guardado, EnCola, Tiene
<1> QED
  BY <1>5, <1>6

LEMMA GuardadoAsigna ==
  ASSUME Base, NEW h \in Hilos, Asigna(h), NEW p \in Procesos, Guardado(p)
  PROVE  Guardado(p)'
<1>1. /\ pc[h] = "asigna" /\ pc' = [pc EXCEPT ![h] = "pide"]
      /\ restan' = [restan EXCEPT ![proceso[h]] = @ - 1]
      /\ UNCHANGED <<cola_ready, proceso>>
      /\ h \in Encoladores /\ Encoladores \subseteq Actores
  BY DEF Asigna, En, Va, Encoladores, Actores
<1>2. /\ \A b \in Encoladores : Tiene(b) => Tiene(b)'
      /\ Tiene(h)'
  BY <1>1 DEF Tiene, Poseedores, Base, TypeOK
<1>3. p # proceso[h] => restan'[p] = restan[p]
  BY <1>1 DEF Base, TypeOK
<1> QED
  BY <1>1, <1>2, <1>3 DEF Guardado, EnCola

\* Every other step leaves the list and the hands alone, or adds to them.
LEMMA SinPerdidosPaso == Base /\ SinPerdidos /\ [Next]_vars => SinPerdidos'
<1> SUFFICES ASSUME Base, SinPerdidos, [Next]_vars, "cola" \notin riesgo', NEW p \in aceptados'
             PROVE  Guardado(p)'
  BY DEF SinPerdidos
<1>0. /\ Hilos \subseteq Encoladores /\ Encoladores \subseteq Actores
      /\ "consola" \notin Hilos /\ "consola" \in Encoladores
      /\ "planificador" \notin Encoladores
  BY DEF Actores, Encoladores
<1>1. riesgo \subseteq riesgo'
  BY RiesgoCrece DEF vars
<1>2. aceptados \subseteq Procesos
  BY DEF Base, TypeOK
<1>3. ASSUME NEW q \in Procesos, Ingresa(q) PROVE Guardado(p)'
  <2>1. /\ pc["consola"] = "libre" /\ pc' = [pc EXCEPT !["consola"] = "encola"]
        /\ proceso' = [proceso EXCEPT !["consola"] = q]
        /\ aceptados' = aceptados \cup {q} /\ UNCHANGED <<cola_ready, restan>>
    BY <1>3 DEF Ingresa, En, Va
  <2>2. /\ Tiene("consola")' /\ proceso'["consola"] = q /\ ~Tiene("consola")
        /\ \A b \in Encoladores \ {"consola"} : pc'[b] = pc[b] /\ proceso'[b] = proceso[b]
    BY <1>0, <2>1 DEF Tiene, Poseedores, Base, TypeOK
  <2>3. CASE p = q
    BY <1>0, <2>2, <2>3 DEF Guardado
  <2>4. CASE p # q
    <3>1. Guardado(p)
      BY <1>1, <2>1, <2>4 DEF SinPerdidos
    <3>2. \A b \in Encoladores : Tiene(b) => Tiene(b)' /\ proceso'[b] = proceso[b]
      BY <2>2 DEF Tiene
    <3> QED
      BY <2>1, <3>1, <3>2, GuardadoIgual
  <2> QED
    BY <2>3, <2>4
<1> SUFFICES ASSUME \A q \in Procesos : ~Ingresa(q) PROVE Guardado(p)'
  BY <1>3
<1>4. aceptados' = aceptados
  BY DEF vars, historia, Next, Consola, Rechaza, Encola, VeUltimo, Enlaza, LeeElementos,
     SumaElemento, planificador, VeElementos, VeHilos, LeeParaRestar, RestaElemento, crear_hilo,
     LeeParaSubir, SubeHilo, dispatcher, VePrimero, Desenlaza, Asigna, request, LeeHilos, BajaHilo
<1>5. Guardado(p) /\ p \in Procesos
  BY <1>1, <1>2, <1>4 DEF SinPerdidos
<1>6. CASE UNCHANGED vars
  BY <1>5, <1>6, GuardadoIgual DEF vars, locales, Tiene
<1>7. ASSUME NEW q \in Procesos, Rechaza(q) PROVE Guardado(p)'
  BY <1>5, <1>7, GuardadoIgual DEF Rechaza, locales, Tiene
<1>8. ASSUME NEW a \in Encoladores, Encola(a) PROVE Guardado(p)'
  <2>1. CASE Enlaza(a)
    BY <1>5, <2>1, GuardadoEnlaza
  <2>2. CASE VeUltimo(a) \/ LeeElementos(a) \/ SumaElemento(a)
    <3>1. /\ UNCHANGED <<cola_ready, restan>>
          /\ \/ pc[a] = "encola" /\ pc' = [pc EXCEPT ![a] = "enlaza"] /\ proceso' = proceso
             \/ /\ pc[a] \in {"suma", "guarda"}
                /\ \E s \in {"guarda", "libre", "baja"} : pc' = [pc EXCEPT ![a] = s]
                /\ proceso' \in {proceso, [proceso EXCEPT ![a] = Nadie]}
      BY <2>2 DEF VeUltimo, LeeElementos, SumaElemento, En, Va
    <3>2. \A b \in Encoladores \ {a} : pc'[b] = pc[b] /\ proceso'[b] = proceso[b]
      BY <1>0, <3>1 DEF Base, TypeOK
    <3>3. Tiene(a) => Tiene(a)' /\ proceso'[a] = proceso[a]
      BY <1>0, <3>1 DEF Tiene, Poseedores, Base, TypeOK
    <3>4. \A b \in Encoladores : Tiene(b) => Tiene(b)' /\ proceso'[b] = proceso[b]
      BY <3>2, <3>3 DEF Tiene
    <3> QED
      BY <1>5, <3>1, <3>4, GuardadoIgual
  <2> QED
    BY <1>8, <2>1, <2>2 DEF Encola
<1>9. CASE planificador
  <2>1. UNCHANGED <<cola_ready, restan, proceso>>
    BY <1>9 DEF planificador, VeElementos, VeHilos, LeeParaRestar, RestaElemento, crear_hilo,
       LeeParaSubir, SubeHilo
  <2>2. CASE \E s : pc' = [pc EXCEPT !["planificador"] = s]
    <3>1. \A b \in Encoladores : pc'[b] = pc[b]
      BY <1>0, <2>2 DEF Base, TypeOK
    <3> QED
      BY <1>5, <2>1, <3>1, GuardadoIgual DEF Tiene
  <2>3. ASSUME NEW h \in Hilos, crear_hilo(h) PROVE Guardado(p)'
    <3>1. /\ pc[h] = "libre"
          /\ \A b \in Encoladores \ {h} : pc'[b] = pc[b]
      BY <1>0, <2>3 DEF crear_hilo, En, Base, TypeOK
    <3> QED
      BY <1>5, <2>1, <3>1, GuardadoIgual DEF Tiene, Poseedores
  <2> QED
    BY <1>9, <2>2, <2>3 DEF planificador, VeElementos, VeHilos, LeeParaRestar, RestaElemento,
       LeeParaSubir, SubeHilo, Va
<1>10. ASSUME NEW h \in Hilos, VePrimero(h) \/ LeeHilos(h) \/ BajaHilo(h) PROVE Guardado(p)'
  <2>1. /\ UNCHANGED <<cola_ready, restan>>
        /\ pc[h] \in {"saca", "baja", "guardaBaja"}
        /\ \A b \in Encoladores \ {h} : pc'[b] = pc[b] /\ proceso'[b] = proceso[b]
    BY <1>0, <1>10 DEF VePrimero, LeeHilos, BajaHilo, En, Va, Base, TypeOK
  <2> QED
    BY <1>5, <2>1, GuardadoIgual DEF Tiene, Poseedores
<1>11. ASSUME NEW h \in Hilos, dispatcher(h) PROVE Guardado(p)'
  BY <1>0, <1>5, <1>8, <1>10, <1>11, GuardadoDesenlaza, GuardadoAsigna, GuardadoRequest
     DEF dispatcher
<1> QED
  BY <1>6, <1>7, <1>8, <1>9, <1>11 DEF Next, Consola, Encoladores

\* Until two operations on the queue overlap nothing that was typed is lost: it is in one
\* place, or all its lines have been taken.
THEOREM NadaTecleadoSePierde == Spec => []NadieSePierde
<1>1. Base /\ SinPerdidos => NadieSePierde
  <2> SUFFICES ASSUME Base, SinPerdidos, "cola" \notin riesgo, NEW p \in aceptados
               PROVE  Lugares(p) = 1 \/ Terminado(p)
    BY DEF NadieSePierde
  <2> DEFINE C == {i \in 1..Len(cola_ready) : cola_ready[i] = p}
             T == {a \in Encoladores : proceso[a] = p
                     /\ pc[a] \notin {"desenlaza", "suma", "guarda"}}
  <2>0. p \in Procesos
    BY DEF Base, TypeOK
  <2>1. \A i, j \in C : i = j
    BY DEF Base, Duenios
  <2>2. \A a \in T : Tiene(a)
    BY <2>0 DEF Base, Duenios, Tiene
  <2>3. \A a, b \in T : a = b
    BY <2>2 DEF Base, Duenios
  <2>4. C = {} \/ T = {}
    BY <2>2 DEF Base, Duenios, EnCola
  <2>5. C # {} \/ T # {} \/ restan[p] = 0
    BY DEF SinPerdidos, Guardado, EnCola, Tiene, Poseedores
  <2> HIDE DEF C, T
  <2>6. \/ Cardinality(C) + Cardinality(T) = 1
        \/ Cardinality(C) + Cardinality(T) = 0 /\ restan[p] = 0
    BY <2>1, <2>3, <2>4, <2>5, AloSumoUno
  <2>7. Lugares(p) = Cardinality(C) + Cardinality(T)
    BY DEF Lugares, C, T
  <2> QED
    BY <2>6, <2>7 DEF Terminado
<1>2. Init => Base /\ SinPerdidos
  BY BaseInicial DEF Init, SinPerdidos
<1>3. Base /\ SinPerdidos /\ [Next]_vars => (Base /\ SinPerdidos)'
  BY BasePaso, SinPerdidosPaso
<1> QED
  BY <1>1, <1>2, <1>3, PTL DEF Spec
=============================================================================
