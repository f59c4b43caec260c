---------------------------- MODULE Planificador ----------------------------
(***************************************************************************)
(* The scheduler of the Kernel.  The console thread appends what is typed  *)
(* (a single request, or RUN and the lines of a script) to cola_ready; the *)
(* scheduler thread spins and creates a detached dispatcher for each ready *)
(* element while there are execution slots; a dispatcher takes the first   *)
(* element, runs it for a quantum of lines and appends it again.           *)
(*                                                                         *)
(* No lock protects the queue, the counters elementos_ready and            *)
(* hilos_ejecutando, or the one struct parametros all dispatchers share.   *)
(* So x++ is a load and a store (the build has no optimisation), and a     *)
(* queue operation of commons looks at the list and then changes it.       *)
(* "riesgo" remembers which of them have overlapped: up to then the        *)
(* properties below hold.                                                  *)
(***************************************************************************)
EXTENDS Integers, Sequences, FiniteSets

CONSTANTS
  Procesos,          \* everything that is typed: scripts and single requests
  Scripts,           \* those that are RUN, by the queue of their lines
  Lineas,            \* number of lines of each script (1 for a single request)
  Hilos,             \* names for dispatcher threads (bound on those alive)
  QUANTUM,           \* Kernel.config
  MULTIPROCESAMIENTO,
  Nadie              \* no process

ASSUME ConstantesPlanificador ==
  /\ Scripts \subseteq Procesos
  /\ Lineas \in [Procesos -> Nat \ {0}]
  /\ \A p \in Procesos \ Scripts : Lineas[p] = 1
  /\ IsFiniteSet(Hilos)
  /\ {"consola", "planificador"} \cap Hilos = {}
  /\ QUANTUM \in Nat \ {0}
  /\ MULTIPROCESAMIENTO \in Nat \ {0}
  /\ Nadie \notin Procesos

VARIABLES
  porIngresar,       \* what nobody has typed yet
  cola_ready,        \* the queue
  elementos_ready,   \* how many elements it has, for the scheduler
  hilos_ejecutando,  \* how many dispatchers there are
  parametro,         \* parametro->parametros: the request to run
  restan,            \* lines of each process that are still in its own queue
  pc,                \* where each thread is
  proceso,           \* the process a thread holds
  visto,             \* what a thread saw of the list: its last or second element
  leido,             \* the counter a thread has loaded
  vuelta,            \* lines a dispatcher has run in this quantum
  viva,              \* FALSE after a null pointer or a second free
  aceptados,         \* history: processes that were appended by the console
  abortados,         \* history: scripts that a failed request ended
  hechas,            \* history: requests of each process, in the order they ran
  riesgo             \* history: what has overlapped

contadores == <<elementos_ready, hilos_ejecutando>>
locales == <<pc, proceso, visto, leido, vuelta>>
historia == <<aceptados, abortados, hechas>>
vars == <<porIngresar, cola_ready, contadores, parametro, restan, locales, viva,
          historia, riesgo>>

Encoladores == Hilos \cup {"consola"}
Actores == Encoladores \cup {"planificador"}
Pedidos == UNION {{p} \X (1..Lineas[p]) : p \in Procesos}
NoHay == <<Nadie, 0>>
Riesgos == {"elementos", "hilos", "cola", "parametro"}

TypeOK ==
  /\ porIngresar \subseteq Procesos
  /\ cola_ready \in Seq(Procesos)
  /\ elementos_ready \in Int /\ hilos_ejecutando \in Int
  /\ parametro \in Pedidos \cup {NoHay}
  /\ restan \in [Procesos -> Nat]
  /\ pc \in [Actores -> {"libre", "encola", "enlaza", "suma", "guarda",
       "saca", "desenlaza", "asigna", "pide", "baja", "guardaBaja",
       "miraHilos", "resta", "guardaResta", "crea", "sube", "guardaSube"}]
  /\ proceso \in [Encoladores -> Procesos \cup {Nadie}]
  /\ visto \in [Encoladores -> Procesos \cup {Nadie}]
  /\ leido \in [Actores -> Int]
  /\ vuelta \in [Hilos -> 0..QUANTUM]
  /\ viva \in BOOLEAN
  /\ aceptados \subseteq Procesos /\ abortados \subseteq Scripts
  /\ hechas \in [Procesos -> Seq(Nat)]
  /\ riesgo \subseteq Riesgos

Init ==
  /\ porIngresar = Procesos
  /\ cola_ready = <<>>
  /\ elementos_ready = 0 /\ hilos_ejecutando = 0
  /\ parametro = NoHay
  /\ restan = Lineas
  /\ pc = [a \in Actores |-> "libre"]
  /\ proceso = [a \in Encoladores |-> Nadie]
  /\ visto = [a \in Encoladores |-> Nadie]
  /\ leido = [a \in Actores |-> 0]
  /\ vuelta = [h \in Hilos |-> 0]
  /\ viva = TRUE
  /\ aceptados = {} /\ abortados = {}
  /\ hechas = [p \in Procesos |-> <<>>]
  /\ riesgo = {}

En(a, lugar) == viva /\ pc[a] = lugar
Va(a, lugar) == pc' = [pc EXCEPT ![a] = lugar]
Solapa(que, cuando) == riesgo' = IF cuando THEN riesgo \cup {que} ELSE riesgo

-----------------------------------------------------------------------------
(* The list under the queue (commons, external).  A node is known by the   *)
(* process it carries.                                                     *)

UltimoDe(q) == IF q = <<>> THEN Nadie ELSE q[Len(q)]
SegundoDe(q) == IF Len(q) < 2 THEN Nadie ELSE q[2]
EsPrimero(p) == cola_ready # <<>> /\ Head(cola_ready) = p
Esta(p, q) == \E i \in 1..Len(q) : q[i] = p

\* The list after p is linked behind u, the last node seen: an empty list gets
\* a new head, a node that has been freed is written in vain, and what others
\* had linked behind u is cut off.
Enlazada(q, u, p) ==
  IF u = Nadie THEN <<p>>
  ELSE IF Esta(u, q)
    THEN SubSeq(q, 1, CHOOSE i \in 1..Len(q) : q[i] = u) \o <<p>>
    ELSE q

-----------------------------------------------------------------------------
(* agregar_a_cola, from the console.                                       *)

\* A file that does not exist or an unknown operation is not queued.
Rechaza(p) ==
  /\ En("consola", "libre")
  /\ p \in porIngresar
  /\ porIngresar' = porIngresar \ {p}
  /\ UNCHANGED <<cola_ready, contadores, parametro, restan, locales, viva, historia, riesgo>>

Ingresa(p) ==
  /\ En("consola", "libre")
  /\ p \in porIngresar
  /\ porIngresar' = porIngresar \ {p}
  /\ proceso' = [proceso EXCEPT !["consola"] = p]
  /\ aceptados' = aceptados \cup {p}
  /\ Va("consola", "encola")
  /\ UNCHANGED <<cola_ready, contadores, parametro, restan, visto, leido,
                 vuelta, viva, abortados, hechas, riesgo>>

-----------------------------------------------------------------------------
(* queue_push and elementos_ready++, by the console for what was typed and *)
(* by a dispatcher for a script whose quantum is over.                     *)

VeUltimo(a) ==
  /\ En(a, "encola")
  /\ visto' = [visto EXCEPT ![a] = UltimoDe(cola_ready)]
  /\ Va(a, "enlaza")
  /\ UNCHANGED <<porIngresar, cola_ready, contadores, parametro, restan,
                 proceso, leido, vuelta, viva, historia, riesgo>>

Enlaza(a) ==
  /\ En(a, "enlaza")
  /\ cola_ready' = Enlazada(cola_ready, visto[a], proceso[a])
  /\ Solapa("cola", visto[a] # UltimoDe(cola_ready))
  /\ visto' = [visto EXCEPT ![a] = Nadie]
  /\ Va(a, "suma")
  /\ UNCHANGED <<porIngresar, contadores, parametro, restan, proceso, leido,
                 vuelta, viva, historia>>

LeeElementos(a) ==
  /\ En(a, "suma")
  /\ leido' = [leido EXCEPT ![a] = elementos_ready]
  /\ Va(a, "guarda")
  /\ UNCHANGED <<porIngresar, cola_ready, contadores, parametro, restan,
                 proceso, visto, vuelta, viva, historia, riesgo>>

\* The console waits for the next line, a dispatcher ends.
SumaElemento(a) ==
  /\ En(a, "guarda")
  /\ elementos_ready' = leido[a] + 1
  /\ Solapa("elementos", leido[a] # elementos_ready)
  /\ Va(a, IF a = "consola" THEN "libre" ELSE "baja")
  /\ proceso' = [proceso EXCEPT ![a] = Nadie]
  /\ leido' = [leido EXCEPT ![a] = 0]
  /\ UNCHANGED <<porIngresar, cola_ready, hilos_ejecutando, parametro, restan,
                 visto, vuelta, viva, historia>>

-----------------------------------------------------------------------------
(* planificador: the spinning loop.                                        *)

\* Mutant: the scheduler does not ask whether anything is ready.
VeSinMirar ==
  /\ En("planificador", "libre")
  /\ Va("planificador", "miraHilos")
  /\ UNCHANGED <<porIngresar, cola_ready, contadores, parametro, restan,
                 proceso, visto, leido, vuelta, viva, historia, riesgo>>
VeElementos ==
  /\ En("planificador", "libre")
  /\ elementos_ready > 0
  /\ Va("planificador", "miraHilos")
  /\ UNCHANGED <<porIngresar, cola_ready, contadores, parametro, restan,
                 proceso, visto, leido, vuelta, viva, historia, riesgo>>

\* Mutant: off by one.
HayCupoDeMas == hilos_ejecutando <= MULTIPROCESAMIENTO
HayCupo == hilos_ejecutando < MULTIPROCESAMIENTO

VeHilos ==
  /\ En("planificador", "miraHilos")
  /\ Va("planificador", IF HayCupo THEN "resta" ELSE "libre")
  /\ UNCHANGED <<porIngresar, cola_ready, contadores, parametro, restan,
                 proceso, visto, leido, vuelta, viva, historia, riesgo>>

LeeParaRestar ==
  /\ En("planificador", "resta")
  /\ leido' = [leido EXCEPT !["planificador"] = elementos_ready]
  /\ Va("planificador", "guardaResta")
  /\ UNCHANGED <<porIngresar, cola_ready, contadores, parametro, restan,
                 proceso, visto, vuelta, viva, historia, riesgo>>

RestaElemento ==
  /\ En("planificador", "guardaResta")
  /\ elementos_ready' = leido["planificador"] - 1
  /\ Solapa("elementos", leido["planificador"] # elementos_ready)
  /\ Va("planificador", "crea")
  /\ leido' = [leido EXCEPT !["planificador"] = 0]
  /\ UNCHANGED <<porIngresar, cola_ready, hilos_ejecutando, parametro, restan,
                 proceso, visto, vuelta, viva, historia>>

crear_hilo(h) ==
  /\ En("planificador", "crea") /\ En(h, "libre")
  /\ pc' = [pc EXCEPT !["planificador"] = "sube", ![h] = "saca"]
  /\ UNCHANGED <<porIngresar, cola_ready, contadores, parametro, restan,
                 proceso, visto, leido, vuelta, viva, historia, riesgo>>

LeeParaSubir ==
  /\ En("planificador", "sube")
  /\ leido' = [leido EXCEPT !["planificador"] = hilos_ejecutando]
  /\ Va("planificador", "guardaSube")
  /\ UNCHANGED <<porIngresar, cola_ready, contadores, parametro, restan,
                 proceso, visto, vuelta, viva, historia, riesgo>>

SubeHilo ==
  /\ En("planificador", "guardaSube")
  /\ hilos_ejecutando' = leido["planificador"] + 1
  /\ Solapa("hilos", leido["planificador"] # hilos_ejecutando)
  /\ Va("planificador", "libre")
  /\ leido' = [leido EXCEPT !["planificador"] = 0]
  /\ UNCHANGED <<porIngresar, cola_ready, elementos_ready, parametro, restan,
                 proceso, visto, vuelta, viva, historia>>

-----------------------------------------------------------------------------
(* dispatcher                                                              *)

\* queue_pop: an empty queue answers NULL, which is dereferenced.
VePrimero(h) ==
  /\ En(h, "saca")
  /\ \/ /\ cola_ready # <<>>
        /\ proceso' = [proceso EXCEPT ![h] = Head(cola_ready)]
        /\ visto' = [visto EXCEPT ![h] = SegundoDe(cola_ready)]
        /\ Va(h, "desenlaza")
        /\ UNCHANGED viva
     \/ /\ cola_ready = <<>>
        /\ viva' = FALSE
        /\ UNCHANGED <<proceso, visto, pc>>
  /\ UNCHANGED <<porIngresar, cola_ready, contadores, parametro, restan,
                 leido, vuelta, historia, riesgo>>

\* Mutant: the element is looked at and not taken out of the queue.
SoloMira(h) ==
  /\ En(h, "desenlaza")
  /\ visto' = [visto EXCEPT ![h] = Nadie]
  /\ Va(h, "asigna")
  /\ UNCHANGED <<porIngresar, cola_ready, contadores, parametro, restan,
                 proceso, leido, vuelta, viva, historia, riesgo>>
\* The head becomes the second node seen; a node that another dispatcher has
\* already unlinked is freed twice.
Desenlaza(h) ==
  /\ En(h, "desenlaza")
  /\ \/ /\ EsPrimero(proceso[h])
        /\ cola_ready' = IF visto[h] = Nadie THEN <<>> ELSE Tail(cola_ready)
        /\ Solapa("cola", visto[h] # SegundoDe(cola_ready))
        /\ visto' = [visto EXCEPT ![h] = Nadie]
        /\ Va(h, "asigna")
        /\ UNCHANGED viva
     \/ /\ ~EsPrimero(proceso[h])
        /\ viva' = FALSE
        /\ Solapa("cola", TRUE)
        /\ UNCHANGED <<cola_ready, visto, pc>>
  /\ UNCHANGED <<porIngresar, contadores, parametro, restan, proceso,
                 leido, vuelta, historia>>

\* The next line of the process goes to the shared structure.
LineaDe(p) == Lineas[p] - restan[p]
Asigna(h) ==
  /\ En(h, "asigna")
  /\ restan' = [restan EXCEPT ![proceso[h]] = @ - 1]
  /\ parametro' = <<proceso[h], LineaDe(proceso[h]) + 1>>
  /\ vuelta' = [vuelta EXCEPT ![h] = @ + 1]
  /\ Va(h, "pide")
  /\ UNCHANGED <<porIngresar, cola_ready, contadores, proceso, visto, leido,
                 viva, historia, riesgo>>

\* The line a dispatcher has taken and not freed yet.
EnMano(h) == <<proceso[h], LineaDe(proceso[h])>>
HayTexto(pedido) ==
  pedido[1] \notin Scripts \/ \E h \in Hilos : pc[h] = "pide" /\ EnMano(h) = pedido

\* What request() finds in parametro after SLEEP_EJECUCION; the text of a line
\* that its own dispatcher has freed may have gone.
PedidosLeidos == IF HayTexto(parametro) THEN {parametro} ELSE {parametro, NoHay}

\* Mutant: a script that has used up its quantum is not queued again.
SigueSinVolver(h) ==
  IF restan[proceso[h]] # 0 /\ vuelta[h] < QUANTUM THEN "asigna" ELSE "baja"
\* Mutant: a script goes on to its last line whatever QUANTUM says.
SigueSinQuantum(h) == IF restan[proceso[h]] = 0 THEN "baja" ELSE "asigna"
\* Where a dispatcher goes when a request of its process has gone well.
Sigue(h) ==
  IF restan[proceso[h]] = 0 THEN "baja"
  ELSE IF vuelta[h] < QUANTUM THEN "asigna" ELSE "encola"

\* Mutant: a script goes on after a line that failed.
requestSinAbortar(h, pedido, exito) ==
  /\ En(h, "pide")
  /\ hechas' = IF exito /\ pedido # NoHay
                 THEN [hechas EXCEPT ![pedido[1]] = Append(@, pedido[2])] ELSE hechas
  /\ Solapa("parametro", pedido # EnMano(h))
  /\ Va(h, Sigue(h))
  /\ proceso' = IF Sigue(h) = "baja" THEN [proceso EXCEPT ![h] = Nadie] ELSE proceso
  /\ vuelta' = [vuelta EXCEPT ![h] = IF Sigue(h) = "asigna" THEN @ ELSE 0]
  /\ UNCHANGED <<porIngresar, cola_ready, contadores, parametro, restan, visto,
                 leido, viva, aceptados, abortados>>
\* request(): executed, or rejected before anything is sent.  A rejected line
\* aborts its script (abortar_proceso frees what is left and ends the thread);
\* nobody looks at the result of a single request.
request(h, pedido, exito) ==
  /\ En(h, "pide")
  /\ hechas' = IF exito /\ pedido # NoHay
                 THEN [hechas EXCEPT ![pedido[1]] = Append(@, pedido[2])] ELSE hechas
  /\ Solapa("parametro", pedido # EnMano(h))
  /\ \/ /\ exito \/ proceso[h] \notin Scripts
        /\ Va(h, Sigue(h))
        /\ proceso' = IF Sigue(h) = "baja" THEN [proceso EXCEPT ![h] = Nadie] ELSE proceso
        /\ vuelta' = [vuelta EXCEPT ![h] = IF Sigue(h) = "asigna" THEN @ ELSE 0]
        /\ UNCHANGED <<restan, abortados>>
     \/ /\ ~exito /\ proceso[h] \in Scripts
        /\ Va(h, "baja")
        /\ restan' = [restan EXCEPT ![proceso[h]] = 0]
        /\ vuelta' = [vuelta EXCEPT ![h] = 0]
        /\ abortados' = abortados \cup {proceso[h]}
        /\ proceso' = [proceso EXCEPT ![h] = Nadie]
  /\ UNCHANGED <<porIngresar, cola_ready, contadores, parametro, visto, leido,
                 viva, aceptados>>

LeeHilos(h) ==
  /\ En(h, "baja")
  /\ leido' = [leido EXCEPT ![h] = hilos_ejecutando]
  /\ Va(h, "guardaBaja")
  /\ UNCHANGED <<porIngresar, cola_ready, contadores, parametro, restan,
                 proceso, visto, vuelta, viva, historia, riesgo>>

\* Mutant: the thread ends without giving its slot back.
BajaSinRestar(h) ==
  /\ En(h, "guardaBaja")
  /\ Va(h, "libre")
  /\ leido' = [leido EXCEPT ![h] = 0]
  /\ UNCHANGED <<porIngresar, cola_ready, contadores, parametro, restan,
                 proceso, visto, vuelta, viva, historia, riesgo>>

BajaHilo(h) ==
  /\ En(h, "guardaBaja")
  /\ hilos_ejecutando' = leido[h] - 1
  /\ Solapa("hilos", leido[h] # hilos_ejecutando)
  /\ Va(h, "libre")
  /\ leido' = [leido EXCEPT ![h] = 0]
  /\ UNCHANGED <<porIngresar, cola_ready, elementos_ready, parametro, restan,
                 proceso, visto, vuelta, viva, historia>>

-----------------------------------------------------------------------------
Encola(a) == VeUltimo(a) \/ Enlaza(a) \/ LeeElementos(a) \/ SumaElemento(a)

Consola == (\E p \in Procesos : Rechaza(p) \/ Ingresa(p)) \/ Encola("consola")

planificador ==
  \/ VeElementos \/ VeHilos
  \/ LeeParaRestar \/ RestaElemento
  \/ \E h \in Hilos : crear_hilo(h)
  \/ LeeParaSubir \/ SubeHilo

dispatcher(h) ==
  \/ VePrimero(h) \/ Desenlaza(h)
  \/ Asigna(h)
  \/ \E pedido \in PedidosLeidos, exito \in BOOLEAN : request(h, pedido, exito)
  \/ Encola(h)
  \/ LeeHilos(h) \/ BajaHilo(h)

Next == Consola \/ planificador \/ \E h \in Hilos : dispatcher(h)

Spec == Init /\ [][Next]_vars

\* Executions in which no two threads are at once inside an update of the same
\* counter, or inside the queue.  parametro may still be overwritten.
Dentro(lugares) == {a \in Actores : pc[a] \in lugares}
SinSolape ==
  /\ Cardinality(Dentro({"guarda", "guardaResta"})) <= 1
  /\ Cardinality(Dentro({"guardaSube", "guardaBaja"})) <= 1
  /\ Cardinality(Dentro({"enlaza", "desenlaza"})) <= 1

SpecSerena ==
  /\ Init /\ [][Next /\ SinSolape']_vars
  /\ WF_vars(Encola("consola") /\ SinSolape')
  /\ WF_vars(planificador /\ SinSolape')
  /\ \A h \in Hilos : WF_vars(dispatcher(h) /\ SinSolape')

-----------------------------------------------------------------------------
(* Properties.                                                             *)

\* Dispatchers that have been created and have not finished.
Ocupados == {h \in Hilos : pc[h] # "libre"}

\* Whoever is between the queue and its counter: the push comes before the
\* increment, the decrement before the pop.
PorContar == Cardinality(Dentro({"suma", "guarda"}))
PorSacar == Cardinality(Dentro({"crea", "saca", "desenlaza"}))

\* Until an update of the queue or of its counter is lost, elementos_ready and
\* the elements owed to dispatchers are the length of the queue, so that every
\* dispatcher finds an element: no NULL comes out of queue_pop.
ColaContada ==
  riesgo \cap {"elementos", "cola"} = {} =>
    /\ viva
    /\ Len(cola_ready) = elementos_ready + PorContar + PorSacar

\* Until an update of hilos_ejecutando is lost there are no more dispatchers
\* than MULTIPROCESAMIENTO, though the counter lags behind the threads.
CupoRespetado ==
  "hilos" \notin riesgo => Cardinality(Ocupados) <= MULTIPROCESAMIENTO

\* Until two operations on the queue overlap, a process is in one place only.
Lugares(p) == Cardinality({i \in 1..Len(cola_ready) : cola_ready[i] = p})
              + Cardinality({a \in Encoladores : proceso[a] = p
                                /\ pc[a] \notin {"desenlaza", "suma", "guarda"}})
UnSoloLugar == "cola" \notin riesgo => \A p \in Procesos : Lugares(p) <= 1

\* Until the queue or the shared structure is trampled on, the requests of a
\* process run in their order and once, and only a failed one ends a script.
EnOrden ==
  riesgo \cap {"cola", "parametro"} = {} =>
    \A p \in Procesos :
      /\ \A i \in 1..Len(hechas[p]) : p \in Scripts => hechas[p][i] = i
      /\ p \in Scripts /\ p \notin abortados =>
           Len(hechas[p]) = LineaDe(p)
             - Cardinality({h \in Hilos : pc[h] = "pide" /\ proceso[h] = p})

\* Whatever is typed is dispatched to its last line, or aborted, if nothing is
\* lost by an overlap.
Terminado(p) == restan[p] = 0 /\ Lugares(p) = 0
TodoSeEjecuta == \A p \in Procesos : (p \in aceptados) ~> Terminado(p)

\* Its safety half: what the console took in waits, is held by a thread, or is done
\* with; a queue update that overlaps another is the only way to lose it.
NadieSePierde ==
  "cola" \notin riesgo => \A p \in aceptados : Lugares(p) = 1 \/ Terminado(p)

\* Once nothing more is typed the slots are given back.
Reposo == elementos_ready = 0 /\ hilos_ejecutando = 0 /\ cola_ready = <<>>
TodoVuelveAReposo == (porIngresar = {}) ~> []Reposo

\* The processes a Ronda would say are running, have not arrived, and how far in
\* its turn each is: a line counts once request() has ended.
Corre(h) == pc[h] \in {"asigna", "pide", "encola", "enlaza"}
EnEjecucion == {proceso[h] : h \in {g \in Hilos : Corre(g)}}
PorLlegar ==
  porIngresar \cup (IF pc["consola"] \in {"encola", "enlaza"} THEN {proceso["consola"]} ELSE {})
Turno(h) ==
  IF pc[h] = "asigna" THEN vuelta[h] ELSE IF pc[h] = "pide" THEN vuelta[h] - 1 ELSE QUANTUM
TurnoDe(p) ==
  IF p \in EnEjecucion THEN Turno(CHOOSE h \in Hilos : Corre(h) /\ proceso[h] = p) ELSE 0

R == INSTANCE Ronda WITH
       nuevos <- PorLlegar, cola <- cola_ready, ejecutando <- EnEjecucion,
       turno <- [p \in Procesos |-> TurnoDe(p)]
\* The scheduler is a Ronda: until an update of the queue or of the slots is lost, or
\* the shared structure is trampled on, every step of its threads is one of those of a
\* round robin, or none.
ImplementaRonda ==
  R!Init /\ [][riesgo' \cap {"hilos", "cola", "parametro"} = {} => R!Next]_R!vars
=============================================================================
