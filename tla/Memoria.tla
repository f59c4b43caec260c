------------------------------ MODULE Memoria ------------------------------
(***************************************************************************)
(* The page cache of one MemoryPool process: the segment table, the pages  *)
(* with their modified flag, the page counter, and the requests            *)
(* (INSERT, SELECT, CREATE, DROP, JOURNAL) that the server thread and the  *)
(* console thread run against it, with the file system (LFS) at the other  *)
(* end of one connection per message.                                      *)
(*                                                                         *)
(* The list of pages of a segment is a set of pages: its order only        *)
(* decides which of several pages with EQUAL timestamps reemplazar_pagina  *)
(* meets first, and that is a choice here.  A value is known by its        *)
(* timestamp; the only thing kept of its bytes is whether it is too long   *)
(* for this memory.                                                        *)
(*                                                                         *)
(* The two threads share the cache without a lock (the mutex of journal()  *)
(* only keeps two journals apart).  A request that changes the cache is    *)
(* three intervals: from the first test to the change of the lists         *)
(* ("trabaja"), from there to the load of the page counter ("cuenta"), and *)
(* from the load to the store ("guarda").  What the code tests when the    *)
(* first begins is tested here when it ends: the same thing unless another *)
(* thread changed the cache in between, and then riesgo says so.           *)
(*   cruza     a change of the cache by one thread inside the first        *)
(*             interval of another: both may append a page of one key, a   *)
(*             list operation may be undone by the other, a null or freed  *)
(*             pointer may be followed.  From there on a change leaves     *)
(*             what SeEnredan says, which is nearly anything.              *)
(*   contador  the counter is read or changed by one thread while another  *)
(*             has changed the pages and not yet stored its count.         *)
(***************************************************************************)
EXTENDS Integers, FiniteSets

CONSTANTS
  Tablas,                   \* table names
  Claves,                   \* keys (uint16_t valor_key)
  Hilos,                    \* threads that run requests: servidor, consola
  max_paginas_disponibles,  \* TAM_MEM / max value size, fixed at startup
  MaxTimestamp,             \* bound: timestamps are 0..MaxTimestamp
  MaxTransito,              \* bound: messages on their way to the LFS
  RelojEstricto,            \* TRUE: every write of the system has a later timestamp
  LFSPuedeCaer,             \* TRUE: the LFS may be unreachable for a while
  LFSGuardaLargos           \* TRUE: the LFS holds values too long for this memory

ASSUME ConstantesMemoria ==
  /\ max_paginas_disponibles \in Nat \ {0}
  /\ MaxTimestamp \in Nat
  /\ MaxTransito \in Nat
  /\ RelojEstricto \in BOOLEAN
  /\ LFSPuedeCaer \in BOOLEAN
  /\ LFSGuardaLargos \in BOOLEAN

VARIABLES
  segmentos,                \* keys of the dictionary tabla_segmentos
  paginas,                  \* the t_pagina_completa of every segment
  tamanio_memoria_ocupada,  \* the page counter
  hilo,                     \* what each thread is doing or waiting for
  viva,                     \* FALSE once the process has died on a null pointer
  lfs,                      \* newest record of each key, 0 when there is none
  lfs_largo,                \* keys whose newest record is too long for this memory
  lfs_tablas,               \* tables that exist in the LFS
  lfs_arriba,               \* TRUE while connect() to the LFS succeeds
  enTransito,               \* requests sent to the LFS and not executed yet
  reloj,                    \* last timestamp handed out
  ultimo,                   \* history: newest write this memory accepted, per key
  tiradas,                  \* history: keys whose newest write the LFS threw away
  riesgo                    \* overlaps of two threads met since the process started

cache == <<segmentos, paginas, tamanio_memoria_ocupada, viva>>
disco == <<lfs, lfs_largo, lfs_tablas, lfs_arriba>>
historia == <<ultimo, tiradas>>
vars == <<segmentos, paginas, tamanio_memoria_ocupada, hilo, viva, lfs, lfs_largo,
          lfs_tablas, lfs_arriba, enTransito, reloj, ultimo, tiradas, riesgo>>

Timestamps == 0..MaxTimestamp

\* A map from keys of tables to timestamps, without the entries of table t.
EnCero(F, t) == [tk \in Tablas \X Claves |-> IF tk[1] = t THEN 0 ELSE F[tk]]

Pagina == [tabla: Tablas, key: Claves, timestamp: Timestamps, flag: {0, 1}]

Mensaje ==
  [op: {"INSERT"}, tabla: Tablas, key: Claves, timestamp: Timestamps]
    \cup [op: {"CREATE", "DROP"}, tabla: Tablas]

\* A request whose tests are done and whose change is to come.
Pedido ==
  [op: {"INSERT"}, pagina: Pagina]
    \cup [op: {"CREATE", "DROP"}, tabla: Tablas]
    \cup [op: {"JOURNAL"}]

\* libre: between requests.  lee: a SELECT about to take its page from the
\* cache; fallo says that it comes from a miss.  espera, respondido: a miss
\* whose request is at the LFS, or answered by it.
Libre == [fase |-> "libre"]
Reposo == {Libre} \cup [fase: {"lee"}, tabla: Tablas, key: Claves, fallo: BOOLEAN]
EstadoHilo ==
  Reposo
    \cup [fase: {"espera"}, tabla: Tablas, key: Claves]
    \cup [fase: {"respondido"}, tabla: Tablas, key: Claves,
          timestamp: Timestamps, largo: BOOLEAN]
    \cup [fase: {"trabaja"}, pedido: Pedido]
    \cup [fase: {"cuenta"}, delta: Int, sigue: Reposo]
    \cup [fase: {"guarda"}, valor: Int, delta: Int, sigue: Reposo]

TypeOK ==
  /\ segmentos \subseteq Tablas
  /\ paginas \subseteq Pagina
  /\ tamanio_memoria_ocupada \in Int
  /\ hilo \in [Hilos -> EstadoHilo]
  /\ viva \in BOOLEAN
  /\ lfs \in [Tablas \X Claves -> Timestamps]
  /\ lfs_largo \subseteq Tablas \X Claves
  /\ lfs_tablas \subseteq Tablas
  /\ lfs_arriba \in BOOLEAN
  /\ enTransito \subseteq Mensaje
  /\ reloj \in Timestamps
  /\ ultimo \in [Tablas \X Claves -> Timestamps]
  /\ tiradas \subseteq Tablas \X Claves
  /\ riesgo \subseteq {"cruza", "contador"}

Init ==
  /\ segmentos = {}
  /\ paginas = {}
  /\ tamanio_memoria_ocupada = 0
  /\ hilo = [h \in Hilos |-> Libre]
  /\ viva = TRUE
  /\ lfs = [tk \in Tablas \X Claves |-> 0]
  /\ lfs_largo = {}
  /\ lfs_tablas \in SUBSET Tablas
  /\ lfs_arriba = TRUE
  /\ enTransito = {}
  /\ reloj = 0
  /\ ultimo = [tk \in Tablas \X Claves |-> 0]
  /\ tiradas = {}
  /\ riesgo = {}

-----------------------------------------------------------------------------
(* Questions the handlers ask of the cache (tablas.c).                     *)

PaginasDe(t) == {p \in paginas : p.tabla = t}
PaginasConClave(t, k) == {p \in PaginasDe(t) : p.key = k}

existe_tabla_paginas(t) == t \in segmentos

\* Mutant: only modified pages are looked at.
existe_pagina_modificada(t, k) ==
  existe_tabla_paginas(t) /\ \E p \in PaginasConClave(t, k) : p.flag = 1
existe_pagina(t, k) == existe_tabla_paginas(t) /\ PaginasConClave(t, k) # {}

\* Mutant: off by one.
espacio_hasta_el_maximo == tamanio_memoria_ocupada <= max_paginas_disponibles
verificar_espacio_memoria == tamanio_memoria_ocupada < max_paginas_disponibles

paginas_sin_modificar(t) == {p \in PaginasDe(t) : p.flag = 0}
puede_reemplazar(t) == paginas_sin_modificar(t) # {}
paginas_modificadas == {p \in paginas : p.flag = 1}

\* Mutant: the least timestamp of the whole list, flag forgotten.
Menores(t) ==
  {p \in PaginasDe(t) : \A q \in PaginasDe(t) : p.timestamp <= q.timestamp}

\* What reemplazar_pagina may evict: it takes the least timestamp among the
\* unmodified pages, then the first page of the list, modified or not, that
\* carries that timestamp.
Reemplazables(t) ==
  LET menores == {p \in paginas_sin_modificar(t) :
                    \A q \in paginas_sin_modificar(t) : p.timestamp <= q.timestamp}
  IN  {p \in PaginasDe(t) : \E m \in menores : p.timestamp = m.timestamp}

-----------------------------------------------------------------------------
(* Messages to the LFS: one connection each, no acknowledgement.  When the *)
(* connection is refused the handler goes on as if it had been sent (and   *)
(* closes descriptor 0, the console's input, which is left out here).      *)

Enviar(mensajes) ==
  enTransito' = IF lfs_arriba THEN enTransito \cup mensajes ELSE enTransito

InsertDe(p) == [op |-> "INSERT", tabla |-> p.tabla, key |-> p.key,
                timestamp |-> p.timestamp]

\* journal(): every modified page leaves the cache and is sent as an INSERT.
\* Mutants: the flag test inverted; the counter forgotten.
MensajesJournalInvertido == {InsertDe(p) : p \in paginas \ paginas_modificadas}
SinBajar == 0
MensajesJournal == {InsertDe(p) : p \in paginas_modificadas}
PaginasTrasJournal == paginas \ paginas_modificadas
BajaTrasJournal == 0 - Cardinality(paginas_modificadas)

-----------------------------------------------------------------------------
(* Two threads and no lock.                                                *)

nueva(t, k, ts, f) == [tabla |-> t, key |-> k, timestamp |-> ts, flag |-> f]

Trabaja(h) == hilo[h].fase = "trabaja"
Contando(h) == hilo[h].fase \in {"cuenta", "guarda"}
OtroTrabaja(h) == \E g \in Hilos \ {h} : Trabaja(g)
OtroCuenta(h) == \E g \in Hilos \ {h} : Contando(g)

SiEso(nombre, hay) == IF hay THEN {nombre} ELSE {}

\* The request passes its first test.  An INSERT reads the counter here.
Empieza(h, pedido) ==
  /\ hilo' = [hilo EXCEPT ![h] = [fase |-> "trabaja", pedido |-> pedido]]
  /\ riesgo' = riesgo \cup
       SiEso("contador", pedido.op = "INSERT" /\ OtroCuenta(h))

\* The lists are changed; the counter will be, by d.
Cuenta(h, d, sigue) ==
  hilo' = [hilo EXCEPT ![h] = [fase |-> "cuenta", delta |-> d, sigue |-> sigue]]

Pasa(h, sigue) == hilo' = [hilo EXCEPT ![h] = sigue]

Lee(t, k, fallo) == [fase |-> "lee", tabla |-> t, key |-> k, fallo |-> fallo]

\* A page with flag 0 is the answer of a SELECT, which then reads it.
Tras(p) == IF p.flag = 1 THEN Libre ELSE Lee(p.tabla, p.key, TRUE)

-----------------------------------------------------------------------------
(* insert(): the branches of API.c, for the page p of thread h.            *)

\* The key is cached: its page is destroyed and the new one appended.
remplazo_especifico(h, p) ==
  /\ existe_pagina(p.tabla, p.key)
  /\ \E vieja \in PaginasConClave(p.tabla, p.key) : paginas' = (paginas \ {vieja}) \cup {p}
  /\ Cuenta(h, (0 - 1) + 1, Tras(p))
  /\ UNCHANGED <<segmentos, viva, enTransito>>

\* There is room: the page is appended, creating the segment if need be.
agregar_pagina(h, p) ==
  /\ verificar_espacio_memoria
  /\ ~existe_pagina(p.tabla, p.key)
  /\ segmentos' = segmentos \cup {p.tabla}
  /\ paginas' = paginas \cup {p}
  /\ Cuenta(h, 1, Tras(p))
  /\ UNCHANGED <<viva, enTransito>>

\* No room, and the table has an unmodified page: replace in place.
reemplazar_pagina(h, p) ==
  /\ ~verificar_espacio_memoria
  /\ existe_tabla_paginas(p.tabla)
  /\ ~existe_pagina(p.tabla, p.key)
  /\ puede_reemplazar(p.tabla)
  /\ \E vieja \in Reemplazables(p.tabla) : paginas' = (paginas \ {vieja}) \cup {p}
  /\ Pasa(h, Tras(p))
  /\ UNCHANGED <<segmentos, viva, enTransito>>

\* No room and every page of the table is modified: journal, then append.
journal_y_agregar(h, p) ==
  /\ ~verificar_espacio_memoria
  /\ existe_tabla_paginas(p.tabla)
  /\ ~existe_pagina(p.tabla, p.key)
  /\ ~puede_reemplazar(p.tabla)
  /\ Enviar(MensajesJournal)
  /\ paginas' = PaginasTrasJournal \cup {p}
  /\ Cuenta(h, BajaTrasJournal + 1, Tras(p))
  /\ UNCHANGED <<segmentos, viva>>

\* No room and no segment: puede_reemplazar filters a null list.
muere_sin_segmento(h, p) ==
  /\ ~verificar_espacio_memoria
  /\ ~existe_tabla_paginas(p.tabla)
  /\ viva' = FALSE
  /\ Pasa(h, Libre)
  /\ UNCHANGED <<segmentos, paginas, enTransito>>

\* The history, kept under a strict clock, remembers the write of a client.
Recuerda(p) ==
  IF viva' /\ RelojEstricto /\ p.flag = 1
    THEN /\ ultimo' = [ultimo EXCEPT ![<<p.tabla, p.key>>] = p.timestamp]
         /\ tiradas' = tiradas \ {<<p.tabla, p.key>>}
    ELSE UNCHANGED historia

insert(h, p) ==
  /\ \/ remplazo_especifico(h, p)
     \/ agregar_pagina(h, p)
     \/ reemplazar_pagina(h, p)
     \/ journal_y_agregar(h, p)
     \/ muere_sin_segmento(h, p)
  /\ Recuerda(p)

\* The segment is made and CREATE forwarded.
create(h, t) ==
  /\ segmentos' = segmentos \cup {t}
  /\ Enviar({[op |-> "CREATE", tabla |-> t]})
  /\ Pasa(h, Libre)
  /\ UNCHANGED <<paginas, viva, historia>>

\* The segment goes with its pages, modified or not, and DROP is forwarded.
drop(h, t) ==
  /\ segmentos' = segmentos \ {t}
  /\ paginas' = paginas \ PaginasDe(t)
  /\ Cuenta(h, 0 - Cardinality(PaginasDe(t)), Libre)
  /\ Enviar({[op |-> "DROP", tabla |-> t]})
  /\ ultimo' = EnCero(ultimo, t)
  /\ tiradas' = {tk \in tiradas : tk[1] # t}
  /\ UNCHANGED viva

journal(h) ==
  /\ Enviar(MensajesJournal)
  /\ paginas' = PaginasTrasJournal
  /\ Cuenta(h, BajaTrasJournal, Libre)
  /\ UNCHANGED <<segmentos, viva, historia>>

-----------------------------------------------------------------------------
(* Requests.                                                               *)

\* Timestamps a write may carry: the Kernel stamps with its clock and the
\* memory console with a number read from the value.
SelloPosible(ts) ==
  IF RelojEstricto THEN ts = reloj + 1 ELSE TRUE

\* INSERT from the Kernel or the console (a value that is too long is only
\* logged).
Insertar(h, t, k, ts) ==
  /\ viva /\ hilo[h] = Libre
  /\ SelloPosible(ts)
  /\ Empieza(h, [op |-> "INSERT", pagina |-> nueva(t, k, ts, 1)])
  /\ reloj' = IF RelojEstricto THEN ts ELSE reloj
  /\ UNCHANGED <<cache, disco, enTransito, historia>>

\* CREATE: forwarded only when the segment is not already here.
Crear(h, t) ==
  /\ viva /\ hilo[h] = Libre
  /\ ~existe_tabla_paginas(t)
  /\ Empieza(h, [op |-> "CREATE", tabla |-> t])
  /\ UNCHANGED <<cache, disco, enTransito, reloj, historia>>

\* DROP: forwarded only when the segment is here.
Borrar(h, t) ==
  /\ viva /\ hilo[h] = Libre
  /\ existe_tabla_paginas(t)
  /\ Empieza(h, [op |-> "DROP", tabla |-> t])
  /\ UNCHANGED <<cache, disco, enTransito, reloj, historia>>

\* JOURNAL asked for by the Kernel or the console: one at a time (mutex).
Journal(h) ==
  /\ viva /\ hilo[h] = Libre
  /\ \A g \in Hilos : Trabaja(g) => hilo[g].pedido.op # "JOURNAL"
  /\ Empieza(h, [op |-> "JOURNAL"])
  /\ UNCHANGED <<cache, disco, enTransito, reloj, historia>>

\* The change of the request of thread h.
Aplica(h) ==
  /\ viva /\ Trabaja(h)
  /\ LET p == hilo[h].pedido
     IN \/ p.op = "INSERT" /\ insert(h, p.pagina)
        \/ p.op = "CREATE" /\ create(h, p.tabla)
        \/ p.op = "DROP" /\ drop(h, p.tabla)
        \/ p.op = "JOURNAL" /\ journal(h)
  /\ Cardinality(enTransito') <= MaxTransito
  /\ riesgo' = riesgo \cup SiEso("cruza", OtroTrabaja(h))
                      \cup SiEso("contador", OtroCuenta(h))
  /\ UNCHANGED <<tamanio_memoria_ocupada, disco, reloj>>

\* The same change when it overlaps, or overlapped, that of another thread:
\* any of the pages may be missing, the page may be there beside another of
\* its key, and the process may die.
SeEnredan(h) ==
  /\ viva /\ Trabaja(h)
  /\ OtroTrabaja(h) \/ "cruza" \in riesgo
  /\ LET p == hilo[h].pedido
         mas == IF p.op = "INSERT" THEN {p.pagina} ELSE {}
     IN paginas' \in SUBSET (paginas \cup mas)
  /\ segmentos' \in {segmentos, segmentos \cup {p.tabla : p \in paginas'}}
  /\ viva' \in BOOLEAN
  /\ \E d \in {-1, 0, 1} : Cuenta(h, d, Libre)
  /\ riesgo' = riesgo \cup {"cruza"} \cup SiEso("contador", OtroCuenta(h))
  /\ UNCHANGED <<tamanio_memoria_ocupada, disco, enTransito, reloj, historia>>

\* tamanio_memoria_ocupada += d: a load and a store.
Carga(h) ==
  /\ viva /\ hilo[h].fase = "cuenta"
  /\ hilo' = [hilo EXCEPT ![h] = [fase |-> "guarda", valor |-> tamanio_memoria_ocupada,
                                  delta |-> hilo[h].delta, sigue |-> hilo[h].sigue]]
  /\ UNCHANGED <<cache, disco, enTransito, reloj, historia, riesgo>>

Guarda(h) ==
  /\ viva /\ hilo[h].fase = "guarda"
  /\ tamanio_memoria_ocupada' = hilo[h].valor + hilo[h].delta
  /\ Pasa(h, hilo[h].sigue)
  /\ UNCHANGED <<segmentos, paginas, viva, disco, enTransito, reloj, historia, riesgo>>

\* SELECT of a cached key: found here, read in the next step.
SelectAcierto(h, t, k) ==
  /\ viva /\ hilo[h] = Libre
  /\ existe_pagina(t, k)
  /\ Pasa(h, Lee(t, k, FALSE))
  /\ UNCHANGED <<cache, disco, enTransito, reloj, historia, riesgo>>

\* SELECT of a key that is not cached: the request goes to the LFS and the
\* thread waits for the answer.
SelectFallo(h, t, k) ==
  /\ viva /\ hilo[h] = Libre
  /\ ~existe_pagina(t, k)
  /\ lfs_arriba
  /\ Pasa(h, [fase |-> "espera", tabla |-> t, key |-> k])
  /\ UNCHANGED <<cache, disco, enTransito, reloj, historia, riesgo>>

\* The LFS is unreachable: recv fails and bit_error is never written.  Either
\* it reads as an error, "Pagina no encontrada", and nothing changes, or the
\* value and its size are read from uninitialised memory: the outcome here.
SelectSinLFS(h, t, k) ==
  /\ viva /\ hilo[h] = Libre
  /\ ~existe_pagina(t, k)
  /\ ~lfs_arriba
  /\ viva' = FALSE
  /\ UNCHANGED <<segmentos, paginas, tamanio_memoria_ocupada, hilo, disco,
                 enTransito, reloj, historia, riesgo>>

\* The LFS answers with the newest record it has at this moment.
LFSResponde(h) ==
  /\ hilo[h].fase = "espera"
  /\ LET t == hilo[h].tabla
         k == hilo[h].key
     IN hilo' = [hilo EXCEPT ![h] =
          [fase |-> "respondido", tabla |-> t, key |-> k,
           timestamp |-> IF t \in lfs_tablas THEN lfs[<<t, k>>] ELSE 0,
           largo |-> t \in lfs_tablas /\ <<t, k>> \in lfs_largo]]
  /\ UNCHANGED <<cache, disco, enTransito, reloj, historia, riesgo>>

\* The thread takes the answer.  Timestamp 0 is "not found"; a value that fits
\* is cached as unmodified; one that does not fit is only read.
SelectCompleta(h) ==
  /\ viva /\ hilo[h].fase = "respondido"
  /\ LET r == hilo[h]
     IN \/ /\ r.timestamp = 0
           /\ Pasa(h, Libre)
           /\ UNCHANGED riesgo
        \/ /\ r.timestamp # 0 /\ ~r.largo
           /\ Empieza(h, [op |-> "INSERT",
                          pagina |-> nueva(r.tabla, r.key, r.timestamp, 0)])
        \/ /\ r.timestamp # 0 /\ r.largo
           /\ Pasa(h, Lee(r.tabla, r.key, TRUE))
           /\ UNCHANGED riesgo
  /\ UNCHANGED <<cache, disco, enTransito, reloj, historia>>

\* buscar_pagina follows a null pointer when the page is not there (any more);
\* after a miss the value is answered directly if the segment does not exist.
Responde(h) ==
  /\ viva /\ hilo[h].fase = "lee"
  /\ LET t == hilo[h].tabla
     IN viva' = \/ existe_pagina(t, hilo[h].key)
                \/ hilo[h].fallo /\ ~existe_tabla_paginas(t)
  /\ Pasa(h, Libre)
  /\ UNCHANGED <<segmentos, paginas, tamanio_memoria_ocupada, disco, enTransito,
                 reloj, historia, riesgo>>

\* A SELECT walks a list that another thread is changing.
LeeMientrasCambia(h) ==
  /\ viva /\ hilo[h].fase \in {"libre", "lee"}
  /\ OtroTrabaja(h)
  /\ viva' = FALSE
  /\ UNCHANGED <<segmentos, paginas, tamanio_memoria_ocupada, hilo, disco,
                 enTransito, reloj, historia, riesgo>>

\* The operator starts the process again: the cache is volatile.
Reiniciar ==
  /\ ~viva
  /\ viva' = TRUE
  /\ segmentos' = {}
  /\ paginas' = {}
  /\ tamanio_memoria_ocupada' = 0
  /\ hilo' = [h \in Hilos |-> Libre]
  /\ ultimo' = [tk \in Tablas \X Claves |-> 0]
  /\ tiradas' = {}
  /\ riesgo' = {}
  /\ UNCHANGED <<disco, enTransito, reloj>>

-----------------------------------------------------------------------------
(* The LFS, seen from here: one thread per connection, so the requests it  *)
(* has been sent are executed in any order.  A record is superseded only   *)
(* by one that is not older; a write to a table it does not have is        *)
(* dropped.  Other memories and its own console write to it too.           *)

EscribirLFS(t, k, ts, largo) ==
  IF t \in lfs_tablas /\ ts >= lfs[<<t, k>>]
    THEN /\ lfs' = [lfs EXCEPT ![<<t, k>>] = ts]
         /\ lfs_largo' = IF largo THEN lfs_largo \cup {<<t, k>>}
                                  ELSE lfs_largo \ {<<t, k>>}
    ELSE UNCHANGED <<lfs, lfs_largo>>

VaciarTabla(t) ==
  /\ lfs' = EnCero(lfs, t)
  /\ lfs_largo' = {tk \in lfs_largo : tk[1] # t}

\* A write the memory has accepted is lost for good when the LFS executes its
\* INSERT without having the table (the CREATE overtaken, or never made), or
\* executes after it a DROP that was asked for before it.
LFSEjecuta(m) ==
  /\ m \in enTransito
  /\ enTransito' = enTransito \ {m}
  /\ \/ /\ m.op = "INSERT"
        /\ EscribirLFS(m.tabla, m.key, m.timestamp, FALSE)
        /\ tiradas' = tiradas \cup
             {tk \in {<<m.tabla, m.key>>} :
                m.tabla \notin lfs_tablas /\ 0 < ultimo[tk] /\ ultimo[tk] <= m.timestamp}
        /\ UNCHANGED lfs_tablas
     \/ /\ m.op = "CREATE"
        /\ lfs_tablas' = lfs_tablas \cup {m.tabla}
        /\ UNCHANGED <<lfs, lfs_largo, tiradas>>
     \/ /\ m.op = "DROP"
        /\ lfs_tablas' = lfs_tablas \ {m.tabla}
        /\ VaciarTabla(m.tabla)
        /\ tiradas' = tiradas \cup
             {tk \in Tablas \X Claves :
                tk[1] = m.tabla /\ 0 < ultimo[tk] /\ ultimo[tk] <= lfs[tk]}
  /\ UNCHANGED <<cache, hilo, lfs_arriba, reloj, ultimo, riesgo>>

OtroEscribe(t, k, ts, largo) ==
  /\ t \in lfs_tablas
  /\ ts # 0 /\ SelloPosible(ts)
  /\ largo => LFSGuardaLargos
  /\ EscribirLFS(t, k, ts, largo)
  /\ reloj' = IF RelojEstricto THEN ts ELSE reloj
  /\ UNCHANGED <<cache, hilo, lfs_tablas, lfs_arriba, enTransito, historia, riesgo>>

CambiaLFS ==
  /\ LFSPuedeCaer
  /\ lfs_arriba' = ~lfs_arriba
  /\ UNCHANGED <<cache, hilo, lfs, lfs_largo, lfs_tablas, enTransito, reloj,
                 historia, riesgo>>

-----------------------------------------------------------------------------
Next ==
  \/ \E h \in Hilos, t \in Tablas, k \in Claves, ts \in Timestamps : Insertar(h, t, k, ts)
  \/ \E h \in Hilos : Aplica(h)
  \/ \E h \in Hilos : SeEnredan(h)
  \/ \E h \in Hilos : Carga(h)
  \/ \E h \in Hilos : Guarda(h)
  \/ \E h \in Hilos, t \in Tablas, k \in Claves : SelectAcierto(h, t, k)
  \/ \E h \in Hilos, t \in Tablas, k \in Claves : SelectFallo(h, t, k)
  \/ \E h \in Hilos, t \in Tablas, k \in Claves : SelectSinLFS(h, t, k)
  \/ \E h \in Hilos : LFSResponde(h)
  \/ \E h \in Hilos : SelectCompleta(h)
  \/ \E h \in Hilos : Responde(h)
  \/ \E h \in Hilos : LeeMientrasCambia(h)
  \/ \E h \in Hilos, t \in Tablas : Crear(h, t)
  \/ \E h \in Hilos, t \in Tablas : Borrar(h, t)
  \/ \E h \in Hilos : Journal(h)
  \/ Reiniciar
  \/ \E m \in enTransito : LFSEjecuta(m)
  \/ \E t \in Tablas, k \in Claves, ts \in Timestamps, largo \in BOOLEAN :
       OtroEscribe(t, k, ts, largo)
  \/ CambiaLFS

Spec == Init /\ [][Next]_vars

-----------------------------------------------------------------------------
(* Properties.                                                             *)

\* Until two threads overlap, the counter that decides whether there is room
\* is the number of pages held, through every replacement, eviction, journal
\* and drop; while a thread is counting, it is short of it by what that thread
\* has still to store.
Contabilidad ==
  riesgo = {} =>
    /\ (\A h \in Hilos : ~Contando(h)) => tamanio_memoria_ocupada = Cardinality(paginas)
    /\ \A h \in Hilos : Contando(h) =>
         tamanio_memoria_ocupada + hilo[h].delta = Cardinality(paginas)

\* Until two threads overlap on the lists, a key of a table has at most one
\* page, and only in a segment that exists.
ClaveUnica ==
  "cruza" \notin riesgo =>
    /\ \A p \in paginas : p.tabla \in segmentos
    /\ \A p, q \in paginas : p.tabla = q.tabla /\ p.key = q.key => p = q

\* How far beyond the advertised maximum the cache can go while no two threads
\* overlap: journalling to make room frees nothing when the other tables hold
\* only unmodified pages, so each table that has pages may stand for one page
\* too many, except one.
TablasDe(P) == {p.tabla : p \in P}
CapacidadAcotada ==
  riesgo = {} =>
    Cardinality(paginas) < max_paginas_disponibles + Cardinality(TablasDe(paginas))

\* What the startup message "Cantidad MAXIMA de paginas disponibles" and the
\* comment of the journal branch of insert promise: never more pages than that.
CapacidadRespetada == Cardinality(paginas) <= max_paginas_disponibles

\* Until two threads overlap on the lists, a modified page disappears only by
\* being sent to the LFS, with its segment, with the process, by a page of the
\* same key, or by an eviction that confuses it with an unmodified page of the
\* same table and timestamp.
PerdidaJustificada ==
  \A p \in paginas_modificadas \ paginas' :
    \/ InsertDe(p) \in enTransito' \/ ~lfs_arriba
    \/ p.tabla \notin segmentos'
    \/ \E q \in paginas' : q.tabla = p.tabla /\ q.key = p.key
    \/ \E q \in paginas : q.tabla = p.tabla /\ q.flag = 0 /\ q.timestamp = p.timestamp
SoloPierdePorEmpate == [][("cruza" \notin riesgo') => PerdidaJustificada]_vars

\* With one thread, a strict clock and a reachable LFS, the newest write
\* accepted for a key since the process started is, as long as it lives, in a
\* modified page, on its way to the LFS, or in the LFS, itself or superseded by
\* a later one; or the LFS has thrown it away, because it did not have the
\* table yet or because a DROP asked for before the write came after it.
EscrituraConservada ==
  viva => \A t \in Tablas, k \in Claves :
    \/ ultimo[<<t, k>>] = 0
    \/ <<t, k>> \in tiradas
    \/ lfs[<<t, k>>] >= ultimo[<<t, k>>]
    \/ \E m \in enTransito : m.op = "INSERT" /\ m.tabla = t /\ m.key = k
                               /\ m.timestamp >= ultimo[<<t, k>>]
    \/ \E p \in PaginasConClave(t, k) : p.flag = 1 /\ p.timestamp >= ultimo[<<t, k>>]
=============================================================================
