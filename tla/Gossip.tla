------------------------------- MODULE Gossip -------------------------------
(***************************************************************************)
(* How the memories come to know one another.  The gossip thread of a      *)
(* memory connects to each of its seeds in turn, sends its tabla_gossip    *)
(* and adds what it is answered; the server thread, which serves one       *)
(* connection at a time, adds what it receives and answers with its own.   *)
(*                                                                         *)
(* Both threads test and append to the same list without a lock.  Nothing  *)
(* tells a reader that the other end has gone: a recv that fails leaves    *)
(* its variable uninitialised, and a second send kills the process.  An    *)
(* entry is never removed.                                                 *)
(*                                                                         *)
(* "riesgo" remembers what the code does not guard against: appends that   *)
(* cross ("cruza"), a peer that goes before it has sent what is expected   *)
(* ("corte") or before it has received it ("tuberia").                     *)
(***************************************************************************)
EXTENDS Integers, Sequences, FiniteSets

CONSTANTS
  Memorias,      \* MEMORY_NUMBER of each process
  Semillas,      \* MEMORY_NUMBERS of the configuration of each
  Basura,        \* a number nobody sent
  MaxCaidas,     \* bound on the crashes from outside
  Nadie          \* no memory

ASSUME ConstantesGossip ==
  /\ Semillas \in [Memorias -> Seq(Memorias)]
  /\ \A m \in Memorias : \A k \in 1..Len(Semillas[m]) : Semillas[m][k] # m
  /\ MaxCaidas \in Nat
  /\ Nadie \notin Memorias /\ Basura \notin Memorias

VARIABLES
  viva,              \* "si", "caida" (from outside) or "muerta" (of itself)
  tabla_gossip,      \* the linked list of SEEDs, by number
  elements_count,    \* what it believes to be its length
  conexiones,        \* of each server: the one it serves, and its backlog
  respuesta,         \* what the gossip thread of each has been answered
  pc, porAgregar, ultimo,  \* each thread: where, seeds to add, last element found
  i,                 \* the seed the gossip thread is at
  caidas, riesgo     \* crashes so far, history

tabla == <<tabla_gossip, elements_count>>
red == <<conexiones, respuesta>>
hilos == <<pc, porAgregar, ultimo>>
vars == <<viva, tabla, red, hilos, i, caidas, riesgo>>

Hilos == Memorias \X {"gossiping", "servidor"}
G(m) == <<m, "gossiping">>
S(m) == <<m, "servidor">>
Otro(h) == IF h[2] = "gossiping" THEN S(h[1]) ELSE G(h[1])
Numeros == Memorias \cup {Basura}

Elementos(s) == {s[k] : k \in 1..Len(s)}
En(h, lugar) == viva[h[1]] = "si" /\ pc[h] = lugar
Va(h, lugar) == pc' = [pc EXCEPT ![h] = lugar]

\* The seed a gossip thread is connected to, and whether that end is still there.
Par(m) == Semillas[m][i[m]]
Posicion(m) == {k \in 1..Len(conexiones[Par(m)]) : conexiones[Par(m)][k].de = m}
Conectada(m) == Posicion(m) # {}

\* The connections without memory m at either end.
Cortadas(m) ==
  [s \in Memorias |->
     IF s = m THEN <<>>
     ELSE [k \in 1..Len(conexiones[s]) |->
             IF conexiones[s][k].de = m THEN [conexiones[s][k] EXCEPT !.de = Nadie]
                                        ELSE conexiones[s][k]]]

\* The process of m ends.
Termina(m, como) ==
  /\ viva' = [viva EXCEPT ![m] = como]
  /\ conexiones' = Cortadas(m)
  /\ respuesta' = [respuesta EXCEPT ![m] = <<>>]
  /\ pc' = [pc EXCEPT ![G(m)] = "conecta", ![S(m)] = "acepta"]
  /\ porAgregar' = [porAgregar EXCEPT ![G(m)] = <<>>, ![S(m)] = <<>>]
  /\ ultimo' = [ultimo EXCEPT ![G(m)] = 0, ![S(m)] = 0]
  /\ i' = [i EXCEPT ![m] = 1]
  /\ UNCHANGED tabla

-----------------------------------------------------------------------------
(* Sending and receiving a list.                                            *)

\* Mutant: the last element is one too many.
CompletaDeMenos(m) == elements_count[m] < Len(tabla_gossip[m])
\* list_get finds every element up to elements_count.
Completa(m) == elements_count[m] <= Len(tabla_gossip[m])

\* It does not, in enviar_memorias or in list_add, and the answer is used.
SinElemento(h) ==
  /\ \E lugar \in {"envia_lista", "envia_tabla", "toma"} : En(h, lugar)
  /\ ~Completa(h[1])
  /\ Termina(h[1], "muerta")
  /\ UNCHANGED <<caidas, riesgo>>

\* enviar_memorias takes the size first: what is appended meanwhile is not sent.
enviar_memorias(m) == SubSeq(tabla_gossip[m], 1, elements_count[m])

\* A send to an end that is gone: the first makes it answer with a reset, the next
\* raises SIGPIPE.
Tuberia(h, hasta) ==
  /\ riesgo' = riesgo \cup {"tuberia"}
  /\ UNCHANGED caidas
  /\ \/ Va(h, hasta) /\ UNCHANGED <<viva, tabla, red, porAgregar, ultimo, i>>
     \/ Termina(h[1], "muerta")

\* recv fails: cant is whatever was there, and so is what it counts.
Corte(h) ==
  /\ riesgo' = riesgo \cup {"corte"}
  /\ UNCHANGED caidas
  /\ \/ /\ \E q \in {<<>>} \cup {<<x>> : x \in Numeros} : porAgregar' = [porAgregar EXCEPT ![h] = q]
        /\ Va(h, "busca")
        /\ UNCHANGED <<viva, tabla, red, ultimo, i>>
     \/ Termina(h[1], "muerta")

-----------------------------------------------------------------------------
(* recibir_seed: for each seed, table_has_memory and list_add.              *)

\* Where a thread goes when it has added all.
Despues(h) == IF h[2] = "gossiping" THEN "cierra" ELSE "envia_tabla"

\* Mutant: no test.
AgregaSiempre(h) ==
  /\ En(h, "busca")
  /\ Va(h, IF porAgregar[h] = <<>> THEN Despues(h) ELSE "toma")
  /\ UNCHANGED <<viva, tabla, red, porAgregar, ultimo, i, caidas, riesgo>>
table_has_memory(h) ==
  /\ En(h, "busca")
  /\ IF porAgregar[h] = <<>>
       THEN Va(h, Despues(h)) /\ UNCHANGED porAgregar
     ELSE IF Head(porAgregar[h]) \in Elementos(tabla_gossip[h[1]])
       THEN porAgregar' = [porAgregar EXCEPT ![h] = Tail(@)] /\ UNCHANGED pc
       ELSE Va(h, "toma") /\ UNCHANGED porAgregar
  /\ UNCHANGED <<viva, tabla, red, ultimo, i, caidas, riesgo>>

\* list_add finds the last element by its number.
TomaUltimo(h) ==
  /\ En(h, "toma")
  /\ Completa(h[1])
  /\ ultimo' = [ultimo EXCEPT ![h] = elements_count[h[1]]]
  /\ Va(h, "enlaza")
  /\ UNCHANGED <<viva, tabla, red, porAgregar, i, caidas, riesgo>>

\* The other thread is about to append the same seed, or to the same element.
Cruza(h) ==
  \/ pc[Otro(h)] = "enlaza"
  \/ pc[Otro(h)] = "toma" /\ Head(porAgregar[Otro(h)]) = Head(porAgregar[h])

\* Mutant: list_replace of the last element.
EnlazaEncima(h) ==
  LET m == h[1]
  IN  /\ En(h, "enlaza")
      /\ tabla_gossip' = [tabla_gossip EXCEPT ![m] =
                            Append(SubSeq(@, 1, Len(@) - 1), Head(porAgregar[h]))]
      /\ porAgregar' = [porAgregar EXCEPT ![h] = Tail(@)]
      /\ Va(h, "busca")
      /\ UNCHANGED <<viva, elements_count, red, ultimo, i, caidas, riesgo>>
\* It links the new element there, whatever has been linked since: that is cut off,
\* and with it (0) the element the other thread has found, if it comes later.
Enlaza(h) ==
  LET m == h[1]
  IN  /\ En(h, "enlaza")
      /\ tabla_gossip' = [tabla_gossip EXCEPT
                            ![m] = IF ultimo[h] = 0 THEN @
                                   ELSE Append(SubSeq(@, 1, ultimo[h]), Head(porAgregar[h]))]
      /\ elements_count' = [elements_count EXCEPT ![m] = @ + 1]
      /\ porAgregar' = [porAgregar EXCEPT ![h] = Tail(@)]
      /\ ultimo' = [ultimo EXCEPT ![h] = 0, ![Otro(h)] = IF ultimo[h] \in 1..(@ - 1) THEN 0 ELSE @]
      /\ Va(h, "busca")
      /\ riesgo' = riesgo \cup (IF Cruza(h) THEN {"cruza"} ELSE {})
      /\ UNCHANGED <<viva, red, i, caidas>>

recibir_seed(h) == table_has_memory(h) \/ TomaUltimo(h) \/ Enlaza(h)

-----------------------------------------------------------------------------
(* The gossip thread.                                                       *)

\* The next seed, or the first again after the sleep.
Siguiente(m) == i' = [i EXCEPT ![m] = (@ % Len(Semillas[m])) + 1]

Nueva(m) == [de |-> m, operacion |-> FALSE, lista |-> <<>>]

iniciar_conexion_gossiping(m) ==
  /\ En(G(m), "conecta") /\ Semillas[m] # <<>>
  /\ IF viva[Par(m)] = "si"
       THEN /\ conexiones' = [conexiones EXCEPT ![Par(m)] = Append(@, Nueva(m))]
            /\ Va(G(m), "envia_operacion")
            /\ UNCHANGED i
       ELSE Siguiente(m) /\ UNCHANGED <<conexiones, pc>>
  /\ UNCHANGED <<viva, tabla, respuesta, porAgregar, ultimo, caidas, riesgo>>

\* The connection of m as the seed sees it, after a change of one field.
Con(m, c(_)) == conexiones' = [conexiones EXCEPT
                              ![Par(m)] = [k \in DOMAIN @ |-> IF k \in Posicion(m) THEN c(@[k]) ELSE @[k]]]

EnviaOperacion(m) ==
  /\ En(G(m), "envia_operacion")
  /\ IF Conectada(m)
       THEN /\ LET c(x) == [x EXCEPT !.operacion = TRUE] IN Con(m, c)
            /\ Va(G(m), "envia_lista")
            /\ UNCHANGED <<viva, tabla, respuesta, porAgregar, ultimo, i, caidas, riesgo>>
       ELSE Tuberia(G(m), "envia_lista")

EnviaLista(m) ==
  /\ En(G(m), "envia_lista") /\ Completa(m)
  /\ IF Conectada(m)
       THEN /\ LET c(x) == [x EXCEPT !.lista = enviar_memorias(m)] IN Con(m, c)
            /\ Va(G(m), "recibe")
            /\ UNCHANGED <<viva, tabla, respuesta, porAgregar, ultimo, i, caidas, riesgo>>
       ELSE Tuberia(G(m), "recibe")

RecibeRespuesta(m) ==
  /\ En(G(m), "recibe")
  /\ \/ /\ respuesta[m] # <<>>
        /\ porAgregar' = [porAgregar EXCEPT ![G(m)] = respuesta[m]]
        /\ respuesta' = [respuesta EXCEPT ![m] = <<>>]
        /\ Va(G(m), "busca")
        /\ UNCHANGED <<viva, tabla, conexiones, ultimo, i, caidas, riesgo>>
     \/ respuesta[m] = <<>> /\ ~Conectada(m) /\ Corte(G(m))

terminar_conexion(m) ==
  /\ En(G(m), "cierra")
  /\ LET c(x) == [x EXCEPT !.de = Nadie] IN Con(m, c)
  /\ Siguiente(m)
  /\ Va(G(m), "conecta")
  /\ UNCHANGED <<viva, tabla, respuesta, porAgregar, ultimo, caidas, riesgo>>

gossiping(m) ==
  \/ iniciar_conexion_gossiping(m) \/ EnviaOperacion(m) \/ EnviaLista(m)
  \/ RecibeRespuesta(m) \/ recibir_seed(G(m)) \/ terminar_conexion(m)
  \/ SinElemento(G(m))

-----------------------------------------------------------------------------
(* The server thread.                                                       *)

esperar_cliente(m) ==
  /\ En(S(m), "acepta") /\ conexiones[m] # <<>>
  /\ Va(S(m), "opera")
  /\ UNCHANGED <<viva, tabla, red, porAgregar, ultimo, i, caidas, riesgo>>

\* The connection is kept until the client closes it.
recibir_operacion(m) ==
  /\ En(S(m), "opera")
  /\ \/ /\ Head(conexiones[m]).operacion
        /\ conexiones' = [conexiones EXCEPT ![m][1].operacion = FALSE]
        /\ Va(S(m), "recibe")
     \/ /\ ~Head(conexiones[m]).operacion /\ Head(conexiones[m]).de = Nadie
        /\ conexiones' = [conexiones EXCEPT ![m] = Tail(@)]
        /\ Va(S(m), "acepta")
  /\ UNCHANGED <<viva, tabla, respuesta, porAgregar, ultimo, i, caidas, riesgo>>

\* Mutant: it answers and adds nothing.
RecibeSinAgregar(m) ==
  /\ En(S(m), "recibe")
  /\ \/ /\ Head(conexiones[m]).lista # <<>>
        /\ conexiones' = [conexiones EXCEPT ![m][1].lista = <<>>]
        /\ Va(S(m), "busca")
        /\ UNCHANGED <<viva, tabla, respuesta, porAgregar, ultimo, i, caidas, riesgo>>
     \/ Head(conexiones[m]).lista = <<>> /\ Head(conexiones[m]).de = Nadie /\ Corte(S(m))
RecibePedido(m) ==
  /\ En(S(m), "recibe")
  /\ \/ /\ Head(conexiones[m]).lista # <<>>
        /\ porAgregar' = [porAgregar EXCEPT ![S(m)] = Head(conexiones[m]).lista]
        /\ conexiones' = [conexiones EXCEPT ![m][1].lista = <<>>]
        /\ Va(S(m), "busca")
        /\ UNCHANGED <<viva, tabla, respuesta, ultimo, i, caidas, riesgo>>
     \/ Head(conexiones[m]).lista = <<>> /\ Head(conexiones[m]).de = Nadie /\ Corte(S(m))

EnviaTabla(m) ==
  /\ En(S(m), "envia_tabla") /\ Completa(m)
  /\ IF Head(conexiones[m]).de # Nadie
       THEN /\ respuesta' = [respuesta EXCEPT ![Head(conexiones[m]).de] = enviar_memorias(m)]
            /\ Va(S(m), "opera")
            /\ UNCHANGED <<viva, tabla, conexiones, porAgregar, ultimo, i, caidas, riesgo>>
       ELSE Tuberia(S(m), "opera")

servidor(m) ==
  \/ esperar_cliente(m) \/ recibir_operacion(m) \/ RecibePedido(m)
  \/ recibir_seed(S(m)) \/ EnviaTabla(m) \/ SinElemento(S(m))

-----------------------------------------------------------------------------
(* The specification.                                                       *)

Init ==
  /\ viva = [m \in Memorias |-> "si"]
  /\ tabla_gossip = [m \in Memorias |-> <<m>>]
  /\ elements_count = [m \in Memorias |-> 1]
  /\ conexiones = [m \in Memorias |-> <<>>]
  /\ respuesta = [m \in Memorias |-> <<>>]
  /\ pc = [h \in Hilos |-> IF h[2] = "gossiping" THEN "conecta" ELSE "acepta"]
  /\ porAgregar = [h \in Hilos |-> <<>>]
  /\ ultimo = [h \in Hilos |-> 0]
  /\ i = [m \in Memorias |-> 1]
  /\ caidas = 0 /\ riesgo = {}

Cae(m) ==
  /\ viva[m] = "si" /\ caidas < MaxCaidas
  /\ Termina(m, "caida")
  /\ caidas' = caidas + 1
  /\ UNCHANGED riesgo

\* startup_tabla_gossip: a memory that starts again knows only itself.
Arranca(m) ==
  /\ viva[m] # "si"
  /\ viva' = [viva EXCEPT ![m] = "si"]
  /\ tabla_gossip' = [tabla_gossip EXCEPT ![m] = <<m>>]
  /\ elements_count' = [elements_count EXCEPT ![m] = 1]
  /\ UNCHANGED <<red, hilos, i, caidas, riesgo>>

Next == \E m \in Memorias : gossiping(m) \/ servidor(m) \/ Cae(m) \/ Arranca(m)

\* Every thread that is not blocked runs; a memory need not be started again.
Equidad == \A m \in Memorias : WF_vars(gossiping(m)) /\ WF_vars(servidor(m))
Spec == Init /\ [][Next]_vars /\ Equidad

-----------------------------------------------------------------------------
(* Properties.                                                              *)

Lugares == {"conecta", "envia_operacion", "envia_lista", "recibe", "busca", "toma", "enlaza",
            "cierra", "acepta", "opera", "envia_tabla"}

TypeOK ==
  /\ viva \in [Memorias -> {"si", "caida", "muerta"}]
  /\ tabla_gossip \in [Memorias -> Seq(Numeros)]
  /\ elements_count \in [Memorias -> Nat]
  /\ conexiones \in [Memorias -> Seq([de : Memorias \cup {Nadie}, operacion : BOOLEAN,
                                      lista : Seq(Numeros)])]
  /\ respuesta \in [Memorias -> Seq(Numeros)]
  /\ pc \in [Hilos -> Lugares]
  /\ porAgregar \in [Hilos -> Seq(Numeros)] /\ ultimo \in [Hilos -> Nat]
  /\ \A m \in Memorias : i[m] = 1 \/ i[m] \in DOMAIN Semillas[m]
  /\ caidas \in 0..MaxCaidas
  /\ riesgo \subseteq {"cruza", "corte", "tuberia"}

\* Until two appends cross, the table of a memory begins with itself, names nobody
\* twice and is as long as the list believes: whatever its two threads hear at the
\* same time, and from whom.
TablaSana ==
  "cruza" \notin riesgo =>
    \A m \in Memorias :
      /\ tabla_gossip[m][1] = m
      /\ \A j, k \in 1..Len(tabla_gossip[m]) : tabla_gossip[m][j] = tabla_gossip[m][k] => j = k
      /\ elements_count[m] = Len(tabla_gossip[m])

\* A memory forgets nobody while it lives: until two appends have crossed, its table only
\* grows at the end, whatever it is told and by whom.
NadieOlvida ==
  [][\A m \in Memorias :
       viva[m] = "si" /\ viva'[m] = "si" /\ "cruza" \notin riesgo =>
         SubSeq(tabla_gossip'[m], 1, Len(tabla_gossip[m])) = tabla_gossip[m]]_vars

\* A memory dies of itself only after a peer went in the middle of an exchange or its
\* threads crossed: exchanges that end, with restarts between them, harm nobody.
SinMuertes == \A m \in Memorias : viva[m] = "muerta" => riesgo # {}

\* Memories that a chain of seeds joins, whichever way each one points.
Vecinas(m) == {n \in Memorias : n \in Elementos(Semillas[m]) \/ m \in Elementos(Semillas[n])}
Enlazadas(m) ==
  {n \in Memorias : \A C \in SUBSET Memorias :
     m \in C /\ (\A x \in C : Vecinas(x) \subseteq C) => n \in C}

\* A memory hears of nobody else: until a recv fails, what its table names is joined to it.
SoloEnlazadas ==
  "corte" \notin riesgo => \A m \in Memorias : Elementos(tabla_gossip[m]) \subseteq Enlazadas(m)

\* Once they are all up they all come to know one another, those that have no seeds
\* and those that had forgotten everything included, and nobody else.
Convergencia ==
  <>[](\A m \in Memorias : viva[m] = "si")
    => <>[](\/ riesgo # {}
            \/ \A m \in Memorias : Enlazadas(m) = Elementos(tabla_gossip[m]))
=============================================================================
