---------------------------- MODULE GossipProofs ----------------------------
(***************************************************************************)
(* Proofs about Gossip for any memories, whatever seeds each one has, and  *)
(* any number of crashes and restarts.                                     *)
(*                                                                         *)
(* Tipos, with Puestos, is inductive by itself.  Sana says what a thread   *)
(* knows between its test and its append, and holds until two of them      *)
(* cross: from it, that tables are sane, that nobody dies and that nothing *)
(* is forgotten.  Enlazado follows a name from table to connection to      *)
(* answer, and holds until a recv fails: nobody hears of a stranger.       *)
(***************************************************************************)
EXTENDS Gossip, SequenceTheorems, TLAPS

Conexion == [de : Memorias \cup {Nadie}, operacion : BOOLEAN, lista : Seq(Numeros)]

\* The parts of the type invariant, by what their variables are about.
TipoVida ==
  /\ viva \in [Memorias -> {"si", "caida", "muerta"}]
  /\ caidas \in 0..MaxCaidas
  /\ riesgo \subseteq {"cruza", "corte", "tuberia"}
TipoTabla ==
  /\ tabla_gossip \in [Memorias -> Seq(Numeros)]
  /\ elements_count \in [Memorias -> Nat]
TipoRed ==
  /\ conexiones \in [Memorias -> Seq(Conexion)]
  /\ respuesta \in [Memorias -> Seq(Numeros)]
TipoHilos ==
  /\ pc \in [Hilos -> Lugares]
  /\ porAgregar \in [Hilos -> Seq(Numeros)] /\ ultimo \in [Hilos -> Nat]
TipoIndice ==
  /\ i \in [Memorias -> Nat]
  /\ \A m \in Memorias : i[m] = 1 \/ i[m] \in DOMAIN Semillas[m]

\* What the steps rely on: a thread that is adding has something to add, and the
\* element it has found is still in the list.
Agregando(h) ==
  /\ pc[h] \in {"toma", "enlaza"} => porAgregar[h] # <<>>
  /\ ultimo[h] <= Len(tabla_gossip[h[1]])
\* A gossip thread leaves its place only with a seed to talk to, a server only with a
\* connection, and a process that has ended has no thread anywhere.
Ocupada(m) ==
  /\ pc[G(m)] # "conecta" => Semillas[m] # <<>>
  /\ pc[S(m)] # "acepta" => conexiones[m] # <<>>
  /\ viva[m] # "si" => /\ pc[G(m)] = "conecta" /\ pc[S(m)] = "acepta"
                       /\ ultimo[G(m)] = 0 /\ ultimo[S(m)] = 0
Puestos == (\A h \in Hilos : Agregando(h)) /\ (\A m \in Memorias : Ocupada(m))

Tipos == TipoVida /\ TipoTabla /\ TipoRed /\ TipoHilos /\ TipoIndice /\ Puestos

\* The table of a memory, and what each of its threads is about to add to it: nobody
\* the table names, and after its last element.
SanaDe(m) ==
  /\ tabla_gossip[m] # <<>>
  /\ tabla_gossip[m][1] = m
  /\ \A j, k \in 1..Len(tabla_gossip[m]) : tabla_gossip[m][j] = tabla_gossip[m][k] => j = k
  /\ elements_count[m] = Len(tabla_gossip[m])
Ausente(h) == \A k \in 1..Len(tabla_gossip[h[1]]) : tabla_gossip[h[1]][k] # Head(porAgregar[h])
PorAgregarSana(h) ==
  /\ pc[h] \in {"toma", "enlaza"} => Ausente(h)
  /\ pc[h] = "enlaza" => ultimo[h] = Len(tabla_gossip[h[1]])
Sana ==
  "cruza" \notin riesgo => /\ \A m \in Memorias : SanaDe(m)
                           /\ \A h \in Hilos : PorAgregarSana(h)

-----------------------------------------------------------------------------
(* The threads.                                                             *)

LEMMA LosHilos ==
  /\ \A m \in Memorias : /\ G(m) \in Hilos /\ S(m) \in Hilos
                         /\ G(m)[1] = m /\ S(m)[1] = m
                         /\ Otro(G(m)) = S(m) /\ Otro(S(m)) = G(m)
  /\ \A m, n \in Memorias : /\ G(m) # S(n)
                            /\ G(m) = G(n) => m = n
                            /\ S(m) = S(n) => m = n
  /\ \A h \in Hilos : /\ h[1] \in Memorias /\ Otro(h) \in Hilos
                      /\ Otro(h) # h /\ Otro(h)[1] = h[1]
                      /\ h = G(h[1]) \/ h = S(h[1])
  /\ \A g, h \in Hilos : g[1] = h[1] => g = h \/ g = Otro(h)
  BY DEF Hilos, G, S, Otro

-----------------------------------------------------------------------------
(* Types.                                                                   *)

LEMMA FuncionSeq ==
  ASSUME NEW C, NEW n \in Nat, NEW f \in [1..n -> C]
  PROVE  f \in Seq(C) /\ Len(f) = n
  OBVIOUS

LEMMA CambiaPrimera ==
  ASSUME NEW C, NEW s \in Seq(C), s # <<>>
  PROVE  /\ s[1] \in C
         /\ \A x \in C : [s EXCEPT ![1] = x] \in Seq(C) /\ [s EXCEPT ![1] = x] # <<>>
<1>1. 1 \in 1..Len(s)
  BY EmptySeq
<1>2. ASSUME NEW x \in C
      PROVE  [s EXCEPT ![1] = x] \in Seq(C) /\ Len([s EXCEPT ![1] = x]) = Len(s)
  BY <1>1, ExceptSeq
<1> QED
  BY <1>1, <1>2, EmptySeq

LEMMA CortadasTipo ==
  ASSUME TipoRed, NEW m \in Memorias
  PROVE  /\ Cortadas(m) \in [Memorias -> Seq(Conexion)]
         /\ \A s \in Memorias : s # m /\ conexiones[s] # <<>> => Cortadas(m)[s] # <<>>
<1> DEFINE c(s) == [k \in 1..Len(conexiones[s]) |->
                     IF conexiones[s][k].de = m THEN [conexiones[s][k] EXCEPT !.de = Nadie]
                                                ELSE conexiones[s][k]]
<1>1. ASSUME NEW s \in Memorias
      PROVE  c(s) \in Seq(Conexion) /\ (conexiones[s] # <<>> => c(s) # <<>>)
  <2>1. conexiones[s] \in Seq(Conexion) /\ Len(conexiones[s]) \in Nat
    BY DEF TipoRed
  <2>2. \A k \in 1..Len(conexiones[s]) : c(s)[k] \in Conexion
    <3>1. ASSUME NEW x \in Conexion
          PROVE  [x EXCEPT !.de = Nadie] \in Conexion
      BY DEF Conexion
    <3>2. \A k \in 1..Len(conexiones[s]) : conexiones[s][k] \in Conexion
      BY <2>1
    <3> QED
      BY <3>1, <3>2
  <2>3. c(s) \in Seq(Conexion) /\ Len(c(s)) = Len(conexiones[s])
    <3>1. c(s) \in [1..Len(conexiones[s]) -> Conexion]
      BY <2>1, <2>2
    <3> QED
      BY <2>1, <3>1, FuncionSeq
  <2> QED
    BY <2>1, <2>3, EmptySeq
<1>2. <<>> \in Seq(Conexion)
  OBVIOUS
<1>3. Cortadas(m) = [s \in Memorias |-> IF s = m THEN <<>> ELSE c(s)]
  BY DEF Cortadas
<1> QED
  BY <1>1, <1>2, <1>3

\* A process that ends, of itself or not, leaves nobody half way.
LEMMA TerminaTipos ==
  ASSUME Tipos, NEW m \in Memorias, NEW como \in {"caida", "muerta"}, Termina(m, como),
         caidas' \in 0..MaxCaidas, riesgo' \subseteq {"cruza", "corte", "tuberia"}
  PROVE  Tipos'
<1>1. TipoVida'
  BY DEF Tipos, TipoVida, Termina
<1>2. TipoTabla'
  BY DEF Tipos, TipoTabla, Termina, tabla
<1>3. TipoRed'
  BY CortadasTipo DEF Tipos, TipoRed, Termina
<1>4. TipoHilos'
  <2>1. G(m) \in Hilos /\ S(m) \in Hilos /\ <<>> \in Seq(Numeros)
        /\ "conecta" \in Lugares /\ "acepta" \in Lugares
    BY LosHilos DEF Lugares
  <2> QED
    BY <2>1 DEF Tipos, TipoHilos, Termina
<1>5. TipoIndice'
  BY DEF Tipos, TipoIndice, Termina
<1>6. ASSUME NEW h \in Hilos PROVE Agregando(h)'
  <2>1. /\ Agregando(h) /\ tabla_gossip' = tabla_gossip /\ tabla_gossip \in [Memorias -> Seq(Numeros)]
        /\ h[1] \in Memorias /\ Len(tabla_gossip[h[1]]) \in Nat
    BY LosHilos DEF Tipos, Puestos, TipoTabla, Termina, tabla
  <2>2. CASE h = G(m) \/ h = S(m)
    BY <2>1, <2>2, LosHilos DEF Agregando, Termina, Tipos, TipoHilos
  <2>3. CASE h # G(m) /\ h # S(m)
    BY <2>1, <2>3, LosHilos DEF Agregando, Termina, Tipos, TipoHilos
  <2> QED
    BY <2>2, <2>3
<1>7. ASSUME NEW n \in Memorias PROVE Ocupada(n)'
  <2>1. Ocupada(n) /\ viva \in [Memorias -> {"si", "caida", "muerta"}] /\ TipoHilos /\ TipoRed
    BY DEF Tipos, Puestos, TipoVida
  <2>2. CASE n = m
    BY <2>1, <2>2, LosHilos DEF Ocupada, Termina, TipoHilos
  <2>3. CASE n # m
    BY <2>1, <2>3, LosHilos, CortadasTipo DEF Ocupada, Termina, TipoHilos
  <2> QED
    BY <2>2, <2>3
<1> QED
  BY <1>1, <1>2, <1>3, <1>4, <1>5, <1>6, <1>7 DEF Tipos, Puestos

\* A thread that goes to another place without adding to the table.
LEMMA AvanzaPuestos ==
  ASSUME Tipos, NEW h \in Hilos, NEW desde \in Lugares, En(h, desde),
         NEW lugar \in Lugares, Va(h, lugar),
         NEW q \in Seq(Numeros), porAgregar' = [porAgregar EXCEPT ![h] = q],
         lugar \in {"toma", "enlaza"} => q # <<>>,
         h = G(h[1]) /\ lugar # "conecta" => Semillas[h[1]] # <<>>,
         h = S(h[1]) /\ lugar # "acepta" => conexiones'[h[1]] # <<>>,
         \A n \in Memorias : h # S(n) /\ conexiones[n] # <<>> => conexiones'[n] # <<>>,
         UNCHANGED <<viva, tabla_gossip, ultimo>>
  PROVE  TipoHilos' /\ Puestos'
<1>1. TipoHilos'
  BY DEF Tipos, TipoHilos, Va
<1>2. ASSUME NEW g \in Hilos PROVE Agregando(g)'
  <2>1. Agregando(g) /\ TipoHilos
    BY DEF Tipos, Puestos
  <2>2. CASE g = h
    BY <2>1, <2>2 DEF Agregando, Va, TipoHilos
  <2>3. CASE g # h
    BY <2>1, <2>3 DEF Agregando, Va, TipoHilos
  <2> QED
    BY <2>2, <2>3
<1>3. ASSUME NEW n \in Memorias PROVE Ocupada(n)'
  <2>1. Ocupada(n) /\ TipoHilos /\ h[1] \in Memorias /\ viva[h[1]] = "si"
    BY LosHilos DEF Tipos, Puestos, En
  <2>2. CASE h = G(n)
    <3>1. h[1] = n /\ S(n) # h /\ S(n) \in Hilos
      BY <2>2, LosHilos
    <3> QED
      BY <2>1, <2>2, <3>1 DEF Ocupada, Va, TipoHilos
  <2>3. CASE h = S(n)
    <3>1. h[1] = n /\ G(n) # h /\ G(n) \in Hilos
      BY <2>3, LosHilos
    <3> QED
      BY <2>1, <2>3, <3>1 DEF Ocupada, Va, TipoHilos
  <2>4. CASE h # G(n) /\ h # S(n)
    <3>1. G(n) \in Hilos /\ S(n) \in Hilos
      BY LosHilos
    <3> QED
      BY <2>1, <2>4, <3>1 DEF Ocupada, Va, TipoHilos
  <2> QED
    BY <2>2, <2>3, <2>4
<1> QED
  BY <1>1, <1>2, <1>3 DEF Puestos

\* The seed a gossip thread is at.
LEMMA ParTipo ==
  ASSUME Tipos, NEW m \in Memorias, Semillas[m] # <<>>
  PROVE  /\ Par(m) \in Memorias /\ i[m] \in 1..Len(Semillas[m])
         /\ (i[m] % Len(Semillas[m])) + 1 \in 1..Len(Semillas[m])
<1>1. Semillas[m] \in Seq(Memorias) /\ Len(Semillas[m]) \in Nat \ {0}
  BY ConstantesGossip
<1>2. i[m] \in 1..Len(Semillas[m])
  BY <1>1 DEF Tipos, TipoIndice
<1> QED
  BY <1>1, <1>2 DEF Par

LEMMA SiguienteTipo ==
  ASSUME Tipos, NEW m \in Memorias, Semillas[m] # <<>>, Siguiente(m)
  PROVE  TipoIndice'
<1>1. (i[m] % Len(Semillas[m])) + 1 \in 1..Len(Semillas[m]) /\ Semillas[m] \in Seq(Memorias)
  BY ParTipo, ConstantesGossip
<1> QED
  BY <1>1 DEF Tipos, TipoIndice, Siguiente

\* A change of a connection.
LEMMA ConexionTipo ==
  ASSUME NEW x \in Conexion
  PROVE  /\ \A n \in Memorias \cup {Nadie} : [x EXCEPT !.de = n] \in Conexion
         /\ \A b \in BOOLEAN : [x EXCEPT !.operacion = b] \in Conexion
         /\ \A q \in Seq(Numeros) : [x EXCEPT !.lista = q] \in Conexion
         /\ x.lista \in Seq(Numeros) /\ x.de \in Memorias \cup {Nadie}
  BY DEF Conexion

LEMMA ConTipo ==
  ASSUME Tipos, NEW p \in Memorias, NEW f \in [1..Len(conexiones[p]) -> Conexion],
         conexiones' = [conexiones EXCEPT ![p] = f], respuesta' = respuesta
  PROVE  TipoRed' /\ \A n \in Memorias : conexiones[n] # <<>> => conexiones'[n] # <<>>
<1>1. conexiones \in [Memorias -> Seq(Conexion)] /\ conexiones[p] \in Seq(Conexion)
      /\ Len(conexiones[p]) \in Nat
  BY DEF Tipos, TipoRed
<1>2. f \in Seq(Conexion) /\ Len(f) = Len(conexiones[p])
  BY <1>1, FuncionSeq
<1>3. conexiones[p] # <<>> => f # <<>>
  BY <1>1, <1>2, EmptySeq
<1> QED
  BY <1>1, <1>2, <1>3 DEF Tipos, TipoRed

\* What a list that is sent names.
LEMMA EnviarTipo ==
  ASSUME Tipos, NEW m \in Memorias, Completa(m)
  PROVE  enviar_memorias(m) \in Seq(Numeros)
<1>1. /\ tabla_gossip[m] \in Seq(Numeros) /\ elements_count[m] \in Nat
      /\ elements_count[m] <= Len(tabla_gossip[m])
  BY DEF Tipos, TipoTabla, Completa
<1>2. \A k \in 1..elements_count[m] : tabla_gossip[m][k] \in Numeros
  BY <1>1
<1> QED
  BY <1>1, <1>2, SubSeqProperties DEF enviar_memorias

\* A send or a recv that fails.
LEMMA TuberiaTipos ==
  ASSUME Tipos, NEW h \in Hilos, NEW desde \in Lugares, En(h, desde),
         NEW hasta \in Lugares \ {"toma", "enlaza"}, Tuberia(h, hasta),
         h = G(h[1]) => desde # "conecta", h = S(h[1]) => desde # "acepta"
  PROVE  Tipos'
<1>1. h[1] \in Memorias /\ caidas' \in 0..MaxCaidas
      /\ riesgo' \subseteq {"cruza", "corte", "tuberia"}
  BY LosHilos DEF Tuberia, Tipos, TipoVida
<1>2. CASE Termina(h[1], "muerta")
  BY <1>1, <1>2, TerminaTipos
<1>3. CASE Va(h, hasta) /\ UNCHANGED <<viva, tabla, red, porAgregar, ultimo, i>>
  <2>1. /\ porAgregar[h] \in Seq(Numeros) /\ porAgregar' = [porAgregar EXCEPT ![h] = porAgregar[h]]
        /\ conexiones' = conexiones /\ Ocupada(h[1]) /\ pc[h] = desde
    BY <1>1, <1>3 DEF Tipos, TipoHilos, red, Puestos, En
  <2>2. TipoHilos' /\ Puestos'
    BY <1>3, <2>1, AvanzaPuestos, ZenonT(60) DEF tabla, Ocupada
  <2> QED
    BY <1>1, <1>3, <2>2 DEF Tipos, TipoVida, TipoTabla, TipoRed, TipoIndice, tabla, red
<1> QED
  BY <1>2, <1>3 DEF Tuberia

LEMMA CorteTipos ==
  ASSUME Tipos, NEW h \in Hilos, En(h, "recibe"), Corte(h)
  PROVE  Tipos'
<1>1. h[1] \in Memorias /\ caidas' \in 0..MaxCaidas
      /\ riesgo' \subseteq {"cruza", "corte", "tuberia"} /\ "busca" \in Lugares /\ "recibe" \in Lugares
  BY LosHilos DEF Corte, Tipos, TipoVida, Lugares
<1>2. CASE Termina(h[1], "muerta")
  BY <1>1, <1>2, TerminaTipos
<1>3. ASSUME NEW q \in {<<>>} \cup {<<x>> : x \in Numeros},
             porAgregar' = [porAgregar EXCEPT ![h] = q], Va(h, "busca"),
             UNCHANGED <<viva, tabla, red, ultimo, i>>
      PROVE  Tipos'
  <2>0. q \in Seq(Numeros)
    <3>1. \A x \in Numeros : <<x>> \in Seq(Numeros)
      OBVIOUS
    <3>2. q = <<>> \/ \E x \in Numeros : q = <<x>>
      BY <1>3, Zenon
    <3> QED
      BY <3>1, <3>2, EmptySeq
  <2>1. conexiones' = conexiones /\ Ocupada(h[1]) /\ pc[h] = "recibe"
    BY <1>1, <1>3 DEF Tipos, TipoHilos, red, Puestos, En
  <2>2. TipoHilos' /\ Puestos'
    BY <1>1, <1>3, <2>0, <2>1, AvanzaPuestos, ZenonT(60) DEF tabla, Ocupada
  <2> QED
    BY <1>1, <1>3, <2>2 DEF Tipos, TipoVida, TipoTabla, TipoRed, TipoIndice, tabla, red
<1> QED
  BY <1>2, <1>3 DEF Corte

\* Adding what is received.
LEMMA TiposMira ==
  ASSUME Tipos, NEW h \in Hilos, table_has_memory(h)
  PROVE  Tipos'
<1> DEFINE q == porAgregar[h]
<1>1. /\ q \in Seq(Numeros) /\ h[1] \in Memorias /\ En(h, "busca") /\ "busca" \in Lugares
      /\ Despues(h) \in Lugares /\ "toma" \in Lugares /\ Ocupada(h[1]) /\ pc[h] = "busca"
      /\ Despues(h) \notin {"toma", "enlaza"}
  BY LosHilos DEF Tipos, TipoHilos, Lugares, Despues, table_has_memory, Puestos, En
<1>2. /\ UNCHANGED <<viva, tabla_gossip, ultimo, conexiones>>
      /\ TipoVida' /\ TipoTabla' /\ TipoRed' /\ TipoIndice'
  BY DEF table_has_memory, tabla, red, Tipos, TipoVida, TipoTabla, TipoRed, TipoIndice
<1>3. CASE q = <<>> /\ Va(h, Despues(h)) /\ UNCHANGED porAgregar
  <2>1. porAgregar' = [porAgregar EXCEPT ![h] = q]
    BY <1>3 DEF Tipos, TipoHilos
  <2> QED
    BY <1>1, <1>2, <1>3, <2>1, AvanzaPuestos, ZenonT(60) DEF Tipos, Ocupada
<1>4. CASE q # <<>> /\ porAgregar' = [porAgregar EXCEPT ![h] = Tail(@)] /\ UNCHANGED pc
  <2>1. Tail(q) \in Seq(Numeros) /\ porAgregar' = [porAgregar EXCEPT ![h] = Tail(q)]
    BY <1>1, <1>4, HeadTailProperties
  <2>2. Va(h, "busca")
    BY <1>1, <1>4 DEF Va, Tipos, TipoHilos
  <2> QED
    BY <1>1, <1>2, <2>1, <2>2, AvanzaPuestos, ZenonT(60) DEF Tipos, Ocupada
<1>5. CASE q # <<>> /\ Va(h, "toma") /\ UNCHANGED porAgregar
  <2>1. porAgregar' = [porAgregar EXCEPT ![h] = q]
    BY <1>5 DEF Tipos, TipoHilos
  <2> QED
    BY <1>1, <1>2, <1>5, <2>1, AvanzaPuestos, ZenonT(60) DEF Tipos, Ocupada
<1> QED
  BY <1>3, <1>4, <1>5 DEF table_has_memory

LEMMA TiposToma ==
  ASSUME Tipos, NEW h \in Hilos, TomaUltimo(h)
  PROVE  Tipos'
<1>1. /\ h[1] \in Memorias /\ pc[h] = "toma" /\ viva[h[1]] = "si" /\ porAgregar[h] # <<>>
      /\ elements_count[h[1]] \in Nat /\ elements_count[h[1]] <= Len(tabla_gossip[h[1]])
      /\ "enlaza" \in Lugares
  BY LosHilos DEF Tipos, Puestos, Agregando, TomaUltimo, En, Completa, TipoTabla, Lugares
<1>2. /\ TipoVida' /\ TipoTabla' /\ TipoRed' /\ TipoIndice'
      /\ UNCHANGED <<viva, tabla_gossip, conexiones, porAgregar>>
  BY DEF TomaUltimo, tabla, red, Tipos, TipoVida, TipoTabla, TipoRed, TipoIndice
<1>3. /\ ultimo' = [ultimo EXCEPT ![h] = elements_count[h[1]]] /\ pc' = [pc EXCEPT ![h] = "enlaza"]
      /\ TipoHilos
  BY DEF TomaUltimo, Va, Tipos
<1>4. TipoHilos'
  BY <1>1, <1>2, <1>3 DEF TipoHilos
<1>5. ASSUME NEW g \in Hilos PROVE Agregando(g)'
  <2>1. Agregando(g)
    BY DEF Tipos, Puestos
  <2>2. CASE g = h
    BY <1>1, <1>2, <1>3, <2>2 DEF Agregando, TipoHilos
  <2>3. CASE g # h
    BY <1>1, <1>2, <1>3, <2>1, <2>3 DEF Agregando, TipoHilos
  <2> QED
    BY <2>2, <2>3
<1>6. ASSUME NEW n \in Memorias PROVE Ocupada(n)'
  <2>1. /\ Ocupada(n) /\ G(n) \in Hilos /\ S(n) \in Hilos
        /\ h = G(n) \/ h = S(n) => h[1] = n
    BY LosHilos DEF Tipos, Puestos
  <2>2. /\ pc'[G(n)] # "conecta" => pc[G(n)] # "conecta"
        /\ pc'[S(n)] # "acepta" => pc[S(n)] # "acepta"
    BY <1>1, <1>3, <2>1 DEF TipoHilos
  <2>3. viva[n] # "si" => /\ pc'[G(n)] = pc[G(n)] /\ pc'[S(n)] = pc[S(n)]
                          /\ ultimo'[G(n)] = ultimo[G(n)] /\ ultimo'[S(n)] = ultimo[S(n)]
    BY <1>1, <1>3, <2>1 DEF TipoHilos
  <2> QED
    BY <1>2, <2>1, <2>2, <2>3 DEF Ocupada
<1> QED
  BY <1>2, <1>4, <1>5, <1>6 DEF Tipos, Puestos

\* What it links: the element it has found is still in the list.
LEMMA EnlazaTabla ==
  ASSUME Tipos, NEW h \in Hilos, Enlaza(h)
  PROVE  /\ TipoTabla' /\ porAgregar[h] # <<>> /\ h[1] \in Memorias
         /\ Head(porAgregar[h]) \in Numeros /\ Tail(porAgregar[h]) \in Seq(Numeros)
         /\ \A m \in Memorias : m # h[1] => tabla_gossip'[m] = tabla_gossip[m]
         /\ ultimo[h] = 0 => tabla_gossip'[h[1]] = tabla_gossip[h[1]]
         /\ ultimo[h] # 0 => Len(tabla_gossip'[h[1]]) = ultimo[h] + 1
<1>1. /\ h[1] \in Memorias /\ porAgregar[h] \in Seq(Numeros) /\ porAgregar[h] # <<>>
      /\ tabla_gossip \in [Memorias -> Seq(Numeros)] /\ ultimo[h] \in Nat
      /\ ultimo[h] <= Len(tabla_gossip[h[1]])
  BY LosHilos DEF Tipos, TipoTabla, TipoHilos, Puestos, Agregando, Enlaza, En
<1>2. Head(porAgregar[h]) \in Numeros /\ Tail(porAgregar[h]) \in Seq(Numeros)
  BY <1>1, HeadTailProperties
<1>3. /\ SubSeq(tabla_gossip[h[1]], 1, ultimo[h]) \in Seq(Numeros)
      /\ Len(SubSeq(tabla_gossip[h[1]], 1, ultimo[h])) = ultimo[h]
  BY <1>1, SubSeqProperties
<1>4. /\ Append(SubSeq(tabla_gossip[h[1]], 1, ultimo[h]), Head(porAgregar[h])) \in Seq(Numeros)
      /\ Len(Append(SubSeq(tabla_gossip[h[1]], 1, ultimo[h]), Head(porAgregar[h]))) = ultimo[h] + 1
  BY <1>2, <1>3
<1>5. tabla_gossip' = [tabla_gossip EXCEPT ![h[1]] =
         IF ultimo[h] = 0 THEN tabla_gossip[h[1]]
         ELSE Append(SubSeq(tabla_gossip[h[1]], 1, ultimo[h]), Head(porAgregar[h]))]
  BY DEF Enlaza
<1>6. elements_count' \in [Memorias -> Nat]
  BY <1>1 DEF Enlaza, Tipos, TipoTabla
<1> QED
  BY <1>1, <1>2, <1>4, <1>5, <1>6 DEF TipoTabla

LEMMA TiposEnlaza ==
  ASSUME Tipos, NEW h \in Hilos, Enlaza(h)
  PROVE  Tipos'
<1>1. /\ h[1] \in Memorias /\ pc[h] = "enlaza" /\ viva[h[1]] = "si"
      /\ "busca" \in Lugares /\ TipoTabla' /\ Tail(porAgregar[h]) \in Seq(Numeros)
      /\ Otro(h) \in Hilos /\ Otro(h) # h /\ Otro(h)[1] = h[1] /\ TipoHilos /\ TipoTabla
  BY LosHilos, EnlazaTabla DEF Enlaza, En, Lugares, Tipos
<1>2. /\ TipoRed' /\ TipoIndice' /\ UNCHANGED <<viva, conexiones, caidas>>
  BY DEF Enlaza, tabla, red, Tipos, TipoRed, TipoIndice
<1>3. TipoVida'
  BY <1>2 DEF Enlaza, Tipos, TipoVida
<1>4. /\ pc' = [pc EXCEPT ![h] = "busca"]
      /\ porAgregar' = [porAgregar EXCEPT ![h] = Tail(porAgregar[h])]
      /\ ultimo' = [ultimo EXCEPT ![h] = 0, ![Otro(h)] =
                      IF ultimo[h] \in 1..(ultimo[Otro(h)] - 1) THEN 0 ELSE ultimo[Otro(h)]]
  BY <1>1 DEF Enlaza, Va, TipoHilos
<1>5. TipoHilos'
  BY <1>1, <1>4 DEF TipoHilos
<1>6. ASSUME NEW g \in Hilos PROVE Agregando(g)'
  <2>1. Agregando(g) /\ g[1] \in Memorias /\ ultimo[g] \in Nat /\ ultimo[h] \in Nat
        /\ tabla_gossip[g[1]] \in Seq(Numeros) /\ tabla_gossip'[g[1]] \in Seq(Numeros)
    BY <1>1, LosHilos DEF Tipos, Puestos, TipoHilos, TipoTabla
  <2>2. CASE g = h
    BY <1>1, <1>4, <2>1, <2>2 DEF Agregando, TipoHilos
  <2>3. CASE g = Otro(h)
    <3>1. pc'[g] = pc[g] /\ porAgregar'[g] = porAgregar[g]
      BY <1>1, <1>4, <2>3 DEF TipoHilos
    <3>2. ultimo'[g] = IF ultimo[h] \in 1..(ultimo[g] - 1) THEN 0 ELSE ultimo[g]
      BY <1>1, <1>4, <2>3 DEF TipoHilos
    <3>3. \/ tabla_gossip'[g[1]] = tabla_gossip[g[1]] /\ ultimo[h] = 0
          \/ Len(tabla_gossip'[g[1]]) = ultimo[h] + 1 /\ ultimo[h] # 0
      BY <1>1, <2>3, EnlazaTabla
    <3> QED
      BY <2>1, <3>1, <3>2, <3>3 DEF Agregando
  <2>4. CASE g # h /\ g # Otro(h)
    <3>1. g[1] # h[1]
      BY <2>4, LosHilos
    <3>2. pc'[g] = pc[g] /\ porAgregar'[g] = porAgregar[g] /\ ultimo'[g] = ultimo[g]
      BY <1>1, <1>4, <2>4 DEF TipoHilos
    <3>3. tabla_gossip'[g[1]] = tabla_gossip[g[1]]
      BY <2>1, <3>1, EnlazaTabla
    <3> QED
      BY <2>1, <3>2, <3>3 DEF Agregando
  <2> QED
    BY <2>2, <2>3, <2>4
<1>7. ASSUME NEW n \in Memorias PROVE Ocupada(n)'
  <2>1. /\ Ocupada(n) /\ G(n) \in Hilos /\ S(n) \in Hilos
        /\ h = G(n) \/ h = S(n) \/ Otro(h) = G(n) \/ Otro(h) = S(n) => h[1] = n
    BY LosHilos DEF Tipos, Puestos
  <2>2. /\ pc'[G(n)] # "conecta" => pc[G(n)] # "conecta"
        /\ pc'[S(n)] # "acepta" => pc[S(n)] # "acepta"
    BY <1>1, <1>4, <2>1 DEF TipoHilos
  <2>3. viva[n] # "si" => /\ pc'[G(n)] = pc[G(n)] /\ pc'[S(n)] = pc[S(n)]
                          /\ ultimo'[G(n)] = ultimo[G(n)] /\ ultimo'[S(n)] = ultimo[S(n)]
    BY <1>1, <1>4, <2>1 DEF TipoHilos
  <2> QED
    BY <1>2, <2>1, <2>2, <2>3 DEF Ocupada
<1> QED
  BY <1>1, <1>2, <1>3, <1>5, <1>6, <1>7 DEF Tipos, Puestos

\* The gossip thread.
LEMMA TiposConecta ==
  ASSUME Tipos, NEW m \in Memorias, iniciar_conexion_gossiping(m)
  PROVE  Tipos'
<1>1. /\ Semillas[m] # <<>> /\ pc[G(m)] = "conecta" /\ viva[m] = "si" /\ G(m) \in Hilos
      /\ G(m)[1] = m /\ Par(m) \in Memorias /\ "conecta" \in Lugares
      /\ "envia_operacion" \in Lugares /\ porAgregar[G(m)] \in Seq(Numeros)
      /\ porAgregar' = [porAgregar EXCEPT ![G(m)] = porAgregar[G(m)]]
      /\ En(G(m), "conecta") /\ \A n \in Memorias : G(m) # S(n)
  BY LosHilos, ParTipo DEF iniciar_conexion_gossiping, En, Lugares, Tipos, TipoHilos
<1>2. /\ UNCHANGED <<viva, tabla_gossip, ultimo, respuesta>> /\ TipoVida' /\ TipoTabla'
  BY DEF iniciar_conexion_gossiping, tabla, Tipos, TipoVida, TipoTabla
<1>3. CASE /\ conexiones' = [conexiones EXCEPT ![Par(m)] = Append(@, Nueva(m))]
           /\ Va(G(m), "envia_operacion")
           /\ UNCHANGED i
  <2>1. Nueva(m) \in Conexion
    BY DEF Nueva, Conexion
  <2>2. /\ Append(conexiones[Par(m)], Nueva(m)) \in Seq(Conexion)
        /\ Append(conexiones[Par(m)], Nueva(m)) # <<>>
    <3>1. conexiones[Par(m)] \in Seq(Conexion)
      BY <1>1 DEF Tipos, TipoRed
    <3> QED
      BY <2>1, <3>1, AppendProperties, ZenonT(60)
  <2>3. TipoRed' /\ \A n \in Memorias : conexiones[n] # <<>> => conexiones'[n] # <<>>
    BY <1>1, <1>2, <1>3, <2>2 DEF Tipos, TipoRed
  <2>4. TipoHilos' /\ Puestos'
    BY <1>1, <1>2, <1>3, <2>3, AvanzaPuestos, ZenonT(60)
  <2> QED
    BY <1>2, <1>3, <2>3, <2>4 DEF Tipos, TipoIndice
<1>4. CASE Siguiente(m) /\ UNCHANGED <<conexiones, pc>>
  <2>1. Va(G(m), "conecta")
    BY <1>1, <1>4 DEF Va, Tipos, TipoHilos
  <2>2. TipoHilos' /\ Puestos'
    BY <1>1, <1>2, <1>4, <2>1, AvanzaPuestos, ZenonT(60)
  <2> QED
    BY <1>1, <1>2, <1>4, <2>2, SiguienteTipo DEF Tipos, TipoRed
<1> QED
  BY <1>3, <1>4 DEF iniciar_conexion_gossiping

LEMMA TiposEnvia ==
  ASSUME Tipos, NEW m \in Memorias, EnviaOperacion(m) \/ EnviaLista(m)
  PROVE  Tipos'
<1> DEFINE p == Par(m)
<1>1. PICK desde \in {"envia_operacion", "envia_lista"}, hasta \in {"envia_lista", "recibe"} :
        /\ En(G(m), desde)
        /\ \/ /\ Va(G(m), hasta)
              /\ UNCHANGED <<viva, tabla, respuesta, porAgregar, ultimo, i, caidas, riesgo>>
              /\ \/ LET c(x) == [x EXCEPT !.operacion = TRUE] IN Con(m, c)
                 \/ /\ Completa(m)
                    /\ LET c(x) == [x EXCEPT !.lista = enviar_memorias(m)] IN Con(m, c)
           \/ Tuberia(G(m), hasta)
  BY DEF EnviaOperacion, EnviaLista
<1>2. /\ pc[G(m)] = desde /\ viva[m] = "si" /\ G(m) \in Hilos /\ G(m)[1] = m
      /\ desde \in Lugares \ {"conecta"} /\ hasta \in Lugares \ {"toma", "enlaza"}
      /\ \A n \in Memorias : G(m) # S(n)
  BY <1>1, LosHilos DEF En, Lugares
<1>3. Semillas[m] # <<>> /\ p \in Memorias
  BY <1>1, <1>2, ParTipo DEF Tipos, Puestos, Ocupada
<1>4. CASE Tuberia(G(m), hasta)
  BY <1>1, <1>2, <1>4, TuberiaTipos
<1>5. ASSUME Va(G(m), hasta),
             UNCHANGED <<viva, tabla, respuesta, porAgregar, ultimo, i, caidas, riesgo>>,
             NEW f \in [1..Len(conexiones[p]) -> Conexion],
             conexiones' = [conexiones EXCEPT ![p] = f]
      PROVE  Tipos'
  <2>1. TipoRed' /\ \A n \in Memorias : conexiones[n] # <<>> => conexiones'[n] # <<>>
    BY <1>3, <1>5, ConTipo, ZenonT(60)
  <2>2. /\ porAgregar[G(m)] \in Seq(Numeros)
        /\ porAgregar' = [porAgregar EXCEPT ![G(m)] = porAgregar[G(m)]]
    BY <1>2, <1>5 DEF Tipos, TipoHilos
  <2>3. TipoHilos' /\ Puestos'
    BY <1>1, <1>2, <1>3, <1>5, <2>1, <2>2, AvanzaPuestos, ZenonT(60) DEF tabla
  <2> QED
    BY <1>5, <2>1, <2>3 DEF Tipos, TipoVida, TipoTabla, TipoIndice, tabla
<1>6. conexiones[p] \in Seq(Conexion) /\ DOMAIN conexiones[p] = 1..Len(conexiones[p])
      /\ \A k \in 1..Len(conexiones[p]) : conexiones[p][k] \in Conexion
  BY <1>3 DEF Tipos, TipoRed
<1>7. CASE /\ Va(G(m), hasta)
           /\ UNCHANGED <<viva, tabla, respuesta, porAgregar, ultimo, i, caidas, riesgo>>
           /\ LET c(x) == [x EXCEPT !.operacion = TRUE] IN Con(m, c)
  <2> DEFINE f == [k \in 1..Len(conexiones[p]) |->
                     IF k \in Posicion(m) THEN [conexiones[p][k] EXCEPT !.operacion = TRUE]
                                          ELSE conexiones[p][k]]
  <2>1. f \in [1..Len(conexiones[p]) -> Conexion]
    BY <1>6, ConexionTipo
  <2>2. conexiones' = [conexiones EXCEPT ![p] = f]
    BY <1>6, <1>7 DEF Con
  <2> QED
    BY <1>5, <1>7, <2>1, <2>2
<1>8. CASE /\ Va(G(m), hasta)
           /\ UNCHANGED <<viva, tabla, respuesta, porAgregar, ultimo, i, caidas, riesgo>>
           /\ Completa(m)
           /\ LET c(x) == [x EXCEPT !.lista = enviar_memorias(m)] IN Con(m, c)
  <2> DEFINE f == [k \in 1..Len(conexiones[p]) |->
                     IF k \in Posicion(m) THEN [conexiones[p][k] EXCEPT !.lista = enviar_memorias(m)]
                                          ELSE conexiones[p][k]]
  <2>1. f \in [1..Len(conexiones[p]) -> Conexion]
    BY <1>6, <1>8, ConexionTipo, EnviarTipo
  <2>2. conexiones' = [conexiones EXCEPT ![p] = f]
    BY <1>6, <1>8 DEF Con
  <2> QED
    BY <1>5, <1>8, <2>1, <2>2
<1> QED
  BY <1>1, <1>4, <1>7, <1>8

LEMMA TiposRecibe ==
  ASSUME Tipos, NEW m \in Memorias, RecibeRespuesta(m)
  PROVE  Tipos'
<1>1. /\ pc[G(m)] = "recibe" /\ viva[m] = "si" /\ G(m) \in Hilos /\ G(m)[1] = m
      /\ "recibe" \in Lugares /\ "busca" \in Lugares /\ \A n \in Memorias : G(m) # S(n)
      /\ En(G(m), "recibe")
  BY LosHilos DEF RecibeRespuesta, En, Lugares
<1>2. Semillas[m] # <<>>
  BY <1>1 DEF Tipos, Puestos, Ocupada
<1>3. CASE Corte(G(m))
  BY <1>1, <1>3, CorteTipos
<1>4. CASE /\ porAgregar' = [porAgregar EXCEPT ![G(m)] = respuesta[m]]
           /\ respuesta' = [respuesta EXCEPT ![m] = <<>>]
           /\ Va(G(m), "busca")
           /\ UNCHANGED <<viva, tabla, conexiones, ultimo, i, caidas, riesgo>>
  <2>1. respuesta[m] \in Seq(Numeros) /\ TipoRed'
    BY <1>4, EmptySeq DEF Tipos, TipoRed
  <2>2. TipoHilos' /\ Puestos'
    BY <1>1, <1>2, <1>4, <2>1, AvanzaPuestos, ZenonT(60) DEF tabla
  <2> QED
    BY <1>4, <2>1, <2>2 DEF Tipos, TipoVida, TipoTabla, TipoIndice, tabla
<1> QED
  BY <1>3, <1>4 DEF RecibeRespuesta

LEMMA TiposCierra ==
  ASSUME Tipos, NEW m \in Memorias, terminar_conexion(m)
  PROVE  Tipos'
<1> DEFINE p == Par(m)
<1>1. /\ pc[G(m)] = "cierra" /\ viva[m] = "si" /\ G(m) \in Hilos /\ G(m)[1] = m
      /\ "cierra" \in Lugares /\ "conecta" \in Lugares /\ \A n \in Memorias : G(m) # S(n)
      /\ En(G(m), "cierra") /\ Va(G(m), "conecta")
      /\ UNCHANGED <<viva, tabla, respuesta, porAgregar, ultimo, caidas, riesgo>>
  BY LosHilos DEF terminar_conexion, En, Lugares
<1>2. Semillas[m] # <<>> /\ p \in Memorias
  BY <1>1, ParTipo DEF Tipos, Puestos, Ocupada
<1>3. conexiones[p] \in Seq(Conexion) /\ DOMAIN conexiones[p] = 1..Len(conexiones[p])
      /\ \A k \in 1..Len(conexiones[p]) : conexiones[p][k] \in Conexion
  BY <1>2 DEF Tipos, TipoRed
<1> DEFINE f == [k \in 1..Len(conexiones[p]) |->
                   IF k \in Posicion(m) THEN [conexiones[p][k] EXCEPT !.de = Nadie]
                                        ELSE conexiones[p][k]]
<1>4. f \in [1..Len(conexiones[p]) -> Conexion]
  BY <1>3, ConexionTipo
<1>5. conexiones' = [conexiones EXCEPT ![p] = f]
  BY <1>3 DEF Con, terminar_conexion
<1>6. TipoRed' /\ \A n \in Memorias : conexiones[n] # <<>> => conexiones'[n] # <<>>
  <2> HIDE DEF p, f
  <2> QED
    BY <1>1, <1>2, <1>4, <1>5, ConTipo, ZenonT(60)
<1>7. /\ porAgregar[G(m)] \in Seq(Numeros)
      /\ porAgregar' = [porAgregar EXCEPT ![G(m)] = porAgregar[G(m)]]
  BY <1>1 DEF Tipos, TipoHilos
<1>8. TipoHilos' /\ Puestos'
  BY <1>1, <1>2, <1>6, <1>7, AvanzaPuestos DEF tabla
<1>9. TipoIndice'
  BY <1>2, SiguienteTipo DEF terminar_conexion
<1> QED
  BY <1>1, <1>6, <1>8, <1>9 DEF Tipos, TipoVida, TipoTabla, tabla

\* list_get fails.
LEMMA TiposSinElemento ==
  ASSUME Tipos, NEW h \in Hilos, SinElemento(h)
  PROVE  Tipos'
<1>1. h[1] \in Memorias /\ Termina(h[1], "muerta") /\ caidas' = caidas /\ riesgo' = riesgo
  BY LosHilos DEF SinElemento
<1> QED
  BY <1>1, TerminaTipos DEF Tipos, TipoVida

\* The server.
LEMMA TiposServidor ==
  ASSUME Tipos, NEW m \in Memorias,
         esperar_cliente(m) \/ recibir_operacion(m) \/ RecibePedido(m) \/ EnviaTabla(m)
  PROVE  Tipos'
<1> DEFINE h == S(m)
<1>1. /\ h \in Hilos /\ h[1] = m /\ \A n \in Memorias : h # G(n) /\ (h = S(n) => n = m)
      /\ {"acepta", "opera", "recibe", "busca", "envia_tabla"} \subseteq Lugares
      /\ porAgregar[h] \in Seq(Numeros)
  BY LosHilos DEF Tipos, TipoHilos, Lugares
<1>2. pc[h] # "acepta" => conexiones[m] # <<>>
  BY DEF Tipos, Puestos, Ocupada
<1>3. conexiones[m] \in Seq(Conexion) /\ conexiones \in [Memorias -> Seq(Conexion)]
  BY DEF Tipos, TipoRed
\* What such a step has to keep when no send and no recv fails.
<1>4. ASSUME NEW desde \in Lugares, En(h, desde), NEW lugar \in Lugares \ {"toma", "enlaza"},
             Va(h, lugar), NEW q \in Seq(Numeros), porAgregar' = [porAgregar EXCEPT ![h] = q],
             NEW k \in Seq(Conexion), conexiones' = [conexiones EXCEPT ![m] = k],
             lugar # "acepta" => k # <<>>, TipoRed',
             UNCHANGED <<viva, tabla, ultimo, i, caidas, riesgo>>
      PROVE  Tipos'
  <2>1. \A n \in Memorias : n # m => conexiones'[n] = conexiones[n]
    BY <1>3, <1>4
  <2>2. conexiones'[m] = k
    BY <1>3, <1>4
  <2>3. TipoHilos' /\ Puestos'
    BY <1>1, <1>4, <2>1, <2>2, AvanzaPuestos, ZenonT(60) DEF tabla
  <2> QED
    BY <1>4, <2>3 DEF Tipos, TipoVida, TipoTabla, TipoIndice, tabla
<1>5. CASE esperar_cliente(m)
  <2>1. /\ conexiones' = [conexiones EXCEPT ![m] = conexiones[m]] /\ conexiones[m] # <<>>
        /\ porAgregar' = [porAgregar EXCEPT ![h] = porAgregar[h]]
    BY <1>1, <1>3, <1>5 DEF esperar_cliente, red, Tipos, TipoHilos
  <2>2. TipoRed'
    BY <1>5 DEF esperar_cliente, red, Tipos, TipoRed
  <2> QED
    BY <1>1, <1>3, <1>4, <1>5, <2>1, <2>2 DEF esperar_cliente
<1>6. CASE recibir_operacion(m)
  <2>1. /\ porAgregar' = [porAgregar EXCEPT ![h] = porAgregar[h]] /\ En(h, "opera")
        /\ conexiones[m] # <<>>
    BY <1>1, <1>2, <1>6 DEF recibir_operacion, Tipos, TipoHilos, En
  <2>2. CASE conexiones' = [conexiones EXCEPT ![m][1].operacion = FALSE] /\ Va(h, "recibe")
    <3>1. /\ [conexiones[m] EXCEPT ![1] = [conexiones[m][1] EXCEPT !.operacion = FALSE]] \in Seq(Conexion)
          /\ [conexiones[m] EXCEPT ![1] = [conexiones[m][1] EXCEPT !.operacion = FALSE]] # <<>>
      <4>1. conexiones[m][1] \in Conexion
        BY <1>3, <2>1, CambiaPrimera, ZenonT(60)
      <4>2. [conexiones[m][1] EXCEPT !.operacion = FALSE] \in Conexion
        BY <4>1, ConexionTipo, EmptySeq
      <4> QED
        BY <1>3, <2>1, <4>2, CambiaPrimera, SMTT(30)
    <3>2. conexiones' = [conexiones EXCEPT ![m] =
            [conexiones[m] EXCEPT ![1] = [conexiones[m][1] EXCEPT !.operacion = FALSE]]]
      BY <2>2
    <3>3. TipoRed'
      BY <1>3, <1>6, <3>1, <3>2 DEF recibir_operacion, Tipos, TipoRed
    <3> QED
      BY <1>1, <1>4, <1>6, <2>1, <2>2, <3>1, <3>2, <3>3 DEF recibir_operacion
  <2>3. CASE conexiones' = [conexiones EXCEPT ![m] = Tail(@)] /\ Va(h, "acepta")
    <3>1. Tail(conexiones[m]) \in Seq(Conexion)
      BY <1>3, <2>1, HeadTailProperties
    <3>2. TipoRed'
      BY <1>3, <1>6, <2>3, <3>1 DEF recibir_operacion, Tipos, TipoRed
    <3> QED
      BY <1>1, <1>4, <1>6, <2>1, <2>3, <3>1, <3>2 DEF recibir_operacion
  <2> QED
    BY <1>6, <2>2, <2>3 DEF recibir_operacion
<1>7. CASE RecibePedido(m)
  <2>1. En(h, "recibe") /\ conexiones[m] # <<>>
    BY <1>2, <1>7 DEF RecibePedido, En
  <2>2. CASE Corte(h)
    BY <1>1, <2>1, <2>2, CorteTipos
  <2>3. CASE /\ porAgregar' = [porAgregar EXCEPT ![h] = Head(conexiones[m]).lista]
             /\ conexiones' = [conexiones EXCEPT ![m][1].lista = <<>>]
             /\ Va(h, "busca")
             /\ UNCHANGED <<viva, tabla, respuesta, ultimo, i, caidas, riesgo>>
    <3>1. /\ [conexiones[m] EXCEPT ![1] = [conexiones[m][1] EXCEPT !.lista = <<>>]] \in Seq(Conexion)
          /\ [conexiones[m] EXCEPT ![1] = [conexiones[m][1] EXCEPT !.lista = <<>>]] # <<>>
      <4>1. conexiones[m][1] \in Conexion
        BY <1>3, <2>1, CambiaPrimera, ZenonT(60)
      <4>2. [conexiones[m][1] EXCEPT !.lista = <<>>] \in Conexion
        BY <4>1, ConexionTipo, EmptySeq
      <4> QED
        BY <1>3, <2>1, <4>2, CambiaPrimera, SMTT(30)
    <3>2. conexiones' = [conexiones EXCEPT ![m] =
            [conexiones[m] EXCEPT ![1] = [conexiones[m][1] EXCEPT !.lista = <<>>]]]
      BY <2>3
    <3>3. Head(conexiones[m]).lista \in Seq(Numeros)
      BY <1>3, <2>1, HeadTailProperties, ConexionTipo
    <3>4. TipoRed'
      BY <1>3, <2>3, <3>1, <3>2 DEF Tipos, TipoRed
    <3> QED
      BY <1>1, <1>4, <2>1, <2>3, <3>1, <3>2, <3>3, <3>4
  <2> QED
    BY <1>7, <2>2, <2>3 DEF RecibePedido
<1>8. CASE EnviaTabla(m)
  <2>1. En(h, "envia_tabla") /\ Completa(m) /\ pc[h] = "envia_tabla" /\ conexiones[m] # <<>>
    BY <1>2, <1>8 DEF EnviaTabla, En
  <2>2. CASE Tuberia(h, "opera")
    <3>1. \A n \in Memorias : h # G(n)
      BY <1>1
    <3> QED
      BY <1>1, <2>1, <2>2, <3>1, TuberiaTipos
  <2>3. CASE /\ respuesta' = [respuesta EXCEPT ![Head(conexiones[m]).de] = enviar_memorias(m)]
             /\ Va(h, "opera")
             /\ UNCHANGED <<viva, tabla, conexiones, porAgregar, ultimo, i, caidas, riesgo>>
    <3>1. enviar_memorias(m) \in Seq(Numeros)
      BY <2>1, EnviarTipo
    <3>2. TipoRed'
      BY <2>3, <3>1 DEF Tipos, TipoRed
    <3>3. /\ conexiones' = [conexiones EXCEPT ![m] = conexiones[m]]
          /\ porAgregar' = [porAgregar EXCEPT ![h] = porAgregar[h]]
      BY <1>1, <1>3, <2>3 DEF Tipos, TipoHilos
    <3> QED
      BY <1>1, <1>3, <1>4, <2>1, <2>3, <3>2, <3>3
  <2> QED
    BY <1>8, <2>2, <2>3 DEF EnviaTabla
<1> QED
  BY <1>5, <1>6, <1>7, <1>8

\* A process that starts.
LEMMA TiposArranca ==
  ASSUME Tipos, NEW m \in Memorias, Arranca(m)
  PROVE  Tipos'
<1>1. /\ pc[G(m)] = "conecta" /\ pc[S(m)] = "acepta" /\ ultimo[G(m)] = 0 /\ ultimo[S(m)] = 0
  BY DEF Arranca, Tipos, Puestos, Ocupada
<1>2. <<m>> \in Seq(Numeros)
  BY DEF Numeros
<1>3. TipoVida' /\ TipoRed' /\ TipoHilos' /\ TipoIndice'
  BY DEF Arranca, hilos, red, Tipos, TipoVida, TipoRed, TipoHilos, TipoIndice
<1>4. TipoTabla'
  BY <1>2 DEF Arranca, Tipos, TipoTabla
<1>5. ASSUME NEW h \in Hilos PROVE Agregando(h)'
  <2>1. /\ Agregando(h) /\ h[1] \in Memorias /\ (h = G(h[1]) \/ h = S(h[1]))
        /\ tabla_gossip'[h[1]] \in Seq(Numeros)
    BY <1>4, LosHilos DEF Tipos, Puestos, TipoTabla
  <2>2. CASE h[1] = m
    BY <1>1, <2>1, <2>2 DEF Arranca, hilos, Agregando
  <2>3. CASE h[1] # m
    <3>1. tabla_gossip'[h[1]] = tabla_gossip[h[1]]
      BY <2>1, <2>3 DEF Arranca, Tipos, TipoTabla
    <3> QED
      BY <2>1, <3>1 DEF Arranca, hilos, Agregando
  <2> QED
    BY <2>2, <2>3
<1>6. ASSUME NEW n \in Memorias PROVE Ocupada(n)'
  BY DEF Arranca, hilos, red, Ocupada, Tipos, Puestos, TipoVida
<1> QED
  BY <1>3, <1>4, <1>5, <1>6 DEF Tipos, Puestos

LEMMA TiposQuietos ==
  ASSUME Tipos, UNCHANGED vars
  PROVE  Tipos'
  BY DEF vars, tabla, red, hilos, Tipos, TipoVida, TipoTabla, TipoRed, TipoHilos, TipoIndice,
         Puestos, Agregando, Ocupada

LEMMA TiposNext ==
  ASSUME Tipos, [Next]_vars
  PROVE  Tipos'
<1>1. ASSUME NEW h \in Hilos, recibir_seed(h) \/ SinElemento(h) PROVE Tipos'
  BY <1>1, TiposMira, TiposToma, TiposEnlaza, TiposSinElemento DEF recibir_seed
<1>2. ASSUME NEW m \in Memorias, gossiping(m) PROVE Tipos'
  BY <1>1, <1>2, LosHilos, TiposConecta, TiposEnvia, TiposRecibe, TiposCierra DEF gossiping
<1>3. ASSUME NEW m \in Memorias, servidor(m) PROVE Tipos'
  BY <1>1, <1>3, LosHilos, TiposServidor DEF servidor
<1>4. ASSUME NEW m \in Memorias, Cae(m) PROVE Tipos'
  <2>1. Termina(m, "caida") /\ caidas' \in 0..MaxCaidas
        /\ riesgo' \subseteq {"cruza", "corte", "tuberia"}
    BY <1>4, ConstantesGossip DEF Cae, Tipos, TipoVida
  <2> QED
    BY <2>1, TerminaTipos
<1> QED
  BY <1>2, <1>3, <1>4, TiposArranca, TiposQuietos DEF Next

LEMMA TiposInit == Init => Tipos
<1> SUFFICES ASSUME Init PROVE Tipos
  OBVIOUS
<1>1. \A m \in Memorias : <<m>> \in Seq(Numeros) /\ Len(<<m>>) = 1
  BY DEF Numeros
<1>2. TipoVida /\ TipoIndice
  BY ConstantesGossip DEF Init, TipoVida, TipoIndice
<1>3. TipoTabla
  BY <1>1 DEF Init, TipoTabla
<1>4. TipoRed /\ <<>> \in Seq(Numeros)
  BY EmptySeq DEF Init, TipoRed
<1>5. TipoHilos
  BY <1>4 DEF Init, TipoHilos, Lugares
<1>6. ASSUME NEW h \in Hilos PROVE Agregando(h)
  BY <1>1, LosHilos DEF Init, Agregando
<1>7. ASSUME NEW m \in Memorias PROVE Ocupada(m)
  <2>1. G(m)[2] = "gossiping" /\ S(m)[2] = "servidor" /\ G(m) \in Hilos /\ S(m) \in Hilos
    BY DEF G, S, Hilos
  <2> QED
    BY <2>1 DEF Init, Ocupada
<1> QED
  BY <1>2, <1>3, <1>4, <1>5, <1>6, <1>7 DEF Tipos, Puestos

\* Every variable keeps its type: whatever happens to the others, a memory looks for its
\* next seed within its configuration and sends what is in its list.
THEOREM TiposDeGossip == Spec => []TypeOK
<1>1. Tipos => TypeOK
  BY DEF Tipos, TipoVida, TipoTabla, TipoRed, TipoHilos, TipoIndice, TypeOK, Conexion
<1> QED
  BY <1>1, TiposInit, TiposNext, PTL DEF Spec

-----------------------------------------------------------------------------
(* The tables.                                                              *)

\* A step that leaves the tables alone and sends no thread to add.
LEMMA SanaQuieta ==
  ASSUME Sana, UNCHANGED tabla, riesgo \subseteq riesgo',
         \A g \in Hilos : pc'[g] \in {"toma", "enlaza"} =>
                            /\ pc'[g] = pc[g] /\ porAgregar'[g] = porAgregar[g]
                            /\ ultimo'[g] = ultimo[g]
  PROVE  Sana'
<1> SUFFICES ASSUME "cruza" \notin riesgo'
             PROVE  /\ \A m \in Memorias : SanaDe(m)'
                    /\ \A g \in Hilos : PorAgregarSana(g)'
  BY DEF Sana
<1>1. "cruza" \notin riesgo /\ tabla_gossip' = tabla_gossip /\ elements_count' = elements_count
  BY DEF tabla
<1>2. ASSUME NEW m \in Memorias PROVE SanaDe(m)'
  BY <1>1, <1>2 DEF Sana, SanaDe
<1>3. ASSUME NEW g \in Hilos PROVE PorAgregarSana(g)'
  BY <1>1, <1>3 DEF Sana, PorAgregarSana, Ausente
<1> QED
  BY <1>2, <1>3

\* A thread that goes anywhere but to add.
LEMMA SanaAvanza ==
  ASSUME Sana, Tipos, NEW h \in Hilos, NEW lugar \in Lugares \ {"toma", "enlaza"}, Va(h, lugar),
         UNCHANGED <<tabla, ultimo>>, riesgo \subseteq riesgo',
         \A g \in Hilos : g # h => porAgregar'[g] = porAgregar[g]
  PROVE  Sana'
<1>1. \A g \in Hilos : pc'[g] = IF g = h THEN lugar ELSE pc[g]
  BY DEF Va, Tipos, TipoHilos
<1> QED
  BY <1>1, SanaQuieta

LEMMA SanaTermina ==
  ASSUME Sana, Tipos, NEW m \in Memorias, NEW como, Termina(m, como), riesgo \subseteq riesgo'
  PROVE  Sana'
<1>1. \A g \in Hilos : pc'[g] \in {"toma", "enlaza"} =>
                         /\ pc'[g] = pc[g] /\ porAgregar'[g] = porAgregar[g]
                         /\ ultimo'[g] = ultimo[g]
  BY LosHilos DEF Termina, Tipos, TipoHilos
<1> QED
  BY <1>1, SanaQuieta DEF Termina

\* A seed goes on to be added when the table does not name it.
LEMMA SanaMira ==
  ASSUME Sana, Tipos, NEW h \in Hilos, table_has_memory(h)
  PROVE  Sana'
<1>1. UNCHANGED <<tabla, ultimo>> /\ riesgo' = riesgo /\ TipoHilos /\ pc[h] = "busca"
  BY DEF table_has_memory, Tipos, En
<1>2. CASE Va(h, Despues(h)) /\ UNCHANGED porAgregar
  <2>1. Despues(h) \in Lugares \ {"toma", "enlaza"}
    BY DEF Despues, Lugares
  <2> QED
    BY <1>1, <1>2, <2>1, SanaAvanza
<1>3. CASE porAgregar' = [porAgregar EXCEPT ![h] = Tail(@)] /\ UNCHANGED pc
  <2>1. Va(h, "busca") /\ \A g \in Hilos : g # h => porAgregar'[g] = porAgregar[g]
    BY <1>1, <1>3 DEF Va, TipoHilos
  <2> QED
    BY <1>1, <2>1, SanaAvanza DEF Lugares
<1>4. CASE /\ Head(porAgregar[h]) \notin Elementos(tabla_gossip[h[1]])
           /\ Va(h, "toma") /\ UNCHANGED porAgregar
  <2> SUFFICES ASSUME "cruza" \notin riesgo'
               PROVE  /\ \A m \in Memorias : SanaDe(m)'
                      /\ \A g \in Hilos : PorAgregarSana(g)'
    BY DEF Sana
  <2>1. "cruza" \notin riesgo /\ tabla_gossip' = tabla_gossip /\ elements_count' = elements_count
    BY <1>1 DEF tabla
  <2>2. ASSUME NEW m \in Memorias PROVE SanaDe(m)'
    BY <2>1, <2>2 DEF Sana, SanaDe
  <2>3. ASSUME NEW g \in Hilos PROVE PorAgregarSana(g)'
    <3>1. CASE g = h
      <4>1. Ausente(h)
        BY <1>4 DEF Elementos, Ausente
      <4>2. pc'[h] = "toma"
        BY <1>1, <1>4 DEF Va, TipoHilos
      <4> QED
        BY <1>4, <2>1, <3>1, <4>1, <4>2 DEF PorAgregarSana, Ausente
    <3>2. CASE g # h
      <4>1. pc'[g] = pc[g] /\ porAgregar' = porAgregar /\ ultimo' = ultimo
        BY <1>1, <1>4, <3>2 DEF Va, TipoHilos
      <4> QED
        BY <2>1, <2>3, <4>1 DEF Sana, PorAgregarSana, Ausente
    <3> QED
      BY <3>1, <3>2
  <2> QED
    BY <2>2, <2>3
<1> QED
  BY <1>2, <1>3, <1>4 DEF table_has_memory

\* As long as the list is what it believes, the element it finds is the last.
LEMMA SanaToma ==
  ASSUME Sana, Tipos, NEW h \in Hilos, TomaUltimo(h)
  PROVE  Sana'
<1> SUFFICES ASSUME "cruza" \notin riesgo'
             PROVE  /\ \A m \in Memorias : SanaDe(m)'
                    /\ \A g \in Hilos : PorAgregarSana(g)'
  BY DEF Sana
<1>1. /\ "cruza" \notin riesgo /\ tabla_gossip' = tabla_gossip /\ elements_count' = elements_count
      /\ porAgregar' = porAgregar /\ pc[h] = "toma" /\ TipoHilos /\ h[1] \in Memorias
      /\ pc' = [pc EXCEPT ![h] = "enlaza"] /\ ultimo' = [ultimo EXCEPT ![h] = elements_count[h[1]]]
  BY LosHilos DEF TomaUltimo, tabla, En, Va, Tipos
<1>2. ASSUME NEW m \in Memorias PROVE SanaDe(m)'
  BY <1>1, <1>2 DEF Sana, SanaDe
<1>3. ASSUME NEW g \in Hilos PROVE PorAgregarSana(g)'
  <2>1. PorAgregarSana(g) /\ SanaDe(h[1])
    BY <1>1, <1>3 DEF Sana
  <2>2. CASE g = h
    BY <1>1, <2>1, <2>2 DEF PorAgregarSana, Ausente, SanaDe, TipoHilos
  <2>3. CASE g # h
    BY <1>1, <2>1, <2>3 DEF PorAgregarSana, Ausente, TipoHilos
  <2> QED
    BY <2>2, <2>3
<1> QED
  BY <1>2, <1>3

\* It adds at the end, and what the other thread is about to add is somebody else.
LEMMA SanaEnlaza ==
  ASSUME Sana, Tipos, NEW h \in Hilos, Enlaza(h)
  PROVE  Sana'
<1> SUFFICES ASSUME "cruza" \notin riesgo'
             PROVE  /\ \A m \in Memorias : SanaDe(m)'
                    /\ \A g \in Hilos : PorAgregarSana(g)'
  BY DEF Sana
<1> DEFINE m == h[1]
           t == tabla_gossip[m]
           x == Head(porAgregar[h])
<1>1. /\ "cruza" \notin riesgo /\ ~Cruza(h) /\ pc[h] = "enlaza" /\ TipoHilos
      /\ m \in Memorias /\ Otro(h) \in Hilos /\ Otro(h) # h /\ Otro(h)[1] = m
  BY LosHilos DEF Enlaza, En, Tipos
<1>2. /\ SanaDe(m) /\ Ausente(h) /\ ultimo[h] = Len(t)
  BY <1>1 DEF Sana, PorAgregarSana
<1>3. t \in Seq(Numeros) /\ t # <<>> /\ Len(t) \in Nat \ {0} /\ x \in Numeros
      /\ tabla_gossip \in [Memorias -> Seq(Numeros)] /\ elements_count \in [Memorias -> Nat]
  BY <1>1, <1>2, EnlazaTabla, EmptySeq DEF SanaDe, Tipos, TipoTabla
<1>4. tabla_gossip' = [tabla_gossip EXCEPT ![m] = Append(t, x)]
      /\ elements_count' = [elements_count EXCEPT ![m] = @ + 1]
  <2>1. SubSeq(t, 1, ultimo[h]) = t /\ ultimo[h] # 0
    BY <1>2, <1>3, SubSeqFull
  <2> QED
    BY <2>1 DEF Enlaza
<1>5. /\ pc' = [pc EXCEPT ![h] = "busca"]
      /\ porAgregar' = [porAgregar EXCEPT ![h] = Tail(porAgregar[h])]
      /\ ultimo' = [ultimo EXCEPT ![h] = 0, ![Otro(h)] =
                      IF ultimo[h] \in 1..(ultimo[Otro(h)] - 1) THEN 0 ELSE ultimo[Otro(h)]]
  BY <1>1 DEF Enlaza, Va, TipoHilos
<1>6. /\ Append(t, x) # <<>> /\ Len(Append(t, x)) = Len(t) + 1
      /\ \A k \in 1..Len(t) : Append(t, x)[k] = t[k]
      /\ Append(t, x)[Len(t) + 1] = x
  BY <1>3, AppendProperties
<1>7. ASSUME NEW n \in Memorias PROVE SanaDe(n)'
  <2>1. CASE n # m
    <3>1. tabla_gossip'[n] = tabla_gossip[n] /\ elements_count'[n] = elements_count[n]
      BY <1>3, <1>4, <2>1
    <3> QED
      BY <1>1, <1>7, <3>1 DEF Sana, SanaDe
  <2>2. CASE n = m
    <3>1. tabla_gossip'[n] = Append(t, x) /\ elements_count'[n] = Len(t) + 1
      BY <1>2, <1>3, <1>4, <2>2 DEF SanaDe
    <3>2. Append(t, x)[1] = m
      BY <1>2, <1>3, <1>6 DEF SanaDe
    <3>3. \A j, k \in 1..Len(t) + 1 : Append(t, x)[j] = Append(t, x)[k] => j = k
      <4>1. \A k \in 1..Len(t) : t[k] # x
        BY <1>2 DEF Ausente
      <4>2. \A j, k \in 1..Len(t) : t[j] = t[k] => j = k
        BY <1>2 DEF SanaDe
      <4> HIDE DEF t, x
      <4> QED
        BY <1>3, <1>6, <4>1, <4>2
    <3> QED
      BY <1>6, <2>2, <3>1, <3>2, <3>3 DEF SanaDe
  <2> QED
    BY <2>1, <2>2
<1>8. ASSUME NEW g \in Hilos PROVE PorAgregarSana(g)'
  <2>1. PorAgregarSana(g) /\ g[1] \in Memorias
    BY <1>1, <1>8, LosHilos DEF Sana
  <2>2. CASE g = h
    <3>1. pc'[g] = "busca"
      BY <1>1, <1>5, <2>2 DEF TipoHilos
    <3> QED
      BY <3>1 DEF PorAgregarSana
  <2>3. CASE g = Otro(h)
    <3>1. pc'[g] = pc[g] /\ porAgregar'[g] = porAgregar[g] /\ g[1] = m /\ pc[g] # "enlaza"
          /\ (pc[g] = "toma" => Head(porAgregar[g]) # x)
      BY <1>1, <1>5, <2>3 DEF TipoHilos, Cruza
    <3>2. tabla_gossip'[m] = Append(t, x)
      BY <1>1, <1>3, <1>4
    <3>3. pc[g] = "toma" => Ausente(g)'
      <4> SUFFICES ASSUME pc[g] = "toma",
                          NEW k \in 1..Len(Append(t, x))
                   PROVE  Append(t, x)[k] # Head(porAgregar[g])
        BY <3>1, <3>2 DEF Ausente
      <4>1. \A j \in 1..Len(t) : t[j] # Head(porAgregar[g])
        BY <2>1, <3>1 DEF PorAgregarSana, Ausente
      <4>2. Head(porAgregar[g]) # x
        BY <3>1
      <4> HIDE DEF t, x
      <4> QED
        BY <1>3, <1>6, <4>1, <4>2
    <3> QED
      BY <3>1, <3>3 DEF PorAgregarSana
  <2>4. CASE g # h /\ g # Otro(h)
    <3>1. g[1] # m
      BY <2>4, LosHilos
    <3>2. pc'[g] = pc[g] /\ porAgregar'[g] = porAgregar[g] /\ ultimo'[g] = ultimo[g]
      BY <1>1, <1>5, <2>4 DEF TipoHilos
    <3>3. tabla_gossip'[g[1]] = tabla_gossip[g[1]]
      BY <1>3, <1>4, <2>1, <3>1
    <3> QED
      BY <2>1, <3>2, <3>3 DEF PorAgregarSana, Ausente
  <2> QED
    BY <2>2, <2>3, <2>4
<1> QED
  BY <1>7, <1>8

\* A process that starts knows itself.
LEMMA SanaArranca ==
  ASSUME Sana, Tipos, NEW m \in Memorias, Arranca(m)
  PROVE  Sana'
<1> SUFFICES ASSUME "cruza" \notin riesgo'
             PROVE  /\ \A n \in Memorias : SanaDe(n)'
                    /\ \A g \in Hilos : PorAgregarSana(g)'
  BY DEF Sana
<1>1. /\ "cruza" \notin riesgo /\ UNCHANGED <<pc, porAgregar, ultimo>>
      /\ pc[G(m)] = "conecta" /\ pc[S(m)] = "acepta"
      /\ tabla_gossip' = [tabla_gossip EXCEPT ![m] = <<m>>]
      /\ elements_count' = [elements_count EXCEPT ![m] = 1] /\ TipoTabla
  BY DEF Arranca, hilos, Tipos, Puestos, Ocupada
<1>2. ASSUME NEW n \in Memorias PROVE SanaDe(n)'
  <2>1. CASE n = m
    BY <1>1, <2>1 DEF SanaDe, TipoTabla
  <2>2. CASE n # m
    BY <1>1, <1>2, <2>2 DEF Sana, SanaDe, TipoTabla
  <2> QED
    BY <2>1, <2>2
<1>3. ASSUME NEW g \in Hilos PROVE PorAgregarSana(g)'
  <2>1. PorAgregarSana(g) /\ g[1] \in Memorias /\ (g = G(g[1]) \/ g = S(g[1]))
    BY <1>1, <1>3, LosHilos DEF Sana
  <2>2. CASE g[1] = m
    BY <1>1, <2>1, <2>2 DEF PorAgregarSana
  <2>3. CASE g[1] # m
    <3>1. tabla_gossip'[g[1]] = tabla_gossip[g[1]]
      BY <1>1, <2>1, <2>3 DEF TipoTabla
    <3> QED
      BY <1>1, <2>1, <3>1 DEF PorAgregarSana, Ausente
  <2> QED
    BY <2>2, <2>3
<1> QED
  BY <1>2, <1>3

\* A send or a recv that fails, and list_get.
LEMMA SanaFalla ==
  ASSUME Sana, Tipos, NEW h \in Hilos,
         \/ \E hasta \in Lugares \ {"toma", "enlaza"} : Tuberia(h, hasta)
         \/ Corte(h)
         \/ SinElemento(h)
  PROVE  Sana'
<1>1. h[1] \in Memorias /\ riesgo \subseteq riesgo'
  BY LosHilos DEF Tuberia, Corte, SinElemento
<1>2. CASE Termina(h[1], "muerta")
  BY <1>1, <1>2, SanaTermina
<1>3. ASSUME NEW hasta \in Lugares \ {"toma", "enlaza"}, Va(h, hasta), UNCHANGED <<tabla, ultimo>>,
             \A g \in Hilos : g # h => porAgregar'[g] = porAgregar[g]
      PROVE  Sana'
  BY <1>1, <1>3, SanaAvanza
<1>4. CASE \E hasta \in Lugares \ {"toma", "enlaza"} : Tuberia(h, hasta)
  <2>1. PICK hasta \in Lugares \ {"toma", "enlaza"} : Tuberia(h, hasta)
    BY <1>4
  <2> QED
    BY <1>2, <1>3, <2>1 DEF Tuberia
<1>5. CASE Corte(h) /\ ~Termina(h[1], "muerta")
  <2>1. PICK q \in {<<>>} \cup {<<x>> : x \in Numeros} : porAgregar' = [porAgregar EXCEPT ![h] = q]
    BY <1>5 DEF Corte
  <2>2. \A g \in Hilos : g # h => porAgregar'[g] = porAgregar[g]
    BY <2>1 DEF Tipos, TipoHilos
  <2>3. Va(h, "busca") /\ UNCHANGED <<tabla, ultimo>> /\ "busca" \in Lugares
    BY <1>5 DEF Corte, Lugares
  <2> QED
    BY <1>3, <2>2, <2>3
<1> QED
  BY <1>2, <1>4, <1>5 DEF SinElemento

\* The rest of the two threads.
LEMMA SanaResto ==
  ASSUME Sana, Tipos, NEW m \in Memorias,
         \/ iniciar_conexion_gossiping(m) \/ EnviaOperacion(m) \/ EnviaLista(m)
         \/ RecibeRespuesta(m) \/ terminar_conexion(m)
         \/ esperar_cliente(m) \/ recibir_operacion(m) \/ RecibePedido(m) \/ EnviaTabla(m)
  PROVE  Sana'
<1>1. G(m) \in Hilos /\ S(m) \in Hilos /\ Lugares \ {"toma", "enlaza"} =
        {"conecta", "envia_operacion", "envia_lista", "recibe", "busca", "cierra", "acepta",
         "opera", "envia_tabla"}
  BY LosHilos DEF Lugares
<1>2. ASSUME NEW h \in {G(m), S(m)}, NEW lugar \in Lugares \ {"toma", "enlaza"}, Va(h, lugar),
             UNCHANGED <<tabla, ultimo, riesgo>>,
             \A g \in Hilos : g # h => porAgregar'[g] = porAgregar[g]
      PROVE  Sana'
  BY <1>1, <1>2, SanaAvanza
<1>3. CASE iniciar_conexion_gossiping(m)
  <2>1. /\ UNCHANGED <<tabla, ultimo, riesgo, porAgregar>>
        /\ Va(G(m), "envia_operacion") \/ Va(G(m), "conecta")
    BY <1>1, <1>3 DEF iniciar_conexion_gossiping, Va, En, Tipos, TipoHilos
  <2> QED
    BY <1>1, <1>2, <2>1
<1>4. CASE EnviaOperacion(m) \/ EnviaLista(m)
  <2>1. \/ /\ UNCHANGED <<tabla, ultimo, riesgo, porAgregar>>
           /\ Va(G(m), "envia_lista") \/ Va(G(m), "recibe")
        \/ Tuberia(G(m), "envia_lista") \/ Tuberia(G(m), "recibe")
    BY <1>4 DEF EnviaOperacion, EnviaLista
  <2> QED
    BY <1>1, <1>2, <2>1, SanaFalla
<1>5. CASE RecibeRespuesta(m)
  <2>1. \/ /\ UNCHANGED <<tabla, ultimo, riesgo>> /\ Va(G(m), "busca")
           /\ \A g \in Hilos : g # G(m) => porAgregar'[g] = porAgregar[g]
        \/ Corte(G(m))
    BY <1>5 DEF RecibeRespuesta, Tipos, TipoHilos
  <2> QED
    BY <1>1, <1>2, <2>1, SanaFalla
<1>6. CASE terminar_conexion(m)
  <2>1. UNCHANGED <<tabla, ultimo, riesgo, porAgregar>> /\ Va(G(m), "conecta")
    BY <1>6 DEF terminar_conexion
  <2> QED
    BY <1>1, <1>2, <2>1
<1>7. CASE esperar_cliente(m) \/ recibir_operacion(m)
  <2>1. /\ UNCHANGED <<tabla, ultimo, riesgo, porAgregar>>
        /\ Va(S(m), "opera") \/ Va(S(m), "recibe") \/ Va(S(m), "acepta")
    BY <1>7 DEF esperar_cliente, recibir_operacion
  <2> QED
    BY <1>1, <1>2, <2>1
<1>8. CASE RecibePedido(m)
  <2>1. \/ /\ UNCHANGED <<tabla, ultimo, riesgo>> /\ Va(S(m), "busca")
           /\ \A g \in Hilos : g # S(m) => porAgregar'[g] = porAgregar[g]
        \/ Corte(S(m))
    BY <1>8 DEF RecibePedido, Tipos, TipoHilos
  <2> QED
    BY <1>1, <1>2, <2>1, SanaFalla
<1>9. CASE EnviaTabla(m)
  <2>1. \/ UNCHANGED <<tabla, ultimo, riesgo, porAgregar>> /\ Va(S(m), "opera")
        \/ Tuberia(S(m), "opera")
    BY <1>9 DEF EnviaTabla
  <2> QED
    BY <1>1, <1>2, <2>1, SanaFalla
<1> QED
  BY <1>3, <1>4, <1>5, <1>6, <1>7, <1>8, <1>9

LEMMA SanaNext ==
  ASSUME Sana, Tipos, [Next]_vars
  PROVE  Sana'
<1>1. ASSUME NEW h \in Hilos, recibir_seed(h) \/ SinElemento(h) PROVE Sana'
  BY <1>1, SanaMira, SanaToma, SanaEnlaza, SanaFalla DEF recibir_seed
<1>2. ASSUME NEW m \in Memorias, gossiping(m) \/ servidor(m) PROVE Sana'
  BY <1>1, <1>2, LosHilos, SanaResto DEF gossiping, servidor
<1>3. ASSUME NEW m \in Memorias, Cae(m) PROVE Sana'
  BY <1>3, SanaTermina DEF Cae
<1>4. CASE UNCHANGED vars
  BY <1>4, SanaQuieta DEF vars, hilos
<1> QED
  BY <1>2, <1>3, <1>4, SanaArranca DEF Next

LEMMA SanaInit == Init => Sana
  BY LosHilos DEF Init, Sana, SanaDe, PorAgregarSana

\* Until two appends of one memory cross, its table begins with itself, names nobody
\* twice and has the length the list believes, whoever it hears of and whenever.
THEOREM TablasSanas == Spec => []TablaSana
<1>1. Sana => TablaSana
  BY DEF Sana, SanaDe, TablaSana
<1> QED
  BY <1>1, TiposInit, TiposNext, SanaInit, SanaNext, PTL DEF Spec

-----------------------------------------------------------------------------
(* Nobody dies.                                                             *)

LEMMA VivaNext ==
  ASSUME SinMuertes, Sana, Tipos, [Next]_vars
  PROVE  SinMuertes'
<1> SUFFICES ASSUME riesgo' = {} PROVE \A m \in Memorias : viva'[m] # "muerta"
  BY DEF SinMuertes
<1>1. ASSUME UNCHANGED <<viva, riesgo>> PROVE \A m \in Memorias : viva'[m] # "muerta"
  BY <1>1 DEF SinMuertes
<1>2. ASSUME NEW h \in Hilos PROVE ~Corte(h) /\ \A hasta \in Lugares : ~Tuberia(h, hasta)
  BY DEF Corte, Tuberia
<1>3. ASSUME NEW h \in Hilos, SinElemento(h) PROVE FALSE
  <2>1. riesgo = {} /\ h[1] \in Memorias /\ ~Completa(h[1])
    BY <1>3, LosHilos DEF SinElemento
  <2>2. elements_count[h[1]] = Len(tabla_gossip[h[1]]) /\ elements_count[h[1]] \in Nat
    BY <2>1 DEF Sana, SanaDe, Tipos, TipoTabla
  <2> QED
    BY <2>1, <2>2 DEF Completa
<1>4. ASSUME NEW h \in Hilos, recibir_seed(h) PROVE \A m \in Memorias : viva'[m] # "muerta"
  <2>1. viva' = viva /\ riesgo \subseteq riesgo'
    BY <1>4 DEF recibir_seed, table_has_memory, TomaUltimo, Enlaza
  <2> QED
    BY <1>1, <2>1
<1>5. ASSUME NEW m \in Memorias, gossiping(m) \/ servidor(m)
      PROVE  \A n \in Memorias : viva'[n] # "muerta"
  <2>1. /\ G(m) \in Hilos /\ S(m) \in Hilos
        /\ {"envia_lista", "recibe", "opera"} \subseteq Lugares
    BY LosHilos DEF Lugares
  <2>2. \/ recibir_seed(G(m)) \/ recibir_seed(S(m)) \/ UNCHANGED <<viva, riesgo>>
    BY <1>2, <1>3, <1>5, <2>1
       DEF gossiping, servidor, iniciar_conexion_gossiping, EnviaOperacion, EnviaLista,
           RecibeRespuesta, terminar_conexion, esperar_cliente, recibir_operacion,
           RecibePedido, EnviaTabla
  <2> QED
    BY <1>1, <1>4, <2>1, <2>2
<1>6. ASSUME NEW m \in Memorias, Cae(m) \/ Arranca(m)
      PROVE  \A n \in Memorias : viva'[n] # "muerta"
  BY <1>6 DEF Cae, Arranca, Termina, SinMuertes, Tipos, TipoVida
<1>7. CASE UNCHANGED vars
  BY <1>1, <1>7 DEF vars
<1> QED
  BY <1>5, <1>6, <1>7 DEF Next

\* A process never ends of itself while no two appends have crossed and no peer has
\* gone in the middle of an exchange: a crash of an idle one, and its restart, harm
\* nobody.
THEOREM NadieMuere == Spec => []SinMuertes
<1>1. Init => SinMuertes
  BY DEF Init, SinMuertes
<1> QED
  BY <1>1, TiposInit, TiposNext, SanaInit, SanaNext, VivaNext, PTL DEF Spec

-----------------------------------------------------------------------------
(* What is learnt stays.                                                    *)

\* Who touches a table: the end of an append, and a process that starts.
LEMMA QuienTocaLaTabla ==
  ASSUME [Next]_vars
  PROVE  \/ tabla_gossip' = tabla_gossip
         \/ \E h \in Hilos : Enlaza(h)
         \/ \E m \in Memorias : Arranca(m)
<1>1. ASSUME NEW h \in Hilos, recibir_seed(h) \/ SinElemento(h), ~Enlaza(h)
      PROVE  tabla_gossip' = tabla_gossip
  BY <1>1 DEF recibir_seed, table_has_memory, TomaUltimo, SinElemento, Termina, tabla
<1>2. ASSUME NEW m \in Memorias, gossiping(m) \/ servidor(m), ~Enlaza(G(m)), ~Enlaza(S(m))
      PROVE  tabla_gossip' = tabla_gossip
  BY <1>1, <1>2, LosHilos
     DEF gossiping, servidor, iniciar_conexion_gossiping, EnviaOperacion, EnviaLista,
         RecibeRespuesta, terminar_conexion, esperar_cliente, recibir_operacion,
         RecibePedido, EnviaTabla, Corte, Tuberia, Termina, tabla
<1>3. ASSUME NEW m \in Memorias, Cae(m)
      PROVE  tabla_gossip' = tabla_gossip
  BY <1>3 DEF Cae, Termina, tabla
<1>4. CASE UNCHANGED vars
  BY <1>4 DEF vars, tabla
<1> QED
  BY <1>2, <1>3, <1>4, LosHilos DEF Next

\* An append that does not cross another links after the last element.
LEMMA EnlazaAlFinal ==
  ASSUME Sana, Tipos, "cruza" \notin riesgo, NEW h \in Hilos, Enlaza(h)
  PROVE  /\ h[1] \in Memorias
         /\ tabla_gossip[h[1]] \in Seq(Numeros)
         /\ Head(porAgregar[h]) \in Numeros
         /\ tabla_gossip' = [tabla_gossip EXCEPT
                               ![h[1]] = Append(tabla_gossip[h[1]], Head(porAgregar[h]))]
<1>1. pc[h] = "enlaza" /\ h[1] \in Memorias
  BY LosHilos DEF Enlaza, En
<1>2. SanaDe(h[1]) /\ ultimo[h] = Len(tabla_gossip[h[1]])
  BY <1>1 DEF Sana, PorAgregarSana
<1>3. /\ tabla_gossip[h[1]] \in Seq(Numeros) /\ Len(tabla_gossip[h[1]]) \in Nat \ {0}
      /\ Head(porAgregar[h]) \in Numeros
  BY <1>1, <1>2, EnlazaTabla, EmptySeq DEF SanaDe, Tipos, TipoTabla
<1>4. SubSeq(tabla_gossip[h[1]], 1, ultimo[h]) = tabla_gossip[h[1]] /\ ultimo[h] # 0
  BY <1>2, <1>3, SubSeqFull
<1> QED
  BY <1>1, <1>3, <1>4 DEF Enlaza

\* Until two appends have crossed, the table of a memory that lives only grows at the end.
THEOREM LoAprendidoQueda == Spec => NadieOlvida
<1>1. ASSUME Sana, Tipos, [Next]_vars, NEW m \in Memorias, viva[m] = "si",
             "cruza" \notin riesgo
      PROVE  SubSeq(tabla_gossip'[m], 1, Len(tabla_gossip[m])) = tabla_gossip[m]
  <2>1. tabla_gossip[m] \in Seq(Numeros) /\ Len(tabla_gossip[m]) \in Nat
    BY <1>1 DEF Tipos, TipoTabla
  <2>2. CASE tabla_gossip'[m] = tabla_gossip[m]
    BY <2>1, <2>2, SubSeqFull
  <2>3. ASSUME NEW h \in Hilos, Enlaza(h), h[1] = m
        PROVE  SubSeq(tabla_gossip'[m], 1, Len(tabla_gossip[m])) = tabla_gossip[m]
    <3>1. PICK x \in Numeros : tabla_gossip'[m] = Append(tabla_gossip[m], x)
      BY <1>1, <2>3, EnlazaAlFinal DEF Tipos, TipoTabla
    <3> DEFINE s == tabla_gossip[m]
               t == Append(s, x)
    <3>2. /\ t \in Seq(Numeros) /\ Len(t) = Len(s) + 1 /\ 1..Len(t) = DOMAIN t
          /\ \A k \in 1..Len(s) : t[k] = s[k]
      BY <2>1, AppendProperties
    <3>3. /\ SubSeq(t, 1, Len(s)) \in Seq(Numeros) /\ Len(SubSeq(t, 1, Len(s))) = Len(s)
          /\ \A k \in 1..Len(s) : SubSeq(t, 1, Len(s))[k] = t[k]
      <4>1. \A k \in 1..Len(s) : t[k] \in Numeros
        BY <2>1, <3>2
      <4> QED
        BY <2>1, <3>2, <4>1, SubSeqProperties
    <3>4. SubSeq(t, 1, Len(s)) = s
      BY <2>1, <3>2, <3>3, SeqEqual
    <3> QED
      BY <3>1, <3>4
  <2>4. ASSUME NEW h \in Hilos, Enlaza(h), h[1] # m
        PROVE  tabla_gossip'[m] = tabla_gossip[m]
    BY <1>1, <2>4, EnlazaAlFinal DEF Tipos, TipoTabla
  <2>5. ASSUME NEW n \in Memorias, Arranca(n)
        PROVE  tabla_gossip'[m] = tabla_gossip[m]
    BY <1>1, <2>5 DEF Arranca, Tipos, TipoTabla
  <2> QED
    BY <1>1, <2>2, <2>3, <2>4, <2>5, QuienTocaLaTabla
<1>2. Sana /\ Tipos /\ [Next]_vars =>
        [\A m \in Memorias : viva[m] = "si" /\ viva'[m] = "si" /\ "cruza" \notin riesgo =>
           SubSeq(tabla_gossip'[m], 1, Len(tabla_gossip[m])) = tabla_gossip[m]]_vars
  BY <1>1
<1> QED
  BY <1>2, TiposInit, TiposNext, SanaInit, SanaNext, PTL DEF Spec, NadieOlvida

-----------------------------------------------------------------------------
(* Nobody is heard of but through a chain of seeds.                         *)

\* A connection to memory m: it names memories joined to m, and so is whoever it is from.
ConexionSuya(m) ==
  {x \in Conexion : x.lista \in Seq(Enlazadas(m)) /\ (x.de # Nadie => m \in Vecinas(x.de))}

\* Every list of a memory, or on its way to it, names memories joined to it.
Enlazado ==
  "corte" \notin riesgo =>
    /\ \A m \in Memorias : tabla_gossip[m] \in Seq(Enlazadas(m))
    /\ \A m \in Memorias : respuesta[m] \in Seq(Enlazadas(m))
    /\ \A h \in Hilos : porAgregar[h] \in Seq(Enlazadas(h[1]))
    /\ \A m \in Memorias : conexiones[m] \in Seq(ConexionSuya(m))

\* A memory is joined to itself, and to the same memories as those it talks to.
LEMMA UnoMismo ==
  ASSUME NEW m \in Memorias
  PROVE  m \in Enlazadas(m) /\ <<m>> \in Seq(Enlazadas(m)) /\ <<>> \in Seq(Enlazadas(m))
<1>1. m \in Enlazadas(m)
  BY DEF Enlazadas
<1> QED
  BY <1>1, EmptySeq

LEMMA LosMismos ==
  ASSUME NEW m \in Memorias, NEW n \in Memorias, n \in Vecinas(m) \/ m \in Vecinas(n)
  PROVE  Enlazadas(n) = Enlazadas(m) /\ n \in Vecinas(m) /\ m \in Vecinas(n)
<1>1. n \in Vecinas(m) /\ m \in Vecinas(n)
  BY DEF Vecinas
<1>2. ASSUME NEW x, NEW y, x \in Memorias, y \in Memorias, y \in Vecinas(x),
             NEW z \in Enlazadas(x)
      PROVE  z \in Enlazadas(y)
  <2>1. z \in Memorias /\ \A C \in SUBSET Memorias :
          x \in C /\ (\A w \in C : Vecinas(w) \subseteq C) => z \in C
    BY <1>2 DEF Enlazadas
  <2>2. x \in Vecinas(y)
    BY <1>2 DEF Vecinas
  <2>3. ASSUME NEW C \in SUBSET Memorias, y \in C, \A w \in C : Vecinas(w) \subseteq C
        PROVE  z \in C
    BY <2>1, <2>2, <2>3
  <2> QED
    BY <2>1, <2>3 DEF Enlazadas
<1>3. Enlazadas(n) \subseteq Enlazadas(m)
  BY <1>1, <1>2
<1>4. Enlazadas(m) \subseteq Enlazadas(n)
  BY <1>1, <1>2
<1> QED
  BY <1>1, <1>3, <1>4

\* The seed a gossip thread is at is one of those.
LEMMA ElPar ==
  ASSUME Tipos, NEW m \in Memorias, Semillas[m] # <<>>
  PROVE  Par(m) \in Memorias /\ Enlazadas(Par(m)) = Enlazadas(m) /\ Par(m) \in Vecinas(m)
<1>1. Par(m) \in Memorias /\ i[m] \in 1..Len(Semillas[m])
  BY ParTipo
<1>2. Par(m) \in Vecinas(m)
  BY <1>1 DEF Par, Vecinas, Elementos
<1> QED
  BY <1>1, <1>2, LosMismos

\* What is sent of a table.
LEMMA EnviarEnlazado ==
  ASSUME Tipos, Enlazado, "corte" \notin riesgo, NEW m \in Memorias, Completa(m)
  PROVE  enviar_memorias(m) \in Seq(Enlazadas(m))
<1>1. /\ tabla_gossip[m] \in Seq(Enlazadas(m)) /\ elements_count[m] \in Nat
      /\ elements_count[m] <= Len(tabla_gossip[m])
  BY DEF Enlazado, Tipos, TipoTabla, Completa
<1>2. \A k \in 1..elements_count[m] : tabla_gossip[m][k] \in Enlazadas(m)
  BY <1>1
<1> QED
  BY <1>1, <1>2, SubSeqProperties DEF enviar_memorias

\* A connection whose end goes, or which is given another list of the same memories.
LEMMA ConexionSigue ==
  ASSUME NEW m \in Memorias, NEW x \in ConexionSuya(m)
  PROVE  /\ [x EXCEPT !.de = Nadie] \in ConexionSuya(m)
         /\ \A b \in BOOLEAN : [x EXCEPT !.operacion = b] \in ConexionSuya(m)
         /\ \A q \in Seq(Numeros) : q \in Seq(Enlazadas(m)) =>
              [x EXCEPT !.lista = q] \in ConexionSuya(m)
         /\ x.lista \in Seq(Enlazadas(m)) /\ x \in Conexion
         /\ x.de # Nadie => x.de \in Memorias /\ m \in Vecinas(x.de)
<1>1. x \in Conexion /\ x.lista \in Seq(Enlazadas(m)) /\ (x.de # Nadie => m \in Vecinas(x.de))
  BY DEF ConexionSuya
<1>2. [x EXCEPT !.de = Nadie] \in ConexionSuya(m)
  <2>1. /\ [x EXCEPT !.de = Nadie] \in Conexion /\ [x EXCEPT !.de = Nadie].de = Nadie
        /\ [x EXCEPT !.de = Nadie].lista = x.lista
    BY <1>1 DEF Conexion
  <2> QED
    BY <1>1, <2>1 DEF ConexionSuya
<1>3. ASSUME NEW b \in BOOLEAN PROVE [x EXCEPT !.operacion = b] \in ConexionSuya(m)
  <2>1. /\ [x EXCEPT !.operacion = b] \in Conexion /\ [x EXCEPT !.operacion = b].de = x.de
        /\ [x EXCEPT !.operacion = b].lista = x.lista
    BY <1>1 DEF Conexion
  <2> QED
    BY <1>1, <2>1 DEF ConexionSuya
<1>4. ASSUME NEW q \in Seq(Numeros), q \in Seq(Enlazadas(m))
      PROVE  [x EXCEPT !.lista = q] \in ConexionSuya(m)
  <2>1. /\ [x EXCEPT !.lista = q] \in Conexion /\ [x EXCEPT !.lista = q].de = x.de
        /\ [x EXCEPT !.lista = q].lista = q
    BY <1>1, <1>4 DEF Conexion
  <2> QED
    BY <1>1, <1>4, <2>1 DEF ConexionSuya
<1>5. x.de # Nadie => x.de \in Memorias
  BY <1>1 DEF Conexion
<1> QED
  BY <1>1, <1>2, <1>3, <1>4, <1>5

\* The process of a memory ends.
LEMMA EnlazadoTermina ==
  ASSUME Tipos, Enlazado, NEW m \in Memorias, NEW como, Termina(m, como), riesgo \subseteq riesgo'
  PROVE  Enlazado'
<1> SUFFICES ASSUME "corte" \notin riesgo'
             PROVE  /\ \A n \in Memorias : tabla_gossip'[n] \in Seq(Enlazadas(n))
                    /\ \A n \in Memorias : respuesta'[n] \in Seq(Enlazadas(n))
                    /\ \A h \in Hilos : porAgregar'[h] \in Seq(Enlazadas(h[1]))
                    /\ \A n \in Memorias : conexiones'[n] \in Seq(ConexionSuya(n))
  BY DEF Enlazado
<1>1. /\ \A n \in Memorias : tabla_gossip[n] \in Seq(Enlazadas(n))
      /\ \A n \in Memorias : respuesta[n] \in Seq(Enlazadas(n))
      /\ \A h \in Hilos : porAgregar[h] \in Seq(Enlazadas(h[1]))
      /\ \A n \in Memorias : conexiones[n] \in Seq(ConexionSuya(n))
  BY DEF Enlazado
<1>2. tabla_gossip' = tabla_gossip
  BY DEF Termina, tabla
<1>3. \A n \in Memorias : respuesta'[n] = respuesta[n] \/ respuesta'[n] = <<>>
  BY DEF Termina, Tipos, TipoRed
<1>4. \A h \in Hilos : porAgregar'[h] = porAgregar[h] \/ porAgregar'[h] = <<>>
  BY DEF Termina, Tipos, TipoHilos
<1>5. ASSUME NEW n \in Memorias PROVE conexiones'[n] \in Seq(ConexionSuya(n))
  <2>1. CASE n = m
    <3>1. conexiones'[n] = <<>>
      BY <2>1 DEF Termina, Cortadas
    <3> QED
      BY <3>1, EmptySeq
  <2>2. CASE n # m
    <3> DEFINE f == [k \in 1..Len(conexiones[n]) |->
                       IF conexiones[n][k].de = m THEN [conexiones[n][k] EXCEPT !.de = Nadie]
                                                  ELSE conexiones[n][k]]
    <3>1. conexiones'[n] = f
      BY <2>2 DEF Termina, Cortadas
    <3>2. \A k \in 1..Len(conexiones[n]) : conexiones[n][k] \in ConexionSuya(n)
      BY <1>1
    <3>3. f \in [1..Len(conexiones[n]) -> ConexionSuya(n)]
      BY <3>2, ConexionSigue
    <3>4. Len(conexiones[n]) \in Nat
      BY <1>1
    <3> HIDE DEF f
    <3> QED
      BY <3>1, <3>3, <3>4, FuncionSeq
  <2> QED
    BY <2>1, <2>2
<1> QED
  BY <1>1, <1>2, <1>3, <1>4, <1>5, EmptySeq

\* A send or a recv that fails, and list_get.
LEMMA EnlazadoFalla ==
  ASSUME Tipos, Enlazado, NEW h \in Hilos,
         \/ \E hasta \in Lugares : Tuberia(h, hasta)
         \/ Corte(h)
         \/ SinElemento(h)
  PROVE  Enlazado'
<1>1. h[1] \in Memorias /\ riesgo \subseteq riesgo'
  BY LosHilos DEF Tuberia, Corte, SinElemento
<1>2. CASE Termina(h[1], "muerta")
  BY <1>1, <1>2, EnlazadoTermina
<1>3. CASE Corte(h)
  BY <1>3 DEF Corte, Enlazado
<1>4. CASE UNCHANGED <<tabla, red, porAgregar>>
  BY <1>1, <1>4 DEF Enlazado, tabla, red
<1> QED
  BY <1>2, <1>3, <1>4 DEF Tuberia, SinElemento

\* Adding what is received: it is dropped, or ends up in the table.
LEMMA EnlazadoAgrega ==
  ASSUME Tipos, Enlazado, NEW h \in Hilos, recibir_seed(h)
  PROVE  Enlazado'
<1> SUFFICES ASSUME "corte" \notin riesgo'
             PROVE  /\ \A n \in Memorias : tabla_gossip'[n] \in Seq(Enlazadas(n))
                    /\ \A n \in Memorias : respuesta'[n] \in Seq(Enlazadas(n))
                    /\ \A g \in Hilos : porAgregar'[g] \in Seq(Enlazadas(g[1]))
                    /\ \A n \in Memorias : conexiones'[n] \in Seq(ConexionSuya(n))
  BY DEF Enlazado
<1> DEFINE m == h[1]
           q == porAgregar[h]
<1>1. "corte" \notin riesgo /\ m \in Memorias /\ UNCHANGED red
  BY LosHilos DEF recibir_seed, table_has_memory, TomaUltimo, Enlaza, red
<1>2. /\ \A n \in Memorias : tabla_gossip[n] \in Seq(Enlazadas(n))
      /\ \A n \in Memorias : respuesta[n] \in Seq(Enlazadas(n))
      /\ \A g \in Hilos : porAgregar[g] \in Seq(Enlazadas(g[1]))
      /\ \A n \in Memorias : conexiones[n] \in Seq(ConexionSuya(n))
  BY <1>1 DEF Enlazado
<1>3. q \in Seq(Enlazadas(m)) /\ (q # <<>> => Head(q) \in Enlazadas(m) /\ Tail(q) \in Seq(Enlazadas(m)))
  BY <1>2, HeadTailProperties
<1>4. CASE UNCHANGED <<tabla, porAgregar>>
  BY <1>1, <1>2, <1>4 DEF red, tabla
<1>5. CASE UNCHANGED tabla /\ q # <<>> /\ porAgregar' = [porAgregar EXCEPT ![h] = Tail(@)]
  <2>1. \A g \in Hilos : porAgregar'[g] = IF g = h THEN Tail(q) ELSE porAgregar[g]
    BY <1>5 DEF Tipos, TipoHilos
  <2> QED
    BY <1>1, <1>2, <1>3, <1>5, <2>1 DEF red, tabla
<1>6. CASE Enlaza(h)
  <2>0. pc[h] = "enlaza" /\ q # <<>>
    BY <1>6 DEF Enlaza, En, Tipos, Puestos, Agregando
  <2>1. \A g \in Hilos : porAgregar'[g] = IF g = h THEN Tail(q) ELSE porAgregar[g]
    BY <1>6 DEF Enlaza, Tipos, TipoHilos
  <2>2. \A n \in Memorias : n # m => tabla_gossip'[n] = tabla_gossip[n]
    BY <1>6 DEF Enlaza, Tipos, TipoTabla
  <2>3. tabla_gossip'[m] = IF ultimo[h] = 0 THEN tabla_gossip[m]
                           ELSE Append(SubSeq(tabla_gossip[m], 1, ultimo[h]), Head(q))
    BY <1>1, <1>6 DEF Enlaza, Tipos, TipoTabla
  <2>4. SubSeq(tabla_gossip[m], 1, ultimo[h]) \in Seq(Enlazadas(m))
    <3>1. /\ ultimo[h] \in Nat /\ ultimo[h] <= Len(tabla_gossip[m]) 
          /\ tabla_gossip[m] \in Seq(Enlazadas(m))
      BY <1>1, <1>2 DEF Tipos, TipoHilos, Puestos, Agregando
    <3>2. \A k \in 1..ultimo[h] : tabla_gossip[m][k] \in Enlazadas(m)
      BY <3>1
    <3> QED
      BY <3>1, <3>2, SubSeqProperties
  <2>5. Append(SubSeq(tabla_gossip[m], 1, ultimo[h]), Head(q)) \in Seq(Enlazadas(m))
    BY <1>3, <2>0, <2>4, AppendProperties
  <2> QED
    BY <1>1, <1>2, <1>3, <2>0, <2>1, <2>2, <2>3, <2>5 DEF red
<1> QED
  BY <1>4, <1>5, <1>6 DEF recibir_seed, table_has_memory, TomaUltimo

\* A step that changes the connections to one memory.
LEMMA EnlazadoConexion ==
  ASSUME Tipos, Enlazado, NEW p \in Memorias, NEW f,
         "corte" \notin riesgo => f \in Seq(ConexionSuya(p)),
         conexiones' = [conexiones EXCEPT ![p] = f],
         UNCHANGED <<tabla, respuesta, porAgregar, riesgo>>
  PROVE  Enlazado'
<1> SUFFICES ASSUME "corte" \notin riesgo'
             PROVE  \A n \in Memorias : conexiones'[n] \in Seq(ConexionSuya(n))
  BY DEF Enlazado, tabla
<1> QED
  BY DEF Enlazado, Tipos, TipoRed

\* The gossip thread.
LEMMA EnlazadoGossiping ==
  ASSUME Tipos, Enlazado, NEW m \in Memorias,
         \/ iniciar_conexion_gossiping(m) \/ EnviaOperacion(m) \/ EnviaLista(m)
         \/ RecibeRespuesta(m) \/ terminar_conexion(m)
  PROVE  Enlazado'
<1> DEFINE p == Par(m)
<1>1. /\ G(m) \in Hilos /\ G(m)[1] = m /\ {"envia_lista", "recibe"} \subseteq Lugares
      /\ "corte" \notin riesgo =>
           /\ respuesta[m] \in Seq(Enlazadas(m)) /\ tabla_gossip[m] \in Seq(Enlazadas(m))
           /\ \A n \in Memorias : conexiones[n] \in Seq(ConexionSuya(n))
  BY LosHilos DEF Enlazado, Lugares
<1>2. Semillas[m] # <<>> /\ p \in Memorias /\ Enlazadas(p) = Enlazadas(m) /\ p \in Vecinas(m)
  <2>1. Semillas[m] # <<>>
    BY DEF iniciar_conexion_gossiping, EnviaOperacion, EnviaLista, RecibeRespuesta,
           terminar_conexion, En, Tipos, Puestos, Ocupada
  <2> QED
    BY <2>1, ElPar
<1>3. CASE iniciar_conexion_gossiping(m)
  <2>1. CASE conexiones' = [conexiones EXCEPT ![p] = Append(@, Nueva(m))]
    <3>1. Nueva(m) \in ConexionSuya(p)
      <4>1. Nueva(m) \in Conexion /\ Nueva(m).de = m /\ Nueva(m).lista = <<>>
        BY DEF Nueva, Conexion
      <4> QED
        BY <1>2, <4>1, EmptySeq DEF ConexionSuya
    <3>2. "corte" \notin riesgo => Append(conexiones[p], Nueva(m)) \in Seq(ConexionSuya(p))
      BY <1>1, <1>2, <3>1, AppendProperties
    <3>3. conexiones' = [conexiones EXCEPT ![p] = Append(conexiones[p], Nueva(m))]
          /\ UNCHANGED <<tabla, respuesta, porAgregar, riesgo>>
      BY <1>3, <2>1 DEF iniciar_conexion_gossiping
    <3> HIDE DEF p
    <3> QED
      BY <1>2, <3>2, <3>3, EnlazadoConexion
  <2>2. CASE UNCHANGED conexiones
    BY <1>3, <2>2 DEF iniciar_conexion_gossiping, Enlazado, tabla
  <2> QED
    BY <1>3, <2>1, <2>2 DEF iniciar_conexion_gossiping
<1>4. conexiones[p] \in Seq(Conexion) /\ DOMAIN conexiones[p] = 1..Len(conexiones[p])
      /\ Len(conexiones[p]) \in Nat
      /\ \A k \in 1..Len(conexiones[p]) :
           "corte" \notin riesgo => conexiones[p][k] \in ConexionSuya(p)
  <2>1. conexiones[p] \in Seq(Conexion)
    BY <1>2 DEF Tipos, TipoRed
  <2>2. "corte" \notin riesgo => conexiones[p] \in Seq(ConexionSuya(p))
    BY <1>1, <1>2
  <2> QED
    BY <2>1, <2>2
\* A step that changes one field of the connection of m.
<1>5. ASSUME NEW f, DOMAIN f = 1..Len(conexiones[p]), f \in [DOMAIN f -> {f[k] : k \in DOMAIN f}],
             \A k \in 1..Len(conexiones[p]) : "corte" \notin riesgo => f[k] \in ConexionSuya(p),
             conexiones' = [conexiones EXCEPT ![p] = f],
             UNCHANGED <<tabla, respuesta, porAgregar, riesgo>>
      PROVE  Enlazado'
  <2>1. "corte" \notin riesgo => f \in [1..Len(conexiones[p]) -> ConexionSuya(p)]
    BY <1>5
  <2>2. "corte" \notin riesgo => f \in Seq(ConexionSuya(p))
    BY <1>4, <2>1, FuncionSeq
  <2> HIDE DEF p
  <2> QED
    BY <1>2, <1>5, <2>2, EnlazadoConexion
<1>6. CASE EnviaOperacion(m)
  <2>1. CASE Tuberia(G(m), "envia_lista")
    BY <1>1, <2>1, EnlazadoFalla
  <2>2. CASE /\ LET c(x) == [x EXCEPT !.operacion = TRUE] IN Con(m, c)
             /\ UNCHANGED <<tabla, respuesta, porAgregar, riesgo>>
    <3> DEFINE f == [k \in 1..Len(conexiones[p]) |->
                       IF k \in Posicion(m) THEN [conexiones[p][k] EXCEPT !.operacion = TRUE]
                                            ELSE conexiones[p][k]]
    <3>1. \A k \in 1..Len(conexiones[p]) : "corte" \notin riesgo => f[k] \in ConexionSuya(p)
      BY <1>2, <1>4, ConexionSigue
    <3>2. conexiones' = [conexiones EXCEPT ![p] = f]
      BY <1>4, <2>2 DEF Con
    <3> QED
      BY <1>5, <2>2, <3>1, <3>2
  <2> QED
    BY <1>6, <2>1, <2>2 DEF EnviaOperacion
<1>7. CASE EnviaLista(m)
  <2>1. CASE Tuberia(G(m), "recibe")
    BY <1>1, <2>1, EnlazadoFalla
  <2>2. CASE /\ LET c(x) == [x EXCEPT !.lista = enviar_memorias(m)] IN Con(m, c)
             /\ UNCHANGED <<tabla, respuesta, porAgregar, riesgo>>
    <3> DEFINE f == [k \in 1..Len(conexiones[p]) |->
                       IF k \in Posicion(m) THEN [conexiones[p][k] EXCEPT !.lista = enviar_memorias(m)]
                                            ELSE conexiones[p][k]]
    <3>0. /\ enviar_memorias(m) \in Seq(Numeros)
          /\ "corte" \notin riesgo => enviar_memorias(m) \in Seq(Enlazadas(p))
      BY <1>2, <1>7, EnviarTipo, EnviarEnlazado DEF EnviaLista
    <3>1. \A k \in 1..Len(conexiones[p]) : "corte" \notin riesgo => f[k] \in ConexionSuya(p)
      BY <1>2, <1>4, <3>0, ConexionSigue
    <3>2. conexiones' = [conexiones EXCEPT ![p] = f]
      BY <1>4, <2>2 DEF Con
    <3> QED
      BY <1>5, <2>2, <3>1, <3>2
  <2> QED
    BY <1>7, <2>1, <2>2 DEF EnviaLista
<1>8. CASE terminar_conexion(m)
  <2> DEFINE f == [k \in 1..Len(conexiones[p]) |->
                     IF k \in Posicion(m) THEN [conexiones[p][k] EXCEPT !.de = Nadie]
                                          ELSE conexiones[p][k]]
  <2>1. \A k \in 1..Len(conexiones[p]) : "corte" \notin riesgo => f[k] \in ConexionSuya(p)
    BY <1>2, <1>4, ConexionSigue
  <2>2. conexiones' = [conexiones EXCEPT ![p] = f]
        /\ UNCHANGED <<tabla, respuesta, porAgregar, riesgo>>
    BY <1>4, <1>8 DEF Con, terminar_conexion
  <2> QED
    BY <1>5, <2>1, <2>2
<1>9. CASE RecibeRespuesta(m)
  <2>1. CASE Corte(G(m))
    BY <1>1, <2>1, EnlazadoFalla
  <2>2. CASE /\ porAgregar' = [porAgregar EXCEPT ![G(m)] = respuesta[m]]
             /\ respuesta' = [respuesta EXCEPT ![m] = <<>>]
             /\ UNCHANGED <<tabla, conexiones, riesgo>>
    <3>1. \A h \in Hilos : porAgregar'[h] = IF h = G(m) THEN respuesta[m] ELSE porAgregar[h]
      BY <2>2 DEF Tipos, TipoHilos
    <3>2. \A n \in Memorias : respuesta'[n] = <<>> \/ respuesta'[n] = respuesta[n]
      BY <2>2 DEF Tipos, TipoRed
    <3> QED
      BY <1>1, <2>2, <3>1, <3>2, EmptySeq DEF Enlazado, tabla
  <2> QED
    BY <1>9, <2>1, <2>2 DEF RecibeRespuesta
<1> QED
  BY <1>3, <1>6, <1>7, <1>8, <1>9

\* The server.
LEMMA EnlazadoServidor ==
  ASSUME Tipos, Enlazado, NEW m \in Memorias,
         esperar_cliente(m) \/ recibir_operacion(m) \/ RecibePedido(m) \/ EnviaTabla(m)
  PROVE  Enlazado'
<1> DEFINE s == conexiones[m]
<1>1. S(m) \in Hilos /\ S(m)[1] = m /\ "opera" \in Lugares
  BY LosHilos DEF Lugares
<1>2. CASE esperar_cliente(m)
  BY <1>2 DEF esperar_cliente, Enlazado, tabla, red
<1>3. s # <<>> \/ esperar_cliente(m)
  BY DEF recibir_operacion, RecibePedido, EnviaTabla, En, Tipos, Puestos, Ocupada
<1>4. ASSUME "corte" \notin riesgo, s # <<>>
      PROVE  /\ s \in Seq(ConexionSuya(m)) /\ s[1] \in ConexionSuya(m) /\ Head(s) = s[1]
             /\ Tail(s) \in Seq(ConexionSuya(m))
             /\ \A x \in ConexionSuya(m) : [s EXCEPT ![1] = x] \in Seq(ConexionSuya(m))
  <2>1. s \in Seq(ConexionSuya(m))
    BY <1>4 DEF Enlazado
  <2> HIDE DEF s
  <2>2. s[1] \in ConexionSuya(m)
    BY <1>4, <2>1, CambiaPrimera, ZenonT(60)
  <2>3. \A x \in ConexionSuya(m) : [s EXCEPT ![1] = x] \in Seq(ConexionSuya(m))
    BY <1>4, <2>1, CambiaPrimera, ZenonT(60)
  <2> QED
    BY <1>4, <2>1, <2>2, <2>3, HeadTailProperties
<1>5. CASE recibir_operacion(m)
  <2>0. UNCHANGED <<tabla, respuesta, porAgregar, riesgo>> /\ s # <<>>
    BY <1>5, <1>3 DEF recibir_operacion, esperar_cliente, En
  <2>1. CASE conexiones' = [conexiones EXCEPT ![m][1].operacion = FALSE]
    <3>1. conexiones' = [conexiones EXCEPT ![m] = [s EXCEPT ![1] = [s[1] EXCEPT !.operacion = FALSE]]]
      BY <2>1
    <3>2. "corte" \notin riesgo =>
            [s EXCEPT ![1] = [s[1] EXCEPT !.operacion = FALSE]] \in Seq(ConexionSuya(m))
      <4>1. "corte" \notin riesgo => [s[1] EXCEPT !.operacion = FALSE] \in ConexionSuya(m)
        BY <1>4, <2>0, ConexionSigue
      <4> QED
        BY <1>4, <2>0, <4>1
    <3> HIDE DEF s
    <3> QED
      BY <2>0, <3>1, <3>2, EnlazadoConexion
  <2>2. CASE conexiones' = [conexiones EXCEPT ![m] = Tail(@)]
    <3>1. conexiones' = [conexiones EXCEPT ![m] = Tail(s)]
      BY <2>2
    <3>2. "corte" \notin riesgo => Tail(s) \in Seq(ConexionSuya(m))
      BY <1>4, <2>0
    <3> HIDE DEF s
    <3> QED
      BY <2>0, <3>1, <3>2, EnlazadoConexion
  <2> QED
    BY <1>5, <2>1, <2>2 DEF recibir_operacion
<1>6. CASE RecibePedido(m)
  <2>0. s # <<>>
    BY <1>6, <1>3 DEF RecibePedido, esperar_cliente, En
  <2>1. CASE Corte(S(m))
    BY <1>1, <2>1, EnlazadoFalla
  <2>2. CASE /\ porAgregar' = [porAgregar EXCEPT ![S(m)] = Head(conexiones[m]).lista]
             /\ conexiones' = [conexiones EXCEPT ![m][1].lista = <<>>]
             /\ UNCHANGED <<tabla, respuesta, riesgo>>
    <3>1. conexiones' = [conexiones EXCEPT ![m] = [s EXCEPT ![1] = [s[1] EXCEPT !.lista = <<>>]]]
      BY <2>2
    <3>2. "corte" \notin riesgo =>
            [s EXCEPT ![1] = [s[1] EXCEPT !.lista = <<>>]] \in Seq(ConexionSuya(m))
      <4>1. "corte" \notin riesgo => [s[1] EXCEPT !.lista = <<>>] \in ConexionSuya(m)
        BY <1>4, <2>0, ConexionSigue, EmptySeq
      <4> QED
        BY <1>4, <2>0, <4>1
    <3>3. "corte" \notin riesgo => Head(s).lista \in Seq(Enlazadas(m))
      BY <1>4, <2>0, ConexionSigue
    <3>4. \A h \in Hilos : porAgregar'[h] = IF h = S(m) THEN Head(s).lista ELSE porAgregar[h]
      BY <2>2 DEF Tipos, TipoHilos
    <3>5. \A n \in Memorias : conexiones'[n] =
            IF n = m THEN [s EXCEPT ![1] = [s[1] EXCEPT !.lista = <<>>]] ELSE conexiones[n]
      BY <3>1 DEF Tipos, TipoRed
    <3> HIDE DEF s
    <3> QED
      BY <1>1, <2>2, <3>2, <3>3, <3>4, <3>5 DEF Enlazado, tabla
  <2> QED
    BY <1>6, <2>1, <2>2 DEF RecibePedido
<1>7. CASE EnviaTabla(m)
  <2>0. s # <<>> /\ Completa(m)
    BY <1>7, <1>3 DEF EnviaTabla, esperar_cliente, En
  <2>1. CASE Tuberia(S(m), "opera")
    BY <1>1, <2>1, EnlazadoFalla
  <2>2. CASE /\ Head(conexiones[m]).de # Nadie
             /\ respuesta' = [respuesta EXCEPT ![Head(conexiones[m]).de] = enviar_memorias(m)]
             /\ UNCHANGED <<tabla, conexiones, porAgregar, riesgo>>
    <3>1. SUFFICES ASSUME "corte" \notin riesgo
                   PROVE  \A n \in Memorias : respuesta'[n] \in Seq(Enlazadas(n))
      BY <2>2 DEF Enlazado, tabla
    <3>2. PICK d \in Memorias : d = Head(s).de /\ m \in Vecinas(d)
      BY <1>4, <2>0, <2>2, <3>1, ConexionSigue
    <3>3. enviar_memorias(m) \in Seq(Enlazadas(d))
      BY <2>0, <3>1, <3>2, EnviarEnlazado, LosMismos
    <3>4. \A n \in Memorias : respuesta'[n] = IF n = d THEN enviar_memorias(m) ELSE respuesta[n]
      BY <2>2, <3>2 DEF Tipos, TipoRed
    <3> QED
      BY <3>1, <3>3, <3>4 DEF Enlazado
  <2> QED
    BY <1>7, <2>1, <2>2 DEF EnviaTabla
<1> QED
  BY <1>2, <1>5, <1>6, <1>7

\* A process that starts knows itself.
LEMMA EnlazadoArranca ==
  ASSUME Tipos, Enlazado, NEW m \in Memorias, Arranca(m)
  PROVE  Enlazado'
<1>1. /\ UNCHANGED <<red, porAgregar, riesgo>>
      /\ \A n \in Memorias : tabla_gossip'[n] = IF n = m THEN <<m>> ELSE tabla_gossip[n]
  BY DEF Arranca, hilos, Tipos, TipoTabla
<1> QED
  BY <1>1, UnoMismo DEF Enlazado, red

LEMMA EnlazadoNext ==
  ASSUME Tipos, Enlazado, [Next]_vars
  PROVE  Enlazado'
<1>1. ASSUME NEW h \in Hilos, recibir_seed(h) \/ SinElemento(h) PROVE Enlazado'
  BY <1>1, EnlazadoAgrega, EnlazadoFalla
<1>2. ASSUME NEW m \in Memorias, gossiping(m) \/ servidor(m) PROVE Enlazado'
  BY <1>1, <1>2, LosHilos, EnlazadoGossiping, EnlazadoServidor DEF gossiping, servidor
<1>3. ASSUME NEW m \in Memorias, Cae(m) PROVE Enlazado'
  BY <1>3, EnlazadoTermina DEF Cae
<1>4. CASE UNCHANGED vars
  BY <1>4 DEF vars, Enlazado, tabla, red, hilos
<1> QED
  BY <1>2, <1>3, <1>4, EnlazadoArranca DEF Next

LEMMA EnlazadoInit == Init => Enlazado
  BY UnoMismo, LosHilos, EmptySeq DEF Init, Enlazado

\* Until a recv fails the table of a memory names memories that a chain of seeds joins to
\* it, and nobody else: Convergencia is all there is to know.
THEOREM NadieAjeno == Spec => []SoloEnlazadas
<1>1. Enlazado => SoloEnlazadas
  BY DEF Enlazado, SoloEnlazadas, Elementos
<1> QED
  BY <1>1, TiposInit, TiposNext, EnlazadoInit, EnlazadoNext, PTL DEF Spec
=============================================================================
