------------------------------ MODULE Criterio ------------------------------
(***************************************************************************)
(* How the Kernel chooses the memory of a request.  Each criterion has a   *)
(* pool of memory numbers (vector_consistencia), filled by ADD MEMORY and  *)
(* emptied when a connection fails; SC takes the first of its pool, SHC    *)
(* the one at a hash of the table's name, EC the next of a round.  The     *)
(* number is then looked up in lista_seeds, which the handshake thread     *)
(* fills with what a memory knows.                                         *)
(*                                                                         *)
(* The dispatchers and the thread of metadata_refresh choose at the same   *)
(* time, and nothing protects the pools or the reference of the round.  A  *)
(* call of commons that changes a pool looks first and writes afterwards:  *)
(* two steps, the second with all its writes.                              *)
(*                                                                         *)
(* "riesgo" remembers what has overlapped, or been typed, that the code    *)
(* does not guard against; the properties hold until what they name.       *)
(*   lista         two calls changed one pool at once; what they leave is  *)
(*                 one of Deja, and walking it may kill the Kernel         *)
(*   pool          a pool changed while a thread was choosing from it      *)
(*   ronda         two threads moved the round of EC at once               *)
(*   negativo      the letters of a table's name add to less than 0        *)
(*   desconocida   a memory was added that has no seed                     *)
(*   alta          it was added twice, or while it was being removed       *)
(*   dosSC         the pool of SC was emptied between the two halves of    *)
(*                 another ADD MEMORY to SC                                *)
(*   criterio      a criterion was typed that does not exist               *)
(*   sinRespuesta  a connection was read that did not answer               *)
(***************************************************************************)
EXTENDS Integers, Sequences, FiniteSets

CONSTANTS
  Memorias,      \* numbers of the memories that exist
  Numeros,       \* numbers that somebody may type
  PrimeraMemoria,\* the one of Kernel.config
  Tablas,
  Consistencia,  \* the criterion of each table
  SumaAscii,     \* first and last letter of its name, as signed chars, added
  Hilos,         \* dispatchers
  Refrescos,     \* the thread of metadata_refresh (a set, to leave it out)
  MaxAltas,      \* bound on ADD MEMORY
  MaxReferencia, \* bound on what overlaps can make of the reference
  Nadie          \* no table, no number

Criterios == {"SC", "SHC", "EC"}
Pedidores == Hilos \cup Refrescos

ASSUME ConstantesCriterio ==
  /\ Memorias \subseteq Nat /\ Numeros \subseteq Nat
  /\ PrimeraMemoria \in Memorias
  /\ Consistencia \in [Tablas -> Criterios]
  /\ SumaAscii \in [Tablas -> Int]
  /\ Hilos \cap Refrescos = {}
  /\ MaxAltas \in Nat /\ MaxReferencia \in Nat
  /\ Nadie \notin Tablas \cup Nat

VARIABLES
  vector,        \* vector_consistencia: the pool of each criterion
  referencia,    \* referencia_memoria_ec
  seeds,         \* the numbers in lista_seeds
  metadata,      \* the tables in tabla_metadata
  pc,            \* where each thread is
  pedido,        \* what it has been asked for
  idx,           \* its index into a pool, the reference it has read, a pool
  num,           \* the number of the memory it has chosen
  viva,          \* FALSE when the Kernel has died
  altas,         \* ADD MEMORYs so far (bound)
  destino,       \* history: where each table of SC or SHC was last sent
  ronda,         \* history: the last indices EC chose
  riesgo         \* history: what has overlapped or been typed

locales == <<pc, pedido, idx, num>>
historia == <<destino, ronda>>
vars == <<vector, referencia, seeds, metadata, locales, viva, altas,
          historia, riesgo>>

Libre == [op |-> "nada", tabla |-> Nadie, crit |-> "SC"]
Pedidos ==
  [op : {"CREATE", "USA", "DESCRIBE", "ADD", "nada"}, tabla : Tablas \cup {Nadie},
   crit : Criterios]
Riesgos == {"lista", "pool", "ronda", "negativo", "sinRespuesta", "desconocida", "criterio",
            "alta", "dosSC"}

TypeOK ==
  /\ vector \in [Criterios -> Seq(Numeros \cup {0})]
  /\ referencia \in Int /\ referencia >= -1
  /\ seeds \subseteq Memorias /\ metadata \subseteq Tablas
  /\ pc \in [Pedidores -> {"libre", "mira", "cuenta", "compara", "vuelve", "lee", "guarda",
                           "toma", "busca", "conecta", "espera", "quita", "saca", "sinMemoria",
                           "limpia", "agrega", "enlaza"}]
  /\ pedido \in [Pedidores -> Pedidos]
  /\ idx \in [Pedidores -> Int]
  /\ num \in [Pedidores -> Nat]
  /\ viva \in BOOLEAN
  /\ altas \in 0..MaxAltas
  /\ destino \in [Tablas -> Nat \cup {Nadie}]
  /\ ronda \in Seq(Int)
  /\ riesgo \subseteq Riesgos

Init ==
  /\ vector = [c \in Criterios |-> <<>>]
  /\ referencia = -1
  /\ seeds = {PrimeraMemoria}
  /\ metadata = {}
  /\ pc = [h \in Pedidores |-> "libre"]
  /\ pedido = [h \in Pedidores |-> Libre]
  /\ idx = [h \in Pedidores |-> 0]
  /\ num = [h \in Pedidores |-> 0]
  /\ viva = TRUE
  /\ altas = 0
  /\ destino = [t \in Tablas |-> Nadie]
  /\ ronda = <<>>
  /\ riesgo = {}

En(h, lugar) == viva /\ pc[h] = lugar
Va(h, lugar) == pc' = [pc EXCEPT ![h] = lugar]
Corre(que, cuando) == IF cuando THEN {que} ELSE {}

Pool(h) == vector[pedido[h].crit]
Esta(m, q) == \E i \in 1..Len(q) : q[i] = m

-----------------------------------------------------------------------------
\* The handshake thread appends what its memory knows, again and again: only
\* which numbers are in the list matters here.  When recv fails the number of
\* seeds, and then each of them, is what an uninitialised integer holds.
recibir_seed(m) ==
  /\ viva
  /\ \/ /\ seeds' = seeds \cup {m}
        /\ UNCHANGED <<viva, riesgo>>
     \/ /\ viva' \in BOOLEAN
        /\ seeds' \in {seeds, seeds \cup {m}}
        /\ riesgo' = riesgo \cup {"sinRespuesta"}
  /\ UNCHANGED <<vector, referencia, metadata, locales, altas, historia>>

-----------------------------------------------------------------------------
(* request and conectarse_a_memoria                                        *)

\* SELECT, INSERT and DROP ("USA") are rejected unless the table is known.
Pide(h, op, t) ==
  /\ En(h, "libre") /\ h \in Hilos
  /\ op = "USA" => t \in metadata
  /\ pedido' = [pedido EXCEPT ![h] = [op |-> op, tabla |-> t, crit |-> Consistencia[t]]]
  /\ Va(h, "mira")
  /\ UNCHANGED <<vector, referencia, seeds, metadata, idx, num, viva, altas,
                 historia, riesgo>>

\* verif_create accepts any word as criterion (of three strcmp that are or-ed
\* one is never 0), and there is no pool for it: list_is_empty(NULL).
PideSinCriterio(h) ==
  /\ En(h, "libre") /\ h \in Hilos
  /\ viva' = FALSE
  /\ riesgo' = riesgo \cup {"criterio"}
  /\ UNCHANGED <<vector, referencia, seeds, metadata, locales, altas, historia>>

\* DESCRIBE takes one of SC and EC at random; metadata_refresh does it for ever.
Describe(h, c) ==
  /\ En(h, "libre")
  /\ pedido' = [pedido EXCEPT ![h] = [op |-> "DESCRIBE", tabla |-> Nadie, crit |-> c]]
  /\ Va(h, "mira")
  /\ UNCHANGED <<vector, referencia, seeds, metadata, idx, num, viva, altas,
                 historia, riesgo>>

Vuelve(h) ==
  /\ Va(h, "libre")
  /\ pedido' = [pedido EXCEPT ![h] = Libre]
  /\ idx' = [idx EXCEPT ![h] = 0]
  /\ num' = [num EXCEPT ![h] = 0]

\* The connection is made or not, as the memory is up or down (external).
Conecta(h) ==
  /\ En(h, "conecta")
  /\ Va(h, "espera") \/ Va(h, "quita")
  /\ idx' = [idx EXCEPT ![h] = 0]
  /\ UNCHANGED <<vector, referencia, seeds, metadata, pedido, num, viva, altas, historia,
                 riesgo>>

\* The memory answers DESCRIBE (and CREATE, which is followed by one) with the
\* tables it gets from the file system, which may be down.
Descriptas(h) ==
  CASE pedido[h].op = "CREATE" -> {pedido[h].tabla}
    [] pedido[h].op = "DESCRIBE" -> Tablas
    [] OTHER -> {}
Atiende(h) ==
  /\ En(h, "espera")
  /\ \E S \in SUBSET Descriptas(h) : metadata' = metadata \cup S
  /\ Vuelve(h)
  /\ UNCHANGED <<vector, referencia, seeds, viva, altas, historia, riesgo>>

\* Without a memory (conexion 0) the request is lost, but DESCRIBE still reads
\* an answer from that descriptor, and counts tables in an uninitialised
\* integer.  So does whoever waits for a memory that dies; the next send may
\* also raise a signal.
SinRespuesta(h) ==
  /\ En(h, "sinMemoria") \/ En(h, "espera")
  /\ Vuelve(h)
  /\ \/ UNCHANGED <<viva, riesgo>>
     \/ /\ pc[h] = "espera" \/ (pedido[h].op = "DESCRIBE" /\ h \in Hilos)
        /\ viva' = FALSE
        /\ riesgo' = riesgo \cup {"sinRespuesta"}
  /\ UNCHANGED <<vector, referencia, seeds, metadata, altas, historia>>

-----------------------------------------------------------------------------
(* elegir_memoria                                                          *)

\* Between the test of the pool and list_get.
Eligiendo(h) == pc[h] \in {"cuenta", "compara", "vuelve", "lee", "guarda", "toma"}

\* A call of commons has looked at a pool and has not written it yet.
Orden == <<"SC", "SHC", "EC">>
PoolTocado(h) == IF pc[h] = "saca" THEN Orden[idx[h] + 1] ELSE pedido[h].crit
Tocando(h, c) == pc[h] \in {"limpia", "enlaza", "saca"} /\ PoolTocado(h) = c
Tocada(c) == \E g \in Pedidores : Tocando(g, c)

\* The switch on the criterion.
Rama(c) == CASE c = "SC" -> "toma" [] c = "SHC" -> "cuenta" [] c = "EC" -> "compara"

\* Mutant: the test is forgotten.
MiraSinVer(h) ==
  /\ En(h, "mira")
  /\ Va(h, Rama(pedido[h].crit))
  /\ riesgo' = riesgo \cup Corre("pool", Tocada(pedido[h].crit))
  /\ UNCHANGED <<vector, referencia, seeds, metadata, pedido, idx, num, viva,
                 altas, historia>>
Mira(h) ==
  /\ En(h, "mira")
  /\ Va(h, IF Pool(h) = <<>> THEN "sinMemoria" ELSE Rama(pedido[h].crit))
  /\ riesgo' = riesgo \cup Corre("pool", Tocada(pedido[h].crit))
  /\ UNCHANGED <<vector, referencia, seeds, metadata, pedido, idx, num, viva,
                 altas, historia>>

\* The % of C takes the sign of its first operand.
Resto(a, n) == IF a >= 0 THEN a % n ELSE -((-a) % n)

\* hash: key % tamanio_pool, which kills the Kernel if the pool has emptied.
Cuenta(h) ==
  /\ En(h, "cuenta")
  /\ \/ /\ Pool(h) # <<>>
        /\ idx' = [idx EXCEPT ![h] = Resto(SumaAscii[pedido[h].tabla], Len(Pool(h)))]
        /\ riesgo' = riesgo \cup Corre("negativo", SumaAscii[pedido[h].tabla] < 0)
        /\ Va(h, "toma")
        /\ UNCHANGED viva
     \/ /\ Pool(h) = <<>>
        /\ viva' = FALSE
        /\ UNCHANGED <<idx, pc, riesgo>>
  /\ UNCHANGED <<vector, referencia, seeds, metadata, pedido, num, altas, historia>>

\* In the middle of get_memoria_fifo.
EnRonda(h) == pc[h] \in {"vuelve", "lee", "guarda"} \/ (pc[h] = "toma" /\ pedido[h].crit = "EC")

\* Mutant: off by one.
ComparaDeMas(h) ==
  /\ En(h, "compara")
  /\ Va(h, IF referencia > Len(Pool(h)) - 1 THEN "vuelve" ELSE "lee")
  /\ riesgo' = riesgo \cup Corre("ronda", \E g \in Pedidores : EnRonda(g))
  /\ UNCHANGED <<vector, referencia, seeds, metadata, pedido, idx, num, viva, altas,
                 historia>>
\* get_memoria_fifo: the reference is compared with the last index (the size of
\* the pool is taken in the same step) ...
Compara(h) ==
  /\ En(h, "compara")
  /\ Va(h, IF referencia >= Len(Pool(h)) - 1 THEN "vuelve" ELSE "lee")
  /\ riesgo' = riesgo \cup Corre("ronda", \E g \in Pedidores : EnRonda(g))
  /\ UNCHANGED <<vector, referencia, seeds, metadata, pedido, idx, num, viva, altas,
                 historia>>

\* ... and goes back to the first or ...
VuelveAlPrimero(h) ==
  /\ En(h, "vuelve")
  /\ referencia' = 0
  /\ Va(h, "toma")
  /\ UNCHANGED <<vector, seeds, metadata, pedido, idx, num, viva, altas, historia,
                 riesgo>>

\* ... is loaded again and stored.
LeeReferencia(h) ==
  /\ En(h, "lee")
  /\ idx' = [idx EXCEPT ![h] = referencia]
  /\ Va(h, "guarda")
  /\ UNCHANGED <<vector, referencia, seeds, metadata, pedido, num, viva, altas,
                 historia, riesgo>>
\* Mutant: the round stands still.
AvanzaSinMover(h) ==
  /\ En(h, "guarda") /\ idx[h] < MaxReferencia
  /\ referencia' = idx[h]
  /\ idx' = [idx EXCEPT ![h] = 0]
  /\ Va(h, "toma")
  /\ UNCHANGED <<vector, seeds, metadata, pedido, num, viva, altas, historia,
                 riesgo>>
AvanzaReferencia(h) ==
  /\ En(h, "guarda") /\ idx[h] < MaxReferencia
  /\ referencia' = idx[h] + 1
  /\ idx' = [idx EXCEPT ![h] = 0]
  /\ Va(h, "toma")
  /\ UNCHANGED <<vector, seeds, metadata, pedido, num, viva, altas, historia,
                 riesgo>>

\* list_get: outside the list it answers NULL, which as a number is memory 0.
\* EC reads the reference once more.
list_get(q, i) == IF i \in 0..(Len(q) - 1) THEN q[i + 1] ELSE 0
\* Mutant: SHC goes round too.
IndiceRotado(h) ==
  CASE pedido[h].crit = "SC" -> 0
    [] OTHER -> referencia
Indice(h) ==
  CASE pedido[h].crit = "SC" -> 0
    [] pedido[h].crit = "SHC" -> idx[h]
    [] OTHER -> referencia

\* The last n of a sequence.
Ultimos(n, s) == SubSeq(s, IF Len(s) > n THEN Len(s) - n + 1 ELSE 1, Len(s))

\* In a list that is being written, or is left broken, there may be no node at
\* the index.
Toma(h) ==
  /\ En(h, "toma")
  /\ \E n \in {list_get(Pool(h), Indice(h))}
                \cup (IF riesgo \cap {"lista", "pool"} = {} THEN {} ELSE {0}) :
       num' = [num EXCEPT ![h] = n]
  /\ IF pedido[h].crit = "EC"
       THEN /\ ronda' = Ultimos(Len(Pool(h)), Append(ronda, referencia))
            /\ UNCHANGED destino
       ELSE /\ destino' = [t \in Tablas |-> IF t = pedido[h].tabla THEN num'[h] ELSE destino[t]]
            /\ UNCHANGED ronda
  /\ Va(h, "busca")
  /\ UNCHANGED <<vector, referencia, seeds, metadata, pedido, idx, viva, altas, riesgo>>

\* get_seed_especifica: a number nobody has heard of gives NULL, which is
\* dereferenced for the metrics.
Busca(h) ==
  /\ En(h, "busca")
  /\ \/ /\ num[h] \in seeds
        /\ Va(h, "conecta")
        /\ UNCHANGED viva
     \/ /\ num[h] \notin seeds
        /\ viva' = FALSE
        /\ UNCHANGED pc
  /\ UNCHANGED <<vector, referencia, seeds, metadata, pedido, idx, num, altas,
                 historia, riesgo>>

-----------------------------------------------------------------------------
(* agregar_consistencia and remover_memoria_consistencia                   *)

\* A pool changes.  What the history says of its choices starts again.
CambiaPool(c, q) ==
  /\ vector' = [vector EXCEPT ![c] = q]
  /\ destino' = [t \in Tablas |-> IF Consistencia[t] = c THEN Nadie ELSE destino[t]]
  /\ ronda' = IF c = "EC" THEN <<>> ELSE ronda

MientrasEligen(c) ==
  Corre("pool", \E g \in Pedidores : Eligiendo(g) /\ pedido[g].crit = c)
AlAgregar(m, c) ==
  MientrasEligen(c)
    \cup Corre("desconocida", m \notin seeds)
    \cup Corre("alta", \/ Esta(m, vector[c])
                       \/ \E g \in Pedidores : pc[g] \in {"quita", "saca"} /\ num[g] = m)

\* A call that changes pool c begins, and what two of them may leave where one
\* turns q into r: nothing done, another element taken out, or one more counted
\* than there are (NULL, 0).
AlTocar(c) == Corre("lista", Tocada(c))
Deja(q, r) ==
  {r} \cup (IF "lista" \in riesgo
              THEN {q, Append(q, 0)}
                     \cup {SubSeq(q, 1, i - 1) \o SubSeq(q, i + 1, Len(q)) : i \in 1..Len(q)}
              ELSE {})
SigueViva == viva' \in IF "lista" \in riesgo THEN BOOLEAN ELSE {TRUE}

\* ADD MEMORY m TO c: list_clean, for SC, or list_add begins.
EmpiezaAlta(h, m, c) ==
  /\ En(h, "libre") /\ h \in Hilos /\ altas < MaxAltas
  /\ pedido' = [pedido EXCEPT ![h] = [op |-> "ADD", tabla |-> Nadie, crit |-> c]]
  /\ num' = [num EXCEPT ![h] = m]
  /\ riesgo' = riesgo \cup AlTocar(c)
  /\ altas' = altas + 1
  /\ Va(h, IF c = "SC" THEN "limpia" ELSE "enlaza")
  /\ UNCHANGED <<vector, referencia, seeds, metadata, idx, viva, historia>>

\* Between the two halves of an ADD MEMORY to SC.
AMediasSC(h) == pc[h] = "agrega" \/ (pc[h] = "enlaza" /\ pedido[h].crit = "SC")

\* Mutant: the memory of SC before this one is not taken out.
LimpiaSinVaciar(h) ==
  /\ En(h, "limpia")
  /\ riesgo' = riesgo \cup MientrasEligen("SC")
                 \cup Corre("dosSC", \E g \in Pedidores : AMediasSC(g))
  /\ Va(h, "agrega")
  /\ UNCHANGED <<vector, referencia, seeds, metadata, pedido, idx, num, viva, altas, historia>>
\* The pool of SC is emptied ...
Limpia(h) ==
  /\ En(h, "limpia")
  /\ \E q \in Deja(vector["SC"], <<>>) : CambiaPool("SC", q)
  /\ riesgo' = riesgo \cup MientrasEligen("SC")
                 \cup Corre("dosSC", \E g \in Pedidores : AMediasSC(g))
  /\ SigueViva
  /\ Va(h, "agrega")
  /\ UNCHANGED <<referencia, seeds, metadata, pedido, idx, num, altas>>

\* ... and then list_add begins.
EmpiezaAgregar(h) ==
  /\ En(h, "agrega")
  /\ riesgo' = riesgo \cup AlTocar("SC")
  /\ Va(h, "enlaza")
  /\ UNCHANGED <<vector, referencia, seeds, metadata, pedido, idx, num, viva, altas, historia>>

\* list_add links the new element to the last and counts it.
Agrega(h) ==
  /\ En(h, "enlaza")
  /\ LET c == pedido[h].crit
     IN /\ \E q \in Deja(vector[c], Append(vector[c], num[h])) : CambiaPool(c, q)
        /\ riesgo' = riesgo \cup AlAgregar(num[h], c)
  /\ SigueViva
  /\ Vuelve(h)
  /\ UNCHANGED <<referencia, seeds, metadata, altas>>

\* list_remove_by_condition: the first that is there.
SinPrimero(q, m) ==
  IF ~Esta(m, q) THEN q
  ELSE LET i == CHOOSE j \in 1..Len(q) : q[j] = m /\ \A k \in 1..(j - 1) : q[k] # m
       IN  SubSeq(q, 1, i - 1) \o SubSeq(q, i + 1, Len(q))

\* Mutant: one pool too few.
SigueDeMenos(h) ==
  /\ idx' = [idx EXCEPT ![h] = @ + 1]
  /\ Va(h, IF idx[h] < 1 THEN "quita" ELSE "sinMemoria")
\* The memory that did not answer leaves each pool in turn.
Sigue(h) ==
  /\ idx' = [idx EXCEPT ![h] = @ + 1]
  /\ Va(h, IF idx[h] < 2 THEN "quita" ELSE "sinMemoria")

\* list_remove_by_condition finds its index ...
Quita(h) ==
  /\ En(h, "quita")
  /\ LET c == Orden[idx[h] + 1]
     IN /\ riesgo' = riesgo \cup AlTocar(c)
        /\ \/ Esta(num[h], vector[c]) /\ Va(h, "saca") /\ UNCHANGED idx
           \/ ~Esta(num[h], vector[c]) /\ Sigue(h)
  /\ UNCHANGED <<vector, referencia, seeds, metadata, pedido, num, viva, altas, historia>>

\* ... and removes what is there: itself, as long as the pool has not changed.
Saca(h) ==
  /\ En(h, "saca")
  /\ LET c == Orden[idx[h] + 1]
     IN /\ \E q \in Deja(vector[c], SinPrimero(vector[c], num[h])) : CambiaPool(c, q)
        /\ riesgo' = riesgo \cup MientrasEligen(c)
  /\ SigueViva
  /\ Sigue(h)
  /\ UNCHANGED <<referencia, seeds, metadata, pedido, num, altas>>

-----------------------------------------------------------------------------
get_memoria_fifo(h) ==
  Compara(h) \/ VuelveAlPrimero(h) \/ LeeReferencia(h) \/ AvanzaReferencia(h)

elegir_memoria(h) == Mira(h) \/ Cuenta(h) \/ get_memoria_fifo(h) \/ Toma(h) \/ Busca(h)

conectarse_a_memoria(h) == elegir_memoria(h) \/ Conecta(h) \/ Quita(h) \/ Saca(h)

agregar_consistencia(h) ==
  \/ \E m \in Numeros, c \in Criterios : EmpiezaAlta(h, m, c)
  \/ Limpia(h) \/ EmpiezaAgregar(h) \/ Agrega(h)

request(h) ==
  \/ \E t \in Tablas, op \in {"CREATE", "USA"} : Pide(h, op, t)
  \/ PideSinCriterio(h)
  \/ \E c \in {"SC", "EC"} : Describe(h, c)
  \/ conectarse_a_memoria(h)
  \/ Atiende(h) \/ SinRespuesta(h)
  \/ agregar_consistencia(h)

handshake == \E m \in Memorias : recibir_seed(m)

Next == handshake \/ \E h \in Pedidores : request(h)

Spec == Init /\ [][Next]_vars

-----------------------------------------------------------------------------
(* Properties.                                                             *)

\* The Kernel dies neither of a null seed nor of a division by zero while every
\* memory added was known, every criterion is one of the three and no name's
\* letters add to less than 0, no two calls change a pool at once nor one a pool
\* under a thread that chooses, no two threads move the round at once and every
\* connection is answered.
SinMuertes ==
  riesgo \subseteq {"alta", "dosSC"} => viva

\* The number chosen is one of the pool: neither an index outside it nor the
\* memory 0 that a NULL turns into.
EligeDelPool ==
  [][\A h \in Pedidores :
       pc[h] = "toma" /\ pc'[h] = "busca"
         /\ riesgo' \cap {"lista", "pool", "ronda", "negativo"} = {}
         => Esta(num'[h], Pool(h))]_vars

\* While its pool stays as it is a table of SC or SHC is always sent to the
\* same memory: a SELECT reads where the INSERT wrote.
SeLeeDondeSeEscribio ==
  [][\A t \in Tablas :
       Consistencia[t] # "EC" /\ destino[t] # Nadie /\ destino'[t] # Nadie
         /\ riesgo' \cap {"lista", "pool"} = {}
         => destino'[t] = destino[t]]_vars

\* EC goes round: of as many choices in a row as the pool has places no two are
\* of the same place.
Reparto ==
  riesgo \cap {"pool", "ronda"} = {} =>
    \A i, j \in 1..Len(ronda) : ronda[i] = ronda[j] => i = j

\* Strong consistency has one memory, unless two ADD MEMORY to it overlap, or
\* one and the removal of a memory.
UnaSolaSC == riesgo \cap {"lista", "dosSC"} = {} => Len(vector["SC"]) <= 1

\* A memory that did not answer is in no pool when its removal ends, unless it
\* was added twice, or meanwhile, or two calls changed a pool at once.
CaidaSale ==
  [][\A h \in Pedidores :
       pc[h] \in {"quita", "saca"} /\ pc'[h] = "sinMemoria"
         /\ riesgo' \cap {"lista", "alta"} = {}
         => \A c \in Criterios : ~Esta(num[h], vector'[c])]_vars
=============================================================================
