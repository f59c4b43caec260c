------------------------------ MODULE Bloques ------------------------------
(***************************************************************************)
(* The blocks of LissandraFileSystem and the bitmap that says which are    *)
(* taken.  Four kinds of threads take and give back blocks: CREATE (a      *)
(* partition of one block), the dump (a .tmp), the compaction of a table   *)
(* (it gives back the partition, takes another and gives back the .tmpc)   *)
(* and DROP.                                                               *)
(*                                                                         *)
(* SemaforobitArray is held while blocks are taken and while those of a    *)
(* partition are given back, not while those of a temporal are.  The       *)
(* bitmap is the mapped file: it survives the process, a bit is changed by *)
(* reading and writing its byte, and the file that lists the blocks is     *)
(* written after their bits are set and removed after they are cleared.    *)
(*                                                                         *)
(* A table has a partition and at most one .tmp and one .tmpc.  DROP and   *)
(* the compaction start whatever other thread is at work on the table:     *)
(* each goes on with the blocks it read from the files it opened.  A file  *)
(* is written in one step here (LFSTabla has it half written).  "riesgo"   *)
(* remembers the sequences of steps the code has no answer for.            *)
(***************************************************************************)
EXTENDS Integers, Sequences, FiniteSets

CONSTANTS
  Tablas,            \* names of tables; each is also its compaction thread
  Clientes,          \* threads of CREATE and DROP
  Volcador,          \* the dump thread
  BLOCKS,            \* of the metadata of the file system
  AnchoByte,         \* bits of a byte
  MaxPorArchivo,     \* bound: blocks of a file
  MaxPedidos,        \* bound: operations
  Nadie              \* no table

ASSUME ConstantesBloques ==
  /\ BLOCKS \in Nat \ {0} /\ AnchoByte \in Nat \ {0} /\ MaxPorArchivo \in Nat \ {0}
  /\ MaxPedidos \in Nat
  /\ Tablas \cap Clientes = {} /\ Volcador \notin Tablas \cup Clientes
  /\ Nadie \notin Tablas

VARIABLES
  bitmap,                \* the bits that are set
  contenido,             \* whose records each block holds
  archivos,              \* the files of each table
  carpetas,              \* the directories of tables
  SemaforobitArray,
  SemaforoMemtable,
  pc, op, tabla,         \* each thread: where, in what, of which table
  cual,                  \* the kind of file it takes or gives back blocks for
  bloque, leido,         \* the bit it changes, the byte it has read
  tomados, faltan,       \* bloquesDisponibles, and how many they must be
  lista,                 \* arrayBloques of the file it gives back
  dados,                 \* and how many of them it has given back
  pedidos,               \* operations so far
  riesgo                 \* history

disco == <<bitmap, contenido, archivos, carpetas>>
semaforos == <<SemaforobitArray, SemaforoMemtable>>
pedido == <<op, tabla>>
toma == <<tomados, faltan>>
locales == <<pedido, cual, bloque, leido, toma, lista, dados>>
vars == <<disco, semaforos, pc, locales, pedidos, riesgo>>

Hilos == Tablas \cup Clientes \cup {Volcador}
Tipos == {"bin", "tmp", "tmpc"}

\* BLOCKS, up to a whole byte: what crearBitMap maps.  Dump and compaction look for
\* a bit among the first BLOCKS only.
BITS == ((BLOCKS + AnchoByte - 1) \div AnchoByte) * AnchoByte
Bits == 0..(BITS - 1)
Numeros == 0..BITS
Byte(b) == {x \in Bits : x \div AnchoByte = b \div AnchoByte}

\* A file: its blocks, and whether its records have been written to them.
NoHay == [bloques |-> <<>>, escrito |-> FALSE]
Hay(t, k) == archivos[<<t, k>>] # NoHay
Elementos(s) == {s[i] : i \in 1..Len(s)}
Marca(t, k) == <<t, IF k = "bin" THEN "bin" ELSE "tmp">>

En(h, lugar) == pc[h] = lugar
Va(h, lugar) == pc' = [pc EXCEPT ![h] = lugar]
Suyo(h) == <<tabla[h], cual[h]>>

-----------------------------------------------------------------------------
(* Taking blocks: the loop of crearTemporal and of crearParticionNueva, and *)
(* that of crearParticion.                                                  *)

\* Mutant: the semaphore is not waited for.
PideSinEsperar(h) ==
  /\ En(h, "pide")
  /\ SemaforobitArray' = 0
  /\ Va(h, "busca")
  /\ UNCHANGED <<disco, SemaforoMemtable, locales, riesgo>>
PideBits(h) ==
  /\ En(h, "pide")
  /\ SemaforobitArray = 1
  /\ SemaforobitArray' = 0
  /\ Va(h, "busca")
  /\ UNCHANGED <<disco, SemaforoMemtable, locales, riesgo>>

\* The index goes on from the last block taken.
Desde(h) == IF tomados[h] = <<>> THEN 0 ELSE tomados[h][Len(tomados[h])]
Libres(h) ==
  {b \in Bits : b >= Desde(h) /\ (op[h] = "create" \/ b < BLOCKS) /\ b \notin bitmap}

\* DROP may have taken the directory from under a file that is to be written.
SinCarpeta(h) ==
  /\ tabla[h] \notin carpetas
  /\ En(h, "crea") \/ (En(h, "busca") /\ op[h] = "create")

\* The first clear bit, and its byte.  CREATE writes the file before it sets the bit.
Encuentra(h) ==
  /\ En(h, "busca") /\ ~SinCarpeta(h)
  /\ \E b \in Libres(h) :
       /\ \A x \in Libres(h) : b <= x
       /\ bloque' = [bloque EXCEPT ![h] = b]
       /\ leido' = [leido EXCEPT ![h] = bitmap \cap Byte(b)]
       /\ archivos' = IF op[h] = "create"
                        THEN [archivos EXCEPT ![Suyo(h)] = [bloques |-> <<b>>, escrito |-> FALSE]]
                        ELSE archivos
  /\ Va(h, "prende")
  /\ UNCHANGED <<bitmap, contenido, carpetas, semaforos, pedido, cual, toma, lista, dados, riesgo>>

\* Mutant: with the disk full the semaphore is not given back.
TomaSinSoltar(h, b) ==
  /\ tomados' = [tomados EXCEPT ![h] = Append(@, b)]
  /\ IF Len(tomados[h]) + 1 < faltan[h]
       THEN Va(h, "busca") /\ UNCHANGED SemaforobitArray
       ELSE /\ Va(h, IF op[h] = "create" THEN "termina" ELSE "crea")
            /\ SemaforobitArray' = IF b = BLOCKS THEN SemaforobitArray ELSE 1
\* Thread h takes block b, and after the last one gives the semaphore back.
Toma(h, b) ==
  /\ tomados' = [tomados EXCEPT ![h] = Append(@, b)]
  /\ IF Len(tomados[h]) + 1 < faltan[h]
       THEN Va(h, "busca") /\ UNCHANGED SemaforobitArray
       ELSE Va(h, IF op[h] = "create" THEN "termina" ELSE "crea") /\ SemaforobitArray' = 1

\* No bit is clear: the index ends at BLOCKS, and that is the block.
Fantasma(h) ==
  /\ En(h, "busca")
  /\ op[h] # "create"
  /\ Libres(h) = {}
  /\ Toma(h, BLOCKS)
  /\ riesgo' = riesgo \cup {"lleno"}
  /\ UNCHANGED <<disco, SemaforoMemtable, pedido, cual, bloque, leido, faltan, lista, dados>>

\* bitarray_set_bit writes the byte; crearBloque empties the block.
Prende(h) ==
  /\ En(h, "prende")
  /\ bitmap' = (bitmap \ Byte(bloque[h])) \cup leido[h] \cup {bloque[h]}
  /\ contenido' = [contenido EXCEPT ![bloque[h]] = {}]
  /\ Toma(h, bloque[h])
  /\ leido' = [leido EXCEPT ![h] = {}] /\ bloque' = [bloque EXCEPT ![h] = 0]
  /\ UNCHANGED <<archivos, carpetas, SemaforoMemtable, pedido, cual, faltan, lista, dados, riesgo>>

\* crearArchivotmp, crearArchivobin.
CreaArchivo(h) ==
  /\ En(h, "crea") /\ ~SinCarpeta(h)
  /\ archivos' = [archivos EXCEPT ![Suyo(h)] = [bloques |-> tomados[h], escrito |-> FALSE]]
  /\ Va(h, "carga")
  /\ UNCHANGED <<bitmap, contenido, carpetas, semaforos, locales, riesgo>>

\* It goes on with the temporal, whose blocks it reads from the file.
Sigue(h, k) ==
  /\ cual' = [cual EXCEPT ![h] = k]
  /\ lista' = [lista EXCEPT ![h] = archivos[<<tabla[h], k>>].bloques]
  /\ Va(h, "limpia")

\* Mutant: the records go to the first block only.
cargaElPrimero(h) ==
  /\ En(h, "carga")
  /\ contenido' = [contenido EXCEPT ![tomados[h][1]] = @ \cup {Marca(tabla[h], cual[h])}]
  /\ archivos' = [archivos EXCEPT ![Suyo(h)].escrito = Hay(tabla[h], cual[h])]
  /\ tomados' = [tomados EXCEPT ![h] = <<>>] /\ faltan' = [faltan EXCEPT ![h] = 0]
  /\ IF op[h] = "compacta" /\ Hay(tabla[h], "tmpc")
       THEN Sigue(h, "tmpc")
       ELSE Va(h, "termina") /\ UNCHANGED <<cual, lista>>
  /\ UNCHANGED <<bitmap, carpetas, semaforos, pedido, bloque, leido, dados, riesgo>>
\* escribirEnBloque appends to what the block holds, be it the file's or not by now.  The
\* compaction goes on with the .tmpc.
cargarRegistros(h) ==
  /\ En(h, "carga")
  /\ contenido' = [b \in Numeros |-> IF b \in Elementos(tomados[h])
                                       THEN contenido[b] \cup {Marca(tabla[h], cual[h])}
                                       ELSE contenido[b]]
  /\ archivos' = [archivos EXCEPT ![Suyo(h)].escrito = Hay(tabla[h], cual[h])]
  /\ tomados' = [tomados EXCEPT ![h] = <<>>] /\ faltan' = [faltan EXCEPT ![h] = 0]
  /\ IF op[h] = "compacta" /\ Hay(tabla[h], "tmpc")
       THEN Sigue(h, "tmpc")
       ELSE Va(h, "termina") /\ UNCHANGED <<cual, lista>>
  /\ UNCHANGED <<bitmap, carpetas, semaforos, pedido, bloque, leido, dados, riesgo>>

-----------------------------------------------------------------------------
(* Giving blocks back: removerBloque for each of the file, and the file.    *)

PideLimpiar(h) ==
  /\ En(h, "pideLimpiar") /\ lista[h] # <<>>
  /\ SemaforobitArray = 1
  /\ SemaforobitArray' = 0
  /\ Va(h, "limpia")
  /\ UNCHANGED <<disco, SemaforoMemtable, locales, riesgo>>

\* bitarray_clean_bit reads the byte.  Beyond the bitmap there is none to clear.
LimpiaBloque(h) ==
  /\ En(h, "limpia")
  /\ LET b == lista[h][dados[h] + 1]
     IN  /\ bloque' = [bloque EXCEPT ![h] = b]
         /\ IF b \in Bits
              THEN /\ leido' = [leido EXCEPT ![h] = bitmap \cap Byte(b)]
                   /\ Va(h, "apaga") /\ UNCHANGED dados
              ELSE /\ dados' = [dados EXCEPT ![h] = @ + 1]
                   /\ Va(h, "borra") /\ UNCHANGED leido
  /\ UNCHANGED <<disco, semaforos, pedido, cual, toma, lista, riesgo>>

\* Without the semaphore, another write of the byte comes between the read and the
\* write of h, or this one comes between another's.
Cruza(h) ==
  /\ cual[h] # "bin"
  /\ \/ leido[h] # bitmap \cap Byte(bloque[h])
     \/ \E g \in Hilos \ {h} : pc[g] \in {"prende", "apaga"} /\ bloque[g] \in Byte(bloque[h])

\* Mutant: the block is removed and its bit stays.
ApagaNada(h) ==
  /\ En(h, "apaga")
  /\ dados' = [dados EXCEPT ![h] = @ + 1]
  /\ leido' = [leido EXCEPT ![h] = {}]
  /\ Va(h, "borra")
  /\ UNCHANGED <<disco, semaforos, pedido, cual, bloque, toma, lista, riesgo>>
Apaga(h) ==
  /\ En(h, "apaga")
  /\ bitmap' = (bitmap \ Byte(bloque[h])) \cup (leido[h] \ {bloque[h]})
  /\ dados' = [dados EXCEPT ![h] = @ + 1]
  /\ Va(h, "borra")
  /\ riesgo' = riesgo \cup (IF Cruza(h) THEN {"byte"} ELSE {})
  /\ leido' = [leido EXCEPT ![h] = {}]
  /\ UNCHANGED <<contenido, archivos, carpetas, semaforos, pedido, cual, bloque, toma, lista>>

\* remove of the block, which may be somebody else's by now.  After the last block of
\* a partition the semaphore is given back.
BorraBloque(h) ==
  /\ En(h, "borra")
  /\ contenido' = [contenido EXCEPT ![bloque[h]] = {}]
  /\ riesgo' = riesgo \cup (IF cual[h] # "bin" /\ bloque[h] \in bitmap THEN {"borra"} ELSE {})
  /\ bloque' = [bloque EXCEPT ![h] = 0]
  /\ IF dados[h] < Len(lista[h])
       THEN Va(h, "limpia") /\ UNCHANGED SemaforobitArray
       ELSE /\ Va(h, "quita")
            /\ SemaforobitArray' = IF cual[h] = "bin" THEN 1 ELSE SemaforobitArray
  /\ UNCHANGED <<bitmap, archivos, carpetas, SemaforoMemtable, pedido, cual, leido, toma, lista,
                 dados>>

\* remove of the file.  After its partition, a compaction takes blocks for another
\* and DROP goes on with the temporal.
QuitaArchivo(h) ==
  /\ En(h, "quita")
  /\ archivos' = [archivos EXCEPT ![Suyo(h)] = NoHay]
  /\ dados' = [dados EXCEPT ![h] = 0]
  /\ IF cual[h] = "bin" /\ op[h] = "compacta"
       THEN /\ \E n \in 1..MaxPorArchivo : faltan' = [faltan EXCEPT ![h] = n]
            /\ Va(h, "pide") /\ UNCHANGED <<cual, lista>>
     ELSE IF cual[h] = "bin" /\ Hay(tabla[h], "tmp")
       THEN Sigue(h, "tmp") /\ UNCHANGED faltan
       ELSE Va(h, "termina") /\ UNCHANGED <<cual, lista, faltan>>
  /\ UNCHANGED <<bitmap, contenido, carpetas, semaforos, pedido, bloque, leido, tomados, riesgo>>

-----------------------------------------------------------------------------
(* The four operations.                                                     *)

\* What DROP or the compaction of t starts over: a CREATE, a compaction or a DROP that has
\* not ended, or the dump that writes its .tmp.  Nothing in the code keeps it from that:
\* DROP looks at semaforoCompactacion without holding it, the compaction asks for a .tmp.
Encima(t) ==
     (IF \E h \in Hilos : tabla[h] = t /\ op[h] \in {"create", "compacta", "drop"}
        THEN {"solapa"} ELSE {})
  \cup (IF \E h \in Hilos : tabla[h] = t /\ op[h] = "dump" THEN {"a_medias"} ELSE {})

\* Thread h starts operation o of table t, with n blocks to take or those of s to give back.
Empieza(h, o, t, k, n, s, lugar) ==
  /\ En(h, "libre")
  /\ pedidos < MaxPedidos
  /\ pedidos' = pedidos + 1
  /\ op' = [op EXCEPT ![h] = o]
  /\ tabla' = [tabla EXCEPT ![h] = t]
  /\ cual' = [cual EXCEPT ![h] = k]
  /\ faltan' = [faltan EXCEPT ![h] = n]
  /\ lista' = [lista EXCEPT ![h] = s]
  /\ Va(h, lugar)
  /\ UNCHANGED <<bitmap, contenido, SemaforobitArray, bloque, leido, tomados, dados>>

CREATE(c, t) ==
  /\ t \notin carpetas
  /\ carpetas' = carpetas \cup {t}
  /\ Empieza(c, "create", t, "bin", 1, <<>>, "pide")
  /\ UNCHANGED <<archivos, SemaforoMemtable, riesgo>>

DROP(c, t) ==
  /\ t \in carpetas
  /\ SemaforoMemtable = 1
  /\ SemaforoMemtable' = 0
  /\ Empieza(c, "drop", t, "bin", 0, archivos[<<t, "bin">>].bloques, "pideLimpiar")
  /\ riesgo' = riesgo \cup Encima(t)
  /\ UNCHANGED <<archivos, carpetas>>

\* crearTemporal of a table with n blocks of records; its compaction or its CREATE may be
\* working.
dump(t) ==
  /\ t \in carpetas /\ ~Hay(t, "tmp")
  /\ SemaforoMemtable = 1
  /\ SemaforoMemtable' = 0
  /\ \E n \in 1..MaxPorArchivo : Empieza(Volcador, "dump", t, "tmp", n, <<>>, "pide")
  /\ UNCHANGED <<archivos, carpetas, riesgo>>

\* cambiarNombreTmpATmpc: a .tmpc that a crash left is written over.
compactar(t) ==
  /\ t \in carpetas /\ Hay(t, "tmp")
  /\ archivos' = [archivos EXCEPT ![<<t, "tmpc">>] = archivos[<<t, "tmp">>],
                                  ![<<t, "tmp">>] = NoHay]
  /\ riesgo' = riesgo \cup Encima(t) \cup (IF Hay(t, "tmpc") THEN {"resto"} ELSE {})
  /\ Empieza(t, "compacta", t, "bin", 0, archivos[<<t, "bin">>].bloques, "pideLimpiar")
  /\ UNCHANGED <<carpetas, SemaforoMemtable>>

\* The directory goes if DROP has emptied it.
Termina(h) ==
  /\ En(h, "termina")
  /\ carpetas' = IF op[h] = "drop" /\ \A k \in Tipos : ~Hay(tabla[h], k)
                   THEN carpetas \ {tabla[h]} ELSE carpetas
  /\ SemaforoMemtable' = IF op[h] \in {"drop", "dump"} THEN 1 ELSE SemaforoMemtable
  /\ tabla' = [tabla EXCEPT ![h] = Nadie]
  /\ op' = [op EXCEPT ![h] = "nada"] /\ cual' = [cual EXCEPT ![h] = "bin"]
  /\ tomados' = [tomados EXCEPT ![h] = <<>>] /\ faltan' = [faltan EXCEPT ![h] = 0]
  /\ lista' = [lista EXCEPT ![h] = <<>>]
  /\ Va(h, "libre")
  /\ UNCHANGED <<bitmap, contenido, archivos, SemaforobitArray, bloque, leido, dados, riesgo>>

Todos(v) == [h \in Hilos |-> v]

\* The process ends, and is started again: the threads and the semaphores are
\* new, the files and the bitmap are what they were.
Reinicia ==
  /\ SemaforobitArray' = 1 /\ SemaforoMemtable' = 1
  /\ pc' = Todos("libre") /\ op' = Todos("nada") /\ tabla' = Todos(Nadie)
  /\ cual' = Todos("bin") /\ bloque' = Todos(0) /\ leido' = Todos({})
  /\ tomados' = Todos(<<>>) /\ faltan' = Todos(0) /\ lista' = Todos(<<>>) /\ dados' = Todos(0)
  /\ UNCHANGED disco

\* In the middle of an operation it leaves blocks that no file lists, or a file
\* that lists blocks whose bits are clear.
Cae ==
  /\ Reinicia
  /\ riesgo' = riesgo
       \cup (IF \E h \in Hilos : op[h] # "create" /\ tomados[h] # <<>> /\ pc[h] # "carga"
               THEN {"pierde"} ELSE {})
       \cup (IF \E h \in Hilos : dados[h] > 0 \/ (op[h] = "create" /\ pc[h] = "prende")
               THEN {"repite"} ELSE {})

\* crearParticion without a clear bit closes a file it never opened; config_create of a
\* partition that is not there, and fopen where there is no directory, give NULL.
SinSalida(h) ==
  \/ En(h, "busca") /\ op[h] = "create" /\ Libres(h) = {}
  \/ En(h, "pideLimpiar") /\ lista[h] = <<>>
  \/ SinCarpeta(h)
Muere(h) == SinSalida(h) /\ Cae

-----------------------------------------------------------------------------
(* The specification.                                                       *)

\* crearArchivoBitmap.
Init ==
  /\ bitmap = {} /\ pedidos = 0
  /\ contenido = [b \in Numeros |-> {}]
  /\ archivos = [f \in Tablas \X Tipos |-> NoHay]
  /\ carpetas = {}
  /\ SemaforobitArray = 1 /\ SemaforoMemtable = 1
  /\ pc = Todos("libre") /\ op = Todos("nada") /\ tabla = Todos(Nadie)
  /\ cual = Todos("bin") /\ bloque = Todos(0) /\ leido = Todos({})
  /\ tomados = Todos(<<>>) /\ faltan = Todos(0) /\ lista = Todos(<<>>) /\ dados = Todos(0)
  /\ riesgo = {}

Paso(h) ==
  \/ PideBits(h) \/ Encuentra(h) \/ Fantasma(h) \/ Prende(h)
  \/ CreaArchivo(h) \/ cargarRegistros(h)
  \/ PideLimpiar(h) \/ LimpiaBloque(h) \/ Apaga(h) \/ BorraBloque(h)
  \/ QuitaArchivo(h) \/ Termina(h) \/ Muere(h)

Next ==
  \/ \E t \in Tablas, c \in Clientes : CREATE(c, t) \/ DROP(c, t)
  \/ \E t \in Tablas : dump(t) \/ compactar(t)
  \/ ((\E h \in Hilos : Paso(h)) \/ Cae) /\ UNCHANGED pedidos

Spec == Init /\ [][Next]_vars

-----------------------------------------------------------------------------
(* Properties.                                                              *)

Lugares == {"libre", "pide", "busca", "prende", "crea", "carga", "pideLimpiar",
            "limpia", "apaga", "borra", "quita", "termina"}

TypeOK ==
  /\ bitmap \subseteq Bits
  /\ contenido \in [Numeros -> SUBSET (Tablas \X {"bin", "tmp"})]
  /\ archivos \in [Tablas \X Tipos -> [bloques : Seq(Numeros), escrito : BOOLEAN]]
  /\ carpetas \subseteq Tablas
  /\ SemaforobitArray \in 0..1 /\ SemaforoMemtable \in 0..1
  /\ pc \in [Hilos -> Lugares]
  /\ op \in [Hilos -> {"nada", "create", "drop", "dump", "compacta"}]
  /\ tabla \in [Hilos -> Tablas \cup {Nadie}]
  /\ cual \in [Hilos -> Tipos]
  /\ bloque \in [Hilos -> Numeros] /\ leido \in [Hilos -> SUBSET Bits]
  /\ tomados \in [Hilos -> Seq(Numeros)] /\ faltan \in [Hilos -> 0..MaxPorArchivo]
  /\ lista \in [Hilos -> Seq(Numeros)]
  /\ dados \in [Hilos -> 0..MaxPorArchivo] /\ pedidos \in 0..MaxPedidos
  /\ riesgo \subseteq {"lleno", "byte", "borra", "resto", "pierde", "repite", "solapa", "a_medias"}

\* Inside SemaforobitArray, and inside SemaforoMemtable.
Dentro(h) ==
  \/ pc[h] \in {"busca", "prende"}
  \/ pc[h] \in {"limpia", "apaga", "borra"} /\ cual[h] = "bin"
ConMemtable(h) == op[h] \in {"drop", "dump"}

\* A semaphore is down exactly while one thread is inside, on every way out of it: no
\* operation leaves it down when it ends, whichever of its exits it takes, and two are
\* never inside, even when one starts over another of its table.
SemaforosConDueno ==
  /\ SemaforobitArray = 0 <=> \E h \in Hilos : Dentro(h)
  /\ \A g, h \in Hilos : Dentro(g) /\ Dentro(h) => g = h
  /\ SemaforoMemtable = 0 <=> \E h \in Hilos : ConMemtable(h)
  /\ \A g, h \in Hilos : ConMemtable(g) /\ ConMemtable(h) => g = h

\* Blocks of a file that nobody has given back.
Dados(f) == {i \in 1..Len(archivos[f].bloques) :
               \E h \in Hilos : tabla[h] = f[1] /\ cual[h] = f[2] /\ i <= dados[h]}
BloquesDe(f) == {archivos[f].bloques[i] : i \in (1..Len(archivos[f].bloques)) \ Dados(f)}

\* Blocks that a thread has taken for a file that does not exist yet.
Reservados(h) == IF En(h, "carga") \/ op[h] = "create" THEN {} ELSE Elementos(tomados[h])

\* DROP or the compaction has started over another operation of its table.
Solapes == {"solapa", "a_medias"}

\* Two files never list the same block, however the operations of different tables, a
\* table's CREATE or compaction and the dump, and crashes interleave: only the one past
\* the last, once the disk has been full.  Until DROP or the compaction starts over
\* another operation of its table, a byte of the bitmap is written over or a crash stops
\* a removal.
SinCompartir ==
  riesgo \cap ({"byte", "repite"} \cup Solapes) = {} =>
    \A f, g \in Tablas \X Tipos : \A b \in BloquesDe(f) \cap BloquesDe(g) :
      f # g => b = BLOCKS /\ "lleno" \in riesgo

\* Every set bit is of a block that a file lists, or that a thread has just taken: none
\* leaks until a byte is written over, a crash loses the blocks of a file that did not
\* exist, a .tmpc a crash left is written over or two operations of a table overlap.
SinFuga ==
  riesgo \cap ({"byte", "pierde", "resto"} \cup Solapes) = {} =>
    \A b \in bitmap :
      \/ \E f \in Tablas \X Tipos : b \in BloquesDe(f)
      \/ \E h \in Hilos : b \in Reservados(h)

\* The blocks of a file that was written hold its records and nobody else's, until one of
\* those, a full disk or the removal of a block that is another's already.  A temporal
\* compacted while the dump writes it is "a_medias": its blocks go to other files and the
\* dump's records with them.
ContenidoPropio ==
  riesgo \cap ({"byte", "repite", "lleno", "borra"} \cup Solapes) = {} =>
    \A t \in Tablas, k \in Tipos :
      archivos[<<t, k>>].escrito =>
        \A b \in BloquesDe(<<t, k>>) : contenido[b] = {Marca(t, k)}
=============================================================================
