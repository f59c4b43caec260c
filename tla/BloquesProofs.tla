--------------------------- MODULE BloquesProofs ---------------------------
(***************************************************************************)
(* What is proved of Bloques, for any tables, threads, number and width of *)
(* bytes of the bitmap and bounds, with crashes at any moment: the types,  *)
(* that a semaphore is down only while one thread is inside, that two files*)
(* never list the same block, that a set bit is of a block somebody lists, *)
(* and that a written file holds its own records.                          *)
(*                                                                         *)
(* A block in use is in a place of a file, or of a thread whose file does  *)
(* not exist yet.  Places are distinct (Repartidos) and their bits are set *)
(* (Marcado), so a bit that is clear belongs to nobody; and a bit is       *)
(* cleared only by the one thread that has its place (DeSuArchivo).  That  *)
(* reading and writing a byte changes one bit and no other needs the       *)
(* semaphore, or that nobody crossed (Leidos).  Conversely a set bit has a *)
(* place (Listados), and the places say what a block holds (Contenidos).   *)
(***************************************************************************)
EXTENDS Bloques, TLAPS

-----------------------------------------------------------------------------
(* The inductive invariant.                                                 *)

Ficheros == Tablas \X Tipos
Tomando == {"pide", "busca", "prende"}
Dando == {"limpia", "apaga", "borra"}

\* What each kind of thread does, and of which files.
Oficio(h) ==
  /\ pc[h] = "libre" => op[h] = "nada" /\ tabla[h] = Nadie /\ tomados[h] = <<>>
  /\ pc[h] # "libre" => op[h] # "nada" /\ tabla[h] \in Tablas
  /\ op[h] = "create" => h \in Clientes /\ cual[h] = "bin" /\ pc[h] \in Tomando \cup {"termina"}
  /\ op[h] = "drop" => /\ h \in Clientes /\ cual[h] \in {"bin", "tmp"}
                       /\ pc[h] \in {"pideLimpiar", "quita", "termina"} \cup Dando
                       /\ pc[h] = "pideLimpiar" => cual[h] = "bin"
  /\ op[h] = "dump" => /\ h = Volcador /\ cual[h] = "tmp"
                       /\ pc[h] \in {"crea", "carga", "termina"} \cup Tomando
  /\ op[h] = "compacta" => /\ h \in Tablas /\ tabla[h] = h /\ cual[h] \in {"bin", "tmpc"}
                           /\ cual[h] = "tmpc" => pc[h] \in {"quita", "termina"} \cup Dando

\* How many blocks it has taken and given back.
Cuentas(h) ==
  /\ pc[h] \in Tomando => Len(tomados[h]) < faltan[h]
  /\ pc[h] \in {"crea", "carga"} => Len(tomados[h]) = faltan[h] /\ faltan[h] > 0
  /\ pc[h] \in {"pide", "pideLimpiar", "quita"} \cup Dando => tomados[h] = <<>>
  /\ pc[h] \notin {"quita"} \cup Dando => dados[h] = 0
  /\ pc[h] = "prende" => bloque[h] \in Bits

\* Where it is in the list of blocks it gives back.
DeLista(h) ==
  /\ Len(lista[h]) <= MaxPorArchivo
  /\ pc[h] \in {"limpia", "apaga"} => dados[h] < Len(lista[h])
  /\ pc[h] = "apaga" => bloque[h] \in Bits /\ bloque[h] = lista[h][dados[h] + 1]

\* A file that exists has blocks.
ConBloques(f) ==
  /\ archivos[f].bloques = <<>> => archivos[f] = NoHay
  /\ Len(archivos[f].bloques) <= MaxPorArchivo

\* What holds of each thread and file whatever overlaps.
Suelta ==
  /\ TypeOK
  /\ SemaforosConDueno
  /\ \A h \in Hilos : Oficio(h) /\ Cuentas(h) /\ DeLista(h)
  /\ \A f \in Ficheros : ConBloques(f)

\* The files it is at work on are as it left or found them.
DeSuArchivo(h) ==
  /\ pc[h] # "libre" => tabla[h] \in carpetas
  /\ pc[h] \in {"pideLimpiar"} \cup Dando => lista[h] = archivos[Suyo(h)].bloques
  /\ pc[h] = "carga" => archivos[Suyo(h)].bloques = tomados[h]
  /\ op[h] = "compacta" /\ cual[h] = "bin" => archivos[<<tabla[h], "tmpc">>].bloques # <<>>

\* Two threads on one table: a dump, and a CREATE or a compaction.
Comparten(g, h) ==
  tabla[g] = tabla[h] /\ tabla[g] # Nadie /\ g # h =>
    "dump" \in {op[g], op[h]} /\ "drop" \notin {op[g], op[h]}

\* What holds until two operations of a table overlap.
Base ==
  /\ Suelta
  /\ \A h \in Hilos : DeSuArchivo(h)
  /\ \A g, h \in Hilos : Comparten(g, h)

\* What was read of a byte inside the semaphore is what the byte is.
Leidos ==
  \A h \in Hilos : Dentro(h) /\ pc[h] \in {"prende", "apaga"} =>
    leido[h] = bitmap \cap Byte(bloque[h])

\* Place i of a file, of which nobody has given back the block.
Vivo(f, i) ==
  /\ i \in 1..Len(archivos[f].bloques)
  /\ \A h \in Hilos : Suyo(h) = f => i > dados[h]

\* Place i of a thread whose file does not exist yet; the last one while its bit is
\* being set.
Tomado(h, i) ==
  /\ op[h] # "create"
  /\ \/ pc[h] \in {"busca", "prende", "crea"} /\ i \in 1..Len(tomados[h])
     \/ pc[h] = "prende" /\ i = Len(tomados[h]) + 1
Bloque(h, i) == IF i = Len(tomados[h]) + 1 THEN bloque[h] ELSE tomados[h][i]

\* The block past the last, once the disk has been full.
Exento(b) == b = BLOCKS /\ "lleno" \in riesgo

Marcado(b) ==
  \/ b \in bitmap
  \/ Exento(b)
  \/ \E h \in Hilos : pc[h] = "prende" /\ bloque[h] = b

\* No block is in two places.
Repartidos ==
  /\ \A f, g \in Ficheros, i, j \in 1..MaxPorArchivo :
       Vivo(f, i) /\ Vivo(g, j) /\ archivos[f].bloques[i] = archivos[g].bloques[j]
         => Exento(archivos[f].bloques[i]) \/ (f = g /\ i = j)
  /\ \A f \in Ficheros, h \in Hilos, i, j \in 1..MaxPorArchivo :
       Vivo(f, i) /\ Tomado(h, j) /\ archivos[f].bloques[i] = Bloque(h, j)
         => Exento(Bloque(h, j))
  /\ \A g, h \in Hilos, i, j \in 1..MaxPorArchivo :
       Tomado(g, i) /\ Tomado(h, j) /\ Bloque(g, i) = Bloque(h, j)
         => Exento(Bloque(g, i)) \/ (g = h /\ i = j)
Marcados ==
  /\ \A f \in Ficheros, i \in 1..MaxPorArchivo : Vivo(f, i) => Marcado(archivos[f].bloques[i])
  /\ \A h \in Hilos, i \in 1..MaxPorArchivo : Tomado(h, i) => Marcado(Bloque(h, i))

SinSolapes == riesgo \cap Solapes = {}

Inv ==
  /\ Suelta
  /\ SinSolapes => Base
  /\ SinSolapes /\ "byte" \notin riesgo => Leidos
  /\ SinSolapes /\ riesgo \cap {"byte", "repite"} = {} => Repartidos /\ Marcados

-----------------------------------------------------------------------------
(* The bits of a byte.                                                      *)

LEMMA Anchos == /\ BITS \in Nat /\ BLOCKS <= BITS
                /\ 0 \in Numeros /\ BLOCKS \in Numeros
                /\ Bits \subseteq Numeros
<1> DEFINE A == AnchoByte
           n == BLOCKS + A - 1
<1>1. BLOCKS \in Nat \ {0} /\ A \in Nat \ {0} /\ n \in Nat
  BY ConstantesBloques
<1>2. n \div A \in Nat /\ n % A \in 0..(A - 1) /\ n = (A * (n \div A)) + (n % A)
  BY <1>1 DEF A
<1>3. BITS = (n \div A) * A
  BY DEF BITS
<1>4. BITS \in Nat /\ BITS = n - (n % A)
  BY <1>1, <1>2, <1>3
<1>5. BLOCKS <= BITS
  BY <1>1, <1>2, <1>4
<1> QED
  BY <1>1, <1>4, <1>5 DEF Numeros, Bits

LEMMA BytePropio == ASSUME NEW b \in Bits PROVE b \in Byte(b)
  BY DEF Byte

LEMMA ByteAjeno == ASSUME NEW a, NEW b, a \notin Byte(b), a \in Bits
                   PROVE Byte(a) \cap Byte(b) = {}
  BY DEF Byte

\* A byte is read and written with one bit more, or less.
LEMMA UnBitMas == ASSUME NEW S, S \subseteq Bits, NEW b \in Bits
                  PROVE (S \ Byte(b)) \cup (S \cap Byte(b)) \cup {b} = S \cup {b}
  BY BytePropio
LEMMA UnBitMenos == ASSUME NEW S, S \subseteq Bits, NEW b \in Bits
                    PROVE (S \ Byte(b)) \cup ((S \cap Byte(b)) \ {b}) = S \ {b}
  BY BytePropio

-----------------------------------------------------------------------------
(* The threads that do not move.                                            *)

LEMMA BaseSuelta == Base => Suelta /\ TypeOK /\ SemaforosConDueno
  BY DEF Base, Suelta

LEMMA DeSuelta ==
  ASSUME Suelta, NEW h \in Hilos
  PROVE  /\ TypeOK /\ Oficio(h) /\ Cuentas(h) /\ DeLista(h)
         /\ pc[h] \in Lugares /\ op[h] \in {"nada", "create", "drop", "dump", "compacta"}
         /\ tabla[h] \in Tablas \cup {Nadie} /\ cual[h] \in Tipos
         /\ bloque[h] \in Numeros /\ tomados[h] \in Seq(Numeros)
         /\ faltan[h] \in 0..MaxPorArchivo /\ dados[h] \in 0..MaxPorArchivo
         /\ leido[h] \subseteq Bits /\ lista[h] \in Seq(Numeros)
  BY DEF Suelta, TypeOK

LEMMA DeBase ==
  ASSUME Base, NEW h \in Hilos
  PROVE  /\ TypeOK /\ Oficio(h) /\ Cuentas(h) /\ DeLista(h) /\ DeSuArchivo(h)
         /\ pc[h] \in Lugares /\ op[h] \in {"nada", "create", "drop", "dump", "compacta"}
         /\ tabla[h] \in Tablas \cup {Nadie} /\ cual[h] \in Tipos
         /\ bloque[h] \in Numeros /\ tomados[h] \in Seq(Numeros)
         /\ faltan[h] \in 0..MaxPorArchivo /\ dados[h] \in 0..MaxPorArchivo
         /\ leido[h] \subseteq Bits /\ lista[h] \in Seq(Numeros)
<1>1. Suelta /\ DeSuArchivo(h)
  BY DEF Base
<1> QED
  BY <1>1, DeSuelta

LEMMA SuyoFichero ==
  ASSUME Suelta, NEW h \in Hilos, pc[h] # "libre"
  PROVE  Suyo(h) \in Ficheros /\ tabla[h] \in Tablas /\ op[h] # "nada"
<1>1. tabla[h] \in Tablas /\ op[h] # "nada" /\ cual[h] \in Tipos
  BY DeSuelta DEF Oficio
<1> QED
  BY <1>1 DEF Ficheros, Suyo

\* Two threads at work are never at work on the same file.
LEMMA SuyoDistinto ==
  ASSUME Base, NEW g \in Hilos, NEW h \in Hilos, g # h, pc[g] # "libre", pc[h] # "libre"
  PROVE  Suyo(g) # Suyo(h)
<1>1. Oficio(g) /\ Oficio(h) /\ Comparten(g, h) /\ tabla[g] # Nadie
  BY SuyoFichero, BaseSuelta, ConstantesBloques, DeBase DEF Base
<1>2. op[g] \in {"create", "drop", "dump", "compacta"} /\ op[h] \in {"create", "drop", "dump", "compacta"}
  BY DeBase, SuyoFichero, BaseSuelta
<1>3. CASE tabla[g] = tabla[h]
  <2>1. "dump" \in {op[g], op[h]} /\ "drop" \notin {op[g], op[h]}
    BY <1>1, <1>3 DEF Comparten
  <2>2. ~(op[g] = "dump" /\ op[h] = "dump")
    BY <1>1 DEF Oficio
  <2>3. cual[g] # cual[h]
    BY <1>1, <1>2, <2>1, <2>2 DEF Oficio
  <2> QED
    BY <2>3 DEF Suyo
<1> QED
  BY <1>3 DEF Suyo

LEMMA SuyoDeNadie ==
  ASSUME Base, NEW h \in Hilos, pc[h] = "libre", NEW f \in Ficheros
  PROVE  Suyo(h) # f
<1>1. tabla[h] = Nadie
  BY DeBase DEF Oficio
<1> QED
  BY <1>1, ConstantesBloques DEF Suyo, Ficheros

\* A thread does not move.
Parado(g) ==
  /\ pc'[g] = pc[g] /\ op'[g] = op[g] /\ tabla'[g] = tabla[g] /\ cual'[g] = cual[g]
  /\ bloque'[g] = bloque[g] /\ leido'[g] = leido[g] /\ tomados'[g] = tomados[g]
  /\ faltan'[g] = faltan[g] /\ lista'[g] = lista[g] /\ dados'[g] = dados[g]

LEMMA ParadoSigue ==
  ASSUME Suelta, NEW g \in Hilos, Parado(g)
  PROVE  Oficio(g)' /\ Cuentas(g)' /\ DeLista(g)'
<1>1. Oficio(g) /\ Cuentas(g) /\ DeLista(g)
  BY DeSuelta
<1>2. Oficio(g)'
  BY <1>1 DEF Oficio, Parado
<1>3. Cuentas(g)'
  BY <1>1 DEF Cuentas, Parado
<1>4. DeLista(g)'
  BY <1>1 DEF DeLista, Parado
<1> QED
  BY <1>2, <1>3, <1>4

\* What it relies on, when it is another that moves.
Ajeno(g) ==
  /\ Parado(g)
  /\ pc[g] # "libre" => tabla[g] \in carpetas' /\ archivos'[Suyo(g)] = archivos[Suyo(g)]
  /\ op[g] = "compacta" => archivos'[<<tabla[g], "tmpc">>] = archivos[<<tabla[g], "tmpc">>]

LEMMA AjenoSigue ==
  ASSUME Base, NEW g \in Hilos, Ajeno(g)
  PROVE  DeSuArchivo(g)'
<1>1. Oficio(g) /\ DeSuArchivo(g)
  BY DeBase
<1>2. Suyo(g)' = Suyo(g)
  BY DEF Suyo, Ajeno, Parado
<1>3. pc[g] # "libre" => archivos'[Suyo(g)] = archivos[Suyo(g)]
  BY DEF Ajeno
<1> QED
  BY <1>1, <1>2, <1>3 DEF DeSuArchivo, Ajeno, Parado, Oficio, Dando

-----------------------------------------------------------------------------
(* A step of a thread that is at work.                                      *)

Trabaja(h) ==
  \/ PideBits(h) \/ Encuentra(h) \/ Fantasma(h) \/ Prende(h)
  \/ CreaArchivo(h) \/ cargarRegistros(h)
  \/ PideLimpiar(h) \/ LimpiaBloque(h) \/ Apaga(h) \/ BorraBloque(h)
  \/ QuitaArchivo(h) \/ Termina(h)

\* It has the files of the others as it found them.
LEMMA NoEsLibre == ASSUME NEW h \in Hilos, Trabaja(h) PROVE pc[h] # "libre"
  BY DEF Trabaja, En, PideBits, Encuentra, Fantasma, Prende, CreaArchivo, cargarRegistros,
    PideLimpiar, LimpiaBloque, Apaga, BorraBloque, QuitaArchivo, Termina, Sigue

LEMMA LocalesAjenos ==
  ASSUME TypeOK, NEW h \in Hilos, Trabaja(h), NEW g \in Hilos, g # h
  PROVE  Parado(g)
<1> USE DEF Parado, Va, disco, semaforos, pedido, toma, locales, TypeOK
<1>1. CASE PideBits(h)
  BY <1>1 DEF PideBits
<1>2. CASE Encuentra(h)
  BY <1>2 DEF Encuentra
<1>3. CASE Fantasma(h)
  BY <1>3 DEF Fantasma, Toma
<1>4. CASE Prende(h)
  BY <1>4 DEF Prende, Toma
<1>5. CASE CreaArchivo(h)
  BY <1>5 DEF CreaArchivo
<1>6. CASE cargarRegistros(h)
  BY <1>6 DEF cargarRegistros, Sigue
<1>7. CASE PideLimpiar(h)
  BY <1>7 DEF PideLimpiar
<1>8. CASE LimpiaBloque(h)
  BY <1>8 DEF LimpiaBloque
<1>9. CASE Apaga(h)
  BY <1>9 DEF Apaga
<1>10. CASE BorraBloque(h)
  BY <1>10 DEF BorraBloque
<1>11. CASE QuitaArchivo(h)
  BY <1>11 DEF QuitaArchivo, Sigue
<1>12. CASE Termina(h)
  BY <1>12 DEF Termina
<1> QED
  BY <1>1, <1>2, <1>3, <1>4, <1>5, <1>6, <1>7, <1>8, <1>9, <1>10, <1>11, <1>12 DEF Trabaja

LEMMA ArchivosAjenos ==
  ASSUME TypeOK, NEW h \in Hilos, Trabaja(h), NEW f \in Ficheros, f # Suyo(h)
  PROVE  archivos'[f] = archivos[f]
<1> USE DEF disco, TypeOK, Ficheros
<1>1. CASE Encuentra(h)
  BY <1>1 DEF Encuentra
<1>2. CASE CreaArchivo(h)
  BY <1>2 DEF CreaArchivo
<1>3. CASE cargarRegistros(h)
  BY <1>3 DEF cargarRegistros, Sigue
<1>4. CASE QuitaArchivo(h)
  BY <1>4 DEF QuitaArchivo, Sigue
<1>5. CASE UNCHANGED archivos
  BY <1>5
<1> QED
  BY <1>1, <1>2, <1>3, <1>4, <1>5 DEF Trabaja, PideBits, Fantasma, Prende, PideLimpiar,
    LimpiaBloque, Apaga, BorraBloque, Termina

LEMMA CarpetasAjenas ==
  ASSUME Base, NEW h \in Hilos, Trabaja(h), NEW g \in Hilos, g # h, pc[g] # "libre"
  PROVE  tabla[g] \in carpetas'
<1>1. tabla[g] \in carpetas /\ tabla[g] # Nadie /\ op[g] # "nada"
  BY DeBase, SuyoFichero, BaseSuelta, ConstantesBloques DEF DeSuArchivo
<1>2. CASE Termina(h)
  <2>1. Comparten(h, g)
    BY DEF Base
  <2>2. op[h] = "drop" => tabla[h] # tabla[g]
    BY <1>1, <2>1, NoEsLibre, SuyoFichero, BaseSuelta, ConstantesBloques DEF Comparten
  <2> QED
    BY <1>1, <1>2, <2>2 DEF Termina
<1>3. CASE UNCHANGED carpetas
  BY <1>1, <1>3
<1> QED
  BY <1>2, <1>3 DEF Trabaja, disco, PideBits, Encuentra, Fantasma, Prende, CreaArchivo, cargarRegistros,
    PideLimpiar, LimpiaBloque, Apaga, BorraBloque, QuitaArchivo, Sigue

LEMMA AjenoPaso ==
  ASSUME Base, NEW h \in Hilos, Trabaja(h), NEW g \in Hilos, g # h
  PROVE  Ajeno(g)
<1>1. Parado(g)
  BY LocalesAjenos, BaseSuelta
<1>2. pc[h] # "libre"
  BY NoEsLibre
<1>3. ASSUME pc[g] # "libre" PROVE archivos'[Suyo(g)] = archivos[Suyo(g)]
  BY <1>2, <1>3, SuyoFichero, BaseSuelta, SuyoDistinto, ArchivosAjenos DEF Base
<1>4. ASSUME op[g] = "compacta" PROVE archivos'[<<tabla[g], "tmpc">>] = archivos[<<tabla[g], "tmpc">>]
  <2>1. pc[g] # "libre" /\ tabla[g] \in Tablas
    BY <1>4, DeBase, SuyoFichero, BaseSuelta DEF Oficio
  <2>2. Comparten(g, h) /\ Oficio(h) /\ op[h] # "nada" /\ tabla[g] # Nadie
    BY <1>2, <2>1, SuyoFichero, BaseSuelta, ConstantesBloques, DeBase DEF Base
  <2>3. tabla[h] # tabla[g] \/ cual[h] = "tmp"
    BY <1>4, <2>2 DEF Comparten, Oficio
  <2>4. <<tabla[g], "tmpc">> \in Ficheros /\ <<tabla[g], "tmpc">> # Suyo(h)
    BY <2>1, <2>3 DEF Suyo, Ficheros, Tipos
  <2> QED
    BY <2>4, ArchivosAjenos, BaseSuelta
<1> QED
  BY <1>1, <1>3, <1>4, CarpetasAjenas DEF Ajeno

-----------------------------------------------------------------------------
(* The thread that moves.                                                   *)

\* A file has at most MaxPorArchivo blocks.
LEMMA DeArchivo ==
  ASSUME Suelta, NEW f \in Ficheros
  PROVE  /\ archivos \in [Ficheros -> [bloques : Seq(Numeros), escrito : BOOLEAN]]
         /\ archivos[f].bloques \in Seq(Numeros) /\ Len(archivos[f].bloques) <= MaxPorArchivo
         /\ archivos[f].bloques = <<>> => archivos[f] = NoHay
  BY DEF Suelta, TypeOK, Ficheros, ConBloques

\* A file that is there lists blocks.
LEMMA ConPrimero ==
  ASSUME Suelta, NEW t \in Tablas, NEW k \in Tipos, Hay(t, k)
  PROVE  /\ <<t, k>> \in Ficheros /\ archivos[<<t, k>>].bloques \in Seq(Numeros)
         /\ archivos[<<t, k>>].bloques # <<>> /\ 0 < Len(archivos[<<t, k>>].bloques)
<1>1. <<t, k>> \in Ficheros
  BY DEF Ficheros
<1>2. archivos[<<t, k>>].bloques \in Seq(Numeros)
  BY <1>1, DeArchivo
<1>3. archivos[<<t, k>>].bloques # <<>>
  BY <1>1, DeArchivo DEF Hay
<1> QED
  BY <1>1, <1>2, <1>3

LEMMA OficioPropio ==
  ASSUME Suelta, NEW h \in Hilos, Trabaja(h), UNCHANGED pedidos
  PROVE  Oficio(h)'
<1>a. /\ TypeOK /\ Oficio(h) /\ Cuentas(h) /\ DeLista(h)
      /\ pc[h] \in Lugares /\ op[h] \in {"nada", "create", "drop", "dump", "compacta"}
      /\ tabla[h] \in Tablas \cup {Nadie} /\ cual[h] \in Tipos
      /\ bloque[h] \in Numeros /\ tomados[h] \in Seq(Numeros)
      /\ faltan[h] \in 0..MaxPorArchivo /\ dados[h] \in 0..MaxPorArchivo
      /\ leido[h] \subseteq Bits /\ lista[h] \in Seq(Numeros)
  BY DeSuelta
<1> USE DEF Va, En, disco, semaforos, pedido, toma, locales, TypeOK, Tipos, Tomando, Dando, Oficio
<1>1. CASE PideBits(h)
  BY <1>1, <1>a DEF PideBits
<1>2. CASE Encuentra(h)
  BY <1>2, <1>a DEF Encuentra, Libres
<1>3. CASE Fantasma(h)
  BY <1>3, <1>a DEF Fantasma, Toma
<1>4. CASE Prende(h)
  BY <1>4, <1>a DEF Prende, Toma
<1>5. CASE CreaArchivo(h)
  BY <1>5, <1>a DEF CreaArchivo
<1>6. CASE cargarRegistros(h)
  BY <1>6, <1>a DEF cargarRegistros, Sigue
<1>7. CASE PideLimpiar(h)
  BY <1>7, <1>a DEF PideLimpiar
<1>8. CASE LimpiaBloque(h)
  BY <1>8, <1>a DEF LimpiaBloque
<1>9. CASE Apaga(h)
  BY <1>9, <1>a DEF Apaga
<1>10. CASE BorraBloque(h)
  BY <1>10, <1>a DEF BorraBloque
<1>11. CASE QuitaArchivo(h)
  BY <1>11, <1>a DEF QuitaArchivo, Sigue
<1>12. CASE Termina(h)
  BY <1>12, <1>a DEF Termina
<1> QED
  BY <1>1, <1>2, <1>3, <1>4, <1>5, <1>6, <1>7, <1>8, <1>9, <1>10, <1>11, <1>12 DEF Trabaja

LEMMA CuentasPropias ==
  ASSUME Suelta, NEW h \in Hilos, Trabaja(h), UNCHANGED pedidos
  PROVE  Cuentas(h)'
<1>a. /\ TypeOK /\ Oficio(h) /\ Cuentas(h) /\ DeLista(h)
      /\ pc[h] \in Lugares /\ op[h] \in {"nada", "create", "drop", "dump", "compacta"}
      /\ tabla[h] \in Tablas \cup {Nadie} /\ cual[h] \in Tipos
      /\ bloque[h] \in Numeros /\ tomados[h] \in Seq(Numeros)
      /\ faltan[h] \in 0..MaxPorArchivo /\ dados[h] \in 0..MaxPorArchivo
      /\ leido[h] \subseteq Bits /\ lista[h] \in Seq(Numeros)
  BY DeSuelta
<1> USE DEF Va, En, disco, semaforos, pedido, toma, locales, TypeOK, Tipos, Tomando, Dando, Cuentas
<1>1. CASE PideBits(h)
  BY <1>1, <1>a DEF PideBits
<1>2. CASE Encuentra(h)
  BY <1>2, <1>a DEF Encuentra, Libres
<1>3. CASE Fantasma(h)
  BY <1>3, <1>a DEF Fantasma, Toma
<1>4. CASE Prende(h)
  BY <1>4, <1>a DEF Prende, Toma
<1>5. CASE CreaArchivo(h)
  BY <1>5, <1>a DEF CreaArchivo
<1>6. CASE cargarRegistros(h)
  BY <1>6, <1>a DEF cargarRegistros, Sigue
<1>7. CASE PideLimpiar(h)
  BY <1>7, <1>a DEF PideLimpiar
<1>8. CASE LimpiaBloque(h)
  BY <1>8, <1>a DEF LimpiaBloque
<1>9. CASE Apaga(h)
  BY <1>9, <1>a DEF Apaga
<1>10. CASE BorraBloque(h)
  BY <1>10, <1>a DEF BorraBloque
<1>11. CASE QuitaArchivo(h)
  BY <1>11, <1>a DEF QuitaArchivo, Sigue
<1>12. CASE Termina(h)
  BY <1>12, <1>a DEF Termina
<1> QED
  BY <1>1, <1>2, <1>3, <1>4, <1>5, <1>6, <1>7, <1>8, <1>9, <1>10, <1>11, <1>12 DEF Trabaja

LEMMA DeListaPropia ==
  ASSUME Suelta, NEW h \in Hilos, Trabaja(h), UNCHANGED pedidos
  PROVE  DeLista(h)'
<1>a. /\ TypeOK /\ Oficio(h) /\ Cuentas(h) /\ DeLista(h)
      /\ pc[h] \in Lugares /\ op[h] \in {"nada", "create", "drop", "dump", "compacta"}
      /\ tabla[h] \in Tablas \cup {Nadie} /\ cual[h] \in Tipos
      /\ bloque[h] \in Numeros /\ tomados[h] \in Seq(Numeros)
      /\ faltan[h] \in 0..MaxPorArchivo /\ dados[h] \in 0..MaxPorArchivo
      /\ leido[h] \subseteq Bits /\ lista[h] \in Seq(Numeros)
  BY DeSuelta
<1>b. dados[h] = 0 \/ pc[h] \in {"quita", "limpia", "apaga", "borra"}
  BY <1>a DEF Cuentas, Dando
<1>c. ASSUME NEW k \in Tipos, Hay(tabla[h], k), pc[h] # "libre"
      PROVE  /\ 0 < Len(archivos[<<tabla[h], k>>].bloques)
             /\ Len(archivos[<<tabla[h], k>>].bloques) <= MaxPorArchivo
  BY <1>c, SuyoFichero, ConPrimero, DeArchivo
<1> USE DEF Va, En, disco, semaforos, pedido, toma, locales, TypeOK, Tipos, Tomando, Dando, DeLista
<1>1. CASE PideBits(h)
  BY <1>1, <1>a DEF PideBits
<1>2. CASE Encuentra(h)
  BY <1>2, <1>a DEF Encuentra, Libres
<1>3. CASE Fantasma(h)
  BY <1>3, <1>a DEF Fantasma, Toma
<1>4. CASE Prende(h)
  BY <1>4, <1>a DEF Prende, Toma
<1>5. CASE CreaArchivo(h)
  BY <1>5, <1>a DEF CreaArchivo
<1>6. CASE cargarRegistros(h)
  <2>1. CASE op[h] = "compacta" /\ Hay(tabla[h], "tmpc")
    <3>1. 0 < Len(archivos[<<tabla[h], "tmpc">>].bloques) /\ Len(archivos[<<tabla[h], "tmpc">>].bloques) <= MaxPorArchivo
      BY <1>6, <1>c, <2>1 DEF cargarRegistros
    <3>2. /\ pc'[h] = "limpia" /\ lista'[h] = archivos[<<tabla[h], "tmpc">>].bloques /\ dados'[h] = 0
      BY <1>6, <1>a, <1>b, <2>1 DEF cargarRegistros, Sigue
    <3> QED
      BY <3>1, <3>2
  <2>2. CASE ~(op[h] = "compacta" /\ Hay(tabla[h], "tmpc"))
    BY <1>6, <1>a, <2>2 DEF cargarRegistros
  <2> QED
    BY <2>1, <2>2
<1>7. CASE PideLimpiar(h)
  <2>1. 0 < Len(lista[h]) /\ dados[h] = 0
    BY <1>7, <1>a, <1>b DEF PideLimpiar
  <2> QED
    BY <1>7, <1>a, <2>1 DEF PideLimpiar
<1>8. CASE LimpiaBloque(h)
  BY <1>8, <1>a DEF LimpiaBloque
<1>9. CASE Apaga(h)
  BY <1>9, <1>a DEF Apaga
<1>10. CASE BorraBloque(h)
  BY <1>10, <1>a DEF BorraBloque
<1>11. CASE QuitaArchivo(h)
  <2>1. CASE cual[h] = "bin" /\ op[h] # "compacta" /\ Hay(tabla[h], "tmp")
    <3>1. 0 < Len(archivos[<<tabla[h], "tmp">>].bloques) /\ Len(archivos[<<tabla[h], "tmp">>].bloques) <= MaxPorArchivo
      BY <1>11, <1>c, <2>1 DEF QuitaArchivo
    <3>2. /\ pc'[h] = "limpia" /\ lista'[h] = archivos[<<tabla[h], "tmp">>].bloques /\ dados'[h] = 0
      BY <1>11, <1>a, <2>1 DEF QuitaArchivo, Sigue
    <3> QED
      BY <3>1, <3>2
  <2>2. CASE ~(cual[h] = "bin" /\ op[h] # "compacta" /\ Hay(tabla[h], "tmp"))
    <3>1. pc'[h] \in {"pide", "termina"} /\ lista' = lista
      BY <1>11, <1>a, <2>2 DEF QuitaArchivo
    <3> QED
      BY <1>a, <3>1
  <2> QED
    BY <2>1, <2>2
<1>12. CASE Termina(h)
  <2>1. pc'[h] = "libre" /\ lista'[h] = <<>>
    BY <1>12, <1>a DEF Termina
  <2>2. Len(<<>>) <= MaxPorArchivo
    BY ConstantesBloques
  <2> QED
    BY <2>1, <2>2
<1> QED
  BY <1>1, <1>2, <1>3, <1>4, <1>5, <1>6, <1>7, <1>8, <1>9, <1>10, <1>11, <1>12 DEF Trabaja

LEMMA DeSuArchivoPropio ==
  ASSUME Base, NEW h \in Hilos, Trabaja(h), UNCHANGED pedidos
  PROVE  DeSuArchivo(h)'
<1>a. /\ TypeOK /\ Oficio(h) /\ Cuentas(h) /\ DeLista(h) /\ DeSuArchivo(h)
      /\ pc[h] \in Lugares /\ op[h] \in {"nada", "create", "drop", "dump", "compacta"}
      /\ tabla[h] \in Tablas \cup {Nadie} /\ cual[h] \in Tipos
      /\ bloque[h] \in Numeros /\ tomados[h] \in Seq(Numeros)
      /\ lista[h] \in Seq(Numeros) /\ dados[h] \in 0..MaxPorArchivo
  BY DeBase
<1>b. Suyo(h) \in Ficheros /\ tabla[h] \in Tablas
  BY NoEsLibre, SuyoFichero, BaseSuelta
<1>c. archivos \in [Ficheros -> [bloques : Seq(Numeros), escrito : BOOLEAN]]
  BY BaseSuelta DEF TypeOK, Ficheros
<1>d. /\ archivos \in [Ficheros -> [bloques : Seq(Numeros), escrito : BOOLEAN]]
      /\ <<tabla[h], "tmp">> \in Ficheros /\ <<tabla[h], "tmpc">> \in Ficheros
  BY <1>b, <1>c DEF Ficheros, Tipos
<1>e. archivos[<<tabla[h], "tmpc">>].bloques # <<>> => Hay(tabla[h], "tmpc")
  BY DEF Hay, NoHay
<1> USE DEF Va, En, disco, semaforos, pedido, toma, locales, TypeOK, DeSuArchivo, Oficio, Cuentas, Suyo, Tomando, Dando
<1>1. CASE PideBits(h)
  BY <1>1, <1>a DEF PideBits
<1>2. CASE Encuentra(h)
  BY <1>2, <1>a DEF Encuentra, Libres
<1>3. CASE Fantasma(h)
  BY <1>3, <1>a DEF Fantasma, Toma
<1>4. CASE Prende(h)
  BY <1>4, <1>a DEF Prende, Toma
<1>5. CASE CreaArchivo(h)
  BY <1>5, <1>a DEF CreaArchivo
<1>6. CASE cargarRegistros(h)
  <2>1. /\ UNCHANGED <<op, tabla, dados, carpetas>> /\ dados[h] = 0 /\ tabla[h] \in carpetas
        /\ archivos' = [archivos EXCEPT ![Suyo(h)].escrito = Hay(tabla[h], cual[h])]
    BY <1>6, <1>a DEF cargarRegistros
  <2>2. CASE op[h] = "compacta"
    <3>1. cual[h] = "bin"
      BY <1>6, <1>a, <2>2 DEF cargarRegistros
    <3>2. archivos[<<tabla[h], "tmpc">>].bloques # <<>>
      BY <1>a, <2>2, <3>1
    <3>3. archivos'[<<tabla[h], "tmpc">>] = archivos[<<tabla[h], "tmpc">>]
      BY <1>b, <1>d, <2>1, <3>1
    <3>4. Sigue(h, "tmpc")
      BY <1>6, <1>e, <2>2, <3>2 DEF cargarRegistros
    <3>5. /\ pc'[h] = "limpia" /\ cual'[h] = "tmpc" /\ op'[h] = op[h] /\ tabla'[h] = tabla[h]
          /\ lista'[h] = archivos[<<tabla[h], "tmpc">>].bloques
      BY <1>a, <2>1, <3>4 DEF Sigue
    <3>6. Suyo(h)' = <<tabla[h], "tmpc">>
      BY <3>5
    <3> QED
      BY <2>1, <3>3, <3>5, <3>6
  <2>3. CASE op[h] # "compacta"
    <3>1. pc'[h] = "termina" /\ op'[h] = op[h] /\ tabla'[h] = tabla[h]
      BY <1>6, <1>a, <2>1, <2>3 DEF cargarRegistros
    <3> QED
      BY <2>1, <2>3, <3>1
  <2> QED
    BY <2>2, <2>3
<1>7. CASE PideLimpiar(h)
  BY <1>7, <1>a DEF PideLimpiar
<1>8. CASE LimpiaBloque(h)
  BY <1>8, <1>a DEF LimpiaBloque
<1>9. CASE Apaga(h)
  BY <1>9, <1>a DEF Apaga
<1>10. CASE BorraBloque(h)
  BY <1>10, <1>a DEF BorraBloque
<1>11. CASE QuitaArchivo(h)
  <2>1. /\ archivos' = [archivos EXCEPT ![Suyo(h)] = NoHay]
        /\ dados'[h] = 0 /\ UNCHANGED <<op, tabla, carpetas>> /\ tabla[h] \in carpetas
        /\ op'[h] = op[h] /\ tabla'[h] = tabla[h]
    BY <1>11, <1>a DEF QuitaArchivo
  <2>2. CASE cual[h] = "bin" /\ op[h] = "compacta"
    <3>1. pc'[h] = "pide" /\ cual'[h] = "bin"
      BY <1>11, <1>a, <2>2 DEF QuitaArchivo
    <3>2. archivos'[<<tabla[h], "tmpc">>] = archivos[<<tabla[h], "tmpc">>]
      BY <1>b, <1>d, <2>1, <2>2
    <3>3. archivos[<<tabla[h], "tmpc">>].bloques # <<>>
      BY <1>a, <2>2
    <3> QED
      BY <2>1, <2>2, <3>1, <3>2, <3>3
  <2>3. CASE cual[h] = "bin" /\ op[h] # "compacta" /\ Hay(tabla[h], "tmp")
    <3>1. Sigue(h, "tmp")
      BY <1>11, <2>3 DEF QuitaArchivo
    <3>2. /\ pc'[h] = "limpia" /\ cual'[h] = "tmp"
          /\ lista'[h] = archivos[<<tabla[h], "tmp">>].bloques
      BY <1>a, <3>1 DEF Sigue
    <3>3. archivos'[<<tabla[h], "tmp">>] = archivos[<<tabla[h], "tmp">>]
      BY <1>b, <1>d, <2>1, <2>3
    <3>4. Suyo(h)' = <<tabla[h], "tmp">>
      BY <2>1, <3>2
    <3> QED
      BY <2>1, <2>3, <3>2, <3>3, <3>4
  <2>4. CASE ~(cual[h] = "bin" /\ (op[h] = "compacta" \/ Hay(tabla[h], "tmp")))
    <3>1. pc'[h] = "termina" /\ cual'[h] = cual[h]
      BY <1>11, <1>a, <2>4 DEF QuitaArchivo
    <3>2. ~(op'[h] = "compacta" /\ cual'[h] = "bin")
      BY <2>1, <2>4, <3>1
    <3> QED
      BY <2>1, <3>1, <3>2
  <2> QED
    BY <2>2, <2>3, <2>4
<1>12. CASE Termina(h)
  BY <1>12, <1>a DEF Termina
<1> QED
  BY <1>1, <1>2, <1>3, <1>4, <1>5, <1>6, <1>7, <1>8, <1>9, <1>10, <1>11, <1>12 DEF Trabaja

LEMMA ConBloquesPaso ==
  ASSUME Suelta, NEW h \in Hilos, Trabaja(h), NEW f \in Ficheros
  PROVE  ConBloques(f)'
<1>1. CASE f # Suyo(h)
  <2>1. archivos'[f] = archivos[f] /\ ConBloques(f)
    BY <1>1, ArchivosAjenos DEF Suelta
  <2> QED
    BY <2>1 DEF ConBloques
<1>2. CASE f = Suyo(h)
  <2>1. archivos \in [Ficheros -> [bloques : Seq(Numeros), escrito : BOOLEAN]]
    BY DEF Suelta, TypeOK, Ficheros
  <2>2. ConBloques(f) /\ Cuentas(h) /\ tomados[h] \in Seq(Numeros)
        /\ faltan[h] \in 0..MaxPorArchivo /\ MaxPorArchivo \in Nat \ {0}
    BY DeSuelta, ConstantesBloques DEF Suelta
  <2>3. CASE Encuentra(h)
    <3>1. CASE op[h] = "create"
      <4>1. PICK b : archivos' = [archivos EXCEPT ![f] = [bloques |-> <<b>>, escrito |-> FALSE]]
        BY <1>2, <2>3, <3>1 DEF Encuentra
      <4>2. archivos'[f].bloques = <<b>> /\ Len(<<b>>) = 1 /\ <<b>> # <<>>
        BY <2>1, <4>1
      <4> QED
        BY <2>2, <4>2 DEF ConBloques
    <3>2. CASE op[h] # "create"
      BY <2>2, <2>3, <3>2 DEF Encuentra, ConBloques
    <3> QED
      BY <3>1, <3>2
  <2>4. CASE CreaArchivo(h)
    <3>1. archivos'[f].bloques = tomados[h]
      BY <1>2, <2>1, <2>4 DEF CreaArchivo
    <3>2. Len(tomados[h]) = faltan[h] /\ faltan[h] > 0
      BY <2>2, <2>4 DEF CreaArchivo, En, Cuentas
    <3>3. tomados[h] # <<>>
      BY <2>2, <3>2
    <3> QED
      BY <2>2, <3>1, <3>2, <3>3 DEF ConBloques
  <2>5. CASE cargarRegistros(h)
    <3>1. archivos'[f] = [archivos[f] EXCEPT !.escrito = Hay(tabla[h], cual[h])]
      BY <1>2, <2>1, <2>5 DEF cargarRegistros, Sigue
    <3>2. archivos[f] = NoHay <=> ~Hay(tabla[h], cual[h])
      BY <1>2 DEF Hay, Suyo
    <3>3. archivos'[f].bloques = archivos[f].bloques
      BY <2>1, <3>1
    <3>4. ASSUME archivos[f] = NoHay PROVE archivos'[f] = NoHay
      <4>1. Hay(tabla[h], cual[h]) = FALSE
        BY <3>2, <3>4 DEF Hay
      <4>2. archivos'[f] = [NoHay EXCEPT !.escrito = FALSE]
        BY <3>1, <3>4, <4>1
      <4> QED
        BY <4>2 DEF NoHay
    <3> QED
      BY <2>2, <3>3, <3>4 DEF ConBloques
  <2>6. CASE QuitaArchivo(h)
    <3>1. archivos'[f] = NoHay /\ NoHay.bloques = <<>> /\ Len(<<>>) = 0
      BY <1>2, <2>1, <2>6 DEF QuitaArchivo, NoHay, Sigue
    <3> QED
      BY <2>2, <3>1 DEF ConBloques
  <2>7. CASE UNCHANGED archivos
    BY <2>2, <2>7 DEF ConBloques
  <2> QED
    BY <2>3, <2>4, <2>5, <2>6, <2>7 DEF Trabaja, disco, PideBits, Fantasma, Prende, PideLimpiar,
      LimpiaBloque, Apaga, BorraBloque, Termina
<1> QED
  BY <1>1, <1>2

-----------------------------------------------------------------------------
(* The types.                                                               *)

TipoDisco ==
  /\ bitmap \subseteq Bits
  /\ contenido \in [Numeros -> SUBSET (Tablas \X {"bin", "tmp"})]
  /\ archivos \in [Ficheros -> [bloques : Seq(Numeros), escrito : BOOLEAN]]
  /\ carpetas \subseteq Tablas
TipoComun ==
  /\ SemaforobitArray \in 0..1 /\ SemaforoMemtable \in 0..1
  /\ pedidos \in 0..MaxPedidos
  /\ riesgo \subseteq {"lleno", "byte", "borra", "resto", "pierde", "repite", "solapa", "a_medias"}
TipoHilos ==
  /\ pc \in [Hilos -> Lugares]
  /\ op \in [Hilos -> {"nada", "create", "drop", "dump", "compacta"}]
  /\ tabla \in [Hilos -> Tablas \cup {Nadie}]
  /\ cual \in [Hilos -> Tipos]
  /\ bloque \in [Hilos -> Numeros] /\ leido \in [Hilos -> SUBSET Bits]
  /\ tomados \in [Hilos -> Seq(Numeros)] /\ faltan \in [Hilos -> 0..MaxPorArchivo]
  /\ lista \in [Hilos -> Seq(Numeros)]
  /\ dados \in [Hilos -> 0..MaxPorArchivo]

LEMMA PorPartes == TypeOK <=> TipoDisco /\ TipoComun /\ TipoHilos
  BY DEF TypeOK, TipoDisco, TipoComun, TipoHilos, Ficheros

LEMMA TipoComunPaso ==
  ASSUME Suelta, NEW h \in Hilos, Trabaja(h), UNCHANGED pedidos
  PROVE  TipoComun'
<1>a. TipoComun
  BY PorPartes DEF Suelta
<1> USE DEF Va, disco, semaforos, pedido, toma, locales, TipoComun
<1>1. CASE PideBits(h)
  BY <1>1, <1>a DEF PideBits
<1>2. CASE Encuentra(h)
  BY <1>2, <1>a DEF Encuentra, Libres
<1>3. CASE Fantasma(h)
  BY <1>3, <1>a DEF Fantasma, Toma
<1>4. CASE Prende(h)
  BY <1>4, <1>a DEF Prende, Toma
<1>5. CASE CreaArchivo(h)
  BY <1>5, <1>a DEF CreaArchivo
<1>6. CASE cargarRegistros(h)
  BY <1>6, <1>a DEF cargarRegistros, Sigue
<1>7. CASE PideLimpiar(h)
  BY <1>7, <1>a DEF PideLimpiar
<1>8. CASE LimpiaBloque(h)
  BY <1>8, <1>a DEF LimpiaBloque
<1>9. CASE Apaga(h)
  BY <1>9, <1>a DEF Apaga
<1>10. CASE BorraBloque(h)
  BY <1>10, <1>a DEF BorraBloque
<1>11. CASE QuitaArchivo(h)
  BY <1>11, <1>a DEF QuitaArchivo, Sigue
<1>12. CASE Termina(h)
  BY <1>12, <1>a DEF Termina
<1> QED
  BY <1>1, <1>2, <1>3, <1>4, <1>5, <1>6, <1>7, <1>8, <1>9, <1>10, <1>11, <1>12 DEF Trabaja

LEMMA TipoHilosPaso ==
  ASSUME Suelta, NEW h \in Hilos, Trabaja(h), UNCHANGED pedidos
  PROVE  TipoHilos'
<1>a. /\ Oficio(h) /\ Cuentas(h) /\ DeLista(h)
      /\ pc[h] \in Lugares /\ op[h] \in {"nada", "create", "drop", "dump", "compacta"}
      /\ tabla[h] \in Tablas \cup {Nadie} /\ cual[h] \in Tipos
      /\ bloque[h] \in Numeros /\ tomados[h] \in Seq(Numeros)
      /\ faltan[h] \in 0..MaxPorArchivo /\ dados[h] \in 0..MaxPorArchivo
      /\ leido[h] \subseteq Bits /\ lista[h] \in Seq(Numeros)
  BY DeSuelta
<1>b. TipoHilos /\ MaxPorArchivo \in Nat \ {0} /\ TipoDisco
  BY PorPartes, ConstantesBloques DEF Suelta
<1>e. \A k \in Tipos : archivos[<<tabla[h], k>>].bloques \in Seq(Numeros)
  BY <1>b, NoEsLibre, SuyoFichero DEF TipoDisco, Ficheros
<1> USE Anchos DEF Va, En, disco, semaforos, pedido, toma, locales, TipoHilos, Tipos, Lugares
<1>1. CASE PideBits(h)
  BY <1>1, <1>a, <1>b DEF PideBits
<1>2. CASE Encuentra(h)
  <2>1. pc' \in [Hilos -> Lugares]
    BY <1>2, <1>a, <1>b DEF Encuentra, Libres
  <2>2. /\ op' \in [Hilos -> {"nada", "create", "drop", "dump", "compacta"}]
        /\ tabla' \in [Hilos -> Tablas \cup {Nadie}]
    BY <1>2, <1>a, <1>b DEF Encuentra, Libres
  <2>3. cual' \in [Hilos -> Tipos]
    BY <1>2, <1>a, <1>b DEF Encuentra, Libres
  <2>4. bloque' \in [Hilos -> Numeros]
    BY <1>2, <1>a, <1>b DEF Encuentra, Libres
  <2>5. leido' \in [Hilos -> SUBSET Bits]
    <3>1. PICK b : leido' = [leido EXCEPT ![h] = bitmap \cap Byte(b)]
      BY <1>2 DEF Encuentra
    <3>2. bitmap \cap Byte(b) \subseteq Bits
      BY DEF Byte
    <3> QED
      BY <1>b, <3>1, <3>2
  <2>6. tomados' \in [Hilos -> Seq(Numeros)]
    BY <1>2, <1>a, <1>b DEF Encuentra, Libres
  <2>7. faltan' \in [Hilos -> 0..MaxPorArchivo]
    BY <1>2, <1>a, <1>b DEF Encuentra, Libres
  <2>8. dados' \in [Hilos -> 0..MaxPorArchivo]
    BY <1>2, <1>a, <1>b DEF Encuentra, Libres
  <2>9. lista' \in [Hilos -> Seq(Numeros)]
    BY <1>2, <1>a, <1>b, <1>e DEF Encuentra, Libres
  <2> QED
    BY <2>1, <2>2, <2>3, <2>4, <2>5, <2>6, <2>7, <2>8, <2>9
<1>3. CASE Fantasma(h)
  <2>1. pc' \in [Hilos -> Lugares]
    BY <1>3, <1>a, <1>b DEF Fantasma, Toma
  <2>2. /\ op' \in [Hilos -> {"nada", "create", "drop", "dump", "compacta"}]
        /\ tabla' \in [Hilos -> Tablas \cup {Nadie}]
    BY <1>3, <1>a, <1>b DEF Fantasma, Toma
  <2>3. cual' \in [Hilos -> Tipos]
    BY <1>3, <1>a, <1>b DEF Fantasma, Toma
  <2>4. bloque' \in [Hilos -> Numeros]
    BY <1>3, <1>a, <1>b DEF Fantasma, Toma
  <2>5. leido' \in [Hilos -> SUBSET Bits]
    BY <1>3, <1>a, <1>b DEF Fantasma, Toma
  <2>6. tomados' \in [Hilos -> Seq(Numeros)]
    BY <1>3, <1>a, <1>b DEF Fantasma, Toma
  <2>7. faltan' \in [Hilos -> 0..MaxPorArchivo]
    BY <1>3, <1>a, <1>b DEF Fantasma, Toma
  <2>8. dados' \in [Hilos -> 0..MaxPorArchivo]
    BY <1>3, <1>a, <1>b DEF Fantasma, Toma
  <2>9. lista' \in [Hilos -> Seq(Numeros)]
    BY <1>3, <1>a, <1>b, <1>e DEF Fantasma, Toma
  <2> QED
    BY <2>1, <2>2, <2>3, <2>4, <2>5, <2>6, <2>7, <2>8, <2>9
<1>4. CASE Prende(h)
  <2>1. pc' \in [Hilos -> Lugares]
    BY <1>4, <1>a, <1>b DEF Prende, Toma
  <2>2. /\ op' \in [Hilos -> {"nada", "create", "drop", "dump", "compacta"}]
        /\ tabla' \in [Hilos -> Tablas \cup {Nadie}]
    BY <1>4, <1>a, <1>b DEF Prende, Toma
  <2>3. cual' \in [Hilos -> Tipos]
    BY <1>4, <1>a, <1>b DEF Prende, Toma
  <2>4. bloque' \in [Hilos -> Numeros]
    BY <1>4, <1>a, <1>b DEF Prende, Toma
  <2>5. leido' \in [Hilos -> SUBSET Bits]
    BY <1>4, <1>a, <1>b DEF Prende, Toma
  <2>6. tomados' \in [Hilos -> Seq(Numeros)]
    BY <1>4, <1>a, <1>b DEF Prende, Toma
  <2>7. faltan' \in [Hilos -> 0..MaxPorArchivo]
    BY <1>4, <1>a, <1>b DEF Prende, Toma
  <2>8. dados' \in [Hilos -> 0..MaxPorArchivo]
    BY <1>4, <1>a, <1>b DEF Prende, Toma
  <2>9. lista' \in [Hilos -> Seq(Numeros)]
    BY <1>4, <1>a, <1>b, <1>e DEF Prende, Toma
  <2> QED
    BY <2>1, <2>2, <2>3, <2>4, <2>5, <2>6, <2>7, <2>8, <2>9
<1>5. CASE CreaArchivo(h)
  BY <1>5, <1>a, <1>b DEF CreaArchivo
<1>6. CASE cargarRegistros(h)
  <2>1. pc' \in [Hilos -> Lugares]
    BY <1>6, <1>a, <1>b DEF cargarRegistros, Sigue
  <2>2. /\ op' \in [Hilos -> {"nada", "create", "drop", "dump", "compacta"}]
        /\ tabla' \in [Hilos -> Tablas \cup {Nadie}]
    BY <1>6, <1>a, <1>b DEF cargarRegistros, Sigue
  <2>3. cual' \in [Hilos -> Tipos]
    <3>1. CASE op[h] = "compacta"
      BY <1>6, <1>b, <3>1 DEF cargarRegistros, Sigue
    <3>2. CASE op[h] # "compacta"
      BY <1>6, <1>b, <3>2 DEF cargarRegistros, Sigue
    <3> QED
      BY <3>1, <3>2
  <2>4. bloque' \in [Hilos -> Numeros]
    BY <1>6, <1>a, <1>b DEF cargarRegistros, Sigue
  <2>5. leido' \in [Hilos -> SUBSET Bits]
    BY <1>6, <1>a, <1>b DEF cargarRegistros, Sigue
  <2>6. tomados' \in [Hilos -> Seq(Numeros)]
    BY <1>6, <1>a, <1>b DEF cargarRegistros, Sigue
  <2>7. faltan' \in [Hilos -> 0..MaxPorArchivo]
    BY <1>6, <1>a, <1>b DEF cargarRegistros, Sigue
  <2>8. dados' \in [Hilos -> 0..MaxPorArchivo]
    BY <1>6, <1>a, <1>b DEF cargarRegistros, Sigue
  <2>9. lista' \in [Hilos -> Seq(Numeros)]
    BY <1>6, <1>a, <1>b, <1>e DEF cargarRegistros, Sigue
  <2> QED
    BY <2>1, <2>2, <2>3, <2>4, <2>5, <2>6, <2>7, <2>8, <2>9
<1>7. CASE PideLimpiar(h)
  BY <1>7, <1>a, <1>b DEF PideLimpiar
<1>8. CASE LimpiaBloque(h)
  <2> DEFINE b == lista[h][dados[h] + 1]
  <2>a. b \in Numeros /\ dados[h] < Len(lista[h])
    BY <1>8, <1>a DEF LimpiaBloque, DeLista
  <2>b. /\ bloque' = [bloque EXCEPT ![h] = b] /\ b \in Numeros
        /\ \/ leido' = [leido EXCEPT ![h] = bitmap \cap Byte(b)] /\ UNCHANGED dados
           \/ dados' = [dados EXCEPT ![h] = dados[h] + 1] /\ UNCHANGED leido
    BY <1>8, <2>a DEF LimpiaBloque
  <2> HIDE DEF b
  <2>1. pc' \in [Hilos -> Lugares]
    BY <1>8, <1>a, <1>b DEF LimpiaBloque
  <2>2. /\ op' \in [Hilos -> {"nada", "create", "drop", "dump", "compacta"}]
        /\ tabla' \in [Hilos -> Tablas \cup {Nadie}]
    BY <1>8, <1>a, <1>b DEF LimpiaBloque
  <2>3. cual' \in [Hilos -> Tipos]
    BY <1>8, <1>a, <1>b DEF LimpiaBloque
  <2>4. bloque' \in [Hilos -> Numeros]
    BY <1>b, <2>b
  <2>5. leido' \in [Hilos -> SUBSET Bits]
    <3>1. bitmap \cap Byte(b) \subseteq Bits
      BY DEF Byte
    <3> QED
      BY <1>b, <2>b, <3>1
  <2>6. tomados' \in [Hilos -> Seq(Numeros)]
    BY <1>8, <1>a, <1>b DEF LimpiaBloque
  <2>7. faltan' \in [Hilos -> 0..MaxPorArchivo]
    BY <1>8, <1>a, <1>b DEF LimpiaBloque
  <2>8. dados' \in [Hilos -> 0..MaxPorArchivo]
    <3>1. dados[h] + 1 \in 0..MaxPorArchivo
      BY <1>a, <1>b, <2>a DEF DeLista
    <3> QED
      BY <1>b, <2>b, <3>1
  <2>9. lista' \in [Hilos -> Seq(Numeros)]
    BY <1>8, <1>a, <1>b, <1>e DEF LimpiaBloque
  <2> QED
    BY <2>1, <2>2, <2>3, <2>4, <2>5, <2>6, <2>7, <2>8, <2>9
<1>9. CASE Apaga(h)
  <2>1. pc' \in [Hilos -> Lugares]
    BY <1>9, <1>a, <1>b DEF Apaga
  <2>2. /\ op' \in [Hilos -> {"nada", "create", "drop", "dump", "compacta"}]
        /\ tabla' \in [Hilos -> Tablas \cup {Nadie}]
    BY <1>9, <1>a, <1>b DEF Apaga
  <2>3. cual' \in [Hilos -> Tipos]
    BY <1>9, <1>a, <1>b DEF Apaga
  <2>4. bloque' \in [Hilos -> Numeros]
    BY <1>9, <1>a, <1>b DEF Apaga
  <2>5. leido' \in [Hilos -> SUBSET Bits]
    BY <1>9, <1>a, <1>b DEF Apaga
  <2>6. tomados' \in [Hilos -> Seq(Numeros)]
    BY <1>9, <1>a, <1>b DEF Apaga
  <2>7. faltan' \in [Hilos -> 0..MaxPorArchivo]
    BY <1>9, <1>a, <1>b DEF Apaga
  <2>8. dados' \in [Hilos -> 0..MaxPorArchivo]
    <3>1. dados[h] < Len(lista[h])
      BY <1>9, <1>a DEF Apaga, DeLista
    <3> QED
      BY <1>9, <1>a, <1>b, <3>1 DEF Apaga, DeLista
  <2>9. lista' \in [Hilos -> Seq(Numeros)]
    BY <1>9, <1>a, <1>b, <1>e DEF Apaga
  <2> QED
    BY <2>1, <2>2, <2>3, <2>4, <2>5, <2>6, <2>7, <2>8, <2>9
<1>10. CASE BorraBloque(h)
  BY <1>10, <1>a, <1>b DEF BorraBloque
<1>11. CASE QuitaArchivo(h)
  <2>1. pc' \in [Hilos -> Lugares]
    BY <1>11, <1>a, <1>b DEF QuitaArchivo, Sigue
  <2>2. /\ op' \in [Hilos -> {"nada", "create", "drop", "dump", "compacta"}]
        /\ tabla' \in [Hilos -> Tablas \cup {Nadie}]
    BY <1>11, <1>a, <1>b DEF QuitaArchivo, Sigue
  <2>3. cual' \in [Hilos -> Tipos]
    <3>1. cual' = cual \/ cual' = [cual EXCEPT ![h] = "tmp"]
      BY <1>11 DEF QuitaArchivo, Sigue
    <3> QED
      BY <1>b, <3>1
  <2>4. bloque' \in [Hilos -> Numeros]
    BY <1>11, <1>a, <1>b DEF QuitaArchivo, Sigue
  <2>5. leido' \in [Hilos -> SUBSET Bits]
    BY <1>11, <1>a, <1>b DEF QuitaArchivo, Sigue
  <2>6. tomados' \in [Hilos -> Seq(Numeros)]
    BY <1>11, <1>a, <1>b DEF QuitaArchivo, Sigue
  <2>7. faltan' \in [Hilos -> 0..MaxPorArchivo]
    <3>1. CASE faltan' = faltan
      BY <1>b, <3>1
    <3>2. CASE faltan' # faltan
      <4>1. PICK n \in 1..MaxPorArchivo : faltan' = [faltan EXCEPT ![h] = n]
        BY <1>11, <3>2 DEF QuitaArchivo, Sigue
      <4>2. n \in 0..MaxPorArchivo
        BY <1>b
      <4> QED
        BY <1>b, <4>1, <4>2
    <3> QED
      BY <3>1, <3>2
  <2>8. dados' \in [Hilos -> 0..MaxPorArchivo]
    BY <1>11, <1>a, <1>b DEF QuitaArchivo, Sigue
  <2>9. lista' \in [Hilos -> Seq(Numeros)]
    BY <1>11, <1>a, <1>b, <1>e DEF QuitaArchivo, Sigue
  <2> QED
    BY <2>1, <2>2, <2>3, <2>4, <2>5, <2>6, <2>7, <2>8, <2>9
<1>12. CASE Termina(h)
  BY <1>12, <1>a, <1>b DEF Termina
<1> QED
  BY <1>1, <1>2, <1>3, <1>4, <1>5, <1>6, <1>7, <1>8, <1>9, <1>10, <1>11, <1>12 DEF Trabaja

LEMMA TipoDiscoPaso ==
  ASSUME Suelta, NEW h \in Hilos, Trabaja(h), UNCHANGED pedidos
  PROVE  TipoDisco'
<1>a. /\ Oficio(h) /\ Cuentas(h) /\ DeLista(h)
      /\ pc[h] \in Lugares /\ op[h] \in {"nada", "create", "drop", "dump", "compacta"}
      /\ tabla[h] \in Tablas \cup {Nadie} /\ cual[h] \in Tipos
      /\ bloque[h] \in Numeros /\ tomados[h] \in Seq(Numeros)
      /\ faltan[h] \in 0..MaxPorArchivo /\ dados[h] \in 0..MaxPorArchivo
      /\ leido[h] \subseteq Bits /\ lista[h] \in Seq(Numeros)
  BY DeSuelta
<1>b. TipoDisco
  BY PorPartes DEF Suelta
<1>c. Suyo(h) \in Ficheros /\ tabla[h] \in Tablas
  BY NoEsLibre, SuyoFichero
<1> USE DEF Va, En, disco, semaforos, pedido, toma, locales, TipoDisco, Tipos, Lugares
<1>1. CASE PideBits(h)
  BY <1>1, <1>a, <1>b, <1>c DEF PideBits
<1>2. CASE Encuentra(h)
  <2>1. PICK b \in Libres(h) :
          archivos' = IF op[h] = "create"
                        THEN [archivos EXCEPT ![Suyo(h)] = [bloques |-> <<b>>, escrito |-> FALSE]]
                        ELSE archivos
    BY <1>2 DEF Encuentra
  <2>2. b \in Numeros /\ <<b>> \in Seq(Numeros)
    BY Anchos DEF Libres
  <2>3. [bloques |-> <<b>>, escrito |-> FALSE] \in [bloques : Seq(Numeros), escrito : BOOLEAN]
    BY <2>2
  <2> QED
    BY <1>2, <1>b, <1>c, <2>1, <2>3 DEF Encuentra
<1>3. CASE Fantasma(h)
  BY <1>3, <1>a, <1>b, <1>c DEF Fantasma, Toma
<1>4. CASE Prende(h)
  <2>1. bloque[h] \in Bits
    BY <1>4, <1>a DEF Prende, Cuentas
  <2>2. bitmap' \subseteq Bits
    BY <1>4, <1>a, <1>b, <2>1 DEF Prende
  <2>3. contenido' \in [Numeros -> SUBSET (Tablas \X {"bin", "tmp"})]
    BY <1>4, <1>b DEF Prende
  <2> QED
    BY <1>4, <1>b, <2>2, <2>3 DEF Prende
<1>5. CASE CreaArchivo(h)
  BY <1>5, <1>a, <1>b, <1>c DEF CreaArchivo
<1>6. CASE cargarRegistros(h)
  <2>1. Marca(tabla[h], cual[h]) \in Tablas \X {"bin", "tmp"}
    BY <1>c DEF Marca
  <2>2. contenido' \in [Numeros -> SUBSET (Tablas \X {"bin", "tmp"})]
    BY <1>6, <1>b, <2>1 DEF cargarRegistros, Sigue
  <2>3. archivos' \in [Ficheros -> [bloques : Seq(Numeros), escrito : BOOLEAN]]
    <3>1. Hay(tabla[h], cual[h]) \in BOOLEAN
      BY DEF Hay
    <3>2. archivos' = [archivos EXCEPT ![Suyo(h)].escrito = Hay(tabla[h], cual[h])]
      BY <1>6 DEF cargarRegistros
    <3> QED
      BY <1>b, <1>c, <3>1, <3>2
  <2> QED
    BY <1>6, <1>b, <2>2, <2>3 DEF cargarRegistros, Sigue
<1>7. CASE PideLimpiar(h)
  BY <1>7, <1>a, <1>b, <1>c DEF PideLimpiar
<1>8. CASE LimpiaBloque(h)
  BY <1>8, <1>a, <1>b, <1>c DEF LimpiaBloque
<1>9. CASE Apaga(h)
  BY <1>9, <1>a, <1>b, <1>c DEF Apaga
<1>10. CASE BorraBloque(h)
  BY <1>10, <1>a, <1>b, <1>c DEF BorraBloque
<1>11. CASE QuitaArchivo(h)
  <2>1. NoHay \in [bloques : Seq(Numeros), escrito : BOOLEAN]
    BY DEF NoHay
  <2> QED
    BY <1>11, <1>b, <1>c, <2>1 DEF QuitaArchivo, Sigue
<1>12. CASE Termina(h)
  BY <1>12, <1>a, <1>b, <1>c DEF Termina
<1> QED
  BY <1>1, <1>2, <1>3, <1>4, <1>5, <1>6, <1>7, <1>8, <1>9, <1>10, <1>11, <1>12 DEF Trabaja

-----------------------------------------------------------------------------
(* The semaphores, and who shares a table.                                  *)

LEMMA DentroPaso ==
  ASSUME Suelta, NEW h \in Hilos, Trabaja(h)
  PROVE  \/ (Dentro(h)' <=> Dentro(h)) /\ UNCHANGED SemaforobitArray
         \/ SemaforobitArray = 1 /\ SemaforobitArray' = 0 /\ Dentro(h)'
         \/ Dentro(h) /\ ~Dentro(h)' /\ SemaforobitArray' = 1
<1>1. Oficio(h) /\ TypeOK
  BY DeSuelta
<1> USE DEF Va, En, disco, semaforos, pedido, toma, locales, TypeOK, Dentro, Dando
<1>2. CASE PideBits(h) \/ Encuentra(h)
  BY <1>1, <1>2 DEF PideBits, Encuentra
<1>3. CASE Fantasma(h) \/ Prende(h)
  BY <1>1, <1>3 DEF Fantasma, Prende, Toma
<1>4. CASE CreaArchivo(h)
  BY <1>1, <1>4 DEF CreaArchivo
<1>5. CASE cargarRegistros(h)
  BY <1>1, <1>5 DEF cargarRegistros, Sigue
<1>6. CASE PideLimpiar(h)
  BY <1>1, <1>6 DEF PideLimpiar, Oficio, Tomando
<1>7. CASE LimpiaBloque(h) \/ Apaga(h)
  BY <1>1, <1>7 DEF LimpiaBloque, Apaga
<1>8. CASE BorraBloque(h)
  BY <1>1, <1>8 DEF BorraBloque
<1>9. CASE QuitaArchivo(h)
  BY <1>1, <1>9 DEF QuitaArchivo, Sigue
<1>10. CASE Termina(h)
  BY <1>1, <1>10 DEF Termina
<1> QED
  BY <1>2, <1>3, <1>4, <1>5, <1>6, <1>7, <1>8, <1>9, <1>10 DEF Trabaja

LEMMA SemaforosPaso ==
  ASSUME Suelta, NEW h \in Hilos, Trabaja(h)
  PROVE  SemaforosConDueno'
<1>1. SemaforosConDueno /\ TypeOK
  BY DEF Suelta
<1>2. \A g \in Hilos \ {h} : (Dentro(g)' <=> Dentro(g)) /\ (ConMemtable(g)' <=> ConMemtable(g))
  BY <1>1, LocalesAjenos DEF Dentro, ConMemtable, Parado
<1>3. \/ (Dentro(h)' <=> Dentro(h)) /\ UNCHANGED SemaforobitArray
      \/ SemaforobitArray = 1 /\ SemaforobitArray' = 0 /\ Dentro(h)'
      \/ Dentro(h) /\ ~Dentro(h)' /\ SemaforobitArray' = 1
  BY DentroPaso
<1>4. \/ UNCHANGED SemaforoMemtable /\ (ConMemtable(h)' <=> ConMemtable(h))
      \/ ConMemtable(h) /\ ~ConMemtable(h)' /\ SemaforoMemtable' = 1
  <2>1. CASE Termina(h)
    BY <1>1, <2>1 DEF Termina, TypeOK, ConMemtable
  <2>2. CASE UNCHANGED <<op, SemaforoMemtable>>
    BY <2>2 DEF ConMemtable
  <2> QED
    BY <2>1, <2>2 DEF Trabaja, PideBits, Encuentra, Fantasma, Prende, CreaArchivo, cargarRegistros,
      PideLimpiar, LimpiaBloque, Apaga, BorraBloque, QuitaArchivo,
      disco, semaforos, pedido, toma, locales, Sigue
<1>5. SemaforobitArray \in 0..1 /\ SemaforoMemtable \in 0..1
  BY <1>1 DEF TypeOK
<1>6. /\ SemaforobitArray' = 0 <=> \E g \in Hilos : Dentro(g)'
      /\ \A g, k \in Hilos : Dentro(g)' /\ Dentro(k)' => g = k
  <2>1. CASE (Dentro(h)' <=> Dentro(h)) /\ UNCHANGED SemaforobitArray
    BY <1>1, <1>2, <2>1 DEF SemaforosConDueno
  <2>2. CASE SemaforobitArray = 1 /\ SemaforobitArray' = 0 /\ Dentro(h)'
    BY <1>1, <1>2, <2>2 DEF SemaforosConDueno
  <2>3. CASE Dentro(h) /\ ~Dentro(h)' /\ SemaforobitArray' = 1
    BY <1>1, <1>2, <2>3 DEF SemaforosConDueno
  <2> QED
    BY <1>3, <2>1, <2>2, <2>3
<1>7. /\ SemaforoMemtable' = 0 <=> \E g \in Hilos : ConMemtable(g)'
      /\ \A g, k \in Hilos : ConMemtable(g)' /\ ConMemtable(k)' => g = k
  <2>1. CASE UNCHANGED SemaforoMemtable /\ (ConMemtable(h)' <=> ConMemtable(h))
    BY <1>1, <1>2, <2>1 DEF SemaforosConDueno
  <2>2. CASE ConMemtable(h) /\ ~ConMemtable(h)' /\ SemaforoMemtable' = 1
    BY <1>1, <1>2, <2>2 DEF SemaforosConDueno
  <2> QED
    BY <1>4, <2>1, <2>2
<1> QED
  BY <1>6, <1>7 DEF SemaforosConDueno

LEMMA CompartenPaso ==
  ASSUME Base, NEW h \in Hilos, Trabaja(h), NEW g \in Hilos, NEW k \in Hilos
  PROVE  Comparten(g, k)'
<1>1. Comparten(g, k) /\ TypeOK
  BY BaseSuelta DEF Base
<1>2. CASE Termina(h)
  <2>1. tabla'[h] = Nadie
    BY <1>1, <1>2 DEF Termina, TypeOK
  <2>2. \A x \in Hilos : x # h => op'[x] = op[x] /\ tabla'[x] = tabla[x]
    BY <1>1, LocalesAjenos DEF Parado
  <2> QED
    BY <1>1, <2>1, <2>2 DEF Comparten
<1>3. CASE UNCHANGED <<op, tabla>>
  BY <1>1, <1>3 DEF Comparten
<1> QED
  BY <1>2, <1>3 DEF Trabaja, PideBits, Encuentra, Fantasma, Prende, Toma, CreaArchivo, cargarRegistros,
    PideLimpiar, LimpiaBloque, Apaga, BorraBloque, QuitaArchivo, Va, disco, semaforos, pedido, toma, locales, Sigue

LEMMA SueltaTrabaja ==
  ASSUME Suelta, NEW h \in Hilos, Trabaja(h), UNCHANGED pedidos
  PROVE  Suelta'
<1>1. TypeOK'
  <2>1. TipoDisco' /\ TipoComun' /\ TipoHilos'
    BY TipoDiscoPaso, TipoComunPaso, TipoHilosPaso
  <2> QED
    BY <2>1 DEF TypeOK, TipoDisco, TipoComun, TipoHilos, Ficheros
<1>2. SemaforosConDueno'
  BY SemaforosPaso
<1>3. ASSUME NEW g \in Hilos PROVE Oficio(g)' /\ Cuentas(g)' /\ DeLista(g)'
  <2>1. CASE g = h
    BY <2>1, OficioPropio, CuentasPropias, DeListaPropia
  <2>2. CASE g # h
    <3>1. Parado(g)
      BY <2>2, LocalesAjenos DEF Suelta
    <3> QED
      BY <3>1, ParadoSigue
  <2> QED
    BY <2>1, <2>2
<1>4. \A f \in Ficheros : ConBloques(f)'
  BY ConBloquesPaso
<1>5. \A g \in Hilos : Oficio(g)' /\ Cuentas(g)' /\ DeLista(g)'
  BY <1>3
<1> QED
  BY <1>1, <1>2, <1>4, <1>5 DEF Suelta

LEMMA BaseTrabaja ==
  ASSUME Base, NEW h \in Hilos, Trabaja(h), UNCHANGED pedidos
  PROVE  Base'
<1>1. Suelta'
  BY SueltaTrabaja DEF Base
<1>2. ASSUME NEW g \in Hilos PROVE DeSuArchivo(g)'
  <2>1. CASE g = h
    BY <2>1, DeSuArchivoPropio
  <2>2. CASE g # h
    BY <2>2, AjenoPaso, AjenoSigue
  <2> QED
    BY <2>1, <2>2
<1>3. \A g, k \in Hilos : Comparten(g, k)'
  BY CompartenPaso
<1> QED
  BY <1>1, <1>2, <1>3 DEF Base

-----------------------------------------------------------------------------
(* The start of an operation.                                               *)

LEMMA EmpiezaPropio ==
  ASSUME Suelta, NEW h \in Hilos, NEW o, NEW t, NEW k, NEW n, NEW s, NEW lugar, Empieza(h, o, t, k, n, s, lugar)
  PROVE  /\ pc[h] = "libre" /\ tabla[h] = Nadie
         /\ pc'[h] = lugar /\ op'[h] = o /\ tabla'[h] = t /\ cual'[h] = k /\ faltan'[h] = n
         /\ tomados'[h] = <<>> /\ dados'[h] = 0 /\ Suyo(h)' = <<t, k>> /\ lista'[h] = s
         /\ bloque'[h] = bloque[h] /\ leido'[h] = leido[h]
<1>1. Oficio(h) /\ Cuentas(h) /\ TypeOK
  BY DeSuelta
<1>2. pc[h] = "libre" /\ tabla[h] = Nadie /\ tomados[h] = <<>> /\ dados[h] = 0
  BY <1>1 DEF Empieza, En, Oficio, Cuentas, Dando
<1>3. /\ pc'[h] = lugar /\ op'[h] = o /\ tabla'[h] = t /\ cual'[h] = k /\ faltan'[h] = n
      /\ lista'[h] = s
  BY <1>1 DEF Empieza, Va, TypeOK
<1> QED
  BY <1>2, <1>3 DEF Empieza, Suyo

LEMMA EmpiezaAjenos ==
  ASSUME TypeOK, NEW h \in Hilos, NEW o, NEW t, NEW k, NEW n, NEW s, NEW lugar, Empieza(h, o, t, k, n, s, lugar),
         NEW g \in Hilos, g # h
  PROVE  Parado(g)
  BY DEF Empieza, Va, TypeOK, Parado

LEMMA EmpiezaTipos ==
  ASSUME TypeOK, NEW h \in Hilos, NEW o \in {"create", "drop", "dump", "compacta"}, NEW t \in Tablas,
         NEW k \in Tipos, NEW n \in 0..MaxPorArchivo, NEW s \in Seq(Numeros), NEW lugar \in Lugares, Empieza(h, o, t, k, n, s, lugar)
  PROVE  TipoHilos' /\ pedidos' \in 0..MaxPedidos /\ SemaforobitArray' \in 0..1
<1>1. TipoHilos /\ pedidos \in 0..MaxPedidos /\ SemaforobitArray \in 0..1 /\ MaxPedidos \in Nat
  BY ConstantesBloques DEF TypeOK, TipoHilos
<1>2. pc' \in [Hilos -> Lugares] /\ cual' \in [Hilos -> Tipos]
  BY <1>1 DEF Empieza, Va, TipoHilos
<1>3. op' \in [Hilos -> {"nada", "create", "drop", "dump", "compacta"}]
  BY <1>1 DEF Empieza, TipoHilos
<1>4. /\ tabla' \in [Hilos -> Tablas \cup {Nadie}] /\ faltan' \in [Hilos -> 0..MaxPorArchivo]
      /\ lista' \in [Hilos -> Seq(Numeros)]
  BY <1>1 DEF Empieza, TipoHilos
<1>5. UNCHANGED <<bloque, leido, tomados, dados, SemaforobitArray>>
  BY DEF Empieza
<1>6. pedidos' \in 0..MaxPedidos
  BY <1>1 DEF Empieza
<1> QED
  BY <1>1, <1>2, <1>3, <1>4, <1>5, <1>6 DEF TipoHilos

LEMMA EmpiezaSemaforos ==
  ASSUME Suelta, NEW h \in Hilos, NEW o, NEW t, NEW k, NEW n, NEW s, NEW lugar \in {"pide", "pideLimpiar"},
         Empieza(h, o, t, k, n, s, lugar),
         \/ UNCHANGED SemaforoMemtable /\ o \notin {"drop", "dump"}
         \/ SemaforoMemtable = 1 /\ SemaforoMemtable' = 0 /\ o \in {"drop", "dump"}
  PROVE  SemaforosConDueno'
<1>1. SemaforosConDueno /\ TypeOK
  BY DEF Suelta
<1>2. \A g \in Hilos \ {h} : (Dentro(g)' <=> Dentro(g)) /\ (ConMemtable(g)' <=> ConMemtable(g))
  BY <1>1, EmpiezaAjenos DEF Dentro, ConMemtable, Parado
<1>3. ~Dentro(h)' /\ (ConMemtable(h)' <=> o \in {"drop", "dump"})
  BY EmpiezaPropio DEF Dentro, ConMemtable
<1>4. ~Dentro(h) /\ ~ConMemtable(h)
  BY DeSuelta DEF Empieza, En, Oficio, Dentro, ConMemtable
<1>5. UNCHANGED SemaforobitArray
  BY DEF Empieza
<1>6. /\ SemaforobitArray' = 0 <=> \E g \in Hilos : Dentro(g)'
      /\ \A g, j \in Hilos : Dentro(g)' /\ Dentro(j)' => g = j
  BY <1>1, <1>2, <1>3, <1>4, <1>5 DEF SemaforosConDueno
<1>7. /\ SemaforoMemtable' = 0 <=> \E g \in Hilos : ConMemtable(g)'
      /\ \A g, j \in Hilos : ConMemtable(g)' /\ ConMemtable(j)' => g = j
  <2>1. CASE UNCHANGED SemaforoMemtable /\ o \notin {"drop", "dump"}
    BY <1>1, <1>2, <1>3, <1>4, <2>1 DEF SemaforosConDueno
  <2>2. CASE SemaforoMemtable = 1 /\ SemaforoMemtable' = 0 /\ o \in {"drop", "dump"}
    BY <1>1, <1>2, <1>3, <1>4, <2>2 DEF SemaforosConDueno
  <2> QED
    BY <2>1, <2>2
<1> QED
  BY <1>6, <1>7 DEF SemaforosConDueno

LEMMA EmpiezaComparten ==
  ASSUME Base, NEW h \in Hilos, NEW o, NEW t, NEW k, NEW n, NEW s, NEW lugar, Empieza(h, o, t, k, n, s, lugar),
         \A x \in Hilos : x # h /\ tabla[x] = t => "dump" \in {op[x], o} /\ "drop" \notin {op[x], o},
         NEW g \in Hilos, NEW j \in Hilos
  PROVE  Comparten(g, j)'
<1>1. Comparten(g, j) /\ TypeOK
  BY BaseSuelta DEF Base
<1>2. op'[h] = o /\ tabla'[h] = t
  BY EmpiezaPropio, BaseSuelta
<1>3. \A x \in Hilos : x # h => op'[x] = op[x] /\ tabla'[x] = tabla[x]
  BY <1>1, EmpiezaAjenos DEF Parado
<1>4. CASE g = h
  BY <1>1, <1>2, <1>3, <1>4 DEF Comparten
<1>5. CASE j = h
  BY <1>1, <1>2, <1>3, <1>5 DEF Comparten
<1>6. CASE g # h /\ j # h
  BY <1>1, <1>2, <1>3, <1>6 DEF Comparten
<1> QED
  BY <1>4, <1>5, <1>6

LEMMA SueltaEmpieza ==
  ASSUME Suelta, NEW h \in Hilos, NEW o \in {"create", "drop", "dump", "compacta"}, NEW t \in Tablas,
         NEW k \in Tipos, NEW n \in 0..MaxPorArchivo, NEW s \in Seq(Numeros),
         NEW lugar \in {"pide", "pideLimpiar"}, Empieza(h, o, t, k, n, s, lugar),
         archivos' \in [Ficheros -> [bloques : Seq(Numeros), escrito : BOOLEAN]],
         carpetas' \subseteq Tablas,
         riesgo' \subseteq riesgo \cup Solapes \cup {"resto"},
         \A f \in Ficheros : ConBloques(f)',
         \/ UNCHANGED SemaforoMemtable /\ o \notin {"drop", "dump"}
         \/ SemaforoMemtable = 1 /\ SemaforoMemtable' = 0 /\ o \in {"drop", "dump"},
         Oficio(h)', Cuentas(h)', Len(s) <= MaxPorArchivo
  PROVE  Suelta'
<1>1. TypeOK'
  <2>1. TypeOK /\ lugar \in Lugares
    BY DEF Suelta, Lugares
  <2>2. TipoHilos' /\ pedidos' \in 0..MaxPedidos /\ SemaforobitArray' \in 0..1
    BY <2>1, EmpiezaTipos
  <2>3. TipoDisco'
    BY <2>1 DEF Empieza, TypeOK, TipoDisco, Ficheros
  <2>4. SemaforoMemtable' \in 0..1
    BY <2>1 DEF TypeOK
  <2>5. riesgo' \subseteq {"lleno", "byte", "borra", "resto", "pierde", "repite", "solapa", "a_medias"}
    BY <2>1 DEF TypeOK, Solapes
  <2> QED
    BY <2>1, <2>2, <2>3, <2>4, <2>5 DEF TypeOK, TipoHilos, TipoDisco, Ficheros
<1>2. SemaforosConDueno'
  BY EmpiezaSemaforos
<1>3. ASSUME NEW g \in Hilos PROVE Oficio(g)' /\ Cuentas(g)' /\ DeLista(g)'
  <2>1. CASE g = h
    <3>1. pc'[h] = lugar /\ lista'[h] = s
      BY EmpiezaPropio
    <3>2. DeLista(h)'
      BY <3>1 DEF DeLista
    <3> QED
      BY <2>1, <3>2
  <2>2. CASE g # h
    <3>1. TypeOK
      BY DEF Suelta
    <3>2. Parado(g)
      BY <2>2, <3>1, EmpiezaAjenos
    <3> QED
      BY <3>2, ParadoSigue
  <2> QED
    BY <2>1, <2>2
<1>4. \A g \in Hilos : Oficio(g)' /\ Cuentas(g)' /\ DeLista(g)'
  BY <1>3
<1> QED
  BY <1>1, <1>2, <1>4 DEF Suelta

LEMMA SueltaCREATE ==
  ASSUME Suelta, NEW c \in Clientes, NEW t \in Tablas, CREATE(c, t)
  PROVE  Suelta' /\ Empieza(c, "create", t, "bin", 1, <<>>, "pide") /\ c \in Hilos
<1>1. c \in Hilos /\ MaxPorArchivo \in Nat \ {0} /\ carpetas \subseteq Tablas
      /\ archivos \in [Ficheros -> [bloques : Seq(Numeros), escrito : BOOLEAN]]
  BY ConstantesBloques DEF Hilos, Suelta, TypeOK, Ficheros
<1>2. Empieza(c, "create", t, "bin", 1, <<>>, "pide") /\ carpetas' = carpetas \cup {t}
      /\ UNCHANGED <<archivos, SemaforoMemtable, riesgo>>
  BY DEF CREATE
<1>3. /\ pc'[c] = "pide" /\ op'[c] = "create" /\ tabla'[c] = t /\ cual'[c] = "bin" /\ faltan'[c] = 1
      /\ tomados'[c] = <<>> /\ dados'[c] = 0
  BY <1>1, <1>2, EmpiezaPropio
<1>4. Oficio(c)'
  BY <1>3 DEF Oficio, Tomando, Dando
<1>5. Cuentas(c)'
  BY <1>3 DEF Cuentas, Tomando, Dando
<1>6. \A f \in Ficheros : ConBloques(f)'
  BY <1>2 DEF Suelta, ConBloques
<1>7. 1 \in 0..MaxPorArchivo /\ "bin" \in Tipos /\ <<>> \in Seq(Numeros) /\ Len(<<>>) <= MaxPorArchivo
  BY <1>1 DEF Tipos
<1> QED
  BY <1>1, <1>2, <1>4, <1>5, <1>6, <1>7, SueltaEmpieza

LEMMA SueltaDROP ==
  ASSUME Suelta, NEW c \in Clientes, NEW t \in Tablas, DROP(c, t)
  PROVE  /\ Suelta' /\ c \in Hilos
         /\ Empieza(c, "drop", t, "bin", 0, archivos[<<t, "bin">>].bloques, "pideLimpiar")
<1>1. c \in Hilos /\ MaxPorArchivo \in Nat \ {0} /\ carpetas \subseteq Tablas
  BY ConstantesBloques DEF Hilos, Suelta, TypeOK
<1>2. PICK s : s = archivos[<<t, "bin">>].bloques
  OBVIOUS
<1>3. /\ Empieza(c, "drop", t, "bin", 0, s, "pideLimpiar") /\ t \in carpetas
      /\ SemaforoMemtable = 1 /\ SemaforoMemtable' = 0 /\ UNCHANGED <<archivos, carpetas>>
      /\ riesgo' = riesgo \cup Encima(t)
  BY <1>2 DEF DROP
<1>4. <<t, "bin">> \in Ficheros /\ "bin" \in Tipos /\ 0 \in 0..MaxPorArchivo
  BY <1>1 DEF Ficheros, Tipos
<1>5. /\ archivos \in [Ficheros -> [bloques : Seq(Numeros), escrito : BOOLEAN]]
      /\ s \in Seq(Numeros) /\ Len(s) <= MaxPorArchivo
  BY <1>2, <1>4, DeArchivo
<1>6. /\ pc'[c] = "pideLimpiar" /\ op'[c] = "drop" /\ tabla'[c] = t /\ cual'[c] = "bin"
      /\ tomados'[c] = <<>> /\ dados'[c] = 0
  BY <1>1, <1>3, EmpiezaPropio
<1>7. Oficio(c)' /\ Cuentas(c)'
  BY <1>6 DEF Oficio, Cuentas, Tomando, Dando
<1>8. \A f \in Ficheros : ConBloques(f)'
  BY <1>3 DEF Suelta, ConBloques
<1>9. riesgo' \subseteq riesgo \cup Solapes \cup {"resto"}
  BY <1>3 DEF Encima, Solapes
<1>10. Suelta'
  BY <1>1, <1>3, <1>4, <1>5, <1>7, <1>8, <1>9, SueltaEmpieza
<1> QED
  BY <1>1, <1>2, <1>3, <1>10

LEMMA SueltaDump ==
  ASSUME Suelta, NEW t \in Tablas, dump(t)
  PROVE  /\ Suelta' /\ Volcador \in Hilos
         /\ \E n \in 1..MaxPorArchivo : Empieza(Volcador, "dump", t, "tmp", n, <<>>, "pide")
<1>1. Volcador \in Hilos /\ MaxPorArchivo \in Nat \ {0} /\ carpetas \subseteq Tablas
      /\ archivos \in [Ficheros -> [bloques : Seq(Numeros), escrito : BOOLEAN]]
  BY ConstantesBloques DEF Hilos, Suelta, TypeOK, Ficheros
<1>2. PICK n \in 1..MaxPorArchivo : Empieza(Volcador, "dump", t, "tmp", n, <<>>, "pide")
  BY DEF dump
<1>3. /\ t \in carpetas /\ SemaforoMemtable = 1 /\ SemaforoMemtable' = 0
      /\ UNCHANGED <<archivos, carpetas, riesgo>>
  BY DEF dump
<1>4. /\ pc'[Volcador] = "pide" /\ op'[Volcador] = "dump" /\ tabla'[Volcador] = t /\ cual'[Volcador] = "tmp"
      /\ tomados'[Volcador] = <<>> /\ dados'[Volcador] = 0 /\ faltan'[Volcador] = n
  BY <1>1, <1>2, EmpiezaPropio
<1>5. Oficio(Volcador)'
  BY <1>4 DEF Oficio, Tomando, Dando
<1>6. Cuentas(Volcador)'
  BY <1>1, <1>4 DEF Cuentas, Tomando, Dando
<1>7. \A f \in Ficheros : ConBloques(f)'
  BY <1>3 DEF Suelta, ConBloques
<1>8. n \in 0..MaxPorArchivo /\ "tmp" \in Tipos /\ <<>> \in Seq(Numeros) /\ Len(<<>>) <= MaxPorArchivo
  BY <1>1 DEF Tipos
<1>9. Suelta'
  BY <1>1, <1>2, <1>3, <1>5, <1>6, <1>7, <1>8, SueltaEmpieza
<1> QED
  BY <1>1, <1>2, <1>9

\* The compaction renames the temporal.
LEMMA Renombra ==
  ASSUME Suelta, NEW t \in Tablas, compactar(t)
  PROVE  /\ Hay(t, "tmp")
         /\ <<t, "tmp">> \in Ficheros /\ <<t, "tmpc">> \in Ficheros
         /\ archivos'[<<t, "tmpc">>] = archivos[<<t, "tmp">>]
         /\ archivos'[<<t, "tmp">>] = NoHay
         /\ \A f \in Ficheros : f \notin {<<t, "tmp">>, <<t, "tmpc">>} => archivos'[f] = archivos[f]
         /\ archivos' \in [Ficheros -> [bloques : Seq(Numeros), escrito : BOOLEAN]]
<1>1. <<t, "tmp">> \in Ficheros /\ <<t, "tmpc">> \in Ficheros
  BY DEF Ficheros, Tipos
<1>2. archivos \in [Ficheros -> [bloques : Seq(Numeros), escrito : BOOLEAN]]
  BY DEF Suelta, TypeOK, Ficheros
<1>3. Hay(t, "tmp")
  BY DEF compactar
<1>4. archivos' = [archivos EXCEPT ![<<t, "tmpc">>] = archivos[<<t, "tmp">>], ![<<t, "tmp">>] = NoHay]
  BY DEF compactar
<1>5. NoHay \in [bloques : Seq(Numeros), escrito : BOOLEAN]
  BY DEF NoHay
<1>6. archivos'[<<t, "tmpc">>] = archivos[<<t, "tmp">>] /\ archivos'[<<t, "tmp">>] = NoHay
  BY <1>1, <1>2, <1>4
<1>7. \A f \in Ficheros : f \notin {<<t, "tmp">>, <<t, "tmpc">>} => archivos'[f] = archivos[f]
  BY <1>1, <1>2, <1>4
<1>8. archivos' \in [Ficheros -> [bloques : Seq(Numeros), escrito : BOOLEAN]]
  BY <1>1, <1>2, <1>4, <1>5
<1> QED
  BY <1>1, <1>3, <1>6, <1>7, <1>8

LEMMA SueltaCompactar ==
  ASSUME Suelta, NEW t \in Tablas, compactar(t)
  PROVE  /\ Suelta' /\ t \in Hilos
         /\ Empieza(t, "compacta", t, "bin", 0, archivos[<<t, "bin">>].bloques, "pideLimpiar")
<1>1. t \in Hilos /\ MaxPorArchivo \in Nat \ {0} /\ carpetas \subseteq Tablas
  BY ConstantesBloques DEF Hilos, Suelta, TypeOK
<1>2. PICK s : s = archivos[<<t, "bin">>].bloques
  OBVIOUS
<1>3. /\ Empieza(t, "compacta", t, "bin", 0, s, "pideLimpiar")
      /\ UNCHANGED <<carpetas, SemaforoMemtable>>
      /\ riesgo' = riesgo \cup Encima(t) \cup (IF Hay(t, "tmpc") THEN {"resto"} ELSE {})
  BY <1>2 DEF compactar
<1>4. <<t, "bin">> \in Ficheros /\ "bin" \in Tipos /\ 0 \in 0..MaxPorArchivo
  BY <1>1 DEF Ficheros, Tipos
<1>5. s \in Seq(Numeros) /\ Len(s) <= MaxPorArchivo
  BY <1>2, <1>4, DeArchivo
<1>6. /\ pc'[t] = "pideLimpiar" /\ op'[t] = "compacta" /\ tabla'[t] = t /\ cual'[t] = "bin"
      /\ tomados'[t] = <<>> /\ dados'[t] = 0
  BY <1>1, <1>3, EmpiezaPropio
<1>7. Oficio(t)' /\ Cuentas(t)'
  BY <1>6 DEF Oficio, Cuentas, Tomando, Dando
<1>8. ASSUME NEW f \in Ficheros PROVE ConBloques(f)'
  <2>1. ConBloques(f) /\ ConBloques(<<t, "tmp">>)
    BY Renombra DEF Suelta
  <2>2. NoHay.bloques = <<>> /\ Len(<<>>) = 0
    BY DEF NoHay
  <2>3. CASE f = <<t, "tmp">>
    <3>1. archivos'[f] = NoHay
      BY <2>3, Renombra
    <3> QED
      BY <1>1, <2>2, <3>1 DEF ConBloques
  <2>4. CASE f = <<t, "tmpc">>
    <3>1. archivos'[f] = archivos[<<t, "tmp">>] /\ Hay(t, "tmp")
      BY <2>4, Renombra
    <3> QED
      BY <2>1, <3>1 DEF ConBloques, Hay
  <2>5. CASE f \notin {<<t, "tmp">>, <<t, "tmpc">>}
    BY <2>1, <2>5, Renombra DEF ConBloques
  <2> QED
    BY <2>3, <2>4, <2>5
<1>9. riesgo' \subseteq riesgo \cup Solapes \cup {"resto"}
  BY <1>3 DEF Encima, Solapes
<1>10. archivos' \in [Ficheros -> [bloques : Seq(Numeros), escrito : BOOLEAN]]
  BY Renombra
<1>11. Suelta'
  BY <1>1, <1>3, <1>4, <1>5, <1>7, <1>8, <1>9, <1>10, SueltaEmpieza
<1> QED
  BY <1>1, <1>2, <1>3, <1>11

\* After a restart every thread is as at the beginning.
LEMMA SueltaReinicia ==
  ASSUME Suelta, Cae, UNCHANGED pedidos
  PROVE  Suelta'
<1>1. TypeOK /\ MaxPorArchivo \in Nat \ {0}
  BY ConstantesBloques DEF Suelta
<1>2. TypeOK'
  <2>1. TipoHilos'
    BY <1>1, Anchos DEF Cae, Reinicia, Todos, TipoHilos, Lugares, Tipos
  <2>2. UNCHANGED disco /\ SemaforobitArray' \in 0..1 /\ SemaforoMemtable' \in 0..1
    BY DEF Cae, Reinicia
  <2>3. riesgo' \subseteq {"lleno", "byte", "borra", "resto", "pierde", "repite", "solapa", "a_medias"}
    BY <1>1 DEF Cae, TypeOK
  <2> QED
    BY <1>1, <2>1, <2>2, <2>3 DEF TypeOK, TipoHilos, disco
<1>3. \A h \in Hilos : /\ pc'[h] = "libre" /\ op'[h] = "nada" /\ tabla'[h] = Nadie /\ cual'[h] = "bin"
                       /\ tomados'[h] = <<>> /\ dados'[h] = 0 /\ lista'[h] = <<>>
  BY DEF Cae, Reinicia, Todos
<1>4. SemaforosConDueno'
  BY <1>3 DEF Cae, Reinicia, SemaforosConDueno, Dentro, ConMemtable
<1>5. \A h \in Hilos : Oficio(h)' /\ Cuentas(h)' /\ DeLista(h)'
  BY <1>1, <1>3 DEF Oficio, Cuentas, DeLista, Tomando, Dando
<1>6. \A f \in Ficheros : ConBloques(f)'
  BY DEF Cae, Reinicia, disco, Suelta, ConBloques
<1> QED
  BY <1>2, <1>4, <1>5, <1>6 DEF Suelta

LEMMA LosPasos ==
  ASSUME Next
  PROVE  \/ \E t \in Tablas, c \in Clientes : CREATE(c, t) \/ DROP(c, t)
         \/ \E t \in Tablas : dump(t) \/ compactar(t)
         \/ \E h \in Hilos : Trabaja(h) /\ UNCHANGED pedidos
         \/ Cae /\ UNCHANGED pedidos
<1>1. CASE \E h \in Hilos : Paso(h) /\ UNCHANGED pedidos
  <2>1. PICK h \in Hilos : Paso(h) /\ UNCHANGED pedidos
    BY <1>1
  <2>2. Trabaja(h) \/ Muere(h)
    BY <2>1 DEF Paso, Trabaja
  <2>3. Muere(h) => Cae
    BY DEF Muere
  <2> QED
    BY <2>1, <2>2, <2>3
<1> QED
  BY <1>1 DEF Next

LEMMA SueltaQuieta == ASSUME Suelta, UNCHANGED vars PROVE Suelta'
<1> USE DEF vars, disco, semaforos, locales, pedido, toma
<1>1. TypeOK' /\ SemaforosConDueno'
  BY DEF Suelta, TypeOK, SemaforosConDueno, Dentro, ConMemtable
<1>2. \A h \in Hilos : Oficio(h)' /\ Cuentas(h)' /\ DeLista(h)'
  BY DEF Suelta, Oficio, Cuentas, DeLista
<1>3. \A f \in Ficheros : ConBloques(f)'
  BY DEF Suelta, ConBloques
<1> QED
  BY <1>1, <1>2, <1>3 DEF Suelta

LEMMA SueltaSigue == Suelta /\ [Next]_vars => Suelta'
<1> SUFFICES ASSUME Suelta, [Next]_vars PROVE Suelta'
  OBVIOUS
<1>1. CASE \E t \in Tablas, c \in Clientes : CREATE(c, t) \/ DROP(c, t)
  BY <1>1, SueltaCREATE, SueltaDROP
<1>2. CASE \E t \in Tablas : dump(t) \/ compactar(t)
  BY <1>2, SueltaDump, SueltaCompactar
<1>3. CASE \E h \in Hilos : Trabaja(h) /\ UNCHANGED pedidos
  BY <1>3, SueltaTrabaja
<1>4. CASE Cae /\ UNCHANGED pedidos
  BY <1>4, SueltaReinicia
<1>5. CASE UNCHANGED vars
  BY <1>5, SueltaQuieta
<1> QED
  BY <1>1, <1>2, <1>3, <1>4, <1>5, LosPasos

LEMMA SueltaInicial == Init => Suelta
<1> SUFFICES ASSUME Init PROVE Suelta
  OBVIOUS
<1>1. TypeOK
  BY Anchos, ConstantesBloques DEF Init, Todos, TypeOK, NoHay, Tipos, Lugares
<1>2. \A h \in Hilos : /\ pc[h] = "libre" /\ op[h] = "nada" /\ tabla[h] = Nadie /\ cual[h] = "bin"
                       /\ tomados[h] = <<>> /\ dados[h] = 0 /\ lista[h] = <<>>
  BY DEF Init, Todos
<1>3. SemaforosConDueno
  BY <1>2 DEF Init, SemaforosConDueno, Dentro, ConMemtable
<1>4. \A h \in Hilos : Oficio(h) /\ Cuentas(h) /\ DeLista(h)
  BY <1>2, ConstantesBloques DEF Oficio, Cuentas, DeLista, Tomando, Dando
<1>5. \A f \in Ficheros : ConBloques(f)
  BY ConstantesBloques DEF Init, ConBloques, NoHay, Ficheros
<1> QED
  BY <1>1, <1>3, <1>4, <1>5 DEF Suelta

\* The variables of Bloques have their types, in every state of every execution.
THEOREM TiposDeBloques == Spec => []TypeOK
<1>1. Suelta => TypeOK
  BY DEF Suelta
<1> QED
  BY <1>1, SueltaInicial, SueltaSigue, PTL DEF Spec

\* A semaphore is down only while the one thread that will give it back is at work,
\* whatever operations of a table start over each other.
THEOREM NingunSemaforoHuerfano == Spec => []SemaforosConDueno
<1>1. Suelta => SemaforosConDueno
  BY DEF Suelta
<1> QED
  BY <1>1, SueltaInicial, SueltaSigue, PTL DEF Spec

-----------------------------------------------------------------------------
(* Until two operations of a table overlap.                                 *)

\* Nobody is at work on a table over which DROP or the compaction starts.
LEMMA SinNadie ==
  ASSUME Suelta, NEW t \in Tablas, Encima(t) = {}, NEW x \in Hilos
  PROVE  tabla[x] # t
<1>1. /\ pc[x] = "libre" => tabla[x] = Nadie
      /\ pc[x] # "libre" => op[x] # "nada"
      /\ op[x] \in {"nada", "create", "drop", "dump", "compacta"}
  BY DeSuelta DEF Oficio
<1>2. \A h \in Hilos : tabla[h] = t => op[h] \notin {"create", "compacta", "drop"} /\ op[h] # "dump"
  BY DEF Encima
<1> QED
  BY <1>1, <1>2, ConstantesBloques

\* DROP and the compaction, when they start over nobody.
DROPSola(c, t) == DROP(c, t) /\ Encima(t) = {}
compactarSola(t) == compactar(t) /\ Encima(t) = {}

LEMMA Solas ==
  ASSUME SinSolapes', NEW t \in Tablas
  PROVE  /\ \A c \in Clientes : DROP(c, t) => DROPSola(c, t) /\ UNCHANGED riesgo
         /\ compactar(t) => /\ compactarSola(t)
                            /\ riesgo' = riesgo \cup (IF Hay(t, "tmpc") THEN {"resto"} ELSE {})
<1>1. ASSUME NEW S, riesgo' = riesgo \cup Encima(t) \cup S PROVE Encima(t) = {}
  BY <1>1 DEF SinSolapes, Solapes, Encima
<1>2. ASSUME NEW c \in Clientes, DROP(c, t) PROVE DROPSola(c, t) /\ UNCHANGED riesgo
  <2>1. riesgo' = riesgo \cup Encima(t)
    BY <1>2 DEF DROP
  <2>2. riesgo' = riesgo \cup Encima(t) \cup {}
    BY <2>1
  <2> QED
    BY <1>1, <1>2, <2>1, <2>2 DEF DROPSola
<1>3. ASSUME compactar(t)
      PROVE  /\ compactarSola(t)
             /\ riesgo' = riesgo \cup (IF Hay(t, "tmpc") THEN {"resto"} ELSE {})
  <2>1. PICK S : S = IF Hay(t, "tmpc") THEN {"resto"} ELSE {}
    OBVIOUS
  <2>2. riesgo' = riesgo \cup Encima(t) \cup S
    BY <1>3, <2>1 DEF compactar
  <2>3. Encima(t) = {}
    BY <1>1, <2>2
  <2> QED
    BY <1>3, <2>1, <2>2, <2>3 DEF compactarSola
<1> QED
  BY <1>2, <1>3

\* The operations that leave the files alone.
LEMMA BaseEmpieza ==
  ASSUME Base, Suelta', NEW h \in Hilos, NEW o, NEW t, NEW k, NEW n, NEW s,
         NEW lugar \in {"pide", "pideLimpiar"}, Empieza(h, o, t, k, n, s, lugar),
         UNCHANGED archivos, carpetas \subseteq carpetas',
         \A x \in Hilos : x # h /\ tabla[x] = t => "dump" \in {op[x], o} /\ "drop" \notin {op[x], o},
         DeSuArchivo(h)'
  PROVE  Base'
<1>1. ASSUME NEW g \in Hilos PROVE DeSuArchivo(g)'
  <2>1. CASE g = h
    BY <2>1
  <2>2. CASE g # h
    <3>1. pc[g] # "libre" => tabla[g] \in carpetas'
      BY DeBase DEF DeSuArchivo
    <3>2. Ajeno(g)
      BY <2>2, <3>1, BaseSuelta, EmpiezaAjenos DEF Ajeno
    <3> QED
      BY <3>2, AjenoSigue
  <2> QED
    BY <2>1, <2>2
<1>2. \A g, j \in Hilos : Comparten(g, j)'
  BY EmpiezaComparten
<1> QED
  BY <1>1, <1>2 DEF Base

LEMMA BaseCREATE ==
  ASSUME Base, NEW c \in Clientes, NEW t \in Tablas, CREATE(c, t)
  PROVE  Base'
<1>1. Suelta' /\ Empieza(c, "create", t, "bin", 1, <<>>, "pide") /\ c \in Hilos
  BY SueltaCREATE, BaseSuelta
<1>2. carpetas' = carpetas \cup {t} /\ t \notin carpetas /\ UNCHANGED archivos
  BY DEF CREATE
<1>3. pc'[c] = "pide" /\ op'[c] = "create" /\ tabla'[c] = t
  BY <1>1, EmpiezaPropio, BaseSuelta
<1>4. DeSuArchivo(c)'
  BY <1>2, <1>3 DEF DeSuArchivo, Dando
<1>5. ASSUME NEW x \in Hilos PROVE tabla[x] # t
  BY <1>2, ConstantesBloques, DeBase DEF Oficio, DeSuArchivo
<1> QED
  BY <1>1, <1>2, <1>4, <1>5, BaseEmpieza

LEMMA BaseDROP ==
  ASSUME Base, NEW c \in Clientes, NEW t \in Tablas, DROPSola(c, t)
  PROVE  Base'
<1>1. PICK s : s = archivos[<<t, "bin">>].bloques
  OBVIOUS
<1>2. Suelta' /\ Empieza(c, "drop", t, "bin", 0, s, "pideLimpiar") /\ c \in Hilos
  BY <1>1, SueltaDROP, BaseSuelta DEF DROPSola
<1>3. t \in carpetas /\ UNCHANGED <<archivos, carpetas>> /\ Encima(t) = {}
  BY DEF DROP, DROPSola
<1>4. /\ pc'[c] = "pideLimpiar" /\ op'[c] = "drop" /\ tabla'[c] = t /\ lista'[c] = s
      /\ Suyo(c)' = <<t, "bin">>
  BY <1>2, EmpiezaPropio, BaseSuelta
<1>5. DeSuArchivo(c)'
  BY <1>1, <1>3, <1>4 DEF DeSuArchivo, Dando
<1>6. ASSUME NEW x \in Hilos PROVE tabla[x] # t
  BY <1>3, SinNadie, BaseSuelta
<1> QED
  BY <1>2, <1>3, <1>5, <1>6, BaseEmpieza

LEMMA BaseDump ==
  ASSUME Base, NEW t \in Tablas, dump(t)
  PROVE  Base'
<1>1. PICK n \in 1..MaxPorArchivo : Empieza(Volcador, "dump", t, "tmp", n, <<>>, "pide")
  BY SueltaDump, BaseSuelta
<1>2. Suelta' /\ Volcador \in Hilos
  BY SueltaDump, BaseSuelta
<1>3. t \in carpetas /\ SemaforoMemtable = 1 /\ UNCHANGED <<archivos, carpetas>>
  BY DEF dump
<1>4. pc'[Volcador] = "pide" /\ op'[Volcador] = "dump" /\ tabla'[Volcador] = t
  BY <1>1, <1>2, EmpiezaPropio, BaseSuelta
<1>5. DeSuArchivo(Volcador)'
  BY <1>3, <1>4 DEF DeSuArchivo, Dando
<1>6. \A x \in Hilos : x # Volcador /\ tabla[x] = t => "dump" \in {op[x], "dump"} /\ "drop" \notin {op[x], "dump"}
  BY <1>3, BaseSuelta DEF SemaforosConDueno, ConMemtable
<1> QED
  BY <1>1, <1>2, <1>3, <1>5, <1>6, BaseEmpieza

LEMMA BaseCompactar ==
  ASSUME Base, NEW t \in Tablas, compactarSola(t)
  PROVE  Base'
<1>1. PICK s : s = archivos[<<t, "bin">>].bloques
  OBVIOUS
<1>2. Suelta' /\ t \in Hilos /\ Empieza(t, "compacta", t, "bin", 0, s, "pideLimpiar")
  BY <1>1, SueltaCompactar, BaseSuelta DEF compactarSola
<1>3. compactar(t) /\ Encima(t) = {} /\ t \in carpetas /\ UNCHANGED carpetas
  BY DEF compactarSola, compactar
<1>4. /\ pc'[t] = "pideLimpiar" /\ op'[t] = "compacta" /\ tabla'[t] = t /\ cual'[t] = "bin"
      /\ lista'[t] = s /\ Suyo(t)' = <<t, "bin">>
  BY <1>2, EmpiezaPropio, BaseSuelta
<1>5. DeSuArchivo(t)'
  <2>1. archivos[<<t, "tmp">>].bloques # <<>>
    BY <1>3, Renombra, ConPrimero, BaseSuelta DEF Tipos
  <2>2. <<t, "bin">> \in Ficheros /\ archivos'[<<t, "bin">>] = archivos[<<t, "bin">>]
    BY <1>3, Renombra, BaseSuelta DEF Ficheros, Tipos
  <2>3. archivos'[<<t, "tmpc">>].bloques # <<>>
    BY <1>3, <2>1, Renombra, BaseSuelta
  <2> QED
    BY <1>1, <1>3, <1>4, <2>2, <2>3 DEF DeSuArchivo, Dando
<1>6. ASSUME NEW x \in Hilos PROVE tabla[x] # t
  BY <1>3, SinNadie, BaseSuelta
<1>7. ASSUME NEW g \in Hilos, g # t PROVE DeSuArchivo(g)'
  <2>1. tabla[g] # t
    BY <1>6
  <2>2. pc[g] # "libre" => /\ tabla[g] \in carpetas'
                           /\ Suyo(g) \in Ficheros /\ <<tabla[g], "tmpc">> \in Ficheros
    BY <1>3, DeBase, SuyoFichero, BaseSuelta DEF DeSuArchivo, Ficheros, Tipos
  <2>3. op[g] = "compacta" => pc[g] # "libre"
    BY DeBase DEF Oficio
  <2>4. pc[g] # "libre" => /\ archivos'[Suyo(g)] = archivos[Suyo(g)]
                           /\ archivos'[<<tabla[g], "tmpc">>] = archivos[<<tabla[g], "tmpc">>]
    BY <1>3, <2>1, <2>2, Renombra, BaseSuelta DEF Suyo
  <2>5. Ajeno(g)
    BY <1>2, <1>7, <2>2, <2>3, <2>4, EmpiezaAjenos, BaseSuelta DEF Ajeno
  <2> QED
    BY <2>5, AjenoSigue
<1>8. \A g, j \in Hilos : Comparten(g, j)'
  BY <1>2, <1>6, EmpiezaComparten
<1> QED
  BY <1>2, <1>5, <1>7, <1>8 DEF Base

LEMMA BaseReinicia ==
  ASSUME Base, Cae, UNCHANGED pedidos
  PROVE  Base'
<1>1. Suelta'
  BY SueltaReinicia, BaseSuelta
<1>2. \A h \in Hilos : pc'[h] = "libre" /\ op'[h] = "nada" /\ tabla'[h] = Nadie
  BY DEF Cae, Reinicia, Todos
<1>3. \A h \in Hilos : DeSuArchivo(h)'
  BY <1>2 DEF DeSuArchivo, Dando
<1>4. \A g, h \in Hilos : Comparten(g, h)'
  BY <1>2 DEF Comparten
<1> QED
  BY <1>1, <1>3, <1>4 DEF Base

LEMMA BaseQuieta == ASSUME Base, UNCHANGED vars PROVE Base'
<1> USE DEF vars, disco, semaforos, locales, pedido, toma
<1>1. Suelta'
  BY SueltaQuieta, BaseSuelta
<1>2. \A h \in Hilos : DeSuArchivo(h)'
  BY DEF Base, DeSuArchivo, Suyo
<1>3. \A g, h \in Hilos : Comparten(g, h)'
  BY DEF Base, Comparten
<1> QED
  BY <1>1, <1>2, <1>3 DEF Base

LEMMA BaseSigue == Base /\ [Next]_vars /\ SinSolapes' => Base'
<1> SUFFICES ASSUME Base, [Next]_vars, SinSolapes' PROVE Base'
  OBVIOUS
<1>1. CASE \E t \in Tablas, c \in Clientes : CREATE(c, t) \/ DROP(c, t)
  <2>1. PICK t \in Tablas, c \in Clientes : CREATE(c, t) \/ DROP(c, t)
    BY <1>1
  <2>2. DROP(c, t) => DROPSola(c, t)
    BY Solas
  <2> QED
    BY <2>1, <2>2, BaseCREATE, BaseDROP
<1>2. CASE \E t \in Tablas : dump(t) \/ compactar(t)
  <2>1. PICK t \in Tablas : dump(t) \/ compactar(t)
    BY <1>2
  <2>2. compactar(t) => compactarSola(t)
    BY Solas
  <2> QED
    BY <2>1, <2>2, BaseDump, BaseCompactar
<1>3. CASE \E h \in Hilos : Trabaja(h) /\ UNCHANGED pedidos
  BY <1>3, BaseTrabaja
<1>4. CASE Cae /\ UNCHANGED pedidos
  BY <1>4, BaseReinicia
<1>5. CASE UNCHANGED vars
  BY <1>5, BaseQuieta
<1> QED
  BY <1>1, <1>2, <1>3, <1>4, <1>5, LosPasos

LEMMA BaseInicial == Init => Base
<1> SUFFICES ASSUME Init PROVE Base
  OBVIOUS
<1>1. \A h \in Hilos : pc[h] = "libre" /\ op[h] = "nada" /\ tabla[h] = Nadie
  BY DEF Init, Todos
<1>2. \A h \in Hilos : DeSuArchivo(h)
  BY <1>1 DEF DeSuArchivo, Dando
<1>3. \A g, h \in Hilos : Comparten(g, h)
  BY <1>1 DEF Comparten
<1> QED
  BY <1>2, <1>3, SueltaInicial DEF Base

-----------------------------------------------------------------------------
(* Bytes: what is written is what was there with one bit changed.           *)

LEMMA RiesgoCrece == ASSUME Next PROVE riesgo \subseteq riesgo'
<1>1. CASE \E t \in Tablas, c \in Clientes : CREATE(c, t) \/ DROP(c, t)
  BY <1>1 DEF CREATE, DROP
<1>2. CASE \E t \in Tablas : dump(t) \/ compactar(t)
  BY <1>2 DEF dump, compactar
<1>3. CASE \E h \in Hilos : Trabaja(h) /\ UNCHANGED pedidos
  BY <1>3 DEF Trabaja, PideBits, Encuentra, Fantasma, Prende, CreaArchivo, cargarRegistros,
    PideLimpiar, LimpiaBloque, Apaga, BorraBloque, QuitaArchivo, Termina, Sigue
<1>4. CASE Cae /\ UNCHANGED pedidos
  BY <1>4 DEF Cae
<1> QED
  BY <1>1, <1>2, <1>3, <1>4, LosPasos

\* A thread that turns a bit on is inside the semaphore; one that turns it off, when it
\* is of a partition.
LEMMA LeidoBien ==
  ASSUME Base, Leidos, NEW h \in Hilos, Prende(h) \/ (Apaga(h) /\ ~Cruza(h))
  PROVE  leido[h] = bitmap \cap Byte(bloque[h]) /\ bloque[h] \in Bits
<1>1. bloque[h] \in Bits
  BY DeBase DEF Prende, Apaga, En, Cuentas, DeSuArchivo, DeLista, Dando
<1>2. CASE Prende(h)
  BY <1>1, <1>2 DEF Leidos, Prende, En, Dentro
<1>3. CASE Apaga(h) /\ ~Cruza(h)
  BY <1>1, <1>3 DEF Leidos, Apaga, En, Dentro, Dando, Cruza
<1> QED
  BY <1>1, <1>2, <1>3

LEMMA PrendeUno ==
  ASSUME Base, Leidos, NEW h \in Hilos, Prende(h)
  PROVE  bitmap' = bitmap \cup {bloque[h]} /\ bloque[h] \in Bits /\ Dentro(h)
<1>1. leido[h] = bitmap \cap Byte(bloque[h]) /\ bloque[h] \in Bits /\ bitmap \subseteq Bits
  BY LeidoBien DEF Base, Suelta, TypeOK
<1>2. bitmap' = (bitmap \ Byte(bloque[h])) \cup (bitmap \cap Byte(bloque[h])) \cup {bloque[h]}
  BY <1>1 DEF Prende
<1> QED
  BY <1>1, <1>2, UnBitMas DEF Prende, En, Dentro

LEMMA ApagaUno ==
  ASSUME Base, Leidos, NEW h \in Hilos, Apaga(h), ~Cruza(h)
  PROVE  bitmap' = bitmap \ {bloque[h]} /\ bloque[h] \in Bits
<1>1. leido[h] = bitmap \cap Byte(bloque[h]) /\ bloque[h] \in Bits /\ bitmap \subseteq Bits
  BY LeidoBien DEF Base, Suelta, TypeOK
<1>2. bitmap' = (bitmap \ Byte(bloque[h])) \cup ((bitmap \cap Byte(bloque[h])) \ {bloque[h]})
  BY <1>1 DEF Apaga
<1> QED
  BY <1>1, <1>2, UnBitMenos

LEMMA LeidosTrabaja ==
  ASSUME Base, Leidos, NEW h \in Hilos, Trabaja(h), "byte" \notin riesgo'
  PROVE  Leidos'
<1> SUFFICES ASSUME NEW g \in Hilos, Dentro(g)', pc'[g] \in {"prende", "apaga"}
             PROVE  leido'[g] = bitmap' \cap Byte(bloque'[g])
  BY DEF Leidos, Byte
<1>1. TypeOK /\ SemaforosConDueno
  BY DEF Base, Suelta
<1>2. CASE g = h
  <2>1. Encuentra(h) \/ LimpiaBloque(h)
    BY <1>1, <1>2 DEF Trabaja, PideBits, Fantasma, Prende, CreaArchivo, cargarRegistros, Toma,
      PideLimpiar, Apaga, BorraBloque, QuitaArchivo, Termina, Va, TypeOK, Sigue
  <2>2. CASE Encuentra(h)
    BY <1>1, <1>2, <2>2 DEF Encuentra, TypeOK
  <2>3. CASE LimpiaBloque(h)
    <3> DEFINE b == lista[h][dados[h] + 1]
    <3>1. b \in Bits
      BY <1>1, <1>2, <2>3 DEF LimpiaBloque, Va, TypeOK
    <3>2. bloque'[h] = b /\ leido'[h] = bitmap \cap Byte(b) /\ bitmap' = bitmap
      BY <1>1, <2>3, <3>1 DEF LimpiaBloque, TypeOK, disco
    <3> QED
      BY <1>2, <3>2
  <2> QED
    BY <2>1, <2>2, <2>3
<1>3. CASE g # h
  <2>1. /\ pc'[g] = pc[g] /\ cual'[g] = cual[g] /\ bloque'[g] = bloque[g] /\ leido'[g] = leido[g]
    BY <1>1, <1>3, LocalesAjenos DEF Parado
  <2>2. Dentro(g) /\ pc[g] \in {"prende", "apaga"}
    BY <2>1 DEF Dentro
  <2>3. leido[g] = bitmap \cap Byte(bloque[g]) /\ bloque[g] \in Bits
    BY <2>2, DeBase DEF Leidos, Cuentas, DeSuArchivo, DeLista, Dando
  <2>4. CASE Prende(h)
    BY <1>1, <1>3, <2>2, <2>4, PrendeUno DEF SemaforosConDueno
  <2>5. CASE Apaga(h)
    <3>1. ~Cruza(h)
      BY <2>5 DEF Apaga
    <3>2. cual[h] # "bin"
      BY <1>1, <1>3, <2>2, <2>5 DEF SemaforosConDueno, Dentro, Dando, Apaga, En
    <3>3. bloque[g] \notin Byte(bloque[h])
      BY <1>3, <2>2, <3>1, <3>2 DEF Cruza
    <3>4. bitmap' = bitmap \ {bloque[h]} /\ bloque[h] \in Bits
      BY <2>5, <3>1, ApagaUno
    <3>5. Byte(bloque[g]) \cap Byte(bloque[h]) = {} /\ bloque[h] \in Byte(bloque[h])
      BY <2>3, <3>3, <3>4, ByteAjeno, BytePropio
    <3> QED
      BY <2>1, <2>3, <3>4, <3>5
  <2>6. CASE UNCHANGED bitmap
    BY <2>1, <2>3, <2>6
  <2> QED
    BY <2>4, <2>5, <2>6 DEF Trabaja, PideBits, Encuentra, Fantasma, CreaArchivo, cargarRegistros,
      PideLimpiar, LimpiaBloque, BorraBloque, QuitaArchivo, Termina, disco, Sigue
<1> QED
  BY <1>2, <1>3

\* Nobody who has just started an operation is in the middle of a byte.
LEMMA LeidosEmpieza ==
  ASSUME Base, Leidos, NEW h \in Hilos, NEW o, NEW t, NEW k, NEW n, NEW s, NEW lugar \in {"pide", "pideLimpiar"},
         Empieza(h, o, t, k, n, s, lugar)
  PROVE  Leidos'
<1>1. TypeOK /\ pc'[h] = lugar
  BY EmpiezaPropio, BaseSuelta DEF Base, Suelta
<1>2. \A g \in Hilos \ {h} : /\ pc'[g] = pc[g] /\ cual'[g] = cual[g] /\ bloque'[g] = bloque[g]
                             /\ leido'[g] = leido[g]
  BY <1>1, EmpiezaAjenos DEF Parado
<1>3. UNCHANGED bitmap
  BY DEF Empieza
<1>4. ASSUME NEW g \in Hilos, Dentro(g)', pc'[g] \in {"prende", "apaga"}
      PROVE  leido'[g] = bitmap' \cap Byte(bloque'[g])
  <2>1. g # h
    BY <1>1, <1>4
  <2>2. Dentro(g) /\ pc[g] \in {"prende", "apaga"}
    BY <1>2, <1>4, <2>1 DEF Dentro
  <2> QED
    BY <1>2, <1>3, <2>1, <2>2 DEF Leidos
<1> QED
  BY <1>4 DEF Leidos, Byte

LEMMA LeidosSigue ==
  ASSUME Inv, [Next]_vars, SinSolapes', "byte" \notin riesgo'
  PROVE  Leidos'
<1>1. Base /\ Leidos
  BY RiesgoCrece DEF vars, Inv, SinSolapes
<1>2. Clientes \subseteq Hilos /\ Tablas \subseteq Hilos /\ Volcador \in Hilos
  BY DEF Hilos
<1>3. CASE \E t \in Tablas, c \in Clientes : CREATE(c, t) \/ DROP(c, t)
  <2>1. PICK t \in Tablas, c \in Clientes : CREATE(c, t) \/ DROP(c, t)
    BY <1>3
  <2> QED
    BY <1>1, <1>2, <2>1, LeidosEmpieza DEF CREATE, DROP
<1>4. CASE \E t \in Tablas : dump(t) \/ compactar(t)
  <2>1. PICK t \in Tablas : dump(t) \/ compactar(t)
    BY <1>4
  <2> QED
    BY <1>1, <1>2, <2>1, LeidosEmpieza DEF dump, compactar
<1>5. CASE \E h \in Hilos : Trabaja(h) /\ UNCHANGED pedidos
  BY <1>1, <1>5, LeidosTrabaja
<1>6. CASE Cae /\ UNCHANGED pedidos
  BY <1>6 DEF Cae, Reinicia, Todos, Leidos, Dentro, Dando
<1>7. CASE UNCHANGED vars
  BY <1>1, <1>7 DEF vars, locales, disco, Leidos, Dentro
<1> QED
  BY <1>3, <1>4, <1>5, <1>6, <1>7, LosPasos

-----------------------------------------------------------------------------
(* Places.  Most steps take none: those there are were there.               *)

VivoSigue(f, i) == Vivo(f, i) /\ archivos'[f].bloques[i] = archivos[f].bloques[i]
TomadoSigue(h, i) == Tomado(h, i) /\ Bloque(h, i)' = Bloque(h, i)
VivosSiguen == \A f \in Ficheros, i \in 1..MaxPorArchivo : Vivo(f, i)' => VivoSigue(f, i)
TomadosSiguen ==
  \A h \in Hilos, i \in 1..MaxPorArchivo :
    Tomado(h, i)' => TomadoSigue(h, i) \/ Exento(Bloque(h, i))'

LEMMA RepartidosIgual ==
  ASSUME Repartidos, VivosSiguen, TomadosSiguen, riesgo \subseteq riesgo'
  PROVE  Repartidos'
<1>1. \A b : Exento(b) => Exento(b)'
  BY DEF Exento
<1>2. ASSUME NEW f \in Ficheros, NEW g \in Ficheros, NEW i \in 1..MaxPorArchivo, NEW j \in 1..MaxPorArchivo,
             Vivo(f, i)', Vivo(g, j)', archivos'[f].bloques[i] = archivos'[g].bloques[j]
      PROVE  Exento(archivos[f].bloques[i])' \/ (f = g /\ i = j)
  <2>1. VivoSigue(f, i) /\ VivoSigue(g, j)
    BY <1>2 DEF VivosSiguen
  <2>2. Exento(archivos[f].bloques[i]) \/ (f = g /\ i = j)
    BY <1>2, <2>1 DEF VivoSigue, Repartidos
  <2> QED
    BY <2>1, <2>2 DEF VivoSigue, Exento
<1>3. ASSUME NEW f \in Ficheros, NEW h \in Hilos, NEW i \in 1..MaxPorArchivo, NEW j \in 1..MaxPorArchivo,
             Vivo(f, i)', Tomado(h, j)', archivos'[f].bloques[i] = Bloque(h, j)'
      PROVE  Exento(Bloque(h, j))'
  <2>1. VivoSigue(f, i)
    BY <1>3 DEF VivosSiguen
  <2>2. CASE TomadoSigue(h, j)
    <3>1. Exento(Bloque(h, j))
      BY <1>3, <2>1, <2>2 DEF VivoSigue, TomadoSigue, Repartidos
    <3> QED
      BY <2>2, <3>1 DEF TomadoSigue, Exento
  <2> QED
    BY <1>3, <2>2 DEF TomadosSiguen
<1>4. ASSUME NEW g \in Hilos, NEW h \in Hilos, NEW i \in 1..MaxPorArchivo, NEW j \in 1..MaxPorArchivo,
             Tomado(g, i)', Tomado(h, j)', Bloque(g, i)' = Bloque(h, j)'
      PROVE  Exento(Bloque(g, i))' \/ (g = h /\ i = j)
  <2>1. CASE TomadoSigue(g, i) /\ TomadoSigue(h, j)
    <3>1. Exento(Bloque(g, i)) \/ (g = h /\ i = j)
      BY <1>4, <2>1 DEF TomadoSigue, Repartidos
    <3> QED
      BY <2>1, <3>1 DEF TomadoSigue, Exento
  <2>2. CASE Exento(Bloque(h, j))'
    BY <1>4, <2>2 DEF Exento
  <2> QED
    BY <1>4, <2>1, <2>2 DEF TomadosSiguen
<1> QED
  BY <1>2, <1>3, <1>4 DEF Repartidos

LEMMA MarcadosIgual ==
  ASSUME Marcados, VivosSiguen, TomadosSiguen, \A b : Marcado(b) => Marcado(b)'
  PROVE  Marcados'
<1>1. ASSUME NEW f \in Ficheros, NEW i \in 1..MaxPorArchivo, Vivo(f, i)'
      PROVE  Marcado(archivos[f].bloques[i])'
  <2>1. VivoSigue(f, i)
    BY <1>1 DEF VivosSiguen
  <2>2. Marcado(archivos[f].bloques[i])
    BY <2>1 DEF VivoSigue, Marcados
  <2> QED
    BY <2>1, <2>2 DEF VivoSigue, Marcado, Exento
<1>2. ASSUME NEW h \in Hilos, NEW i \in 1..MaxPorArchivo, Tomado(h, i)'
      PROVE  Marcado(Bloque(h, i))'
  <2>1. CASE TomadoSigue(h, i)
    <3>1. Marcado(Bloque(h, i))
      BY <2>1 DEF TomadoSigue, Marcados
    <3> QED
      BY <2>1, <3>1 DEF TomadoSigue, Marcado, Exento
  <2>2. CASE Exento(Bloque(h, i))'
    BY <2>2 DEF Marcado, Exento
  <2> QED
    BY <1>2, <2>1, <2>2 DEF TomadosSiguen
<1> QED
  BY <1>1, <1>2 DEF Marcados

\* A file that the thread that moves is not at work on keeps its places.
LEMMA VivoAjeno ==
  ASSUME Base, NEW h \in Hilos, Trabaja(h), NEW f \in Ficheros, f # Suyo(h), NEW i, Vivo(f, i)'
  PROVE  VivoSigue(f, i)
<1>1. archivos'[f] = archivos[f]
  BY ArchivosAjenos DEF Base, Suelta
<1>2. ASSUME NEW g \in Hilos, Suyo(g) = f PROVE i > dados[g]
  <2>1. g # h
    BY <1>2
  <2>2. Suyo(g)' = Suyo(g) /\ dados'[g] = dados[g]
    BY <2>1, LocalesAjenos, BaseSuelta DEF Parado, Suyo
  <2> QED
    BY <1>2, <2>2 DEF Vivo
<1> QED
  BY <1>1, <1>2 DEF Vivo, VivoSigue

LEMMA TomadoAjeno ==
  ASSUME Base, NEW h \in Hilos, Trabaja(h), NEW g \in Hilos, g # h, NEW i, Tomado(g, i)'
  PROVE  TomadoSigue(g, i)
<1>1. /\ pc'[g] = pc[g] /\ op'[g] = op[g] /\ bloque'[g] = bloque[g] /\ tomados'[g] = tomados[g]
  BY LocalesAjenos, BaseSuelta DEF Parado
<1> QED
  BY <1>1 DEF Tomado, TomadoSigue, Bloque

\* Nobody else is at work on the file of h.
LEMMA SoloDeUno ==
  ASSUME Base, NEW h \in Hilos, pc[h] # "libre", NEW g \in Hilos, Suyo(g) = Suyo(h)
  PROVE  g = h
  BY SuyoDistinto, SuyoDeNadie, SuyoFichero, BaseSuelta

LEMMA VivoPropio ==
  ASSUME Base, NEW h \in Hilos, Trabaja(h), ~CreaArchivo(h), ~(Encuentra(h) /\ op[h] = "create"),
         NEW f \in Ficheros, f = Suyo(h), NEW i \in 1..MaxPorArchivo, Vivo(f, i)'
  PROVE  VivoSigue(f, i)
<1>1. /\ TypeOK /\ Cuentas(h) /\ pc[h] # "libre"
      /\ archivos \in [Ficheros -> [bloques : Seq(Numeros), escrito : BOOLEAN]]
  BY DeBase, NoEsLibre DEF TypeOK, Ficheros
<1>2. CASE QuitaArchivo(h)
  <2>1. archivos'[f] = NoHay
    BY <1>1, <1>2 DEF QuitaArchivo, Sigue
  <2>2. Len(archivos'[f].bloques) = 0
    BY <2>1 DEF NoHay
  <2> QED
    BY <2>2 DEF Vivo
<1>3. CASE ~QuitaArchivo(h)
  <2>1. archivos'[f].bloques = archivos[f].bloques
    <3>1. CASE cargarRegistros(h)
      BY <1>1, <3>1 DEF cargarRegistros, Sigue
    <3>2. CASE UNCHANGED archivos
      BY <3>2
    <3>3. CASE Encuentra(h)
      BY <3>3 DEF Encuentra
    <3> QED
      BY <1>3, <3>1, <3>2, <3>3 DEF Trabaja, disco, PideBits, Fantasma, Prende, PideLimpiar,
        LimpiaBloque, Apaga, BorraBloque, Termina
  <2>2. i > dados[h]
    <3>1. CASE cargarRegistros(h) \/ Termina(h)
      <4>1. dados[h] = 0
        BY <1>1, <3>1 DEF cargarRegistros, Termina, En, Cuentas, Dando, Sigue
      <4> QED
        BY <4>1
    <3>2. CASE ~(cargarRegistros(h) \/ Termina(h))
      <4>1. /\ UNCHANGED <<tabla, cual>>
            /\ dados' = dados \/ dados' = [dados EXCEPT ![h] = dados[h] + 1]
        BY <1>3, <3>2 DEF Trabaja, disco, pedido, toma, locales, PideBits, Encuentra, Fantasma, Toma, Prende,
          PideLimpiar, LimpiaBloque, Apaga, BorraBloque
      <4>2. dados[h] \in Nat /\ dados'[h] \in Nat /\ dados[h] <= dados'[h]
        BY <1>1, <4>1, ConstantesBloques DEF TypeOK
      <4>3. Suyo(h)' = f
        BY <4>1 DEF Suyo
      <4>4. i > dados'[h]
        BY <4>3 DEF Vivo
      <4> QED
        BY <4>2, <4>4
    <3> QED
      BY <3>1, <3>2
  <2>3. ASSUME NEW g \in Hilos, Suyo(g) = f PROVE i > dados[g]
    BY <1>1, <2>2, <2>3, SoloDeUno
  <2> QED
    BY <2>1, <2>3 DEF Vivo, VivoSigue
<1> QED
  BY <1>2, <1>3

\* A thread that takes a block had reserved its place when it found it.
LEMMA TomadoPropio ==
  ASSUME Base, NEW h \in Hilos, Trabaja(h), ~Encuentra(h), NEW i, Tomado(h, i)'
  PROVE  TomadoSigue(h, i) \/ Exento(Bloque(h, i))'
<1>1. /\ TypeOK /\ Cuentas(h) /\ Oficio(h) /\ tomados[h] \in Seq(Numeros)
  BY DeBase
<1>2. CASE PideBits(h)
  <2>1. tomados'[h] = <<>> /\ pc'[h] = "busca"
    BY <1>1, <1>2 DEF PideBits, En, Va, Cuentas, TypeOK, locales, toma
  <2> QED
    BY <2>1 DEF Tomado
<1>3. ASSUME NEW b, b \in Numeros, Toma(h, b), UNCHANGED <<op, bloque>> \/ Prende(h), pc[h] \in {"busca", "prende"}
      PROVE  /\ op'[h] = op[h] /\ pc'[h] # "prende" /\ i \in 1..(Len(tomados[h]) + 1)
             /\ Bloque(h, i)' = IF i = Len(tomados[h]) + 1 THEN b ELSE tomados[h][i]
  <2>1. tomados'[h] = Append(tomados[h], b) /\ pc'[h] \in {"busca", "crea", "termina"}
    BY <1>1, <1>3 DEF Toma, Va, TypeOK
  <2>2. Len(tomados'[h]) = Len(tomados[h]) + 1 /\ Len(tomados[h]) \in Nat
    BY <1>1, <1>3, <2>1
  <2>3. i \in 1..(Len(tomados[h]) + 1)
    BY <2>1, <2>2 DEF Tomado
  <2>4. Bloque(h, i)' = tomados'[h][i]
    BY <2>2, <2>3 DEF Bloque
  <2> QED
    BY <1>1, <1>3, <2>1, <2>2, <2>3, <2>4 DEF Prende, pedido
<1>4. CASE Fantasma(h)
  <2>1. /\ BLOCKS \in Numeros /\ Toma(h, BLOCKS) /\ UNCHANGED <<op, bloque>> /\ pc[h] = "busca"
        /\ "lleno" \in riesgo'
    BY <1>4, Anchos DEF Fantasma, En, pedido
  <2>2. /\ op'[h] = op[h] /\ i \in 1..(Len(tomados[h]) + 1)
        /\ Bloque(h, i)' = IF i = Len(tomados[h]) + 1 THEN BLOCKS ELSE tomados[h][i]
    BY <1>3, <2>1
  <2>3. CASE i = Len(tomados[h]) + 1
    BY <2>1, <2>2, <2>3 DEF Exento
  <2>4. CASE i # Len(tomados[h]) + 1
    <3>1. i \in 1..Len(tomados[h]) /\ op[h] # "create"
      BY <1>1, <2>2, <2>4 DEF Tomado
    <3> QED
      BY <2>1, <2>2, <2>4, <3>1 DEF Tomado, TomadoSigue, Bloque
  <2> QED
    BY <2>3, <2>4
<1>5. CASE Prende(h)
  <2>1. bloque[h] \in Numeros /\ Toma(h, bloque[h]) /\ pc[h] = "prende"
    BY <1>1, <1>5 DEF Prende, En, TypeOK
  <2>2. /\ op'[h] = op[h] /\ i \in 1..(Len(tomados[h]) + 1)
        /\ Bloque(h, i)' = IF i = Len(tomados[h]) + 1 THEN bloque[h] ELSE tomados[h][i]
    BY <1>3, <1>5, <2>1
  <2>3. op[h] # "create"
    BY <2>2 DEF Tomado
  <2>4. i = Len(tomados[h]) + 1 \/ i \in 1..Len(tomados[h])
    BY <1>1, <2>2
  <2> QED
    BY <2>1, <2>2, <2>3, <2>4 DEF Tomado, TomadoSigue, Bloque
<1>6. CASE ~(PideBits(h) \/ Fantasma(h) \/ Prende(h))
  <2>1. pc'[h] \notin {"busca", "prende", "crea"}
    BY <1>1, <1>6 DEF Trabaja, CreaArchivo, cargarRegistros, PideLimpiar, LimpiaBloque, Apaga, BorraBloque,
      QuitaArchivo, Termina, Va, TypeOK, Sigue
  <2> QED
    BY <2>1 DEF Tomado
<1> QED
  BY <1>2, <1>4, <1>5, <1>6

LEMMA Siguen ==
  ASSUME Base, NEW h \in Hilos, Trabaja(h), ~CreaArchivo(h), ~Encuentra(h)
  PROVE  VivosSiguen /\ TomadosSiguen
<1>1. ASSUME NEW f \in Ficheros, NEW i \in 1..MaxPorArchivo, Vivo(f, i)' PROVE VivoSigue(f, i)
  BY <1>1, VivoAjeno, VivoPropio
<1>2. ASSUME NEW g \in Hilos, NEW i \in 1..MaxPorArchivo, Tomado(g, i)'
      PROVE  TomadoSigue(g, i) \/ Exento(Bloque(g, i))'
  BY <1>2, TomadoAjeno, TomadoPropio
<1>3. VivosSiguen
  BY <1>1 DEF VivosSiguen
<1>4. TomadosSiguen
  BY <1>2 DEF TomadosSiguen
<1> QED
  BY <1>3, <1>4

-----------------------------------------------------------------------------
(* The bits of the places.                                                  *)

LEMMA MarcadoSigue ==
  ASSUME Base, Leidos, NEW h \in Hilos, Trabaja(h), ~Apaga(h), riesgo \subseteq riesgo', NEW b, Marcado(b)
  PROVE  Marcado(b)'
<1>1. bitmap \subseteq bitmap' /\ (Prende(h) => bloque[h] \in bitmap')
  <2>1. CASE Prende(h)
    BY <2>1, PrendeUno
  <2>2. CASE UNCHANGED bitmap /\ ~Prende(h)
    BY <2>2
  <2> QED
    BY <2>1, <2>2 DEF Trabaja, PideBits, Encuentra, Fantasma, CreaArchivo, cargarRegistros,
      PideLimpiar, LimpiaBloque, BorraBloque, QuitaArchivo, Termina, disco, Sigue
<1>2. CASE b \in bitmap \/ Exento(b)
  BY <1>1, <1>2 DEF Marcado, Exento
<1>3. ASSUME NEW g \in Hilos, pc[g] = "prende", bloque[g] = b PROVE Marcado(b)'
  <2>1. CASE g = h
    <3>1. Prende(h)
      BY <1>3, <2>1 DEF Trabaja, En, PideBits, Encuentra, Fantasma, CreaArchivo, cargarRegistros,
        PideLimpiar, LimpiaBloque, BorraBloque, QuitaArchivo, Termina, Sigue
    <3> QED
      BY <1>1, <1>3, <2>1, <3>1 DEF Marcado
  <2>2. CASE g # h
    <3>1. pc'[g] = pc[g] /\ bloque'[g] = bloque[g]
      BY <2>2, LocalesAjenos, BaseSuelta DEF Parado
    <3> QED
      BY <1>3, <3>1 DEF Marcado
  <2> QED
    BY <2>1, <2>2
<1> QED
  BY <1>2, <1>3 DEF Marcado

LEMMA RepartoSinTomar ==
  ASSUME Base, Leidos, Repartidos, Marcados, NEW h \in Hilos, Trabaja(h), riesgo \subseteq riesgo',
         ~CreaArchivo(h), ~Encuentra(h), ~Apaga(h)
  PROVE  Repartidos' /\ Marcados'
<1>1. VivosSiguen /\ TomadosSiguen
  BY Siguen
<1>2. \A b : Marcado(b) => Marcado(b)'
  BY MarcadoSigue
<1> QED
  BY <1>1, <1>2, RepartidosIgual, MarcadosIgual

\* The bit that is turned off is that of the place given back, and of no other.
LEMMA RepartoApaga ==
  ASSUME Base, Leidos, Repartidos, Marcados, NEW h \in Hilos, Apaga(h), ~Cruza(h), riesgo \subseteq riesgo'
  PROVE  Repartidos' /\ Marcados'
<1>0. PICK S, d, b : S = Suyo(h) /\ d = dados[h] + 1 /\ b = bloque[h]
  OBVIOUS
<1>1. /\ TypeOK /\ Trabaja(h) /\ pc[h] = "apaga" /\ ~CreaArchivo(h) /\ ~Encuentra(h)
  BY DEF Base, Suelta, Trabaja, Apaga, CreaArchivo, Encuentra, En
<1>2. VivosSiguen /\ TomadosSiguen
  BY <1>1, Siguen
<1>3. /\ S \in Ficheros /\ dados[h] < Len(archivos[S].bloques) /\ b = archivos[S].bloques[d]
  BY <1>0, <1>1, SuyoFichero, BaseSuelta, DeBase DEF DeSuArchivo, DeLista, Dando
<1>4. /\ dados[h] \in Nat /\ Len(archivos[S].bloques) \in Nat /\ Len(archivos[S].bloques) <= MaxPorArchivo
      /\ d \in 1..Len(archivos[S].bloques) /\ d \in 1..MaxPorArchivo
  <2>1. dados[h] \in Nat /\ archivos[S].bloques \in Seq(Numeros) /\ ConBloques(S) /\ MaxPorArchivo \in Nat
    BY <1>1, <1>3, ConstantesBloques DEF TypeOK, Ficheros, Base, Suelta
  <2> QED
    BY <1>0, <1>3, <2>1 DEF ConBloques
<1>5. Vivo(S, d)
  <2>1. ASSUME NEW g \in Hilos, Suyo(g) = S PROVE d > dados[g]
    BY <1>0, <1>1, <1>4, <2>1, SoloDeUno
  <2> QED
    BY <1>4, <2>1 DEF Vivo
<1>6. ~Vivo(S, d)'
  <2>1. Suyo(h)' = S /\ dados'[h] = d
    BY <1>0, <1>1 DEF Apaga, TypeOK, Suyo, pedido
  <2>2. ~(d > d)
    BY <1>4
  <2> QED
    BY <2>1, <2>2 DEF Vivo
<1>7. bitmap' = bitmap \ {b}
  BY <1>0, ApagaUno
<1>8. ASSUME NEW x, Marcado(x), x # b PROVE Marcado(x)'
  <2>1. CASE x \in bitmap
    BY <1>7, <1>8, <2>1 DEF Marcado
  <2>2. CASE Exento(x)
    BY <2>2 DEF Marcado, Exento
  <2>3. ASSUME NEW g \in Hilos, pc[g] = "prende", bloque[g] = x PROVE Marcado(x)'
    <3>1. g # h
      BY <1>1, <2>3
    <3>2. pc'[g] = pc[g] /\ bloque'[g] = bloque[g]
      BY <1>1, <3>1, LocalesAjenos DEF Parado
    <3> QED
      BY <2>3, <3>2 DEF Marcado
  <2> QED
    BY <1>8, <2>1, <2>2, <2>3 DEF Marcado
<1>9. ASSUME NEW f \in Ficheros, NEW i \in 1..MaxPorArchivo, Vivo(f, i)'
      PROVE  Marcado(archivos[f].bloques[i])'
  <2>1. VivoSigue(f, i) /\ ~(f = S /\ i = d)
    BY <1>2, <1>6, <1>9 DEF VivosSiguen
  <2>2. archivos[f].bloques[i] = b => Exento(archivos[f].bloques[i])
    BY <1>3, <1>4, <1>5, <2>1 DEF Repartidos, VivoSigue
  <2>3. Marcado(archivos[f].bloques[i])
    BY <2>1 DEF VivoSigue, Marcados
  <2>4. PICK x : x = archivos[f].bloques[i] /\ x = archivos'[f].bloques[i]
    BY <2>1 DEF VivoSigue
  <2>5. CASE x = b
    <3>1. Exento(x)
      BY <2>2, <2>4, <2>5
    <3> QED
      BY <2>4, <3>1 DEF Marcado, Exento
  <2>6. CASE x # b
    <3>1. Marcado(x)'
      BY <1>8, <2>3, <2>4, <2>6
    <3> QED
      BY <2>4, <3>1 DEF Marcado, Exento
  <2> QED
    BY <2>5, <2>6
<1>10. ASSUME NEW g \in Hilos, NEW i \in 1..MaxPorArchivo, Tomado(g, i)'
       PROVE  Marcado(Bloque(g, i))'
  <2>1. CASE Exento(Bloque(g, i))'
    BY <2>1 DEF Marcado, Exento
  <2>2. CASE TomadoSigue(g, i)
    <3>1. Marcado(Bloque(g, i)) /\ (Bloque(g, i) = b => Exento(Bloque(g, i)))
      BY <1>3, <1>4, <1>5, <2>2 DEF Repartidos, Marcados, TomadoSigue
    <3>2. CASE Bloque(g, i) = b
      BY <2>2, <3>1, <3>2 DEF TomadoSigue, Marcado, Exento
    <3>3. CASE Bloque(g, i) # b
      BY <1>8, <2>2, <3>1, <3>3 DEF TomadoSigue, Marcado, Exento
    <3> QED
      BY <3>2, <3>3
  <2> QED
    BY <1>2, <1>10, <2>1, <2>2 DEF TomadosSiguen
<1>11. Marcados'
  BY <1>9, <1>10 DEF Marcados
<1>12. Repartidos'
  BY <1>2, RepartidosIgual
<1> QED
  BY <1>11, <1>12

\* A bit that is clear, found inside the semaphore, is of nobody's block.
LEMMA Fresca ==
  ASSUME Base, NEW h \in Hilos, Encuentra(h), NEW b, b \notin bitmap, Marcado(b)
  PROVE  Exento(b)
<1>1. Dentro(h) /\ pc[h] = "busca" /\ SemaforosConDueno
  BY DEF Encuentra, En, Dentro, Base, Suelta
<1>2. ASSUME NEW g \in Hilos, pc[g] = "prende" PROVE FALSE
  BY <1>1, <1>2 DEF Dentro, SemaforosConDueno
<1> QED
  BY <1>2 DEF Marcado

LEMMA LoEncontrado ==
  ASSUME Base, NEW h \in Hilos, Encuentra(h)
  PROVE  \E b \in Bits :
           /\ b \notin bitmap /\ bloque'[h] = b /\ pc'[h] = "prende" /\ pc[h] = "busca"
           /\ op'[h] = op[h] /\ tomados'[h] = tomados[h] /\ UNCHANGED riesgo
           /\ op[h] = "create" => archivos'[Suyo(h)].bloques = <<b>>
           /\ op[h] # "create" => UNCHANGED archivos
<1>1. TypeOK /\ Suyo(h) \in Ficheros
  BY SuyoFichero, BaseSuelta DEF Base, Suelta, Encuentra, En
<1>2. PICK b \in Libres(h) :
        /\ bloque' = [bloque EXCEPT ![h] = b]
        /\ archivos' = IF op[h] = "create"
                         THEN [archivos EXCEPT ![Suyo(h)] = [bloques |-> <<b>>, escrito |-> FALSE]]
                         ELSE archivos
  BY DEF Encuentra
<1>3. b \in Bits /\ b \notin bitmap
  BY DEF Libres
<1>4. bloque'[h] = b /\ pc'[h] = "prende" /\ pc[h] = "busca"
  BY <1>1, <1>2 DEF Encuentra, En, Va, TypeOK
<1>5. op'[h] = op[h] /\ tomados'[h] = tomados[h] /\ UNCHANGED riesgo
  BY DEF Encuentra, pedido, toma
<1>6. ASSUME op[h] = "create" PROVE archivos'[Suyo(h)].bloques = <<b>>
  <2>1. archivos'[Suyo(h)] = [bloques |-> <<b>>, escrito |-> FALSE]
    BY <1>1, <1>2, <1>6 DEF TypeOK, Ficheros
  <2> QED
    BY <2>1
<1> QED
  BY <1>2, <1>3, <1>4, <1>5, <1>6

\* A thread finds a block for a file that does not exist yet.
LEMMA RepartoEncuentra ==
  ASSUME Base, Leidos, Repartidos, Marcados, NEW h \in Hilos, Encuentra(h), op[h] # "create"
  PROVE  Repartidos' /\ Marcados'
<1>1. PICK b \in Bits : /\ b \notin bitmap /\ bloque'[h] = b /\ pc'[h] = "prende" /\ pc[h] = "busca"
                        /\ op'[h] = op[h] /\ tomados'[h] = tomados[h] /\ UNCHANGED riesgo
  BY LoEncontrado
<1>2. Trabaja(h) /\ ~CreaArchivo(h) /\ ~Apaga(h)
  BY <1>1 DEF Trabaja, CreaArchivo, Apaga, En
<1>3. PICK n : n = Len(tomados[h]) + 1
  OBVIOUS
<1>4. ASSUME NEW f \in Ficheros, NEW i \in 1..MaxPorArchivo, Vivo(f, i)' PROVE VivoSigue(f, i)
  BY <1>2, <1>4, VivoAjeno, VivoPropio
<1>5. ASSUME NEW g \in Hilos, NEW i \in 1..MaxPorArchivo, Tomado(g, i)'
      PROVE  TomadoSigue(g, i) \/ (g = h /\ i = n /\ Bloque(g, i)' = b)
  <2>1. CASE g = h /\ i = n
    BY <1>1, <1>3, <2>1 DEF Bloque
  <2>2. CASE g = h /\ i # n
    BY <1>1, <1>3, <1>5, <2>2 DEF Tomado, TomadoSigue, Bloque
  <2>3. CASE g # h
    BY <1>2, <1>5, <2>3, TomadoAjeno
  <2> QED
    BY <2>1, <2>2, <2>3
<1>6. Marcado(b) => Exento(b)
  BY <1>1, Fresca
<1>7. \A x : Marcado(x) => Marcado(x)'
  BY <1>1, <1>2, MarcadoSigue
<1>8. Marcado(b)'
  BY <1>1 DEF Marcado
<1>9. \A x : Exento(x) <=> Exento(x)'
  BY <1>1 DEF Exento
<1>10. ASSUME NEW f \in Ficheros, NEW i \in 1..MaxPorArchivo, Vivo(f, i)'
       PROVE  Marcado(archivos[f].bloques[i])'
  <2>1. VivoSigue(f, i) /\ Marcado(archivos[f].bloques[i])
    BY <1>4, <1>10 DEF VivoSigue, Marcados
  <2> QED
    BY <1>7, <2>1 DEF VivoSigue, Marcado, Exento
<1>11. ASSUME NEW g \in Hilos, NEW i \in 1..MaxPorArchivo, Tomado(g, i)'
       PROVE  Marcado(Bloque(g, i))'
  <2>1. CASE TomadoSigue(g, i)
    <3>1. Marcado(Bloque(g, i))
      BY <2>1 DEF TomadoSigue, Marcados
    <3> QED
      BY <1>7, <2>1, <3>1 DEF TomadoSigue, Marcado, Exento
  <2>2. CASE Bloque(g, i)' = b
    BY <1>8, <2>2 DEF Marcado, Exento
  <2> QED
    BY <1>5, <1>11, <2>1, <2>2
<1>12. Marcados'
  BY <1>10, <1>11 DEF Marcados
<1>13. ASSUME NEW f \in Ficheros, NEW g \in Ficheros, NEW i \in 1..MaxPorArchivo, NEW j \in 1..MaxPorArchivo,
              Vivo(f, i)', Vivo(g, j)', archivos'[f].bloques[i] = archivos'[g].bloques[j]
       PROVE  Exento(archivos[f].bloques[i])' \/ (f = g /\ i = j)
  <2>1. VivoSigue(f, i) /\ VivoSigue(g, j)
    BY <1>4, <1>13
  <2>2. Exento(archivos[f].bloques[i]) \/ (f = g /\ i = j)
    BY <1>13, <2>1 DEF VivoSigue, Repartidos
  <2> QED
    BY <1>1, <2>1, <2>2 DEF VivoSigue, Exento
<1>14. ASSUME NEW f \in Ficheros, NEW g \in Hilos, NEW i \in 1..MaxPorArchivo, NEW j \in 1..MaxPorArchivo,
              Vivo(f, i)', Tomado(g, j)', archivos'[f].bloques[i] = Bloque(g, j)'
       PROVE  Exento(Bloque(g, j))'
  <2>1. VivoSigue(f, i)
    BY <1>4, <1>14
  <2>2. CASE TomadoSigue(g, j)
    <3>1. Exento(Bloque(g, j))
      BY <1>14, <2>1, <2>2 DEF VivoSigue, TomadoSigue, Repartidos
    <3> QED
      BY <1>1, <2>2, <3>1 DEF TomadoSigue, Exento
  <2>3. CASE Bloque(g, j)' = b
    <3>1. archivos[f].bloques[i] = b /\ Marcado(archivos[f].bloques[i])
      BY <1>14, <2>1, <2>3 DEF VivoSigue, Marcados
    <3>2. Exento(b)
      BY <1>6, <3>1
    <3> QED
      BY <1>1, <2>3, <3>2 DEF Exento
  <2> QED
    BY <1>5, <1>14, <2>2, <2>3
<1>15. ASSUME NEW g \in Hilos, NEW i \in 1..MaxPorArchivo, TomadoSigue(g, i), Bloque(g, i)' = b
       PROVE  Exento(b)
  <2>1. Marcado(Bloque(g, i)) /\ Bloque(g, i) = b
    BY <1>15 DEF TomadoSigue, Marcados
  <2> QED
    BY <1>6, <2>1
<1>16. ASSUME NEW g \in Hilos, NEW k \in Hilos, NEW i \in 1..MaxPorArchivo, NEW j \in 1..MaxPorArchivo,
              Tomado(g, i)', Tomado(k, j)', Bloque(g, i)' = Bloque(k, j)'
       PROVE  Exento(Bloque(g, i))' \/ (g = k /\ i = j)
  <2>1. CASE TomadoSigue(g, i) /\ TomadoSigue(k, j)
    <3>1. Exento(Bloque(g, i)) \/ (g = k /\ i = j)
      BY <1>16, <2>1 DEF TomadoSigue, Repartidos
    <3> QED
      BY <1>1, <2>1, <3>1 DEF TomadoSigue, Exento
  <2>2. CASE Exento(b) /\ Bloque(g, i)' = b
    BY <1>1, <2>2 DEF Exento
  <2> QED
    BY <1>5, <1>15, <1>16, <2>1, <2>2
<1> QED
  BY <1>12, <1>13, <1>14, <1>16 DEF Repartidos

\* CREATE finds the block of a file that it makes at once.
LEMMA RepartoCrea ==
  ASSUME Base, Leidos, Repartidos, Marcados, NEW h \in Hilos, Encuentra(h), op[h] = "create"
  PROVE  Repartidos' /\ Marcados'
<1>1. PICK b \in Bits : /\ b \notin bitmap /\ bloque'[h] = b /\ pc'[h] = "prende" /\ pc[h] = "busca"
                        /\ op'[h] = op[h] /\ UNCHANGED riesgo
                        /\ archivos'[Suyo(h)].bloques = <<b>>
  BY LoEncontrado
<1>2. Trabaja(h) /\ ~CreaArchivo(h) /\ ~Apaga(h)
  BY <1>1 DEF Trabaja, CreaArchivo, Apaga, En
<1>3. PICK S : S = Suyo(h)
  OBVIOUS
<1>4. ASSUME NEW f \in Ficheros, NEW i \in 1..MaxPorArchivo, Vivo(f, i)'
      PROVE  VivoSigue(f, i) \/ (f = S /\ i = 1 /\ archivos'[f].bloques[i] = b)
  <2>1. CASE f = S
    <3>1. archivos'[f].bloques = <<b>>
      BY <1>1, <1>3, <2>1
    <3>2. i \in 1..Len(<<b>>)
      BY <1>4, <3>1 DEF Vivo
    <3> QED
      BY <2>1, <3>1, <3>2
  <2>2. CASE f # S
    BY <1>2, <1>3, <1>4, <2>2, VivoAjeno
  <2> QED
    BY <2>1, <2>2
<1>5. ASSUME NEW g \in Hilos, NEW i \in 1..MaxPorArchivo, Tomado(g, i)'
      PROVE  TomadoSigue(g, i)
  <2>1. g # h
    BY <1>1, <1>5 DEF Tomado
  <2> QED
    BY <1>2, <1>5, <2>1, TomadoAjeno
<1>6. Marcado(b) => Exento(b)
  BY <1>1, Fresca
<1>7. \A x : Marcado(x) => Marcado(x)'
  BY <1>1, <1>2, MarcadoSigue
<1>8. Marcado(b)'
  BY <1>1 DEF Marcado
<1>9. ASSUME NEW f \in Ficheros, NEW i \in 1..MaxPorArchivo, VivoSigue(f, i), archivos'[f].bloques[i] = b
      PROVE  Exento(b)
  <2>1. Marcado(archivos[f].bloques[i]) /\ archivos[f].bloques[i] = b
    BY <1>9 DEF VivoSigue, Marcados
  <2> QED
    BY <1>6, <2>1
<1>10. ASSUME NEW f \in Ficheros, NEW i \in 1..MaxPorArchivo, Vivo(f, i)'
       PROVE  Marcado(archivos[f].bloques[i])'
  <2>1. CASE VivoSigue(f, i)
    <3>1. Marcado(archivos[f].bloques[i])
      BY <2>1 DEF VivoSigue, Marcados
    <3> QED
      BY <1>7, <2>1, <3>1 DEF VivoSigue, Marcado, Exento
  <2>2. CASE archivos'[f].bloques[i] = b
    BY <1>8, <2>2 DEF Marcado, Exento
  <2> QED
    BY <1>4, <1>10, <2>1, <2>2
<1>11. ASSUME NEW g \in Hilos, NEW i \in 1..MaxPorArchivo, Tomado(g, i)'
       PROVE  Marcado(Bloque(g, i))'
  <2>1. TomadoSigue(g, i)
    BY <1>5, <1>11
  <2>2. Marcado(Bloque(g, i))
    BY <2>1 DEF TomadoSigue, Marcados
  <2> QED
    BY <1>7, <2>1, <2>2 DEF TomadoSigue, Marcado, Exento
<1>12. Marcados'
  BY <1>10, <1>11 DEF Marcados
<1>13. ASSUME NEW f \in Ficheros, NEW g \in Ficheros, NEW i \in 1..MaxPorArchivo, NEW j \in 1..MaxPorArchivo,
              Vivo(f, i)', Vivo(g, j)', archivos'[f].bloques[i] = archivos'[g].bloques[j]
       PROVE  Exento(archivos[f].bloques[i])' \/ (f = g /\ i = j)
  <2>1. CASE VivoSigue(f, i) /\ VivoSigue(g, j)
    <3>1. Exento(archivos[f].bloques[i]) \/ (f = g /\ i = j)
      BY <1>13, <2>1 DEF VivoSigue, Repartidos
    <3> QED
      BY <1>1, <2>1, <3>1 DEF VivoSigue, Exento
  <2>2. CASE Exento(b) /\ archivos'[f].bloques[i] = b
    BY <1>1, <2>2 DEF Exento
  <2> QED
    BY <1>4, <1>9, <1>13, <2>1, <2>2
<1>14. ASSUME NEW f \in Ficheros, NEW g \in Hilos, NEW i \in 1..MaxPorArchivo, NEW j \in 1..MaxPorArchivo,
              Vivo(f, i)', Tomado(g, j)', archivos'[f].bloques[i] = Bloque(g, j)'
       PROVE  Exento(Bloque(g, j))'
  <2>1. TomadoSigue(g, j)
    BY <1>5, <1>14
  <2>2. CASE VivoSigue(f, i)
    <3>1. Exento(Bloque(g, j))
      BY <1>14, <2>1, <2>2 DEF VivoSigue, TomadoSigue, Repartidos
    <3> QED
      BY <1>1, <2>1, <3>1 DEF TomadoSigue, Exento
  <2>3. CASE archivos'[f].bloques[i] = b
    <3>1. Bloque(g, j) = b /\ Marcado(Bloque(g, j))
      BY <1>14, <2>1, <2>3 DEF TomadoSigue, Marcados
    <3>2. Exento(b) /\ Bloque(g, j)' = b
      BY <1>6, <1>14, <2>3, <3>1
    <3> QED
      BY <1>1, <3>2 DEF Exento
  <2> QED
    BY <1>4, <1>14, <2>2, <2>3
<1>15. ASSUME NEW g \in Hilos, NEW k \in Hilos, NEW i \in 1..MaxPorArchivo, NEW j \in 1..MaxPorArchivo,
              Tomado(g, i)', Tomado(k, j)', Bloque(g, i)' = Bloque(k, j)'
       PROVE  Exento(Bloque(g, i))' \/ (g = k /\ i = j)
  <2>1. TomadoSigue(g, i) /\ TomadoSigue(k, j)
    BY <1>5, <1>15
  <2>2. Exento(Bloque(g, i)) \/ (g = k /\ i = j)
    BY <1>15, <2>1 DEF TomadoSigue, Repartidos
  <2> QED
    BY <1>1, <2>1, <2>2 DEF TomadoSigue, Exento
<1> QED
  BY <1>12, <1>13, <1>14, <1>15 DEF Repartidos

\* The blocks a thread has taken become those of its file.
LEMMA RepartoArchivo ==
  ASSUME Base, Leidos, Repartidos, Marcados, NEW h \in Hilos, CreaArchivo(h)
  PROVE  Repartidos' /\ Marcados'
<1>1. /\ TypeOK /\ Oficio(h) /\ pc[h] = "crea" /\ tomados[h] \in Seq(Numeros) /\ UNCHANGED riesgo
      /\ Trabaja(h) /\ ~Apaga(h) /\ Suyo(h) \in Ficheros
  BY DeBase, SuyoFichero, BaseSuelta DEF Base, Suelta, CreaArchivo, Trabaja, Apaga, En
<1>2. PICK S : S = Suyo(h) /\ archivos'[S].bloques = tomados[h]
  BY <1>1 DEF CreaArchivo, TypeOK, Ficheros
<1>3. pc'[h] = "carga" /\ op[h] # "create"
  BY <1>1 DEF CreaArchivo, Va, TypeOK, Oficio, Tomando
<1>4. ASSUME NEW f \in Ficheros, NEW i \in 1..MaxPorArchivo, Vivo(f, i)'
      PROVE  \/ f # S /\ VivoSigue(f, i)
             \/ f = S /\ Tomado(h, i) /\ archivos'[f].bloques[i] = Bloque(h, i)
  <2>1. CASE f = S
    <3>1. i \in 1..Len(tomados[h]) /\ i # Len(tomados[h]) + 1
      BY <1>1, <1>2, <1>4, <2>1 DEF Vivo
    <3> QED
      BY <1>1, <1>2, <1>3, <2>1, <3>1 DEF Tomado, Bloque
  <2>2. CASE f # S
    BY <1>1, <1>2, <1>4, <2>2, VivoAjeno
  <2> QED
    BY <2>1, <2>2
<1>5. ASSUME NEW g \in Hilos, NEW i \in 1..MaxPorArchivo, Tomado(g, i)'
      PROVE  g # h /\ TomadoSigue(g, i)
  <2>1. g # h
    BY <1>3, <1>5 DEF Tomado
  <2> QED
    BY <1>1, <1>5, <2>1, TomadoAjeno
<1>6. \A x : Marcado(x) => Marcado(x)'
  BY <1>1, MarcadoSigue
<1>7. ASSUME NEW f \in Ficheros, NEW i \in 1..MaxPorArchivo, Vivo(f, i)'
      PROVE  Marcado(archivos[f].bloques[i])'
  <2>1. PICK x : x = archivos'[f].bloques[i]
    OBVIOUS
  <2>2. Marcado(x)
    BY <1>4, <1>7, <2>1 DEF VivoSigue, Marcados
  <2>3. Marcado(x)'
    BY <1>6, <2>2
  <2> QED
    BY <2>1, <2>3 DEF Marcado, Exento
<1>8. ASSUME NEW g \in Hilos, NEW i \in 1..MaxPorArchivo, Tomado(g, i)'
      PROVE  Marcado(Bloque(g, i))'
  <2>1. TomadoSigue(g, i)
    BY <1>5, <1>8
  <2>2. Marcado(Bloque(g, i))
    BY <2>1 DEF TomadoSigue, Marcados
  <2> QED
    BY <1>6, <2>1, <2>2 DEF TomadoSigue, Marcado, Exento
<1>9. Marcados'
  BY <1>7, <1>8 DEF Marcados
<1>10. ASSUME NEW f \in Ficheros, NEW g \in Ficheros, NEW i \in 1..MaxPorArchivo, NEW j \in 1..MaxPorArchivo,
              Vivo(f, i)', Vivo(g, j)', archivos'[f].bloques[i] = archivos'[g].bloques[j]
       PROVE  Exento(archivos[f].bloques[i])' \/ (f = g /\ i = j)
  <2>1. PICK x : x = archivos'[f].bloques[i] /\ x = archivos'[g].bloques[j]
    BY <1>10
  <2>2. CASE f # S /\ g # S
    <3>1. VivoSigue(f, i) /\ VivoSigue(g, j)
      BY <1>4, <1>10, <2>2
    <3> QED
      BY <1>1, <2>1, <3>1 DEF VivoSigue, Repartidos, Exento
  <2>3. CASE f = S /\ g = S
    <3>1. Tomado(h, i) /\ Tomado(h, j) /\ Bloque(h, i) = x /\ Bloque(h, j) = x
      BY <1>4, <1>10, <2>1, <2>3
    <3>2. Exento(x) \/ i = j
      BY <3>1 DEF Repartidos
    <3> QED
      BY <1>1, <2>1, <2>3, <3>2 DEF Exento
  <2>4. CASE f = S /\ g # S
    <3>1. Tomado(h, i) /\ VivoSigue(g, j) /\ Bloque(h, i) = x
      BY <1>4, <1>10, <2>1, <2>4
    <3>2. Vivo(g, j) /\ archivos[g].bloques[j] = Bloque(h, i)
      BY <2>1, <3>1 DEF VivoSigue
    <3>3. Exento(x)
      BY <3>1, <3>2 DEF Repartidos
    <3> QED
      BY <1>1, <2>1, <3>3 DEF Exento
  <2>5. CASE f # S /\ g = S
    <3>1. Tomado(h, j) /\ VivoSigue(f, i) /\ Bloque(h, j) = x
      BY <1>4, <1>10, <2>1, <2>5
    <3>2. Vivo(f, i) /\ archivos[f].bloques[i] = Bloque(h, j)
      BY <2>1, <3>1 DEF VivoSigue
    <3>3. Exento(x)
      BY <3>1, <3>2 DEF Repartidos
    <3> QED
      BY <1>1, <2>1, <3>3 DEF Exento
  <2> QED
    BY <2>2, <2>3, <2>4, <2>5
<1>11. ASSUME NEW f \in Ficheros, NEW g \in Hilos, NEW i \in 1..MaxPorArchivo, NEW j \in 1..MaxPorArchivo,
              Vivo(f, i)', Tomado(g, j)', archivos'[f].bloques[i] = Bloque(g, j)'
       PROVE  Exento(Bloque(g, j))'
  <2>1. g # h /\ TomadoSigue(g, j)
    BY <1>5, <1>11
  <2>2. CASE VivoSigue(f, i)
    BY <1>1, <1>11, <2>1, <2>2 DEF VivoSigue, TomadoSigue, Repartidos, Exento
  <2>3. CASE Tomado(h, i) /\ archivos'[f].bloques[i] = Bloque(h, i)
    BY <1>1, <1>11, <2>1, <2>3 DEF TomadoSigue, Repartidos, Exento
  <2> QED
    BY <1>4, <1>11, <2>2, <2>3
<1>12. ASSUME NEW g \in Hilos, NEW k \in Hilos, NEW i \in 1..MaxPorArchivo, NEW j \in 1..MaxPorArchivo,
              Tomado(g, i)', Tomado(k, j)', Bloque(g, i)' = Bloque(k, j)'
       PROVE  Exento(Bloque(g, i))' \/ (g = k /\ i = j)
  <2>1. TomadoSigue(g, i) /\ TomadoSigue(k, j)
    BY <1>5, <1>12
  <2> QED
    BY <1>1, <1>12, <2>1 DEF TomadoSigue, Repartidos, Exento
<1> QED
  BY <1>9, <1>10, <1>11, <1>12 DEF Repartidos

\* An operation that starts changes no place but by renaming its file.
LEMMA EmpiezaLugares ==
  ASSUME Base, NEW h \in Hilos, NEW o, NEW t, NEW k, NEW n, NEW s, NEW lugar \in {"pide", "pideLimpiar"},
         Empieza(h, o, t, k, n, s, lugar), riesgo \subseteq riesgo'
  PROVE  /\ TomadosSiguen
         /\ \A f \in Ficheros : \A i \in 1..MaxPorArchivo :
              Vivo(f, i)' /\ archivos'[f] = archivos[f] => VivoSigue(f, i)
         /\ \A b : Marcado(b) => Marcado(b)'
<1>1. pc[h] = "libre" /\ pc'[h] = lugar /\ TypeOK
  BY EmpiezaPropio, BaseSuelta DEF Base, Suelta
<1>2. \A g \in Hilos \ {h} : /\ pc'[g] = pc[g] /\ op'[g] = op[g] /\ Suyo(g)' = Suyo(g)
                             /\ bloque'[g] = bloque[g] /\ tomados'[g] = tomados[g] /\ dados'[g] = dados[g]
  BY <1>1, EmpiezaAjenos DEF Suyo, Parado
<1>3. ASSUME NEW g \in Hilos, NEW i, Tomado(g, i)' PROVE TomadoSigue(g, i)
  <2>1. g # h
    BY <1>1, <1>3 DEF Tomado
  <2> QED
    BY <1>2, <1>3, <2>1 DEF Tomado, TomadoSigue, Bloque
<1>4. ASSUME NEW f \in Ficheros, NEW i, Vivo(f, i)', archivos'[f] = archivos[f] PROVE VivoSigue(f, i)
  <2>1. ASSUME NEW g \in Hilos, Suyo(g) = f PROVE i > dados[g]
    <3>1. g # h
      BY <1>1, <2>1, SuyoDeNadie
    <3> QED
      BY <1>2, <1>4, <2>1, <3>1 DEF Vivo
  <2> QED
    BY <1>4, <2>1 DEF Vivo, VivoSigue
<1>5. ASSUME NEW b, Marcado(b) PROVE Marcado(b)'
  <2>1. CASE b \in bitmap \/ Exento(b)
    BY <2>1 DEF Marcado, Exento, Empieza
  <2>2. ASSUME NEW g \in Hilos, pc[g] = "prende", bloque[g] = b PROVE Marcado(b)'
    BY <1>1, <1>2, <2>2 DEF Marcado
  <2> QED
    BY <1>5, <2>1, <2>2 DEF Marcado
<1>6. TomadosSiguen
  BY <1>3 DEF TomadosSiguen
<1> QED
  BY <1>4, <1>5, <1>6

LEMMA RepartoEmpieza ==
  ASSUME Base, Repartidos, Marcados, NEW h \in Hilos, NEW o, NEW t, NEW k, NEW n, NEW s,
         NEW lugar \in {"pide", "pideLimpiar"}, Empieza(h, o, t, k, n, s, lugar), UNCHANGED <<archivos, riesgo>>
  PROVE  Repartidos' /\ Marcados'
<1>1. TomadosSiguen /\ VivosSiguen /\ \A b : Marcado(b) => Marcado(b)'
  BY EmpiezaLugares DEF VivosSiguen
<1> QED
  BY <1>1, RepartidosIgual, MarcadosIgual

\* The places of the temporal are now those of the .tmpc, and there are no others there.
LEMMA VivoCompactar ==
  ASSUME Base, NEW t \in Tablas, compactarSola(t), NEW a, NEW c, a = <<t, "tmp">>, c = <<t, "tmpc">>,
         NEW f \in Ficheros, NEW i \in 1..MaxPorArchivo, Vivo(f, i)'
  PROVE  \/ f \notin {a, c} /\ VivoSigue(f, i)
         \/ /\ f = c /\ Vivo(a, i) /\ archivos'[f] = archivos[a]
            /\ archivos'[f].bloques[i] = archivos[a].bloques[i]
<1>0. PICK s : s = archivos[<<t, "bin">>].bloques
  OBVIOUS
<1>s. /\ compactar(t) /\ Encima(t) = {} /\ Suelta
      /\ riesgo' = riesgo \cup (IF Hay(t, "tmpc") THEN {"resto"} ELSE {})
  BY BaseSuelta DEF compactarSola, compactar
<1>1. t \in Hilos /\ Empieza(t, "compacta", t, "bin", 0, s, "pideLimpiar") /\ riesgo \subseteq riesgo'
  BY <1>0, <1>s DEF compactar, Hilos
<1>2. CASE f = a
  <2>1. Len(archivos'[f].bloques) = 0
    BY <1>2, <1>s, Renombra DEF NoHay
  <2> QED
    BY <2>1 DEF Vivo
<1>3. CASE f = c
  <2>1. \A g \in Hilos : Suyo(g) # a
    BY <1>s, Renombra, SinNadie DEF Suyo
  <2>2. archivos'[c] = archivos[a]
    BY <1>s, Renombra
  <2> QED
    BY <1>3, <2>1, <2>2 DEF Vivo
<1>4. CASE f \notin {a, c}
  <2>1. archivos'[f] = archivos[f]
    BY <1>4, <1>s, Renombra
  <2> QED
    BY <1>1, <1>4, <2>1, EmpiezaLugares
<1> QED
  BY <1>2, <1>3, <1>4

\* The blocks of the temporal are now those of the .tmpc.
LEMMA RepartoCompactar ==
  ASSUME Base, Repartidos, Marcados, NEW t \in Tablas, compactarSola(t)
  PROVE  Repartidos' /\ Marcados'
<1>0. PICK s : s = archivos[<<t, "bin">>].bloques
  OBVIOUS
<1>s. /\ compactar(t) /\ Encima(t) = {} /\ Suelta
      /\ riesgo' = riesgo \cup (IF Hay(t, "tmpc") THEN {"resto"} ELSE {})
  BY BaseSuelta DEF compactarSola, compactar
<1>1. t \in Hilos /\ Empieza(t, "compacta", t, "bin", 0, s, "pideLimpiar") /\ riesgo \subseteq riesgo'
  BY <1>0, <1>s DEF compactar, Hilos
<1>2. PICK a, c : a = <<t, "tmp">> /\ c = <<t, "tmpc">>
  OBVIOUS
<1>3. /\ a \in Ficheros /\ c \in Ficheros /\ a # c
      /\ archivos'[c] = archivos[a] /\ archivos'[a] = NoHay
      /\ \A f \in Ficheros : f \notin {a, c} => archivos'[f] = archivos[f]
  BY <1>2, <1>s, Renombra
<1>4. TomadosSiguen /\ \A b : Marcado(b) => Marcado(b)'
  BY <1>1, EmpiezaLugares
<1>5. ASSUME NEW f \in Ficheros, NEW i \in 1..MaxPorArchivo, Vivo(f, i)'
      PROVE  \/ f \notin {a, c} /\ VivoSigue(f, i)
             \/ f = c /\ Vivo(a, i) /\ archivos'[f].bloques[i] = archivos[a].bloques[i]
  BY <1>2, <1>5, VivoCompactar
<1>6. \A b : Exento(b) => Exento(b)'
  BY <1>1 DEF Exento
<1>7. ASSUME NEW f \in Ficheros, NEW i \in 1..MaxPorArchivo, Vivo(f, i)'
      PROVE  Marcado(archivos[f].bloques[i])'
  <2>1. PICK x : x = archivos'[f].bloques[i]
    OBVIOUS
  <2>2. Marcado(x)
    BY <1>3, <1>5, <1>7, <2>1 DEF VivoSigue, Marcados
  <2>3. Marcado(x)'
    BY <1>4, <2>2
  <2> QED
    BY <2>1, <2>3 DEF Marcado, Exento
<1>8. ASSUME NEW g \in Hilos, NEW i \in 1..MaxPorArchivo, Tomado(g, i)'
      PROVE  Marcado(Bloque(g, i))'
  <2>1. CASE TomadoSigue(g, i)
    <3>1. Marcado(Bloque(g, i))
      BY <2>1 DEF TomadoSigue, Marcados
    <3> QED
      BY <1>4, <2>1, <3>1 DEF TomadoSigue, Marcado, Exento
  <2>2. CASE Exento(Bloque(g, i))'
    BY <2>2 DEF Marcado, Exento
  <2> QED
    BY <1>4, <1>8, <2>1, <2>2 DEF TomadosSiguen
<1>9. Marcados'
  BY <1>7, <1>8 DEF Marcados
<1>10. ASSUME NEW f \in Ficheros, NEW g \in Ficheros, NEW i \in 1..MaxPorArchivo, NEW j \in 1..MaxPorArchivo,
              Vivo(f, i)', Vivo(g, j)', archivos'[f].bloques[i] = archivos'[g].bloques[j]
       PROVE  Exento(archivos[f].bloques[i])' \/ (f = g /\ i = j)
  <2>1. PICK x : x = archivos'[f].bloques[i] /\ x = archivos'[g].bloques[j]
    BY <1>10
  <2>2. PICK ff \in Ficheros : Vivo(ff, i) /\ archivos[ff].bloques[i] = x /\ ff = IF f = c THEN a ELSE f
    BY <1>3, <1>5, <1>10, <2>1 DEF VivoSigue
  <2>3. PICK gg \in Ficheros : Vivo(gg, j) /\ archivos[gg].bloques[j] = x /\ gg = IF g = c THEN a ELSE g
    BY <1>3, <1>5, <1>10, <2>1 DEF VivoSigue
  <2>4. f # a /\ g # a
    BY <1>3, <1>5, <1>10
  <2>5. Exento(x) \/ (ff = gg /\ i = j)
    BY <2>2, <2>3 DEF Repartidos
  <2>6. Exento(x)' \/ (f = g /\ i = j)
    BY <1>6, <2>2, <2>3, <2>4, <2>5
  <2> QED
    BY <2>1, <2>6 DEF Exento
<1>11. ASSUME NEW f \in Ficheros, NEW g \in Hilos, NEW i \in 1..MaxPorArchivo, NEW j \in 1..MaxPorArchivo,
              Vivo(f, i)', Tomado(g, j)', archivos'[f].bloques[i] = Bloque(g, j)'
       PROVE  Exento(Bloque(g, j))'
  <2>1. PICK x : x = archivos'[f].bloques[i] /\ x = Bloque(g, j)'
    BY <1>11
  <2>2. PICK ff \in Ficheros : Vivo(ff, i) /\ archivos[ff].bloques[i] = x
    BY <1>3, <1>5, <1>11, <2>1 DEF VivoSigue
  <2>3. CASE TomadoSigue(g, j)
    <3>1. Tomado(g, j) /\ Bloque(g, j) = x
      BY <2>1, <2>3 DEF TomadoSigue
    <3>2. Exento(x)
      BY <2>2, <3>1 DEF Repartidos
    <3>3. Exento(x)'
      BY <1>6, <3>2
    <3> QED
      BY <2>1, <3>3 DEF Exento
  <2> QED
    BY <1>4, <1>11, <2>3 DEF TomadosSiguen
<1>12. ASSUME NEW g \in Hilos, NEW k \in Hilos, NEW i \in 1..MaxPorArchivo, NEW j \in 1..MaxPorArchivo,
              Tomado(g, i)', Tomado(k, j)', Bloque(g, i)' = Bloque(k, j)'
       PROVE  Exento(Bloque(g, i))' \/ (g = k /\ i = j)
  <2>1. CASE TomadoSigue(g, i) /\ TomadoSigue(k, j)
    <3>1. Exento(Bloque(g, i)) \/ (g = k /\ i = j)
      BY <1>12, <2>1 DEF TomadoSigue, Repartidos
    <3> QED
      BY <1>1, <2>1, <3>1 DEF TomadoSigue, Exento
  <2>2. CASE Exento(Bloque(k, j))'
    BY <1>12, <2>2 DEF Exento
  <2> QED
    BY <1>4, <1>12, <2>1, <2>2 DEF TomadosSiguen
<1> QED
  BY <1>9, <1>10, <1>11, <1>12 DEF Repartidos

-----------------------------------------------------------------------------
(* A crash, and the theorem.                                                *)

\* After a crash a block is marked whoever was marking it: its bit was being set for a
\* file that does not exist, unless it was of a CREATE.
LEMMA RepartoCae ==
  ASSUME Base, Repartidos, Marcados, Cae, "repite" \notin riesgo'
  PROVE  Repartidos' /\ Marcados'
<1>1. /\ UNCHANGED <<bitmap, archivos>> /\ riesgo \subseteq riesgo'
      /\ \A h \in Hilos : pc'[h] = "libre" /\ dados'[h] = 0
  BY DEF Cae, Reinicia, Todos, disco
<1>2. ASSUME NEW h \in Hilos PROVE /\ dados[h] = 0 /\ dados[h] \in Nat
                                   /\ pc[h] = "prende" => op[h] # "create"
  <2>1. ~(dados[h] > 0 \/ (op[h] = "create" /\ pc[h] = "prende"))
    BY DEF Cae
  <2>2. dados[h] \in Nat
    BY DeBase, ConstantesBloques
  <2> QED
    BY <2>1, <2>2
<1>3. ASSUME NEW h \in Hilos, NEW i PROVE ~Tomado(h, i)'
  BY <1>1 DEF Tomado
<1>4. ASSUME NEW f \in Ficheros, NEW i \in 1..MaxPorArchivo, Vivo(f, i)' PROVE VivoSigue(f, i)
  BY <1>1, <1>2, <1>4 DEF Vivo, VivoSigue
<1>5. VivosSiguen /\ TomadosSiguen
  BY <1>3, <1>4 DEF VivosSiguen, TomadosSiguen
<1>6. Repartidos'
  BY <1>1, <1>5, RepartidosIgual
<1>7. ASSUME NEW f \in Ficheros, NEW i \in 1..MaxPorArchivo, Vivo(f, i)'
      PROVE  Marcado(archivos[f].bloques[i])'
  <2>1. Vivo(f, i) /\ Marcado(archivos[f].bloques[i])
    BY <1>4, <1>7 DEF VivoSigue, Marcados
  <2>2. CASE archivos[f].bloques[i] \in bitmap \/ Exento(archivos[f].bloques[i])
    BY <1>1, <2>2 DEF Marcado, Exento
  <2>3. ASSUME NEW h \in Hilos, pc[h] = "prende", bloque[h] = archivos[f].bloques[i]
        PROVE  Exento(archivos[f].bloques[i])
    <3>1. PICK j : j = Len(tomados[h]) + 1
      OBVIOUS
    <3>2. j \in 1..MaxPorArchivo
      BY <2>3, <3>1, DeBase, ConstantesBloques DEF Cuentas, Tomando
    <3>3. Tomado(h, j) /\ Bloque(h, j) = bloque[h]
      BY <1>2, <2>3, <3>1 DEF Tomado, Bloque
    <3> QED
      BY <2>1, <2>3, <3>2, <3>3 DEF Repartidos
  <2> QED
    BY <2>1, <2>2, <2>3 DEF Marcado
<1>8. Marcados'
  BY <1>3, <1>7 DEF Marcados
<1> QED
  BY <1>6, <1>8

LEMMA RepartoTrabaja ==
  ASSUME Base, Leidos, Repartidos, Marcados, NEW h \in Hilos, Trabaja(h), riesgo \subseteq riesgo',
         "byte" \notin riesgo'
  PROVE  Repartidos' /\ Marcados'
<1>1. CASE Encuentra(h)
  BY <1>1, RepartoEncuentra, RepartoCrea
<1>2. CASE CreaArchivo(h)
  BY <1>2, RepartoArchivo
<1>3. CASE Apaga(h)
  <2>1. ~Cruza(h)
    BY <1>3 DEF Apaga
  <2> QED
    BY <1>3, <2>1, RepartoApaga
<1>4. CASE ~Encuentra(h) /\ ~CreaArchivo(h) /\ ~Apaga(h)
  BY <1>4, RepartoSinTomar
<1> QED
  BY <1>1, <1>2, <1>3, <1>4

LEMMA LugaresIguales ==
  ASSUME Repartidos, Marcados, UNCHANGED vars
  PROVE  Repartidos' /\ Marcados'
<1> USE DEF vars, disco, locales, pedido, toma
<1>1. VivosSiguen
  BY DEF VivosSiguen, VivoSigue, Vivo, Suyo
<1>2. TomadosSiguen
  BY DEF TomadosSiguen, TomadoSigue, Tomado, Bloque
<1>3. \A b : Marcado(b) => Marcado(b)'
  BY DEF Marcado, Exento
<1> QED
  BY <1>1, <1>2, <1>3, RepartidosIgual, MarcadosIgual

LEMMA LugaresSiguen ==
  ASSUME Inv, [Next]_vars, SinSolapes', riesgo' \cap {"byte", "repite"} = {}
  PROVE  Repartidos' /\ Marcados'
<1>1. riesgo \subseteq riesgo'
  BY RiesgoCrece DEF vars
<1>2. Base /\ Leidos /\ Repartidos /\ Marcados
  BY <1>1 DEF Inv, SinSolapes
<1>3. Clientes \subseteq Hilos /\ Tablas \subseteq Hilos /\ Volcador \in Hilos
  BY DEF Hilos
<1>4. CASE \E t \in Tablas, c \in Clientes : CREATE(c, t) \/ DROP(c, t)
  <2>1. PICK t \in Tablas, c \in Clientes : CREATE(c, t) \/ DROP(c, t)
    BY <1>4
  <2>2. DROP(c, t) => UNCHANGED <<archivos, riesgo>>
    BY Solas DEF DROP
  <2> QED
    BY <1>2, <1>3, <2>1, <2>2, RepartoEmpieza DEF CREATE, DROP
<1>5. CASE \E t \in Tablas : dump(t) \/ compactar(t)
  <2>1. PICK t \in Tablas : dump(t) \/ compactar(t)
    BY <1>5
  <2>2. CASE dump(t)
    BY <1>2, <1>3, <2>2, RepartoEmpieza DEF dump
  <2> QED
    BY <1>2, <2>1, <2>2, Solas, RepartoCompactar
<1>6. CASE \E h \in Hilos : Trabaja(h) /\ UNCHANGED pedidos
  BY <1>1, <1>2, <1>6, RepartoTrabaja
<1>7. CASE Cae /\ UNCHANGED pedidos
  BY <1>2, <1>7, RepartoCae
<1>8. CASE UNCHANGED vars
  BY <1>2, <1>8, LugaresIguales
<1> QED
  BY <1>4, <1>5, <1>6, <1>7, <1>8, LosPasos

LEMMA InvInicial == Init => Inv
<1> SUFFICES ASSUME Init PROVE Inv
  OBVIOUS
<1>1. Base
  BY BaseInicial
<1>2. \A h \in Hilos : pc[h] = "libre"
  BY DEF Init, Todos
<1>3. Leidos
  BY <1>2 DEF Leidos
<1>4. \A f \in Ficheros : archivos[f].bloques = <<>>
  BY DEF Init, Ficheros, NoHay
<1>5. /\ \A f \in Ficheros, i \in 1..MaxPorArchivo : ~Vivo(f, i)
      /\ \A h \in Hilos, i \in 1..MaxPorArchivo : ~Tomado(h, i)
  BY <1>2, <1>4 DEF Vivo, Tomado
<1>6. Repartidos /\ Marcados
  BY <1>5 DEF Repartidos, Marcados
<1> QED
  BY <1>1, <1>3, <1>6, BaseSuelta DEF Inv

LEMMA InvSigue == Inv /\ [Next]_vars => Inv'
<1> SUFFICES ASSUME Inv, [Next]_vars PROVE Inv'
  OBVIOUS
<1>0. Suelta'
  BY SueltaSigue DEF Inv
<1>1. ASSUME SinSolapes' PROVE Base'
  <2>1. Base
    BY <1>1, RiesgoCrece DEF vars, Inv, SinSolapes
  <2> QED
    BY <1>1, <2>1, BaseSigue
<1>2. SinSolapes' /\ "byte" \notin riesgo' => Leidos'
  BY LeidosSigue
<1>3. SinSolapes' /\ riesgo' \cap {"byte", "repite"} = {} => Repartidos' /\ Marcados'
  BY LugaresSiguen
<1> QED
  BY <1>0, <1>1, <1>2, <1>3 DEF Inv, SinSolapes

\* The blocks a file lists, but those given back, are in its places.
LEMMA EnSuLugar ==
  ASSUME Suelta, NEW f \in Tablas \X Tipos, NEW b \in BloquesDe(f)
  PROVE  \E i \in 1..MaxPorArchivo : Vivo(f, i) /\ archivos[f].bloques[i] = b
<1>1. PICK i \in 1..Len(archivos[f].bloques) : i \notin Dados(f) /\ archivos[f].bloques[i] = b
  BY DEF BloquesDe
<1>2. archivos[f].bloques \in Seq(Numeros) /\ Len(archivos[f].bloques) <= MaxPorArchivo
  BY DEF Suelta, TypeOK, Ficheros, ConBloques
<1>3. i \in 1..MaxPorArchivo
  BY <1>2, ConstantesBloques
<1>4. ASSUME NEW h \in Hilos, Suyo(h) = f PROVE i > dados[h]
  <2>1. tabla[h] = f[1] /\ cual[h] = f[2]
    BY <1>4 DEF Suyo
  <2>2. ~(i <= dados[h]) /\ dados[h] \in Nat /\ i \in Nat
    BY <1>1, <1>3, <2>1, DeSuelta, ConstantesBloques DEF Dados
  <2> QED
    BY <2>2
<1>5. Vivo(f, i)
  BY <1>4 DEF Vivo
<1> QED
  BY <1>1, <1>3, <1>5

LEMMA InvBasta == Inv => SinCompartir
<1> SUFFICES ASSUME Inv, riesgo \cap ({"byte", "repite"} \cup Solapes) = {},
                    NEW f \in Tablas \X Tipos, NEW g \in Tablas \X Tipos,
                    NEW b \in BloquesDe(f) \cap BloquesDe(g), f # g
             PROVE  b = BLOCKS /\ "lleno" \in riesgo
  BY DEF SinCompartir
<1>1. PICK i \in 1..MaxPorArchivo : Vivo(f, i) /\ archivos[f].bloques[i] = b
  BY EnSuLugar DEF Inv
<1>2. PICK j \in 1..MaxPorArchivo : Vivo(g, j) /\ archivos[g].bloques[j] = b
  BY EnSuLugar DEF Inv
<1>3. Exento(b)
  BY <1>1, <1>2 DEF Inv, SinSolapes, Repartidos, Ficheros
<1> QED
  BY <1>3 DEF Exento

\* Wherever the process crashes, two files list the same block only if the disk has been
\* full, DROP or the compaction has started over another operation of its table, a byte of
\* the bitmap was written over, or a crash stopped a removal.
THEOREM NoCompartenBloques == Spec => []SinCompartir
  BY InvInicial, InvSigue, InvBasta, PTL DEF Spec

-----------------------------------------------------------------------------
(* No leaks: every bit that is set is of a block in some place.             *)

\* A file that is being made was not there, and one that goes has given back all of its
\* blocks.
Estreno(h) ==
  /\ pc[h] \in {"pide", "busca", "crea"} \/ (pc[h] = "prende" /\ op[h] # "create")
       => archivos[Suyo(h)] = NoHay
  /\ pc[h] = "prende" /\ op[h] = "create" => archivos[Suyo(h)].bloques = <<bloque[h]>>
  /\ pc[h] \in Tomando /\ op[h] = "create" => faltan[h] = 1
  /\ pc[h] = "borra" => dados[h] <= Len(archivos[Suyo(h)].bloques)
  /\ pc[h] = "quita" => dados[h] = Len(archivos[Suyo(h)].bloques)
  /\ pc[h] = "termina" /\ op[h] # "create" => tomados[h] = <<>>

\* A directory goes when it has no files.
ConCarpeta == \A t \in Tablas, k \in Tipos : Hay(t, k) => t \in carpetas

\* Place i of a thread, with its bit set.
Reservado(h, i) == op[h] # "create" /\ pc[h] # "carga" /\ i \in 1..Len(tomados[h])
Listado(b) ==
  \/ \E f \in Ficheros, i \in 1..MaxPorArchivo : Vivo(f, i) /\ archivos[f].bloques[i] = b
  \/ \E h \in Hilos : \E i \in Nat : Reservado(h, i) /\ tomados[h][i] = b
Listados == \A b \in bitmap : Listado(b)

Estrenos == (\A h \in Hilos : Estreno(h)) /\ ConCarpeta
InvFuga ==
  /\ Inv
  /\ SinSolapes => Estrenos
  /\ SinSolapes /\ riesgo \cap {"byte", "pierde", "resto"} = {} => Listados

LEMMA EstrenoAjeno ==
  ASSUME NEW g \in Hilos, Ajeno(g), Estreno(g)
  PROVE  Estreno(g)'
<1>1. Suyo(g)' = Suyo(g)
  BY DEF Suyo, Ajeno, Parado
<1>2. pc[g] \in Lugares \ {"libre"} => archivos'[Suyo(g)] = archivos[Suyo(g)]
  BY DEF Ajeno, Parado
<1> QED
  BY <1>1, <1>2 DEF Estreno, Ajeno, Parado, Tomando, Lugares, NoHay

LEMMA EstrenoPropio ==
  ASSUME Base, NEW h \in Hilos, Trabaja(h), Estreno(h)
  PROVE  Estreno(h)'
<1>a. /\ TypeOK /\ Oficio(h) /\ Cuentas(h) /\ DeLista(h) /\ DeSuArchivo(h)
      /\ tomados[h] \in Seq(Numeros) /\ faltan[h] \in 0..MaxPorArchivo /\ dados[h] \in Nat
  BY DeBase, ConstantesBloques
<1>b. /\ Suyo(h) \in Ficheros /\ archivos \in [Ficheros -> [bloques : Seq(Numeros), escrito : BOOLEAN]]
      /\ Len(archivos[Suyo(h)].bloques) \in Nat
  <2>1. Suyo(h) \in Ficheros /\ archivos \in [Ficheros -> [bloques : Seq(Numeros), escrito : BOOLEAN]]
    BY NoEsLibre, SuyoFichero, BaseSuelta DEF Base, Suelta, TypeOK, Ficheros
  <2> QED
    BY <2>1
<1> USE DEF Va, En, disco, semaforos, pedido, toma, locales, TypeOK, Tomando
<1>1. CASE PideBits(h)
  BY <1>1, <1>a DEF PideBits, Suyo, Estreno
<1>2. CASE Encuentra(h)
  <2>1. PICK b \in Bits : /\ bloque'[h] = b /\ pc'[h] = "prende" /\ pc[h] = "busca" /\ op'[h] = op[h]
                          /\ op[h] = "create" => archivos'[Suyo(h)].bloques = <<b>>
                          /\ op[h] # "create" => UNCHANGED archivos
    BY <1>2, LoEncontrado
  <2>2. Suyo(h)' = Suyo(h) /\ faltan'[h] = faltan[h]
    BY <1>2 DEF Encuentra, Suyo
  <2> QED
    BY <2>1, <2>2 DEF Estreno
<1>3. CASE Fantasma(h)
  <2>1. pc'[h] \in {"busca", "crea"} /\ UNCHANGED <<archivos, op, faltan>> /\ Suyo(h)' = Suyo(h)
        /\ pc[h] = "busca" /\ op[h] # "create"
    BY <1>3, <1>a DEF Fantasma, Toma, Suyo
  <2> QED
    BY <2>1 DEF Estreno
<1>4. CASE Prende(h)
  <2>1. /\ UNCHANGED <<archivos, op, faltan>> /\ Suyo(h)' = Suyo(h) /\ pc[h] = "prende"
        /\ pc'[h] = IF Len(tomados[h]) + 1 < faltan[h] THEN "busca"
                    ELSE IF op[h] = "create" THEN "termina" ELSE "crea"
    BY <1>4, <1>a DEF Prende, Toma, Suyo
  <2>2. op[h] = "create" => ~(Len(tomados[h]) + 1 < faltan[h])
    BY <1>a, <2>1 DEF Estreno
  <2> QED
    BY <2>1, <2>2 DEF Estreno
<1>5. CASE CreaArchivo(h)
  BY <1>5, <1>a DEF CreaArchivo, Estreno
<1>6. CASE cargarRegistros(h)
  <2>1. pc'[h] \in {"limpia", "termina"} /\ tomados'[h] = <<>>
    BY <1>6, <1>a DEF cargarRegistros, Sigue
  <2> QED
    BY <2>1 DEF Estreno
<1>7. CASE PideLimpiar(h)
  BY <1>7, <1>a DEF PideLimpiar, Estreno
<1>8. CASE LimpiaBloque(h)
  <2>1. /\ UNCHANGED archivos /\ Suyo(h)' = Suyo(h) /\ dados[h] < Len(archivos[Suyo(h)].bloques)
        /\ pc'[h] = "apaga" \/ (pc'[h] = "borra" /\ dados'[h] = dados[h] + 1)
    BY <1>8, <1>a DEF LimpiaBloque, Suyo, DeSuArchivo, DeLista, Dando
  <2> QED
    BY <1>a, <1>b, <2>1 DEF Estreno
<1>9. CASE Apaga(h)
  <2>1. /\ UNCHANGED archivos /\ Suyo(h)' = Suyo(h) /\ dados[h] < Len(archivos[Suyo(h)].bloques)
        /\ pc'[h] = "borra" /\ dados'[h] = dados[h] + 1
    BY <1>9, <1>a DEF Apaga, Suyo, DeSuArchivo, DeLista, Dando
  <2> QED
    BY <1>a, <1>b, <2>1 DEF Estreno
<1>10. CASE BorraBloque(h)
  <2>1. /\ UNCHANGED <<archivos, dados>> /\ Suyo(h)' = Suyo(h) /\ pc[h] = "borra"
        /\ pc'[h] = IF dados[h] < Len(archivos[Suyo(h)].bloques) THEN "limpia" ELSE "quita"
    BY <1>10, <1>a DEF BorraBloque, Suyo, DeSuArchivo, Dando
  <2> QED
    BY <1>a, <1>b, <2>1 DEF Estreno
<1>11. CASE QuitaArchivo(h)
  <2>1. /\ archivos'[Suyo(h)] = NoHay /\ UNCHANGED <<op, tomados>> /\ tomados[h] = <<>>
        /\ \/ pc'[h] = "pide" /\ op[h] = "compacta" /\ Suyo(h)' = Suyo(h)
           \/ pc'[h] \in {"limpia", "termina"}
    BY <1>11, <1>a, <1>b DEF QuitaArchivo, Suyo, Cuentas, Sigue
  <2> QED
    BY <2>1 DEF Estreno, NoHay
<1>12. CASE Termina(h)
  BY <1>12, <1>a DEF Termina, Estreno
<1> QED
  BY <1>1, <1>2, <1>3, <1>4, <1>5, <1>6, <1>7, <1>8, <1>9, <1>10, <1>11, <1>12 DEF Trabaja

LEMMA CarpetasTrabaja ==
  ASSUME Base, ConCarpeta, NEW h \in Hilos, Trabaja(h)
  PROVE  ConCarpeta'
<1> SUFFICES ASSUME NEW t \in Tablas, NEW k \in Tipos, Hay(t, k)' PROVE t \in carpetas'
  BY DEF ConCarpeta
<1>1. <<t, k>> \in Ficheros /\ tabla[h] \in carpetas
  BY DeBase, NoEsLibre DEF Ficheros, DeSuArchivo
<1>2. CASE Termina(h)
  <2>1. Hay(t, k) /\ t \in carpetas
    BY <1>2 DEF Termina, Hay, ConCarpeta
  <2> QED
    BY <1>2, <2>1 DEF Termina
<1>3. CASE ~Termina(h)
  <2>1. UNCHANGED carpetas
    BY <1>3 DEF Trabaja, disco, PideBits, Encuentra, Fantasma, Prende, CreaArchivo, cargarRegistros,
      PideLimpiar, LimpiaBloque, Apaga, BorraBloque, QuitaArchivo, Sigue
  <2>2. CASE <<t, k>> = Suyo(h)
    BY <1>1, <2>1, <2>2 DEF Suyo
  <2>3. CASE <<t, k>> # Suyo(h)
    <3>1. archivos'[<<t, k>>] = archivos[<<t, k>>]
      BY <1>1, <2>3, ArchivosAjenos DEF Base, Suelta
    <3> QED
      BY <2>1, <3>1 DEF Hay, ConCarpeta, NoHay
  <2> QED
    BY <2>2, <2>3
<1> QED
  BY <1>2, <1>3

LEMMA EstrenosTrabaja ==
  ASSUME Base, Estrenos, NEW h \in Hilos, Trabaja(h)
  PROVE  Estrenos'
<1>1. ASSUME NEW g \in Hilos PROVE Estreno(g)'
  <2>1. CASE g = h
    BY <2>1, EstrenoPropio DEF Estrenos
  <2>2. CASE g # h
    BY <2>2, AjenoPaso, EstrenoAjeno DEF Estrenos
  <2> QED
    BY <2>1, <2>2
<1> QED
  BY <1>1, CarpetasTrabaja DEF Estrenos

\* The operations that leave the files alone.
LEMMA EstrenosEmpieza ==
  ASSUME Base, Estrenos, NEW h \in Hilos, NEW o, NEW t, NEW k, NEW n, NEW s, NEW lugar \in {"pide", "pideLimpiar"},
         Empieza(h, o, t, k, n, s, lugar), UNCHANGED archivos, carpetas \subseteq carpetas',
         lugar = "pide" => archivos[<<t, k>>] = NoHay /\ (o = "create" => n = 1)
  PROVE  Estrenos'
<1>1. ASSUME NEW g \in Hilos PROVE Estreno(g)'
  <2>1. CASE g = h
    <3>1. pc'[h] = lugar /\ op'[h] = o /\ faltan'[h] = n /\ Suyo(h)' = <<t, k>>
      BY EmpiezaPropio, BaseSuelta
    <3> QED
      BY <2>1, <3>1 DEF Estreno, Tomando, NoHay
  <2>2. CASE g # h
    <3>1. /\ pc'[g] = pc[g] /\ op'[g] = op[g] /\ Suyo(g)' = Suyo(g) /\ bloque'[g] = bloque[g]
          /\ tomados'[g] = tomados[g] /\ faltan'[g] = faltan[g] /\ dados'[g] = dados[g]
      BY <2>2, EmpiezaAjenos DEF Suyo, Base, Suelta, Parado
    <3>2. Estreno(g)
      BY DEF Estrenos
    <3> QED
      BY <3>1, <3>2 DEF Estreno, Tomando, NoHay
  <2> QED
    BY <2>1, <2>2
<1>2. ConCarpeta'
  BY DEF Estrenos, ConCarpeta, Hay, NoHay
<1> QED
  BY <1>1, <1>2 DEF Estrenos

LEMMA EstrenosCompactar ==
  ASSUME Base, Estrenos, NEW t \in Tablas, compactarSola(t)
  PROVE  Estrenos'
<1>0. PICK s : s = archivos[<<t, "bin">>].bloques
  OBVIOUS
<1>s. /\ compactar(t) /\ Encima(t) = {} /\ Suelta
      /\ riesgo' = riesgo \cup (IF Hay(t, "tmpc") THEN {"resto"} ELSE {})
  BY BaseSuelta DEF compactarSola, compactar
<1>1. t \in Hilos /\ Empieza(t, "compacta", t, "bin", 0, s, "pideLimpiar") /\ UNCHANGED carpetas /\ t \in carpetas
  BY <1>0, <1>s DEF compactar, Hilos
<1>2. ASSUME NEW g \in Hilos PROVE Estreno(g)'
  <2>1. CASE g = t
    <3>1. pc'[t] = "pideLimpiar"
      BY <1>1, EmpiezaPropio, BaseSuelta
    <3> QED
      BY <2>1, <3>1 DEF Estreno, Tomando
  <2>2. CASE g # t
    <3>1. /\ pc'[g] = pc[g] /\ op'[g] = op[g] /\ Suyo(g)' = Suyo(g) /\ bloque'[g] = bloque[g]
          /\ tomados'[g] = tomados[g] /\ faltan'[g] = faltan[g] /\ dados'[g] = dados[g]
      BY <1>1, <2>2, EmpiezaAjenos DEF Suyo, Base, Suelta, Parado
    <3>2. Estreno(g) /\ tabla[g] # t
      BY <1>s, Renombra, SinNadie DEF Estrenos
    <3>3. CASE pc[g] = "libre"
      BY <3>1, <3>3 DEF Estreno, Tomando
    <3>4. CASE pc[g] # "libre"
      <4>1. archivos'[Suyo(g)] = archivos[Suyo(g)]
        BY <3>2, <3>4, SuyoFichero, BaseSuelta, <1>s, Renombra DEF Suyo
      <4> QED
        BY <3>1, <3>2, <4>1 DEF Estreno, Tomando, NoHay
    <3> QED
      BY <3>3, <3>4
  <2> QED
    BY <2>1, <2>2
<1>3. ASSUME NEW x \in Tablas, NEW k \in Tipos, Hay(x, k)' PROVE x \in carpetas'
  <2>1. CASE x = t
    BY <1>1, <2>1
  <2>2. CASE x # t
    <3>1. <<x, k>> \in Ficheros /\ <<x, k>> \notin {<<t, "tmp">>, <<t, "tmpc">>}
      BY <2>2 DEF Ficheros
    <3>2. archivos'[<<x, k>>] = archivos[<<x, k>>]
      BY <3>1, <1>s, Renombra
    <3> QED
      BY <1>1, <1>3, <3>2 DEF Estrenos, ConCarpeta, Hay, NoHay
  <2> QED
    BY <2>1, <2>2
<1>4. ConCarpeta'
  BY <1>3 DEF ConCarpeta
<1> QED
  BY <1>2, <1>4 DEF Estrenos

LEMMA EstrenosSiguen ==
  ASSUME Inv, SinSolapes => Estrenos, [Next]_vars, SinSolapes'
  PROVE  Estrenos'
<1>0. Base /\ Estrenos
  BY RiesgoCrece DEF vars, Inv, SinSolapes
<1>1. Clientes \subseteq Hilos /\ Tablas \subseteq Hilos /\ Volcador \in Hilos
  BY DEF Hilos
<1>2. ASSUME NEW t \in Tablas, NEW c \in Clientes, CREATE(c, t) PROVE Estrenos'
  <2>1. archivos[<<t, "bin">>] = NoHay
    BY <1>0, <1>2 DEF CREATE, Estrenos, ConCarpeta, Hay, Tipos
  <2>2. /\ Empieza(c, "create", t, "bin", 1, <<>>, "pide") /\ UNCHANGED archivos /\ carpetas \subseteq carpetas'
        /\ c \in Hilos
    BY <1>1, <1>2 DEF CREATE
  <2> QED
    BY <2>1, <2>2, <1>0, EstrenosEmpieza
<1>3. ASSUME NEW t \in Tablas, NEW c \in Clientes, DROP(c, t) PROVE Estrenos'
  <2>1. PICK s : s = archivos[<<t, "bin">>].bloques
    OBVIOUS
  <2>2. /\ Empieza(c, "drop", t, "bin", 0, s, "pideLimpiar") /\ UNCHANGED archivos /\ carpetas \subseteq carpetas'
        /\ c \in Hilos
    BY <1>1, <1>3, <2>1 DEF DROP
  <2> QED
    BY <2>2, <1>0, EstrenosEmpieza
<1>4. ASSUME NEW t \in Tablas, dump(t) PROVE Estrenos'
  <2>1. PICK n \in 1..MaxPorArchivo : Empieza(Volcador, "dump", t, "tmp", n, <<>>, "pide")
    BY <1>4 DEF dump
  <2>2. archivos[<<t, "tmp">>] = NoHay /\ UNCHANGED archivos /\ carpetas \subseteq carpetas'
    BY <1>4 DEF dump, Hay
  <2> QED
    BY <1>1, <2>1, <2>2, <1>0, EstrenosEmpieza
<1>5. CASE Cae /\ UNCHANGED pedidos
  <2>1. \A h \in Hilos : pc'[h] = "libre"
    BY <1>5 DEF Cae, Reinicia, Todos
  <2>2. \A h \in Hilos : Estreno(h)'
    BY <2>1 DEF Estreno, Tomando
  <2>3. ConCarpeta'
    BY <1>0, <1>5 DEF Cae, Reinicia, disco, Estrenos, ConCarpeta, Hay
  <2> QED
    BY <2>2, <2>3 DEF Estrenos
<1>6. CASE UNCHANGED vars
  <2>1. \A h \in Hilos : Estreno(h)'
    BY <1>0, <1>6 DEF vars, disco, locales, pedido, toma, Estrenos, Estreno, Suyo
  <2>2. ConCarpeta'
    BY <1>0, <1>6 DEF vars, disco, Estrenos, ConCarpeta, Hay
  <2> QED
    BY <2>1, <2>2 DEF Estrenos
<1> QED
  BY <1>0, <1>2, <1>3, <1>4, <1>5, <1>6, Solas, EstrenosCompactar, EstrenosTrabaja, LosPasos

LEMMA CambiaDeArchivo ==
  ASSUME Base, NEW h \in Hilos, Trabaja(h), Suyo(h)' # Suyo(h)
  PROVE  dados'[h] = 0
<1>1. TypeOK /\ Cuentas(h)
  BY DeBase
<1>2. CASE cargarRegistros(h) \/ Termina(h)
  BY <1>1, <1>2 DEF cargarRegistros, Termina, En, Cuentas, Dando, Sigue
<1>3. CASE QuitaArchivo(h)
  BY <1>1, <1>3 DEF QuitaArchivo, TypeOK, Sigue
<1>4. CASE UNCHANGED <<tabla, cual>>
  BY <1>4 DEF Suyo
<1> QED
  BY <1>2, <1>3, <1>4 DEF Trabaja, pedido, locales, PideBits, Encuentra, Fantasma, Prende, CreaArchivo,
    PideLimpiar, LimpiaBloque, Apaga, BorraBloque

LEMMA QuedaAjeno ==
  ASSUME Base, NEW h \in Hilos, Trabaja(h), NEW f \in Ficheros, f # Suyo(h),
         NEW i \in 1..MaxPorArchivo, Vivo(f, i)
  PROVE  Vivo(f, i)' /\ archivos'[f].bloques[i] = archivos[f].bloques[i]
<1>1. archivos'[f] = archivos[f]
  BY ArchivosAjenos DEF Base, Suelta
<1>2. ASSUME NEW g \in Hilos, Suyo(g)' = f PROVE i > dados'[g]
  <2>1. CASE g = h
    BY <1>2, <2>1, CambiaDeArchivo
  <2>2. CASE g # h
    <3>1. Suyo(g)' = Suyo(g) /\ dados'[g] = dados[g]
      BY <2>2, LocalesAjenos, BaseSuelta DEF Parado, Suyo
    <3> QED
      BY <1>2, <3>1 DEF Vivo
  <2> QED
    BY <2>1, <2>2
<1> QED
  BY <1>1, <1>2 DEF Vivo

\* A place of the file at work ends when its bit is turned off.
LEMMA QuedaPropio ==
  ASSUME Base, Leidos, NEW h \in Hilos, Estreno(h), Trabaja(h), "byte" \notin riesgo',
         NEW f \in Ficheros, f = Suyo(h), NEW i \in 1..MaxPorArchivo, Vivo(f, i),
         archivos[f].bloques[i] \in bitmap \cap bitmap'
  PROVE  Vivo(f, i)' /\ archivos'[f].bloques[i] = archivos[f].bloques[i]
<1>1. /\ TypeOK /\ Cuentas(h) /\ DeLista(h) /\ DeSuArchivo(h) /\ pc[h] # "libre" /\ dados[h] \in Nat
      /\ i \in 1..Len(archivos[f].bloques) /\ i > dados[h] /\ bitmap \subseteq Bits
      /\ archivos \in [Ficheros -> [bloques : Seq(Numeros), escrito : BOOLEAN]]
  <2>1. TypeOK /\ Cuentas(h) /\ DeLista(h) /\ DeSuArchivo(h) /\ pc[h] # "libre" /\ dados[h] \in Nat
    BY DeBase, NoEsLibre, ConstantesBloques
  <2>2. i \in 1..Len(archivos[f].bloques) /\ i > dados[h]
    BY DEF Vivo
  <2>3. /\ bitmap \subseteq Bits
        /\ archivos \in [Ficheros -> [bloques : Seq(Numeros), escrito : BOOLEAN]]
    BY <2>1 DEF TypeOK, Ficheros
  <2> QED
    BY <2>1, <2>2, <2>3
<1>2. ~QuitaArchivo(h)
  <2>1. QuitaArchivo(h) => dados[h] = Len(archivos[f].bloques)
    BY DEF QuitaArchivo, En, Estreno, Sigue
  <2> QED
    BY <1>1, <2>1
<1>3. ~CreaArchivo(h) /\ ~(Encuentra(h) /\ op[h] = "create")
  <2>1. CreaArchivo(h) \/ Encuentra(h) => archivos[f] = NoHay
    BY DEF CreaArchivo, Encuentra, En, Estreno
  <2>2. archivos[f] # NoHay
    BY <1>1 DEF NoHay
  <2> QED
    BY <2>1, <2>2
<1>4. archivos'[f].bloques = archivos[f].bloques
  <2>1. CASE cargarRegistros(h)
    BY <1>1, <2>1 DEF cargarRegistros, Sigue
  <2>2. CASE UNCHANGED archivos
    BY <2>2
  <2>3. CASE Encuentra(h)
    BY <1>3, <2>3 DEF Encuentra
  <2> QED
    BY <1>2, <1>3, <2>1, <2>2, <2>3 DEF Trabaja, disco, PideBits, Fantasma, Prende, PideLimpiar,
      LimpiaBloque, Apaga, BorraBloque, Termina
<1>5. ASSUME Suyo(h)' = f PROVE i > dados'[h]
  <2>1. CASE Apaga(h)
    <3>1. ~Cruza(h)
      BY <2>1 DEF Apaga
    <3>2. bloque[h] \notin bitmap' /\ bloque[h] = archivos[f].bloques[dados[h] + 1]
      BY <1>1, <2>1, <3>1, ApagaUno DEF Apaga, En, DeSuArchivo, DeLista, Dando
    <3>3. i # dados[h] + 1 /\ dados'[h] = dados[h] + 1
      BY <1>1, <2>1, <3>2 DEF Apaga, TypeOK
    <3> QED
      BY <1>1, <3>3
  <2>2. CASE LimpiaBloque(h)
    <3>0. lista[h] = archivos[f].bloques
      BY <1>1, <2>2 DEF LimpiaBloque, En, DeSuArchivo, Dando
    <3>1. CASE archivos[f].bloques[dados[h] + 1] \in Bits
      BY <1>1, <2>2, <3>0, <3>1 DEF LimpiaBloque
    <3>2. CASE archivos[f].bloques[dados[h] + 1] \notin Bits
      <4>1. i # dados[h] + 1 /\ dados'[h] = dados[h] + 1
        BY <1>1, <2>2, <3>0, <3>2 DEF LimpiaBloque, TypeOK
      <4> QED
        BY <1>1, <4>1
    <3> QED
      BY <3>1, <3>2
  <2>3. CASE UNCHANGED dados
    BY <1>1, <2>3
  <2> QED
    BY <1>2, <2>1, <2>2, <2>3 DEF Trabaja, locales, PideBits, Encuentra, Fantasma, Prende, CreaArchivo,
      cargarRegistros, PideLimpiar, BorraBloque, Termina, Sigue
<1>6. ASSUME NEW g \in Hilos, Suyo(g)' = f PROVE i > dados'[g]
  <2>1. CASE g # h
    <3>1. Suyo(g)' = Suyo(g)
      BY <2>1, LocalesAjenos, BaseSuelta DEF Parado, Suyo
    <3> QED
      BY <1>1, <1>6, <2>1, <3>1, SoloDeUno
  <2> QED
    BY <1>5, <1>6, <2>1
<1> QED
  BY <1>1, <1>4, <1>6 DEF Vivo

\* What a thread has reserved it keeps, or lists in the file it makes.
LEMMA QuedaReservado ==
  ASSUME Base, NEW h \in Hilos, Estreno(h), Trabaja(h), NEW g \in Hilos, NEW i \in Nat, Reservado(g, i),
         NEW b, b = tomados[g][i]
  PROVE  Listado(b)'
<1>1. /\ TypeOK /\ Cuentas(h) /\ tomados[h] \in Seq(Numeros) /\ Suyo(h) \in Ficheros
      /\ archivos \in [Ficheros -> [bloques : Seq(Numeros), escrito : BOOLEAN]]
  BY DeBase, NoEsLibre, SuyoFichero, BaseSuelta DEF TypeOK, Ficheros
<1>2. CASE g # h
  <2>1. pc'[g] = pc[g] /\ op'[g] = op[g] /\ tomados'[g] = tomados[g]
    BY <1>1, <1>2, LocalesAjenos DEF Parado
  <2>2. Reservado(g, i)' /\ tomados'[g][i] = b
    BY <2>1 DEF Reservado
  <2> QED
    BY <2>2 DEF Listado
<1>3. CASE g = h /\ CreaArchivo(h)
  <2>1. PICK f \in Ficheros : f = Suyo(h)
    BY <1>1
  <2>2. /\ archivos'[f].bloques = tomados[h] /\ Suyo(h)' = f
        /\ dados'[h] = 0 /\ UNCHANGED <<tabla, cual, dados>>
    BY <1>1, <1>3, <2>1 DEF CreaArchivo, En, Cuentas, Dando, locales, pedido, Suyo
  <2>3. /\ i \in 1..Len(tomados[h]) /\ pc[h] = "crea" /\ i \in 1..MaxPorArchivo
        /\ archivos'[f].bloques[i] = b
    <3>1. pc[h] = "crea" /\ Len(tomados[h]) = faltan[h] /\ faltan[h] \in 0..MaxPorArchivo
      BY <1>1, <1>3, DeBase DEF CreaArchivo, En, Cuentas
    <3> QED
      BY <1>1, <1>3, <2>2, <3>1, ConstantesBloques DEF Reservado
  <2>4. ASSUME NEW x \in Hilos, Suyo(x)' = f PROVE i > dados'[x]
    <3>1. Suyo(x) = f
      BY <2>2, <2>4 DEF Suyo
    <3>2. x = h
      BY <2>1, <2>3, <3>1, SoloDeUno
    <3> QED
      BY <2>2, <2>3, <3>2
  <2>5. Vivo(f, i)'
    BY <2>2, <2>3, <2>4 DEF Vivo
  <2> QED
    BY <2>3, <2>5 DEF Listado
<1>4. CASE g = h /\ ~CreaArchivo(h)
  <2>1. i \in 1..Len(tomados[h]) /\ op[h] # "create" /\ pc[h] # "carga" /\ tomados[h] # <<>>
    BY <1>1, <1>4 DEF Reservado
  <2>2. CASE Fantasma(h) \/ Prende(h)
    <3>1. PICK x \in Numeros : tomados'[h] = Append(tomados[h], x)
      <4>1. BLOCKS \in Numeros /\ bloque[h] \in Numeros
        BY Anchos, DeBase
      <4>2. CASE Fantasma(h)
        BY <1>1, <4>1, <4>2 DEF Fantasma, Toma, TypeOK
      <4>3. CASE Prende(h)
        BY <1>1, <4>1, <4>3 DEF Prende, Toma, TypeOK
      <4> QED
        BY <2>2, <4>2, <4>3
    <3>2. i \in 1..Len(tomados'[h]) /\ tomados'[h][i] = tomados[h][i]
      BY <1>1, <2>1, <3>1
    <3>3. op'[h] = op[h] /\ pc'[h] # "carga"
      BY <1>1, <2>2 DEF Fantasma, Prende, Toma, Va, pedido, TypeOK
    <3>4. Reservado(h, i)' /\ tomados'[h][i] = b
      BY <1>4, <2>1, <3>2, <3>3 DEF Reservado
    <3> QED
      BY <3>4 DEF Listado
  <2>3. CASE ~(Fantasma(h) \/ Prende(h))
    <3>1. ~cargarRegistros(h) /\ ~Termina(h)
      BY <2>1 DEF cargarRegistros, Termina, En, Estreno, Sigue
    <3>2. UNCHANGED <<op, tomados>> /\ pc'[h] # "carga"
      BY <1>1, <1>4, <2>3, <3>1 DEF Trabaja, PideBits, Encuentra, PideLimpiar, LimpiaBloque, Apaga,
        BorraBloque, QuitaArchivo, Va, pedido, toma, locales, TypeOK, Sigue
    <3>3. Reservado(h, i)' /\ tomados'[h][i] = b
      BY <1>4, <2>1, <3>2 DEF Reservado
    <3> QED
      BY <3>3 DEF Listado
  <2> QED
    BY <2>2, <2>3
<1> QED
  BY <1>2, <1>3, <1>4

\* The bit that is turned on is of the place that was found.
LEMMA ListadoNuevo ==
  ASSUME Base, NEW h \in Hilos, Estreno(h), Prende(h), NEW b, b = bloque[h]
  PROVE  Listado(b)'
<1>1. /\ TypeOK /\ Cuentas(h) /\ tomados[h] \in Seq(Numeros) /\ Suyo(h) \in Ficheros /\ b \in Numeros
      /\ pc[h] = "prende" /\ MaxPorArchivo \in Nat \ {0}
  BY DeBase, SuyoFichero, BaseSuelta, ConstantesBloques DEF Prende, En
<1>2. CASE op[h] = "create"
  <2>1. PICK f \in Ficheros : f = Suyo(h)
    BY <1>1
  <2>2. /\ archivos'[f].bloques = <<b>> /\ UNCHANGED <<tabla, cual, dados>> /\ dados[h] = 0
    BY <1>1, <1>2, <2>1 DEF Prende, Estreno, Cuentas, Dando, pedido
  <2>3. ASSUME NEW x \in Hilos, Suyo(x)' = f PROVE 1 > dados'[x]
    <3>1. Suyo(x) = f
      BY <2>2, <2>3 DEF Suyo
    <3>2. x = h
      BY <1>1, <2>1, <3>1, SoloDeUno
    <3> QED
      BY <2>2, <3>2
  <2>4. 1 \in 1..Len(archivos'[f].bloques) /\ archivos'[f].bloques[1] = b /\ 1 \in 1..MaxPorArchivo
    BY <1>1, <2>2
  <2>5. Vivo(f, 1)'
    BY <2>3, <2>4 DEF Vivo
  <2> QED
    BY <2>4, <2>5 DEF Listado
<1>3. CASE op[h] # "create"
  <2>1. PICK i \in Nat : i = Len(tomados[h]) + 1
    BY <1>1
  <2>2. tomados'[h] = Append(tomados[h], b)
    BY <1>1 DEF Prende, Toma, TypeOK
  <2>3. i \in 1..Len(tomados'[h]) /\ tomados'[h][i] = b
    BY <1>1, <2>1, <2>2
  <2>4. op'[h] = op[h] /\ pc'[h] # "carga"
    BY <1>1 DEF Prende, Toma, Va, pedido, TypeOK
  <2>5. Reservado(h, i)'
    BY <1>3, <2>3, <2>4 DEF Reservado
  <2> QED
    BY <2>3, <2>5 DEF Listado
<1> QED
  BY <1>2, <1>3

LEMMA ListadosTrabaja ==
  ASSUME Base, Leidos, Estrenos, Listados, NEW h \in Hilos, Trabaja(h), "byte" \notin riesgo'
  PROVE  Listados'
<1> SUFFICES ASSUME NEW b \in bitmap' PROVE Listado(b)'
  BY DEF Listados
<1>1. Estreno(h)
  BY DEF Estrenos
<1>2. b \in bitmap \/ (Prende(h) /\ b = bloque[h])
  <2>1. CASE Prende(h)
    BY <2>1, PrendeUno
  <2>2. CASE Apaga(h)
    <3>1. ~Cruza(h)
      BY <2>2 DEF Apaga
    <3> QED
      BY <2>2, <3>1, ApagaUno
  <2>3. CASE UNCHANGED bitmap
    BY <2>3
  <2> QED
    BY <2>1, <2>2, <2>3 DEF Trabaja, disco, PideBits, Encuentra, Fantasma, CreaArchivo, cargarRegistros,
      PideLimpiar, LimpiaBloque, BorraBloque, QuitaArchivo, Termina, Sigue
<1>3. CASE b \in bitmap
  <2>1. Listado(b)
    BY <1>3 DEF Listados
  <2>2. ASSUME NEW f \in Ficheros, NEW i \in 1..MaxPorArchivo, Vivo(f, i), archivos[f].bloques[i] = b
        PROVE  Listado(b)'
    <3>1. CASE f = Suyo(h)
      <4>1. Vivo(f, i)' /\ archivos'[f].bloques[i] = b
        BY <1>1, <1>3, <2>2, <3>1, QuedaPropio
      <4> QED
        BY <4>1 DEF Listado
    <3>2. CASE f # Suyo(h)
      <4>1. Vivo(f, i)' /\ archivos'[f].bloques[i] = b
        BY <2>2, <3>2, QuedaAjeno
      <4> QED
        BY <4>1 DEF Listado
    <3> QED
      BY <3>1, <3>2
  <2>3. ASSUME NEW g \in Hilos, NEW i \in Nat, Reservado(g, i), tomados[g][i] = b PROVE Listado(b)'
    BY <1>1, <2>3, QuedaReservado
  <2> QED
    BY <2>1, <2>2, <2>3 DEF Listado
<1> QED
  BY <1>1, <1>2, <1>3, ListadoNuevo

\* The start of an operation leaves every place, but those a compaction writes over.
LEMMA ListadosEmpieza ==
  ASSUME Base, NEW h \in Hilos, NEW o, NEW t, NEW k, NEW n, NEW s, NEW lugar \in {"pide", "pideLimpiar"},
         Empieza(h, o, t, k, n, s, lugar)
  PROVE  /\ \A f \in Ficheros : \A i \in 1..MaxPorArchivo :
              Vivo(f, i) /\ archivos'[f] = archivos[f] => Vivo(f, i)'
         /\ \A g \in Hilos : \A i \in Nat :
              Reservado(g, i) => Reservado(g, i)' /\ tomados'[g][i] = tomados[g][i]
<1>1. /\ pc[h] = "libre" /\ pc'[h] = lugar /\ TypeOK /\ dados'[h] = 0 /\ tomados[h] = <<>>
  BY EmpiezaPropio, BaseSuelta, DeBase DEF Oficio
<1>2. \A g \in Hilos \ {h} : /\ pc'[g] = pc[g] /\ op'[g] = op[g] /\ Suyo(g)' = Suyo(g)
                             /\ tomados'[g] = tomados[g] /\ dados'[g] = dados[g]
  BY <1>1, EmpiezaAjenos DEF Suyo, Parado
<1>3. ASSUME NEW f \in Ficheros, NEW i \in 1..MaxPorArchivo, Vivo(f, i), archivos'[f] = archivos[f]
      PROVE  Vivo(f, i)'
  <2>1. ASSUME NEW g \in Hilos, Suyo(g)' = f PROVE i > dados'[g]
    BY <1>1, <1>2, <1>3, <2>1 DEF Vivo
  <2> QED
    BY <1>3, <2>1 DEF Vivo
<1>4. ASSUME NEW g \in Hilos, NEW i \in Nat, Reservado(g, i)
      PROVE  Reservado(g, i)' /\ tomados'[g][i] = tomados[g][i]
  <2>1. g # h
    BY <1>1, <1>4 DEF Reservado
  <2> QED
    BY <1>2, <1>4, <2>1 DEF Reservado
<1> QED
  BY <1>3, <1>4

LEMMA ListadosSinTocar ==
  ASSUME Base, Listados, NEW h \in Hilos, NEW o, NEW t, NEW k, NEW n, NEW s, NEW lugar \in {"pide", "pideLimpiar"},
         Empieza(h, o, t, k, n, s, lugar), UNCHANGED archivos
  PROVE  Listados'
<1>1. /\ \A f \in Ficheros : \A i \in 1..MaxPorArchivo : Vivo(f, i) => Vivo(f, i)'
      /\ \A g \in Hilos : \A i \in Nat :
           Reservado(g, i) => Reservado(g, i)' /\ tomados'[g][i] = tomados[g][i]
      /\ UNCHANGED bitmap
  BY ListadosEmpieza DEF Empieza
<1>2. ASSUME NEW b, Listado(b) PROVE Listado(b)'
  BY <1>1, <1>2 DEF Listado
<1> QED
  BY <1>1, <1>2 DEF Listados

LEMMA ListadosCompactar ==
  ASSUME Base, Listados, NEW t \in Tablas, compactarSola(t), "resto" \notin riesgo'
  PROVE  Listados'
<1>0. PICK s : s = archivos[<<t, "bin">>].bloques
  OBVIOUS
<1>s. /\ compactar(t) /\ Encima(t) = {} /\ Suelta
      /\ riesgo' = riesgo \cup (IF Hay(t, "tmpc") THEN {"resto"} ELSE {})
  BY BaseSuelta DEF compactarSola, compactar
<1>1. t \in Hilos /\ Empieza(t, "compacta", t, "bin", 0, s, "pideLimpiar") /\ UNCHANGED bitmap /\ ~Hay(t, "tmpc")
  BY <1>0, <1>s DEF compactar, Hilos, Empieza
<1>2. PICK a, c : a = <<t, "tmp">> /\ c = <<t, "tmpc">>
  OBVIOUS
<1>3. /\ a \in Ficheros /\ c \in Ficheros /\ archivos[c] = NoHay /\ archivos'[c] = archivos[a]
      /\ \A f \in Ficheros : f \notin {a, c} => archivos'[f] = archivos[f]
  BY <1>1, <1>2, <1>s, Renombra DEF Hay
<1>4. /\ \A f \in Ficheros : \A i \in 1..MaxPorArchivo :
           Vivo(f, i) /\ archivos'[f] = archivos[f] => Vivo(f, i)'
      /\ \A g \in Hilos : \A i \in Nat :
           Reservado(g, i) => Reservado(g, i)' /\ tomados'[g][i] = tomados[g][i]
  BY <1>1, ListadosEmpieza
<1>5. ASSUME NEW f \in Ficheros, NEW i \in 1..MaxPorArchivo, Vivo(f, i), NEW b, archivos[f].bloques[i] = b
      PROVE  Listado(b)'
  <2>1. CASE f = a
    <3>1. ASSUME NEW g \in Hilos PROVE Suyo(g)' # c
      <4>1. CASE g = t
        BY <1>1, <1>2, <4>1, EmpiezaPropio, BaseSuelta
      <4>2. CASE g # t
        <5>1. tabla'[g] = tabla[g] /\ cual'[g] = cual[g]
          BY <1>1, <4>2, EmpiezaAjenos DEF Base, Suelta, Parado
        <5>2. tabla[g] # t
          BY <1>s, SinNadie
        <5> QED
          BY <1>2, <5>1, <5>2 DEF Suyo
      <4> QED
        BY <4>1, <4>2
    <3>2. Vivo(c, i)' /\ archivos'[c].bloques[i] = b
      BY <1>3, <1>5, <2>1, <3>1 DEF Vivo
    <3> QED
      BY <1>3, <3>2 DEF Listado
  <2>2. CASE f = c
    <3>1. Len(archivos[f].bloques) = 0
      BY <1>3, <2>2 DEF NoHay
    <3> QED
      BY <1>5, <3>1 DEF Vivo
  <2>3. CASE f \notin {a, c}
    <3>1. Vivo(f, i)' /\ archivos'[f].bloques[i] = b
      BY <1>3, <1>4, <1>5, <2>3
    <3> QED
      BY <3>1 DEF Listado
  <2> QED
    BY <2>1, <2>2, <2>3
<1>6. ASSUME NEW g \in Hilos, NEW i \in Nat, Reservado(g, i), NEW b, tomados[g][i] = b PROVE Listado(b)'
  BY <1>4, <1>6 DEF Listado
<1>7. ASSUME NEW b, Listado(b) PROVE Listado(b)'
  BY <1>5, <1>6, <1>7 DEF Listado
<1> QED
  BY <1>1, <1>7 DEF Listados

LEMMA ListadosCae ==
  ASSUME Base, Listados, Cae, "pierde" \notin riesgo'
  PROVE  Listados'
<1>1. /\ UNCHANGED <<bitmap, archivos>>
      /\ \A h \in Hilos : dados'[h] = 0
      /\ \A h \in Hilos : ~(op[h] # "create" /\ tomados[h] # <<>> /\ pc[h] # "carga")
  BY DEF Cae, Reinicia, Todos, disco
<1>2. ASSUME NEW h \in Hilos, NEW i \in Nat PROVE ~Reservado(h, i)
  <2>1. tomados[h] = <<>> => Len(tomados[h]) = 0
    OBVIOUS
  <2> QED
    BY <1>1, <2>1 DEF Reservado
<1>3. ASSUME NEW f \in Ficheros, NEW i \in 1..MaxPorArchivo, Vivo(f, i) PROVE Vivo(f, i)'
  BY <1>1, <1>3 DEF Vivo
<1>4. ASSUME NEW b, Listado(b) PROVE Listado(b)'
  BY <1>1, <1>2, <1>3, <1>4 DEF Listado
<1> QED
  BY <1>1, <1>4 DEF Listados

LEMMA ListadosSiguen ==
  ASSUME InvFuga, [Next]_vars, SinSolapes', riesgo' \cap {"byte", "pierde", "resto"} = {}
  PROVE  Listados'
<1>1. riesgo \subseteq riesgo'
  BY RiesgoCrece DEF vars
<1>2. Base /\ Leidos /\ Estrenos /\ Listados
  BY <1>1 DEF InvFuga, Inv, SinSolapes
<1>3. Clientes \subseteq Hilos /\ Tablas \subseteq Hilos /\ Volcador \in Hilos
  BY DEF Hilos
<1>4. CASE \E t \in Tablas, c \in Clientes : CREATE(c, t) \/ DROP(c, t)
  <2>1. PICK t \in Tablas, c \in Clientes : CREATE(c, t) \/ DROP(c, t)
    BY <1>4
  <2> QED
    BY <1>2, <1>3, <2>1, ListadosSinTocar DEF CREATE, DROP
<1>5. CASE \E t \in Tablas : dump(t) \/ compactar(t)
  <2>1. PICK t \in Tablas : dump(t) \/ compactar(t)
    BY <1>5
  <2>2. CASE dump(t)
    BY <1>2, <1>3, <2>2, ListadosSinTocar DEF dump
  <2> QED
    BY <1>2, <2>1, <2>2, Solas, ListadosCompactar
<1>6. CASE \E h \in Hilos : Trabaja(h) /\ UNCHANGED pedidos
  BY <1>2, <1>6, ListadosTrabaja
<1>7. CASE Cae /\ UNCHANGED pedidos
  BY <1>2, <1>7, ListadosCae
<1>8. CASE UNCHANGED vars
  BY <1>2, <1>8 DEF vars, disco, locales, pedido, toma, Listados, Listado, Vivo, Suyo, Reservado
<1> QED
  BY <1>4, <1>5, <1>6, <1>7, <1>8, LosPasos

LEMMA InvFugaInicial == Init => InvFuga
<1> SUFFICES ASSUME Init PROVE InvFuga
  OBVIOUS
<1>1. \A h \in Hilos : pc[h] = "libre"
  BY DEF Init, Todos
<1>2. \A h \in Hilos : Estreno(h)
  BY <1>1 DEF Estreno, Tomando
<1>3. ConCarpeta
  BY DEF Init, ConCarpeta, Hay
<1>4. Listados
  BY DEF Init, Listados
<1> QED
  BY <1>2, <1>3, <1>4, InvInicial DEF InvFuga, Estrenos

LEMMA InvFugaSigue == InvFuga /\ [Next]_vars => InvFuga'
<1> SUFFICES ASSUME InvFuga, [Next]_vars PROVE InvFuga'
  OBVIOUS
<1>1. Inv'
  BY InvSigue DEF InvFuga
<1>2. SinSolapes' => Estrenos'
  BY EstrenosSiguen DEF InvFuga
<1>3. SinSolapes' /\ riesgo' \cap {"byte", "pierde", "resto"} = {} => Listados'
  BY ListadosSiguen
<1> QED
  BY <1>1, <1>2, <1>3 DEF InvFuga, SinSolapes

LEMMA InvFugaBasta == InvFuga => SinFuga
<1> SUFFICES ASSUME InvFuga, riesgo \cap ({"byte", "pierde", "resto"} \cup Solapes) = {}, NEW b \in bitmap
             PROVE  \/ \E f \in Tablas \X Tipos : b \in BloquesDe(f)
                    \/ \E h \in Hilos : b \in Reservados(h)
  BY DEF SinFuga
<1>1. Listado(b) /\ Base
  BY DEF InvFuga, Inv, SinSolapes, Listados
<1>2. ASSUME NEW f \in Ficheros, NEW i \in 1..MaxPorArchivo, Vivo(f, i), archivos[f].bloques[i] = b
      PROVE  b \in BloquesDe(f)
  <2>1. i \notin Dados(f)
    <3>1. ASSUME NEW h \in Hilos, tabla[h] = f[1], cual[h] = f[2], i <= dados[h] PROVE FALSE
      <4>1. Suyo(h) = f
        BY <3>1 DEF Suyo, Ficheros
      <4>2. i > dados[h] /\ dados[h] \in Nat /\ i \in Nat
        BY <1>1, <1>2, <4>1, DeBase, ConstantesBloques DEF Vivo
      <4> QED
        BY <3>1, <4>2
    <3> QED
      BY <3>1 DEF Dados
  <2> QED
    BY <1>2, <2>1 DEF BloquesDe, Vivo
<1>3. ASSUME NEW h \in Hilos, NEW i \in Nat, Reservado(h, i), tomados[h][i] = b
      PROVE  b \in Reservados(h)
  BY <1>3 DEF Reservado, Reservados, En, Elementos
<1> QED
  BY <1>1, <1>2, <1>3 DEF Listado, Ficheros

\* Until DROP or the compaction starts over another operation of its table, a byte is
\* written over, a crash loses blocks taken for a file that did not exist, or a .tmpc that
\* a crash left is written over, every set bit is of a block that a file lists or a thread
\* has just taken.
THEOREM NingunBloquePerdido == Spec => []SinFuga
  BY InvFugaInicial, InvFugaSigue, InvFugaBasta, PTL DEF Spec

-----------------------------------------------------------------------------
(* What the blocks hold.                                                    *)

\* The places of a written file hold its records.
ContenidoDe(f) ==
  archivos[f].escrito =>
    \A i \in 1..MaxPorArchivo : Vivo(f, i) => contenido[archivos[f].bloques[i]] = {Marca(f[1], f[2])}

\* Those of a thread that has not written yet, nothing.
Retiene(h, i) ==
  /\ op[h] # "create" /\ pc[h] \in {"busca", "prende", "crea", "carga"}
  /\ i \in 1..Len(tomados[h])
ContenidoEn(h) ==
  /\ \A i \in 1..MaxPorArchivo : Retiene(h, i) => contenido[tomados[h][i]] = {}
  /\ pc[h] = "carga" \/ (pc[h] = "prende" /\ op[h] = "create") => ~archivos[Suyo(h)].escrito
  /\ pc[h] = "borra" /\ cual[h] = "bin" => bloque[h] \notin bitmap

Contenidos == (\A f \in Ficheros : ContenidoDe(f)) /\ (\A h \in Hilos : ContenidoEn(h))
InvContenido ==
  /\ Inv
  /\ SinSolapes => Estrenos
  /\ SinSolapes /\ riesgo \cap {"byte", "repite", "lleno", "borra"} = {} => Contenidos

\* The block that is being taken is in no written file.
LEMMA NoEscrito ==
  ASSUME Base, Repartidos, "lleno" \notin riesgo, NEW h \in Hilos, Estreno(h), ContenidoEn(h), pc[h] = "prende",
         NEW f \in Ficheros, archivos[f].escrito, NEW i \in 1..MaxPorArchivo, Vivo(f, i)
  PROVE  archivos[f].bloques[i] # bloque[h]
<1>1. Cuentas(h) /\ Suyo(h) \in Ficheros /\ faltan[h] \in 0..MaxPorArchivo /\ tomados[h] \in Seq(Numeros)
      /\ dados[h] = 0 /\ MaxPorArchivo \in Nat \ {0}
  BY DeBase, SuyoFichero, BaseSuelta, ConstantesBloques DEF Cuentas, Dando
<1>2. \A b : ~Exento(b)
  BY DEF Exento
<1>3. CASE op[h] = "create"
  <2>1. PICK S \in Ficheros : S = Suyo(h)
    BY <1>1
  <2>2. archivos[S].bloques = <<bloque[h]>> /\ ~archivos[S].escrito
    BY <1>3, <2>1 DEF Estreno, ContenidoEn
  <2>3. 1 \in 1..MaxPorArchivo /\ 1 \in 1..Len(archivos[S].bloques) /\ archivos[S].bloques[1] = bloque[h]
    BY <1>1, <2>2
  <2>4. ASSUME NEW g \in Hilos, Suyo(g) = S PROVE 1 > dados[g]
    BY <1>1, <2>1, <2>4, SoloDeUno
  <2>5. Vivo(S, 1)
    BY <2>3, <2>4 DEF Vivo
  <2>6. f # S
    BY <2>2
  <2> QED
    BY <1>2, <2>3, <2>5, <2>6 DEF Repartidos
<1>4. CASE op[h] # "create"
  <2>1. PICK j : j = Len(tomados[h]) + 1
    OBVIOUS
  <2>2. j \in 1..MaxPorArchivo
    BY <1>1, <2>1 DEF Cuentas, Tomando
  <2>3. Tomado(h, j) /\ Bloque(h, j) = bloque[h]
    BY <1>4, <2>1 DEF Tomado, Bloque
  <2> QED
    BY <1>2, <2>2, <2>3 DEF Repartidos
<1> QED
  BY <1>3, <1>4

\* Nor the one that has been given back: its bit was clear.
LEMMA NoEscritoBorra ==
  ASSUME Base, Repartidos, Marcados, "lleno" \notin riesgo, \A g \in Hilos : Estreno(g) /\ ContenidoEn(g),
         NEW b, b \notin bitmap,
         NEW f \in Ficheros, archivos[f].escrito, NEW i \in 1..MaxPorArchivo, Vivo(f, i)
  PROVE  archivos[f].bloques[i] # b
<1> SUFFICES ASSUME archivos[f].bloques[i] = b PROVE FALSE
  OBVIOUS
<1>1. Marcado(archivos[f].bloques[i])
  BY DEF Marcados
<1>2. PICK g \in Hilos : pc[g] = "prende" /\ bloque[g] = b
  BY <1>1 DEF Marcado, Exento
<1> QED
  BY <1>2, NoEscrito

\* Nor, nor in the hands of a thread, those of the file that is being written.
LEMMA NoEscritoCarga ==
  ASSUME Base, Repartidos, "lleno" \notin riesgo, NEW h \in Hilos, pc[h] = "carga",
         NEW S \in Ficheros, S = Suyo(h), NEW j \in 1..Len(tomados[h])
  PROVE  /\ j \in 1..MaxPorArchivo /\ Vivo(S, j) /\ archivos[S].bloques[j] = tomados[h][j]
         /\ \A f \in Ficheros : \A i \in 1..MaxPorArchivo :
              f # S /\ Vivo(f, i) => archivos[f].bloques[i] # tomados[h][j]
         /\ \A g \in Hilos : \A i \in 1..MaxPorArchivo :
              g # h /\ Retiene(g, i) => tomados[g][i] # tomados[h][j]
<1>1. /\ Cuentas(h) /\ DeSuArchivo(h) /\ faltan[h] \in 0..MaxPorArchivo /\ tomados[h] \in Seq(Numeros)
      /\ dados[h] = 0 /\ MaxPorArchivo \in Nat \ {0}
  BY DeBase, ConstantesBloques DEF Cuentas, Dando
<1>2. archivos[S].bloques = tomados[h] /\ j \in 1..MaxPorArchivo
  BY <1>1 DEF DeSuArchivo, DeLista, Cuentas, Dando
<1>3. ASSUME NEW g \in Hilos, Suyo(g) = S PROVE j > dados[g]
  BY <1>1, <1>2, <1>3, SoloDeUno
<1>4. Vivo(S, j) /\ archivos[S].bloques[j] = tomados[h][j]
  BY <1>2, <1>3 DEF Vivo
<1>5. \A b : ~Exento(b)
  BY DEF Exento
<1>6. ASSUME NEW f \in Ficheros, NEW i \in 1..MaxPorArchivo, f # S, Vivo(f, i)
      PROVE  archivos[f].bloques[i] # tomados[h][j]
  BY <1>2, <1>4, <1>5, <1>6 DEF Repartidos
<1>7. ASSUME NEW g \in Hilos, NEW i \in 1..MaxPorArchivo, g # h, Retiene(g, i)
      PROVE  tomados[g][i] # tomados[h][j]
  <2>1. tomados[g] \in Seq(Numeros) /\ i # Len(tomados[g]) + 1 /\ Cuentas(g) /\ DeSuArchivo(g) /\ pc[g] # "libre"
        /\ Suyo(g) \in Ficheros
    BY <1>7, DeBase, SuyoFichero, BaseSuelta DEF Retiene
  <2>2. CASE pc[g] # "carga"
    <3>1. Tomado(g, i) /\ Bloque(g, i) = tomados[g][i]
      BY <1>7, <2>1, <2>2 DEF Retiene, Tomado, Bloque
    <3> QED
      BY <1>2, <1>4, <1>5, <3>1 DEF Repartidos
  <2>3. CASE pc[g] = "carga"
    <3>1. PICK f \in Ficheros : f = Suyo(g)
      BY <2>1
    <3>2. f # S
      BY <1>7, <2>1, <3>1, SuyoDistinto
    <3>3. archivos[f].bloques = tomados[g] /\ i \in 1..Len(archivos[f].bloques) /\ dados[g] = 0
      BY <1>7, <2>1, <2>3, <3>1 DEF DeSuArchivo, DeLista, Retiene, Cuentas, Dando
    <3>4. ASSUME NEW x \in Hilos, Suyo(x) = f PROVE i > dados[x]
      BY <2>1, <3>1, <3>3, <3>4, SoloDeUno
    <3>5. Vivo(f, i)
      BY <3>3, <3>4 DEF Vivo
    <3> QED
      BY <1>6, <3>2, <3>3, <3>5
  <2> QED
    BY <2>2, <2>3
<1> QED
  BY <1>2, <1>4, <1>6, <1>7

-----------------------------------------------------------------------------
(* The files, after a step of a thread.                                     *)

LEMMA DeIgual ==
  ASSUME NEW f \in Ficheros, ContenidoDe(f), archivos'[f].escrito => archivos[f].escrito,
         archivos[f].escrito => \A i \in 1..MaxPorArchivo :
           Vivo(f, i)' => /\ VivoSigue(f, i)
                          /\ contenido'[archivos[f].bloques[i]] = contenido[archivos[f].bloques[i]]
  PROVE  ContenidoDe(f)'
<1> SUFFICES ASSUME archivos'[f].escrito, NEW i \in 1..MaxPorArchivo, Vivo(f, i)'
             PROVE  contenido'[archivos'[f].bloques[i]] = {Marca(f[1], f[2])}
  BY DEF ContenidoDe, Marca
<1>1. /\ VivoSigue(f, i)
      /\ contenido'[archivos[f].bloques[i]] = contenido[archivos[f].bloques[i]]
  OBVIOUS
<1> QED
  BY <1>1 DEF VivoSigue, ContenidoDe

\* What a thread that works does to the contents.
Sanos == Base /\ Leidos /\ Repartidos /\ Marcados /\ Estrenos /\ Contenidos
           /\ "lleno" \notin riesgo /\ "byte" \notin riesgo
Limpio == riesgo' \cap {"byte", "repite", "lleno", "borra"} = {}

LEMMA DeQuieto ==
  ASSUME Sanos, NEW h \in Hilos, Trabaja(h), UNCHANGED contenido, ~cargarRegistros(h), NEW f \in Ficheros
  PROVE  ContenidoDe(f)'
<1>1. Base /\ TypeOK /\ ContenidoDe(f) /\ pc[h] # "libre"
  BY NoEsLibre DEF Sanos, Contenidos, Base, Suelta
<1>2. CASE f # Suyo(h)
  <2>1. archivos'[f] = archivos[f]
    BY <1>1, <1>2, ArchivosAjenos
  <2>2. ASSUME NEW i \in 1..MaxPorArchivo, Vivo(f, i)' PROVE VivoSigue(f, i)
    BY <1>1, <1>2, <2>2, VivoAjeno
  <2> QED
    BY <1>1, <2>1, <2>2, DeIgual
<1>3. CASE f = Suyo(h) /\ (CreaArchivo(h) \/ (Encuentra(h) /\ op[h] = "create") \/ QuitaArchivo(h))
  <2>1. ~archivos'[f].escrito
    BY <1>1, <1>3 DEF CreaArchivo, Encuentra, QuitaArchivo, NoHay, TypeOK, Ficheros, Sigue
  <2> QED
    BY <2>1 DEF ContenidoDe
<1>4. CASE f = Suyo(h) /\ ~CreaArchivo(h) /\ ~(Encuentra(h) /\ op[h] = "create") /\ ~QuitaArchivo(h)
  <2>1. ASSUME NEW i \in 1..MaxPorArchivo, Vivo(f, i)' PROVE VivoSigue(f, i)
    BY <1>1, <1>4, <2>1, VivoPropio
  <2>2. archivos'[f] = archivos[f]
    BY <1>4 DEF Trabaja, PideBits, Encuentra, Fantasma, Prende, PideLimpiar,
      LimpiaBloque, Apaga, BorraBloque, Termina, disco
  <2> QED
    BY <1>1, <2>1, <2>2, DeIgual
<1> QED
  BY <1>2, <1>3, <1>4

\* A block that is taken, or removed, is in no written file.
LEMMA DeVaciado ==
  ASSUME Sanos, Limpio, NEW h \in Hilos, Prende(h) \/ BorraBloque(h), NEW f \in Ficheros
  PROVE  ContenidoDe(f)'
<1>1. Base /\ TypeOK /\ ContenidoDe(f) /\ Trabaja(h) /\ UNCHANGED archivos
      /\ ~CreaArchivo(h) /\ ~Encuentra(h)
  BY DEF Sanos, Contenidos, Base, Suelta, Trabaja, Prende, BorraBloque, CreaArchivo, Encuentra, En
<1>2. contenido' = [contenido EXCEPT ![bloque[h]] = {}] /\ contenido \in [Numeros -> SUBSET (Tablas \X {"bin", "tmp"})]
  BY <1>1 DEF Prende, BorraBloque, TypeOK
<1>3. ASSUME NEW i \in 1..MaxPorArchivo, Vivo(f, i)' PROVE VivoSigue(f, i)
  BY <1>1, <1>3, VivoAjeno, VivoPropio
<1>4. ASSUME NEW i \in 1..MaxPorArchivo, Vivo(f, i), archivos[f].escrito
      PROVE  archivos[f].bloques[i] # bloque[h]
  <2>1. CASE Prende(h)
    BY <1>4, <2>1, NoEscrito DEF Sanos, Estrenos, Contenidos, Prende, En
  <2>2. CASE BorraBloque(h)
    <3>1. bloque[h] \notin bitmap
      <4>1. CASE cual[h] = "bin"
        BY <2>2, <4>1 DEF Sanos, Contenidos, ContenidoEn, BorraBloque, En
      <4>2. CASE cual[h] # "bin"
        BY <2>2, <4>2 DEF Limpio, BorraBloque
      <4> QED
        BY <4>1, <4>2
    <3>2. PICK b : b = bloque[h]
      OBVIOUS
    <3> QED
      BY <1>4, <3>1, <3>2, NoEscritoBorra DEF Sanos, Estrenos, Contenidos
  <2> QED
    BY <2>1, <2>2
<1>5. ASSUME NEW i \in 1..MaxPorArchivo, Vivo(f, i)', archivos[f].escrito
      PROVE  /\ VivoSigue(f, i)
             /\ contenido'[archivos[f].bloques[i]] = contenido[archivos[f].bloques[i]]
  <2>1. Vivo(f, i) /\ VivoSigue(f, i)
    BY <1>3, <1>5 DEF VivoSigue
  <2>2. archivos[f].bloques[i] \in Numeros
    BY <1>1, <2>1 DEF Vivo, TypeOK, Ficheros
  <2> QED
    BY <1>2, <1>4, <1>5, <2>1, <2>2
<1> QED
  BY <1>1, <1>5, DeIgual

\* The records go to blocks that held nothing, and that no other file lists.
LEMMA DeCarga ==
  ASSUME Sanos, NEW h \in Hilos, cargarRegistros(h), NEW f \in Ficheros
  PROVE  ContenidoDe(f)'
<1>1. /\ Base /\ TypeOK /\ ContenidoDe(f) /\ Trabaja(h) /\ pc[h] = "carga" /\ op[h] # "create"
      /\ ~CreaArchivo(h) /\ ~Encuentra(h) /\ tomados[h] \in Seq(Numeros) /\ DeSuArchivo(h)
  BY DeBase DEF Sanos, Contenidos, Base, Suelta, Trabaja, cargarRegistros, CreaArchivo, Encuentra, En, Oficio, Tomando, Sigue
<1>2. /\ contenido' = [b \in Numeros |-> IF b \in Elementos(tomados[h])
                                          THEN contenido[b] \cup {Marca(tabla[h], cual[h])}
                                          ELSE contenido[b]]
      /\ contenido \in [Numeros -> SUBSET (Tablas \X {"bin", "tmp"})]
  BY <1>1 DEF cargarRegistros, TypeOK, Sigue
<1>3. PICK S \in Ficheros : S = Suyo(h)
  BY <1>1, SuyoFichero, BaseSuelta
<1>4. ASSUME NEW j \in 1..Len(tomados[h])
      PROVE  /\ contenido[tomados[h][j]] = {}
             /\ \A i \in 1..MaxPorArchivo : f # S /\ Vivo(f, i) => archivos[f].bloques[i] # tomados[h][j]
  <2>1. j \in 1..MaxPorArchivo
        /\ \A i \in 1..MaxPorArchivo : f # S /\ Vivo(f, i) => archivos[f].bloques[i] # tomados[h][j]
    BY <1>1, <1>3, NoEscritoCarga DEF Sanos
  <2>2. Retiene(h, j)
    BY <1>1 DEF Retiene
  <2> QED
    BY <2>1, <2>2 DEF Sanos, Contenidos, ContenidoEn
<1>5. CASE f # S
  <2>1. archivos'[f] = archivos[f]
    BY <1>1, <1>3, <1>5, ArchivosAjenos
  <2>2. ASSUME NEW i \in 1..MaxPorArchivo, Vivo(f, i)'
        PROVE  /\ VivoSigue(f, i)
               /\ contenido'[archivos[f].bloques[i]] = contenido[archivos[f].bloques[i]]
    <3>1. VivoSigue(f, i) /\ Vivo(f, i)
      BY <1>1, <1>3, <1>5, <2>2, VivoAjeno DEF VivoSigue
    <3>2. archivos[f].bloques[i] \in Numeros
      BY <1>1, <3>1 DEF Vivo, TypeOK, Ficheros
    <3>3. archivos[f].bloques[i] \notin Elementos(tomados[h])
      BY <1>4, <1>5, <3>1 DEF Elementos
    <3> QED
      BY <1>2, <3>1, <3>2, <3>3
  <2> QED
    BY <1>1, <2>1, <2>2, DeIgual
<1>6. CASE f = S
  <2>1. ASSUME NEW i \in 1..MaxPorArchivo, Vivo(f, i)'
        PROVE  contenido'[archivos'[f].bloques[i]] = {Marca(f[1], f[2])}
    <3>1. VivoSigue(f, i) /\ archivos[f].bloques = tomados[h]
      BY <1>1, <1>3, <1>6, <2>1, VivoPropio DEF DeSuArchivo, DeLista, Dando
    <3>2. /\ i \in 1..Len(tomados[h]) /\ archivos'[f].bloques[i] = tomados[h][i]
          /\ tomados[h][i] \in Numeros /\ tomados[h][i] \in Elementos(tomados[h])
      BY <1>1, <3>1 DEF Vivo, VivoSigue, Elementos
    <3>3. contenido'[tomados[h][i]] = contenido[tomados[h][i]] \cup {Marca(tabla[h], cual[h])}
      BY <1>2, <3>2
    <3>4. contenido[tomados[h][i]] = {}
      BY <1>4, <3>2
    <3>5. f[1] = tabla[h] /\ f[2] = cual[h]
      BY <1>3, <1>6 DEF Suyo
    <3> QED
      BY <3>2, <3>3, <3>4, <3>5
  <2> QED
    BY <2>1 DEF ContenidoDe, Marca
<1> QED
  BY <1>5, <1>6

LEMMA DeTrabaja ==
  ASSUME Sanos, Limpio, NEW h \in Hilos, Trabaja(h), NEW f \in Ficheros
  PROVE  ContenidoDe(f)'
<1>1. CASE Prende(h) \/ BorraBloque(h)
  BY <1>1, DeVaciado
<1>2. CASE cargarRegistros(h)
  BY <1>2, DeCarga
<1>3. CASE ~Prende(h) /\ ~BorraBloque(h) /\ ~cargarRegistros(h)
  <2>1. UNCHANGED contenido
    BY <1>3 DEF Trabaja, PideBits, Encuentra, Fantasma, CreaArchivo, PideLimpiar, LimpiaBloque, Apaga,
      QuitaArchivo, Termina, disco, Sigue
  <2> QED
    BY <1>3, <2>1, DeQuieto
<1> QED
  BY <1>1, <1>2, <1>3

-----------------------------------------------------------------------------
(* The threads, after a step of one of them.                                *)

\* What h writes or empties is not what another holds.
LEMMA EnAjeno ==
  ASSUME Sanos, Limpio, NEW h \in Hilos, Trabaja(h), NEW g \in Hilos, g # h
  PROVE  ContenidoEn(g)'
<1>1. /\ Base /\ TypeOK /\ ContenidoEn(g) /\ Ajeno(g) /\ pc[h] # "libre"
      /\ tomados[g] \in Seq(Numeros) /\ contenido \in [Numeros -> SUBSET (Tablas \X {"bin", "tmp"})]
  BY AjenoPaso, NoEsLibre, DeBase DEF Sanos, Contenidos, TypeOK
<1>2. Suyo(g)' = Suyo(g)
  BY <1>1 DEF Ajeno, Parado, Suyo
<1>3. ASSUME NEW i \in 1..MaxPorArchivo, Retiene(g, i)' PROVE contenido'[tomados'[g][i]] = {}
  <2>1. Retiene(g, i) /\ tomados'[g] = tomados[g] /\ tomados[g][i] \in Numeros /\ contenido[tomados[g][i]] = {}
    BY <1>1, <1>3 DEF Retiene, Ajeno, Parado, ContenidoEn
  <2>2. CASE cargarRegistros(h)
    <3>1. PICK S \in Ficheros : S = Suyo(h)
      BY <1>1, SuyoFichero, BaseSuelta
    <3>2. pc[h] = "carga"
      BY <2>2 DEF cargarRegistros, En, Sigue
    <3>3. ASSUME NEW j \in 1..Len(tomados[h]) PROVE tomados[g][i] # tomados[h][j]
      BY <1>1, <2>1, <3>1, <3>2, NoEscritoCarga DEF Sanos
    <3>4. tomados[g][i] \notin Elementos(tomados[h])
      BY <3>3 DEF Elementos
    <3> QED
      BY <2>1, <2>2, <3>4 DEF cargarRegistros, Sigue
  <2>3. CASE Prende(h) \/ BorraBloque(h)
    <3>1. contenido' = [contenido EXCEPT ![bloque[h]] = {}]
      BY <2>3 DEF Prende, BorraBloque
    <3> QED
      BY <1>1, <2>1, <3>1
  <2>4. CASE ~Prende(h) /\ ~BorraBloque(h) /\ ~cargarRegistros(h)
    <3>1. UNCHANGED contenido
      BY <2>4 DEF Trabaja, PideBits, Encuentra, Fantasma, CreaArchivo, PideLimpiar, LimpiaBloque, Apaga,
        QuitaArchivo, Termina, disco, Sigue
    <3> QED
      BY <2>1, <3>1
  <2> QED
    BY <2>2, <2>3, <2>4
<1>4. ASSUME pc'[g] = "carga" \/ (pc'[g] = "prende" /\ op'[g] = "create")
      PROVE  ~archivos'[Suyo(g)'].escrito
  BY <1>1, <1>2, <1>4 DEF Ajeno, Parado, ContenidoEn
<1>5. ASSUME pc'[g] = "borra", cual'[g] = "bin" PROVE bloque'[g] \notin bitmap'
  <2>1. bloque'[g] = bloque[g] /\ bloque[g] \notin bitmap /\ Dentro(g)
    BY <1>1, <1>5 DEF Ajeno, Parado, ContenidoEn, Dentro, Dando
  <2>2. ~Prende(h)
    BY <1>1, <2>1 DEF Base, Suelta, SemaforosConDueno, Dentro, Prende, En
  <2>3. CASE Apaga(h)
    <3>1. bitmap' \subseteq bitmap \cup leido[h]
      BY <2>3 DEF Apaga
    <3>2. bloque[g] \notin leido[h]
      <4>1. CASE cual[h] = "bin"
        BY <1>1, <2>1, <2>3, <4>1 DEF Base, Suelta, SemaforosConDueno, Dentro, Dando, Apaga, En
      <4>2. CASE cual[h] # "bin"
        <5>1. ~Cruza(h)
          BY <2>3 DEF Apaga, Limpio
        <5> QED
          BY <2>1, <4>2, <5>1 DEF Cruza
      <4> QED
        BY <4>1, <4>2
    <3> QED
      BY <2>1, <3>1, <3>2
  <2>4. CASE ~Apaga(h)
    <3>1. UNCHANGED bitmap
      BY <2>2, <2>4 DEF Trabaja, PideBits, Encuentra, Fantasma, CreaArchivo, PideLimpiar, LimpiaBloque,
        BorraBloque, cargarRegistros, QuitaArchivo, Termina, disco, Sigue
    <3> QED
      BY <2>1, <3>1
  <2> QED
    BY <2>3, <2>4
<1> QED
  BY <1>3, <1>4, <1>5 DEF ContenidoEn

LEMMA EnPropio ==
  ASSUME Sanos, Limpio, NEW h \in Hilos, Trabaja(h)
  PROVE  ContenidoEn(h)'
<1>1. /\ Base /\ TypeOK /\ ContenidoEn(h) /\ pc[h] # "libre" /\ Cuentas(h) /\ Oficio(h) /\ DeSuArchivo(h)
      /\ tomados[h] \in Seq(Numeros) /\ contenido \in [Numeros -> SUBSET (Tablas \X {"bin", "tmp"})]
      /\ bloque[h] \in Numeros
  BY NoEsLibre, DeBase DEF Sanos, Contenidos, TypeOK
<1>2. ~Fantasma(h)
  BY DEF Limpio, Fantasma
<1>3. ASSUME NEW i \in 1..MaxPorArchivo, Retiene(h, i)' PROVE contenido'[tomados'[h][i]] = {}
  <2>1. pc'[h] \in {"busca", "prende", "crea", "carga"} /\ i \in 1..Len(tomados'[h]) /\ op'[h] # "create"
    BY <1>3 DEF Retiene
  <2>2. CASE PideBits(h)
    <3>1. tomados'[h] = <<>>
      BY <1>1, <2>2 DEF PideBits, Cuentas, En, locales, toma
    <3> QED
      BY <2>1, <3>1
  <2>3. CASE Encuentra(h) \/ CreaArchivo(h)
    <3>1. Retiene(h, i) /\ UNCHANGED <<tomados, contenido>>
      BY <1>1, <2>1, <2>3 DEF Retiene, Encuentra, CreaArchivo, En, locales, toma, pedido
    <3> QED
      BY <1>1, <3>1 DEF ContenidoEn
  <2>4. CASE Prende(h)
    <3>1. /\ contenido' = [contenido EXCEPT ![bloque[h]] = {}] /\ tomados'[h] = Append(tomados[h], bloque[h])
          /\ op[h] # "create" /\ pc[h] = "prende"
      BY <1>1, <2>1, <2>4 DEF Prende, Toma, En, pedido, TypeOK
    <3>2. CASE i = Len(tomados[h]) + 1
      <4>1. tomados'[h][i] = bloque[h]
        BY <1>1, <3>1, <3>2
      <4> QED
        BY <1>1, <3>1, <4>1
    <3>3. CASE i # Len(tomados[h]) + 1
      <4>1. i \in 1..Len(tomados[h]) /\ tomados'[h][i] = tomados[h][i] /\ tomados[h][i] \in Numeros
        BY <1>1, <2>1, <3>1, <3>3
      <4>2. contenido[tomados[h][i]] = {}
        BY <1>1, <3>1, <4>1 DEF ContenidoEn, Retiene
      <4> QED
        BY <1>1, <3>1, <4>1, <4>2
    <3> QED
      BY <3>2, <3>3
  <2>5. ASSUME ~PideBits(h), ~Encuentra(h), ~CreaArchivo(h), ~Prende(h) PROVE FALSE
    BY <1>1, <1>2, <2>1, <2>5 DEF Trabaja, cargarRegistros, PideLimpiar, LimpiaBloque, Apaga, BorraBloque,
      QuitaArchivo, Termina, Va, TypeOK, Sigue
  <2> QED
    BY <2>2, <2>3, <2>4, <2>5
<1>4. ASSUME pc'[h] = "carga" \/ (pc'[h] = "prende" /\ op'[h] = "create")
      PROVE  ~archivos'[Suyo(h)'].escrito
  <2>1. CreaArchivo(h) \/ (Encuentra(h) /\ op[h] = "create")
    <3>1. CASE Encuentra(h)
      BY <1>1, <1>4, <3>1 DEF Encuentra, Va, TypeOK, pedido
    <3>2. ASSUME ~Encuentra(h), ~CreaArchivo(h) PROVE FALSE
      BY <1>1, <1>2, <1>4, <3>2 DEF Trabaja, PideBits, Prende, Toma, cargarRegistros, PideLimpiar, LimpiaBloque,
        Apaga, BorraBloque, QuitaArchivo, Termina, Va, TypeOK, Sigue
    <3> QED
      BY <3>1, <3>2
  <2>2. Suyo(h)' = Suyo(h) /\ Suyo(h) \in Ficheros
    BY <1>1, <2>1, SuyoFichero, BaseSuelta DEF Suyo, CreaArchivo, Encuentra, locales, pedido
  <2>3. PICK S \in Ficheros : S = Suyo(h)
    BY <2>2
  <2>4. ~archivos'[S].escrito
    BY <1>1, <2>1, <2>3 DEF CreaArchivo, Encuentra, TypeOK, Ficheros
  <2> QED
    BY <2>2, <2>3, <2>4
<1>5. ASSUME pc'[h] = "borra", cual'[h] = "bin" PROVE bloque'[h] \notin bitmap'
  <2>1. LimpiaBloque(h) \/ Apaga(h)
    BY <1>1, <1>2, <1>5 DEF Trabaja, PideBits, Encuentra, Prende, Toma, CreaArchivo, cargarRegistros, PideLimpiar,
      BorraBloque, QuitaArchivo, Termina, Va, TypeOK, Sigue
  <2>2. CASE LimpiaBloque(h)
    <3>1. PICK b : b = lista[h][dados[h] + 1]
      OBVIOUS
    <3>2. bloque'[h] = b /\ b \notin Bits /\ UNCHANGED bitmap
      BY <1>1, <1>5, <2>2, <3>1 DEF LimpiaBloque, Va, TypeOK, disco
    <3> QED
      BY <1>1, <3>2 DEF TypeOK
  <2>3. CASE Apaga(h)
    <3>1. ~Cruza(h) /\ bloque'[h] = bloque[h]
      BY <2>3 DEF Apaga, Limpio
    <3>2. bitmap' = bitmap \ {bloque[h]}
      BY <1>1, <2>3, <3>1, ApagaUno DEF Sanos
    <3> QED
      BY <3>1, <3>2
  <2> QED
    BY <2>1, <2>2, <2>3
<1> QED
  BY <1>3, <1>4, <1>5 DEF ContenidoEn

LEMMA ContenidosTrabaja ==
  ASSUME Sanos, Limpio, NEW h \in Hilos, Trabaja(h)
  PROVE  Contenidos'
<1>1. ASSUME NEW f \in Ficheros PROVE ContenidoDe(f)'
  BY DeTrabaja
<1>2. ASSUME NEW g \in Hilos PROVE ContenidoEn(g)'
  BY EnAjeno, EnPropio
<1> QED
  BY <1>1, <1>2 DEF Contenidos

-----------------------------------------------------------------------------
(* The other steps, and the theorem.                                        *)

LEMMA EnEmpieza ==
  ASSUME Base, NEW h \in Hilos, NEW o, NEW t, NEW k, NEW n, NEW s, NEW lugar \in {"pide", "pideLimpiar"},
         Empieza(h, o, t, k, n, s, lugar), NEW g \in Hilos, ContenidoEn(g),
         g # h /\ pc[g] # "libre" => archivos'[Suyo(g)] = archivos[Suyo(g)]
  PROVE  ContenidoEn(g)'
<1>1. pc'[h] = lugar /\ contenido' = contenido /\ bitmap' = bitmap
  <2>1. pc'[h] = lugar
    BY EmpiezaPropio, BaseSuelta
  <2>2. contenido' = contenido /\ bitmap' = bitmap
    BY DEF Empieza
  <2> QED
    BY <2>1, <2>2
<1>2. CASE g = h
  BY <1>1, <1>2 DEF ContenidoEn, Retiene
<1>3. CASE g # h
  <2>1. /\ pc'[g] = pc[g] /\ op'[g] = op[g] /\ Suyo(g)' = Suyo(g) /\ cual'[g] = cual[g]
        /\ bloque'[g] = bloque[g] /\ tomados'[g] = tomados[g]
    BY <1>3, EmpiezaAjenos DEF Suyo, Base, Suelta, Parado
  <2> QED
    BY <1>1, <1>3, <2>1 DEF ContenidoEn, Retiene
<1> QED
  BY <1>2, <1>3

LEMMA ContenidosEmpieza ==
  ASSUME Base, Contenidos, NEW h \in Hilos, NEW o, NEW t, NEW k, NEW n, NEW s, NEW lugar \in {"pide", "pideLimpiar"},
         Empieza(h, o, t, k, n, s, lugar), UNCHANGED <<archivos, riesgo>>
  PROVE  Contenidos'
<1>1. UNCHANGED contenido
  BY DEF Empieza
<1>2. ASSUME NEW f \in Ficheros PROVE ContenidoDe(f)'
  <2>1. \A i \in 1..MaxPorArchivo : Vivo(f, i)' => VivoSigue(f, i)
    BY EmpiezaLugares
  <2> QED
    BY <1>1, <2>1, DeIgual DEF Contenidos
<1>3. ASSUME NEW g \in Hilos PROVE ContenidoEn(g)'
  BY EnEmpieza DEF Contenidos
<1> QED
  BY <1>2, <1>3 DEF Contenidos

\* The .tmpc is the temporal with another name, and its records have the same mark.
LEMMA ContenidosCompactar ==
  ASSUME Base, Contenidos, NEW t \in Tablas, compactarSola(t)
  PROVE  Contenidos'
<1>0. PICK s : s = archivos[<<t, "bin">>].bloques
  OBVIOUS
<1>s. /\ compactar(t) /\ Encima(t) = {} /\ Suelta
      /\ riesgo' = riesgo \cup (IF Hay(t, "tmpc") THEN {"resto"} ELSE {})
  BY BaseSuelta DEF compactarSola, compactar
<1>1. t \in Hilos /\ Empieza(t, "compacta", t, "bin", 0, s, "pideLimpiar") /\ UNCHANGED contenido
  BY <1>0, <1>s DEF compactar, Hilos, Empieza
<1>2. PICK a, c : a = <<t, "tmp">> /\ c = <<t, "tmpc">>
  OBVIOUS
<1>3. /\ a \in Ficheros /\ c \in Ficheros /\ a # c
      /\ archivos'[c] = archivos[a] /\ archivos'[a] = NoHay
      /\ \A f \in Ficheros : f \notin {a, c} => archivos'[f] = archivos[f]
  BY <1>2, <1>s, Renombra
<1>4. ASSUME NEW f \in Ficheros PROVE ContenidoDe(f)'
  <2>1. CASE f \notin {a, c}
    <3>1. archivos'[f] = archivos[f] /\ \A i \in 1..MaxPorArchivo : Vivo(f, i)' => VivoSigue(f, i)
      BY <1>2, <1>3, <2>1, VivoCompactar
    <3> QED
      BY <1>1, <3>1, DeIgual DEF Contenidos
  <2>2. CASE f = a
    BY <1>3, <2>2 DEF ContenidoDe, NoHay
  <2>3. CASE f = c
    <3>1. ASSUME archivos'[f].escrito, NEW i \in 1..MaxPorArchivo, Vivo(f, i)'
          PROVE  contenido'[archivos'[f].bloques[i]] = {Marca(f[1], f[2])}
      <4>1. Vivo(a, i) /\ archivos'[f] = archivos[a]
        BY <1>2, <1>3, <2>3, <3>1, VivoCompactar
      <4>2. contenido[archivos[a].bloques[i]] = {Marca(a[1], a[2])}
        BY <1>3, <3>1, <4>1 DEF Contenidos, ContenidoDe
      <4>3. Marca(a[1], a[2]) = Marca(f[1], f[2])
        BY <1>2, <2>3 DEF Marca
      <4> QED
        BY <1>1, <4>1, <4>2, <4>3
    <3> QED
      BY <3>1 DEF ContenidoDe, Marca
  <2> QED
    BY <2>1, <2>2, <2>3
<1>5. ASSUME NEW g \in Hilos PROVE ContenidoEn(g)'
  <2>1. ASSUME pc[g] # "libre" PROVE archivos'[Suyo(g)] = archivos[Suyo(g)]
    <3>1. tabla[g] # t /\ Suyo(g) \in Ficheros
      BY <2>1, <1>s, Renombra, SinNadie, SuyoFichero, BaseSuelta
    <3>2. Suyo(g) \notin {a, c}
      BY <1>2, <3>1 DEF Suyo
    <3> QED
      BY <1>3, <3>1, <3>2
  <2> QED
    BY <1>1, <2>1, EnEmpieza DEF Contenidos
<1> QED
  BY <1>4, <1>5 DEF Contenidos

LEMMA ContenidosCae ==
  ASSUME Base, Contenidos, Cae, "repite" \notin riesgo'
  PROVE  Contenidos'
<1>1. /\ UNCHANGED <<contenido, archivos>>
      /\ \A h \in Hilos : pc'[h] = "libre"
  BY DEF Cae, Reinicia, Todos, disco
<1>2. ASSUME NEW h \in Hilos PROVE dados[h] = 0
  <2>1. ~(dados[h] > 0) /\ dados[h] \in Nat
    BY DeBase, ConstantesBloques DEF Cae
  <2> QED
    BY <2>1
<1>3. ASSUME NEW f \in Ficheros, NEW i \in 1..MaxPorArchivo, Vivo(f, i)' PROVE VivoSigue(f, i)
  BY <1>1, <1>2, <1>3 DEF Vivo, VivoSigue
<1>4. ASSUME NEW f \in Ficheros PROVE ContenidoDe(f)'
  BY <1>1, <1>3, DeIgual DEF Contenidos
<1>5. ASSUME NEW g \in Hilos PROVE ContenidoEn(g)'
  BY <1>1 DEF ContenidoEn, Retiene
<1> QED
  BY <1>4, <1>5 DEF Contenidos

LEMMA ContenidosSiguen ==
  ASSUME InvContenido, [Next]_vars, SinSolapes', Limpio
  PROVE  Contenidos'
<1>1. riesgo \subseteq riesgo'
  BY RiesgoCrece DEF vars
<1>2. Sanos
  BY <1>1 DEF InvContenido, Inv, SinSolapes, Limpio, Sanos
<1>3. Base /\ Contenidos
  BY <1>2 DEF Sanos
<1>4. Clientes \subseteq Hilos /\ Tablas \subseteq Hilos /\ Volcador \in Hilos
  BY DEF Hilos
<1>5. CASE \E t \in Tablas, c \in Clientes : CREATE(c, t) \/ DROP(c, t)
  <2>1. PICK t \in Tablas, c \in Clientes : CREATE(c, t) \/ DROP(c, t)
    BY <1>5
  <2>2. DROP(c, t) => UNCHANGED <<archivos, riesgo>>
    BY Solas DEF DROP
  <2> QED
    BY <1>3, <1>4, <2>1, <2>2, ContenidosEmpieza DEF CREATE, DROP
<1>6. CASE \E t \in Tablas : dump(t) \/ compactar(t)
  <2>1. PICK t \in Tablas : dump(t) \/ compactar(t)
    BY <1>6
  <2>2. CASE dump(t)
    BY <1>3, <1>4, <2>2, ContenidosEmpieza DEF dump
  <2> QED
    BY <1>3, <2>1, <2>2, Solas, ContenidosCompactar
<1>7. CASE \E h \in Hilos : Trabaja(h) /\ UNCHANGED pedidos
  BY <1>2, <1>7, ContenidosTrabaja
<1>8. CASE Cae /\ UNCHANGED pedidos
  BY <1>3, <1>8, ContenidosCae DEF Limpio
<1>9. CASE UNCHANGED vars
  BY <1>3, <1>9 DEF vars, disco, locales, pedido, toma, Contenidos, ContenidoDe, ContenidoEn, Vivo, Suyo,
    Retiene, Marca
<1> QED
  BY <1>5, <1>6, <1>7, <1>8, <1>9, LosPasos

LEMMA InvContenidoInicial == Init => InvContenido
<1> SUFFICES ASSUME Init PROVE InvContenido
  OBVIOUS
<1>1. \A h \in Hilos : pc[h] = "libre"
  BY DEF Init, Todos
<1>2. ASSUME NEW f \in Ficheros PROVE ContenidoDe(f)
  BY DEF Init, ContenidoDe, Ficheros, NoHay
<1>3. ASSUME NEW h \in Hilos PROVE ContenidoEn(h)
  BY <1>1 DEF ContenidoEn, Retiene
<1>4. Contenidos
  BY <1>2, <1>3 DEF Contenidos
<1> QED
  BY <1>4, InvFugaInicial DEF InvFuga, InvContenido

LEMMA InvContenidoSigue == InvContenido /\ [Next]_vars => InvContenido'
<1> SUFFICES ASSUME InvContenido, [Next]_vars PROVE InvContenido'
  OBVIOUS
<1>1. Inv'
  BY InvSigue DEF InvContenido
<1>2. SinSolapes' => Estrenos'
  BY EstrenosSiguen DEF InvContenido
<1>3. SinSolapes' /\ Limpio => Contenidos'
  BY ContenidosSiguen
<1> QED
  BY <1>1, <1>2, <1>3 DEF InvContenido, SinSolapes, Limpio

LEMMA InvContenidoBasta == InvContenido => ContenidoPropio
<1> SUFFICES ASSUME InvContenido, riesgo \cap ({"byte", "repite", "lleno", "borra"} \cup Solapes) = {},
                    NEW t \in Tablas, NEW k \in Tipos, archivos[<<t, k>>].escrito,
                    NEW b \in BloquesDe(<<t, k>>)
             PROVE  contenido[b] = {Marca(t, k)}
  BY DEF ContenidoPropio
<1>1. PICK f \in Tablas \X Tipos : f = <<t, k>>
  OBVIOUS
<1>2. PICK i \in 1..MaxPorArchivo : Vivo(f, i) /\ archivos[f].bloques[i] = b
  BY <1>1, EnSuLugar DEF InvContenido, Inv
<1>3. ContenidoDe(f) /\ f[1] = t /\ f[2] = k
  BY <1>1 DEF InvContenido, SinSolapes, Contenidos, Ficheros
<1> QED
  BY <1>1, <1>2, <1>3 DEF ContenidoDe

\* Until DROP or the compaction starts over another operation of its table (a temporal that
\* is being written included), a byte is written over, the disk has been full, a crash
\* stops a removal or a block is removed when it is already another's, the blocks of a
\* file that was written hold its records, and no other file's.
THEOREM ContenidoDeCadaUno == Spec => []ContenidoPropio
  BY InvContenidoInicial, InvContenidoSigue, InvContenidoBasta, PTL DEF Spec
=============================================================================
