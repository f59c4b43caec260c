--------------------------- MODULE CriterioProofs ---------------------------
(***************************************************************************)
(* Proofs about Criterio, for any memories, tables, threads and bounds.    *)
(*                                                                         *)
(* Lugares ties the place of a thread to what it has been asked for.       *)
(* Llenos says that a pool found with memories keeps them until the choice *)
(* is made, and Vuelta that the reference of the round is an index of the  *)
(* pool when it is used; from them what list_get answers is in the pool,   *)
(* and what is in a pool has a seed (Conocidas, Elegida).  Destinos is     *)
(* where a table goes, AltaSC the pool of SC, SinCopias and Barridas the   *)
(* removal of a memory.  Giro says that the last choices of EC are         *)
(* consecutive, and where the reference is as seen from the last one.      *)
(***************************************************************************)
EXTENDS Criterio, WellFoundedInduction, TLAPS

\* A thread at l, asked for p, with index i and memory n at hand.
Coherente(l, p, i, n) ==
  /\ l = "cuenta" => p.crit = "SHC"
  /\ l \in {"compara", "vuelve", "lee", "guarda"} => p.crit = "EC"
  /\ l \notin {"limpia", "agrega", "enlaza"} => p.op # "ADD"
  /\ (p.crit = "SHC" /\ p.op # "ADD") \/ p.op = "CREATE" => p.tabla \in Tablas
  /\ p.tabla \in Tablas => p.crit = Consistencia[p.tabla]
  /\ l \in {"quita", "saca"} => i \in 0..2
  /\ l = "guarda" => i >= -1
  /\ l \in {"limpia", "agrega"} => p.crit = "SC"
  /\ l \in {"limpia", "agrega", "enlaza"} => n \in Numeros
Lugares == \A h \in Pedidores : Coherente(pc[h], pedido[h], idx[h], num[h])

Llenos ==
  "pool" \notin riesgo =>
    \A h \in Pedidores :
      Eligiendo(h) =>
        /\ Pool(h) # <<>>
        /\ pc[h] = "toma" /\ pedido[h].crit = "SHC" =>
             /\ idx[h] = Resto(SumaAscii[pedido[h].tabla], Len(Pool(h)))
             /\ "negativo" \notin riesgo => SumaAscii[pedido[h].tabla] >= 0

Vuelta ==
  riesgo \cap {"pool", "ronda"} = {} =>
    /\ \A g, h \in Pedidores : EnRonda(g) /\ EnRonda(h) => g = h
    /\ \A h \in Pedidores :
         /\ pc[h] = "lee" => referencia < Len(Pool(h)) - 1
         /\ pc[h] = "guarda" => idx[h] = referencia /\ referencia < Len(Pool(h)) - 1
         /\ pc[h] = "toma" /\ pedido[h].crit = "EC" =>
              referencia \in 0..(Len(Pool(h)) - 1)

Conocidas ==
  riesgo \cap {"lista", "desconocida"} = {} =>
    \A c \in Criterios : \A i \in 1..Len(vector[c]) : vector[c][i] \in seeds

Elegida ==
  riesgo \cap {"lista", "pool", "ronda", "negativo", "desconocida"} = {} =>
    \A h \in Pedidores : pc[h] = "busca" => num[h] \in seeds

\* The place of a table in its pool.
Sitio(t) ==
  list_get(vector[Consistencia[t]],
           IF Consistencia[t] = "SC" THEN 0
           ELSE Resto(SumaAscii[t], Len(vector[Consistencia[t]])))
Destinos ==
  riesgo \cap {"lista", "pool"} = {} =>
    \A t \in Tablas : Consistencia[t] # "EC" /\ destino[t] # Nadie => destino[t] = Sitio(t)

AltaSC ==
  riesgo \cap {"lista", "dosSC"} = {} =>
    /\ \A g, h \in Pedidores : AMediasSC(g) /\ AMediasSC(h) => g = h
    /\ \A h \in Pedidores : AMediasSC(h) => vector["SC"] = <<>>
    /\ Len(vector["SC"]) <= 1

USE ConstantesCriterio

-----------------------------------------------------------------------------
(* Lists.                                                                  *)

LEMMA TrozoTipo ==
  ASSUME NEW S, NEW q \in Seq(S), NEW i \in 1..(Len(q) + 1), NEW j \in 0..Len(q)
  PROVE  SubSeq(q, i, j) \in Seq(S)
  OBVIOUS

LEMMA UltimosTipo ==
  ASSUME NEW S, NEW q \in Seq(S), NEW n \in Nat
  PROVE  Ultimos(n, q) \in Seq(S)
<1>1. (IF Len(q) > n THEN Len(q) - n + 1 ELSE 1) \in 1..(Len(q) + 1) /\ Len(q) \in 0..Len(q)
  OBVIOUS
<1> QED
  BY <1>1, TrozoTipo DEF Ultimos

\* Naturals are well founded, so a value in a list has a first place.
LEMMA PrimeraVez ==
  ASSUME NEW S, NEW q \in Seq(S), NEW m, Esta(m, q)
  PROVE  \E j \in 1..Len(q) : q[j] = m /\ \A k \in 1..(j - 1) : q[k] # m
<1> DEFINE T == {j \in 1..Len(q) : q[j] = m}
<1>1. T \subseteq Nat /\ T # {}
  BY DEF Esta
<1>2. PICK j \in T : \A k \in T : <<k, j>> \notin OpToRel(<, Nat)
  <2> HIDE DEF T
  <2> QED
    BY <1>1, NatLessThanWellFounded, WFMin
<1>3. ASSUME NEW k \in 1..(j - 1), q[k] = m PROVE FALSE
  <2>1. k \in T /\ k \in Nat /\ j \in Nat /\ k < j
    BY <1>1, <1>3
  <2>2. <<k, j>> \in OpToRel(<, Nat)
    BY <2>1 DEF OpToRel
  <2> QED
    BY <1>2, <2>1, <2>2
<1> QED
  BY <1>2, <1>3

LEMMA Unidas ==
  ASSUME NEW S, NEW a \in Seq(S), NEW b \in Seq(S)
  PROVE  /\ a \o b \in Seq(S) /\ Len(a \o b) = Len(a) + Len(b)
         /\ \A j \in 1..Len(a) : (a \o b)[j] = a[j]
         /\ \A j \in (Len(a) + 1)..(Len(a) + Len(b)) : (a \o b)[j] = b[j - Len(a)]
<1>1. a \o b \in Seq(S) /\ Len(a \o b) = Len(a) + Len(b)
  OBVIOUS
<1>2. ASSUME NEW j \in 1..(Len(a) + Len(b))
      PROVE  (a \o b)[j] = IF j <= Len(a) THEN a[j] ELSE b[j - Len(a)]
  OBVIOUS
<1> QED
  BY <1>1, <1>2

\* What list_remove_by_condition leaves: the list without one place.
LEMMA SinPrimeroForma ==
  ASSUME NEW S, NEW q \in Seq(S), NEW m, Esta(m, q)
  PROVE  \E i \in 1..Len(q) :
           /\ q[i] = m
           /\ SinPrimero(q, m) \in Seq(S)
           /\ Len(SinPrimero(q, m)) = Len(q) - 1
           /\ \A j \in 1..(i - 1) : SinPrimero(q, m)[j] = q[j]
           /\ \A j \in i..(Len(q) - 1) : SinPrimero(q, m)[j] = q[j + 1]
<1> DEFINE P(j) == q[j] = m /\ \A k \in 1..(j - 1) : q[k] # m
           i == CHOOSE j \in 1..Len(q) : P(j)
<1>1. i \in 1..Len(q) /\ q[i] = m
  BY PrimeraVez
<1>2. SinPrimero(q, m) = SubSeq(q, 1, i - 1) \o SubSeq(q, i + 1, Len(q))
  BY DEF SinPrimero
<1> HIDE DEF i
<1> DEFINE a == SubSeq(q, 1, i - 1)
           b == SubSeq(q, i + 1, Len(q))
<1>3. /\ a \in Seq(S) /\ Len(a) = i - 1 /\ \A j \in 1..(i - 1) : a[j] = q[j]
      /\ b \in Seq(S) /\ Len(b) = Len(q) - i
      /\ \A j \in 1..(Len(q) - i) : b[j] = q[i + j]
  <2>1. i \in Nat /\ Len(q) \in Nat /\ 1 <= i /\ i <= Len(q)
    BY <1>1
  <2> HIDE DEF a, b
  <2>2. a \in Seq(S) /\ Len(a) = i - 1 /\ \A j \in 1..(i - 1) : a[j] = q[j]
    BY <2>1, SMTT(30) DEF a
  <2>3. b \in Seq(S) /\ Len(b) = Len(q) - i
    BY <2>1, SMTT(30) DEF b
  <2>4. ASSUME NEW j \in 1..(Len(q) - i) PROVE b[j] = q[i + j]
    BY <2>1, SMTT(30) DEF b
  <2> QED
    BY <2>2, <2>3, <2>4
<1> HIDE DEF a, b
<1>4. /\ a \o b \in Seq(S) /\ Len(a \o b) = Len(a) + Len(b)
      /\ \A j \in 1..Len(a) : (a \o b)[j] = a[j]
      /\ \A j \in (Len(a) + 1)..(Len(a) + Len(b)) : (a \o b)[j] = b[j - Len(a)]
  <2>1. a \in Seq(S) /\ b \in Seq(S)
    BY <1>3
  <2> QED
    BY <2>1, Unidas
<1>5. \A j \in i..(Len(q) - 1) : (a \o b)[j] = q[j + 1]
  <2> SUFFICES ASSUME NEW j \in i..(Len(q) - 1) PROVE (a \o b)[j] = q[j + 1]
    OBVIOUS
  <2>0. PICK n, p : n = Len(q) /\ p = i
    OBVIOUS
  <2>4. n \in Nat /\ p \in 1..n /\ j \in p..(n - 1) /\ Len(a) = p - 1 /\ Len(b) = n - p
    BY <1>1, <1>3, <2>0
  <2>5. j - (p - 1) \in 1..(n - p) /\ j \in (Len(a) + 1)..(Len(a) + Len(b))
    BY ONLY <2>4
  <2>1. j - (i - 1) \in 1..(Len(q) - i) /\ j \in (Len(a) + 1)..(Len(a) + Len(b))
    BY ONLY <2>0, <2>5
  <2>2. (a \o b)[j] = b[j - (i - 1)]
    BY <1>3, <1>4, <2>1
  <2>3. i + (j - (i - 1)) = j + 1
    BY <1>1
  <2> QED
    BY <1>3, <2>1, <2>2, <2>3
<1>6. SinPrimero(q, m) = a \o b
  BY <1>2 DEF a, b
<1>7. Len(a \o b) = Len(q) - 1
  BY <1>1, <1>3, <1>4
<1>8. \A j \in 1..(i - 1) : (a \o b)[j] = q[j]
  BY <1>3, <1>4
<1> HIDE DEF a, b
<1>9. /\ SinPrimero(q, m) \in Seq(S)
      /\ Len(SinPrimero(q, m)) = Len(q) - 1
      /\ \A j \in 1..(i - 1) : SinPrimero(q, m)[j] = q[j]
      /\ \A j \in i..(Len(q) - 1) : SinPrimero(q, m)[j] = q[j + 1]
  BY <1>4, <1>5, <1>6, <1>7, <1>8
<1> QED
  BY <1>1, <1>9

LEMMA SinPrimeroTipo ==
  ASSUME NEW S, NEW q \in Seq(S), NEW m
  PROVE  SinPrimero(q, m) \in Seq(S) /\ Len(SinPrimero(q, m)) <= Len(q)
<1>1. CASE ~Esta(m, q)
  BY <1>1 DEF SinPrimero
<1>2. CASE Esta(m, q)
  <2>1. SinPrimero(q, m) \in Seq(S) /\ Len(SinPrimero(q, m)) = Len(q) - 1
    BY <1>2, SinPrimeroForma
  <2> QED
    BY <2>1
<1> QED
  BY <1>1, <1>2

\* A list that one call changes becomes what the call makes of it ...
LEMMA DejaUna ==
  ASSUME "lista" \notin riesgo, NEW q, NEW r, NEW s \in Deja(q, r)
  PROVE  s = r
  BY DEF Deja

\* ... and one that two change is still a list.
LEMMA DejaTipo ==
  ASSUME NEW q \in Seq(Numeros \cup {0}), NEW r \in Seq(Numeros \cup {0}), NEW s \in Deja(q, r)
  PROVE  s \in Seq(Numeros \cup {0})
<1>1. Append(q, 0) \in Seq(Numeros \cup {0})
  <2>1. 0 \in Numeros \cup {0}
    OBVIOUS
  <2> QED
    BY <2>1
<1>2. ASSUME NEW i \in 1..Len(q)
      PROVE  SubSeq(q, 1, i - 1) \o SubSeq(q, i + 1, Len(q)) \in Seq(Numeros \cup {0})
  <2>1. /\ 1 \in 1..(Len(q) + 1) /\ i - 1 \in 0..Len(q)
        /\ i + 1 \in 1..(Len(q) + 1) /\ Len(q) \in 0..Len(q)
    OBVIOUS
  <2>2. /\ SubSeq(q, 1, i - 1) \in Seq(Numeros \cup {0})
        /\ SubSeq(q, i + 1, Len(q)) \in Seq(Numeros \cup {0})
    BY <2>1, TrozoTipo
  <2> QED
    BY <2>2, Unidas
<1>3. \/ s = r \/ s = q \/ s = Append(q, 0)
      \/ \E i \in 1..Len(q) : s = SubSeq(q, 1, i - 1) \o SubSeq(q, i + 1, Len(q))
  BY DEF Deja
<1> QED
  BY <1>1, <1>2, <1>3

\* The remainder of C: the one of arithmetic for what is not negative.
LEMMA RestoTipo ==
  ASSUME NEW a \in Int, NEW n \in Nat \ {0}
  PROVE  Resto(a, n) \in Int /\ (a >= 0 => Resto(a, n) \in 0..(n - 1))
<1>1. CASE a >= 0
  BY <1>1 DEF Resto
<1>2. CASE ~(a >= 0)
  <2>1. PICK b \in Nat : b = -a
    BY <1>2
  <2>2. b % n \in Int
    BY <2>1
  <2>3. Resto(a, n) = -(b % n)
    BY <1>2, <2>1 DEF Resto
  <2> QED
    BY <1>2, <2>2, <2>3
<1> QED
  BY <1>1, <1>2

-----------------------------------------------------------------------------
(* Types.                                                                  *)

LEMMA TipoInicial == Init => TypeOK
<1> SUFFICES ASSUME Init PROVE TypeOK
  OBVIOUS
<1>1. Libre \in Pedidos
  BY DEF Libre, Pedidos, Criterios
<1>2. <<>> \in Seq(Numeros \cup {0}) /\ <<>> \in Seq(Int)
  OBVIOUS
<1> QED
  BY <1>1, <1>2 DEF Init, TypeOK, Pedidores

LEMMA CambiaPoolTipo ==
  ASSUME TypeOK, NEW c \in Criterios, NEW q \in Seq(Numeros \cup {0}), CambiaPool(c, q)
  PROVE  /\ vector' \in [Criterios -> Seq(Numeros \cup {0})]
         /\ destino' \in [Tablas -> Nat \cup {Nadie}]
         /\ ronda' \in Seq(Int)
<1>1. <<>> \in Seq(Int)
  OBVIOUS
<1> QED
  BY <1>1 DEF TypeOK, CambiaPool

LEMMA VuelveTipo ==
  ASSUME TypeOK, NEW h \in Pedidores, Vuelve(h)
  PROVE  /\ pc' = [pc EXCEPT ![h] = "libre"]
         /\ pedido' \in [Pedidores -> Pedidos]
         /\ idx' \in [Pedidores -> Int]
         /\ num' \in [Pedidores -> Nat]
<1>1. Libre \in Pedidos
  BY DEF Libre, Pedidos, Criterios
<1> QED
  BY <1>1 DEF TypeOK, Vuelve, Va

\* What list_get answers is a number.
LEMMA list_getTipo ==
  ASSUME NEW q \in Seq(Numeros \cup {0}), NEW i \in Int
  PROVE  list_get(q, i) \in Nat
<1>1. CASE i \in 0..(Len(q) - 1)
  <2>1. i + 1 \in 1..Len(q)
    BY <1>1
  <2>2. q[i + 1] \in Numeros \cup {0}
    BY <2>1
  <2>3. list_get(q, i) = q[i + 1]
    BY <1>1 DEF list_get
  <2>4. Numeros \cup {0} \subseteq Nat
    OBVIOUS
  <2> QED
    BY <2>2, <2>3, <2>4
<1>2. CASE i \notin 0..(Len(q) - 1)
  BY <1>2 DEF list_get
<1> QED
  BY <1>1, <1>2

\* Where a thread goes when it has found memories in its pool.
LEMMA AlMirar ==
  ASSUME TypeOK, NEW h \in Pedidores, Mira(h)
  PROVE  /\ UNCHANGED <<vector, referencia, seeds, metadata, pedido, idx, num, viva, altas,
                        historia>>
         /\ riesgo' = riesgo \cup Corre("pool", Tocada(pedido[h].crit))
         /\ pc[h] = "mira" /\ pc' = [pc EXCEPT ![h] = pc'[h]]
         /\ Pool(h) = <<>> => pc'[h] = "sinMemoria"
         /\ Pool(h) # <<>> /\ pedido[h].crit = "SC" => pc'[h] = "toma"
         /\ Pool(h) # <<>> /\ pedido[h].crit = "SHC" => pc'[h] = "cuenta"
         /\ Pool(h) # <<>> /\ pedido[h].crit = "EC" => pc'[h] = "compara"
         /\ pc'[h] \in {"sinMemoria", "toma", "cuenta", "compara"}
<1>1. pedido[h].crit \in Criterios
  BY DEF TypeOK, Pedidos
<1>2. \E l : pc' = [pc EXCEPT ![h] = l] /\ l = IF Pool(h) = <<>> THEN "sinMemoria" ELSE Rama(pedido[h].crit)
  BY DEF Mira, Va
<1>3. pc'[h] = IF Pool(h) = <<>> THEN "sinMemoria" ELSE Rama(pedido[h].crit)
  BY <1>2 DEF TypeOK
<1>4. CASE pedido[h].crit = "SC"
  <2>1. Rama(pedido[h].crit) = "toma"
    BY <1>4 DEF Rama
  <2> QED
    BY <1>2, <1>3, <1>4, <2>1 DEF Mira, En, TypeOK
<1>5. CASE pedido[h].crit = "SHC"
  <2>1. Rama(pedido[h].crit) = "cuenta"
    BY <1>5 DEF Rama
  <2> QED
    BY <1>2, <1>3, <1>5, <2>1 DEF Mira, En, TypeOK
<1>6. CASE pedido[h].crit = "EC"
  <2>1. Rama(pedido[h].crit) = "compara"
    BY <1>6 DEF Rama
  <2> QED
    BY <1>2, <1>3, <1>6, <2>1 DEF Mira, En, TypeOK
<1> QED
  BY <1>1, <1>4, <1>5, <1>6 DEF Criterios

\* A request touches the variables of its own thread, and forgets no risk.
AjenosQuietos(h) ==
  /\ \A g \in Pedidores \ {h} :
       pc'[g] = pc[g] /\ pedido'[g] = pedido[g] /\ idx'[g] = idx[g] /\ num'[g] = num[g]
  /\ riesgo \subseteq riesgo'

LEMMA Ajenos ==
  ASSUME TypeOK, NEW h \in Pedidores, request(h)
  PROVE  AjenosQuietos(h)
<1> USE DEF TypeOK, En, Va, Vuelve, locales, AjenosQuietos
<1>1. ASSUME NEW t \in Tablas, NEW op \in {"CREATE", "USA"}, Pide(h, op, t)
      PROVE  AjenosQuietos(h)
  BY <1>1 DEF Pide
<1>2. ASSUME PideSinCriterio(h) PROVE AjenosQuietos(h)
  BY <1>2 DEF PideSinCriterio
<1>3. ASSUME NEW c \in {"SC", "EC"}, Describe(h, c) PROVE AjenosQuietos(h)
  BY <1>3 DEF Describe
<1>4. ASSUME Conecta(h) PROVE AjenosQuietos(h)
  BY <1>4 DEF Conecta
<1>5. ASSUME Atiende(h) PROVE AjenosQuietos(h)
  BY <1>5 DEF Atiende
<1>6. ASSUME SinRespuesta(h) PROVE AjenosQuietos(h)
  BY <1>6 DEF SinRespuesta
<1>7. ASSUME Mira(h) PROVE AjenosQuietos(h)
  BY <1>7 DEF Mira
<1>8. ASSUME Cuenta(h) PROVE AjenosQuietos(h)
  BY <1>8 DEF Cuenta
<1>9. ASSUME Compara(h) PROVE AjenosQuietos(h)
  BY <1>9 DEF Compara
<1>10. ASSUME VuelveAlPrimero(h) PROVE AjenosQuietos(h)
  BY <1>10 DEF VuelveAlPrimero
<1>11. ASSUME LeeReferencia(h) PROVE AjenosQuietos(h)
  BY <1>11 DEF LeeReferencia
<1>12. ASSUME AvanzaReferencia(h) PROVE AjenosQuietos(h)
  BY <1>12 DEF AvanzaReferencia
<1>13. ASSUME Toma(h) PROVE AjenosQuietos(h)
  BY <1>13 DEF Toma
<1>14. ASSUME Busca(h) PROVE AjenosQuietos(h)
  BY <1>14 DEF Busca
<1>15. ASSUME NEW m \in Numeros, NEW c \in Criterios, EmpiezaAlta(h, m, c) PROVE AjenosQuietos(h)
  BY <1>15 DEF EmpiezaAlta
<1>16. ASSUME Limpia(h) PROVE AjenosQuietos(h)
  BY <1>16 DEF Limpia
<1>17. ASSUME EmpiezaAgregar(h) PROVE AjenosQuietos(h)
  BY <1>17 DEF EmpiezaAgregar
<1>18. ASSUME Agrega(h) PROVE AjenosQuietos(h)
  BY <1>18 DEF Agrega
<1>19. ASSUME Quita(h) PROVE AjenosQuietos(h)
  BY <1>19 DEF Quita, Sigue
<1>20. ASSUME Saca(h) PROVE AjenosQuietos(h)
  BY <1>20 DEF Saca, Sigue
<1> QED
  BY <1>1, <1>2, <1>3, <1>4, <1>5, <1>6, <1>7, <1>8, <1>9,
     <1>10, <1>11, <1>12, <1>13, <1>14, <1>15, <1>16, <1>17, <1>18, <1>19, <1>20
  DEF request, conectarse_a_memoria, elegir_memoria,
       get_memoria_fifo, agregar_consistencia

\* Every step keeps the types and the places, whatever overlaps.
LEMMA BasePropia ==
  ASSUME TypeOK, Lugares, NEW h \in Pedidores, request(h)
  PROVE  TypeOK' /\ Coherente(pc'[h], pedido'[h], idx'[h], num'[h])
<1> DEFINE Bien == TypeOK' /\ Coherente(pc'[h], pedido'[h], idx'[h], num'[h])
<1>0. Coherente(pc[h], pedido[h], idx[h], num[h]) /\ pedido[h] \in Pedidos
  BY DEF TypeOK, Lugares
<1>1. ASSUME NEW t \in Tablas, NEW op \in {"CREATE", "USA"}, Pide(h, op, t) PROVE Bien
  <2>1. [op |-> op, tabla |-> t, crit |-> Consistencia[t]] \in Pedidos
    BY DEF Pedidos
  <2> QED
    BY <1>1, <2>1 DEF TypeOK, Pide, En, Va, historia, Coherente
<1>2. ASSUME PideSinCriterio(h) PROVE Bien
  BY <1>0, <1>2 DEF TypeOK, PideSinCriterio, locales, historia, Riesgos
<1>3. ASSUME NEW c \in {"SC", "EC"}, Describe(h, c) PROVE Bien
  <2>1. [op |-> "DESCRIBE", tabla |-> Nadie, crit |-> c] \in Pedidos
    BY DEF Pedidos, Criterios
  <2> QED
    BY <1>3, <2>1 DEF TypeOK, Describe, En, Va, historia, Coherente
<1>4. ASSUME Conecta(h) PROVE Bien
  <2>1. pc' = [pc EXCEPT ![h] = "espera"] \/ pc' = [pc EXCEPT ![h] = "quita"]
    BY <1>4 DEF Conecta, Va
  <2>2. /\ idx' = [idx EXCEPT ![h] = 0] /\ pc[h] = "conecta"
        /\ UNCHANGED <<vector, referencia, seeds, metadata, pedido, num, viva, altas,
                       historia, riesgo>>
    BY <1>4 DEF Conecta, En
  <2>3. CASE pc' = [pc EXCEPT ![h] = "espera"]
    BY <1>0, <2>2, <2>3 DEF TypeOK, historia, Coherente
  <2>4. CASE pc' = [pc EXCEPT ![h] = "quita"]
    BY <1>0, <2>2, <2>4 DEF TypeOK, historia, Coherente
  <2> QED
    BY <2>1, <2>3, <2>4
<1>5. ASSUME Atiende(h) PROVE Bien
  <2>1. Descriptas(h) \subseteq Tablas
    BY <1>0 DEF Descriptas, Coherente
  <2>2. metadata' \subseteq Tablas
    BY <1>5, <2>1 DEF Atiende, TypeOK
  <2>3. /\ pc' = [pc EXCEPT ![h] = "libre"] /\ pedido' = [pedido EXCEPT ![h] = Libre]
        /\ pedido' \in [Pedidores -> Pedidos]
        /\ idx' \in [Pedidores -> Int] /\ num' \in [Pedidores -> Nat]
    BY <1>5, VuelveTipo DEF Atiende, Vuelve
  <2>4. UNCHANGED <<vector, referencia, seeds, viva, altas, historia, riesgo>>
    BY <1>5 DEF Atiende
  <2> QED
    BY <2>2, <2>3, <2>4 DEF TypeOK, historia, Coherente, Libre
<1>6. ASSUME SinRespuesta(h) PROVE Bien
  <2>1. /\ pc' = [pc EXCEPT ![h] = "libre"] /\ pedido' = [pedido EXCEPT ![h] = Libre]
        /\ pedido' \in [Pedidores -> Pedidos]
        /\ idx' \in [Pedidores -> Int] /\ num' \in [Pedidores -> Nat]
    BY <1>6, VuelveTipo DEF SinRespuesta, Vuelve
  <2>2. viva' \in BOOLEAN /\ riesgo' \subseteq Riesgos
    BY <1>6 DEF SinRespuesta, TypeOK, Riesgos
  <2>3. UNCHANGED <<vector, referencia, seeds, metadata, altas, historia>>
    BY <1>6 DEF SinRespuesta
  <2> QED
    BY <2>1, <2>2, <2>3 DEF TypeOK, historia, Coherente, Libre
<1>7. ASSUME Mira(h) PROVE Bien
  <2>1. pedido[h].crit \in Criterios
    BY <1>0 DEF Pedidos
  <2>2. /\ pc' = [pc EXCEPT ![h] = pc'[h]] /\ pc[h] = "mira"
        /\ pc'[h] \in {"sinMemoria", "toma", "cuenta", "compara"}
        /\ pc'[h] = "cuenta" => pedido[h].crit = "SHC"
        /\ pc'[h] = "compara" => pedido[h].crit = "EC"
    BY <2>1, <1>7, AlMirar DEF Criterios
  <2>3. /\ UNCHANGED <<vector, referencia, seeds, metadata, pedido, idx, num, viva, altas,
                       historia>>
        /\ riesgo' \subseteq Riesgos
    BY <1>7, AlMirar DEF Corre, Riesgos, TypeOK
  <2>4. TypeOK'
    BY <2>2, <2>3 DEF TypeOK, historia
  <2>5. Coherente(pc'[h], pedido'[h], idx'[h], num'[h])
    BY <1>0, <2>2, <2>3 DEF Coherente
  <2> QED
    BY <2>4, <2>5
<1>8. ASSUME Cuenta(h) PROVE Bien
  <2>1. pedido[h].tabla \in Tablas /\ SumaAscii[pedido[h].tabla] \in Int
    BY <1>0, <1>8 DEF Cuenta, En, Coherente
  <2>2. Pool(h) # <<>> => Len(Pool(h)) \in Nat \ {0}
    BY <1>0 DEF Pool, TypeOK, Pedidos
  <2>3. Pool(h) # <<>> => Resto(SumaAscii[pedido[h].tabla], Len(Pool(h))) \in Int
    BY <2>1, <2>2, RestoTipo
  <2>4. /\ UNCHANGED <<vector, referencia, seeds, metadata, pedido, num, altas, historia>>
        /\ riesgo' \subseteq Riesgos
        /\ pc[h] = "cuenta"
    BY <1>8 DEF Cuenta, En, Corre, Riesgos, TypeOK
  <2>5. CASE Pool(h) # <<>>
    <3>1. /\ idx' = [idx EXCEPT ![h] = Resto(SumaAscii[pedido[h].tabla], Len(Pool(h)))]
          /\ pc' = [pc EXCEPT ![h] = "toma"] /\ UNCHANGED viva
      BY <1>8, <2>5 DEF Cuenta, Va
    <3> QED
      BY <1>0, <2>3, <2>4, <2>5, <3>1 DEF TypeOK, historia, Coherente
  <2>6. CASE Pool(h) = <<>>
    <3>1. viva' = FALSE /\ UNCHANGED <<idx, pc>>
      BY <1>8, <2>6 DEF Cuenta
    <3> QED
      BY <1>0, <2>4, <3>1 DEF TypeOK, historia
  <2> QED
    BY <2>5, <2>6
<1>9. ASSUME Compara(h) PROVE Bien
  BY <1>0, <1>9 DEF Compara, TypeOK, En, Va, historia, Coherente, Corre, Riesgos
<1>10. ASSUME VuelveAlPrimero(h) PROVE Bien
  BY <1>0, <1>10 DEF VuelveAlPrimero, TypeOK, En, Va, locales, historia, Coherente
<1>11. ASSUME LeeReferencia(h) PROVE Bien
  BY <1>0, <1>11 DEF LeeReferencia, TypeOK, En, Va, locales, historia, Coherente
<1>12. ASSUME AvanzaReferencia(h) PROVE Bien
  BY <1>0, <1>12 DEF AvanzaReferencia, TypeOK, En, Va, locales, historia, Coherente
<1>13. ASSUME Toma(h) PROVE Bien
  <2>0. pedido[h].crit \in Criterios /\ Pool(h) \in Seq(Numeros \cup {0})
    BY <1>0 DEF Pedidos, Pool, TypeOK
  <2>1a. Indice(h) \in Int
    BY DEF Indice, TypeOK
  <2>1. list_get(Pool(h), Indice(h)) \in Nat
    BY <2>0, <2>1a, list_getTipo
  <2>1b. \E n : n \in {list_get(Pool(h), Indice(h)), 0} /\ num' = [num EXCEPT ![h] = n]
    BY <1>13 DEF Toma
  <2>2. num' \in [Pedidores -> Nat] /\ num'[h] \in Nat
    <3>1. PICK n : n \in {list_get(Pool(h), Indice(h)), 0} /\ num' = [num EXCEPT ![h] = n]
      BY <2>1b
    <3>2. n \in Nat
      BY <2>1, <3>1
    <3> QED
      BY <3>1, <3>2 DEF TypeOK
  <2>3. destino' \in [Tablas -> Nat \cup {Nadie}] /\ ronda' \in Seq(Int)
    <3>1. Append(ronda, referencia) \in Seq(Int) /\ Len(Pool(h)) \in Nat
      BY <2>0 DEF TypeOK
    <3>2. Ultimos(Len(Pool(h)), Append(ronda, referencia)) \in Seq(Int)
      BY <3>1, UltimosTipo
    <3> QED
      BY <1>13, <2>2, <3>2 DEF Toma, TypeOK
  <2>4. /\ pc' = [pc EXCEPT ![h] = "busca"] /\ pc[h] = "toma"
        /\ UNCHANGED <<vector, referencia, seeds, metadata, pedido, idx, viva, altas, riesgo>>
    BY <1>13 DEF Toma, En, Va
  <2> QED
    BY <1>0, <2>2, <2>3, <2>4 DEF TypeOK, Coherente
<1>14. ASSUME Busca(h) PROVE Bien
  BY <1>0, <1>14 DEF Busca, TypeOK, En, Va, locales, historia, Coherente
<1>15. ASSUME NEW m \in Numeros, NEW c \in Criterios, EmpiezaAlta(h, m, c) PROVE Bien
  <2>1. [op |-> "ADD", tabla |-> Nadie, crit |-> c] \in Pedidos
    BY DEF Pedidos
  <2>2. riesgo' \subseteq Riesgos
    BY <1>15 DEF EmpiezaAlta, AlTocar, Corre, Riesgos, TypeOK
  <2>3. /\ pedido' = [pedido EXCEPT ![h] = [op |-> "ADD", tabla |-> Nadie, crit |-> c]]
        /\ num' = [num EXCEPT ![h] = m] /\ m \in Nat
        /\ pc' = [pc EXCEPT ![h] = pc'[h]]
        /\ pc'[h] \in {"limpia", "enlaza"} /\ (pc'[h] = "limpia" => c = "SC")
        /\ altas' = altas + 1 /\ altas < MaxAltas
        /\ UNCHANGED <<vector, referencia, seeds, metadata, idx, viva, historia>>
    BY <1>15 DEF EmpiezaAlta, Va, TypeOK
  <2>4. TypeOK'
    <3>1. PICK l \in {"limpia", "enlaza"} : pc' = [pc EXCEPT ![h] = l]
      BY <2>3
    <3>2. altas' \in 0..MaxAltas
      BY <2>3 DEF TypeOK
    <3> QED
      BY <2>1, <2>2, <2>3, <3>1, <3>2 DEF TypeOK, historia
  <2>5. Coherente(pc'[h], pedido'[h], idx'[h], num'[h])
    <3>1. pedido'[h] = [op |-> "ADD", tabla |-> Nadie, crit |-> c] /\ num'[h] = m
      BY <2>3 DEF TypeOK
    <3>2. Nadie \notin Tablas
      OBVIOUS
    <3> QED
      BY <2>3, <3>1, <3>2 DEF Coherente
  <2> QED
    BY <2>4, <2>5
<1>16. ASSUME Limpia(h) PROVE Bien
  <2>1. PICK q \in Deja(vector["SC"], <<>>) : CambiaPool("SC", q)
    BY <1>16 DEF Limpia
  <2>2. <<>> \in Seq(Numeros \cup {0}) /\ vector["SC"] \in Seq(Numeros \cup {0})
        /\ "SC" \in Criterios
    BY DEF TypeOK, Criterios
  <2>3. /\ vector' \in [Criterios -> Seq(Numeros \cup {0})]
        /\ destino' \in [Tablas -> Nat \cup {Nadie}] /\ ronda' \in Seq(Int)
    BY <2>1, <2>2, DejaTipo, CambiaPoolTipo
  <2>4. riesgo' \subseteq Riesgos
    BY <1>16 DEF Limpia, MientrasEligen, Corre, Riesgos, TypeOK
  <2>5. /\ pc' = [pc EXCEPT ![h] = "agrega"] /\ pc[h] = "limpia" /\ viva' \in BOOLEAN
        /\ UNCHANGED <<referencia, seeds, metadata, pedido, idx, num, altas>>
    BY <1>16 DEF Limpia, En, Va, SigueViva
  <2>6. TypeOK'
    BY <2>3, <2>4, <2>5 DEF TypeOK
  <2>7. Coherente(pc'[h], pedido'[h], idx'[h], num'[h])
    BY <1>0, <2>5 DEF TypeOK, Coherente
  <2> QED
    BY <2>6, <2>7
<1>17. ASSUME EmpiezaAgregar(h) PROVE Bien
  BY <1>0, <1>17 DEF EmpiezaAgregar, TypeOK, En, Va, historia, Coherente, AlTocar, Corre, Riesgos
<1>18. ASSUME Agrega(h) PROVE Bien
  <2>0. PICK c : c = pedido[h].crit
    OBVIOUS
  <2>1. num[h] \in Numeros \cup {0} /\ c \in Criterios
    BY <1>0, <1>18, <2>0 DEF Agrega, En, Coherente, Pedidos
  <2>2. PICK q \in Deja(vector[c], Append(vector[c], num[h])) : CambiaPool(c, q)
    BY <1>18, <2>0 DEF Agrega
  <2>3. vector[c] \in Seq(Numeros \cup {0}) /\ Append(vector[c], num[h]) \in Seq(Numeros \cup {0})
    BY <2>1 DEF TypeOK
  <2>4. /\ vector' \in [Criterios -> Seq(Numeros \cup {0})]
        /\ destino' \in [Tablas -> Nat \cup {Nadie}] /\ ronda' \in Seq(Int)
    BY <2>1, <2>2, <2>3, DejaTipo, CambiaPoolTipo
  <2>5. riesgo' \subseteq Riesgos
    BY <1>18 DEF Agrega, AlAgregar, MientrasEligen, Corre, Riesgos, TypeOK
  <2>6. /\ pc' = [pc EXCEPT ![h] = "libre"] /\ pedido' = [pedido EXCEPT ![h] = Libre]
        /\ pedido' \in [Pedidores -> Pedidos]
        /\ idx' \in [Pedidores -> Int] /\ num' \in [Pedidores -> Nat]
    BY <1>18, VuelveTipo DEF Agrega, Vuelve
  <2>7. viva' \in BOOLEAN /\ UNCHANGED <<referencia, seeds, metadata, altas>>
    BY <1>18 DEF Agrega, SigueViva
  <2> QED
    BY <2>4, <2>5, <2>6, <2>7 DEF TypeOK, Coherente, Libre
<1>19. ASSUME Quita(h) PROVE Bien
  <2>1. idx[h] \in 0..2 /\ pc[h] = "quita"
    BY <1>0, <1>19 DEF Quita, En, Coherente
  <2>2. /\ riesgo' \subseteq Riesgos
        /\ UNCHANGED <<vector, referencia, seeds, metadata, pedido, num, viva, altas, historia>>
    BY <1>19 DEF Quita, AlTocar, Corre, Riesgos, TypeOK
  <2>3. CASE pc' = [pc EXCEPT ![h] = "saca"] /\ UNCHANGED idx
    BY <1>0, <2>1, <2>2, <2>3 DEF TypeOK, historia, Coherente
  <2>4. CASE Sigue(h)
    <3>1. /\ idx' = [idx EXCEPT ![h] = idx[h] + 1]
          /\ pc' = [pc EXCEPT ![h] = IF idx[h] < 2 THEN "quita" ELSE "sinMemoria"]
      BY <2>4 DEF Sigue, Va
    <3> QED
      BY <1>0, <2>1, <2>2, <3>1 DEF TypeOK, historia, Coherente
  <2> QED
    BY <1>19, <2>3, <2>4 DEF Quita, Va
<1>20. ASSUME Saca(h) PROVE Bien
  <2>0. PICK c : c = Orden[idx[h] + 1]
    OBVIOUS
  <2>1. idx[h] \in 0..2 /\ pc[h] = "saca" /\ c \in Criterios
    <3>1. idx[h] \in 0..2 /\ pc[h] = "saca"
      BY <1>0, <1>20 DEF Saca, En, Coherente
    <3> QED
      BY <2>0, <3>1 DEF Orden, Criterios
  <2>2. PICK q \in Deja(vector[c], SinPrimero(vector[c], num[h])) : CambiaPool(c, q)
    BY <1>20, <2>0 DEF Saca
  <2>3. vector[c] \in Seq(Numeros \cup {0})
    BY <2>1 DEF TypeOK
  <2>4. SinPrimero(vector[c], num[h]) \in Seq(Numeros \cup {0})
    BY <2>3, SinPrimeroTipo
  <2>5. /\ vector' \in [Criterios -> Seq(Numeros \cup {0})]
        /\ destino' \in [Tablas -> Nat \cup {Nadie}] /\ ronda' \in Seq(Int)
    BY <2>1, <2>2, <2>3, <2>4, DejaTipo, CambiaPoolTipo
  <2>6. riesgo' \subseteq Riesgos
    BY <1>20 DEF Saca, MientrasEligen, Corre, Riesgos, TypeOK
  <2>7. /\ idx' = [idx EXCEPT ![h] = idx[h] + 1]
        /\ pc' = [pc EXCEPT ![h] = IF idx[h] < 2 THEN "quita" ELSE "sinMemoria"]
        /\ viva' \in BOOLEAN /\ UNCHANGED <<referencia, seeds, metadata, pedido, num, altas>>
    BY <1>20 DEF Saca, Sigue, SigueViva, Va
  <2> QED
    BY <1>0, <2>1, <2>5, <2>6, <2>7 DEF TypeOK, Coherente
<1> QED
  BY <1>1, <1>2, <1>3, <1>4, <1>5, <1>6, <1>7, <1>8, <1>9,
     <1>10, <1>11, <1>12, <1>13, <1>14, <1>15, <1>16, <1>17, <1>18, <1>19, <1>20
  DEF request, conectarse_a_memoria, elegir_memoria,
       get_memoria_fifo, agregar_consistencia

LEMMA BaseConserva ==
  ASSUME TypeOK, Lugares, [Next]_vars
  PROVE  TypeOK' /\ Lugares'
<1>1. ASSUME NEW h \in Pedidores, request(h) PROVE TypeOK' /\ Lugares'
  <2>1. TypeOK' /\ Coherente(pc'[h], pedido'[h], idx'[h], num'[h])
    BY <1>1, BasePropia
  <2>2. \A g \in Pedidores \ {h} : Coherente(pc'[g], pedido'[g], idx'[g], num'[g])
    BY <1>1, Ajenos DEF AjenosQuietos, Lugares
  <2> QED
    BY <2>1, <2>2 DEF Lugares
<1>2. ASSUME NEW m \in Memorias, recibir_seed(m) PROVE TypeOK' /\ Lugares'
  <2>1. /\ UNCHANGED <<vector, referencia, metadata, pc, pedido, idx, num, altas, destino, ronda>>
        /\ seeds' \subseteq Memorias /\ viva' \in BOOLEAN /\ riesgo' \subseteq Riesgos
    BY <1>2 DEF recibir_seed, TypeOK, locales, historia, Riesgos
  <2> QED
    BY <2>1 DEF TypeOK, Lugares
<1>3. CASE UNCHANGED vars
  BY <1>3 DEF vars, TypeOK, Lugares, locales, historia
<1> QED
  BY <1>1, <1>2, <1>3 DEF Next, handshake

LEMMA BaseInicial == Init => TypeOK /\ Lugares
<1> SUFFICES ASSUME Init PROVE TypeOK /\ Lugares
  OBVIOUS
<1>1. \A h \in Pedidores : pc[h] = "libre" /\ pedido[h] = Libre
  BY DEF Init
<1>2. Lugares
  BY <1>1 DEF Lugares, Coherente, Libre
<1> QED
  BY <1>2, TipoInicial

\* Every variable keeps its type: the reference of the round never goes below
\* -1 and ADD MEMORY, failures and choices leave numbers in the pools.
THEOREM TipoCorrecto == Spec => []TypeOK
<1>1. Init => TypeOK /\ Lugares
  BY BaseInicial
<1>2. TypeOK /\ Lugares /\ [Next]_vars => (TypeOK /\ Lugares)'
  BY BaseConserva
<1> QED
  BY <1>1, <1>2, PTL DEF Spec

-----------------------------------------------------------------------------
(* Pools.                                                                  *)

\* A step that leaves the pools alone.
SinPools(h) == UNCHANGED vector /\ (AMediasSC(h)' => AMediasSC(h))

LEMMA QuienCambiaPools ==
  ASSUME TypeOK, NEW h \in Pedidores, request(h)
  PROVE  \/ SinPools(h)
         \/ Limpia(h) \/ Agrega(h) \/ Saca(h)
<1> DEFINE Bien == \/ SinPools(h)
                   \/ Limpia(h) \/ Agrega(h) \/ Saca(h)
<1> USE DEF TypeOK, En, Va, Vuelve
<1>1. ASSUME NEW t \in Tablas, NEW op \in {"CREATE", "USA"}, Pide(h, op, t) PROVE Bien
  BY <1>1 DEF Pide, SinPools, AMediasSC, locales
<1>2. ASSUME PideSinCriterio(h) PROVE Bien
  BY <1>2 DEF PideSinCriterio, SinPools, AMediasSC, locales
<1>3. ASSUME NEW c \in {"SC", "EC"}, Describe(h, c) PROVE Bien
  BY <1>3 DEF Describe, SinPools, AMediasSC, locales
<1>4. ASSUME Conecta(h) PROVE Bien
  BY <1>4 DEF Conecta, SinPools, AMediasSC, locales
<1>5. ASSUME Atiende(h) PROVE Bien
  BY <1>5 DEF Atiende, SinPools, AMediasSC, locales
<1>6. ASSUME SinRespuesta(h) PROVE Bien
  BY <1>6 DEF SinRespuesta, SinPools, AMediasSC, locales
<1>7. ASSUME Mira(h) PROVE Bien
  BY <1>7, AlMirar DEF SinPools, AMediasSC
<1>8. ASSUME Cuenta(h) PROVE Bien
  BY <1>8 DEF Cuenta, SinPools, AMediasSC, locales
<1>9. ASSUME Compara(h) PROVE Bien
  BY <1>9 DEF Compara, SinPools, AMediasSC, locales
<1>10. ASSUME VuelveAlPrimero(h) PROVE Bien
  BY <1>10 DEF VuelveAlPrimero, SinPools, AMediasSC, locales
<1>11. ASSUME LeeReferencia(h) PROVE Bien
  BY <1>11 DEF LeeReferencia, SinPools, AMediasSC, locales
<1>12. ASSUME AvanzaReferencia(h) PROVE Bien
  BY <1>12 DEF AvanzaReferencia, SinPools, AMediasSC, locales
<1>13. ASSUME Toma(h) PROVE Bien
  BY <1>13 DEF Toma, SinPools, AMediasSC, locales
<1>14. ASSUME Busca(h) PROVE Bien
  BY <1>14 DEF Busca, SinPools, AMediasSC, locales
<1>15. ASSUME NEW m \in Numeros, NEW c \in Criterios, EmpiezaAlta(h, m, c) PROVE Bien
  BY <1>15 DEF EmpiezaAlta, SinPools, AMediasSC, locales
<1>16. ASSUME Limpia(h) PROVE Bien
  BY <1>16
<1>17. ASSUME EmpiezaAgregar(h) PROVE Bien
  BY <1>17 DEF EmpiezaAgregar, SinPools, AMediasSC, locales
<1>18. ASSUME Agrega(h) PROVE Bien
  BY <1>18
<1>19. ASSUME Quita(h) PROVE Bien
  BY <1>19 DEF Quita, Sigue, SinPools, AMediasSC, locales
<1>20. ASSUME Saca(h) PROVE Bien
  BY <1>20
<1> QED
  BY <1>1, <1>2, <1>3, <1>4, <1>5, <1>6, <1>7, <1>8, <1>9,
     <1>10, <1>11, <1>12, <1>13, <1>14, <1>15, <1>16, <1>17, <1>18, <1>19, <1>20
  DEF request, conectarse_a_memoria, elegir_memoria,
       get_memoria_fifo, agregar_consistencia

\* The pool a removal looks at.
Turno(h) == Orden[idx[h] + 1]

LEMMA TurnoTipo ==
  ASSUME Lugares, NEW h \in Pedidores, pc[h] \in {"quita", "saca"}
  PROVE  idx[h] \in 0..2 /\ Turno(h) \in Criterios
<1>1. idx[h] \in 0..2
  BY DEF Lugares, Coherente
<1> QED
  BY <1>1 DEF Turno, Orden, Criterios

\* Whoever changes a pool writes it and is then in the risk of those who are
\* choosing from it.
CambiaA(c, q) == CambiaPool(c, q) /\ MientrasEligen(c) \subseteq riesgo'

LEMMA AlgoCambia ==
  ASSUME TypeOK, Lugares, NEW h \in Pedidores, request(h)
  PROVE  SinPools(h) \/ \E c \in Criterios : \E q : CambiaA(c, q)
<1>1. ASSUME Limpia(h) PROVE \E q : CambiaA("SC", q)
  BY <1>1 DEF Limpia, CambiaA
<1>2. ASSUME Agrega(h) PROVE \E c \in Criterios : \E q : CambiaA(c, q)
  <2>1. pedido[h].crit \in Criterios
    BY DEF TypeOK, Pedidos
  <2> QED
    BY <1>2, <2>1 DEF Agrega, AlAgregar, CambiaA
<1>3. ASSUME Saca(h) PROVE \E c \in Criterios : \E q : CambiaA(c, q)
  <2>1. Turno(h) \in Criterios
    BY <1>3, TurnoTipo DEF Saca, En
  <2> QED
    BY <1>3, <2>1 DEF Saca, Turno, CambiaA
<1> QED
  BY <1>1, <1>2, <1>3, QuienCambiaPools DEF Criterios

\* As long as no two do it at once: a clean, an addition at the end or a removal.
LEMMA ComoCambia ==
  ASSUME TypeOK, Lugares, NEW h \in Pedidores, request(h), "lista" \notin riesgo
  PROVE  \/ SinPools(h)
         \/ /\ CambiaA("SC", <<>>)
            /\ pc[h] = "limpia" /\ pc'[h] = "agrega" /\ UNCHANGED seeds
            /\ Corre("dosSC", \E g \in Pedidores : AMediasSC(g)) \subseteq riesgo'
         \/ \E c \in Criterios, m \in Numeros :
              /\ CambiaA(c, Append(vector[c], m)) /\ AlAgregar(m, c) \subseteq riesgo'
              /\ c = pedido[h].crit /\ m = num[h]
              /\ pc[h] = "enlaza" /\ pc'[h] = "libre" /\ UNCHANGED seeds
         \/ /\ CambiaA(Turno(h), SinPrimero(vector[Turno(h)], num[h]))
            /\ pc[h] = "saca" /\ pc'[h] \in {"quita", "sinMemoria"} /\ UNCHANGED seeds
<1>1. ASSUME Limpia(h)
      PROVE  /\ CambiaA("SC", <<>>)
             /\ pc[h] = "limpia" /\ pc'[h] = "agrega" /\ UNCHANGED seeds
             /\ Corre("dosSC", \E g \in Pedidores : AMediasSC(g)) \subseteq riesgo'
  <2>1. PICK q \in Deja(vector["SC"], <<>>) : CambiaPool("SC", q)
    BY <1>1 DEF Limpia
  <2>2. CambiaPool("SC", <<>>)
    BY <2>1, DejaUna
  <2> QED
    BY <1>1, <2>2 DEF Limpia, CambiaA, En, Va, TypeOK
<1>2. ASSUME Agrega(h)
      PROVE  \E c \in Criterios, m \in Numeros :
              /\ CambiaA(c, Append(vector[c], m)) /\ AlAgregar(m, c) \subseteq riesgo'
              /\ c = pedido[h].crit /\ m = num[h]
              /\ pc[h] = "enlaza" /\ pc'[h] = "libre" /\ UNCHANGED seeds
  <2>0. PICK c, m : c = pedido[h].crit /\ m = num[h]
    OBVIOUS
  <2>1. pc[h] = "enlaza" /\ pc'[h] = "libre" /\ UNCHANGED seeds
    BY <1>2 DEF Agrega, En, Va, Vuelve, TypeOK
  <2>2. c \in Criterios /\ m \in Numeros
    BY <2>0, <2>1 DEF TypeOK, Pedidos, Lugares, Coherente
  <2>3. PICK q \in Deja(vector[c], Append(vector[c], m)) : CambiaPool(c, q)
    BY <1>2, <2>0 DEF Agrega
  <2>4. CambiaPool(c, Append(vector[c], m))
    BY <2>3, DejaUna
  <2>5. AlAgregar(m, c) \subseteq riesgo'
    BY <1>2, <2>0 DEF Agrega
  <2>6. CambiaA(c, Append(vector[c], m))
    BY <2>4, <2>5 DEF CambiaA, AlAgregar
  <2> QED
    BY <2>0, <2>1, <2>2, <2>5, <2>6
<1>3. ASSUME Saca(h)
      PROVE  /\ CambiaA(Turno(h), SinPrimero(vector[Turno(h)], num[h]))
             /\ pc[h] = "saca" /\ pc'[h] \in {"quita", "sinMemoria"} /\ UNCHANGED seeds
  <2>1. PICK q \in Deja(vector[Turno(h)], SinPrimero(vector[Turno(h)], num[h])) :
          CambiaPool(Turno(h), q)
    BY <1>3 DEF Saca, Turno
  <2>2. CambiaPool(Turno(h), SinPrimero(vector[Turno(h)], num[h]))
    BY <2>1, DejaUna
  <2> QED
    BY <1>3, <2>2 DEF Saca, Sigue, Turno, CambiaA, En, Va, TypeOK
<1> QED
  BY <1>1, <1>2, <1>3, QuienCambiaPools

\* While somebody chooses, his pool stays as it is, or the risk says so.
LEMMA PoolQuieto ==
  ASSUME TypeOK, Lugares, NEW h \in Pedidores, request(h), "pool" \notin riesgo',
         NEW g \in Pedidores, Eligiendo(g)
  PROVE  vector'[pedido[g].crit] = Pool(g)
<1>1. pedido[g].crit \in Criterios
  BY DEF TypeOK, Pedidos
<1>2. ASSUME NEW c \in Criterios, NEW q, CambiaA(c, q)
      PROVE  c # pedido[g].crit /\ vector'[pedido[g].crit] = vector[pedido[g].crit]
  <2>1. c # pedido[g].crit
    BY <1>2 DEF CambiaA, MientrasEligen, Corre
  <2> QED
    BY <1>1, <1>2, <2>1 DEF CambiaA, CambiaPool, TypeOK
<1> QED
  BY <1>2, AlgoCambia DEF SinPools, Pool

-----------------------------------------------------------------------------
(* Strong consistency.                                                     *)

LEMMA AltaSCConserva ==
  ASSUME TypeOK, Lugares, AltaSC, [Next]_vars
  PROVE  AltaSC'
<1>1. ASSUME NEW m \in Memorias, recibir_seed(m) PROVE AltaSC'
  <2>1. UNCHANGED <<vector, pc, pedido>> /\ riesgo \subseteq riesgo'
    BY <1>1 DEF recibir_seed, locales
  <2> QED
    BY <2>1 DEF AltaSC, AMediasSC
<1>2. CASE UNCHANGED vars
  BY <1>2 DEF vars, AltaSC, AMediasSC, locales
<1>3. ASSUME NEW h \in Pedidores, request(h), riesgo' \cap {"lista", "dosSC"} = {}
      PROVE  /\ \A f, g \in Pedidores : AMediasSC(f)' /\ AMediasSC(g)' => f = g
             /\ \A g \in Pedidores : AMediasSC(g)' => vector'["SC"] = <<>>
             /\ Len(vector'["SC"]) <= 1
  <2>0. /\ \A g \in Pedidores \ {h} : AMediasSC(g)' <=> AMediasSC(g)
        /\ "lista" \notin riesgo
        /\ \A f, g \in Pedidores : AMediasSC(f) /\ AMediasSC(g) => f = g
        /\ \A g \in Pedidores : AMediasSC(g) => vector["SC"] = <<>>
        /\ Len(vector["SC"]) <= 1 /\ vector["SC"] \in Seq(Numeros \cup {0})
    <3>1. /\ \A g \in Pedidores \ {h} : pc'[g] = pc[g] /\ pedido'[g] = pedido[g]
          /\ riesgo \subseteq riesgo'
      BY <1>3, Ajenos DEF AjenosQuietos
    <3> QED
      BY <1>3, <3>1 DEF AltaSC, AMediasSC, TypeOK, Criterios
  <2>1. CASE SinPools(h)
    BY <2>0, <2>1 DEF SinPools
  <2>2. CASE /\ CambiaA("SC", <<>>) /\ pc'[h] = "agrega"
             /\ Corre("dosSC", \E g \in Pedidores : AMediasSC(g)) \subseteq riesgo'
    <3>1. vector'["SC"] = <<>> /\ \A g \in Pedidores : ~AMediasSC(g)
      BY <1>3, <2>2 DEF CambiaA, CambiaPool, Corre, TypeOK, Criterios
    <3>2. Len(<<>>) <= 1
      OBVIOUS
    <3> QED
      BY <2>0, <3>1, <3>2
  <2>3. ASSUME NEW c \in Criterios, NEW m \in Numeros, CambiaA(c, Append(vector[c], m)),
               c = pedido[h].crit, pc[h] = "enlaza", pc'[h] = "libre"
        PROVE  /\ \A f, g \in Pedidores : AMediasSC(f)' /\ AMediasSC(g)' => f = g
               /\ \A g \in Pedidores : AMediasSC(g)' => vector'["SC"] = <<>>
               /\ Len(vector'["SC"]) <= 1
    <3>0. ~AMediasSC(h)'
      BY <2>3 DEF AMediasSC
    <3>1. CASE c = "SC"
      <4>1. AMediasSC(h) /\ vector["SC"] = <<>>
        BY <2>0, <2>3, <3>1 DEF AMediasSC
      <4>2. vector'["SC"] = Append(<<>>, m)
        BY <2>3, <3>1, <4>1 DEF CambiaA, CambiaPool, TypeOK
      <4>3. Len(Append(<<>>, m)) = 1
        OBVIOUS
      <4> QED
        BY <2>0, <3>0, <4>1, <4>2, <4>3
    <3>2. CASE c # "SC"
      <4>1. vector'["SC"] = vector["SC"]
        BY <2>3, <3>2 DEF CambiaA, CambiaPool, TypeOK, Criterios
      <4> QED
        BY <2>0, <3>0, <4>1
    <3> QED
      BY <3>1, <3>2
  <2>4. CASE /\ CambiaA(Turno(h), SinPrimero(vector[Turno(h)], num[h]))
             /\ pc[h] = "saca" /\ pc'[h] \in {"quita", "sinMemoria"}
    <3>1. \/ vector'["SC"] = vector["SC"]
          \/ vector'["SC"] = SinPrimero(vector["SC"], num[h])
      BY <2>4, TurnoTipo DEF CambiaA, CambiaPool, TypeOK, Criterios
    <3>2. Len(SinPrimero(vector["SC"], num[h])) <= 1
      <4>1. Len(SinPrimero(vector["SC"], num[h])) <= Len(vector["SC"])
        BY <2>0, SinPrimeroTipo
      <4>2. SinPrimero(vector["SC"], num[h]) \in Seq(Numeros \cup {0})
        BY <2>0, SinPrimeroTipo
      <4> QED
        BY <2>0, <4>1, <4>2
    <3>3. vector["SC"] = <<>> => SinPrimero(vector["SC"], num[h]) = <<>>
      BY DEF Esta, SinPrimero
    <3>4. ~AMediasSC(h)'
      BY <2>4 DEF AMediasSC
    <3> QED
      BY <2>0, <3>1, <3>2, <3>3, <3>4
  <2> QED
    BY <1>3, <2>0, <2>1, <2>2, <2>3, <2>4, ComoCambia
<1>4. ASSUME NEW h \in Pedidores, request(h) PROVE AltaSC'
  BY <1>3, <1>4 DEF AltaSC
<1> QED
  BY <1>1, <1>2, <1>4 DEF Next, handshake

\* SC never has two memories, unless the pool is cleaned between the clean and
\* the addition of another ADD MEMORY, or two calls change it at once.
THEOREM UnaSola == Spec => []UnaSolaSC
<1>1. Init => TypeOK /\ Lugares /\ AltaSC
  <2>1. Len(<<>>) <= 1
    OBVIOUS
  <2> QED
    BY <2>1, BaseInicial DEF Init, AltaSC, AMediasSC, Criterios
<1>2. TypeOK /\ Lugares /\ AltaSC /\ [Next]_vars => (TypeOK /\ Lugares /\ AltaSC)'
  BY BaseConserva, AltaSCConserva
<1>3. AltaSC => UnaSolaSC
  BY DEF AltaSC, UnaSolaSC
<1> QED
  BY <1>1, <1>2, <1>3, PTL DEF Spec

-----------------------------------------------------------------------------
(* A pool found with memories keeps them until the choice is made.         *)

\* How a thread gets to each place of a choice.
LEMMA Camino ==
  ASSUME TypeOK, Lugares, NEW h \in Pedidores, request(h), Eligiendo(h)'
  PROVE  /\ UNCHANGED pedido
         /\ \/ Eligiendo(h) /\ pc'[h] = pc[h] /\ idx'[h] = idx[h] /\ UNCHANGED referencia
            \/ Mira(h) /\ Pool(h) # <<>>
            \/ Cuenta(h) /\ Pool(h) # <<>>
            \/ Compara(h) \/ VuelveAlPrimero(h) \/ LeeReferencia(h) \/ AvanzaReferencia(h)
<1> DEFINE Bien ==
         /\ UNCHANGED pedido
         /\ \/ Eligiendo(h) /\ pc'[h] = pc[h] /\ idx'[h] = idx[h] /\ UNCHANGED referencia
            \/ Mira(h) /\ Pool(h) # <<>>
            \/ Cuenta(h) /\ Pool(h) # <<>>
            \/ Compara(h) \/ VuelveAlPrimero(h) \/ LeeReferencia(h) \/ AvanzaReferencia(h)
<1>0. pc'[h] \in {"cuenta", "compara", "vuelve", "lee", "guarda", "toma"}
  BY DEF Eligiendo
<1>1. ASSUME NEW t \in Tablas, NEW op \in {"CREATE", "USA"}, Pide(h, op, t) PROVE Bien
  BY <1>0, <1>1 DEF Pide, Eligiendo, En, Va, Vuelve, locales, historia, TypeOK
<1>2. ASSUME PideSinCriterio(h) PROVE Bien
  BY <1>0, <1>2 DEF PideSinCriterio, Eligiendo, En, Va, Vuelve, locales, historia, TypeOK
<1>3. ASSUME NEW c \in {"SC", "EC"}, Describe(h, c) PROVE Bien
  BY <1>0, <1>3 DEF Describe, Eligiendo, En, Va, Vuelve, locales, historia, TypeOK
<1>4. ASSUME Conecta(h) PROVE Bien
  <2>1. pc'[h] \in {"espera", "quita"}
    BY <1>4 DEF Conecta, Va, TypeOK
  <2> QED
    BY <1>0, <2>1
<1>5. ASSUME Atiende(h) PROVE Bien
  BY <1>0, <1>5 DEF Atiende, Eligiendo, En, Va, Vuelve, locales, historia, TypeOK
<1>6. ASSUME SinRespuesta(h) PROVE Bien
  BY <1>0, <1>6 DEF SinRespuesta, Eligiendo, En, Va, Vuelve, locales, historia, TypeOK
<1>7. ASSUME Mira(h) PROVE Bien
  <2>1. CASE Pool(h) = <<>>
    BY <1>0, <1>7, <2>1, AlMirar
  <2>2. CASE Pool(h) # <<>>
    BY <1>7, <2>2 DEF Mira, Rama
  <2> QED
    BY <2>1, <2>2
<1>8. ASSUME Cuenta(h) PROVE Bien
  <2>1. CASE Pool(h) # <<>>
    BY <1>8, <2>1 DEF Cuenta
  <2>2. CASE Pool(h) = <<>>
    <3>1. UNCHANGED <<pc, idx, pedido, referencia>>
      BY <1>8, <2>2 DEF Cuenta
    <3> QED
      BY <1>0, <3>1 DEF Eligiendo
  <2> QED
    BY <2>1, <2>2
<1>9. ASSUME Compara(h) PROVE Bien
  BY <1>0, <1>9 DEF Compara, Eligiendo, En, Va, Vuelve, locales, historia, TypeOK
<1>10. ASSUME VuelveAlPrimero(h) PROVE Bien
  BY <1>0, <1>10 DEF VuelveAlPrimero, Eligiendo, En, Va, Vuelve, locales, historia, TypeOK
<1>11. ASSUME LeeReferencia(h) PROVE Bien
  BY <1>0, <1>11 DEF LeeReferencia, Eligiendo, En, Va, Vuelve, locales, historia, TypeOK
<1>12. ASSUME AvanzaReferencia(h) PROVE Bien
  BY <1>0, <1>12 DEF AvanzaReferencia, Eligiendo, En, Va, Vuelve, locales, historia, TypeOK
<1>13. ASSUME Toma(h) PROVE Bien
  BY <1>0, <1>13 DEF Toma, Eligiendo, En, Va, Vuelve, locales, historia, TypeOK
<1>14. ASSUME Busca(h) PROVE Bien
  BY <1>0, <1>14 DEF Busca, Eligiendo, En, Va, Vuelve, locales, historia, TypeOK
<1>15. ASSUME NEW m \in Numeros, NEW c \in Criterios, EmpiezaAlta(h, m, c) PROVE Bien
  BY <1>0, <1>15 DEF EmpiezaAlta, Eligiendo, En, Va, Vuelve, locales, historia, TypeOK
<1>16. ASSUME Limpia(h) PROVE Bien
  BY <1>0, <1>16 DEF Limpia, Eligiendo, En, Va, Vuelve, locales, historia, TypeOK
<1>17. ASSUME EmpiezaAgregar(h) PROVE Bien
  BY <1>0, <1>17 DEF EmpiezaAgregar, Eligiendo, En, Va, Vuelve, locales, historia, TypeOK
<1>18. ASSUME Agrega(h) PROVE Bien
  BY <1>0, <1>18 DEF Agrega, Eligiendo, En, Va, Vuelve, locales, historia, TypeOK
<1>19. ASSUME Quita(h) PROVE Bien
  BY <1>0, <1>19 DEF Quita, Sigue, Eligiendo, En, Va, Vuelve, locales, historia, TypeOK
<1>20. ASSUME Saca(h) PROVE Bien
  BY <1>0, <1>20 DEF Saca, Sigue, Eligiendo, En, Va, Vuelve, locales, historia, TypeOK
<1> QED
  BY <1>1, <1>2, <1>3, <1>4, <1>5, <1>6, <1>7, <1>8, <1>9,
     <1>10, <1>11, <1>12, <1>13, <1>14, <1>15, <1>16, <1>17, <1>18, <1>19, <1>20
  DEF request, conectarse_a_memoria, elegir_memoria,
       get_memoria_fifo, agregar_consistencia

\* The place of SHC does not depend on anything but the pool and the name.
Lleno(h) ==
  /\ Pool(h) # <<>>
  /\ pc[h] = "toma" /\ pedido[h].crit = "SHC" =>
       /\ idx[h] = Resto(SumaAscii[pedido[h].tabla], Len(Pool(h)))
       /\ "negativo" \notin riesgo => SumaAscii[pedido[h].tabla] >= 0

LEMMA LlenosConserva ==
  ASSUME TypeOK, Lugares, Llenos, [Next]_vars
  PROVE  Llenos'
<1>1. ASSUME NEW m \in Memorias, recibir_seed(m) PROVE Llenos'
  <2>1. UNCHANGED <<vector, pc, pedido, idx>> /\ riesgo \subseteq riesgo'
    BY <1>1 DEF recibir_seed, locales
  <2> QED
    BY <2>1 DEF Llenos, Eligiendo, Pool
<1>2. CASE UNCHANGED vars
  BY <1>2 DEF vars, Llenos, Eligiendo, Pool, locales
<1>3. ASSUME NEW h \in Pedidores, request(h), "pool" \notin riesgo',
             NEW g \in Pedidores, Eligiendo(g)'
      PROVE  Lleno(g)'
  <2>0. /\ "pool" \notin riesgo
        /\ \A f \in Pedidores : Eligiendo(f) => Lleno(f)
        /\ \A f \in Pedidores : Eligiendo(f) => vector'[pedido[f].crit] = Pool(f)
    BY <1>3, Ajenos, PoolQuieto DEF AjenosQuietos, Llenos, Lleno
  <2>1. CASE g # h
    <3>1. /\ pc'[g] = pc[g] /\ pedido'[g] = pedido[g] /\ idx'[g] = idx[g]
          /\ riesgo \subseteq riesgo'
      BY <1>3, <2>1, Ajenos DEF AjenosQuietos
    <3> QED
      BY <1>3, <2>0, <3>1 DEF Eligiendo, Lleno, Pool
  <2>2. CASE g = h
    <3>0. UNCHANGED pedido
      BY <1>3, <2>2, Camino
    <3>1. CASE Eligiendo(h) /\ pc'[h] = pc[h] /\ idx'[h] = idx[h]
      <4>1. riesgo \subseteq riesgo'
        BY <1>3, Ajenos DEF AjenosQuietos
      <4> QED
        BY <2>0, <2>2, <3>0, <3>1, <4>1 DEF Lleno, Pool
    <3>2. CASE Mira(h) /\ Pool(h) # <<>>
      <4>1. UNCHANGED vector /\ (pc'[h] = "toma" => pedido[h].crit = "SC")
        BY <3>2, AlMirar DEF TypeOK, Pedidos, Criterios
      <4> QED
        BY <2>2, <3>0, <3>2, <4>1 DEF Lleno, Pool
    <3>3. CASE Cuenta(h) /\ Pool(h) # <<>>
      <4>1. /\ UNCHANGED vector /\ idx'[h] = Resto(SumaAscii[pedido[h].tabla], Len(Pool(h)))
            /\ "negativo" \notin riesgo' => ~(SumaAscii[pedido[h].tabla] < 0)
        BY <3>3 DEF Cuenta, Corre, TypeOK
      <4>2. pedido[h].tabla \in Tablas
        BY <3>3 DEF Cuenta, En, Lugares, Coherente
      <4>3. "negativo" \notin riesgo' => SumaAscii[pedido[h].tabla] >= 0
        BY <4>1, <4>2
      <4> QED
        BY <2>2, <3>0, <3>3, <4>1, <4>3 DEF Lleno, Pool
    <3>4. CASE Compara(h) \/ VuelveAlPrimero(h) \/ LeeReferencia(h) \/ AvanzaReferencia(h)
      <4>1. /\ pc[h] \in {"compara", "vuelve", "lee", "guarda"} /\ UNCHANGED vector
        BY <3>4 DEF Compara, VuelveAlPrimero, LeeReferencia, AvanzaReferencia, En
      <4>2. pedido[h].crit = "EC" /\ Eligiendo(h)
        BY <4>1 DEF Lugares, Coherente, Eligiendo
      <4> QED
        BY <2>0, <2>2, <3>0, <4>1, <4>2 DEF Lleno, Pool
    <3> QED
      BY <1>3, <2>2, <3>1, <3>2, <3>3, <3>4, Camino
  <2> QED
    BY <2>1, <2>2
<1>4. ASSUME NEW h \in Pedidores, request(h) PROVE Llenos'
  BY <1>3, <1>4 DEF Llenos, Lleno
<1> QED
  BY <1>1, <1>2, <1>4 DEF Next, handshake

-----------------------------------------------------------------------------
(* The round.                                                              *)

\* Only whoever is in the round moves the reference.
LEMMA RefQuieta ==
  ASSUME TypeOK, Lugares, NEW h \in Pedidores, request(h)
  PROVE  \/ UNCHANGED referencia
         \/ VuelveAlPrimero(h) \/ AvanzaReferencia(h)
<1>1. ASSUME NEW t \in Tablas, NEW op \in {"CREATE", "USA"}, Pide(h, op, t)
      PROVE  UNCHANGED referencia \/ VuelveAlPrimero(h) \/ AvanzaReferencia(h)
  BY <1>1 DEF Pide
<1>2. ASSUME PideSinCriterio(h)
      PROVE  UNCHANGED referencia \/ VuelveAlPrimero(h) \/ AvanzaReferencia(h)
  BY <1>2 DEF PideSinCriterio
<1>3. ASSUME NEW c \in {"SC", "EC"}, Describe(h, c)
      PROVE  UNCHANGED referencia \/ VuelveAlPrimero(h) \/ AvanzaReferencia(h)
  BY <1>3 DEF Describe
<1>4. ASSUME Conecta(h)
      PROVE  UNCHANGED referencia \/ VuelveAlPrimero(h) \/ AvanzaReferencia(h)
  BY <1>4 DEF Conecta
<1>5. ASSUME Atiende(h)
      PROVE  UNCHANGED referencia \/ VuelveAlPrimero(h) \/ AvanzaReferencia(h)
  BY <1>5 DEF Atiende
<1>6. ASSUME SinRespuesta(h)
      PROVE  UNCHANGED referencia \/ VuelveAlPrimero(h) \/ AvanzaReferencia(h)
  BY <1>6 DEF SinRespuesta
<1>7. ASSUME Mira(h)
      PROVE  UNCHANGED referencia \/ VuelveAlPrimero(h) \/ AvanzaReferencia(h)
  BY <1>7 DEF Mira
<1>8. ASSUME Cuenta(h)
      PROVE  UNCHANGED referencia \/ VuelveAlPrimero(h) \/ AvanzaReferencia(h)
  BY <1>8 DEF Cuenta
<1>9. ASSUME Compara(h)
      PROVE  UNCHANGED referencia \/ VuelveAlPrimero(h) \/ AvanzaReferencia(h)
  BY <1>9 DEF Compara
<1>10. ASSUME VuelveAlPrimero(h)
      PROVE  UNCHANGED referencia \/ VuelveAlPrimero(h) \/ AvanzaReferencia(h)
  BY <1>10 DEF VuelveAlPrimero
<1>11. ASSUME LeeReferencia(h)
      PROVE  UNCHANGED referencia \/ VuelveAlPrimero(h) \/ AvanzaReferencia(h)
  BY <1>11 DEF LeeReferencia
<1>12. ASSUME AvanzaReferencia(h)
      PROVE  UNCHANGED referencia \/ VuelveAlPrimero(h) \/ AvanzaReferencia(h)
  BY <1>12 DEF AvanzaReferencia
<1>13. ASSUME Toma(h)
      PROVE  UNCHANGED referencia \/ VuelveAlPrimero(h) \/ AvanzaReferencia(h)
  BY <1>13 DEF Toma
<1>14. ASSUME Busca(h)
      PROVE  UNCHANGED referencia \/ VuelveAlPrimero(h) \/ AvanzaReferencia(h)
  BY <1>14 DEF Busca
<1>15. ASSUME NEW m \in Numeros, NEW c \in Criterios, EmpiezaAlta(h, m, c)
      PROVE  UNCHANGED referencia \/ VuelveAlPrimero(h) \/ AvanzaReferencia(h)
  BY <1>15 DEF EmpiezaAlta
<1>16. ASSUME Limpia(h)
      PROVE  UNCHANGED referencia \/ VuelveAlPrimero(h) \/ AvanzaReferencia(h)
  BY <1>16 DEF Limpia
<1>17. ASSUME EmpiezaAgregar(h)
      PROVE  UNCHANGED referencia \/ VuelveAlPrimero(h) \/ AvanzaReferencia(h)
  BY <1>17 DEF EmpiezaAgregar
<1>18. ASSUME Agrega(h)
      PROVE  UNCHANGED referencia \/ VuelveAlPrimero(h) \/ AvanzaReferencia(h)
  BY <1>18 DEF Agrega
<1>19. ASSUME Quita(h)
      PROVE  UNCHANGED referencia \/ VuelveAlPrimero(h) \/ AvanzaReferencia(h)
  BY <1>19 DEF Quita
<1>20. ASSUME Saca(h)
      PROVE  UNCHANGED referencia \/ VuelveAlPrimero(h) \/ AvanzaReferencia(h)
  BY <1>20 DEF Saca
<1> QED
  BY <1>1, <1>2, <1>3, <1>4, <1>5, <1>6, <1>7, <1>8, <1>9,
     <1>10, <1>11, <1>12, <1>13, <1>14, <1>15, <1>16, <1>17, <1>18, <1>19, <1>20
  DEF request, conectarse_a_memoria, elegir_memoria,
       get_memoria_fifo, agregar_consistencia

EnVuelta(h) ==
  /\ pc[h] = "lee" => referencia < Len(Pool(h)) - 1
  /\ pc[h] = "guarda" => idx[h] = referencia /\ referencia < Len(Pool(h)) - 1
  /\ pc[h] = "toma" /\ pedido[h].crit = "EC" => referencia \in 0..(Len(Pool(h)) - 1)

\* Whoever is in the round was there before, or was alone to enter it.
LEMMA Entra ==
  ASSUME TypeOK, Lugares, NEW h \in Pedidores, request(h), EnRonda(h)'
  PROVE  EnRonda(h) \/ (Compara(h) /\ ("ronda" \notin riesgo' => \A g \in Pedidores : ~EnRonda(g)))
<1>0. Eligiendo(h)' /\ UNCHANGED pedido
  <2>1. Eligiendo(h)'
    BY DEF EnRonda, Eligiendo
  <2> QED
    BY <2>1, Camino
<1>1. CASE pc'[h] = pc[h]
  BY <1>0, <1>1 DEF EnRonda
<1>2. CASE Mira(h) /\ Pool(h) # <<>>
  BY <1>0, <1>2, AlMirar DEF EnRonda, TypeOK, Pedidos, Criterios
<1>3. CASE Cuenta(h) /\ Pool(h) # <<>>
  <2>1. pc'[h] = "toma" /\ pedido[h].crit = "SHC"
    BY <1>3 DEF Cuenta, En, Va, TypeOK, Lugares, Coherente
  <2> QED
    BY <1>0, <2>1 DEF EnRonda
<1>4. CASE VuelveAlPrimero(h) \/ LeeReferencia(h) \/ AvanzaReferencia(h)
  BY <1>4 DEF VuelveAlPrimero, LeeReferencia, AvanzaReferencia, En, EnRonda
<1>5. CASE Compara(h)
  BY <1>5 DEF Compara, Corre
<1> QED
  BY <1>0, <1>1, <1>2, <1>3, <1>4, <1>5, Camino

LEMMA VueltaConserva ==
  ASSUME TypeOK, Lugares, Llenos, Vuelta, [Next]_vars
  PROVE  Vuelta'
<1>1. ASSUME NEW m \in Memorias, recibir_seed(m) PROVE Vuelta'
  <2>1. UNCHANGED <<vector, referencia, pc, pedido, idx>> /\ riesgo \subseteq riesgo'
    BY <1>1 DEF recibir_seed, locales
  <2> QED
    BY <2>1 DEF Vuelta, EnRonda, Pool
<1>2. CASE UNCHANGED vars
  BY <1>2 DEF vars, Vuelta, EnRonda, Pool, locales
<1>3. ASSUME NEW h \in Pedidores, request(h), riesgo' \cap {"pool", "ronda"} = {}
      PROVE  /\ \A f, g \in Pedidores : EnRonda(f)' /\ EnRonda(g)' => f = g
             /\ \A g \in Pedidores : EnVuelta(g)'
  <2>0. /\ riesgo \cap {"pool", "ronda"} = {} /\ "pool" \notin riesgo'
        /\ \A g \in Pedidores \ {h} :
             /\ pc'[g] = pc[g] /\ pedido'[g] = pedido[g] /\ idx'[g] = idx[g]
        /\ \A f \in Pedidores : Eligiendo(f) => vector'[pedido[f].crit] = Pool(f)
    BY <1>3, Ajenos, PoolQuieto DEF AjenosQuietos
  <2>1. /\ \A f, g \in Pedidores : EnRonda(f) /\ EnRonda(g) => f = g
        /\ \A g \in Pedidores : EnVuelta(g)
    BY <2>0 DEF Vuelta, EnVuelta
  <2>2. \A g \in Pedidores \ {h} : EnRonda(g)' <=> EnRonda(g)
    BY <2>0 DEF EnRonda
  <2>3. \A f, g \in Pedidores : EnRonda(f)' /\ EnRonda(g)' => f = g
    BY <1>3, <2>1, <2>2, Entra
  <2>4. ASSUME NEW g \in Pedidores \ {h} PROVE EnVuelta(g)'
    <3>1. CASE EnRonda(g)
      <4>1. Eligiendo(g) /\ ~EnRonda(h)
        BY <2>1, <2>4, <3>1 DEF EnRonda, Eligiendo
      <4>2. UNCHANGED referencia
        BY <1>3, <4>1, RefQuieta DEF VuelveAlPrimero, AvanzaReferencia, En, EnRonda
      <4>3. Pool(g)' = Pool(g)
        BY <2>0, <2>4, <4>1 DEF Pool
      <4> QED
        BY <2>0, <2>1, <2>4, <4>2, <4>3 DEF EnVuelta
    <3>2. CASE ~EnRonda(g)
      BY <2>0, <2>4, <3>2 DEF EnVuelta, EnRonda
    <3> QED
      BY <3>1, <3>2
  <2>5. EnVuelta(h)'
    <3>0. CASE ~EnRonda(h)'
      BY <3>0 DEF EnVuelta, EnRonda
    <3>1. CASE EnRonda(h)'
      <4>0. /\ Eligiendo(h)' /\ UNCHANGED pedido
        <5>1. Eligiendo(h)'
          BY <3>1 DEF EnRonda, Eligiendo
        <5> QED
          BY <1>3, <5>1, Camino
      <4>1. Eligiendo(h)
        BY <1>3, <3>1, Entra DEF EnRonda, Eligiendo, Compara, En
      <4>2. /\ Pool(h)' = Pool(h) /\ Len(Pool(h)) \in Nat /\ Pool(h) # <<>>
            /\ Len(Pool(h)) # 0 /\ EnVuelta(h) /\ referencia \in Int /\ referencia >= -1
        <5>1. Pool(h) \in Seq(Numeros \cup {0})
          BY DEF TypeOK, Pool, Pedidos
        <5>2. Pool(h)' = Pool(h)
          BY <2>0, <4>0, <4>1 DEF Pool
        <5>3. Pool(h) # <<>>
          BY <2>0, <4>1 DEF Llenos
        <5> QED
          BY <2>1, <5>1, <5>2, <5>3 DEF TypeOK
      <4>3. CASE pc'[h] = pc[h] /\ idx'[h] = idx[h] /\ UNCHANGED referencia
        BY <4>0, <4>2, <4>3 DEF EnVuelta
      <4>4. CASE Mira(h) \/ Cuenta(h)
        <5>1. ~EnRonda(h)
          <6>1. pc[h] \in {"mira", "cuenta"}
            BY <4>4 DEF Mira, Cuenta, En
          <6> QED
            BY <6>1 DEF EnRonda
        <5>2. pc[h] \in {"mira", "cuenta"} /\ ~Compara(h)
          BY <4>4 DEF Mira, Cuenta, Compara, En
        <5> QED
          BY <1>3, <3>1, <5>1, <5>2, Entra
      <4>5. CASE Compara(h)
        <5>1. pc'[h] = IF referencia >= Len(Pool(h)) - 1 THEN "vuelve" ELSE "lee"
          BY <4>5 DEF Compara, Va, TypeOK
        <5>2. UNCHANGED referencia
          BY <4>5 DEF Compara
        <5> QED
          BY <4>2, <5>1, <5>2 DEF EnVuelta
      <4>6. CASE VuelveAlPrimero(h)
        <5>1. pc'[h] = "toma" /\ referencia' = 0
          BY <4>6 DEF VuelveAlPrimero, Va, TypeOK
        <5> QED
          BY <4>2, <5>1 DEF EnVuelta
      <4>7. CASE LeeReferencia(h)
        <5>1. /\ pc[h] = "lee" /\ pc'[h] = "guarda" /\ idx'[h] = referencia
              /\ UNCHANGED referencia
          BY <4>7 DEF LeeReferencia, En, Va, TypeOK
        <5> QED
          BY <4>2, <5>1 DEF EnVuelta
      <4>8. CASE AvanzaReferencia(h)
        <5>1. pc[h] = "guarda" /\ pc'[h] = "toma" /\ referencia' = idx[h] + 1
          BY <4>8 DEF AvanzaReferencia, En, Va, TypeOK
        <5>2. idx[h] = referencia /\ referencia < Len(Pool(h)) - 1
          BY <4>2, <5>1 DEF EnVuelta
        <5>3. referencia + 1 \in 0..(Len(Pool(h)) - 1)
          BY <4>2, <5>2
        <5>4. referencia' \in 0..(Len(Pool(h)') - 1)
          BY <4>2, <5>1, <5>2, <5>3
        <5> QED
          BY <5>1, <5>4 DEF EnVuelta
      <4> QED
        BY <1>3, <4>0, <4>3, <4>4, <4>5, <4>6, <4>7, <4>8, Camino
    <3> QED
      BY <3>0, <3>1
  <2> QED
    BY <2>3, <2>4, <2>5
<1>4. ASSUME NEW h \in Pedidores, request(h) PROVE Vuelta'
  BY <1>3, <1>4 DEF Vuelta, EnVuelta
<1> QED
  BY <1>1, <1>2, <1>4 DEF Next, handshake

-----------------------------------------------------------------------------
(* What is chosen.                                                         *)

\* The index is one of the pool, and what is there is the choice.
LEMMA IndiceEnPool ==
  ASSUME TypeOK, Lugares, Llenos, Vuelta, NEW h \in Pedidores, pc[h] = "toma",
         riesgo \cap {"pool", "ronda", "negativo"} = {}
  PROVE  /\ Indice(h) \in 0..(Len(Pool(h)) - 1)
         /\ Indice(h) + 1 \in 1..Len(Pool(h))
         /\ list_get(Pool(h), Indice(h)) = Pool(h)[Indice(h) + 1]
<1>1. Pool(h) \in Seq(Numeros \cup {0}) /\ pedido[h].crit \in Criterios
  BY DEF TypeOK, Pool, Pedidos
<1>2. Pool(h) # <<>>
  BY DEF Llenos, Eligiendo
<1>3. Len(Pool(h)) \in Nat \ {0}
  BY <1>1, <1>2
<1>4. CASE pedido[h].crit = "SC"
  <2>1. Indice(h) = 0
    BY <1>4 DEF Indice
  <2> QED
    BY <1>3, <2>1 DEF list_get
<1>5. CASE pedido[h].crit = "SHC"
  <2>1. Indice(h) = idx[h]
    BY <1>5 DEF Indice
  <2>2. /\ idx[h] = Resto(SumaAscii[pedido[h].tabla], Len(Pool(h)))
        /\ SumaAscii[pedido[h].tabla] >= 0
    BY <1>5 DEF Llenos, Eligiendo
  <2>3. SumaAscii[pedido[h].tabla] \in Int
    BY <1>5 DEF Lugares, Coherente
  <2>4. idx[h] \in 0..(Len(Pool(h)) - 1)
    BY <1>3, <2>2, <2>3, RestoTipo
  <2> QED
    BY <1>3, <2>1, <2>4 DEF list_get
<1>6. CASE pedido[h].crit = "EC"
  <2>1. Indice(h) = referencia
    BY <1>6 DEF Indice
  <2>2. referencia \in 0..(Len(Pool(h)) - 1)
    BY <1>6 DEF Vuelta
  <2> QED
    BY <1>3, <2>1, <2>2 DEF list_get
<1> QED
  BY <1>1, <1>4, <1>5, <1>6 DEF Criterios

\* Only Toma brings a thread to look for the seed.
LEMMA LlegaABusca ==
  ASSUME TypeOK, Lugares, NEW h \in Pedidores, request(h), pc'[h] = "busca"
  PROVE  \/ Toma(h)
         \/ pc[h] = "busca" /\ num'[h] = num[h]
<1> DEFINE Bien == Toma(h) \/ (pc[h] = "busca" /\ num'[h] = num[h])
<1>1. ASSUME NEW t \in Tablas, NEW op \in {"CREATE", "USA"}, Pide(h, op, t) PROVE Bien
  BY <1>1 DEF Pide, En, Va, Vuelve, TypeOK, locales
<1>2. ASSUME PideSinCriterio(h) PROVE Bien
  BY <1>2 DEF PideSinCriterio, En, Va, Vuelve, TypeOK, locales
<1>3. ASSUME NEW c \in {"SC", "EC"}, Describe(h, c) PROVE Bien
  BY <1>3 DEF Describe, En, Va, Vuelve, TypeOK, locales
<1>4. ASSUME Conecta(h) PROVE Bien
  <2>1. pc'[h] \in {"espera", "quita"}
    BY <1>4 DEF Conecta, Va, TypeOK
  <2> QED
    BY <2>1
<1>5. ASSUME Atiende(h) PROVE Bien
  BY <1>5 DEF Atiende, En, Va, Vuelve, TypeOK, locales
<1>6. ASSUME SinRespuesta(h) PROVE Bien
  BY <1>6 DEF SinRespuesta, En, Va, Vuelve, TypeOK, locales
<1>7. ASSUME Mira(h) PROVE Bien
  BY <1>7, AlMirar
<1>8. ASSUME Cuenta(h) PROVE Bien
  BY <1>8 DEF Cuenta, En, Va, TypeOK
<1>9. ASSUME Compara(h) PROVE Bien
  BY <1>9 DEF Compara, En, Va, Vuelve, TypeOK, locales
<1>10. ASSUME VuelveAlPrimero(h) PROVE Bien
  BY <1>10 DEF VuelveAlPrimero, En, Va, Vuelve, TypeOK, locales
<1>11. ASSUME LeeReferencia(h) PROVE Bien
  BY <1>11 DEF LeeReferencia, En, Va, Vuelve, TypeOK, locales
<1>12. ASSUME AvanzaReferencia(h) PROVE Bien
  BY <1>12 DEF AvanzaReferencia, En, Va, Vuelve, TypeOK, locales
<1>13. ASSUME Toma(h) PROVE Bien
  BY <1>13 DEF Toma, En, Va, Vuelve, TypeOK, locales
<1>14. ASSUME Busca(h) PROVE Bien
  BY <1>14 DEF Busca, En, Va, Vuelve, TypeOK, locales
<1>15. ASSUME NEW m \in Numeros, NEW c \in Criterios, EmpiezaAlta(h, m, c) PROVE Bien
  BY <1>15 DEF EmpiezaAlta, En, Va, Vuelve, TypeOK, locales
<1>16. ASSUME Limpia(h) PROVE Bien
  BY <1>16 DEF Limpia, En, Va, Vuelve, TypeOK, locales
<1>17. ASSUME EmpiezaAgregar(h) PROVE Bien
  BY <1>17 DEF EmpiezaAgregar, En, Va, Vuelve, TypeOK, locales
<1>18. ASSUME Agrega(h) PROVE Bien
  BY <1>18 DEF Agrega, En, Va, Vuelve, TypeOK, locales
<1>19. ASSUME Quita(h) PROVE Bien
  BY <1>19 DEF Quita, Sigue, En, Va, Vuelve, TypeOK, locales
<1>20. ASSUME Saca(h) PROVE Bien
  BY <1>20 DEF Saca, Sigue, En, Va, Vuelve, TypeOK, locales
<1> QED
  BY <1>1, <1>2, <1>3, <1>4, <1>5, <1>6, <1>7, <1>8, <1>9,
     <1>10, <1>11, <1>12, <1>13, <1>14, <1>15, <1>16, <1>17, <1>18, <1>19, <1>20
  DEF request, conectarse_a_memoria, elegir_memoria,
       get_memoria_fifo, agregar_consistencia

\* The tail, an addition and a removal keep a property of every element.
LEMMA SinPrimeroElementos ==
  ASSUME NEW S, NEW q \in Seq(Numeros \cup {0}), NEW m, \A i \in 1..Len(q) : q[i] \in S
  PROVE  \A i \in 1..Len(SinPrimero(q, m)) : SinPrimero(q, m)[i] \in S
<1>1. CASE ~Esta(m, q)
  BY <1>1 DEF SinPrimero
<1>2. CASE Esta(m, q)
  <2>1. PICK k \in 1..Len(q) :
           /\ Len(SinPrimero(q, m)) = Len(q) - 1
           /\ \A j \in 1..(k - 1) : SinPrimero(q, m)[j] = q[j]
           /\ \A j \in k..(Len(q) - 1) : SinPrimero(q, m)[j] = q[j + 1]
    BY <1>2, SinPrimeroForma
  <2> SUFFICES ASSUME NEW i \in 1..(Len(q) - 1) PROVE SinPrimero(q, m)[i] \in S
    BY <2>1
  <2>2. Len(q) \in Nat /\ k \in Nat /\ i \in Nat /\ 1 <= i /\ i <= Len(q) - 1
    OBVIOUS
  <2>3. i \in 1..Len(q) /\ i + 1 \in 1..Len(q)
    BY <2>2
  <2>4. q[i] \in S /\ q[i + 1] \in S
    BY <2>3
  <2>5. i \in 1..(k - 1) \/ i \in k..(Len(q) - 1)
    BY <2>2
  <2>6. SinPrimero(q, m)[i] = q[i] \/ SinPrimero(q, m)[i] = q[i + 1]
    BY <2>1, <2>5, Zenon
  <2> QED
    BY <2>4, <2>6, Zenon
<1> QED
  BY <1>1, <1>2

\* A request leaves the seeds as they are.
LEMMA SeedsQuietas ==
  ASSUME NEW h \in Pedidores, request(h)
  PROVE  UNCHANGED seeds
<1>1. ASSUME NEW t \in Tablas, NEW op \in {"CREATE", "USA"}, Pide(h, op, t)
      PROVE  UNCHANGED seeds
  BY <1>1 DEF Pide
<1>2. ASSUME PideSinCriterio(h) PROVE UNCHANGED seeds
  BY <1>2 DEF PideSinCriterio
<1>3. ASSUME NEW c \in {"SC", "EC"}, Describe(h, c) PROVE UNCHANGED seeds
  BY <1>3 DEF Describe
<1>4. ASSUME Conecta(h) PROVE UNCHANGED seeds
  BY <1>4 DEF Conecta
<1>5. ASSUME Atiende(h) PROVE UNCHANGED seeds
  BY <1>5 DEF Atiende
<1>6. ASSUME SinRespuesta(h) PROVE UNCHANGED seeds
  BY <1>6 DEF SinRespuesta
<1>7. ASSUME Mira(h) PROVE UNCHANGED seeds
  BY <1>7 DEF Mira
<1>8. ASSUME Cuenta(h) PROVE UNCHANGED seeds
  BY <1>8 DEF Cuenta
<1>9. ASSUME Compara(h) PROVE UNCHANGED seeds
  BY <1>9 DEF Compara
<1>10. ASSUME VuelveAlPrimero(h) PROVE UNCHANGED seeds
  BY <1>10 DEF VuelveAlPrimero
<1>11. ASSUME LeeReferencia(h) PROVE UNCHANGED seeds
  BY <1>11 DEF LeeReferencia
<1>12. ASSUME AvanzaReferencia(h) PROVE UNCHANGED seeds
  BY <1>12 DEF AvanzaReferencia
<1>13. ASSUME Toma(h) PROVE UNCHANGED seeds
  BY <1>13 DEF Toma
<1>14. ASSUME Busca(h) PROVE UNCHANGED seeds
  BY <1>14 DEF Busca
<1>15. ASSUME NEW m \in Numeros, NEW c \in Criterios, EmpiezaAlta(h, m, c) PROVE UNCHANGED seeds
  BY <1>15 DEF EmpiezaAlta
<1>16. ASSUME Limpia(h) PROVE UNCHANGED seeds
  BY <1>16 DEF Limpia
<1>17. ASSUME EmpiezaAgregar(h) PROVE UNCHANGED seeds
  BY <1>17 DEF EmpiezaAgregar
<1>18. ASSUME Agrega(h) PROVE UNCHANGED seeds
  BY <1>18 DEF Agrega
<1>19. ASSUME Quita(h) PROVE UNCHANGED seeds
  BY <1>19 DEF Quita
<1>20. ASSUME Saca(h) PROVE UNCHANGED seeds
  BY <1>20 DEF Saca
<1> QED
  BY <1>1, <1>2, <1>3, <1>4, <1>5, <1>6, <1>7, <1>8, <1>9,
     <1>10, <1>11, <1>12, <1>13, <1>14, <1>15, <1>16, <1>17, <1>18, <1>19, <1>20
  DEF request, conectarse_a_memoria, elegir_memoria,
   get_memoria_fifo, agregar_consistencia

LEMMA ConocidasConserva ==
  ASSUME TypeOK, Lugares, Conocidas, [Next]_vars
  PROVE  Conocidas'
<1>0. seeds \subseteq seeds'
  <2>1. ASSUME NEW h \in Pedidores, request(h) PROVE UNCHANGED seeds
    BY <2>1, SeedsQuietas
  <2>2. ASSUME NEW m \in Memorias, recibir_seed(m) PROVE seeds \subseteq seeds'
    BY <2>2 DEF recibir_seed
  <2> QED
    BY <2>1, <2>2 DEF Next, handshake, vars
<1>1. ASSUME NEW m \in Memorias, recibir_seed(m) PROVE Conocidas'
  <2>1. UNCHANGED vector /\ riesgo \subseteq riesgo'
    BY <1>1 DEF recibir_seed
  <2> QED
    BY <1>0, <2>1 DEF Conocidas
<1>2. CASE UNCHANGED vars
  BY <1>2 DEF vars, Conocidas
<1>3. ASSUME NEW h \in Pedidores, request(h), riesgo' \cap {"lista", "desconocida"} = {},
             NEW c \in Criterios, NEW q \in Seq(Numeros \cup {0}), CambiaPool(c, q),
             \A i \in 1..Len(q) : q[i] \in seeds,
             NEW d \in Criterios
      PROVE  \A i \in 1..Len(vector'[d]) : vector'[d][i] \in seeds'
  <2>1. \A i \in 1..Len(vector[d]) : vector[d][i] \in seeds
    BY <1>3, Ajenos DEF AjenosQuietos, Conocidas
  <2>2. vector'[d] = q \/ vector'[d] = vector[d]
    BY <1>3 DEF CambiaPool, TypeOK
  <2> QED
    BY <1>0, <1>3, <2>1, <2>2
<1>4. ASSUME NEW h \in Pedidores, request(h), riesgo' \cap {"lista", "desconocida"} = {}
      PROVE  \A d \in Criterios : \A i \in 1..Len(vector'[d]) : vector'[d][i] \in seeds'
  <2>0. \A c \in Criterios :
          vector[c] \in Seq(Numeros \cup {0}) /\ \A i \in 1..Len(vector[c]) : vector[c][i] \in seeds
    BY <1>4, Ajenos DEF AjenosQuietos, Conocidas, TypeOK
  <2>1. CASE SinPools(h)
    BY <1>0, <2>0, <2>1 DEF SinPools
  <2>2. ASSUME NEW c \in Criterios, NEW m \in Numeros,
               CambiaA(c, Append(vector[c], m)), AlAgregar(m, c) \subseteq riesgo'
        PROVE  \A d \in Criterios : \A i \in 1..Len(vector'[d]) : vector'[d][i] \in seeds'
    <3> DEFINE q == Append(vector[c], m)
    <3>1. m \in seeds
      BY <1>4, <2>2 DEF AlAgregar, Corre
    <3>2. /\ q \in Seq(Numeros \cup {0}) /\ Len(q) = Len(vector[c]) + 1
          /\ \A i \in 1..Len(vector[c]) : q[i] = vector[c][i]
          /\ q[Len(vector[c]) + 1] = m
      <4>1. m \in Numeros \cup {0} /\ vector[c] \in Seq(Numeros \cup {0})
        BY <2>0, <2>2
      <4> QED
        BY <4>1
    <3>3. ASSUME NEW i \in 1..Len(q) PROVE q[i] \in seeds
      <4>1. i \in 1..Len(vector[c]) \/ i = Len(vector[c]) + 1
        BY <2>0, <3>2, <3>3
      <4> HIDE DEF q
      <4> QED
        BY <2>0, <3>1, <3>2, <4>1
    <3>4. CambiaPool(c, q)
      BY <2>2 DEF CambiaA
    <3> HIDE DEF q
    <3> QED
      BY <1>3, <1>4, <3>2, <3>3, <3>4
  <2>3. CASE CambiaA("SC", <<>>)
    <3>1. <<>> \in Seq(Numeros \cup {0}) /\ \A i \in 1..Len(<<>>) : <<>>[i] \in seeds
      OBVIOUS
    <3> QED
      BY <1>3, <1>4, <2>3, <3>1 DEF CambiaA, Criterios
  <2>4. ASSUME pc[h] = "saca", CambiaA(Turno(h), SinPrimero(vector[Turno(h)], num[h]))
        PROVE  \A d \in Criterios : \A i \in 1..Len(vector'[d]) : vector'[d][i] \in seeds'
    <3>1. Turno(h) \in Criterios
      BY <2>4, TurnoTipo
    <3>2. SinPrimero(vector[Turno(h)], num[h]) \in Seq(Numeros \cup {0})
      BY <2>0, <3>1, SinPrimeroTipo
    <3>3. \A i \in 1..Len(SinPrimero(vector[Turno(h)], num[h])) :
             SinPrimero(vector[Turno(h)], num[h])[i] \in seeds
      BY <2>0, <3>1, SinPrimeroElementos
    <3> QED
      BY <1>3, <1>4, <2>4, <3>1, <3>2, <3>3 DEF CambiaA
  <2>5. "lista" \notin riesgo
    BY <1>4, Ajenos DEF AjenosQuietos
  <2> QED
    BY <1>4, <2>1, <2>2, <2>3, <2>4, <2>5, ComoCambia
<1>5. ASSUME NEW h \in Pedidores, request(h) PROVE Conocidas'
  BY <1>4, <1>5 DEF Conocidas
<1> QED
  BY <1>1, <1>2, <1>5 DEF Next, handshake

\* In a list nobody has broken the number is the one at the index.
LEMMA TomaEntera ==
  ASSUME TypeOK, NEW h \in Pedidores, Toma(h), riesgo \cap {"lista", "pool"} = {}
  PROVE  pc[h] = "toma" /\ num'[h] = list_get(Pool(h), Indice(h))
<1>1. num' = [num EXCEPT ![h] = list_get(Pool(h), Indice(h))] /\ pc[h] = "toma"
  <2>1. PICK n : /\ n \in {list_get(Pool(h), Indice(h))}
                         \cup (IF riesgo \cap {"lista", "pool"} = {} THEN {} ELSE {0})
                 /\ num' = [num EXCEPT ![h] = n]
    BY DEF Toma
  <2>2. n = list_get(Pool(h), Indice(h))
    BY <2>1
  <2> QED
    BY <2>1, <2>2 DEF Toma, En
<1> QED
  BY <1>1 DEF TypeOK

LEMMA ElegidaConserva ==
  ASSUME TypeOK, Lugares, Llenos, Vuelta, Conocidas, Elegida, [Next]_vars
  PROVE  Elegida'
<1>1. ASSUME NEW m \in Memorias, recibir_seed(m) PROVE Elegida'
  <2>1. UNCHANGED <<pc, num>> /\ riesgo \subseteq riesgo' /\ seeds \subseteq seeds'
    BY <1>1 DEF recibir_seed, locales
  <2> QED
    BY <2>1 DEF Elegida
<1>2. CASE UNCHANGED vars
  BY <1>2 DEF vars, Elegida, locales
<1>3. ASSUME NEW h \in Pedidores, request(h),
             riesgo' \cap {"lista", "pool", "ronda", "negativo", "desconocida"} = {},
             NEW g \in Pedidores, pc'[g] = "busca"
      PROVE  num'[g] \in seeds'
  <2>0. /\ riesgo \cap {"lista", "pool", "ronda", "negativo", "desconocida"} = {}
        /\ \A f \in Pedidores : pc[f] = "busca" => num[f] \in seeds
        /\ \A f \in Pedidores \ {h} : pc'[f] = pc[f] /\ num'[f] = num[f]
    BY <1>3, Ajenos DEF AjenosQuietos, Elegida
  <2>1. seeds \subseteq seeds'
    BY <1>3, SeedsQuietas
  <2>2. CASE g = h /\ Toma(h)
    <3>1. pc[h] = "toma" /\ num'[h] = list_get(Pool(h), Indice(h))
      BY <2>0, <2>2, TomaEntera
    <3>2. Indice(h) + 1 \in 1..Len(Pool(h)) /\ num'[h] = Pool(h)[Indice(h) + 1]
      BY <2>0, <3>1, IndiceEnPool
    <3>3. \A i \in 1..Len(Pool(h)) : Pool(h)[i] \in seeds
      BY <2>0 DEF Conocidas, Pool, TypeOK, Pedidos
    <3> QED
      BY <2>1, <2>2, <3>2, <3>3
  <2>3. CASE pc[g] = "busca" /\ num'[g] = num[g]
    BY <2>0, <2>1, <2>3
  <2> QED
    BY <1>3, <2>0, <2>2, <2>3, LlegaABusca
<1>4. ASSUME NEW h \in Pedidores, request(h) PROVE Elegida'
  BY <1>3, <1>4 DEF Elegida
<1> QED
  BY <1>1, <1>2, <1>4 DEF Next, handshake

-----------------------------------------------------------------------------
(* The Kernel lives.                                                       *)

Sana == riesgo \subseteq {"alta", "dosSC"}

LEMMA VivaToca ==
  ASSUME SigueViva, "lista" \notin riesgo
  PROVE  viva'
  BY DEF SigueViva

LEMMA VivaConserva ==
  ASSUME TypeOK, Lugares, Llenos, Elegida, SinMuertes, [Next]_vars
  PROVE  SinMuertes'
<1>1. ASSUME NEW m \in Memorias, recibir_seed(m) PROVE SinMuertes'
  <2>1. \/ UNCHANGED <<viva, riesgo>>
        \/ riesgo' = riesgo \cup {"sinRespuesta"}
    BY <1>1 DEF recibir_seed
  <2>2. CASE UNCHANGED <<viva, riesgo>>
    BY <2>2 DEF SinMuertes
  <2>3. CASE riesgo' = riesgo \cup {"sinRespuesta"}
    <3>1. ~(riesgo' \subseteq {"alta", "dosSC"})
      BY <2>3
    <3> QED
      BY <3>1 DEF SinMuertes
  <2> QED
    BY <2>1, <2>2, <2>3
<1>2. CASE UNCHANGED vars
  BY <1>2 DEF vars, SinMuertes
<1>3. ASSUME NEW h \in Pedidores, request(h), Sana' PROVE viva'
  <2>0. Sana /\ viva
    BY <1>3, Ajenos DEF AjenosQuietos, Sana, SinMuertes
  <2>1. ASSUME NEW t \in Tablas, NEW op \in {"CREATE", "USA"}, Pide(h, op, t) PROVE viva'
    BY <2>0, <2>1 DEF Pide
  <2>2. ASSUME PideSinCriterio(h) PROVE viva'
    BY <1>3, <2>2 DEF PideSinCriterio, Sana
  <2>3. ASSUME NEW c \in {"SC", "EC"}, Describe(h, c) PROVE viva'
    BY <2>0, <2>3 DEF Describe
  <2>4. ASSUME Conecta(h) PROVE viva'
    BY <2>0, <2>4 DEF Conecta
  <2>5. ASSUME Atiende(h) PROVE viva'
    BY <2>0, <2>5 DEF Atiende
  <2>6. ASSUME SinRespuesta(h) PROVE viva'
    BY <1>3, <2>0, <2>6 DEF SinRespuesta, Sana
  <2>7. ASSUME Mira(h) PROVE viva'
    BY <2>0, <2>7 DEF Mira
  <2>8. ASSUME Cuenta(h) PROVE viva'
    <3>1. Pool(h) # <<>>
      BY <2>0, <2>8 DEF Cuenta, En, Sana, Llenos, Eligiendo
    <3> QED
      BY <2>0, <2>8, <3>1 DEF Cuenta
  <2>9. ASSUME Compara(h) PROVE viva'
    BY <2>0, <2>9 DEF Compara
  <2>10. ASSUME VuelveAlPrimero(h) PROVE viva'
    BY <2>0, <2>10 DEF VuelveAlPrimero
  <2>11. ASSUME LeeReferencia(h) PROVE viva'
    BY <2>0, <2>11 DEF LeeReferencia
  <2>12. ASSUME AvanzaReferencia(h) PROVE viva'
    BY <2>0, <2>12 DEF AvanzaReferencia
  <2>13. ASSUME Toma(h) PROVE viva'
    BY <2>0, <2>13 DEF Toma
  <2>14. ASSUME Busca(h) PROVE viva'
    <3>1. num[h] \in seeds
      BY <2>0, <2>14 DEF Busca, En, Sana, Elegida
    <3> QED
      BY <2>0, <2>14, <3>1 DEF Busca
  <2>15. ASSUME NEW m \in Numeros, NEW c \in Criterios, EmpiezaAlta(h, m, c) PROVE viva'
    BY <2>0, <2>15 DEF EmpiezaAlta
  <2>16. ASSUME Limpia(h) PROVE viva'
    BY <2>0, <2>16, VivaToca DEF Limpia, Sana
  <2>17. ASSUME EmpiezaAgregar(h) PROVE viva'
    BY <2>0, <2>17 DEF EmpiezaAgregar
  <2>18. ASSUME Agrega(h) PROVE viva'
    BY <2>0, <2>18, VivaToca DEF Agrega, Sana
  <2>19. ASSUME Quita(h) PROVE viva'
    BY <2>0, <2>19 DEF Quita
  <2>20. ASSUME Saca(h) PROVE viva'
    BY <2>0, <2>20, VivaToca DEF Saca, Sana
  <2> QED
    BY <2>1, <2>2, <2>3, <2>4, <2>5, <2>6, <2>7, <2>8, <2>9,
       <2>10, <2>11, <2>12, <2>13, <2>14, <2>15, <2>16, <2>17, <2>18, <2>19,
       <2>20, <1>3
    DEF request, conectarse_a_memoria, elegir_memoria,
       get_memoria_fifo, agregar_consistencia
<1>4. ASSUME NEW h \in Pedidores, request(h) PROVE SinMuertes'
  BY <1>3, <1>4 DEF SinMuertes, Sana
<1> QED
  BY <1>1, <1>2, <1>4 DEF Next, handshake

-----------------------------------------------------------------------------
(* Where a table was sent.                                                 *)

\* The place of a table only changes with its pool.
LEMMA SitioDe ==
  ASSUME TypeOK, Lugares, Llenos, "pool" \notin riesgo, NEW h \in Pedidores, pc[h] = "toma",
         pedido[h].tabla \in Tablas, pedido[h].crit # "EC"
  PROVE  list_get(Pool(h), Indice(h)) = Sitio(pedido[h].tabla)
<1>1. pedido[h].crit = Consistencia[pedido[h].tabla] /\ pedido[h].crit \in {"SC", "SHC"}
  BY DEF Lugares, Coherente, TypeOK, Pedidos, Criterios
<1>2. CASE pedido[h].crit = "SC"
  BY <1>1, <1>2 DEF Indice, Sitio, Pool
<1>3. CASE pedido[h].crit = "SHC"
  <2>1. idx[h] = Resto(SumaAscii[pedido[h].tabla], Len(Pool(h)))
    BY <1>3 DEF Llenos, Eligiendo
  <2>2. Indice(h) = idx[h]
    BY <1>3 DEF Indice
  <2> QED
    BY <1>1, <1>3, <2>1, <2>2 DEF Sitio, Pool
<1> QED
  BY <1>1, <1>2, <1>3

\* A step that sends nobody leaves each destination, or forgets it with the pool
\* it was in.
LEMMA Destinado ==
  ASSUME TypeOK, Lugares, NEW h \in Pedidores, request(h), NEW t \in Tablas
  PROVE  \/ Toma(h)
         \/ /\ destino'[t] = destino[t]
            /\ vector'[Consistencia[t]] = vector[Consistencia[t]]
         \/ destino'[t] = Nadie
<1> DEFINE Bien == \/ Toma(h)
                   \/ /\ destino'[t] = destino[t]
                      /\ vector'[Consistencia[t]] = vector[Consistencia[t]]
                   \/ destino'[t] = Nadie
<1>0. ASSUME NEW c \in Criterios, NEW q, CambiaPool(c, q) PROVE Bien
  BY <1>0 DEF CambiaPool, TypeOK
<1>1. ASSUME NEW u \in Tablas, NEW op \in {"CREATE", "USA"}, Pide(h, op, u) PROVE Bien
  BY <1>1 DEF Pide, historia
<1>2. ASSUME PideSinCriterio(h) PROVE Bien
  BY <1>2 DEF PideSinCriterio, historia
<1>3. ASSUME NEW c \in {"SC", "EC"}, Describe(h, c) PROVE Bien
  BY <1>3 DEF Describe, historia
<1>4. ASSUME Conecta(h) PROVE Bien
  BY <1>4 DEF Conecta, historia
<1>5. ASSUME Atiende(h) PROVE Bien
  BY <1>5 DEF Atiende, historia
<1>6. ASSUME SinRespuesta(h) PROVE Bien
  BY <1>6 DEF SinRespuesta, historia
<1>7. ASSUME Mira(h) PROVE Bien
  BY <1>7 DEF Mira, historia
<1>8. ASSUME Cuenta(h) PROVE Bien
  BY <1>8 DEF Cuenta, historia
<1>9. ASSUME Compara(h) PROVE Bien
  BY <1>9 DEF Compara, historia
<1>10. ASSUME VuelveAlPrimero(h) PROVE Bien
  BY <1>10 DEF VuelveAlPrimero, historia
<1>11. ASSUME LeeReferencia(h) PROVE Bien
  BY <1>11 DEF LeeReferencia, historia
<1>12. ASSUME AvanzaReferencia(h) PROVE Bien
  BY <1>12 DEF AvanzaReferencia, historia
<1>13. ASSUME Toma(h) PROVE Bien
  BY <1>13
<1>14. ASSUME Busca(h) PROVE Bien
  BY <1>14 DEF Busca, historia
<1>15. ASSUME NEW m \in Numeros, NEW c \in Criterios, EmpiezaAlta(h, m, c) PROVE Bien
  BY <1>15 DEF EmpiezaAlta, historia
<1>16. ASSUME Limpia(h) PROVE Bien
  BY <1>0, <1>16 DEF Limpia, Criterios
<1>17. ASSUME EmpiezaAgregar(h) PROVE Bien
  BY <1>17 DEF EmpiezaAgregar, historia
<1>18. ASSUME Agrega(h) PROVE Bien
  <2>1. pedido[h].crit \in Criterios
    BY DEF TypeOK, Pedidos
  <2> QED
    BY <1>0, <1>18, <2>1 DEF Agrega
<1>19. ASSUME Quita(h) PROVE Bien
  BY <1>19 DEF Quita, historia
<1>20. ASSUME Saca(h) PROVE Bien
  <2>1. Turno(h) \in Criterios
    BY <1>20, TurnoTipo DEF Saca, En
  <2> QED
    BY <1>0, <1>20, <2>1 DEF Saca, Turno
<1> QED
  BY <1>1, <1>2, <1>3, <1>4, <1>5, <1>6, <1>7, <1>8, <1>9,
     <1>10, <1>11, <1>12, <1>13, <1>14, <1>15, <1>16, <1>17, <1>18, <1>19, <1>20
  DEF request, conectarse_a_memoria, elegir_memoria,
       get_memoria_fifo, agregar_consistencia

LEMMA DestinosConserva ==
  ASSUME TypeOK, Lugares, Llenos, Destinos, [Next]_vars
  PROVE  Destinos'
<1>1. ASSUME NEW m \in Memorias, recibir_seed(m) PROVE Destinos'
  <2>1. UNCHANGED <<vector, destino>> /\ riesgo \subseteq riesgo'
    BY <1>1 DEF recibir_seed, historia
  <2> QED
    BY <2>1 DEF Destinos, Sitio
<1>2. CASE UNCHANGED vars
  BY <1>2 DEF vars, Destinos, Sitio, historia
<1>3. ASSUME NEW h \in Pedidores, request(h), riesgo' \cap {"lista", "pool"} = {},
             NEW t \in Tablas, Consistencia[t] # "EC", destino'[t] # Nadie
      PROVE  destino'[t] = Sitio(t)'
  <2>0. /\ riesgo \cap {"lista", "pool"} = {}
        /\ destino[t] # Nadie => destino[t] = Sitio(t)
    BY <1>3, Ajenos DEF AjenosQuietos, Destinos
  <2>1. CASE destino'[t] = destino[t] /\ vector'[Consistencia[t]] = vector[Consistencia[t]]
    BY <1>3, <2>0, <2>1 DEF Sitio
  <2>2. CASE Toma(h)
    <3>1. UNCHANGED vector
      BY <2>2 DEF Toma
    <3>2. CASE pedido[h].crit # "EC" /\ t = pedido[h].tabla
      <4>0. num'[h] = list_get(Pool(h), Indice(h)) /\ pc[h] = "toma"
        BY <2>0, <2>2, TomaEntera
      <4>1. num'[h] = list_get(Pool(h), Indice(h)) /\ destino'[t] = num'[h] /\ pc[h] = "toma"
        BY <2>2, <3>2, <4>0 DEF Toma
      <4>2. num'[h] = Sitio(t)
        BY <2>0, <3>2, <4>1, SitioDe
      <4> QED
        BY <3>1, <4>1, <4>2 DEF Sitio
    <3>3. CASE ~(pedido[h].crit # "EC" /\ t = pedido[h].tabla)
      <4>1. destino'[t] = destino[t]
        BY <2>2, <3>3 DEF Toma
      <4> QED
        BY <2>1, <3>1, <4>1
    <3> QED
      BY <3>2, <3>3
  <2> QED
    BY <1>3, <2>1, <2>2, Destinado
<1>4. ASSUME NEW h \in Pedidores, request(h) PROVE Destinos'
  BY <1>3, <1>4 DEF Destinos
<1> QED
  BY <1>1, <1>2, <1>4 DEF Next, handshake

-----------------------------------------------------------------------------
(* The theorems.                                                           *)

Eleccion == TypeOK /\ Lugares /\ Llenos /\ Vuelta /\ Conocidas /\ Elegida

LEMMA EleccionInicial == Init => Eleccion
<1> SUFFICES ASSUME Init PROVE Eleccion
  OBVIOUS
<1>1. \A h \in Pedidores : pc[h] = "libre"
  BY DEF Init
<1>2. Llenos /\ Vuelta /\ Elegida
  BY <1>1 DEF Llenos, Vuelta, Elegida, Eligiendo, EnRonda
<1>3. Conocidas
  <2>1. \A c \in Criterios : vector[c] = <<>>
    BY DEF Init
  <2> QED
    BY <2>1 DEF Conocidas
<1> QED
  BY <1>2, <1>3, BaseInicial DEF Eleccion

LEMMA EleccionConserva == Eleccion /\ [Next]_vars => Eleccion'
  BY BaseConserva, LlenosConserva, VueltaConserva, ConocidasConserva, ElegidaConserva
     DEF Eleccion

LEMMA EleccionSiempre == Spec => []Eleccion
  BY EleccionInicial, EleccionConserva, PTL DEF Spec

\* Neither the seed of a choice is NULL nor the size of a pool 0 when it
\* divides, until two calls change a pool at once or one a pool under a thread
\* that chooses, two threads move the round at once, a name adds to less than 0,
\* an unknown memory is added, a criterion does not exist or a connection does
\* not answer.
THEOREM NadieMuere == Spec => []SinMuertes
<1>1. Init => SinMuertes
  BY DEF Init, SinMuertes
<1>2. Eleccion /\ SinMuertes /\ [Next]_vars => SinMuertes'
  BY VivaConserva DEF Eleccion
<1> QED
  BY <1>1, <1>2, EleccionSiempre, PTL DEF Spec

\* What is chosen is in the pool of the criterion, for any pools, round and hash
\* that is not negative, until a pool changes under it or two move the round.
THEOREM EleccionCorrecta == Spec => EligeDelPool
<1>1. ASSUME Eleccion, NEW h \in Pedidores, request(h),
             NEW g \in Pedidores, pc[g] = "toma", pc'[g] = "busca",
             riesgo' \cap {"lista", "pool", "ronda", "negativo"} = {}
      PROVE  Esta(num'[g], Pool(g))
  <2>1. g = h /\ riesgo \cap {"lista", "pool", "ronda", "negativo"} = {}
    BY <1>1, Ajenos DEF AjenosQuietos, Eleccion
  <2>2. Toma(h)
    BY <1>1, <2>1, LlegaABusca DEF Eleccion
  <2>3. num'[h] = list_get(Pool(h), Indice(h))
    BY <1>1, <2>1, <2>2, TomaEntera DEF Eleccion
  <2>4. Indice(h) + 1 \in 1..Len(Pool(h)) /\ num'[h] = Pool(h)[Indice(h) + 1]
    BY <1>1, <2>1, <2>3, IndiceEnPool DEF Eleccion
  <2> QED
    BY <2>1, <2>4 DEF Esta
<1>2. Eleccion /\ [Next]_vars =>
        [\A h \in Pedidores :
           pc[h] = "toma" /\ pc'[h] = "busca"
             /\ riesgo' \cap {"lista", "pool", "ronda", "negativo"} = {}
             => Esta(num'[h], Pool(h))]_vars
  <2> SUFFICES ASSUME Eleccion, Next, NEW g \in Pedidores, pc[g] = "toma", pc'[g] = "busca",
                      riesgo' \cap {"lista", "pool", "ronda", "negativo"} = {}
               PROVE  Esta(num'[g], Pool(g))
    OBVIOUS
  <2>1. ASSUME NEW m \in Memorias, recibir_seed(m) PROVE FALSE
    BY <2>1 DEF recibir_seed, locales
  <2> QED
    BY <1>1, <2>1 DEF Next, handshake
<1> QED
  BY <1>2, EleccionSiempre, PTL DEF Spec, EligeDelPool

\* A table of SC or SHC goes to one memory as long as its pool stays as it is,
\* whatever happens to the other tables, criteria and threads.
THEOREM SiempreAlMismo == Spec => SeLeeDondeSeEscribio
<1>1. Init => Destinos
  BY DEF Init, Destinos
<1>2. Eleccion /\ Destinos /\ [Next]_vars => Destinos'
  BY DestinosConserva DEF Eleccion
<1>3. ASSUME Eleccion, Destinos, Destinos', NEW h \in Pedidores, request(h),
             NEW t \in Tablas, Consistencia[t] # "EC", destino[t] # Nadie, destino'[t] # Nadie,
             riesgo' \cap {"lista", "pool"} = {}
      PROVE  destino'[t] = destino[t]
  <2>1. CASE Toma(h)
    <3>1. riesgo \cap {"lista", "pool"} = {}
      BY <1>3, Ajenos DEF AjenosQuietos, Eleccion
    <3>2. destino[t] = Sitio(t) /\ destino'[t] = Sitio(t)'
      BY <1>3, <3>1 DEF Destinos
    <3>3. Sitio(t)' = Sitio(t)
      BY <2>1 DEF Toma, Sitio
    <3> QED
      BY <3>2, <3>3
  <2> QED
    BY <1>3, <2>1, Destinado DEF Eleccion
<1>4. Eleccion /\ Destinos /\ Destinos' /\ [Next]_vars =>
        [\A t \in Tablas :
           Consistencia[t] # "EC" /\ destino[t] # Nadie /\ destino'[t] # Nadie
             /\ riesgo' \cap {"lista", "pool"} = {}
             => destino'[t] = destino[t]]_vars
  <2> SUFFICES ASSUME Eleccion, Destinos, Destinos', Next,
                      NEW t \in Tablas, Consistencia[t] # "EC", destino[t] # Nadie,
                      destino'[t] # Nadie, riesgo' \cap {"lista", "pool"} = {}
               PROVE  destino'[t] = destino[t]
    OBVIOUS
  <2>1. ASSUME NEW m \in Memorias, recibir_seed(m) PROVE destino'[t] = destino[t]
    BY <2>1 DEF recibir_seed, historia
  <2> QED
    BY <1>3, <2>1 DEF Next, handshake
<1> QED
  BY <1>1, <1>2, <1>4, EleccionSiempre, PTL DEF Spec, SeLeeDondeSeEscribio

-----------------------------------------------------------------------------
(* A memory that fails leaves every pool.                                  *)

Distinta(q) == \A i, j \in 1..Len(q) : q[i] = q[j] => i = j

SinCopias == riesgo \cap {"lista", "alta"} = {} => \A c \in Criterios : Distinta(vector[c])

\* The pools a removal has gone over do not have its memory.
Barridas ==
  riesgo \cap {"lista", "alta"} = {} =>
    \A h \in Pedidores : pc[h] \in {"quita", "saca"} =>
      \A k \in 0..2 : k < idx[h] => ~Esta(num[h], vector[Orden[k + 1]])

LEMMA AgregaDistinta ==
  ASSUME NEW S, NEW q \in Seq(S), NEW m \in S, Distinta(q), ~Esta(m, q)
  PROVE  /\ Distinta(Append(q, m))
         /\ \A n : Esta(n, Append(q, m)) => n = m \/ Esta(n, q)
<1> DEFINE r == Append(q, m)
<1>1. /\ Len(q) \in Nat /\ Len(r) = Len(q) + 1
      /\ \A i \in 1..Len(q) : r[i] = q[i]
      /\ r[Len(q) + 1] = m
  OBVIOUS
<1> HIDE DEF r
<1>2. \A i \in 1..Len(r) : i \in 1..Len(q) \/ i = Len(q) + 1
  BY <1>1
<1>3. Distinta(r)
  <2> SUFFICES ASSUME NEW i \in 1..Len(r), NEW j \in 1..Len(r), r[i] = r[j] PROVE i = j
    BY DEF Distinta
  <2>1. CASE i \in 1..Len(q) /\ j \in 1..Len(q)
    BY <1>1, <2>1 DEF Distinta
  <2>2. CASE i \in 1..Len(q) /\ j = Len(q) + 1
    BY <1>1, <2>2 DEF Esta
  <2>3. CASE i = Len(q) + 1 /\ j \in 1..Len(q)
    BY <1>1, <2>3 DEF Esta
  <2> QED
    BY <1>2, <2>1, <2>2, <2>3
<1>4. ASSUME NEW n, Esta(n, r) PROVE n = m \/ Esta(n, q)
  BY <1>1, <1>2, <1>4 DEF Esta
<1> QED
  BY <1>3, <1>4 DEF r

LEMMA SinPrimeroDistinta ==
  ASSUME NEW q \in Seq(Numeros \cup {0}), NEW m, Distinta(q)
  PROVE  /\ Distinta(SinPrimero(q, m))
         /\ ~Esta(m, SinPrimero(q, m))
         /\ \A n : Esta(n, SinPrimero(q, m)) => Esta(n, q)
<1>1. CASE ~Esta(m, q)
  BY <1>1 DEF SinPrimero
<1>2. CASE Esta(m, q)
  <2> DEFINE r == SinPrimero(q, m)
  <2>1. PICK k \in 1..Len(q) :
           /\ q[k] = m /\ Len(r) = Len(q) - 1
           /\ \A j \in 1..(k - 1) : r[j] = q[j]
           /\ \A j \in k..(Len(q) - 1) : r[j] = q[j + 1]
    BY <1>2, SinPrimeroForma
  <2> HIDE DEF r
  \* Where each place of the result comes from.
  <2> DEFINE f(j) == IF j < k THEN j ELSE j + 1
  <2>2. \A j \in 1..Len(r) : f(j) \in 1..Len(q) /\ f(j) # k
    BY <2>1
  <2>3. \A j \in 1..Len(r) : r[j] = q[f(j)]
    <3> SUFFICES ASSUME NEW j \in 1..Len(r) PROVE r[j] = q[f(j)]
      OBVIOUS
    <3>1. CASE j < k
      BY <2>1, <3>1
    <3>2. CASE ~(j < k)
      BY <2>1, <3>2
    <3> QED
      BY <3>1, <3>2
  <2>4. \A i, j \in 1..Len(r) : f(i) = f(j) => i = j
    BY <2>1
  <2> HIDE DEF f
  <2>5. Distinta(r)
    BY <2>2, <2>3, <2>4 DEF Distinta
  <2>6. ~Esta(m, r)
    BY <2>1, <2>2, <2>3 DEF Distinta, Esta
  <2>7. \A n : Esta(n, r) => Esta(n, q)
    BY <2>2, <2>3 DEF Esta
  <2> QED
    BY <2>5, <2>6, <2>7 DEF r
<1> QED
  BY <1>1, <1>2

\* Every pool stays without copies, and what comes to be in one was there or is
\* not being removed.
LEMMA PoolsDistintos ==
  ASSUME TypeOK, Lugares, SinCopias, NEW h \in Pedidores, request(h),
         riesgo' \cap {"lista", "alta"} = {}, NEW d \in Criterios
  PROVE  /\ Distinta(vector'[d])
         /\ \A g \in Pedidores :
              pc[g] \in {"quita", "saca"} /\ ~Esta(num[g], vector[d]) => ~Esta(num[g], vector'[d])
<1> DEFINE Bien == /\ Distinta(vector'[d])
                   /\ \A g \in Pedidores :
                        pc[g] \in {"quita", "saca"} /\ ~Esta(num[g], vector[d])
                          => ~Esta(num[g], vector'[d])
<1>1. /\ riesgo \cap {"lista", "alta"} = {}
      /\ \A c \in Criterios : vector[c] \in Seq(Numeros \cup {0}) /\ Distinta(vector[c])
  BY Ajenos DEF AjenosQuietos, SinCopias, TypeOK
<1>2. CASE SinPools(h)
  BY <1>1, <1>2 DEF SinPools
<1>3. ASSUME NEW c \in Criterios, NEW m \in Numeros,
             CambiaA(c, Append(vector[c], m)), AlAgregar(m, c) \subseteq riesgo'
      PROVE  Bien
  <2>1. /\ ~Esta(m, vector[c])
        /\ \A g \in Pedidores : pc[g] \in {"quita", "saca"} => num[g] # m
    BY <1>3 DEF AlAgregar, Corre
  <2>2. /\ Distinta(Append(vector[c], m))
        /\ \A n : Esta(n, Append(vector[c], m)) => n = m \/ Esta(n, vector[c])
    <3>1. m \in Numeros \cup {0} /\ vector[c] \in Seq(Numeros \cup {0})
      BY <1>1
    <3> QED
      BY <1>1, <2>1, <3>1, AgregaDistinta
  <2>3. vector'[d] = IF d = c THEN Append(vector[c], m) ELSE vector[d]
    BY <1>3 DEF CambiaA, CambiaPool, TypeOK
  <2> QED
    BY <1>1, <2>1, <2>2, <2>3
<1>4. CASE CambiaA("SC", <<>>)
  <2>1. vector'[d] = IF d = "SC" THEN <<>> ELSE vector[d]
    BY <1>4 DEF CambiaA, CambiaPool, TypeOK
  <2>2. Distinta(<<>>) /\ \A n : ~Esta(n, <<>>)
    BY DEF Distinta, Esta
  <2> QED
    BY <1>1, <2>1, <2>2
<1>5. ASSUME pc[h] = "saca", CambiaA(Turno(h), SinPrimero(vector[Turno(h)], num[h]))
      PROVE  Bien
  <2>1. Turno(h) \in Criterios
    BY <1>5, TurnoTipo
  <2>2. vector'[d] = IF d = Turno(h) THEN SinPrimero(vector[Turno(h)], num[h]) ELSE vector[d]
    BY <1>5, <2>1 DEF CambiaA, CambiaPool, TypeOK
  <2>3. /\ Distinta(SinPrimero(vector[Turno(h)], num[h]))
        /\ \A n : Esta(n, SinPrimero(vector[Turno(h)], num[h])) => Esta(n, vector[Turno(h)])
    BY <1>1, <2>1, SinPrimeroDistinta
  <2> QED
    BY <1>1, <2>2, <2>3
<1>6. "lista" \notin riesgo
  BY <1>1
<1> QED
  BY <1>2, <1>3, <1>4, <1>5, <1>6, ComoCambia

\* A removal that does not find its memory in a pool, or has taken it out, goes
\* over one more.
LEMMA Barre ==
  ASSUME TypeOK, Lugares, SinCopias, Barridas, NEW h \in Pedidores, Quita(h) \/ Saca(h),
         riesgo' \cap {"lista", "alta"} = {}
  PROVE  /\ idx[h] \in 0..2 /\ UNCHANGED num
         /\ \/ /\ idx'[h] = idx[h] + 1
               /\ pc'[h] = "sinMemoria" => idx[h] = 2
               /\ \A k \in 0..2 : k <= idx[h] => ~Esta(num[h], vector'[Orden[k + 1]])
            \/ pc'[h] = "saca" /\ idx'[h] = idx[h]
<1>0. /\ request(h) /\ pc[h] \in {"quita", "saca"} /\ idx[h] \in 0..2
      /\ Turno(h) \in Criterios /\ UNCHANGED num
  BY TurnoTipo DEF request, conectarse_a_memoria, Quita, Saca, En
<1>1. /\ riesgo \cap {"lista", "alta"} = {}
      /\ Distinta(vector[Turno(h)]) /\ vector[Turno(h)] \in Seq(Numeros \cup {0})
  BY <1>0, Ajenos DEF AjenosQuietos, SinCopias, TypeOK
<1>2. CASE pc'[h] = "saca" /\ idx'[h] = idx[h]
  BY <1>0, <1>2
<1>3. ASSUME Sigue(h), ~Esta(num[h], vector'[Turno(h)])
      PROVE  /\ idx'[h] = idx[h] + 1
             /\ pc'[h] = "sinMemoria" => idx[h] = 2
             /\ \A k \in 0..2 : k <= idx[h] => ~Esta(num[h], vector'[Orden[k + 1]])
  <2>1. idx'[h] = idx[h] + 1 /\ (pc'[h] = "sinMemoria" => idx[h] = 2)
    BY <1>0, <1>3 DEF Sigue, Va, TypeOK
  <2>2. ASSUME NEW k \in 0..2, k <= idx[h] PROVE ~Esta(num[h], vector'[Orden[k + 1]])
    <3>1. CASE k = idx[h]
      BY <1>3, <3>1 DEF Turno
    <3>2. CASE k < idx[h]
      <4>1. ~Esta(num[h], vector[Orden[k + 1]])
        BY <1>0, <1>1, <3>2 DEF Barridas
      <4>2. Orden[k + 1] \in Criterios
        BY DEF Orden, Criterios
      <4> QED
        BY <1>0, <4>1, <4>2, PoolsDistintos
    <3> QED
      BY <1>0, <2>2, <3>1, <3>2
  <2> QED
    BY <2>1, <2>2
<1>4. CASE Quita(h)
  <2>1. \/ Va(h, "saca") /\ UNCHANGED idx
        \/ ~Esta(num[h], vector[Turno(h)]) /\ Sigue(h)
    BY <1>4 DEF Quita, Turno
  <2>2. UNCHANGED vector
    BY <1>4 DEF Quita
  <2>3. CASE Va(h, "saca") /\ UNCHANGED idx
    BY <1>2, <2>3 DEF Va, TypeOK
  <2>4. CASE ~Esta(num[h], vector[Turno(h)]) /\ Sigue(h)
    BY <1>0, <1>3, <2>2, <2>4
  <2> QED
    BY <2>1, <2>3, <2>4
<1>5. CASE Saca(h)
  <2>1. PICK q \in Deja(vector[Turno(h)], SinPrimero(vector[Turno(h)], num[h])) :
          CambiaPool(Turno(h), q)
    BY <1>5 DEF Saca, Turno
  <2>2. q = SinPrimero(vector[Turno(h)], num[h])
    <3>1. "lista" \notin riesgo
      BY <1>1
    <3> QED
      BY <2>1, <3>1, DejaUna
  <2>3. vector'[Turno(h)] = SinPrimero(vector[Turno(h)], num[h])
    BY <1>0, <2>1, <2>2 DEF CambiaPool, TypeOK
  <2>4. ~Esta(num[h], vector'[Turno(h)])
    BY <1>1, <2>3, SinPrimeroDistinta
  <2> QED
    BY <1>0, <1>3, <1>5, <2>4 DEF Saca
<1> QED
  BY <1>4, <1>5

LEMMA LlegaAQuita ==
  ASSUME TypeOK, Lugares, NEW h \in Pedidores, request(h), 
         pc'[h] \in {"quita", "saca", "sinMemoria"}
  PROVE  \/ Quita(h) \/ Saca(h)
         \/ pc'[h] = "quita" /\ idx'[h] = 0
         \/ pc[h] \notin {"quita", "saca"} /\ pc'[h] = "sinMemoria"
         \/ pc'[h] = pc[h] /\ UNCHANGED <<idx, num>>
<1> DEFINE Bien == \/ Quita(h) \/ Saca(h)
                   \/ pc'[h] = "quita" /\ idx'[h] = 0
                   \/ pc[h] \notin {"quita", "saca"} /\ pc'[h] = "sinMemoria"
                   \/ pc'[h] = pc[h] /\ UNCHANGED <<idx, num>>
<1>1. ASSUME NEW t \in Tablas, NEW op \in {"CREATE", "USA"}, Pide(h, op, t) PROVE Bien
  BY <1>1 DEF Pide, En, Va, Vuelve, TypeOK, locales
<1>2. ASSUME PideSinCriterio(h) PROVE Bien
  BY <1>2 DEF PideSinCriterio, En, Va, Vuelve, TypeOK, locales
<1>3. ASSUME NEW c \in {"SC", "EC"}, Describe(h, c) PROVE Bien
  BY <1>3 DEF Describe, En, Va, Vuelve, TypeOK, locales
<1>4. ASSUME Conecta(h) PROVE Bien
  <2>1. idx'[h] = 0 /\ pc'[h] \in {"espera", "quita"}
    BY <1>4 DEF Conecta, Va, TypeOK
  <2> QED
    BY <2>1
<1>5. ASSUME Atiende(h) PROVE Bien
  BY <1>5 DEF Atiende, En, Va, Vuelve, TypeOK, locales
<1>6. ASSUME SinRespuesta(h) PROVE Bien
  BY <1>6 DEF SinRespuesta, En, Va, Vuelve, TypeOK, locales
<1>7. ASSUME Mira(h) PROVE Bien
  BY <1>7, AlMirar
<1>8. ASSUME Cuenta(h) PROVE Bien
  BY <1>8 DEF Cuenta, En, Va, Vuelve, TypeOK, locales
<1>9. ASSUME Compara(h) PROVE Bien
  BY <1>9 DEF Compara, En, Va, Vuelve, TypeOK, locales
<1>10. ASSUME VuelveAlPrimero(h) PROVE Bien
  BY <1>10 DEF VuelveAlPrimero, En, Va, Vuelve, TypeOK, locales
<1>11. ASSUME LeeReferencia(h) PROVE Bien
  BY <1>11 DEF LeeReferencia, En, Va, Vuelve, TypeOK, locales
<1>12. ASSUME AvanzaReferencia(h) PROVE Bien
  BY <1>12 DEF AvanzaReferencia, En, Va, Vuelve, TypeOK, locales
<1>13. ASSUME Toma(h) PROVE Bien
  BY <1>13 DEF Toma, En, Va, Vuelve, TypeOK, locales
<1>14. ASSUME Busca(h) PROVE Bien
  BY <1>14 DEF Busca, En, Va, Vuelve, TypeOK, locales
<1>15. ASSUME NEW m \in Numeros, NEW c \in Criterios, EmpiezaAlta(h, m, c) PROVE Bien
  BY <1>15 DEF EmpiezaAlta, En, Va, Vuelve, TypeOK, locales
<1>16. ASSUME Limpia(h) PROVE Bien
  BY <1>16 DEF Limpia, En, Va, Vuelve, TypeOK, locales
<1>17. ASSUME EmpiezaAgregar(h) PROVE Bien
  BY <1>17 DEF EmpiezaAgregar, En, Va, Vuelve, TypeOK, locales
<1>18. ASSUME Agrega(h) PROVE Bien
  BY <1>18 DEF Agrega, En, Va, Vuelve, TypeOK, locales
<1>19. ASSUME Quita(h) PROVE Bien
  BY <1>19
<1>20. ASSUME Saca(h) PROVE Bien
  BY <1>20
<1> QED
  BY <1>1, <1>2, <1>3, <1>4, <1>5, <1>6, <1>7, <1>8, <1>9,
     <1>10, <1>11, <1>12, <1>13, <1>14, <1>15, <1>16, <1>17, <1>18, <1>19, <1>20
  DEF request, conectarse_a_memoria, elegir_memoria,
       get_memoria_fifo, agregar_consistencia

LEMMA CaidaConserva ==
  ASSUME TypeOK, Lugares, SinCopias, Barridas, [Next]_vars
  PROVE  SinCopias' /\ Barridas'
<1>1. ASSUME NEW m \in Memorias, recibir_seed(m) PROVE SinCopias' /\ Barridas'
  <2>1. UNCHANGED <<vector, pc, idx, num>> /\ riesgo \subseteq riesgo'
    BY <1>1 DEF recibir_seed, locales
  <2> QED
    BY <2>1 DEF SinCopias, Barridas
<1>2. CASE UNCHANGED vars
  BY <1>2 DEF vars, SinCopias, Barridas, locales
<1>3. ASSUME NEW h \in Pedidores, request(h), riesgo' \cap {"lista", "alta"} = {},
             NEW g \in Pedidores, pc'[g] \in {"quita", "saca"}, NEW k \in 0..2, k < idx'[g]
      PROVE  ~Esta(num'[g], vector'[Orden[k + 1]])
  <2>0. Orden[k + 1] \in Criterios /\ riesgo \cap {"lista", "alta"} = {}
    BY <1>3, Ajenos DEF AjenosQuietos, Orden, Criterios
  <2>1. CASE pc[g] \in {"quita", "saca"} /\ idx'[g] = idx[g] /\ num'[g] = num[g]
    <3>1. ~Esta(num[g], vector[Orden[k + 1]])
      BY <1>3, <2>0, <2>1 DEF Barridas
    <3> QED
      BY <1>3, <2>0, <2>1, <3>1, PoolsDistintos
  <2>2. CASE g = h /\ (Quita(h) \/ Saca(h))
    <3>0. pc[h] \in {"quita", "saca"}
      BY <2>2 DEF Quita, Saca, En
    <3>1. idx[h] \in 0..2 /\ UNCHANGED num
      BY <1>3, <2>2, Barre
    <3>2. CASE idx'[h] = idx[h]
      BY <2>1, <2>2, <3>0, <3>1, <3>2
    <3>3. CASE idx'[h] # idx[h]
      <4>1. /\ idx'[h] = idx[h] + 1
            /\ \A i \in 0..2 : i <= idx[h] => ~Esta(num[h], vector'[Orden[i + 1]])
        BY <1>3, <2>2, <3>3, Barre
      <4>2. k <= idx[h]
        BY <1>3, <2>2, <3>1, <4>1
      <4> QED
        BY <2>2, <3>1, <4>1, <4>2
    <3> QED
      BY <3>2, <3>3
  <2>3. CASE g # h
    BY <1>3, <2>1, <2>3, Ajenos DEF AjenosQuietos
  <2> QED
    BY <1>3, <2>1, <2>2, <2>3, LlegaAQuita
<1>4. ASSUME NEW h \in Pedidores, request(h) PROVE SinCopias' /\ Barridas'
  BY <1>3, <1>4, PoolsDistintos DEF SinCopias, Barridas
<1> QED
  BY <1>1, <1>2, <1>4 DEF Next, handshake

\* When the removal of a memory ends it is in no pool, although the three are
\* gone over one after another, each looked at and then written, while others
\* add, remove and choose: until two calls change one pool at once.
THEOREM LaCaidaSale == Spec => CaidaSale
<1>1. Init => SinCopias /\ Barridas
  <2>1. Distinta(<<>>)
    BY DEF Distinta
  <2> QED
    BY <2>1 DEF Init, SinCopias, Barridas
<1>2. TypeOK /\ Lugares /\ SinCopias /\ Barridas /\ [Next]_vars
        => (TypeOK /\ Lugares /\ SinCopias /\ Barridas)'
  BY BaseConserva, CaidaConserva
<1>3. ASSUME TypeOK, Lugares, SinCopias, Barridas, NEW h \in Pedidores, request(h),
             NEW g \in Pedidores, pc[g] \in {"quita", "saca"}, pc'[g] = "sinMemoria",
             riesgo' \cap {"lista", "alta"} = {}, NEW c \in Criterios
      PROVE  ~Esta(num[g], vector'[c])
  <2>1. g = h
    BY <1>3, Ajenos DEF AjenosQuietos
  <2>2. Quita(h) \/ Saca(h)
    BY <1>3, <2>1, LlegaAQuita
  <2>3. \E k \in 0..2 : c = Orden[k + 1]
    BY DEF Criterios, Orden
  <2>4. idx[h] = 2 /\ \A k \in 0..2 : k <= idx[h] => ~Esta(num[h], vector'[Orden[k + 1]])
    BY <1>3, <2>1, <2>2, Barre
  <2> QED
    BY <2>1, <2>3, <2>4
<1>4. TypeOK /\ Lugares /\ SinCopias /\ Barridas /\ [Next]_vars =>
        [\A h \in Pedidores :
           pc[h] \in {"quita", "saca"} /\ pc'[h] = "sinMemoria"
             /\ riesgo' \cap {"lista", "alta"} = {}
             => \A c \in Criterios : ~Esta(num[h], vector'[c])]_vars
  <2> SUFFICES ASSUME TypeOK, Lugares, SinCopias, Barridas, Next,
                      NEW g \in Pedidores, pc[g] \in {"quita", "saca"}, pc'[g] = "sinMemoria",
                      riesgo' \cap {"lista", "alta"} = {}, NEW c \in Criterios
               PROVE  ~Esta(num[g], vector'[c])
    OBVIOUS
  <2>1. ASSUME NEW m \in Memorias, recibir_seed(m) PROVE FALSE
    BY <2>1 DEF recibir_seed, locales
  <2> QED
    BY <1>3, <2>1 DEF Next, handshake
<1> QED
  BY <1>1, <1>2, <1>4, BaseInicial, PTL DEF Spec, CaidaSale

-----------------------------------------------------------------------------
(* The round, one memory after another.                                     *)

\* The index that came k choices before u in a round of L memories, and the next one.
Anterior(u, k, L) == IF u >= k THEN u - k ELSE u - k + L
Siguiente(u, L) == IF u = L - 1 THEN 0 ELSE u + 1

\* Consecutive choices of a round of L memories, no more than one turn.
Vueltas(q, L) ==
  /\ Len(q) <= L
  /\ q # <<>> => q[Len(q)] \in 0..(L - 1)
  /\ \A i \in 1..Len(q) : q[i] = Anterior(q[Len(q)], Len(q) - i, L)

Ultima == ronda[Len(ronda)]
TamanioEC == Len(vector["EC"])

\* Where the reference is, as seen from the last choice.
Alcanza(h) ==
  /\ pc[h] = "vuelve" => Ultima = TamanioEC - 1
  /\ pc[h] \in {"lee", "guarda"} => referencia = Ultima
  /\ pc[h] = "toma" /\ pedido[h].crit = "EC" => referencia = Siguiente(Ultima, TamanioEC)
Giro ==
  riesgo \cap {"pool", "ronda"} = {} =>
    /\ Vueltas(ronda, TamanioEC)
    /\ ronda # <<>> => /\ (\A h \in Pedidores : ~EnRonda(h)) => referencia = Ultima
                       /\ \A h \in Pedidores : Alcanza(h)

\* One more choice, and the first is forgotten if the turn was complete.
LEMMA VueltasSigue ==
  ASSUME NEW L \in Nat \ {0}, NEW q \in Seq(Int), Vueltas(q, L), NEW u \in 0..(L - 1),
         q # <<>> => u = Siguiente(q[Len(q)], L)
  PROVE  LET r == Ultimos(L, Append(q, u))
         IN  Vueltas(r, L) /\ r # <<>> /\ r[Len(r)] = u
<1>1. PICK s : s = Append(q, u)
  OBVIOUS
<1>2. /\ s \in Seq(Int) /\ Len(s) = Len(q) + 1 /\ s[Len(s)] = u /\ Len(q) \in Nat /\ Len(s) \in Nat /\ Len(q) <= L
      /\ \A i \in 1..Len(q) : s[i] = q[i]
  BY <1>1 DEF Vueltas
<1>3. \A i \in 1..Len(s) : s[i] = Anterior(u, Len(s) - i, L)
  <2> SUFFICES ASSUME NEW i \in 1..Len(s) PROVE s[i] = Anterior(u, Len(s) - i, L)
    OBVIOUS
  <2>1. CASE i = Len(s)
    BY <1>2, <2>1 DEF Anterior
  <2>2. CASE i # Len(s)
    <3>1. i \in 1..Len(q) /\ q # <<>>
      BY <1>2, <2>2
    <3>2. PICK w \in 0..(L - 1) : w = q[Len(q)]
      BY <3>1 DEF Vueltas
    <3>3. PICK k : k = Len(q) - i
      OBVIOUS
    <3>3b. k \in 0..(L - 1)
      BY <1>2, <3>1, <3>3
    <3>4. s[i] = Anterior(w, k, L)
      BY <1>2, <3>1, <3>2, <3>3, <3>3b DEF Vueltas
    <3>5. u = Siguiente(w, L) /\ Len(s) - i = k + 1
      BY <1>2, <3>1, <3>2, <3>3, <3>3b
    <3>6. Anterior(Siguiente(w, L), k + 1, L) = Anterior(w, k, L)
      BY <3>3b DEF Anterior, Siguiente
    <3> QED
      BY <3>4, <3>5, <3>6
  <2> QED
    BY <2>1, <2>2
<1>4. PICK r : r = Ultimos(L, s)
  OBVIOUS
<1>5. PICK d \in 0..1 : /\ d = (IF Len(s) > L THEN 1 ELSE 0)
                        /\ Len(s) - d <= L /\ Len(s) - d >= 1
  BY <1>2
<1>6. r = SubSeq(s, 1 + d, Len(s))
  <2>1. CASE Len(s) > L
    <3>1. d = 1 /\ Len(s) = L + 1
      BY <1>2, <1>5, <2>1
    <3>2. Len(s) - L + 1 = 1 + d
      BY ONLY <3>1, L \in Nat
    <3> QED
      BY <1>4, <2>1, <3>2 DEF Ultimos
  <2>2. CASE ~(Len(s) > L)
    BY <1>4, <1>5, <2>2 DEF Ultimos
  <2> QED
    BY <2>1, <2>2
<1>7. /\ Len(r) = Len(s) - d
      /\ \A i \in 1..(Len(s) - d) : r[i] = s[i + d]
  <2>1. PICK n : n = Len(s)
    OBVIOUS
  <2>2. n \in Nat /\ n - d >= 1 /\ d \in 0..1 /\ s \in Seq(Int) /\ r = SubSeq(s, 1 + d, n)
    BY <1>2, <1>5, <1>6, <2>1
  <2>3. Len(r) = n - d /\ \A i \in 1..(n - d) : r[i] = s[i + d]
    BY ONLY <2>1, <2>2
  <2> QED
    BY <2>1, <2>3
<1>8. /\ Len(r) \in 1..L /\ r[Len(r)] = u /\ r # <<>>
  <2>1. Len(r) \in 1..L
    BY <1>2, <1>5, <1>7
  <2>2. Len(r) + d = Len(s) /\ Len(r) \in 1..(Len(s) - d)
    BY <1>2, <1>5, <1>7, <2>1
  <2>3. r[Len(r)] = s[Len(s)]
    BY <1>7, <2>2
  <2>4. r # <<>>
    BY <2>1
  <2> QED
    BY <1>2, <2>1, <2>3, <2>4
<1>9. ASSUME NEW i \in 1..Len(r) PROVE r[i] = Anterior(u, Len(r) - i, L)
  <2>1. i + d \in 1..Len(s) /\ Len(s) - (i + d) = Len(r) - i
    BY <1>2, <1>5, <1>7
  <2> QED
    BY <1>3, <1>7, <2>1
<1> QED
  BY <1>1, <1>4, <1>8, <1>9 DEF Vueltas

\* No two choices of a turn are equal.
LEMMA VueltasDistintas ==
  ASSUME NEW L \in Nat, NEW q \in Seq(Int), Vueltas(q, L),
         NEW i \in 1..Len(q), NEW j \in 1..Len(q), q[i] = q[j]
  PROVE  i = j
<1>1. PICK w \in 0..(L - 1) : w = q[Len(q)]
  BY DEF Vueltas
<1>2. PICK k, l : k = Len(q) - i /\ l = Len(q) - j
  OBVIOUS
<1>2a. k \in 0..(L - 1) /\ l \in 0..(L - 1)
  BY <1>2 DEF Vueltas
<1>3. Anterior(w, k, L) = Anterior(w, l, L)
  BY <1>1, <1>2 DEF Vueltas
<1>4. k = l
  BY <1>2a, <1>3 DEF Anterior
<1> QED
  BY <1>2, <1>4

\* Who changes what the history says of the round.
LEMMA QuienGira ==
  ASSUME TypeOK, Lugares, NEW h \in Pedidores, request(h)
  PROVE  \/ ronda' = <<>>
         \/ UNCHANGED ronda /\ vector'["EC"] = vector["EC"]
         \/ Toma(h)
<1> DEFINE Bien == ronda' = <<>> \/ (UNCHANGED ronda /\ vector'["EC"] = vector["EC"]) \/ Toma(h)
<1>0. ASSUME NEW c \in Criterios, NEW q, CambiaPool(c, q) PROVE Bien
  BY <1>0 DEF CambiaPool, TypeOK, Criterios
<1>1. ASSUME NEW t \in Tablas, NEW op \in {"CREATE", "USA"}, Pide(h, op, t) PROVE Bien
  BY <1>1 DEF Pide, historia
<1>2. ASSUME PideSinCriterio(h) PROVE Bien
  BY <1>2 DEF PideSinCriterio, historia
<1>3. ASSUME NEW c \in {"SC", "EC"}, Describe(h, c) PROVE Bien
  BY <1>3 DEF Describe, historia
<1>4. ASSUME Conecta(h) \/ Atiende(h) \/ SinRespuesta(h) PROVE Bien
  BY <1>4 DEF Conecta, Atiende, SinRespuesta, historia
<1>5. ASSUME elegir_memoria(h) PROVE Bien
  BY <1>5 DEF elegir_memoria, Mira, Cuenta, get_memoria_fifo, Compara, VuelveAlPrimero,
              LeeReferencia, AvanzaReferencia, Busca, historia
<1>6. ASSUME Limpia(h) PROVE Bien
  BY <1>0, <1>6 DEF Limpia, Criterios
<1>7. ASSUME Agrega(h) PROVE Bien
  <2>1. pedido[h].crit \in Criterios
    BY DEF TypeOK, Pedidos
  <2> QED
    BY <1>0, <1>7, <2>1 DEF Agrega
<1>8. ASSUME Saca(h) PROVE Bien
  <2>1. Turno(h) \in Criterios
    BY <1>8, TurnoTipo DEF Saca, En
  <2> QED
    BY <1>0, <1>8, <2>1 DEF Saca, Turno
<1>9. ASSUME NEW m \in Numeros, NEW c \in Criterios, EmpiezaAlta(h, m, c) PROVE Bien
  BY <1>9 DEF EmpiezaAlta, historia
<1>10. ASSUME EmpiezaAgregar(h) \/ Quita(h) PROVE Bien
  BY <1>10 DEF EmpiezaAgregar, Quita, historia
<1> QED
  BY <1>1, <1>2, <1>3, <1>4, <1>5, <1>6, <1>7, <1>8, <1>9, <1>10
  DEF request, conectarse_a_memoria, agregar_consistencia

\* Nobody leaves the round without having chosen.
LEMMA Sale ==
  ASSUME TypeOK, Lugares, NEW h \in Pedidores, request(h), EnRonda(h)
  PROVE  EnRonda(h)' \/ Toma(h)
<1>1. pc[h] \in {"vuelve", "lee", "guarda", "toma"}
  BY DEF EnRonda
<1>2. \/ VuelveAlPrimero(h) \/ LeeReferencia(h) \/ AvanzaReferencia(h) \/ Toma(h)
  BY <1>1 DEF request, Pide, PideSinCriterio, Describe, Conecta, Atiende, SinRespuesta,
     conectarse_a_memoria, elegir_memoria, get_memoria_fifo, agregar_consistencia,
     Mira, Cuenta, Compara, Busca, EmpiezaAlta, Limpia, EmpiezaAgregar, Agrega, Quita, Saca, En
<1>3. CASE VuelveAlPrimero(h) \/ AvanzaReferencia(h)
  <2>1. pc[h] \in {"vuelve", "guarda"} /\ pc'[h] = "toma" /\ UNCHANGED pedido
    BY <1>3 DEF VuelveAlPrimero, AvanzaReferencia, En, Va, TypeOK
  <2>2. pedido[h].crit = "EC"
    BY <2>1 DEF Lugares, Coherente
  <2> QED
    BY <2>1, <2>2 DEF EnRonda
<1>4. CASE LeeReferencia(h)
  BY <1>4 DEF LeeReferencia, Va, EnRonda, TypeOK
<1> QED
  BY <1>2, <1>3, <1>4

LEMMA GiroConserva ==
  ASSUME TypeOK, Lugares, Llenos, Vuelta, Giro, [Next]_vars
  PROVE  Giro'
<1>1. ASSUME NEW m \in Memorias, recibir_seed(m) PROVE Giro'
  <2>1. /\ UNCHANGED <<vector, referencia, pc, pedido, idx, ronda>> /\ riesgo \subseteq riesgo'
    BY <1>1 DEF recibir_seed, locales, historia
  <2> QED
    BY <2>1 DEF Giro, Alcanza, EnRonda, Ultima, TamanioEC
<1>2. CASE UNCHANGED vars
  BY <1>2 DEF vars, Giro, Alcanza, EnRonda, Ultima, TamanioEC, locales, historia
<1>3. ASSUME NEW h \in Pedidores, request(h), riesgo' \cap {"pool", "ronda"} = {}
      PROVE  /\ Vueltas(ronda', TamanioEC')
             /\ ronda' # <<>> =>
                  /\ (\A g \in Pedidores : ~EnRonda(g)') => referencia' = Ultima'
                  /\ \A g \in Pedidores : Alcanza(g)'
  <2>0. /\ riesgo \cap {"pool", "ronda"} = {}
        /\ \A g \in Pedidores \ {h} :
             /\ pc'[g] = pc[g] /\ pedido'[g] = pedido[g] /\ idx'[g] = idx[g]
    BY <1>3, Ajenos DEF AjenosQuietos
  <2>1. /\ \A f, g \in Pedidores : EnRonda(f) /\ EnRonda(g) => f = g
        /\ \A g \in Pedidores : EnVuelta(g)
    BY <2>0 DEF Vuelta, EnVuelta
  <2>2. /\ Vueltas(ronda, TamanioEC)
        /\ ronda # <<>> => /\ (\A g \in Pedidores : ~EnRonda(g)) => referencia = Ultima
                           /\ \A g \in Pedidores : Alcanza(g)
    BY <2>0 DEF Giro
  <2>3. /\ ronda \in Seq(Int) /\ TamanioEC \in Nat /\ referencia \in Int
        /\ vector["EC"] \in Seq(Numeros \cup {0})
    BY DEF TypeOK, TamanioEC, Criterios
  <2>4. \A g \in Pedidores \ {h} : EnRonda(g)' <=> EnRonda(g)
    BY <2>0 DEF EnRonda
  <2>5. CASE ronda' = <<>>
    <3>1. TamanioEC' \in Nat
      <4>1. TypeOK'
        BY <1>3, BaseConserva DEF Next
      <4> QED
        BY <4>1 DEF TypeOK, TamanioEC, Criterios
    <3> QED
      BY <2>5, <3>1 DEF Vueltas
  <2>6. CASE Toma(h) /\ pedido[h].crit = "EC"
    <3>1. /\ pc[h] = "toma" /\ pc'[h] = "busca" /\ UNCHANGED <<vector, referencia>>
          /\ ronda' = Ultimos(Len(Pool(h)), Append(ronda, referencia))
      BY <2>6 DEF Toma, En, Va, TypeOK
    <3>2. Pool(h) = vector["EC"] /\ EnRonda(h)
      BY <2>6, <3>1 DEF Pool, EnRonda
    <3>3. PICK L : L = TamanioEC
      OBVIOUS
    <3>4. L = Len(Pool(h)) /\ L \in Nat /\ referencia \in 0..(L - 1) /\ TamanioEC' = L
      BY <2>1, <2>3, <2>6, <3>1, <3>2, <3>3 DEF EnVuelta, TamanioEC
    <3>5. L \in Nat \ {0}
      BY <3>4
    <3>6. ronda # <<>> => referencia = Siguiente(ronda[Len(ronda)], L)
      BY <2>2, <2>6, <3>1, <3>3 DEF Alcanza, Ultima
    <3>7. Vueltas(ronda', L) /\ ronda' # <<>> /\ ronda'[Len(ronda')] = referencia
      BY <2>2, <2>3, <3>1, <3>3, <3>4, <3>5, <3>6, VueltasSigue
    <3>8. \A g \in Pedidores : ~EnRonda(g)'
      BY <2>1, <2>4, <3>1, <3>2 DEF EnRonda
    <3>9. \A g \in Pedidores : Alcanza(g)'
      BY <3>8 DEF Alcanza, EnRonda
    <3> QED
      BY <3>1, <3>4, <3>7, <3>9 DEF Ultima
  <2>7. CASE UNCHANGED ronda /\ vector'["EC"] = vector["EC"]
    <3> SUFFICES ASSUME ronda # <<>>
                 PROVE  /\ (\A g \in Pedidores : ~EnRonda(g)') => referencia' = Ultima
                        /\ \A g \in Pedidores : Alcanza(g)'
      BY <2>2, <2>7 DEF TamanioEC, Ultima
    <3>0. /\ Ultima' = Ultima /\ TamanioEC' = TamanioEC /\ Ultima \in 0..(TamanioEC - 1)
          /\ \A g \in Pedidores : Alcanza(g)
      BY <2>2, <2>7 DEF TamanioEC, Ultima, Vueltas
    <3>1. ASSUME \A g \in Pedidores : ~EnRonda(g)' PROVE referencia' = Ultima
      <4>1. CASE ~EnRonda(h)
        <5>1. UNCHANGED referencia
          BY <1>3, <4>1, RefQuieta DEF VuelveAlPrimero, AvanzaReferencia, En, EnRonda
        <5> QED
          BY <2>2, <2>4, <3>1, <4>1, <5>1
      <4>2. CASE EnRonda(h)
        <5>1. Toma(h)
          BY <1>3, <3>1, <4>2, Sale
        <5>2. pedido[h].crit = "EC" /\ pc[h] = "toma"
          BY <4>2, <5>1 DEF Toma, En, EnRonda
        <5> QED
          BY <2>6, <2>7, <3>0, <3>1, <5>1, <5>2
      <4> QED
        BY <4>1, <4>2
    <3>2. ASSUME NEW g \in Pedidores \ {h} PROVE Alcanza(g)'
      <4>1. CASE EnRonda(g)
        <5>1. ~EnRonda(h)
          BY <2>1, <3>2, <4>1
        <5>2. UNCHANGED referencia
          BY <1>3, <5>1, RefQuieta DEF VuelveAlPrimero, AvanzaReferencia, En, EnRonda
        <5> QED
          BY <2>0, <3>0, <3>2, <5>2 DEF Alcanza
      <4>2. CASE ~EnRonda(g)
        BY <2>0, <3>2, <4>2 DEF Alcanza, EnRonda
      <4> QED
        BY <4>1, <4>2
    <3>3. Alcanza(h)'
      <4>0. CASE ~EnRonda(h)'
        BY <4>0 DEF Alcanza, EnRonda
      <4>1. CASE EnRonda(h)'
        <5>0. Eligiendo(h)'
          BY <4>1 DEF EnRonda, Eligiendo
        <5>1. UNCHANGED pedido
          BY <1>3, <5>0, Camino
        <5>2. CASE pc'[h] = pc[h] /\ UNCHANGED referencia
          BY <3>0, <5>1, <5>2 DEF Alcanza
        <5>3. CASE Compara(h)
          <6>1. /\ pc[h] = "compara" /\ UNCHANGED referencia
                /\ pc'[h] = IF referencia >= Len(Pool(h)) - 1 THEN "vuelve" ELSE "lee"
            BY <5>3 DEF Compara, En, Va, TypeOK
          <6>2. Pool(h) = vector["EC"]
            BY <6>1 DEF Lugares, Coherente, Pool
          <6>3. \A g \in Pedidores : ~EnRonda(g)
            BY <1>3, <4>1, <6>1, Entra DEF EnRonda
          <6>4. referencia = Ultima
            BY <2>2, <6>3
          <6>5. pc'[h] = "vuelve" => Ultima = TamanioEC - 1
            BY <2>3, <3>0, <6>1, <6>2, <6>4 DEF TamanioEC
          <6> QED
            BY <3>0, <6>1, <6>4, <6>5 DEF Alcanza
        <5>4. CASE VuelveAlPrimero(h)
          <6>1. pc[h] = "vuelve" /\ pc'[h] = "toma" /\ referencia' = 0
            BY <5>4 DEF VuelveAlPrimero, En, Va, TypeOK
          <6>2. Ultima = TamanioEC - 1
            BY <3>0, <6>1 DEF Alcanza
          <6> QED
            BY <3>0, <6>1, <6>2 DEF Alcanza, Siguiente
        <5>5. CASE LeeReferencia(h)
          <6>1. pc[h] = "lee" /\ pc'[h] = "guarda" /\ UNCHANGED referencia
            BY <5>5 DEF LeeReferencia, En, Va, TypeOK
          <6> QED
            BY <3>0, <6>1 DEF Alcanza
        <5>6. CASE AvanzaReferencia(h)
          <6>1. pc[h] = "guarda" /\ pc'[h] = "toma" /\ referencia' = idx[h] + 1
            BY <5>6 DEF AvanzaReferencia, En, Va, TypeOK
          <6>2. Pool(h) = vector["EC"]
            BY <6>1 DEF Lugares, Coherente, Pool
          <6>3. idx[h] = Ultima /\ Ultima < TamanioEC - 1
            BY <2>1, <3>0, <6>1, <6>2 DEF EnVuelta, Alcanza, TamanioEC
          <6>4. referencia' = Siguiente(Ultima, TamanioEC)
            BY <2>3, <3>0, <6>1, <6>3 DEF Siguiente
          <6> QED
            BY <3>0, <6>1, <6>4 DEF Alcanza
        <5>7. CASE Mira(h) \/ Cuenta(h)
          <6>1. ~EnRonda(h) /\ ~Compara(h)
            BY <5>7 DEF Mira, Cuenta, Compara, En, EnRonda
          <6> QED
            BY <1>3, <4>1, <6>1, Entra
        <5> QED
          BY <1>3, <5>0, <5>2, <5>3, <5>4, <5>5, <5>6, <5>7, Camino
      <4> QED
        BY <4>0, <4>1
    <3> QED
      BY <3>1, <3>2, <3>3
  <2>8. CASE Toma(h) /\ pedido[h].crit # "EC"
    <3>1. UNCHANGED ronda /\ vector'["EC"] = vector["EC"]
      BY <2>8 DEF Toma
    <3> QED
      BY <2>7, <3>1
  <2> QED
    BY <1>3, <2>5, <2>6, <2>7, <2>8, QuienGira
<1>4. ASSUME NEW h \in Pedidores, request(h) PROVE Giro'
  BY <1>3, <1>4 DEF Giro
<1> QED
  BY <1>1, <1>2, <1>4 DEF Next, handshake

\* EC goes round: of as many choices in a row as its pool has places no two are of the
\* same one, for any number of threads, until two are in the round at once or the pool
\* changes under one that chooses.
THEOREM RepartoParejo == Spec => []Reparto
<1>1. Init => Giro
  <2> SUFFICES ASSUME Init PROVE Vueltas(ronda, TamanioEC) /\ ronda = <<>>
    BY DEF Giro
  <2>1. ronda = <<>> /\ vector["EC"] = <<>>
    BY DEF Init, Criterios
  <2> QED
    BY <2>1 DEF Vueltas, TamanioEC
<1>2. Eleccion /\ Giro /\ [Next]_vars => Giro'
  BY GiroConserva DEF Eleccion
<1>3. Eleccion /\ Giro => Reparto
  <2> SUFFICES ASSUME TypeOK, Giro, riesgo \cap {"pool", "ronda"} = {},
                      NEW i \in 1..Len(ronda), NEW j \in 1..Len(ronda), ronda[i] = ronda[j]
               PROVE  i = j
    BY DEF Reparto, Eleccion
  <2>1. ronda \in Seq(Int) /\ TamanioEC \in Nat /\ Vueltas(ronda, TamanioEC)
    BY DEF TypeOK, TamanioEC, Criterios, Giro
  <2> QED
    BY <2>1, VueltasDistintas
<1> QED
  BY <1>1, <1>2, <1>3, EleccionSiempre, PTL DEF Spec

=============================================================================
