--------------------------- MODULE MemoriaProofs ---------------------------
(***************************************************************************)
(* Proofs about Memoria for every number of tables, keys and threads and   *)
(* every capacity.                                                         *)
(***************************************************************************)
EXTENDS Memoria, FiniteSetTheorems, TLAPS

\* What the invariant says of the pages and the counter, without the overlaps
\* of two threads that end each of these claims.
Unicas ==
  /\ \A p \in paginas : p.tabla \in segmentos
  /\ \A p, q \in paginas : p.tabla = q.tabla /\ p.key = q.key => p = q
Exacta == tamanio_memoria_ocupada = Cardinality(paginas)
Acotada == Cardinality(paginas) < max_paginas_disponibles + Cardinality(TablasDe(paginas))

\* While no two threads overlap, one at most is counting, and the counter it
\* has loaded is still the counter.
Turnos ==
  riesgo = {} =>
    /\ \A g, h \in Hilos : Contando(g) /\ Contando(h) => g = h
    /\ \A h \in Hilos : hilo[h].fase = "guarda" => hilo[h].valor = tamanio_memoria_ocupada

\* The inductive invariant.  The counter is only right if a replacement takes
\* out exactly one page, which needs the uniqueness of keys, if the pages are
\* finite in number, and if threads count one at a time.
IInv ==
  /\ TypeOK
  /\ IsFiniteSet(paginas)
  /\ ClaveUnica
  /\ Contabilidad
  /\ CapacidadAcotada
  /\ Turnos

-----------------------------------------------------------------------------
(* Counting pages and the tables that have some.                           *)

\* A finite set of pages has finitely many tables, no more than pages.
LEMMA TablasFinitas ==
  ASSUME NEW P, IsFiniteSet(P)
  PROVE  /\ IsFiniteSet(TablasDe(P))
         /\ Cardinality(TablasDe(P)) \in Nat
         /\ Cardinality(P) \in Nat
         /\ Cardinality(TablasDe(P)) <= Cardinality(P)
<1> DEFINE f == [p \in P |-> p.tabla]
<1>1. f \in Surjection(P, TablasDe(P))
  BY DEF Surjection, TablasDe
<1>2. /\ IsFiniteSet(TablasDe(P))
      /\ Cardinality(TablasDe(P)) <= Cardinality(P)
  BY <1>1, FS_Surjection
<1> QED
  BY <1>2, FS_CardinalityType

\* Removing pages: the number of tables falls by no more than that of pages.
LEMMA QuitarPaginas ==
  ASSUME NEW P, IsFiniteSet(P), NEW X \in SUBSET P
  PROVE  /\ IsFiniteSet(P \ X)
         /\ Cardinality(P \ X) = Cardinality(P) - Cardinality(X)
         /\ Cardinality(TablasDe(P)) <= Cardinality(TablasDe(P \ X)) + Cardinality(X)
<1>1. /\ IsFiniteSet(X)
      /\ IsFiniteSet(P \ X)
  BY FS_Subset
<1>2. /\ Cardinality(X) \in Nat
      /\ Cardinality(P \ X) \in Nat
      /\ Cardinality(P) \in Nat
  BY <1>1, FS_CardinalityType
<1>3. Cardinality(P) = Cardinality(P \ X) + Cardinality(X)
  <2>1. P = (P \ X) \cup X /\ (P \ X) \cap X = {}
    OBVIOUS
  <2>2. Cardinality((P \ X) \cup X)
          = Cardinality(P \ X) + Cardinality(X) - Cardinality((P \ X) \cap X)
    BY <1>1, FS_Union
  <2>3. Cardinality((P \ X) \cap X) = 0
    BY <2>1, FS_EmptySet
  <2>4. Cardinality((P \ X) \cup X) = Cardinality(P)
    BY <2>1
  <2> QED
    BY <1>2, <2>2, <2>3, <2>4
<1>4. TablasDe(P) = TablasDe(P \ X) \cup TablasDe(X)
  BY DEF TablasDe
<1>5. /\ IsFiniteSet(TablasDe(P \ X)) /\ IsFiniteSet(TablasDe(X))
      /\ Cardinality(TablasDe(P \ X)) \in Nat /\ Cardinality(TablasDe(X)) \in Nat
      /\ Cardinality(TablasDe(X)) <= Cardinality(X)
  BY <1>1, TablasFinitas
<1>6. /\ Cardinality(TablasDe(P \ X) \cup TablasDe(X))
           = Cardinality(TablasDe(P \ X)) + Cardinality(TablasDe(X))
               - Cardinality(TablasDe(P \ X) \cap TablasDe(X))
  BY <1>5, FS_Union
<1>7. Cardinality(TablasDe(P \ X) \cap TablasDe(X)) \in Nat
  <2>1. TablasDe(P \ X) \cap TablasDe(X) \in SUBSET TablasDe(X)
    OBVIOUS
  <2>2. IsFiniteSet(TablasDe(P \ X) \cap TablasDe(X))
    BY <1>5, <2>1, FS_Subset
  <2> QED
    BY <2>2, FS_CardinalityType
<1> QED
  BY <1>1, <1>2, <1>3, <1>4, <1>5, <1>6, <1>7

\* Adding a page that was not there.
LEMMA AgregarUna ==
  ASSUME NEW P, IsFiniteSet(P), NEW p, p \notin P
  PROVE  /\ IsFiniteSet(P \cup {p})
         /\ Cardinality(P \cup {p}) = Cardinality(P) + 1
         /\ Cardinality(TablasDe(P \cup {p})) =
              IF p.tabla \in TablasDe(P) THEN Cardinality(TablasDe(P))
                                         ELSE Cardinality(TablasDe(P)) + 1
         /\ Cardinality(TablasDe(P \cup {p})) >= 1
<1>1. /\ IsFiniteSet(P \cup {p})
      /\ Cardinality(P \cup {p}) = Cardinality(P) + 1
  BY FS_AddElement
<1>2. TablasDe(P \cup {p}) = TablasDe(P) \cup {p.tabla}
  BY DEF TablasDe
<1>3. /\ IsFiniteSet(TablasDe(P)) /\ Cardinality(TablasDe(P)) \in Nat
  BY TablasFinitas
<1>4. Cardinality(TablasDe(P) \cup {p.tabla}) =
              IF p.tabla \in TablasDe(P) THEN Cardinality(TablasDe(P))
                                         ELSE Cardinality(TablasDe(P)) + 1
  BY <1>3, FS_AddElement
<1>5. p.tabla \in TablasDe(P) => Cardinality(TablasDe(P)) # 0
  BY <1>3, FS_EmptySet
<1> QED
  BY <1>1, <1>2, <1>3, <1>4, <1>5

\* Putting a page in the place of another of the same table.
LEMMA CambiarUna ==
  ASSUME NEW P, IsFiniteSet(P), NEW v \in P, NEW p, p \notin P \ {v}, p.tabla = v.tabla
  PROVE  /\ IsFiniteSet((P \ {v}) \cup {p})
         /\ Cardinality((P \ {v}) \cup {p}) = Cardinality(P)
         /\ TablasDe((P \ {v}) \cup {p}) = TablasDe(P)
<1>1. /\ IsFiniteSet(P \ {v})
      /\ Cardinality(P \ {v}) = Cardinality(P) - 1
  BY FS_RemoveElement
<1>2. /\ IsFiniteSet((P \ {v}) \cup {p})
      /\ Cardinality((P \ {v}) \cup {p}) = Cardinality(P \ {v}) + 1
  BY <1>1, FS_AddElement
<1>3. TablasDe((P \ {v}) \cup {p}) = TablasDe(P)
  BY DEF TablasDe
<1>4. Cardinality(P) \in Nat
  BY FS_CardinalityType
<1> QED
  BY <1>1, <1>2, <1>3, <1>4

-----------------------------------------------------------------------------
(* One lemma per thing a handler does to the cache.                        *)

\* The pages, segments and messages are well formed, whatever overlapped.
Forma ==
  /\ segmentos \subseteq Tablas
  /\ paginas \subseteq Pagina
  /\ viva \in BOOLEAN
  /\ enTransito \subseteq Mensaje
  /\ IsFiniteSet(paginas)

\* Thread h has changed the number of pages by d and has still to count it.
Debe(h, d, s) ==
  /\ d \in Int /\ s \in Reposo
  /\ hilo' = [hilo EXCEPT ![h] = [fase |-> "cuenta", delta |-> d, sigue |-> s]]

\* What a change of the lists by h leaves.
Hecho(h) ==
  \/ \E d \in Int, s \in Reposo :
       Debe(h, d, s) /\ (Unicas => Cardinality(paginas') = Cardinality(paginas) + d)
  \/ \E s \in Reposo :
       hilo' = [hilo EXCEPT ![h] = s] /\ (Unicas => Cardinality(paginas') = Cardinality(paginas))

Conserva ==
  /\ Forma'
  /\ Unicas => Unicas'
  /\ Unicas /\ Exacta /\ Acotada => Acotada'

\* The number of pages of a cache is a number.
LEMMA Cardinales ==
  ASSUME Forma
  PROVE  /\ Cardinality(paginas) \in Nat
         /\ Cardinality(TablasDe(paginas)) \in Nat
         /\ IsFiniteSet(paginas_modificadas)
         /\ Cardinality(paginas_modificadas) \in Nat
<1>1. IsFiniteSet(paginas_modificadas)
  BY FS_Subset DEF Forma, paginas_modificadas
<1> QED
  BY <1>1, TablasFinitas, FS_CardinalityType DEF Forma

\* Where a thread goes after its request.
LEMMA TrasReposo ==
  ASSUME NEW p \in Pagina
  PROVE  Tras(p) \in Reposo
BY DEF Tras, Lee, Reposo, Pagina

\* What a journal sends are messages.
LEMMA MensajesDelJournal ==
  ASSUME paginas \subseteq Pagina
  PROVE  MensajesJournal \subseteq Mensaje
BY DEF MensajesJournal, InsertDe, paginas_modificadas, Pagina, Mensaje

\* Sending keeps the set of messages well formed, connected or not.
LEMMA EnviarMensajes ==
  ASSUME NEW M \in SUBSET Mensaje, enTransito \subseteq Mensaje, Enviar(M)
  PROVE  enTransito' \subseteq Mensaje
BY DEF Enviar

\* A page p in the place of another of its table, its key not elsewhere.
LEMMA UnaPorOtra ==
  ASSUME Forma, NEW p \in Pagina, NEW v \in paginas, v.tabla = p.tabla,
         paginas' = (paginas \ {v}) \cup {p}, UNCHANGED <<segmentos, viva, enTransito>>,
         Unicas => \A q \in paginas \ {v} : ~(q.tabla = p.tabla /\ q.key = p.key)
  PROVE  /\ Conserva
         /\ Unicas => Cardinality(paginas') = Cardinality(paginas)
<1>1. Forma'
  <2>1. IsFiniteSet((paginas \ {v}) \cup {p})
    BY FS_RemoveElement, FS_AddElement DEF Forma
  <2> QED
    BY <2>1 DEF Forma
<1>2. ASSUME Unicas
      PROVE  /\ Unicas'
             /\ Cardinality(paginas') = Cardinality(paginas)
             /\ TablasDe(paginas') = TablasDe(paginas)
  <2>1. \A q \in paginas \ {v} : ~(q.tabla = p.tabla /\ q.key = p.key)
    BY <1>2
  <2>2. p \notin paginas \ {v}
    BY <2>1
  <2>3. /\ Cardinality(paginas') = Cardinality(paginas)
        /\ TablasDe(paginas') = TablasDe(paginas)
    BY <2>2, CambiarUna DEF Forma
  <2>4. \A q \in paginas' : q.tabla \in segmentos'
    BY <1>2 DEF Unicas
  <2>5. ASSUME NEW a \in paginas', NEW b \in paginas', a.tabla = b.tabla, a.key = b.key
        PROVE  a = b
    BY <1>2, <2>1, <2>5 DEF Unicas
  <2> QED
    BY <2>3, <2>4, <2>5 DEF Unicas
<1>3. Unicas /\ Acotada => Acotada'
  BY <1>2 DEF Acotada
<1> QED
  BY <1>1, <1>2, <1>3 DEF Conserva

\* Replacing the page of a key.
LEMMA RemplazoHecho ==
  ASSUME Forma, NEW h \in Hilos, NEW p \in Pagina, remplazo_especifico(h, p)
  PROVE  Conserva /\ Hecho(h)
<1>1. PICK v \in PaginasConClave(p.tabla, p.key) : paginas' = (paginas \ {v}) \cup {p}
  BY DEF remplazo_especifico
<1>2. v \in paginas /\ v.tabla = p.tabla /\ v.key = p.key
  BY DEF PaginasConClave, PaginasDe
<1>3. Unicas => \A q \in paginas \ {v} : ~(q.tabla = p.tabla /\ q.key = p.key)
  BY <1>2 DEF Unicas
<1>4. Conserva /\ (Unicas => Cardinality(paginas') = Cardinality(paginas))
  BY <1>1, <1>2, <1>3, UnaPorOtra DEF remplazo_especifico
<1>5. Debe(h, 0, Tras(p))
  <2>1. (0 - 1) + 1 = 0
    OBVIOUS
  <2> QED
    BY <2>1, TrasReposo DEF remplazo_especifico, Cuenta, Debe
<1>6. Unicas => Cardinality(paginas') = Cardinality(paginas) + 0
  BY <1>4, Cardinales
<1> QED
  BY <1>4, <1>5, <1>6, TrasReposo DEF Hecho

\* Replacing an evictable page of the same table.
LEMMA ReemplazarHecho ==
  ASSUME Forma, NEW h \in Hilos, NEW p \in Pagina, reemplazar_pagina(h, p)
  PROVE  Conserva /\ Hecho(h)
<1>1. PICK v \in Reemplazables(p.tabla) : paginas' = (paginas \ {v}) \cup {p}
  BY DEF reemplazar_pagina
<1>2. v \in paginas /\ v.tabla = p.tabla
  BY DEF Reemplazables, PaginasDe
<1>3. \A q \in paginas : ~(q.tabla = p.tabla /\ q.key = p.key)
  BY DEF reemplazar_pagina, existe_pagina, existe_tabla_paginas, PaginasConClave, PaginasDe
<1>4. Conserva /\ (Unicas => Cardinality(paginas') = Cardinality(paginas))
  BY <1>1, <1>2, <1>3, UnaPorOtra DEF reemplazar_pagina
<1>5. Hecho(h)
  BY <1>4, TrasReposo DEF Hecho, reemplazar_pagina, Pasa
<1> QED
  BY <1>4, <1>5

\* Appending to pages without one of the key.
LEMMA UnaMas ==
  ASSUME NEW P, IsFiniteSet(P), NEW S, NEW p \in Pagina, p.tabla \in S,
         \A q \in P : q.tabla \in S,
         \A q \in P : ~(q.tabla = p.tabla /\ q.key = p.key),
         \A a, b \in P : a.tabla = b.tabla /\ a.key = b.key => a = b
  PROVE  /\ \A q \in P \cup {p} : q.tabla \in S
         /\ \A a, b \in P \cup {p} : a.tabla = b.tabla /\ a.key = b.key => a = b
         /\ Cardinality(P \cup {p}) = Cardinality(P) + 1
<1>1. p \notin P
  OBVIOUS
<1>2. Cardinality(P \cup {p}) = Cardinality(P) + 1
  BY <1>1, AgregarUna
<1>3. ASSUME NEW a \in P \cup {p}, NEW b \in P \cup {p}, a.tabla = b.tabla, a.key = b.key
      PROVE  a = b
  BY <1>3
<1> QED
  BY <1>2, <1>3

\* Appending a page when the counter is below the maximum.
LEMMA AgregarHecho ==
  ASSUME Forma, NEW h \in Hilos, NEW p \in Pagina, agregar_pagina(h, p)
  PROVE  Conserva /\ Hecho(h)
<1>1. /\ paginas' = paginas \cup {p}
      /\ segmentos' = segmentos \cup {p.tabla}
      /\ UNCHANGED <<viva, enTransito>>
      /\ tamanio_memoria_ocupada < max_paginas_disponibles
      /\ Cuenta(h, 1, Tras(p))
      /\ p.tabla \in Tablas
  BY DEF agregar_pagina, verificar_espacio_memoria, Pagina
<1>2. Forma'
  <2>1. IsFiniteSet(paginas \cup {p})
    BY FS_AddElement DEF Forma
  <2> QED
    BY <1>1, <2>1 DEF Forma
<1>3. ASSUME Unicas
      PROVE  Unicas' /\ Cardinality(paginas') = Cardinality(paginas) + 1 /\ p \notin paginas
  <2>1. \A q \in paginas : ~(q.tabla = p.tabla /\ q.key = p.key)
    BY <1>3 DEF agregar_pagina, existe_pagina, existe_tabla_paginas, PaginasConClave,
                PaginasDe, Unicas
  <2>2. \A q \in paginas : q.tabla \in segmentos \cup {p.tabla}
    BY <1>3 DEF Unicas
  <2>3. \A a, b \in paginas : a.tabla = b.tabla /\ a.key = b.key => a = b
    BY <1>3 DEF Unicas
  <2>4. /\ \A q \in paginas \cup {p} : q.tabla \in segmentos \cup {p.tabla}
        /\ \A a, b \in paginas \cup {p} : a.tabla = b.tabla /\ a.key = b.key => a = b
        /\ Cardinality(paginas \cup {p}) = Cardinality(paginas) + 1
    <3>1. PICK S : S = segmentos \cup {p.tabla}
      OBVIOUS
    <3>2. p.tabla \in S /\ (\A q \in paginas : q.tabla \in S) /\ IsFiniteSet(paginas)
      BY <2>2, <3>1 DEF Forma
    <3>3. /\ \A q \in paginas \cup {p} : q.tabla \in S
          /\ \A a, b \in paginas \cup {p} : a.tabla = b.tabla /\ a.key = b.key => a = b
          /\ Cardinality(paginas \cup {p}) = Cardinality(paginas) + 1
      BY <2>1, <2>3, <3>2, UnaMas
    <3> QED
      BY <3>1, <3>3
  <2> QED
    BY <1>1, <2>1, <2>4 DEF Unicas
<1>4. ASSUME Unicas, Exacta, Acotada PROVE Acotada'
  <2>1. Cardinality(TablasDe(paginas')) >= 1
    BY <1>1, <1>3, <1>4, AgregarUna DEF Forma
  <2>2. /\ Cardinality(TablasDe(paginas')) \in Nat /\ Cardinality(paginas) \in Nat
        /\ Cardinality(paginas') = Cardinality(paginas) + 1
    BY <1>2, <1>3, <1>4, Cardinales, TablasFinitas DEF Forma
  <2> QED
    BY <1>1, <1>4, <2>1, <2>2, ConstantesMemoria DEF Exacta, Acotada
<1>5. Debe(h, 1, Tras(p))
  BY <1>1, TrasReposo DEF Cuenta, Debe
<1>6. Hecho(h)
  BY <1>3, <1>5, TrasReposo DEF Hecho
<1> QED
  BY <1>2, <1>3, <1>4, <1>6 DEF Conserva

\* Taking pages away: journal and drop.
LEMMA QuitarConserva ==
  ASSUME Forma, NEW X \in SUBSET paginas
  PROVE  LET P == paginas \ X
         IN  /\ IsFiniteSet(P) /\ IsFiniteSet(X)
             /\ Cardinality(P) = Cardinality(paginas) + (0 - Cardinality(X))
             /\ Acotada => Cardinality(P) < max_paginas_disponibles + Cardinality(TablasDe(P))
             /\ Cardinality(P) \in Nat
             /\ Cardinality(X) \in Nat
             /\ Cardinality(TablasDe(P)) \in Nat
<1> DEFINE P == paginas \ X
<1>1. /\ IsFiniteSet(P)
      /\ Cardinality(P) = Cardinality(paginas) - Cardinality(X)
      /\ Cardinality(TablasDe(paginas)) <= Cardinality(TablasDe(P)) + Cardinality(X)
  BY QuitarPaginas DEF Forma
<1>2. IsFiniteSet(X)
  BY FS_Subset DEF Forma
<1>3. /\ Cardinality(P) \in Nat /\ Cardinality(X) \in Nat /\ Cardinality(paginas) \in Nat
      /\ Cardinality(TablasDe(P)) \in Nat /\ Cardinality(TablasDe(paginas)) \in Nat
  BY <1>1, <1>2, TablasFinitas, FS_CardinalityType DEF Forma
<1> HIDE DEF P
<1>4. Acotada => Cardinality(P) < max_paginas_disponibles + Cardinality(TablasDe(P))
  BY <1>1, <1>3, ConstantesMemoria DEF Acotada
<1> QED
  BY <1>1, <1>2, <1>3, <1>4 DEF P

\* Journalling to make room, then appending to a table left without pages.
LEMMA JournalYAgregarHecho ==
  ASSUME Forma, NEW h \in Hilos, NEW p \in Pagina, journal_y_agregar(h, p)
  PROVE  Conserva /\ Hecho(h)
<1> DEFINE P == paginas \ paginas_modificadas
           d == (0 - Cardinality(paginas_modificadas)) + 1
<1>1. /\ paginas' = P \cup {p}
      /\ Cuenta(h, d, Tras(p))
      /\ UNCHANGED <<segmentos, viva>>
      /\ p.tabla \in segmentos
  BY DEF journal_y_agregar, PaginasTrasJournal, BajaTrasJournal, existe_tabla_paginas
<1>2. paginas_modificadas \in SUBSET paginas
  BY DEF paginas_modificadas
<1>3. /\ IsFiniteSet(P)
      /\ Cardinality(P) = Cardinality(paginas) + (0 - Cardinality(paginas_modificadas))
      /\ Acotada => Cardinality(P) < max_paginas_disponibles + Cardinality(TablasDe(P))
      /\ Cardinality(P) \in Nat
      /\ Cardinality(paginas_modificadas) \in Nat
      /\ Cardinality(TablasDe(P)) \in Nat
  BY <1>2, QuitarConserva
<1>4. d \in Int
  BY <1>3
<1>5. p.tabla \notin TablasDe(P)
  BY DEF journal_y_agregar, puede_reemplazar, paginas_sin_modificar, paginas_modificadas,
         PaginasDe, TablasDe, Forma, Pagina
<1>6. \A q \in P : q.tabla # p.tabla
  BY <1>5 DEF TablasDe
<1>7. enTransito' \subseteq Mensaje
  BY MensajesDelJournal, EnviarMensajes DEF Forma, journal_y_agregar
<1>8. P \subseteq paginas
  OBVIOUS
<1>9. Debe(h, d, Tras(p))
  BY <1>1, <1>4, TrasReposo DEF Cuenta, Debe
<1> HIDE DEF P
<1>10. p \notin P
  BY <1>6
<1>11. /\ IsFiniteSet(P \cup {p})
       /\ Cardinality(P \cup {p}) = Cardinality(P) + 1
       /\ Cardinality(TablasDe(P \cup {p})) = Cardinality(TablasDe(P)) + 1
  BY <1>3, <1>5, <1>10, AgregarUna
<1>12. Forma'
  BY <1>1, <1>7, <1>8, <1>11 DEF Forma
<1>13. ASSUME Unicas PROVE Unicas'
  <2>1. \A q \in P : q.tabla \in segmentos
    BY <1>8, <1>13 DEF Unicas
  <2>2. \A a, b \in P : a.tabla = b.tabla /\ a.key = b.key => a = b
    BY <1>8, <1>13 DEF Unicas
  <2>3. /\ \A q \in P \cup {p} : q.tabla \in segmentos
        /\ \A a, b \in P \cup {p} : a.tabla = b.tabla /\ a.key = b.key => a = b
    BY <1>1, <1>3, <1>6, <2>1, <2>2, UnaMas
  <2> QED
    BY <1>1, <2>3 DEF Unicas
<1>14. Acotada => Acotada'
  BY <1>1, <1>3, <1>11, ConstantesMemoria DEF Acotada
<1>15. Cardinality(paginas') = Cardinality(paginas) + d
  BY <1>1, <1>3, <1>11, <1>12, Cardinales
<1>16. Hecho(h)
  BY <1>4, <1>9, <1>15, TrasReposo DEF Hecho
<1> QED
  BY <1>12, <1>13, <1>14, <1>16 DEF Conserva

\* insert as a whole.
LEMMA InsertHecho ==
  ASSUME Forma, NEW h \in Hilos, NEW p \in Pagina, insert(h, p)
  PROVE  Conserva /\ Hecho(h)
<1>1. CASE remplazo_especifico(h, p)
  BY <1>1, RemplazoHecho
<1>2. CASE agregar_pagina(h, p)
  BY <1>2, AgregarHecho
<1>3. CASE reemplazar_pagina(h, p)
  BY <1>3, ReemplazarHecho
<1>4. CASE journal_y_agregar(h, p)
  BY <1>4, JournalYAgregarHecho
<1>5. CASE muere_sin_segmento(h, p)
  <2>1. Libre \in Reposo
    BY DEF Reposo
  <2> QED
    BY <1>5, <2>1 DEF muere_sin_segmento, Pasa, Conserva, Hecho, Forma, Unicas, Acotada
<1> QED
  BY <1>1, <1>2, <1>3, <1>4, <1>5 DEF insert

\* CREATE, DROP and JOURNAL.
LEMMA CreateHecho ==
  ASSUME Forma, NEW h \in Hilos, NEW t \in Tablas, create(h, t)
  PROVE  Conserva /\ Hecho(h)
<1>1. {[op |-> "CREATE", tabla |-> t]} \in SUBSET Mensaje
  BY DEF Mensaje
<1>2. enTransito' \subseteq Mensaje
  BY <1>1, EnviarMensajes DEF create, Forma
<1>3. Libre \in Reposo
  BY DEF Reposo
<1> QED
  BY <1>2, <1>3 DEF create, Pasa, Conserva, Hecho, Forma, Unicas, Acotada

LEMMA DropHecho ==
  ASSUME Forma, NEW h \in Hilos, NEW t \in Tablas, drop(h, t)
  PROVE  Conserva /\ Hecho(h)
<1>1. {[op |-> "DROP", tabla |-> t]} \in SUBSET Mensaje
  BY DEF Mensaje
<1>2. enTransito' \subseteq Mensaje
  BY <1>1, EnviarMensajes DEF drop, Forma
<1>3. PaginasDe(t) \in SUBSET paginas
  BY DEF PaginasDe
<1>4. /\ IsFiniteSet(paginas')
      /\ Cardinality(paginas') = Cardinality(paginas) + (0 - Cardinality(PaginasDe(t)))
      /\ Acotada => Cardinality(paginas') < max_paginas_disponibles + Cardinality(TablasDe(paginas'))
      /\ Cardinality(PaginasDe(t)) \in Nat
  BY <1>3, QuitarConserva DEF drop
<1>5. Conserva
  BY <1>2, <1>4 DEF drop, Conserva, Forma, Unicas, Acotada, PaginasDe
<1>6. 0 - Cardinality(PaginasDe(t)) \in Int /\ Libre \in Reposo
  BY <1>4 DEF Reposo
<1>7. Debe(h, 0 - Cardinality(PaginasDe(t)), Libre)
  BY <1>6 DEF drop, Cuenta, Debe
<1> QED
  BY <1>4, <1>5, <1>6, <1>7 DEF Hecho

LEMMA JournalHecho ==
  ASSUME Forma, NEW h \in Hilos, journal(h)
  PROVE  Conserva /\ Hecho(h)
<1>1. enTransito' \subseteq Mensaje
  BY MensajesDelJournal, EnviarMensajes DEF journal, Forma
<1>2. paginas_modificadas \in SUBSET paginas
  BY DEF paginas_modificadas
<1>3. /\ IsFiniteSet(paginas')
      /\ Cardinality(paginas') = Cardinality(paginas) + (0 - Cardinality(paginas_modificadas))
      /\ Acotada => Cardinality(paginas') < max_paginas_disponibles + Cardinality(TablasDe(paginas'))
      /\ Cardinality(paginas_modificadas) \in Nat
  BY <1>2, QuitarConserva DEF journal, PaginasTrasJournal
<1>4. Conserva
  BY <1>1, <1>3 DEF journal, PaginasTrasJournal, Conserva, Forma, Unicas, Acotada
<1>5. BajaTrasJournal \in Int /\ Libre \in Reposo
  BY <1>3 DEF Reposo, BajaTrasJournal
<1>6. Debe(h, BajaTrasJournal, Libre)
  BY <1>5 DEF journal, Cuenta, Debe
<1> QED
  BY <1>3, <1>4, <1>5, <1>6 DEF Hecho, BajaTrasJournal

-----------------------------------------------------------------------------
(* The inductive step, one step per action.                                *)

\* The part of the invariant that LFS, clock and history carry.
RestoOK ==
  /\ lfs \in [Tablas \X Claves -> Timestamps]
  /\ lfs_largo \subseteq Tablas \X Claves
  /\ lfs_tablas \subseteq Tablas
  /\ lfs_arriba \in BOOLEAN
  /\ reloj \in Timestamps
  /\ ultimo \in [Tablas \X Claves -> Timestamps]
  /\ tiradas \subseteq Tablas \X Claves

\* The part of the cache and its threads.
CacheInv ==
  /\ Forma
  /\ tamanio_memoria_ocupada \in Int
  /\ hilo \in [Hilos -> EstadoHilo]
  /\ riesgo \subseteq {"cruza", "contador"}
  /\ ClaveUnica
  /\ Contabilidad
  /\ CapacidadAcotada
  /\ Turnos

\* The invariant is those two parts.
LEMMA PartesDeIInv == IInv <=> CacheInv /\ RestoOK
BY DEF IInv, TypeOK, CacheInv, RestoOK, Forma

\* What the invariant gives while nothing overlapped.
LEMMA SinRiesgo ==
  ASSUME CacheInv
  PROVE  /\ "cruza" \notin riesgo => Unicas
         /\ riesgo = {} => Unicas /\ Acotada
         /\ riesgo = {} /\ (\A h \in Hilos : ~Contando(h)) => Exacta
BY DEF CacheInv, ClaveUnica, Unicas, CapacidadAcotada, Acotada, Contabilidad, Exacta

\* Steps that leave the pages, the counter and the segments alone, and change
\* the phase of a thread to one in which it does not count.
LEMMA CacheQuieta ==
  ASSUME CacheInv, UNCHANGED <<segmentos, paginas, tamanio_memoria_ocupada>>,
         viva' \in BOOLEAN, enTransito' \subseteq Mensaje,
         riesgo \subseteq riesgo', riesgo' \subseteq {"cruza", "contador"},
         hilo' \in [Hilos -> EstadoHilo],
         \A h \in Hilos : hilo'[h] = hilo[h] \/ (~Contando(h) /\ ~Contando(h)')
  PROVE  CacheInv'
<1>1. Forma'
  BY DEF CacheInv, Forma
<1>2. ClaveUnica' /\ CapacidadAcotada'
  BY DEF CacheInv, ClaveUnica, CapacidadAcotada
<1>3. \A h \in Hilos : Contando(h)' => hilo'[h] = hilo[h] /\ Contando(h)
  BY DEF Contando
<1>4. (\A h \in Hilos : ~Contando(h)') => \A h \in Hilos : ~Contando(h)
  BY DEF Contando
<1>5. riesgo' = {} => riesgo = {}
  OBVIOUS
<1>6. Contabilidad'
  BY <1>3, <1>4, <1>5 DEF CacheInv, Contabilidad
<1>7. Turnos'
  BY <1>3, <1>5 DEF CacheInv, Turnos, Contando
<1> QED
  BY <1>1, <1>2, <1>6, <1>7 DEF CacheInv

\* The same for a step of one thread h that goes from a phase in which it does
\* not count to another.
LEMMA HiloPasa ==
  ASSUME CacheInv, UNCHANGED <<segmentos, paginas, tamanio_memoria_ocupada, enTransito>>,
         viva' \in BOOLEAN, riesgo \subseteq riesgo', riesgo' \subseteq {"cruza", "contador"},
         NEW h \in Hilos, NEW s \in EstadoHilo, hilo' = [hilo EXCEPT ![h] = s],
         s.fase \notin {"cuenta", "guarda"}, ~Contando(h)
  PROVE  CacheInv'
<1>1. hilo' \in [Hilos -> EstadoHilo]
  BY DEF CacheInv
<1>2. \A g \in Hilos : hilo'[g] = hilo[g] \/ (~Contando(g) /\ ~Contando(g)')
  BY DEF CacheInv, Contando
<1> QED
  BY <1>1, <1>2, CacheQuieta DEF CacheInv, Forma

\* The phases of a thread between two requests.
LEMMA Fases ==
  /\ Libre \in Reposo /\ Reposo \subseteq EstadoHilo
  /\ \A s \in Reposo : s.fase \in {"libre", "lee"}
BY DEF Reposo, EstadoHilo, Libre

\* A thread starts a request.
LEMMA EmpiezaPreserva ==
  ASSUME CacheInv, NEW h \in Hilos, NEW pedido \in Pedido, Empieza(h, pedido),
         ~Contando(h), UNCHANGED <<cache, enTransito>>
  PROVE  CacheInv'
<1>1. [fase |-> "trabaja", pedido |-> pedido] \in EstadoHilo
  BY DEF EstadoHilo
<1>2. riesgo \subseteq riesgo' /\ riesgo' \subseteq {"cruza", "contador"}
  BY DEF Empieza, SiEso, CacheInv
<1>3. PICK s \in EstadoHilo : s = [fase |-> "trabaja", pedido |-> pedido]
  BY <1>1
<1>4. s.fase = "trabaja"
  BY <1>3
<1>5. hilo' = [hilo EXCEPT ![h] = s]
  BY <1>3 DEF Empieza
<1> QED
  BY <1>2, <1>4, <1>5, HiloPasa DEF cache, CacheInv, Forma

\* The effect of a request: it either overlaps another thread, and says so, or
\* is the only one that counts.
LEMMA HechoPreserva ==
  ASSUME CacheInv, NEW h \in Hilos, Trabaja(h), Conserva, Hecho(h),
         UNCHANGED tamanio_memoria_ocupada,
         riesgo' = riesgo \cup SiEso("cruza", OtroTrabaja(h)) \cup SiEso("contador", OtroCuenta(h))
  PROVE  CacheInv'
<1>1. /\ riesgo \subseteq riesgo' /\ riesgo' \subseteq {"cruza", "contador"}
      /\ riesgo' = {} => riesgo = {} /\ ~OtroCuenta(h)
      /\ "cruza" \notin riesgo' => "cruza" \notin riesgo
  BY DEF SiEso, CacheInv
<1>2. hilo \in [Hilos -> EstadoHilo]
  BY DEF CacheInv
<1>3. ~Contando(h)
  BY DEF Trabaja, Contando
<1>4. riesgo' = {} => \A g \in Hilos : ~Contando(g)
  BY <1>1, <1>3 DEF OtroCuenta
<1>5. riesgo' = {} => Unicas /\ Acotada /\ Exacta
  BY <1>1, <1>4, SinRiesgo
<1>6. Forma' /\ ClaveUnica'
  BY <1>1, SinRiesgo DEF Conserva, ClaveUnica, Unicas
<1>7. CapacidadAcotada'
  BY <1>5 DEF Conserva, Acotada, CapacidadAcotada
<1>8. hilo' \in [Hilos -> EstadoHilo] /\ Contabilidad' /\ Turnos'
  <2>1. ASSUME NEW d \in Int, NEW s \in Reposo, Debe(h, d, s),
               Unicas => Cardinality(paginas') = Cardinality(paginas) + d
        PROVE  hilo' \in [Hilos -> EstadoHilo] /\ Contabilidad' /\ Turnos'
    <3>1. PICK x : x = [fase |-> "cuenta", delta |-> d, sigue |-> s]
      OBVIOUS
    <3>2. x \in EstadoHilo
      BY <3>1 DEF EstadoHilo
    <3>3. x.fase = "cuenta" /\ x.delta = d /\ hilo' = [hilo EXCEPT ![h] = x]
      BY <2>1, <3>1 DEF Debe
    <3>4. hilo' \in [Hilos -> EstadoHilo] /\ hilo'[h] = x /\ \A g \in Hilos \ {h} : hilo'[g] = hilo[g]
      BY <1>2, <3>2, <3>3
    <3>5. Contando(h)' /\ (riesgo' = {} => \A g \in Hilos : Contando(g)' => g = h)
      BY <1>4, <3>3, <3>4 DEF Contando
    <3>6. Contabilidad'
      BY <1>5, <2>1, <3>3, <3>4, <3>5 DEF Contabilidad, Exacta
    <3>7. Turnos'
      BY <3>3, <3>4, <3>5 DEF Turnos, Contando
    <3> QED
      BY <3>4, <3>6, <3>7
  <2>2. ASSUME NEW s \in Reposo, hilo' = [hilo EXCEPT ![h] = s],
               Unicas => Cardinality(paginas') = Cardinality(paginas)
        PROVE  hilo' \in [Hilos -> EstadoHilo] /\ Contabilidad' /\ Turnos'
    <3>1. s \in EstadoHilo /\ s.fase \notin {"cuenta", "guarda"}
      BY Fases
    <3>2. hilo' \in [Hilos -> EstadoHilo] /\ hilo'[h] = s /\ \A g \in Hilos \ {h} : hilo'[g] = hilo[g]
      BY <1>2, <2>2, <3>1
    <3>3. riesgo' = {} => \A g \in Hilos : ~Contando(g)'
      BY <1>4, <3>1, <3>2 DEF Contando
    <3>4. Contabilidad'
      BY <1>5, <2>2, <3>3 DEF Contabilidad, Exacta
    <3>5. Turnos'
      BY <3>3 DEF Turnos, Contando
    <3> QED
      BY <3>2, <3>4, <3>5
  <2> QED
    BY <2>1, <2>2 DEF Hecho
<1> QED
  BY <1>1, <1>6, <1>7, <1>8 DEF CacheInv

\* Zeroing the entries of one table keeps a table of timestamps.
LEMMA PonerEnCero ==
  ASSUME NEW t, NEW F \in [Tablas \X Claves -> Timestamps]
  PROVE  EnCero(F, t) \in [Tablas \X Claves -> Timestamps]
BY ConstantesMemoria DEF EnCero, Timestamps

\* A write in the LFS keeps its part well formed.
LEMMA EscribirLFSTipo ==
  ASSUME RestoOK, NEW t \in Tablas, NEW k \in Claves, NEW ts \in Timestamps,
         NEW largo \in BOOLEAN, EscribirLFS(t, k, ts, largo)
  PROVE  /\ lfs' \in [Tablas \X Claves -> Timestamps]
         /\ lfs_largo' \subseteq Tablas \X Claves
<1>1. <<t, k>> \in Tablas \X Claves
  OBVIOUS
<1> QED
  BY <1>1 DEF EscribirLFS, RestoOK

\* A page built by a handler is a page, and its key is its own.
LEMMA PaginaNueva ==
  ASSUME NEW t \in Tablas, NEW k \in Claves, NEW ts \in Timestamps, NEW f \in {0, 1}
  PROVE  /\ nueva(t, k, ts, f) \in Pagina
         /\ nueva(t, k, ts, f).tabla = t
         /\ nueva(t, k, ts, f).key = k
         /\ nueva(t, k, ts, f).timestamp = ts
         /\ nueva(t, k, ts, f).flag = f
BY DEF nueva, Pagina

\* The request of a thread that works, and the pages and tables it names.
LEMMA PedidoDe ==
  ASSUME hilo \in [Hilos -> EstadoHilo], NEW h \in Hilos, Trabaja(h)
  PROVE  /\ hilo[h].pedido \in Pedido
         /\ hilo[h].pedido.op = "INSERT" => hilo[h].pedido.pagina \in Pagina
         /\ hilo[h].pedido.op \in {"CREATE", "DROP"} => hilo[h].pedido.tabla \in Tablas
<1>1. hilo[h] \in [fase: {"trabaja"}, pedido: Pedido]
  BY DEF Trabaja, EstadoHilo, Reposo, Libre
<1>2. hilo[h].pedido \in Pedido
  BY <1>1
<1> QED
  BY <1>2 DEF Pedido

\* The phases of a thread that waits for or has the answer of the LFS.
LEMMA RespuestaDe ==
  ASSUME hilo \in [Hilos -> EstadoHilo], NEW h \in Hilos
  PROVE  /\ hilo[h].fase = "espera" => hilo[h] \in [fase: {"espera"}, tabla: Tablas, key: Claves]
         /\ hilo[h].fase = "respondido" =>
              hilo[h] \in [fase: {"respondido"}, tabla: Tablas, key: Claves,
                           timestamp: Timestamps, largo: BOOLEAN]
         /\ hilo[h].fase = "lee" => hilo[h].tabla \in Tablas /\ hilo[h].key \in Claves
         /\ hilo[h].fase = "cuenta" => hilo[h] \in [fase: {"cuenta"}, delta: Int, sigue: Reposo]
         /\ hilo[h].fase = "guarda" =>
              hilo[h] \in [fase: {"guarda"}, valor: Int, delta: Int, sigue: Reposo]
BY DEF EstadoHilo, Reposo, Libre

\* Every step keeps the invariant.
LEMMA PasoPreserva == IInv /\ [Next]_vars => IInv'
<1> SUFFICES ASSUME IInv, [Next]_vars PROVE IInv'
  OBVIOUS
<1> USE ConstantesMemoria
<1>a. CacheInv /\ RestoOK
  BY PartesDeIInv
<1>b. CacheInv' /\ RestoOK' => IInv'
  BY DEF IInv, TypeOK, CacheInv, RestoOK, Forma
<1>c. Libre.fase = "libre"
  BY DEF Libre
<1>d. /\ \A u \in Tablas : [op |-> "CREATE", tabla |-> u] \in Pedido
      /\ \A u \in Tablas : [op |-> "DROP", tabla |-> u] \in Pedido
      /\ [op |-> "JOURNAL"] \in Pedido
      /\ \A p \in Pagina : [op |-> "INSERT", pagina |-> p] \in Pedido
  BY DEF Pedido
<1>e. \A h \in Hilos : hilo[h].fase \notin {"cuenta", "guarda"} => ~Contando(h)
  BY DEF Contando
<1>f. hilo \in [Hilos -> EstadoHilo] /\ Forma
  BY <1>a DEF CacheInv
<1>1. ASSUME NEW h \in Hilos, NEW t \in Tablas, NEW k \in Claves, NEW ts \in Timestamps,
             Insertar(h, t, k, ts)
      PROVE  IInv'
  <2>1. PICK p \in Pagina : p = nueva(t, k, ts, 1)
    BY PaginaNueva
  <2>2. [op |-> "INSERT", pagina |-> p] \in Pedido
    BY <1>d
  <2>3. CacheInv'
    BY <1>1, <1>a, <1>c, <1>e, <2>1, <2>2, EmpiezaPreserva DEF Insertar
  <2>4. RestoOK'
    BY <1>1, <1>a DEF Insertar, disco, historia, RestoOK
  <2> QED
    BY <1>b, <2>3, <2>4
<1>2. ASSUME NEW h \in Hilos, NEW t \in Tablas, Crear(h, t) \/ Borrar(h, t)
      PROVE  IInv'
  <2>1. CacheInv'
    BY <1>2, <1>a, <1>c, <1>d, <1>e, EmpiezaPreserva DEF Crear, Borrar
  <2>2. RestoOK'
    BY <1>2, <1>a DEF Crear, Borrar, disco, historia, RestoOK
  <2> QED
    BY <1>b, <2>1, <2>2
<1>3. ASSUME NEW h \in Hilos, Journal(h)
      PROVE  IInv'
  <2>1. CacheInv'
    BY <1>3, <1>a, <1>c, <1>d, <1>e, EmpiezaPreserva DEF Journal
  <2>2. RestoOK'
    BY <1>3, <1>a DEF Journal, disco, historia, RestoOK
  <2> QED
    BY <1>b, <2>1, <2>2
<1>4. ASSUME NEW h \in Hilos, Aplica(h)
      PROVE  IInv'
  <2>1. PICK p \in Pedido : p = hilo[h].pedido
    BY <1>4, <1>f, PedidoDe DEF Aplica
  <2>2. /\ p.op = "INSERT" => p.pagina \in Pagina
        /\ p.op \in {"CREATE", "DROP"} => p.tabla \in Tablas
    BY <2>1, <1>4, <1>f, PedidoDe DEF Aplica
  <2>3. \/ p.op = "INSERT" /\ insert(h, p.pagina)
        \/ p.op = "CREATE" /\ create(h, p.tabla)
        \/ p.op = "DROP" /\ drop(h, p.tabla)
        \/ p.op = "JOURNAL" /\ journal(h)
    BY <1>4, <2>1 DEF Aplica
  <2>4. Conserva /\ Hecho(h)
    BY <1>f, <2>2, <2>3, InsertHecho, CreateHecho, DropHecho, JournalHecho
  <2>5. CacheInv'
    BY <1>4, <1>a, <2>4, HechoPreserva DEF Aplica
  <2>6. /\ ultimo' \in [Tablas \X Claves -> Timestamps]
        /\ tiradas' \subseteq Tablas \X Claves
    <3>1. CASE p.op = "INSERT" /\ insert(h, p.pagina)
      <4>1. /\ p.pagina.tabla \in Tablas /\ p.pagina.key \in Claves
            /\ p.pagina.timestamp \in Timestamps
        BY <2>2, <3>1 DEF Pagina
      <4>2. Recuerda(p.pagina)
        BY <3>1 DEF insert
      <4> QED
        BY <1>a, <4>1, <4>2 DEF Recuerda, historia, RestoOK
    <3>2. CASE p.op = "CREATE" /\ create(h, p.tabla)
      BY <1>a, <3>2 DEF create, historia, RestoOK
    <3>3. CASE p.op = "DROP" /\ drop(h, p.tabla)
      BY <1>a, <3>3, PonerEnCero DEF drop, RestoOK
    <3>4. CASE p.op = "JOURNAL" /\ journal(h)
      BY <1>a, <3>4 DEF journal, historia, RestoOK
    <3> QED
      BY <2>3, <3>1, <3>2, <3>3, <3>4
  <2>7. RestoOK'
    BY <1>4, <1>a, <2>6 DEF Aplica, disco, RestoOK
  <2> QED
    BY <1>b, <2>5, <2>7
<1>5. ASSUME NEW h \in Hilos, SeEnredan(h)
      PROVE  IInv'
  <2>1. "cruza" \in riesgo' /\ riesgo' \subseteq {"cruza", "contador"}
    BY <1>5, <1>a DEF SeEnredan, SiEso, CacheInv
  <2>2. ClaveUnica' /\ Contabilidad' /\ CapacidadAcotada' /\ Turnos'
    BY <2>1 DEF ClaveUnica, Contabilidad, CapacidadAcotada, Turnos
  <2>3. PICK M : /\ paginas' \in SUBSET (paginas \cup M) /\ M \subseteq Pagina /\ IsFiniteSet(M)
    <3>1. PICK p \in Pedido : p = hilo[h].pedido /\ (p.op = "INSERT" => p.pagina \in Pagina)
      BY <1>5, <1>f, PedidoDe DEF SeEnredan
    <3>2. CASE p.op = "INSERT"
      <4>1. paginas' \in SUBSET (paginas \cup {p.pagina})
        BY <1>5, <3>1, <3>2 DEF SeEnredan
      <4>2. p.pagina \in Pagina /\ IsFiniteSet({p.pagina})
        BY <3>1, <3>2, FS_Singleton
      <4> QED
        BY <4>1, <4>2
    <3>3. CASE p.op # "INSERT"
      <4>1. paginas' \in SUBSET (paginas \cup {})
        BY <1>5, <3>1, <3>3 DEF SeEnredan
      <4> QED
        BY <4>1, FS_EmptySet
    <3> QED
      BY <3>2, <3>3
  <2>4. paginas' \subseteq Pagina /\ IsFiniteSet(paginas')
    <3>1. IsFiniteSet(paginas \cup M)
      BY <1>f, <2>3, FS_Union DEF Forma
    <3> QED
      BY <1>f, <2>3, <3>1, FS_Subset DEF Forma
  <2>5. segmentos' \subseteq Tablas
    <3>1. \A p \in paginas' : p.tabla \in Tablas
      BY <2>4 DEF Pagina
    <3> QED
      BY <1>5, <1>f, <3>1 DEF SeEnredan, Forma
  <2>6. Forma'
    BY <1>5, <1>f, <2>4, <2>5 DEF SeEnredan, Forma
  <2>7. hilo' \in [Hilos -> EstadoHilo]
    <3>1. PICK d \in {-1, 0, 1} : Cuenta(h, d, Libre)
      BY <1>5 DEF SeEnredan
    <3>2. [fase |-> "cuenta", delta |-> d, sigue |-> Libre] \in EstadoHilo
      BY Fases DEF EstadoHilo
    <3> QED
      BY <1>f, <3>1, <3>2 DEF Cuenta
  <2>8. CacheInv'
    BY <1>5, <1>a, <2>1, <2>2, <2>6, <2>7 DEF SeEnredan, CacheInv
  <2>9. RestoOK'
    BY <1>5, <1>a DEF SeEnredan, disco, historia, RestoOK
  <2> QED
    BY <1>b, <2>8, <2>9
<1>6. ASSUME NEW h \in Hilos, Carga(h)
      PROVE  IInv'
  <2>1. hilo[h] \in [fase: {"cuenta"}, delta: Int, sigue: Reposo]
    BY <1>6, <1>f, RespuestaDe DEF Carga
  <2>2. PICK x : x = [fase |-> "guarda", valor |-> tamanio_memoria_ocupada,
                      delta |-> hilo[h].delta, sigue |-> hilo[h].sigue]
    OBVIOUS
  <2>3. /\ x \in EstadoHilo /\ x.fase = "guarda" /\ x.valor = tamanio_memoria_ocupada
        /\ x.delta = hilo[h].delta
    BY <1>a, <2>1, <2>2 DEF EstadoHilo, CacheInv
  <2>4. hilo' = [hilo EXCEPT ![h] = x]
    BY <1>6, <2>2 DEF Carga
  <2>5. hilo' \in [Hilos -> EstadoHilo] /\ hilo'[h] = x /\ \A g \in Hilos \ {h} : hilo'[g] = hilo[g]
    BY <1>f, <2>3, <2>4
  <2>6. UNCHANGED <<segmentos, paginas, tamanio_memoria_ocupada, viva, enTransito, riesgo>>
    BY <1>6 DEF Carga, cache
  <2>7. \A g \in Hilos : Contando(g)' <=> Contando(g)
    BY <1>6, <2>3, <2>5 DEF Contando, Carga
  <2>8. Contabilidad'
    BY <1>a, <2>3, <2>5, <2>6, <2>7 DEF CacheInv, Contabilidad
  <2>9. Turnos'
    BY <1>a, <2>3, <2>5, <2>6, <2>7 DEF CacheInv, Turnos
  <2>10. CacheInv'
    BY <1>a, <2>5, <2>6, <2>8, <2>9 DEF CacheInv, Forma, ClaveUnica, CapacidadAcotada
  <2>11. RestoOK'
    BY <1>6, <1>a DEF Carga, disco, historia, RestoOK
  <2> QED
    BY <1>b, <2>10, <2>11
<1>7. ASSUME NEW h \in Hilos, Guarda(h)
      PROVE  IInv'
  <2>1. hilo[h] \in [fase: {"guarda"}, valor: Int, delta: Int, sigue: Reposo]
    BY <1>7, <1>f, RespuestaDe DEF Guarda
  <2>2. PICK s \in Reposo : s = hilo[h].sigue
    BY <2>1
  <2>3. s \in EstadoHilo /\ s.fase \notin {"cuenta", "guarda"}
    BY Fases
  <2>4. hilo' = [hilo EXCEPT ![h] = s]
    BY <1>7, <2>2 DEF Guarda, Pasa
  <2>5. hilo' \in [Hilos -> EstadoHilo] /\ hilo'[h] = s /\ \A g \in Hilos \ {h} : hilo'[g] = hilo[g]
    BY <1>f, <2>3, <2>4
  <2>6. /\ UNCHANGED <<segmentos, paginas, viva, enTransito, riesgo>>
        /\ tamanio_memoria_ocupada' = hilo[h].valor + hilo[h].delta
        /\ tamanio_memoria_ocupada' \in Int
    BY <1>7, <2>1 DEF Guarda
  <2>7. riesgo = {} => \A g \in Hilos : ~Contando(g)'
    BY <1>7, <1>a, <2>3, <2>5 DEF CacheInv, Turnos, Contando, Guarda
  <2>8. riesgo = {} => tamanio_memoria_ocupada' = Cardinality(paginas)
    BY <1>7, <1>a, <2>6 DEF CacheInv, Turnos, Contando, Guarda, Contabilidad
  <2>9. Contabilidad'
    BY <2>6, <2>7, <2>8 DEF Contabilidad
  <2>10. Turnos'
    BY <2>6, <2>7 DEF Turnos, Contando
  <2>11. CacheInv'
    BY <1>a, <2>5, <2>6, <2>9, <2>10 DEF CacheInv, Forma, ClaveUnica, CapacidadAcotada
  <2>12. RestoOK'
    BY <1>7, <1>a DEF Guarda, disco, historia, RestoOK
  <2> QED
    BY <1>b, <2>11, <2>12
<1>8. ASSUME NEW h \in Hilos, NEW t \in Tablas, NEW k \in Claves,
             SelectAcierto(h, t, k) \/ SelectFallo(h, t, k)
      PROVE  IInv'
  <2>1. PICK s \in EstadoHilo : s.fase \in {"lee", "espera"} /\ hilo' = [hilo EXCEPT ![h] = s]
    <3>1. Lee(t, k, FALSE) \in EstadoHilo /\ Lee(t, k, FALSE).fase = "lee"
      BY DEF Lee, EstadoHilo, Reposo
    <3>2. [fase |-> "espera", tabla |-> t, key |-> k] \in EstadoHilo
      BY DEF EstadoHilo
    <3> QED
      BY <1>8, <3>1, <3>2 DEF SelectAcierto, SelectFallo, Pasa
  <2>2. CacheInv'
    BY <1>8, <1>a, <1>c, <1>e, <2>1, HiloPasa DEF SelectAcierto, SelectFallo, cache, CacheInv, Forma
  <2>3. RestoOK'
    BY <1>8, <1>a DEF SelectAcierto, SelectFallo, disco, historia, RestoOK
  <2> QED
    BY <1>b, <2>2, <2>3
<1>9. ASSUME NEW h \in Hilos, LeeMientrasCambia(h) \/ \E t \in Tablas, k \in Claves : SelectSinLFS(h, t, k)
      PROVE  IInv'
  <2>1. CacheInv'
    BY <1>9, <1>a, CacheQuieta DEF SelectSinLFS, LeeMientrasCambia, CacheInv, Forma
  <2>2. RestoOK'
    BY <1>9, <1>a DEF SelectSinLFS, LeeMientrasCambia, disco, historia, RestoOK
  <2> QED
    BY <1>b, <2>1, <2>2
<1>10. ASSUME NEW h \in Hilos, LFSResponde(h)
      PROVE  IInv'
  <2>1. hilo[h] \in [fase: {"espera"}, tabla: Tablas, key: Claves]
    BY <1>10, <1>f, RespuestaDe DEF LFSResponde
  <2>2. PICK t \in Tablas, k \in Claves : t = hilo[h].tabla /\ k = hilo[h].key
    BY <2>1
  <2>3. PICK r : r = [fase |-> "respondido", tabla |-> t, key |-> k,
                   timestamp |-> IF t \in lfs_tablas THEN lfs[<<t, k>>] ELSE 0,
                   largo |-> t \in lfs_tablas /\ <<t, k>> \in lfs_largo]
    OBVIOUS
  <2>4. /\ (IF t \in lfs_tablas THEN lfs[<<t, k>>] ELSE 0) \in Timestamps
        /\ (t \in lfs_tablas /\ <<t, k>> \in lfs_largo) \in BOOLEAN
    BY <1>a DEF RestoOK, Timestamps
  <2>5. hilo' = [hilo EXCEPT ![h] = r]
    BY <1>10, <2>2, <2>3 DEF LFSResponde
  <2>6. r \in EstadoHilo /\ r.fase = "respondido"
    BY <2>3, <2>4 DEF EstadoHilo
  <2>7. CacheInv'
    BY <1>10, <1>a, <1>e, <2>5, <2>6, HiloPasa DEF LFSResponde, cache, CacheInv, Forma
  <2>8. RestoOK'
    BY <1>10, <1>a DEF LFSResponde, disco, historia, RestoOK
  <2> QED
    BY <1>b, <2>7, <2>8
<1>11. ASSUME NEW h \in Hilos, SelectCompleta(h)
      PROVE  IInv'
  <2>1. hilo[h] \in [fase: {"respondido"}, tabla: Tablas, key: Claves,
                     timestamp: Timestamps, largo: BOOLEAN]
    BY <1>11, <1>f, RespuestaDe DEF SelectCompleta
  <2>2. PICK t \in Tablas, k \in Claves, ts \in Timestamps :
          t = hilo[h].tabla /\ k = hilo[h].key /\ ts = hilo[h].timestamp
    BY <2>1
  <2>3. ~Contando(h) /\ UNCHANGED <<cache, enTransito>>
    BY <1>11, <1>e DEF SelectCompleta
  <2>4. RestoOK'
    BY <1>11, <1>a DEF SelectCompleta, disco, historia, RestoOK
  <2>5. CASE (Pasa(h, Libre) \/ Pasa(h, Lee(t, k, TRUE))) /\ UNCHANGED riesgo
    <3>1. PICK s \in EstadoHilo : s.fase \in {"libre", "lee"} /\ hilo' = [hilo EXCEPT ![h] = s]
      <4>1. Lee(t, k, TRUE) \in EstadoHilo /\ Lee(t, k, TRUE).fase = "lee"
        BY DEF Lee, EstadoHilo, Reposo
      <4> QED
        BY <1>c, <2>5, <4>1, Fases DEF Pasa
    <3>2. CacheInv'
      BY <1>a, <2>3, <2>5, <3>1, HiloPasa DEF cache, CacheInv, Forma
    <3> QED
      BY <1>b, <2>4, <3>2
  <2>6. CASE Empieza(h, [op |-> "INSERT", pagina |-> nueva(t, k, ts, 0)])
    <3>1. nueva(t, k, ts, 0) \in Pagina
      BY PaginaNueva
    <3>2. [op |-> "INSERT", pagina |-> nueva(t, k, ts, 0)] \in Pedido
      BY <1>d, <3>1
    <3>3. CacheInv'
      BY <1>a, <2>3, <2>6, <3>2, EmpiezaPreserva
    <3> QED
      BY <1>b, <2>4, <3>3
  <2> QED
    BY <1>11, <2>2, <2>5, <2>6 DEF SelectCompleta
<1>12. ASSUME NEW h \in Hilos, Responde(h)
      PROVE  IInv'
  <2>1. Libre \in EstadoHilo
    BY Fases
  <2>2. viva' \in BOOLEAN
    BY <1>12, <1>f, RespuestaDe DEF Responde, existe_pagina, existe_tabla_paginas, EstadoHilo, Reposo
  <2>3. CacheInv'
    BY <1>12, <1>a, <1>c, <1>e, <2>1, <2>2, HiloPasa DEF Responde, Pasa, CacheInv
  <2>4. RestoOK'
    BY <1>12, <1>a DEF Responde, disco, historia, RestoOK
  <2> QED
    BY <1>b, <2>3, <2>4
<1>13. CASE Reiniciar
  <2>1. /\ IsFiniteSet({}) /\ Cardinality({}) = 0
        /\ IsFiniteSet(TablasDe({})) /\ Cardinality(TablasDe({})) \in Nat
    BY FS_EmptySet, TablasFinitas
  <2>2. hilo' \in [Hilos -> EstadoHilo] /\ \A h \in Hilos : hilo'[h].fase = "libre"
    BY <1>13, <1>c, Fases DEF Reiniciar
  <2>3. Forma' /\ ClaveUnica' /\ CapacidadAcotada'
    BY <1>13, <1>a, <2>1 DEF Reiniciar, CacheInv, Forma, ClaveUnica, CapacidadAcotada
  <2>4. Contabilidad' /\ Turnos'
    BY <1>13, <2>1, <2>2 DEF Reiniciar, Contabilidad, Turnos, Contando
  <2>5. CacheInv'
    BY <1>13, <2>2, <2>3, <2>4 DEF Reiniciar, CacheInv
  <2>6. ultimo' \in [Tablas \X Claves -> Timestamps]
    BY <1>13 DEF Reiniciar, Timestamps
  <2>7. RestoOK'
    BY <1>13, <1>a, <2>6 DEF Reiniciar, disco, RestoOK
  <2> QED
    BY <1>b, <2>5, <2>7
<1>14. ASSUME NEW m \in enTransito, LFSEjecuta(m)
       PROVE  IInv'
  <2>1. CacheInv'
    BY <1>14, <1>a, CacheQuieta DEF LFSEjecuta, cache, CacheInv, Forma
  <2>2. m \in Mensaje /\ m.tabla \in Tablas
    BY <1>f DEF Forma, Mensaje
  <2>3. CASE m.op = "INSERT" /\ EscribirLFS(m.tabla, m.key, m.timestamp, FALSE)
                /\ UNCHANGED lfs_tablas
    <3>1. m.key \in Claves /\ m.timestamp \in Timestamps
      BY <2>2, <2>3 DEF Mensaje
    <3>2. /\ lfs' \in [Tablas \X Claves -> Timestamps]
          /\ lfs_largo' \subseteq Tablas \X Claves
      BY <1>a, <2>2, <2>3, <3>1, EscribirLFSTipo
    <3>3. tiradas' \subseteq Tablas \X Claves
      BY <1>14, <1>a, <2>2, <2>3, <3>1 DEF LFSEjecuta, RestoOK
    <3>4. RestoOK'
      BY <1>14, <1>a, <2>3, <3>2, <3>3 DEF LFSEjecuta, RestoOK
    <3> QED
      BY <1>b, <2>1, <3>4
  <2>4. CASE /\ m.op = "CREATE" /\ lfs_tablas' = lfs_tablas \cup {m.tabla}
             /\ UNCHANGED <<lfs, lfs_largo, tiradas>>
    <3>1. RestoOK'
      BY <1>14, <1>a, <2>2, <2>4 DEF LFSEjecuta, RestoOK
    <3> QED
      BY <1>b, <2>1, <3>1
  <2>5. CASE /\ m.op = "DROP" /\ lfs_tablas' = lfs_tablas \ {m.tabla}
             /\ VaciarTabla(m.tabla)
    <3>1. lfs' \in [Tablas \X Claves -> Timestamps]
      BY <1>a, <2>5, PonerEnCero DEF VaciarTabla, RestoOK
    <3>2. tiradas' \subseteq Tablas \X Claves
      BY <1>14, <1>a, <2>5 DEF LFSEjecuta, RestoOK
    <3>3. RestoOK'
      BY <1>14, <1>a, <2>5, <3>1, <3>2 DEF LFSEjecuta, VaciarTabla, RestoOK
    <3> QED
      BY <1>b, <2>1, <3>3
  <2> QED
    BY <1>14, <2>3, <2>4, <2>5 DEF LFSEjecuta
<1>15. ASSUME NEW t \in Tablas, NEW k \in Claves, NEW ts \in Timestamps,
              NEW largo \in BOOLEAN, OtroEscribe(t, k, ts, largo)
       PROVE  IInv'
  <2>1. CacheInv'
    BY <1>15, <1>a, CacheQuieta DEF OtroEscribe, cache, CacheInv, Forma
  <2>2. /\ lfs' \in [Tablas \X Claves -> Timestamps]
        /\ lfs_largo' \subseteq Tablas \X Claves
    BY <1>15, <1>a, EscribirLFSTipo DEF OtroEscribe
  <2>3. RestoOK'
    BY <1>15, <1>a, <2>2 DEF OtroEscribe, historia, RestoOK
  <2> QED
    BY <1>b, <2>1, <2>3
<1>16. CASE CambiaLFS
  <2>1. CacheInv'
    BY <1>16, <1>a, CacheQuieta DEF CambiaLFS, cache, CacheInv, Forma
  <2>2. RestoOK'
    BY <1>16, <1>a DEF CambiaLFS, historia, RestoOK
  <2> QED
    BY <1>b, <2>1, <2>2
<1>17. CASE UNCHANGED vars
  <2>1. CacheInv'
    BY <1>17, <1>a, CacheQuieta DEF vars, CacheInv, Forma
  <2>2. RestoOK'
    BY <1>17, <1>a DEF vars, RestoOK
  <2> QED
    BY <1>b, <2>1, <2>2
<1> QED
  BY <1>1, <1>2, <1>3, <1>4, <1>5, <1>6, <1>7, <1>8, <1>9, <1>10, <1>11, <1>12, <1>13,
     <1>14, <1>15, <1>16, <1>17
  DEF Next

\* The empty cache satisfies the invariant.
LEMMA InicioCumple == Init => IInv
<1> SUFFICES ASSUME Init PROVE IInv
  OBVIOUS
<1>1. /\ IsFiniteSet({}) /\ Cardinality({}) = 0
      /\ IsFiniteSet(TablasDe({})) /\ Cardinality(TablasDe({})) \in Nat
  BY FS_EmptySet, TablasFinitas
<1>2. hilo \in [Hilos -> EstadoHilo] /\ \A h \in Hilos : hilo[h].fase = "libre"
  BY Fases DEF Init, Libre
<1>3. Forma /\ ClaveUnica /\ CapacidadAcotada
  BY <1>1, ConstantesMemoria DEF Init, Forma, ClaveUnica, CapacidadAcotada
<1>4. Contabilidad /\ Turnos
  BY <1>1, <1>2 DEF Init, Contabilidad, Turnos, Contando
<1>5. CacheInv
  BY <1>2, <1>3, <1>4 DEF Init, CacheInv
<1>6. RestoOK
  BY ConstantesMemoria DEF Init, RestoOK, Timestamps
<1> QED
  BY <1>5, <1>6, PartesDeIInv

LEMMA Invariante == Spec => []IInv
BY InicioCumple, PasoPreserva, PTL DEF Spec

-----------------------------------------------------------------------------
\* Type correctness: no request makes a malformed page, message or answer,
\* whatever overlaps.
THEOREM TipoCorrecto == Spec => []TypeOK
<1>1. IInv => TypeOK
  BY DEF IInv
<1> QED
  BY <1>1, Invariante, PTL

\* Until two threads overlap, tamanio_memoria_ocupada counts the pages,
\* whatever requests were run, but for what a thread has still to store.
THEOREM ContabilidadExacta == Spec => []Contabilidad
<1>1. IInv => Contabilidad
  BY DEF IInv
<1> QED
  BY <1>1, Invariante, PTL

\* Until two threads overlap on the lists, a key of a table is cached at most
\* once, for any number of threads that take turns or only read.
THEOREM UnaPaginaPorClave == Spec => []ClaveUnica
<1>1. IInv => ClaveUnica
  BY DEF IInv
<1> QED
  BY <1>1, Invariante, PTL

\* Until two threads overlap, the cache exceeds its maximum by less than the
\* number of tables with pages.
THEOREM ExcesoAcotado == Spec => []CapacidadAcotada
<1>1. IInv => CapacidadAcotada
  BY DEF IInv
<1> QED
  BY <1>1, Invariante, PTL

-----------------------------------------------------------------------------
(* Where a modified page may go.                                           *)

\* insert loses a modified page only to its own key, the LFS or a tie.
LEMMA InsertJustificado ==
  ASSUME NEW h, NEW p, insert(h, p)
  PROVE  PerdidaJustificada
<1> SUFFICES ASSUME NEW m \in paginas_modificadas, m \notin paginas'
             PROVE  \/ InsertDe(m) \in enTransito' \/ ~lfs_arriba
                    \/ \E q \in paginas' : q.tabla = m.tabla /\ q.key = m.key
                    \/ \E q \in paginas : q.tabla = m.tabla /\ q.flag = 0
                                            /\ q.timestamp = m.timestamp
  BY DEF PerdidaJustificada
<1>m. m \in paginas
  BY DEF paginas_modificadas
<1>1. CASE remplazo_especifico(h, p)
  <2>1. PICK v \in PaginasConClave(p.tabla, p.key) : paginas' = (paginas \ {v}) \cup {p}
    BY <1>1 DEF remplazo_especifico
  <2>2. m = v /\ p \in paginas'
    BY <1>m, <2>1
  <2>3. m.tabla = p.tabla /\ m.key = p.key
    BY <2>1, <2>2 DEF PaginasConClave, PaginasDe
  <2> QED
    BY <2>2, <2>3
<1>2. CASE agregar_pagina(h, p)
  BY <1>2, <1>m DEF agregar_pagina
<1>3. CASE reemplazar_pagina(h, p)
  <2>1. PICK v \in Reemplazables(p.tabla) : paginas' = (paginas \ {v}) \cup {p}
    BY <1>3 DEF reemplazar_pagina
  <2>2. m = v
    BY <1>m, <2>1
  <2> QED
    BY <2>1, <2>2 DEF Reemplazables, paginas_sin_modificar, PaginasDe
<1>4. CASE journal_y_agregar(h, p)
  BY <1>4 DEF journal_y_agregar, Enviar, MensajesJournal
<1>5. CASE muere_sin_segmento(h, p)
  BY <1>5, <1>m DEF muere_sin_segmento
<1> QED
  BY <1>1, <1>2, <1>3, <1>4, <1>5 DEF insert

\* Every step of the memory that does not overlap loses modified pages only in
\* the ways listed.
LEMMA PasoJustificado == [Next]_vars => [("cruza" \notin riesgo') => PerdidaJustificada]_vars
<1> SUFFICES ASSUME Next, "cruza" \notin riesgo' PROVE PerdidaJustificada
  BY DEF vars
<1>b. paginas' = paginas => PerdidaJustificada
  BY DEF PerdidaJustificada, paginas_modificadas
<1>1. ASSUME NEW h \in Hilos, NEW t \in Tablas,
             \/ Crear(h, t) \/ Borrar(h, t)
             \/ \E k \in Claves, ts \in Timestamps : Insertar(h, t, k, ts)
             \/ \E k \in Claves : SelectAcierto(h, t, k) \/ SelectFallo(h, t, k) \/ SelectSinLFS(h, t, k)
      PROVE  PerdidaJustificada
  BY <1>1, <1>b DEF Crear, Borrar, Insertar, SelectAcierto, SelectFallo, SelectSinLFS, cache
<1>2. ASSUME NEW h \in Hilos,
             \/ Journal(h) \/ Carga(h) \/ Guarda(h) \/ LFSResponde(h)
             \/ SelectCompleta(h) \/ Responde(h) \/ LeeMientrasCambia(h)
      PROVE  PerdidaJustificada
  BY <1>2, <1>b DEF Journal, Carga, Guarda, LFSResponde, SelectCompleta, Responde,
                    LeeMientrasCambia, cache
<1>3. ASSUME NEW h \in Hilos, Aplica(h)
      PROVE  PerdidaJustificada
  <2>1. PICK p : p = hilo[h].pedido
    OBVIOUS
  <2>2. CASE insert(h, p.pagina)
    BY <2>2, InsertJustificado
  <2>3. CASE create(h, p.tabla)
    BY <2>3, <1>b DEF create
  <2>4. CASE drop(h, p.tabla)
    BY <2>4 DEF drop, PerdidaJustificada, paginas_modificadas, PaginasDe
  <2>5. CASE journal(h)
    BY <2>5 DEF journal, PerdidaJustificada, PaginasTrasJournal, Enviar, MensajesJournal
  <2> QED
    BY <1>3, <2>1, <2>2, <2>3, <2>4, <2>5 DEF Aplica
<1>4. ASSUME NEW h \in Hilos, SeEnredan(h)
      PROVE  PerdidaJustificada
  BY <1>4 DEF SeEnredan
<1>5. CASE Reiniciar
  BY <1>5 DEF Reiniciar, PerdidaJustificada
<1>6. ASSUME NEW m \in enTransito, LFSEjecuta(m)
      PROVE  PerdidaJustificada
  BY <1>6, <1>b DEF LFSEjecuta, cache
<1>7. ASSUME NEW t \in Tablas, NEW k \in Claves, NEW ts \in Timestamps,
              NEW largo \in BOOLEAN, OtroEscribe(t, k, ts, largo)
       PROVE  PerdidaJustificada
  BY <1>7, <1>b DEF OtroEscribe, cache
<1>8. CASE CambiaLFS
  BY <1>8, <1>b DEF CambiaLFS, cache
<1> QED
  BY <1>1, <1>2, <1>3, <1>4, <1>5, <1>6, <1>7, <1>8 DEF Next

\* Until two threads overlap on the lists, a modified page is never lost except
\* to its own key, to a journal, to the drop of its table, or to an eviction
\* that takes it for an unmodified page with the same timestamp.
THEOREM PerdidaSoloPorEmpate == Spec => SoloPierdePorEmpate
BY PasoJustificado, PTL DEF Spec, SoloPierdePorEmpate

-----------------------------------------------------------------------------
(* A write that was accepted is lost only by the LFS, with one thread, a   *)
(* strict clock and a reachable LFS.  No two keys ever carry the same      *)
(* timestamp (Sellos), so the page that leaves the cache for another is    *)
(* one that was not modified; and the key whose answer a thread waits for  *)
(* or is about to cache has no page (Esperando), so the answer of the LFS  *)
(* replaces no write.                                                      *)

UnHilo == RelojEstricto /\ ~LFSPuedeCaer /\ \A g, h \in Hilos : g = h

\* Thread h carries a record of key k of table t with timestamp s.
Lleva(h, t, k, s) ==
  \/ /\ hilo[h].fase = "respondido" /\ hilo[h].timestamp = s
     /\ hilo[h].tabla = t /\ hilo[h].key = k
  \/ /\ hilo[h].fase = "trabaja" /\ hilo[h].pedido.op = "INSERT"
     /\ hilo[h].pedido.pagina.timestamp = s
     /\ hilo[h].pedido.pagina.tabla = t /\ hilo[h].pedido.pagina.key = k

\* Thread h waits for the record of key k of table t, or is about to cache it.
Espera(h, t, k) ==
  \/ /\ hilo[h].fase \in {"espera", "respondido"}
     /\ hilo[h].tabla = t /\ hilo[h].key = k
  \/ /\ hilo[h].fase = "trabaja" /\ hilo[h].pedido.op = "INSERT"
     /\ hilo[h].pedido.pagina.flag = 0
     /\ hilo[h].pedido.pagina.tabla = t /\ hilo[h].pedido.pagina.key = k

\* Timestamp s is that of a record of key k of table t, wherever it is.
Sello(t, k, s) ==
  \/ \E p \in paginas : p.tabla = t /\ p.key = k /\ p.timestamp = s
  \/ lfs[<<t, k>>] = s
  \/ \E m \in enTransito : m.op = "INSERT" /\ m.tabla = t /\ m.key = k /\ m.timestamp = s
  \/ \E h \in Hilos : Lleva(h, t, k, s)

Sellos ==
  /\ \A t \in Tablas, k \in Claves, s \in Timestamps : s # 0 /\ Sello(t, k, s) => s <= reloj
  /\ \A t, u \in Tablas, k, j \in Claves, s \in Timestamps :
       s # 0 /\ Sello(t, k, s) /\ Sello(u, j, s) => t = u /\ k = j
Esperando ==
  \A h \in Hilos, t \in Tablas, k \in Claves : Espera(h, t, k) => PaginasConClave(t, k) = {}
ConSello ==
  /\ \A p \in paginas : p.timestamp # 0
  /\ \A h \in Hilos, t \in Tablas, k \in Claves : Trabaja(h) => ~Lleva(h, t, k, 0)
Recordado == \A t \in Tablas, k \in Claves : ultimo[<<t, k>>] <= reloj
Guardada(t, k) ==
  \/ ultimo[<<t, k>>] = 0
  \/ <<t, k>> \in tiradas
  \/ lfs[<<t, k>>] >= ultimo[<<t, k>>]
  \/ \E m \in enTransito : m.op = "INSERT" /\ m.tabla = t /\ m.key = k
                             /\ m.timestamp >= ultimo[<<t, k>>]
  \/ \E p \in PaginasConClave(t, k) : p.flag = 1 /\ p.timestamp >= ultimo[<<t, k>>]
Guardadas == \A t \in Tablas, k \in Claves : Guardada(t, k)

InvEscritura ==
  /\ IInv /\ lfs_arriba /\ riesgo = {}
  /\ Sellos /\ Esperando /\ ConSello /\ Recordado
  /\ viva => Guardadas

-----------------------------------------------------------------------------
(* Timestamps.                                                              *)

LEMMA Relojes ==
  ASSUME IInv
  PROVE  /\ reloj \in Nat /\ Timestamps \subseteq Nat /\ 0 \in Timestamps
         /\ \A t \in Tablas, k \in Claves : lfs[<<t, k>>] \in Timestamps /\ ultimo[<<t, k>>] \in Timestamps
         /\ \A p \in paginas : p \in Pagina /\ p.tabla \in Tablas /\ p.key \in Claves /\ p.timestamp \in Timestamps
  BY ConstantesMemoria DEF IInv, TypeOK, Timestamps, Pagina

\* No record appears with a timestamp that was another's.
LEMMA SellosIgual ==
  ASSUME IInv, IInv', Sellos, reloj <= reloj',
         \A t \in Tablas, k \in Claves, s \in Timestamps : s # 0 /\ Sello(t, k, s)' => Sello(t, k, s)
  PROVE  Sellos'
<1>1. ASSUME NEW t \in Tablas, NEW k \in Claves, NEW s \in Timestamps, s # 0, Sello(t, k, s)'
      PROVE  s <= reloj'
  <2>1. s <= reloj
    BY <1>1 DEF Sellos
  <2>2. reloj \in Nat /\ reloj' \in Nat /\ s \in Nat
    BY Relojes DEF IInv, TypeOK
  <2> QED
    BY <2>1, <2>2
<1>2. ASSUME NEW t \in Tablas, NEW u \in Tablas, NEW k \in Claves, NEW j \in Claves, NEW s \in Timestamps,
             s # 0, Sello(t, k, s)', Sello(u, j, s)'
      PROVE  t = u /\ k = j
  BY <1>2 DEF Sellos
<1> QED
  BY <1>1, <1>2 DEF Sellos

\* Or it is that of a new write, that nobody had.
LEMMA SellosNuevo ==
  ASSUME IInv, Sellos, reloj' = reloj + 1, NEW a, NEW b,
         \A t \in Tablas, k \in Claves, s \in Timestamps :
           s # 0 /\ Sello(t, k, s)' => Sello(t, k, s) \/ (t = a /\ k = b /\ s = reloj + 1)
  PROVE  Sellos'
<1>1. reloj \in Nat /\ Timestamps \subseteq Nat
  BY Relojes
<1>2. ASSUME NEW t \in Tablas, NEW k \in Claves, NEW s \in Timestamps, s # 0, Sello(t, k, s)'
      PROVE  s <= reloj'
  <2>1. s <= reloj \/ s = reloj + 1
    BY <1>2 DEF Sellos
  <2> QED
    BY <1>1, <2>1
<1>3. ASSUME NEW t \in Tablas, NEW u \in Tablas, NEW k \in Claves, NEW j \in Claves, NEW s \in Timestamps,
             s # 0, Sello(t, k, s)', Sello(u, j, s)'
      PROVE  t = u /\ k = j
  <2>1. CASE s = reloj + 1
    <3>1. ~(s <= reloj)
      BY <1>1, <2>1
    <3>2. ~Sello(t, k, s) /\ ~Sello(u, j, s)
      BY <1>3, <3>1 DEF Sellos
    <3> QED
      BY <1>3, <3>2
  <2>2. CASE s # reloj + 1
    BY <1>3, <2>2 DEF Sellos
  <2> QED
    BY <2>1, <2>2
<1> QED
  BY <1>2, <1>3 DEF Sellos

-----------------------------------------------------------------------------
(* What insert does to the pages and to the messages.                      *)

\* The page that is replaced is not modified: one of its timestamp is of its key.
LEMMA SinEmpate ==
  ASSUME IInv, riesgo = {}, Sellos, ConSello, NEW t \in Tablas, NEW v \in Reemplazables(t)
  PROVE  v \in paginas /\ v.flag = 0
<1>1. PICK m \in paginas : m.tabla = t /\ m.flag = 0 /\ v.timestamp = m.timestamp
  BY DEF Reemplazables, paginas_sin_modificar, PaginasDe
<1>2. v \in paginas /\ v.tabla = t
  BY DEF Reemplazables, PaginasDe
<1>3. Sello(t, v.key, v.timestamp) /\ Sello(t, m.key, v.timestamp)
  BY <1>1, <1>2 DEF Sello
<1>4. v.key \in Claves /\ m.key \in Claves /\ v.timestamp \in Timestamps /\ v.timestamp # 0
  BY <1>1, <1>2, Relojes DEF ConSello
<1>5. v.key = m.key
  BY <1>3, <1>4 DEF Sellos
<1> QED
  BY <1>1, <1>2, <1>5 DEF IInv, ClaveUnica

LEMMA InsertHace ==
  ASSUME IInv, riesgo = {}, Sellos, ConSello, lfs_arriba, NEW h \in Hilos, NEW n \in Pagina,
         insert(h, n)
  PROVE  /\ \A p \in paginas' : p \in paginas \/ p = n
         /\ \A m \in enTransito' : m \in enTransito \/ \E p \in paginas : m = InsertDe(p)
         /\ enTransito \subseteq enTransito'
         /\ viva' /\ viva => n \in paginas'
         /\ viva' => viva
         /\ \A p \in paginas : p.flag = 1 /\ ~(p.tabla = n.tabla /\ p.key = n.key)
              => p \in paginas' \/ InsertDe(p) \in enTransito'
<1>0. n.tabla \in Tablas
  BY DEF Pagina
<1>1. CASE remplazo_especifico(h, n)
  <2>1. PICK v \in PaginasConClave(n.tabla, n.key) : paginas' = (paginas \ {v}) \cup {n}
    BY <1>1 DEF remplazo_especifico
  <2>2. v.tabla = n.tabla /\ v.key = n.key /\ UNCHANGED <<viva, enTransito>>
    BY <1>1 DEF PaginasConClave, PaginasDe, remplazo_especifico
  <2> QED
    BY <2>1, <2>2
<1>2. CASE agregar_pagina(h, n)
  BY <1>2 DEF agregar_pagina
<1>3. CASE reemplazar_pagina(h, n)
  <2>1. PICK v \in Reemplazables(n.tabla) : paginas' = (paginas \ {v}) \cup {n}
    BY <1>3 DEF reemplazar_pagina
  <2>2. v.flag = 0 /\ UNCHANGED <<viva, enTransito>>
    BY <1>0, <1>3, SinEmpate DEF reemplazar_pagina
  <2> QED
    BY <2>1, <2>2
<1>4. CASE journal_y_agregar(h, n)
  <2>1. /\ paginas' = (paginas \ paginas_modificadas) \cup {n} /\ UNCHANGED viva
        /\ enTransito' = enTransito \cup {InsertDe(p) : p \in paginas_modificadas}
    BY <1>4 DEF journal_y_agregar, PaginasTrasJournal, Enviar, MensajesJournal
  <2>2. paginas_modificadas = {p \in paginas : p.flag = 1}
    BY DEF paginas_modificadas
  <2> QED
    BY <2>1, <2>2
<1>5. CASE muere_sin_segmento(h, n)
  BY <1>5 DEF muere_sin_segmento
<1> QED
  BY <1>1, <1>2, <1>3, <1>4, <1>5 DEF insert

\* A write that is in a page, on its way or in the LFS stays in one of the three.
LEMMA GuardadaSigue ==
  ASSUME IInv, NEW t \in Tablas, NEW k \in Claves, Guardada(t, k),
         lfs'[<<t, k>>] = lfs[<<t, k>>], ultimo'[<<t, k>>] = ultimo[<<t, k>>],
         <<t, k>> \in tiradas => <<t, k>> \in tiradas',
         enTransito \subseteq enTransito',
         \A p \in PaginasConClave(t, k) : p.flag = 1 => p \in paginas' \/ InsertDe(p) \in enTransito'
  PROVE  Guardada(t, k)'
<1>1. CASE \E p \in PaginasConClave(t, k) : p.flag = 1 /\ p.timestamp >= ultimo[<<t, k>>]
  <2>1. PICK p \in PaginasConClave(t, k) : p.flag = 1 /\ p.timestamp >= ultimo[<<t, k>>]
    BY <1>1
  <2>2. p.tabla = t /\ p.key = k
    BY DEF PaginasConClave, PaginasDe
  <2>3. CASE p \in paginas'
    BY <2>1, <2>2, <2>3 DEF Guardada, PaginasConClave, PaginasDe
  <2>4. CASE InsertDe(p) \in enTransito'
    <3>1. /\ InsertDe(p).op = "INSERT" /\ InsertDe(p).tabla = t /\ InsertDe(p).key = k
          /\ InsertDe(p).timestamp = p.timestamp
      BY <2>2 DEF InsertDe
    <3> QED
      BY <2>1, <2>4, <3>1 DEF Guardada
  <2> QED
    BY <2>1, <2>3, <2>4
<1>2. CASE ~\E p \in PaginasConClave(t, k) : p.flag = 1 /\ p.timestamp >= ultimo[<<t, k>>]
  BY <1>2 DEF Guardada
<1> QED
  BY <1>1, <1>2

-----------------------------------------------------------------------------
(* The inductive step.                                                      *)

\* What the state before and after a step offers.
Escrito == UnHilo /\ InvEscritura /\ IInv'

\* With one thread nothing overlaps.
LEMMA SinOtro ==
  ASSUME Escrito, NEW h \in Hilos
  PROVE  ~OtroTrabaja(h) /\ ~OtroCuenta(h)
BY DEF Escrito, UnHilo, OtroTrabaja, OtroCuenta

\* Steps in which a thread goes on and nothing else happens, but for a death.
LEMMA EscrituraHilo ==
  ASSUME Escrito, UNCHANGED <<paginas, disco, enTransito, reloj, historia, riesgo>>,
         viva' => viva,
         \A g \in Hilos, t \in Tablas, k \in Claves, s \in Timestamps :
           s # 0 /\ Lleva(g, t, k, s)' => Sello(t, k, s),
         \A g \in Hilos, t \in Tablas, k \in Claves :
           Espera(g, t, k)' => PaginasConClave(t, k) = {},
         \A g \in Hilos, t \in Tablas, k \in Claves : Trabaja(g)' => ~Lleva(g, t, k, 0)'
  PROVE  InvEscritura'
<1>1. /\ IInv /\ Sellos /\ ConSello /\ Recordado /\ lfs_arriba /\ riesgo = {}
      /\ reloj \in Nat /\ (viva => Guardadas)
  BY Relojes DEF Escrito, InvEscritura
<1>2. ASSUME NEW u \in Tablas, NEW j \in Claves, NEW s \in Timestamps, s # 0, Sello(u, j, s)'
      PROVE  Sello(u, j, s)
  BY <1>2 DEF Sello, disco
<1>3. Sellos'
  BY <1>1, <1>2, SellosIgual DEF Escrito
<1>4. Esperando' /\ ConSello'
  BY <1>1 DEF Esperando, ConSello, PaginasConClave, PaginasDe
<1>5. \A u, j : Guardada(u, j) => Guardada(u, j)'
  BY DEF Guardada, disco, historia, PaginasConClave, PaginasDe
<1> QED
  BY <1>1, <1>3, <1>4, <1>5 DEF InvEscritura, Escrito, Recordado, Guardadas, disco, historia

\* A thread goes to a phase in which it carries and waits for nothing.
LEMMA EscrituraPasa ==
  ASSUME Escrito, UNCHANGED <<paginas, disco, enTransito, reloj, historia, riesgo>>,
         viva' => viva, NEW h \in Hilos, NEW s, hilo' = [hilo EXCEPT ![h] = s],
         \/ s.fase \in {"libre", "lee", "cuenta", "guarda"}
         \/ s.fase = "trabaja" /\ s.pedido.op # "INSERT"
  PROVE  InvEscritura'
<1>1. \A g \in Hilos : hilo'[g] = s
  BY DEF Escrito, UnHilo, InvEscritura, IInv, TypeOK
<1>2. \A g \in Hilos, t \in Tablas, k \in Claves, x \in Timestamps : ~Lleva(g, t, k, x)' /\ ~Espera(g, t, k)'
  BY <1>1 DEF Lleva, Espera
<1>3. 0 \in Timestamps
  BY Relojes DEF Escrito, InvEscritura
<1> QED
  BY <1>2, <1>3, EscrituraHilo

\* A client writes: the record that its thread carries is the newest of all.
LEMMA EscrituraInsertar ==
  ASSUME Escrito, NEW h \in Hilos, NEW t \in Tablas, NEW k \in Claves, NEW ts \in Timestamps,
         Insertar(h, t, k, ts)
  PROVE  InvEscritura'
<1>1. /\ IInv /\ Sellos /\ ConSello /\ Recordado /\ lfs_arriba /\ viva /\ Guardadas /\ riesgo = {}
      /\ reloj \in Nat /\ ts = reloj + 1 /\ reloj' = ts /\ UNCHANGED <<cache, disco, enTransito, historia>>
  BY Relojes DEF Escrito, InvEscritura, UnHilo, Insertar, SelloPosible
<1>2. PICK n \in Pagina : n = nueva(t, k, ts, 1) /\ n.tabla = t /\ n.key = k /\ n.timestamp = ts /\ n.flag = 1
  BY PaginaNueva
<1>3. PICK x : x = [fase |-> "trabaja", pedido |-> [op |-> "INSERT", pagina |-> n]]
  OBVIOUS
<1>4. x.fase = "trabaja" /\ x.pedido.op = "INSERT" /\ x.pedido.pagina = n
  BY <1>3
<1>5. \A g \in Hilos : hilo'[g] = x
  BY <1>2, <1>3 DEF Insertar, Empieza, Escrito, UnHilo, InvEscritura, IInv, TypeOK
<1>6. riesgo' = {}
  BY <1>1, SinOtro DEF Insertar, Empieza, SiEso
<1>7. ASSUME NEW u \in Tablas, NEW j \in Claves, NEW s \in Timestamps, s # 0, Sello(u, j, s)'
      PROVE  Sello(u, j, s) \/ (u = t /\ j = k /\ s = reloj + 1)
  <2>1. ASSUME NEW g \in Hilos, Lleva(g, u, j, s)' PROVE u = t /\ j = k /\ s = reloj + 1
    BY <1>1, <1>2, <1>4, <1>5, <2>1 DEF Lleva
  <2> QED
    BY <1>1, <1>7, <2>1 DEF Sello, cache, disco
<1>8. Sellos'
  BY <1>1, <1>7, SellosNuevo
<1>9. \A g \in Hilos, u \in Tablas, j \in Claves : ~Espera(g, u, j)' /\ ~Lleva(g, u, j, 0)'
  BY <1>1, <1>2, <1>4, <1>5 DEF Espera, Lleva
<1>10. Esperando' /\ ConSello'
  BY <1>1, <1>9 DEF Esperando, ConSello, cache
<1>11. Recordado'
  <2>1. \A u \in Tablas, j \in Claves : ultimo[<<u, j>>] \in Nat /\ ultimo[<<u, j>>] <= reloj
    BY <1>1, Relojes DEF Recordado
  <2>2. ASSUME NEW u \in Tablas, NEW j \in Claves PROVE ultimo'[<<u, j>>] <= reloj'
    <3>1. ultimo'[<<u, j>>] = ultimo[<<u, j>>] /\ reloj' = reloj + 1
      BY <1>1 DEF historia
    <3>2. ultimo[<<u, j>>] \in Nat /\ ultimo[<<u, j>>] <= reloj
      BY <2>1
    <3> QED
      BY <1>1, <3>1, <3>2
  <2> QED
    BY <2>2 DEF Recordado
<1>12. \A u, j : Guardada(u, j) => Guardada(u, j)'
  BY <1>1 DEF Guardada, cache, disco, historia, PaginasConClave, PaginasDe
<1> QED
  BY <1>1, <1>6, <1>8, <1>10, <1>11, <1>12 DEF InvEscritura, Escrito, Guardadas, disco

LEMMA EscrituraFallo ==
  ASSUME Escrito, NEW h \in Hilos, NEW t \in Tablas, NEW k \in Claves, SelectFallo(h, t, k)
  PROVE  InvEscritura'
<1>1. /\ IInv /\ UNCHANGED <<cache, disco, enTransito, reloj, historia, riesgo>> /\ riesgo = {}
      /\ hilo \in [Hilos -> EstadoHilo]
  BY DEF Escrito, InvEscritura, SelectFallo, IInv, TypeOK
<1>2. PICK r : r = [fase |-> "espera", tabla |-> t, key |-> k]
  OBVIOUS
<1>3. r.fase = "espera" /\ r.tabla = t /\ r.key = k /\ \A g \in Hilos : hilo'[g] = r
  BY <1>1, <1>2 DEF SelectFallo, Pasa, Escrito, UnHilo
<1>4. PaginasConClave(t, k) = {}
  BY <1>1 DEF SelectFallo, existe_pagina, existe_tabla_paginas, PaginasConClave, PaginasDe, IInv, ClaveUnica
<1>5. \A g \in Hilos : ~Trabaja(g)'
  BY <1>3 DEF Trabaja
<1>6. \A g \in Hilos, u \in Tablas, j \in Claves : Espera(g, u, j)' => u = t /\ j = k
  BY <1>3 DEF Espera
<1>7. \A g \in Hilos, u \in Tablas, j \in Claves, s \in Timestamps : ~Lleva(g, u, j, s)'
  BY <1>3 DEF Lleva
<1> QED
  BY <1>1, <1>4, <1>5, <1>6, <1>7, EscrituraHilo DEF cache

LEMMA EscrituraResponde ==
  ASSUME Escrito, NEW h \in Hilos, LFSResponde(h)
  PROVE  InvEscritura'
<1>1. /\ IInv /\ Esperando /\ UNCHANGED <<cache, disco, enTransito, reloj, historia, riesgo>>
      /\ hilo \in [Hilos -> EstadoHilo] /\ hilo[h].fase = "espera"
  BY DEF Escrito, InvEscritura, LFSResponde, IInv, TypeOK
<1>2. PICK t, k, r : /\ t = hilo[h].tabla /\ k = hilo[h].key
                     /\ r = [fase |-> "respondido", tabla |-> t, key |-> k,
                             timestamp |-> IF t \in lfs_tablas THEN lfs[<<t, k>>] ELSE 0,
                             largo |-> t \in lfs_tablas /\ <<t, k>> \in lfs_largo]
  OBVIOUS
<1>3. /\ r.fase = "respondido" /\ r.tabla = t /\ r.key = k
      /\ r.timestamp = 0 \/ r.timestamp = lfs[<<t, k>>]
      /\ \A g \in Hilos : hilo'[g] = r
  BY <1>1, <1>2 DEF LFSResponde, Escrito, UnHilo
<1>4. \A g \in Hilos, u \in Tablas, j \in Claves, s \in Timestamps :
        s # 0 /\ Lleva(g, u, j, s)' => Sello(u, j, s)
  BY <1>1, <1>2, <1>3 DEF Lleva, Sello
<1>5. \A g \in Hilos : ~Trabaja(g)'
  BY <1>3 DEF Trabaja
<1>6. \A g \in Hilos, u \in Tablas, j \in Claves : Espera(g, u, j)' => Espera(h, u, j)
  BY <1>1, <1>2, <1>3 DEF Espera
<1> QED
  BY <1>1, <1>4, <1>5, <1>6, EscrituraHilo DEF cache, Esperando

\* The answer is not found, or too long, or is about to be cached: its key has no page.
LEMMA EscrituraCompleta ==
  ASSUME Escrito, NEW h \in Hilos, SelectCompleta(h)
  PROVE  InvEscritura'
<1>1. /\ IInv /\ Esperando /\ riesgo = {} /\ UNCHANGED <<cache, disco, enTransito, reloj, historia>>
      /\ hilo \in [Hilos -> EstadoHilo] /\ hilo[h].fase = "respondido"
  BY DEF Escrito, InvEscritura, SelectCompleta, IInv, TypeOK
<1>2. hilo[h] \in [fase: {"respondido"}, tabla: Tablas, key: Claves, timestamp: Timestamps, largo: BOOLEAN]
  BY <1>1, RespuestaDe
<1>3. PICK t \in Tablas, k \in Claves, ts \in Timestamps :
        t = hilo[h].tabla /\ k = hilo[h].key /\ ts = hilo[h].timestamp
  BY <1>2
<1>4. CASE (Pasa(h, Libre) \/ Pasa(h, Lee(t, k, TRUE))) /\ UNCHANGED riesgo
  <2>1. Libre.fase = "libre" /\ Lee(t, k, TRUE).fase = "lee"
    BY DEF Libre, Lee
  <2> QED
    BY <1>1, <1>4, <2>1, EscrituraPasa DEF cache, Pasa
<1>5. CASE ts # 0 /\ Empieza(h, [op |-> "INSERT", pagina |-> nueva(t, k, ts, 0)])
  <2>1. PICK n \in Pagina : /\ n = nueva(t, k, ts, 0) /\ n.tabla = t /\ n.key = k
                            /\ n.timestamp = ts /\ n.flag = 0
    BY PaginaNueva
  <2>2. PICK x : x = [fase |-> "trabaja", pedido |-> [op |-> "INSERT", pagina |-> n]]
    OBVIOUS
  <2>3. x.fase = "trabaja" /\ x.pedido.op = "INSERT" /\ x.pedido.pagina = n
    BY <2>2
  <2>4. \A g \in Hilos : hilo'[g] = x
    BY <1>1, <1>5, <2>1, <2>2 DEF Empieza, Escrito, UnHilo
  <2>5. UNCHANGED riesgo
    BY <1>1, <1>5, SinOtro DEF Empieza, SiEso
  <2>6. Sello(t, k, ts)
    BY <1>1, <1>3 DEF Sello, Lleva
  <2>7. PaginasConClave(t, k) = {}
    BY <1>1, <1>3 DEF Esperando, Espera
  <2>8. \A g \in Hilos, u \in Tablas, j \in Claves, s \in Timestamps :
          /\ Lleva(g, u, j, s)' => u = t /\ j = k /\ s = ts
          /\ ~Lleva(g, u, j, 0)'
          /\ Espera(g, u, j)' => u = t /\ j = k
    BY <1>5, <2>1, <2>3, <2>4 DEF Lleva, Espera
  <2> QED
    BY <1>1, <2>5, <2>6, <2>7, <2>8, EscrituraHilo DEF cache
<1> QED
  BY <1>3, <1>4, <1>5 DEF SelectCompleta

\* The page of the thread enters the cache: that of a client is remembered, and
\* is there; that of an answer had no page of its key to replace.
LEMMA EscrituraAplicaInsert ==
  ASSUME Escrito, NEW h \in Hilos, Trabaja(h), hilo[h].pedido.op = "INSERT",
         insert(h, hilo[h].pedido.pagina), viva, riesgo' = {}, UNCHANGED <<disco, reloj>>
  PROVE  InvEscritura'
<1>1. /\ IInv /\ riesgo = {} /\ Sellos /\ Esperando /\ ConSello /\ Recordado /\ lfs_arriba /\ Guardadas
      /\ reloj \in Nat /\ hilo \in [Hilos -> EstadoHilo] /\ Timestamps \subseteq Nat
  BY Relojes DEF Escrito, InvEscritura, IInv, TypeOK
<1>2. PICK n \in Pagina : n = hilo[h].pedido.pagina
  BY <1>1, PedidoDe
<1>3. PICK t \in Tablas, k \in Claves, ts \in Timestamps :
        t = n.tabla /\ k = n.key /\ ts = n.timestamp /\ n.flag \in {0, 1}
  BY DEF Pagina
<1>4. insert(h, n) /\ Recuerda(n)
  BY <1>2 DEF insert
<1>5. /\ \A p \in paginas' : p \in paginas \/ p = n
      /\ \A m \in enTransito' : m \in enTransito \/ \E p \in paginas : m = InsertDe(p)
      /\ enTransito \subseteq enTransito'
      /\ viva' /\ viva => n \in paginas'
      /\ \A p \in paginas : p.flag = 1 /\ ~(p.tabla = t /\ p.key = k)
           => p \in paginas' \/ InsertDe(p) \in enTransito'
  BY <1>1, <1>3, <1>4, InsertHace
<1>6. Sello(t, k, ts) /\ ts # 0 /\ ts <= reloj
  <2>1. Lleva(h, t, k, ts)
    BY <1>2, <1>3 DEF Lleva, Trabaja
  <2>2. ts # 0
    BY <1>1, <2>1 DEF ConSello
  <2>3. Sello(t, k, ts)
    BY <2>1 DEF Sello
  <2> QED
    BY <1>1, <2>2, <2>3 DEF Sellos
<1>7. \A g \in Hilos, u \in Tablas, j \in Claves, s \in Timestamps : ~Lleva(g, u, j, s)' /\ ~Espera(g, u, j)'
  <2>1. PICK x : /\ hilo' = [hilo EXCEPT ![h] = x]
                 /\ x.fase \in {"libre", "lee", "cuenta"}
    <3>1. Tras(n).fase \in {"libre", "lee"} /\ Libre.fase = "libre"
      BY TrasReposo, Fases DEF Libre
    <3>2. ASSUME NEW d, Cuenta(h, d, Tras(n))
          PROVE  \E x : hilo' = [hilo EXCEPT ![h] = x] /\ x.fase \in {"libre", "lee", "cuenta"}
      <4>1. [fase |-> "cuenta", delta |-> d, sigue |-> Tras(n)].fase = "cuenta"
        OBVIOUS
      <4> QED
        BY <3>2, <4>1 DEF Cuenta
    <3>3. ASSUME NEW y, Pasa(h, y), y.fase \in {"libre", "lee"}
          PROVE  \E x : hilo' = [hilo EXCEPT ![h] = x] /\ x.fase \in {"libre", "lee", "cuenta"}
      BY <3>3 DEF Pasa
    <3> QED
      BY <1>4, <3>1, <3>2, <3>3 DEF insert, remplazo_especifico, agregar_pagina, reemplazar_pagina,
        journal_y_agregar, muere_sin_segmento
  <2>2. \A g \in Hilos : hilo'[g] = x
    BY <1>1, <2>1 DEF Escrito, UnHilo
  <2> QED
    BY <2>1, <2>2 DEF Lleva, Espera
<1>8. ASSUME NEW u \in Tablas, NEW j \in Claves, NEW s \in Timestamps, s # 0, Sello(u, j, s)'
      PROVE  Sello(u, j, s)
  <2>1. CASE \E p \in paginas' : p.tabla = u /\ p.key = j /\ p.timestamp = s
    BY <1>3, <1>5, <1>6, <2>1 DEF Sello
  <2>2. CASE lfs'[<<u, j>>] = s
    BY <2>2 DEF Sello, disco
  <2>3. CASE \E m \in enTransito' : m.op = "INSERT" /\ m.tabla = u /\ m.key = j /\ m.timestamp = s
    BY <1>5, <2>3 DEF Sello, InsertDe
  <2> QED
    BY <1>7, <1>8, <2>1, <2>2, <2>3 DEF Sello
<1>9. Sellos'
  BY <1>1, <1>8, SellosIgual DEF Escrito
<1>10. Esperando' /\ ConSello'
  BY <1>1, <1>3, <1>5, <1>6, <1>7, Relojes DEF Esperando, ConSello
<1>11. ultimo \in [Tablas \X Claves -> Timestamps]
  BY <1>1 DEF IInv, TypeOK
<1>12. CASE viva' /\ n.flag = 1
  <2>1. ultimo' = [ultimo EXCEPT ![<<t, k>>] = ts] /\ tiradas' = tiradas \ {<<t, k>>}
    BY <1>3, <1>4, <1>12 DEF Recuerda, Escrito, UnHilo
  <2>2. ASSUME NEW u \in Tablas, NEW j \in Claves PROVE ultimo'[<<u, j>>] <= reloj' /\ Guardada(u, j)'
    <3>1. CASE u = t /\ j = k
      <4>1. n \in PaginasConClave(t, k)'
        BY <1>3, <1>5, <1>12 DEF PaginasConClave, PaginasDe
      <4>2. ultimo'[<<t, k>>] = ts /\ ts >= ts
        BY <1>1, <1>11, <2>1
      <4> QED
        BY <1>3, <1>6, <1>12, <3>1, <4>1, <4>2 DEF Guardada
    <3>2. CASE ~(u = t /\ j = k)
      <4>1. ultimo'[<<u, j>>] = ultimo[<<u, j>>] /\ lfs' = lfs
        BY <1>11, <2>1, <3>2 DEF disco
      <4>2. <<u, j>> \in tiradas => <<u, j>> \in tiradas'
        BY <2>1, <3>2
      <4>3. \A p \in PaginasConClave(u, j) : p.flag = 1 => p \in paginas' \/ InsertDe(p) \in enTransito'
        BY <1>5, <3>2 DEF PaginasConClave, PaginasDe
      <4> QED
        BY <1>1, <1>5, <4>1, <4>2, <4>3, GuardadaSigue DEF Guardadas, Recordado
    <3> QED
      BY <3>1, <3>2
  <2> QED
    BY <1>1, <1>9, <1>10, <2>2 DEF InvEscritura, Escrito, Recordado, Guardadas, disco
<1>13. CASE ~(viva' /\ n.flag = 1)
  <2>1. UNCHANGED historia
    BY <1>4, <1>13 DEF Recuerda
  <2>2. ASSUME NEW u \in Tablas, NEW j \in Claves, viva' PROVE Guardada(u, j)'
    <3>1. PaginasConClave(t, k) = {}
      BY <1>1, <1>2, <1>3, <1>13, <2>2 DEF Esperando, Espera, Trabaja
    <3>2. \A p \in PaginasConClave(u, j) : p.flag = 1 => p \in paginas' \/ InsertDe(p) \in enTransito'
      BY <1>5, <3>1 DEF PaginasConClave, PaginasDe
    <3> QED
      BY <1>1, <1>5, <2>1, <3>2, GuardadaSigue DEF Guardadas, disco, historia
  <2> QED
    BY <1>1, <1>9, <1>10, <2>1, <2>2 DEF InvEscritura, Escrito, Recordado, Guardadas, disco, historia
<1> QED
  BY <1>12, <1>13

\* Pages leave, the modified ones to the LFS or with their table; messages are added.
LEMMA EscrituraQuita ==
  ASSUME Escrito, UNCHANGED <<viva, disco, reloj>>, riesgo' = {}, paginas' \subseteq paginas,
         NEW h \in Hilos, NEW x, hilo' = [hilo EXCEPT ![h] = x], x.fase \in {"libre", "cuenta"},
         enTransito \subseteq enTransito',
         \A m \in enTransito' : m \in enTransito \/ m.op # "INSERT" \/ \E p \in paginas : m = InsertDe(p),
         \A u \in Tablas, j \in Claves :
           \/ ultimo'[<<u, j>>] = 0
           \/ /\ ultimo'[<<u, j>>] = ultimo[<<u, j>>]
              /\ <<u, j>> \in tiradas => <<u, j>> \in tiradas'
              /\ \A p \in PaginasConClave(u, j) : p.flag = 1 => p \in paginas' \/ InsertDe(p) \in enTransito'
  PROVE  InvEscritura'
<1>1. /\ IInv /\ Sellos /\ ConSello /\ Recordado /\ lfs_arriba /\ reloj \in Nat
      /\ hilo \in [Hilos -> EstadoHilo]
  BY Relojes DEF Escrito, InvEscritura, IInv, TypeOK
<1>2. \A g \in Hilos : hilo'[g] = x
  BY <1>1 DEF Escrito, UnHilo
<1>3. \A g \in Hilos, u \in Tablas, j \in Claves, s \in Timestamps : ~Lleva(g, u, j, s)' /\ ~Espera(g, u, j)'
  BY <1>2 DEF Lleva, Espera
<1>4. ASSUME NEW u \in Tablas, NEW j \in Claves, NEW s \in Timestamps, s # 0, Sello(u, j, s)'
      PROVE  Sello(u, j, s)
  BY <1>3, <1>4 DEF Sello, disco, InsertDe
<1>5. Sellos'
  BY <1>1, <1>4, SellosIgual DEF Escrito
<1>6. Esperando' /\ ConSello'
  BY <1>1, <1>3, Relojes DEF Esperando, ConSello
<1>7. Recordado'
  <2>1. ASSUME NEW u \in Tablas, NEW j \in Claves PROVE ultimo'[<<u, j>>] <= reloj'
    <3>1. ultimo[<<u, j>>] <= reloj /\ reloj' = reloj
      BY <1>1 DEF Recordado
    <3>2. ultimo'[<<u, j>>] = 0 \/ ultimo'[<<u, j>>] = ultimo[<<u, j>>]
      OBVIOUS
    <3> QED
      BY <1>1, <3>1, <3>2
  <2> QED
    BY <2>1 DEF Recordado
<1>8. ASSUME NEW u \in Tablas, NEW j \in Claves, Guardada(u, j) PROVE Guardada(u, j)'
  <2>1. CASE ultimo'[<<u, j>>] = 0
    BY <2>1 DEF Guardada
  <2>2. CASE ultimo'[<<u, j>>] # 0
    BY <1>1, <1>8, <2>2, GuardadaSigue DEF disco
  <2> QED
    BY <2>1, <2>2
<1> QED
  BY <1>1, <1>5, <1>6, <1>7, <1>8 DEF InvEscritura, Escrito, Guardadas, disco

LEMMA EscrituraAplica ==
  ASSUME Escrito, NEW h \in Hilos, Aplica(h)
  PROVE  InvEscritura'
<1>1. /\ viva /\ Trabaja(h) /\ UNCHANGED <<disco, reloj>> /\ lfs_arriba /\ riesgo' = {}
      /\ hilo \in [Hilos -> EstadoHilo]
  BY SinOtro DEF Aplica, SiEso, Escrito, InvEscritura, IInv, TypeOK
<1>2. CASE hilo[h].pedido.op = "INSERT" /\ insert(h, hilo[h].pedido.pagina)
  BY <1>1, <1>2, EscrituraAplicaInsert
<1>3. Libre.fase = "libre" /\ \A d : [fase |-> "cuenta", delta |-> d, sigue |-> Libre].fase = "cuenta"
  BY DEF Libre
<1>4. ASSUME NEW t, create(h, t) PROVE InvEscritura'
  <2>1. /\ UNCHANGED <<viva, historia, paginas>> /\ hilo' = [hilo EXCEPT ![h] = Libre]
        /\ enTransito' = enTransito \cup {[op |-> "CREATE", tabla |-> t]}
    BY <1>1, <1>4 DEF create, Enviar, Pasa
  <2>2. \A p \in paginas : p \in paginas'
    BY <2>1
  <2>3. \A m \in enTransito' : m \in enTransito \/ m.op # "INSERT"
    BY <2>1
  <2> QED
    BY <1>1, <1>3, <2>1, <2>2, <2>3, EscrituraQuita DEF PaginasConClave, PaginasDe, historia
<1>5. ASSUME NEW t, drop(h, t) PROVE InvEscritura'
  <2>1. /\ UNCHANGED viva /\ paginas' = paginas \ PaginasDe(t)
        /\ enTransito' = enTransito \cup {[op |-> "DROP", tabla |-> t]}
        /\ ultimo' = EnCero(ultimo, t) /\ tiradas' = {tk \in tiradas : tk[1] # t}
    BY <1>1, <1>5 DEF drop, Enviar
  <2>2. PICK x : x.fase = "cuenta" /\ hilo' = [hilo EXCEPT ![h] = x]
    BY <1>5, <1>3 DEF drop, Cuenta
  <2>3. ASSUME NEW u \in Tablas, NEW j \in Claves
        PROVE  \/ ultimo'[<<u, j>>] = 0
               \/ /\ ultimo'[<<u, j>>] = ultimo[<<u, j>>]
                  /\ <<u, j>> \in tiradas => <<u, j>> \in tiradas'
                  /\ \A p \in PaginasConClave(u, j) : p.flag = 1 => p \in paginas' \/ InsertDe(p) \in enTransito'
    BY <2>1 DEF EnCero, PaginasConClave, PaginasDe
  <2>4. \A m \in enTransito' : m \in enTransito \/ m.op # "INSERT"
    BY <2>1
  <2> QED
    BY <1>1, <2>1, <2>2, <2>3, <2>4, EscrituraQuita
<1>6. CASE journal(h)
  <2>1. /\ UNCHANGED <<viva, historia>> /\ paginas' = paginas \ paginas_modificadas
        /\ enTransito' = enTransito \cup {InsertDe(p) : p \in paginas_modificadas}
        /\ paginas_modificadas = {p \in paginas : p.flag = 1}
    BY <1>1, <1>6 DEF journal, Enviar, PaginasTrasJournal, MensajesJournal, paginas_modificadas
  <2>2. PICK x : x.fase = "cuenta" /\ hilo' = [hilo EXCEPT ![h] = x]
    BY <1>6, <1>3 DEF journal, Cuenta
  <2>3. \A p \in paginas : p.flag = 1 => InsertDe(p) \in enTransito'
    BY <2>1
  <2> QED
    BY <1>1, <2>1, <2>2, <2>3, EscrituraQuita DEF PaginasConClave, PaginasDe, historia
<1> QED
  BY <1>2, <1>4, <1>5, <1>6 DEF Aplica

LEMMA EscrituraReinicia ==
  ASSUME Escrito, Reiniciar
  PROVE  InvEscritura'
<1>1. /\ IInv /\ Sellos /\ lfs_arriba /\ reloj \in Nat /\ paginas' = {} /\ riesgo' = {}
      /\ \A h \in Hilos : hilo'[h] = Libre
      /\ \A u \in Tablas, j \in Claves : ultimo'[<<u, j>>] = 0
      /\ UNCHANGED <<disco, enTransito, reloj>>
  BY Relojes DEF Escrito, InvEscritura, Reiniciar
<1>2. \A g \in Hilos, u \in Tablas, j \in Claves, s \in Timestamps : ~Lleva(g, u, j, s)' /\ ~Espera(g, u, j)'
  BY <1>1 DEF Lleva, Espera, Libre
<1>3. ASSUME NEW u \in Tablas, NEW j \in Claves, NEW s \in Timestamps, s # 0, Sello(u, j, s)'
      PROVE  Sello(u, j, s)
  BY <1>1, <1>2, <1>3 DEF Sello, disco
<1>4. Sellos'
  BY <1>1, <1>3, SellosIgual DEF Escrito
<1>5. 0 \in Timestamps /\ Esperando'
  BY <1>1, <1>2, Relojes DEF Esperando
<1>6. ConSello'
  BY <1>1, <1>2, <1>5 DEF ConSello
<1>7. Recordado'
  <2>1. \A u \in Tablas, j \in Claves : ultimo'[<<u, j>>] = 0
    BY <1>1
  <2>2. 0 <= reloj'
    BY <1>1
  <2> QED
    BY <2>1, <2>2 DEF Recordado
<1>8. Guardadas'
  BY <1>1 DEF Guardadas, Guardada
<1> QED
  BY <1>1, <1>4, <1>5, <1>6, <1>7, <1>8 DEF InvEscritura, Escrito, disco

\* The LFS takes a message: an INSERT it executes or has a newer record for, or
\* throws away for want of the table; or a DROP that takes the records it had.
LEMMA EscrituraEjecuta ==
  ASSUME Escrito, NEW m \in enTransito, LFSEjecuta(m)
  PROVE  InvEscritura'
<1>1. /\ IInv /\ Sellos /\ Esperando /\ ConSello /\ Recordado /\ lfs_arriba /\ reloj \in Nat
      /\ UNCHANGED <<cache, hilo, lfs_arriba, reloj, ultimo, riesgo>>
      /\ enTransito' = enTransito \ {m} /\ m \in Mensaje
      /\ lfs \in [Tablas \X Claves -> Timestamps] /\ ultimo \in [Tablas \X Claves -> Timestamps]
      /\ Timestamps \subseteq Nat
  BY Relojes DEF Escrito, InvEscritura, LFSEjecuta, IInv, TypeOK
<1>2. m.tabla \in Tablas
  BY <1>1 DEF Mensaje
<1>3. \/ /\ m.op = "INSERT" /\ EscribirLFS(m.tabla, m.key, m.timestamp, FALSE)
         /\ tiradas' = tiradas \cup
              {tk \in {<<m.tabla, m.key>>} :
                 m.tabla \notin lfs_tablas /\ 0 < ultimo[tk] /\ ultimo[tk] <= m.timestamp}
      \/ m.op = "CREATE" /\ UNCHANGED <<lfs, tiradas>>
      \/ /\ m.op = "DROP" /\ lfs' = EnCero(lfs, m.tabla)
         /\ tiradas' = tiradas \cup
              {tk \in Tablas \X Claves :
                 tk[1] = m.tabla /\ 0 < ultimo[tk] /\ ultimo[tk] <= lfs[tk]}
  BY DEF LFSEjecuta, VaciarTabla
<1>4. m.op = "INSERT" => m.key \in Claves /\ m.timestamp \in Timestamps /\ m.timestamp \in Nat
  BY <1>1 DEF Mensaje
<1>5. ASSUME NEW u \in Tablas, NEW j \in Claves
      PROVE  \/ lfs'[<<u, j>>] = lfs[<<u, j>>]
             \/ m.op = "DROP" /\ m.tabla = u /\ lfs'[<<u, j>>] = 0
             \/ /\ m.op = "INSERT" /\ m.tabla = u /\ m.key = j
                /\ lfs'[<<u, j>>] = m.timestamp /\ lfs[<<u, j>>] <= m.timestamp
  <2>1. CASE m.op = "INSERT"
    <3>1. \/ lfs' = lfs
          \/ lfs' = [lfs EXCEPT ![<<m.tabla, m.key>>] = m.timestamp] /\ m.timestamp >= lfs[<<m.tabla, m.key>>]
      BY <1>3, <2>1 DEF EscribirLFS
    <3>2. lfs[<<u, j>>] \in Nat
      BY <1>1
    <3> QED
      BY <1>1, <1>4, <2>1, <3>1, <3>2
  <2>2. CASE m.op # "INSERT"
    BY <1>3, <2>2 DEF EnCero
  <2> QED
    BY <2>1, <2>2
<1>6. ASSUME NEW u \in Tablas, NEW j \in Claves, NEW s \in Timestamps, s # 0, Sello(u, j, s)'
      PROVE  Sello(u, j, s)
  <2>1. CASE lfs'[<<u, j>>] = s
    BY <1>5, <1>6, <2>1 DEF Sello
  <2>2. CASE lfs'[<<u, j>>] # s
    BY <1>1, <1>6, <2>2 DEF Sello, cache, Lleva
  <2> QED
    BY <2>1, <2>2
<1>7. Sellos'
  BY <1>1, <1>6, SellosIgual DEF Escrito
<1>8. tiradas \subseteq tiradas'
  BY <1>3
<1>9. ASSUME NEW u \in Tablas, NEW j \in Claves, Guardada(u, j) PROVE Guardada(u, j)'
  <2>1. ultimo[<<u, j>>] \in Nat /\ lfs[<<u, j>>] \in Nat /\ ultimo' = ultimo /\ <<u, j>> \in Tablas \X Claves
    BY <1>1
  <2>2. CASE ultimo[<<u, j>>] = 0 \/ <<u, j>> \in tiradas
    BY <1>8, <2>1, <2>2 DEF Guardada
  <2>3. CASE ultimo[<<u, j>>] # 0 /\ lfs[<<u, j>>] >= ultimo[<<u, j>>]
    <3>1. 0 < ultimo[<<u, j>>] /\ ultimo[<<u, j>>] <= lfs[<<u, j>>]
      BY <2>1, <2>3
    <3>2. CASE m.op = "DROP" /\ m.tabla = u
      BY <1>3, <2>1, <3>1, <3>2 DEF Guardada
    <3>3. CASE ~(m.op = "DROP" /\ m.tabla = u)
      <4>1. lfs'[<<u, j>>] >= ultimo[<<u, j>>]
        BY <1>4, <1>5, <2>1, <2>3, <3>3
      <4> QED
        BY <2>1, <4>1 DEF Guardada
    <3> QED
      BY <3>2, <3>3
  <2>4. ASSUME NEW x \in enTransito, x.op = "INSERT", x.tabla = u, x.key = j,
               x.timestamp >= ultimo[<<u, j>>], ultimo[<<u, j>>] # 0
        PROVE  Guardada(u, j)'
    <3>1. CASE x # m
      BY <1>1, <2>1, <2>4, <3>1 DEF Guardada
    <3>2. CASE x = m
      <4>1. 0 < ultimo[<<u, j>>] /\ ultimo[<<u, j>>] <= m.timestamp
        BY <1>4, <2>1, <2>4, <3>2
      <4>2. CASE u \notin lfs_tablas
        BY <1>3, <2>4, <3>2, <4>1, <4>2 DEF Guardada
      <4>3. CASE u \in lfs_tablas
        <5>1. \/ lfs' = [lfs EXCEPT ![<<u, j>>] = m.timestamp]
              \/ lfs' = lfs /\ ~(m.timestamp >= lfs[<<u, j>>])
          BY <1>3, <2>4, <3>2, <4>3 DEF EscribirLFS
        <5>2. lfs'[<<u, j>>] >= ultimo[<<u, j>>]
          BY <1>1, <1>4, <2>1, <2>4, <3>2, <4>1, <5>1
        <5> QED
          BY <2>1, <5>2 DEF Guardada
      <4> QED
        BY <4>2, <4>3
    <3> QED
      BY <3>1, <3>2
  <2>5. ASSUME NEW p \in PaginasConClave(u, j), p.flag = 1, p.timestamp >= ultimo[<<u, j>>]
        PROVE  Guardada(u, j)'
    BY <1>1, <2>5 DEF Guardada, PaginasConClave, PaginasDe, cache
  <2> QED
    BY <1>9, <2>2, <2>3, <2>4, <2>5 DEF Guardada
<1>10. Esperando' /\ ConSello' /\ Recordado'
  BY <1>1 DEF Esperando, ConSello, Recordado, Espera, Lleva, Trabaja, cache, PaginasConClave, PaginasDe
<1> QED
  BY <1>1, <1>7, <1>9, <1>10 DEF InvEscritura, Escrito, Guardadas, cache

LEMMA EscrituraOtro ==
  ASSUME Escrito, NEW t \in Tablas, NEW k \in Claves, NEW ts \in Timestamps, NEW largo \in BOOLEAN,
         OtroEscribe(t, k, ts, largo)
  PROVE  InvEscritura'
<1>1. /\ IInv /\ Sellos /\ Esperando /\ ConSello /\ Recordado /\ lfs_arriba /\ reloj \in Nat
      /\ UNCHANGED <<cache, hilo, lfs_tablas, lfs_arriba, enTransito, historia, riesgo>>
      /\ ts = reloj + 1 /\ reloj' = ts
      /\ lfs \in [Tablas \X Claves -> Timestamps] /\ Timestamps \subseteq Nat
  BY Relojes DEF Escrito, InvEscritura, UnHilo, OtroEscribe, SelloPosible, IInv, TypeOK
<1>2. \/ lfs' = lfs
      \/ lfs' = [lfs EXCEPT ![<<t, k>>] = ts] /\ ts >= lfs[<<t, k>>]
  BY DEF OtroEscribe, EscribirLFS
<1>3. ASSUME NEW u \in Tablas, NEW j \in Claves, NEW s \in Timestamps, s # 0, Sello(u, j, s)'
      PROVE  Sello(u, j, s) \/ (u = t /\ j = k /\ s = reloj + 1)
  BY <1>1, <1>2, <1>3 DEF Sello, Lleva, cache
<1>4. Sellos'
  BY <1>1, <1>3, SellosNuevo
<1>5. ASSUME NEW u \in Tablas, NEW j \in Claves PROVE ultimo[<<u, j>>] \in Nat /\ ultimo[<<u, j>>] <= reloj'
  <2>1. ultimo[<<u, j>>] \in Nat
    BY <1>1, Relojes
  <2>2. ultimo[<<u, j>>] <= reloj
    BY <1>1 DEF Recordado
  <2> QED
    BY <1>1, <2>1, <2>2
<1>6. Recordado'
  BY <1>1, <1>5 DEF Recordado, historia
<1>7. ASSUME NEW u \in Tablas, NEW j \in Claves, Guardada(u, j) PROVE Guardada(u, j)'
  <2>1. lfs'[<<u, j>>] = lfs[<<u, j>>] \/ lfs'[<<u, j>>] = reloj'
    BY <1>1, <1>2
  <2> QED
    BY <1>1, <1>5, <1>7, <2>1 DEF Guardada, cache, historia, PaginasConClave, PaginasDe
<1>8. Esperando' /\ ConSello'
  BY <1>1 DEF Esperando, ConSello, Espera, Lleva, Trabaja, cache, PaginasConClave, PaginasDe
<1> QED
  BY <1>1, <1>4, <1>6, <1>7, <1>8 DEF InvEscritura, Escrito, Guardadas, cache

\* A thread starts, counts, or ends a request that writes nothing.
LEMMA EscrituraQuieta ==
  ASSUME Escrito, NEW h \in Hilos,
         \/ \E t \in Tablas : Crear(h, t) \/ Borrar(h, t)
         \/ \E t \in Tablas, k \in Claves : SelectAcierto(h, t, k)
         \/ Journal(h) \/ Carga(h) \/ Guarda(h) \/ Responde(h)
  PROVE  InvEscritura'
<1>1. /\ riesgo = {} /\ hilo \in [Hilos -> EstadoHilo]
      /\ Libre.fase = "libre" /\ \A t, k : Lee(t, k, FALSE).fase = "lee"
  BY DEF Escrito, InvEscritura, Libre, Lee, IInv, TypeOK
<1>2. ASSUME NEW t \in Tablas, Crear(h, t) \/ Borrar(h, t)
      PROVE  InvEscritura'
  <2>1. PICK x : /\ x.fase = "trabaja" /\ x.pedido.op # "INSERT"
                 /\ hilo' = [hilo EXCEPT ![h] = x] /\ UNCHANGED riesgo
    BY <1>1, <1>2 DEF Crear, Borrar, Empieza, SiEso
  <2> QED
    BY <1>2, <2>1, EscrituraPasa DEF Crear, Borrar, cache
<1>3. CASE Journal(h)
  <2>1. PICK x : /\ x.fase = "trabaja" /\ x.pedido.op # "INSERT"
                 /\ hilo' = [hilo EXCEPT ![h] = x] /\ UNCHANGED riesgo
    BY <1>1, <1>3 DEF Journal, Empieza, SiEso
  <2> QED
    BY <1>3, <2>1, EscrituraPasa DEF Journal, cache
<1>4. CASE Carga(h)
  <2>1. PICK x : x.fase = "guarda" /\ hilo' = [hilo EXCEPT ![h] = x]
    BY <1>4 DEF Carga
  <2> QED
    BY <1>4, <2>1, EscrituraPasa DEF Carga, cache
<1>5. CASE Guarda(h)
  <2>1. PICK x : x = hilo[h].sigue
    OBVIOUS
  <2>2. hilo[h].fase = "guarda" /\ hilo' = [hilo EXCEPT ![h] = x]
    BY <1>5, <2>1 DEF Guarda, Pasa
  <2>3. x \in Reposo
    BY <1>1, <2>1, <2>2, RespuestaDe
  <2>4. x.fase \in {"libre", "lee"}
    BY <2>3, Fases
  <2> QED
    BY <1>5, <2>2, <2>4, EscrituraPasa DEF Guarda
<1>6. CASE Responde(h)
  BY <1>1, <1>6, EscrituraPasa DEF Responde, Pasa
<1>7. ASSUME NEW t \in Tablas, NEW k \in Claves, SelectAcierto(h, t, k)
      PROVE  InvEscritura'
  BY <1>1, <1>7, EscrituraPasa DEF SelectAcierto, Pasa, cache
<1> QED
  BY <1>2, <1>3, <1>4, <1>5, <1>6, <1>7

LEMMA EscrituraSigue ==
  ASSUME UnHilo
  PROVE  InvEscritura /\ [Next]_vars => InvEscritura'
<1> SUFFICES ASSUME InvEscritura, [Next]_vars PROVE InvEscritura'
  OBVIOUS
<1>1. IInv' /\ Escrito
  BY PasoPreserva DEF InvEscritura, Escrito
<1>2. CASE UNCHANGED vars
  BY <1>1, <1>2 DEF vars, InvEscritura, Sellos, Sello, Esperando, ConSello, Recordado, Guardadas, Guardada,
    Espera, Lleva, Trabaja, PaginasConClave, PaginasDe
<1>3. CASE \E h \in Hilos, t \in Tablas, k \in Claves : SelectSinLFS(h, t, k)
  BY <1>3 DEF SelectSinLFS, InvEscritura
<1>4. CASE CambiaLFS
  BY <1>4 DEF CambiaLFS, UnHilo
<1>5. CASE \E h \in Hilos : SeEnredan(h) \/ LeeMientrasCambia(h)
  BY <1>1, <1>5, SinOtro DEF SeEnredan, LeeMientrasCambia, InvEscritura
<1> QED
  BY <1>1, <1>2, <1>3, <1>4, <1>5, EscrituraInsertar, EscrituraFallo, EscrituraResponde,
    EscrituraCompleta, EscrituraAplica, EscrituraQuieta, EscrituraReinicia, EscrituraEjecuta, EscrituraOtro
  DEF Next

LEMMA EscrituraInicial == Init => InvEscritura
<1> SUFFICES ASSUME Init PROVE InvEscritura
  OBVIOUS
<1>1. IInv
  BY InicioCumple
<1>2. \A h \in Hilos, t \in Tablas, k \in Claves, s \in Timestamps : ~Lleva(h, t, k, s) /\ ~Espera(h, t, k)
  BY DEF Init, Lleva, Espera, Libre
<1>3. \A t \in Tablas, k \in Claves, s \in Timestamps : s # 0 => ~Sello(t, k, s)
  BY <1>2 DEF Init, Sello
<1>4. Sellos
  BY <1>3 DEF Sellos
<1>5. 0 \in Timestamps
  BY <1>1, Relojes
<1>6. Esperando /\ ConSello
  BY <1>2, <1>5 DEF Init, Esperando, ConSello
<1>7. Recordado /\ Guardadas
  BY DEF Init, Recordado, Guardadas, Guardada
<1> QED
  BY <1>1, <1>4, <1>6, <1>7 DEF Init, InvEscritura

\* With one thread, a strict clock and an LFS that answers, for any tables, keys and
\* capacity: while the process lives, the newest write accepted for a key, whether the
\* LFS has the table yet or not, is in a modified page, on its way to the LFS or there,
\* itself or superseded by a later one, unless the LFS has thrown it away.
THEOREM EscrituraNuncaPerdida ==
  ASSUME UnHilo
  PROVE  Spec => []EscrituraConservada
<1>1. InvEscritura => EscrituraConservada
  BY DEF InvEscritura, Guardadas, Guardada, EscrituraConservada
<1> QED
  BY <1>1, EscrituraInicial, EscrituraSigue, PTL DEF Spec
=============================================================================
