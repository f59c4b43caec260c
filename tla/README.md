# A TLA+ development of Lissandra

Lissandra (`TP UTNSO 1C2019`) is a distributed key/value store made of three
programs.  The **Kernel** reads requests from a console and from `.LQL` scripts,
schedules them and sends each one to a memory.  A **MemoryPool** process is a
write-back cache of pages; it forwards what it misses, and when it is full or is
told to it *journals* what was modified.  The **LissandraFileSystem** (LFS) keeps
the tables: a volatile *memtable*, *temporals* (`.tmp`) that a dump thread writes,
and *partitions* (`.bin`) into which a compaction thread per table merges them.

These modules model the parts of that code where interleavings, failures and
limits decide whether a write survives and whether a read is right.  TLC checks
them on small instances, TLAPS proves the main ones for every value of the
constants.  Names of variables and actions are those of the C source, in Spanish;
comments are in English.

## 1. Inventory

| Component | Source | State | Operations | Model |
|---|---|---|---|---|
| page cache | `MemoryPool/API.c`, `tablas.c` | `tabla_segmentos`, pages with flag and timestamp, `tamanio_memoria_ocupada` | `insert`, `selectf`, `create`, `drop`, `journal`, `reemplazar_pagina` | `Memoria` |
| memory server and console | `MemoryPool/recibir.c`, `consola.c`, `envio.c`, `conexion.c` | one connection per message | requests of two threads, messages to the LFS | `Memoria` |
| gossip | `MemoryPool/gossiping.c`, `recibir.c`, `envio.c` | `tabla_gossip`, the connections between memories | `gossiping`, `recibir_seed`, `table_has_memory`, the send of the table | `Gossip` |
| live table | `LissandraFileSystem/APIS.c`, `memTable.c`, `compactador.c` | `memTable`, `.tmp`, `.tmpc`, `.bin`, three semaphores | `APIinsert*`, `APIselect*`, `dump`, `compactar` | `Almacen`, `LFSTabla` |
| life of a table | `APIS.c`, `compactador.c` | directories and their files, `ListaSem`, `TablasCompactacion` | `APIcreate*`, `APIdrop*`, `APIdescribe*`, `crearHiloCompactacion`, `funcionCompactar` | `CicloTabla` |
| bitmap and blocks | `bitmap.c`, `bloque.c`, and their use in `APIS.c`, `memTable.c`, `compactador.c` | mmapped `t_bitarray`, block files, the `BLOCKS` list of a file | take, give back, write | `Bloques` |
| scheduler | `Kernel/planificador.c`, `LQL.c`, `consola.c` | `cola_ready`, `elementos_ready`, `hilos_ejecutando`, `parametro` | `planificador`, `dispatcher`, `agregar_a_cola`, `abortar_proceso` | `Planificador` |
| criteria | `Kernel/criterio.c`, `memorias.c`, `conexion.c`, `recibir.c` | `lista_seeds`, the pools of SC, SHC, EC, `referencia_memoria_ec`, `tabla_metadata` | `elegir_memoria`, `handshake`, `agregar_consistencia`, `remover_memoria_consistencia`, `metadata_refresh` | `Criterio` |
| consoles, parsing, serialisation, logs, configuration | the rest | none of its own | I/O | not modelled |

**Interactions.**  Kernel to memory and memory to LFS: a TCP connection per
message, with an answer for SELECT, DESCRIBE (and a text nobody needs for the
rest).  Inside the LFS the threads share the memtable, the files of the table and
its semaphores.  Inside a memory the server and the console thread share the
cache.  Inside the Kernel every thread shares the queue, two counters and one
`struct parametros`.

**What is hard.**  A SELECT miss that overlaps an INSERT of the same key; the
journal, which empties the cache before the LFS has taken anything; a cache at its
limit; messages that overtake each other; a dump that numbers and writes a
temporal while the compaction renames temporals; the order in which SELECT
searches; a crash between deleting a partition and writing it again; unlocked
counters.  `PROJECT.json` lists every hazard at its line.

**What makes each part correct.**
* Cache: one page per key; the counter equals the pages; a modified page leaves
  only towards the LFS; the limit.
* Table: an accepted record, or a newer one, stays somewhere a SELECT looks; a
  SELECT is no older than what was complete when it arrived; compaction and SELECT
  exclude each other; everything ends in the partitions.
* Scheduler: every request runs exactly once; slots and counters add up.
* Criteria: what is chosen is in the pool and known; a table is always read where it
  was written; a memory that fails leaves every pool.
* Life of a table: every live table has semaphores to find, those of a dropped one
  go, a table has one reader or one compaction, nobody uses what DROP removed.
* Blocks: no two files list one block, no bit stays set for nobody, a written file
  holds its own records.
* Gossip: a table of seeds starts with oneself and names nobody twice, and all the
  memories that a chain of seeds joins come to know one another.

## 2. Plan

The order was: what decides whether a write survives (`Memoria`, `LFSTabla` with its
abstract specification `Almacen`), what decides whether and where a request runs
(`Planificador` with its abstract specification `Ronda`, and `Criterio`), then what
those take for granted (`CicloTabla`, `Bloques`, `Gossip`).  Each module but `Almacen`
and `Ronda` has an `MC` module with its instances and a module of proofs;
`LFSTablaImplementa` proves the refinement of `Almacen` on top of `LFSTablaProofs`.  How
they fit together:

* `Almacen` is what `Memoria` assumes of the file system (one newest record per key)
  and what `LFSTabla` is shown to implement.
* `Ronda` is what the Kernel promises to whoever types a script: a round robin.
* `LFSTabla` follows one table that lives; `CicloTabla` follows the creation and the
  removal of tables and takes from it that a table has files; `Bloques` follows the
  blocks those files list.
* `Criterio` chooses among the numbers that `Gossip` spreads; `Planificador` runs the
  requests that `Criterio` sends.

Left: a module `Registros` for the text of records cut at the end of a block
(`escribirEnBloque`, `buscarEnParticion`) against a reference definition; a composition
of the Kernel and several memories over one `Almacen`; the refinement of `Ronda` only
speaks of executions in which no update of the queue or of the slots is lost, and there
is no abstract specification yet of `Criterio`, `CicloTabla` or `Gossip`.

## 3. Modules

### Memoria
One MemoryPool process.  `paginas` holds the pages of every segment, with
`timestamp` and `flag`; `tamanio_memoria_ocupada` is the counter of the code.  The
server and the console threads share both without a lock, so a request that changes
the cache is three intervals: from its tests to the change of the lists (`Insertar`,
`Crear`, `Borrar` and `Journal` begin it, `Aplica` ends it with `insert`, `create`,
`drop` or `journal`), from there to the load of the counter (`Carga`) and from the load
to the store (`Guarda`).  A SELECT is a hit (`SelectAcierto`, `Responde`) or a miss
(`SelectFallo`, `LFSResponde`, `SelectCompleta`, or `SelectSinLFS` when there is nobody
to ask), during which the other thread may do anything.  Messages go to the set
`enTransito` and the LFS executes them in any order, since each has its own connection
and its own thread there.  The LFS itself is the newest timestamp per key (`lfs`), which
`Almacen` justifies.

`riesgo` names the overlaps of the two threads.  `cruza`: one changed the lists between
the tests and the change of another; both may then append a page of one key, or a list
operation undo the other, and `SeEnredan` leaves nearly anything, a dead process
included.  `contador`: one counted while another had changed the pages and not stored
its count.  The code does have both faults; the properties hold until the first of
them, which a restart forgets.  `ultimo` remembers every write this memory accepted,
also of a table the LFS does not have yet, and `tiradas` the ones the LFS then threw
away because the INSERT overtook its CREATE.

### Almacen, LFSTabla
`Almacen` is the promise: a register per key that only grows, and SELECTs whose
answer lies between what was complete when they arrived and what is there when
they end.  `LFSTabla` is the table: one action per step that another thread can
observe.  `dump` is `EmpiezaDump`, `SaltaNumero` (the search for a free number),
`CreaTemporal` (`fopen`), `EscribeTemporal` (the blocks) and `TerminaDump`;
`compactar` is twelve actions from `EncuentraTemporal` to `TerminaCompactacion`; a
SELECT is eight, one for each semaphore and each place searched.  A file is the set
of its records.  Between `CreaTemporal` and `EscribeTemporal` the file exists without
its `BLOCKS` line or with some of its blocks, and so does a partition that the
compaction is writing: whoever reads it then (`LeeArchivo`) finds some of the records,
half of one, or a null pointer.  `Caida` kills the process at any moment, and what it
was writing stays as it was; `Reinicio` starts it over the files.

`riesgo` is a history variable.  It records which overlaps have happened: a temporal
was renamed between its creation and its writing (`renombre_a_medias`), the dump left a
hole in the numbering (`hueco`), the process died in a compaction
(`caida_compactando`) or in the middle of a file (`roto`), or somebody read a file that
was being written and not just its whole records (`lee_a_medias`).  After the first,
the third and the fourth records really are lost, after the second they are out of
reach, and after the last a SELECT may have died or answered anything and nothing is
lost: the properties say "until then", and `Conservado` and `HuecoNoPierde` separate
the last two from the others.  The other modules use a variable of that name in the
same way: it only grows while the process lives, it holds the names of interleavings or
inputs the code has no answer for, and every property says which of them it does not
survive.

### CicloTabla
CREATE, DROP and what they share with everything else in the LFS. A table is a directory
and the kinds of files in it; `ListaSem` is the list of `semaforoTabla` structures, each
a number, which every operation looks up by name (`list_find`) and which only the
compaction thread of the table takes away. A client (a connection thread or the console)
goes through `APIcreateRESPUESTA` (directory, metadata, partition, semaphore, thread),
`APIdropRESPUESTA` (two verifications, memtable, partition, temporals, metadata,
directory), the SELECT of a memory (three waits, three reads, the post), that of the
console (`APIselect`, which looks at two semaphores, holds none and reads all the same),
INSERT or DESCRIBE; a compaction thread sleeps, wakes, notices that its directory is
gone and removes a semaphore (`saca`, `olvida`), or compacts. Every lookup, every wait
and every file is a step. A client holds the address of the semaphore it found
(`puntero`), which may have been freed. `ListaSem` and the dictionary have no lock: a
change of them is a search and then a link, in CREATE (`create_lista`,
`create_semaforo`, `create_anota`) and in the thread (`indice`, `saca`, `olvida`).
`riesgo`: two such changes, or a lookup and a removal, overlapped (`enlaces`; the list
may then be anything and whoever uses it die), the console's SELECT read what a
compaction or the dump had in its hands (`consola`), a CREATE or DROP overlapped another
use of the table (`solapa`), a SELECT of a table that does not exist posted a semaphore
(`inexistente`), a semaphore in use was destroyed (`liberado`), CREATE started the list
again over other tables (`lista`), the dump found the memtable emptied (`memtable`),
DROP left a `.tmpc` (`resto`).

### Bloques
Who has which block. `bitmap` is the mapped file, `archivos` gives for each table and
kind of file the blocks it lists and whether they were written, `contenido` whose
records a block holds. `CREATE`, `DROP`, `dump` and `compactar` start an operation; its
thread then takes blocks (`PideBits`, `Encuentra`, `Prende`, or `Fantasma` when no bit
is clear), creates and loads the file (`CreaArchivo`, `cargarRegistros`), or gives
blocks back (`PideLimpiar`, `LimpiaBloque`, `Apaga`, `BorraBloque`, `QuitaArchivo`). A
bit is changed by reading its byte and writing it, in two steps: `SemaforobitArray`
protects all of that but the removal of a temporal. DROP and the compaction start
whatever is at work on the table, as in the code, where the one looks at a semaphore it
does not hold and the other at the existence of a `.tmp`: they go on with the blocks
they read from the files they opened (`lista`), and die if there is no file or no
directory (`SinSalida`). `Cae` ends and restarts the process between any two steps and
keeps the disk and the bitmap. `riesgo`: DROP or a compaction started over a CREATE, a
DROP or a compaction of its table (`solapa`) or over the dump that was writing its
`.tmp` (`a_medias`), a byte was written over (`byte`), the disk was full (`lleno`), a
block was removed after somebody took it (`borra`), a `.tmpc` was written over
(`resto`), a crash lost blocks (`pierde`) or left a file with cleared bits (`repite`).

### Gossip
`tabla_gossip` of every memory, its gossip thread and its server thread.  The first
connects to each seed, sends its list and adds what it is answered; the second serves
one connection at a time.  A list operation looks (`busca`) and then links (`toma`,
`enlaza`) with no lock between the two threads, and `elements_count` is apart from the
links.  `Cae` kills a memory at any moment: whoever was talking to it reads garbage or
dies at its next `send`; `Arranca` starts it with an empty table.  `riesgo`: `cruza`,
`corte` and `tuberia`, as the module says.

### Planificador
The scheduler of the Kernel: the console thread, the spinning scheduler thread and
the dispatchers, with no lock among them.  `x++` is a load and a store (`SumaElemento`,
`RestaElemento`, `SubeHilo`, `BajaHilo`), because the makefile builds without
optimisation; a queue operation looks at the list (`VeUltimo`, `VePrimero`) and then
changes it (`Enlaza`, `Desenlaza`), and what an overlap leaves of the list follows
from the links commons writes.  `Asigna` puts a line in the shared `parametro` and
`request` reads it after the delay, possibly another dispatcher's.  A process is a
script or a single request; the text of a line is its number.  `riesgo` remembers
which updates have overlapped (`elementos`, `hilos`, `cola`, `parametro`), and each
property says which of them it does not survive.

`Ronda` is the abstract specification: processes arrive, the first of the queue gets a
slot, its lines are executed in order, and after `QUANTUM` of them it goes back to the
end.  The mapping: `nuevos` are those not typed yet and the one the console has in its
hands before it is linked; `cola` is `cola_ready`; who runs is who a dispatcher has
between taking him out of the queue and linking him again or giving up his last line
(`EnEjecucion`); `turno` counts the lines of the turn that have been executed
(`TurnoDe`).  The counters, the looks at the list and the loads are stutters.

### Criterio
How the Kernel sends a request to a memory.  `vector` is `vector_consistencia`, a
sequence of numbers per criterion; `referencia` the index of the round of EC;
`seeds` and `metadata` the sets of numbers and tables that are known.  The threads
are the dispatchers (`Hilos`) and `metadata_refresh` (`Refrescos`); each runs
`elegir_memoria` in as many steps as it makes calls of commons or accesses to the
reference: `Mira` (`list_is_empty`), `Cuenta` (`hash`), `Compara`,
`VuelveAlPrimero`, `LeeReferencia` and `AvanzaReferencia` (`get_memoria_fifo`),
`Toma` (`list_get`), `Busca` (`get_seed_especifica`).  `Conecta` then succeeds or
not, and a memory that failed is taken out of the three pools one after another.  A
call that changes a pool, with no lock, is two steps: it looks (`EmpiezaAlta`,
`EmpiezaAgregar`, `Quita`) and writes (`Limpia`, `Agrega`, `Saca`); what two of them
leave when they overlap is `Deja`: an element lost, another one taken out, or one
counted more than there are, for which `list_get` gives NULL, that is memory 0.
`SumaAscii` is an integer, since the letters are signed, and the index of SHC may be
negative.

`riesgo` records which accesses have overlapped (`lista`: two changes of one pool;
`pool`: a change while a thread chose from it; `ronda`; `dosSC`) and which inputs the
code does not reject or survive (`negativo`, `desconocida`, `criterio`, `alta`,
`sinRespuesta`, the last one also when the handshake or an answer is read from a
connection that failed, `recibir_seed`); `destino` and `ronda` remember what was chosen
since the pool last changed.  Each table keeps one criterion, and a CREATE is taken to
name it: dropping a table and creating it with another is not followed.

## 4. Runs

| Run | Instance | Shows |
|---|---|---|
| `memoria_hilos` | 1 table, 3 keys, 2 threads, 2 pages, the LFS down and up, restarts | until two threads overlap on the lists or the counter: one page per key, a counter that is short only by what is still to be stored, and every way a modified page can be lost, with overlapping SELECT misses and equal timestamps; deadlock is checked |
| `memoria_durable` | 2 tables, 2 keys, 1 thread, 1 page, timestamps to 3 | an accepted write is lost only when the LFS throws it away, for want of the table, while messages are reordered; the excess over the limit is bounded |
| `memoria_capacidad` | 2 tables, 2 pages | **violation**: a full memory grows |
| `tabla_almacen` | 2 keys in 2 partitions, 3 INSERTs, 3 temporals, a SELECT, fairness | refinement of `Almacen`, exclusion, nobody dies, every SELECT ends, every record ends up in the partition of its key, until an overlap of `riesgo`, a file read half written among them |
| `tabla_caida` | 1 key, 2 INSERTs, crashes, a console SELECT, every overlap | what is lost and by what |
| `tabla_consola` | as `tabla_caida`, no crashes | **violation**: the console's SELECT during a compaction kills the process |
| `plan_carreras` | 2 scripts of 2 lines, quantum 1, 2 slots, 3 thread names | refinement of `Ronda`, the counters, the slots, one place per process, the order of the lines, under every interleaving |
| `plan_turnos` | a script of 3 lines, 2 requests, quantum 2, 2 slots, fairness | everything typed ends, every slot is given back |
| `criterio_elige` | a table of SC and two of SHC, one of them with negative letters, DESCRIBE for EC, 2 memories of which one is not known at first, 2 dispatchers, 2 ADD MEMORY | choices from the pool, tables read where they were written, the round, one memory for SC, failed memories out of the pools, and what kills the Kernel |
| `ciclo_bajas` | 1 name, 2 clients, 4 requests, up to 3 semaphores, fairness | a table created, dropped and created again before its thread notices: the list stays usable until two changes of it overlap, one reader or one compaction, nobody waits for a semaphore that nobody will post, no directory left hollow, nobody dies, the semaphore goes |
| `bloques_reparto` | 2 tables, 4 threads, 3 blocks in a byte of 4, 5 operations, crashes, a DROP or a compaction over any other operation | a semaphore down exactly while somebody is inside, no block in two files, no bit set for nobody, a file holds its records |
| `gossip_tres` | a chain of 3 memories, a crash and a restart, fairness | sound tables, nothing forgotten, nobody dies of an idle peer, all come to know those they are joined to and nobody else |

**Bounds.**  Two keys in two partitions are enough for one partition to be
rewritten while the other still depends on the lists; two INSERTs let a second dump
meet the compaction of the first, and three let a third temporal follow.  Two
threads are all a memory has.  One or two pages put the cache at its limit at once,
and three keys in one table of two pages make an eviction choose between a modified
and an unmodified page, of equal timestamps or not.
`CHECK_DEADLOCK FALSE` is set where the INSERTs or messages are bounded and the
instance stops when they are used up, or when the process has died.  Two scripts of
two lines with quantum 1 make each go back to the queue while the other is taken out
of it, and one thread name more than there are slots lets the limit be broken.
In `criterio_elige` two ADD MEMORY give a pool of two, a duplicate or two memories of
SC, and two threads every pair of overlapping choices, additions and removals; the
table whose letters add to less than 0 is only CREATEd, because what follows its choice
is not followed;
`metadata_refresh` only makes choices that a dispatcher with DESCRIBE also makes, so
the instance leaves it out and the proofs do not.  `MaxReferencia` only cuts the
values that overlaps can give the reference.
In `ciclo_bajas` four requests are the shortest history with a CREATE, a DROP, a CREATE
of the same name and something that uses it, and two clients let any two of them
overlap; `MaxCuenta` stops at the first value a semaphore must not have, and
`MaxSemaforos` lets three of the four be CREATEs.  In
`bloques_reparto` a byte has four bits instead of eight: what matters is that two
blocks share a byte and that BLOCKS is not a multiple of its width, so that CREATE may
take a bit the others do not look at; five operations let both tables be created, and
one of them be dumped, compacted and dropped; an overlap is followed when it comes
within the first four.  In `gossip_tres` the chain has a memory without
seeds, one in the middle that asks and is asked, and one nobody points to.
`Interesa`, `SinSolapes` and `ListaEntera` are CONSTRAINTs that stop an execution when
`riesgo` has some names: any of them in `tabla_almacen` and `memoria_hilos`, `enlaces` in
`ciclo_bajas`, two names in `gossip_tres`, `byte` or an overlap after the fourth
operation in `bloques_reparto`, `lista`, `negativo` or `sinRespuesta` in
`criterio_elige`.  TLC still checks the state that has the name and the step that leads
to it.  Since `riesgo` only shrinks when `Memoria` restarts, from an initial cache,
every property conditioned on those names is true from there on, so nothing conditioned
is missed; what is not so conditioned (`Exclusion` of `LFSTabla`, `SemaforosConDueno`,
`TablaSana`, and the properties of `criterio_elige`, `ciclo_bajas` and `gossip_tres` that
survive some name that cuts the run) is proved without the constraint.  The type
invariants of `Memoria`, `LFSTabla`, `Planificador`, `Criterio`, `CicloTabla`, `Bloques`
and `Gossip` are proved too and no run lists them.

**Fairness.**  `SpecEquitativa` assumes weak fairness of the dump thread, the
compaction thread and each SELECT: the threads are the operating system's, each
loops for ever and none is starved.  Clients are under no obligation.  Semaphores
need no strong fairness here because the number of requests is finite.  `SpecSerena`
looks at the executions of `Planificador` in which no counter or queue update
overlaps another, because liveness is lost with the first lost update; in them the
scheduler, the dispatchers and the console's insertion are weakly fair.
`CicloTabla` assumes weak fairness of the steps of a request already received, of each
compaction thread and of the dump: all of them are threads of the system, and
the clients may stop asking.  `Gossip` assumes it of both threads of each memory, which
loop for ever, and neither of crashes nor of restarts: `Convergencia` only promises
something to executions in which everybody is up from some moment on.

**Findings.**
* `memoria_capacidad`: `journal_y_agregar` is entered when *this* table has no clean
  page (`API.c:144` says none has); if the pages of other tables are clean the
  journal frees nothing and the page is added beyond the maximum.
* `tabla_consola`: `APIselect` is served during a compaction, as the comments of the
  two semaphores intend (`compactador.h:46-47`), but `APIS.c:123` adds the wrong
  pointer when the key is in a `.tmpc`.

## 5. Proofs

`MemoriaProofs` proves, for any number of threads, the types and `Contabilidad`,
`ClaveUnica`, `CapacidadAcotada` and the action property `SoloPierdePorEmpate`, each
until the overlap it names, from one inductive invariant.  `Turnos` is what makes them
inductive: until a name of `riesgo` one thread at most is counting, and the counter it
has loaded is still the counter; the tests of `Aplica` are those the code made because
nobody changed the lists in between.  What a change leaves is collected once (`Forma`, `Hecho`,
`Conserva`), and after `cruza` only the types are claimed, through `SeEnredan`.

`EscrituraNuncaPerdida` proves `EscrituraConservada` under `UnHilo` (one thread, a strict
clock, an LFS that answers: what `memoria_durable` runs).  In it `riesgo`
is always empty, because one thread overlaps nobody.  Four facts carry it: no two keys carry
the same timestamp (`Sellos`), so the page `reemplazar_pagina` evicts is one that was
not modified; the key a thread waits for has no page (`Esperando`), so the LFS's answer
overwrites no write; nothing is remembered that the clock has not given (`Recordado`);
and each key has its newest accepted write in a page, in a message, in the LFS or among
those the LFS threw away (`Guardadas`), which every INSERT, CREATE and DROP the LFS
executes, in whatever order, keeps.

`LFSTablaProofs` proves `TypeOK`, `Exclusion`, `SinEsperaCircular`, `Conservado` and
`HuecoNoPierde` for any keys, partitions, requests and bounds, with crashes.
`SinEsperaCircular` (who has the memtable or `semaforoTabla` waits for nothing, and a
compaction that has begun finds `semaforoTabla` free) is what keeps `SelectTermina` and
`TodoCompactado` from a deadlock; it follows from `Semaforos`, which ties each semaphore
to the places where it is down.  The invariant is
`TypeOK /\ Semaforos`, with `Datos` until a record can be lost and `SinHuecos` until
one can be hidden; reading a file half written (`lee_a_medias`) ends neither, since a
SELECT changes no file and the compaction only meets one after `renombre_a_medias` or
`roto`.  `Conservado` alone is not inductive: when a copy of the records
is destroyed (a `.tmp` renamed, a `.bin` replaced, the `.tmpc` removed, the lists
freed), one must know that the next copy already holds them.  `Renombrados` and
`EnManos` say so for every phase of the compaction, `Volcando` for the dump.  Every
step then turns records into newer ones of the same keys (`Hereda`, `Supersede`),
the merge because a finite range of timestamps has a greatest one
(`HayMasReciente`).  `SinMuertes` needs besides that only the partition being
rewritten lacks its file (`Existen`), and that the exclusion keeps every reader away
from it.  The only assumption is `ConstantesLFSTabla`.

`LFSTablaImplementa` proves that the table is an `Almacen` (`ImplementaAlmacen`, when
the process is not killed) and `SelectFresco`, which no run lists because the
refinement implies it.  To the invariant of `LFSTablaProofs` it adds that nothing is
invented (`Propios`: what is in a file has been accepted) and that a record is in the
partition of its key.  Then the newest visible record of a key is the newest accepted
one (`VisiblesAceptados`), so that INSERT is the only step that changes the abstract
register.  For the SELECTs, `Lectura` says what a request in the middle of its search
has still to find: everything accepted before it arrived is superseded in what it has
found or in a place to come.  The dump moves records from the memtable to the
temporals, which are read later; the compaction would move them to a partition already
read, and is kept out by the semaphore the reader holds.  So an answer is not older
than what was complete when the request arrived (`RespondeEsResponder`).  The same
invariant gives `EnReposoCompactado`, the safety half of `TodoCompactado`: at rest the
lists, the `.tmpc` and the `.tmp` are empty, so the record that supersedes an accepted
one is in a partition, and by `EnSuParticion` in that of its key.

`PlanificadorProofs` proves every safety property of the scheduler for any
processes, scripts, number of dispatchers, `QUANTUM` and `MULTIPROCESAMIENTO`, from
`ConstantesPlanificador` alone.  The ground is `Base`: types, the places of each kind
of thread (`Sitios`), who holds a process (`Duenios`) and that whoever is to run a
line still has one (`Renglones`).  It holds whatever overlaps: an append that lost
its place cuts processes off the list or replaces it (`EnlazadaUnica`), a removal
that lost its place shortens it, and neither can repeat a process.  That is why
`UnSoloLugar` is true even of executions it does not speak of.  On that ground stand
three invariants, each up to the overlap it names.  `Cuenta`: the length of the queue
is the counter plus the threads between the two, because the push precedes the
increment and the decrement precedes the pop; it also keeps what the scheduler saw
true while it acts on it.  `Cupo`: the slots, where `Subiendo` is the thread created
and not yet counted.  `Orden`: the lines that ran are the lines taken, but for the
one being asked for.  A load followed by a store adds one to a counter exactly when
`riesgo` does not grow, which is how the unlocked updates enter the proof.

The refinement of `Ronda` (`ImplementaRonda`) rests on all of them.  `EnlazadaEsAgregar`
and `SegundoEsCabeza`: an update of the list that nobody crosses is `Append` or `Tail`,
whatever node the thread saw.  `Cupo`: who runs has a thread that is counted, so a
dispatch finds fewer than `MULTIPROCESAMIENTO` running.  `Orden`: the line executed is
the next one, and `Unicos`: a single request is executed once.  Every other step leaves
the four mapped values as they are.  `SinPerdidos` is the safety half of
`TodoSeEjecuta`: what was typed is queued, held by a thread or has no line left, and
together with `UnLugarPorProceso` that is `NadieSePierde`.

`CriterioProofs` proves, for any memories, tables, threads, sums of letters and bounds
and from `ConstantesCriterio` alone, everything `criterio_elige` checks. `TypeOK` needs
`Lugares`, which ties the place of a thread to what it was asked for. `EligeDelPool` and
`SinMuertes` need to know that what was seen at the start of a choice still holds at its
end: `PoolQuieto` (while somebody chooses his pool stays, or `riesgo` has `pool`) gives
`Llenos`, the pool is not empty and the index of SHC is that of the name; `Vuelta` says
that one thread at most is in the round, and that the reference is an index of the pool
when it is used. With `Conocidas` (what is in a pool has a seed) the chosen number has
one. All of it holds until `lista`: a call that writes a pool finds it as it looked only
when no other has begun on it. `SeLeeDondeSeEscribio` follows from `Destinos`: what is
remembered is what the hash would choose now. `CaidaSale` needs pools without copies
(`SinCopias`), because only the first is removed, and that no pool already gone over
gets the memory back (`Barridas`). That `SinPrimero` takes out exactly one place rests
on the well-foundedness of the naturals (`PrimeraVez`). `Reparto` needs `Giro`: each of
the last choices is, in closed form, the index that many places before the last one in a
round of the pool's size (`Vueltas`, which is what makes them distinct), and the
reference is at the last choice or at the next index according to where the only thread
in the round is.

`CicloTablaProofs` proves, for any tables, clients and bounds, every invariant that
`ciclo_bajas` checks. `Exclusion`: a semaphore is found by name in a list where there
may be several of that name, and the mutual exclusion of a table rests on everybody
using the same one. The invariant says that while somebody holds the address of an
element of a name, the first element of that name does not change (`Firmes`), and that
whoever is inside took it and finds it at zero (`Tomados`). The types need that an
address held is of an element created (`Direcciones`). `SemaforoPorHilo`: the elements
of a name are as many as the threads that have not removed theirs (`Contados`, by
counting positions when one is appended and when the first is removed), and a table with
metadata has such a thread or a CREATE that will start one (`ConDueno`); the thread that
a CREATE has yet to start is nobody else's (`Nacientes`). `SinCarpetaHueca`: while no
CREATE or DROP overlaps another operation on its table, a directory lacks its metadata
or its partition only while one client or thread is at work on it, and what a DROP has
deleted does not come back (`Vida`). `SinMuertes` puts all of them together: a user of a
table finds its files by `Vida`, its semaphore by `Contados` and `ConDueno`, and no
other thread has the partition out because that one would hold the same semaphore; what
`chekearDumpeo` saw is there when the dump starts (`Volcada`) and has a directory
(`MemtableConTabla`). What is read from `ListaSem` is what its links say until
`enlaces`: a search and its link are one change as long as nobody else is between the
two. `NadieEspia` keeps the console's SELECT from a table that a compaction has in its
hands until `consola`. `NadieEsperaEnVano`: an element at zero is held by a SELECT or a
compaction (`CerosConDueno`), whoever waits has the address of an element of the list
(`Firmes`), and a compaction past its first wait holds what makes `semaforoTabla` free,
so the semaphores of a table close no circle.

`GossipProofs` proves, for any memories, seeds and number of crashes, everything
`gossip_tres` checks but `Convergencia`, and of that one the safety half.  Between the
test and the append of a thread the table is not to change, and it may: `PorAgregarSana`
says that until two appends cross the seed to be added is absent and the element found
is the last one; `Ocupada` ties what a connection holds to the places of its two ends.
From the same invariant an append that does not cross another goes to the end, which is
`NadieOlvida`. `SoloEnlazadas` needs one of its own: `Enlazado` follows a name from a
table to a connection, to the list a thread goes over and to the next table, each time
over a pair that a chain of seeds joins, until a `recv` fails and garbage is taken for a
list.

`BloquesProofs` proves, for any tables, threads, sizes of the bitmap and of its bytes
and bounds, and with crashes at any moment, everything `bloques_reparto` checks.  The
invariant has four layers.  `Suelta` holds whatever overlaps: types, the place of each
thread in its list of blocks, and who is inside the semaphores (`SemaforosConDueno`, a
property in itself and an unconditional one: every way out of them gives them back,
that of a full disk included).  `Base` adds, until DROP or a compaction starts over
another operation of its table, that a thread's files are as it found or left them
(`DeSuArchivo`) and that at most a dump shares a table with a CREATE or a compaction
(`Comparten`).  A block in use is in a *place*, of a file (`Vivo`) or of a thread whose
file does not exist yet (`Tomado`).  `SinCompartir` says less than what is needed: places
are distinct (`Repartidos`), and the bit of a place is set or about to be (`Marcados`),
so that a clear bit is nobody's.  That a byte read and written later changes one bit is
`Leidos`, which the semaphore gives and `byte` takes away.  `SinFuga` is the converse
(`Listados`: every set bit has a place) and needs that a file being created was not
there (`Estrenos`).  `ContenidoPropio` adds what the places hold (`Contenidos`): those of
a written file its records, those of a thread that has not written yet nothing, and the
block being removed is one whose bit is clear.

Only model-checked: liveness (`TodoCompactado`, `SelectTermina`, `TodoSeEjecuta`,
`TodoVuelveAReposo`, `BajaLibera`, `Convergencia`: fairness and ENABLED are out of the
prover's reach).  What is proved is what they rest on: nobody waits for a semaphore that
nobody will post (`SinEsperaCircular`, `NadieEsperaEnVano`, `SemaforosConDueno`), nothing
is lost on the way (`Conservado`, `NadieSePierde`, `NadieOlvida`), and what is reached is
what was promised (`EnReposoCompactado`, `SoloEnlazadas`).

## 6. Not modelled, and why

* The text of records and where it is cut at the end of a block; file names, among them
  the 3-byte buffer for the number of a temporal; configuration files, logs, consoles,
  parsing and serialisation: they keep no state the properties see.
* JOURNAL of the Kernel, which only reads the list of seeds; DESCRIBE in `Memoria`,
  which changes nothing; the handshake with the Kernel in `Gossip`, which only reads the
  table.  `metrica.c` is not in the repository.
* What `Memoria` does after two of its threads overlap (`SeEnredan`) is wider than what
  the code can do in most cases, and nothing is claimed of it.  With the LFS down
  `terminar_conexion` closes descriptor 0, the standard input; the model ends the SELECT
  and keeps the console.  `Criterio` and `CicloTabla` bound in the same way what an
  unlocked list of commons is after two changes at once (`Deja`, `enlaces`).
* Hazards that no property is about, because the code simply has the fault: a SELECT
  miss caches an answer older than an INSERT of the other thread (`API.c:8`, one of the
  losses `PerdidaJustificada` lists), an INSERT into a table without a segment kills a
  full memory (`API.c:137`, `muere_sin_segmento`), any word is a criterion (`utils.c:159`,
  `PideSinCriterio`), the hundredth temporal overflows its name (`APIS.c:873`), a script
  that ends in a newline has its last line twice (`LQL.c:9`).
* In `Gossip` a message arrives whole or not at all; in the code a `recv` may also
  return part of it.
* `CicloTabla` and `Bloques` give a table one partition, and `CicloTabla` starts with
  complete tables or none; the key that `dictionary_remove` compares after it was freed
  is taken to be still readable.
* `Bloques` writes a file in one step once its list of blocks is there, and `LFSTabla`
  has it half written; a table has there at most one `.tmp` and one `.tmpc`.
