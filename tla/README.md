# A formal model of project-condominio

project-condominio is the server of a condominium portal: NestJS over MongoDB
(Mongoose), with Redis for caches, a lock and a BullMQ queue. Residents report
payments, the administrator of a building issues receipts and accepts or rejects
payments, an accepted payment is applied to the apartment's receipts and to its
credit, and a collection report shows who owes what. This directory holds TLA+
modules translated from that code, the TLC configurations that check them and
the proofs TLAPS checks.

Paths below are relative to `src/src/` unless they say otherwise.

## 1. The system

| Component | State it keeps | Operations that change it | Why it is hard |
|---|---|---|---|
| **payments** (`payments/`) | collection `payments` | `create`, `updateEstado` (accept, reject) | `updateEstado` is a chain of awaits over four collections without a transaction; it does not look at the state the payment had |
| **receipts** (`administracion/recibos*.ts`, `utils/recibos-*.util.ts`) | collection `administracion` | `create`, `applyPagoAceptado`, `updateManyByIds/ByMeses` | `$set` of values computed from a copy read before |
| **apartment credit** (`administracion/abono-apartamento.service.ts`) | collection `abono_apartamento`, cache entry of 60 s | `getMonto`, `agregar` (`$inc`), `consumir` (read, then `save`) | two ways of writing the same amount, one of them from a stale read |
| **collection report read model** (`administracion/cobranza-snapshot.service.ts`) | collection `cobranza_snapshot`, cache entry of 300 s, lock of 120 s | `programarRebuild`, `rebuild`, `obtenerReporte` | a distributed lock without a token, a skipped rebuild, a cache filled by readers |
| **collection report** (`administracion/cobranza-report.service.ts`) | none | `build` (five queries at the same time), classification, workbook | the queries are no snapshot |
| **Excel jobs** (`administracion/cobranza-excel-job.*.ts`) | collection `cobranza_report_jobs`, the queue, GridFS | `crearJob`, `procesar`, TTL index | a document and a queue written one after another, jobs delivered twice |
| **cache and lock** (`common/cache.service.ts`) | Redis keys | `get`, `set`, `delete`, `acquireLock`, `releaseLock` | every Redis error is swallowed |
| **listings** (`administracion/recibos-cache.helper.ts`, `findAll` of the services) | cache entries | read through, `deletePattern` | an old list cached after the invalidation |
| **buildings and subscriptions** (`buildings/`) | collection of buildings | `renovarSuscripcion`, `suspender`, `marcarVencido`, guards | read-modify-write, a write fired without await |
| **provisioning** (`super/`, `onboarding/`, `apartments/`, `user/`, `bootstrap/`) | buildings, apartments, users | `crearEdificio`, `registerBuilding`, `onModuleInit` | several collections one after another, no compensation |
| **owners** (`owners/`, `owners-login/`) | collection of owners | `create`, `update`, `changePassword` | check, slow hash, save |
| **exchange rate** (`tasa-bcv/`) | cache, and a table of requests in progress per instance | `getTasa`, `getTasaPorFecha` | callers that share one request, answers kept beyond their day |
| **notices** (`avisos/`) | collection of notices, an hour per device in Redis | `create`, `update`, `remove`, `markAsRead`, the count | a visit and a notice each take their hour before they store it, and the hour of a visit is of no building |
| **voucher recognition** (`ocr/`) | cached predictions, collection `ocr_logs` | `extractReceipt`, the log written by `PaymentsService.create` | two requests that meet in one cache entry |
| **files, regulations, banner** (`files/`, `reglamentos/`) | GridFS, the names a building keeps | upload, set, clear, download | a stream and then a reference to it |
| **authentication** (`auth/`) | none | login, tokens | the owner's login meets his updates: see owners |
| **banks, mail, shell, scripts** | none | static data, pure I/O | little: see `PROJECT.json` |

### How they interact

`PaymentsController` calls `PaymentsService.updateEstado`. Accepting a payment
sets its state, then calls `RecibosPagoService.applyPagoAceptado`: it reads the
receipts, asks `AbonoApartamentoService` for the credit (through the cache),
computes how much of the debt payment and credit cover, changes the credit,
reads the receipts **again**, writes them with `bulkWrite` and calls
`programarRebuild`; back in `updateEstado` the receipts written are stored with
the payment and `programarRebuild` is called once more. `programarRebuild` is a
`setImmediate` in the process that served the request: it takes the building's
lock in Redis or gives up, runs the five queries of `CobranzaReportService.build`,
replaces the snapshot and deletes the cached report. `obtenerReporte` serves
cache, snapshot or, on a cold start, builds the snapshot itself: with the lock,
or after eight polls without it. An Excel file is made by a job that reads the
snapshot: the facade writes the job's document, adds the job to BullMQ, and a
worker stores the file and marks the document that the client polls.

`findAll` of payments and receipts reads through a cache whose keys every writing
request deletes at its end. A payer's voucher is recognised by one request and
registered with the payment by another; the prediction travels between them in
a cache entry named by the hash of the image. `BuildingsService` keeps the
subscription, and the ids of the files that the portal shows. `SuperService` and
`OnboardingService` create a building in three collections, and every instance
that starts looks for the platform's account.

Two facts of the platform shape every module. Between two awaits of one request
any other request may run, in the same process or in another instance. And
nothing here uses a MongoDB transaction: a query over several documents may see
some before and some after another request's writes, and a `bulkWrite` that
fails half way leaves what it has written.

### What makes each component correct

* payments, receipts, credit: no receipt is paid beyond its amount; state, amount
  paid and ledger of a receipt agree; a payment nobody has ruled on moves
  nothing; money neither appears nor is spent twice; the excess is credited.
* read model: one builder at a time; the snapshot does not go back; the cache
  follows it; after the last write the report becomes fresh; readers are answered.
* Excel jobs: ready means there is a file; a result that was told stays; every
  job comes to an end.
* subscriptions: a renewal adds its days to what was there and is recorded; a
  suspension is not undone by a request that started before it.
* provisioning: a building that is not being created is complete, or it is known
  why not; one subdomain is one building; the platform has one account for
  each way its name is written in upper and lower case, nobody takes it away, and no
  start overwrites it or adds another.
* owners: the address kept in one field agrees with the one kept in two; who is
  deactivated stays so; a token is given for the password that is valid.
* exchange rate: one request per key and instance; nobody waits on a request that
  is over; an answer is of its day, or there is a reason.
* listings: an old list is about to be deleted, or it is known why not; in the end
  every cached list is current.
* notices: what a device was shown is not counted again; what it was not shown is, or
  it is known why not.
* vouchers: an error the payer sees means that no payment was registered; a
  prediction is logged once.
* files: what a building names is a whole file of the right type.

`PROJECT.json` lists the hazards behind these sentences, each at the line where
it bites, with the properties that watch it.

## 2. The modules

    LibroMayor            accounts of one apartment: the abstract specification
       ^ refined by
    PagosContables        sums and accounts over Pagos
       EXTENDS Pagos      accepting payments, one step per await
    Totales               the sum of a function over a set
    PagosProofs           proofs about Pagos and its ledgers
    PagosCausas           PagosContables, and what has happened that may upset the accounts
    Sumas                 lemmas about sums over finite sets, and a few about runs in parts
    CuentasProofs         the refinement of LibroMayor, and proofs about PagosCausas and Cobro
    MCPagos, MCCausas     instances of PagosContables and PagosCausas (MCCausas: the passing runs)

    CobranzaSnapshot      read model, cache, lock
    CobranzaProofs        proofs about it
    MCCobranza            instances

    ExcelJobs             Excel jobs, queue, files
    ExcelProofs           proofs about it
    MCExcel               instances

    Cobro                 the collection report beside the steps of Pagos
       EXTENDS Pagos
    Suscripcion           subscription of a building and the guard of its portal
    AltaEdificio          creation of buildings, their accounts, the platform's
    AdministracionProofs  proofs about Suscripcion and AltaEdificio
    MCAdministracion      one instance of each of the three; AdministracionProofs EXTENDS it

    TasaBcv               exchange rate
    Archivos              files and the names a building keeps of them
    ListadoCache          cached listings
    Propietarios          owners and their login
    AvisosLeidos          notices
    Comprobantes          recognition of a voucher and registration of its payment
    EdificioProofs        proofs about ListadoCache and Propietarios
    ServiciosProofs       proofs about TasaBcv, Archivos, AvisosLeidos, Comprobantes
    MCServicios           one instance of each of the six; ServiciosProofs EXTENDS it
    MCArchivos            an instance of Archivos alone

    MCResponde            liveness: CobranzaSnapshot, ExcelJobs, TasaBcv, ListadoCache

In all of them an action is what the code does between two awaits, and its name
is the method's where there is one. Properties stand at the end of each module,
followed by the parts of its inductive invariant. The definitions with names
such as `ConsumirSinGuardar` are faulty variants of the definition that follows
them: slips the code could have, each of which breaks one property. They are
part of no specification.

Components that share no state are checked side by side: in `MCAdministracion`,
`MCServicios` and `MCResponde` the variable `parte`, chosen at the start, says which of
them the behaviour is about, and the others stay as they begin. The states of
such a run are the sum of the parts' states and not their product. A name that
two modules of one run would share carries its module's (`NextAlta`, `TypeOKTasa`).

### Pagos

One apartment. `recibos`, `pagos` and `credito` are its documents in the three
collections, `cacheAbono` the cached credit, `ses` the requests in flight with
their program counter and local variables. An acceptance walks through

    Aceptar            findOneAndUpdate of the state                    payments.service.ts:180
    LeerDeuda*         first query of the receipts, one by one          recibos-pago.service.ts:193
    SinDeuda           early return when nothing is owed                recibos-pago.service.ts:40
    LeerCache, LeerAbono, FijarCache     getMonto, read through         abono-apartamento.service.ts:18
    Agregar, Invalidar                   agregar ($inc, delete)         abono-apartamento.service.ts:36
    Consumir, Guardar, Invalidar         consumir (find, save, delete)  abono-apartamento.service.ts:60
    Releer*            second query of the receipts                     recibos-pago.service.ts:149
    EscribirRecibo*    the updateOne's of bulkWrite, one by one         recibos-pago.service.ts:220
    AnotarRecibos      recibosPagados of the payment                    payments.service.ts:209

and `Abortar` ends it anywhere. `EmitirRecibo`, `CrearPago`, `Rechazar` and
`Consultar` (the public page that asks for the credit and so fills the cache) are
the other requests; `ExpirarCache` is the TTL. The amounts computed by
`calcularAplicacionPagoConAbono`, the filter and sum of
`recibos-pendientes.util.ts` and the fields `prepararBulkAbonosRecibos` sets are
operators of the same meaning, over naturals instead of doubles. The receipts of
the months a payment declares are the constant `Coincide`; the order in which
receipts are served is left open, since the code takes whatever order the
query returns.

`LibroMayor` states what this should add up to: money comes in with an accepted
payment, and is on a receipt, in the credit, or in `Fondo`, the hands of the
request at work. `LlevaElLibro` in `PagosContables` says that `Pagos`, with the
accounts as refinement mapping, implements it.

### PagosCausas

That is so of requests that are served one at a time and end. Here they overlap, die
and fail as they like, and `causas` records which of six things have happened:

    pisada       an acceptance that has overlapped another one writes a receipt or the credit
    rellenada    an outdated credit is put into the cache and nobody is about to delete it
    olvidada     a credit in the cache becomes outdated, and nobody is about to delete it
    sinDeuda     an acceptance ends because nothing is owed
    muerte       an acceptance ends before it has written all it was going to write
    solapada     two acceptances are in flight at once

After any of the first three, money may appear; `LibroSalvoCausas` says that until then
every step, whatever overlaps or dies, is one of `LibroMayor`. The other three lose
money and make none, and `TodoCuadra` says that without any of the six all that was paid
in is on a receipt or in the credit when no request is in flight. None of the six can be
left out: without it TLC finds one of the two properties violated. Receipts and
credit are read and written by the steps of `Pagos`, of which not one is changed.

### CobranzaSnapshot

One building. Each collection the report reads is a version that a write
increments; a report is the versions it was built from, so "old" and "fresh" are
comparisons of versions and the rows of the report are left out. `Guiones` lists,
for each kind of writing request, what it writes and when it calls
`programarRebuild`, in the order of the code; `programados` counts the pending
`setImmediate` callbacks. Rebuilds (`Tareas`) and readers (`Lectores`) are actors
that share the steps `Adquirir`, `NoAdquirir`, `LeerFuente`, `Persistir`,
`Liberar`. `acquireLock` answers false both when the key is there and when Redis
fails; `releaseLock` deletes the key whoever set it. `Caer` is the death of an
instance, `Fallar` a MongoDB operation that throws, `ExpirarCerrojo` and
`ExpirarCache` are the TTLs; a lock may expire under a living holder when
`ConDemoras` says that a build may outlast 120 s.

`causas` is history: which of the things that can leave the report stale have
happened. `ReposoFresco` turns that into a statement of completeness: there are
no other ways.

### ExcelJobs

`crearJob` (`Crear`, then `Encolar` or `NoEncolar`), `procesar` in the slots of the
workers (`LeerSnapshot`, `Subir`, `MarcarListo`, the `catch` in `MarcarFallido`, each
with the failure of its await), the TTL index (`ExpirarDoc`), and the queue as the
code relies on it: a job added without options is tried once; a job whose worker
stops renewing its lock is given out again, up to `MaxEstancos` times, and then
dropped (`Estancar`), possibly while its first run is still at work. `causas`
records per job what has happened that can lose it.

### Suscripcion

One building, its document and the day. `renovarSuscripcion` is `LeerRenovacion`
(`findById`), `Calcular` (days are added to what is left or to today) and `Renovar` (one
update of state, date, `activo` and history); `suspender` is one update. A request
to the portal is `LeerEdificio` (`BuildingContextGuard`) and `Evaluar`
(`SubscriptionGuard` with `evaluarAccesoPortal`), and leaves `MarcarVencido` in flight
when it finds the subscription expired. Renewals, marks and suspensions overlap
freely; `superada` and `causas` are history and say which update was decided upon a
building that has been renewed since. Only buildings made by `create` occur,
so the date is always set. Contact data, which one update writes and no handler
here reads, are left out; banner and regulations are in `Archivos`.

### AltaEdificio

The collections `buildings` (`slugDe`, `conDatos`), `apartamentos` (`aptos`) and `usuarios`
(`cuentas`), and processes of five kinds. `crearEdificio` and `registerBuilding` are

    Pedir              validation and the look for the slug             super.service.ts:46, onboarding.service.ts:15
    CrearEdificio      insertion; the unique index decides              buildings.service.ts:84
    FijarDatos         contact data, one update (super only)
    Sembrar, Sembrado  insertMany of the apartments, one by one         apartments/
    BuscarAdmin, CrearAdmin    findOne, hash, insertion                 user/
    Responder          the mail, whose error is swallowed, and the answer

and `FallarAlta` ends any of them at any await, with nothing undone. `Arrancar`,
`BuscarSuper` and `PromoverCuenta` or `CrearSuper` are `ensureSuperAdmin` in each instance
that starts (`bootstrap.service.ts:37`); `Script` is `scripts/create-superadmin.ts`, which does
not look whether there is such an account. A start looks for the configured name in whatever
case (`user.service.ts:120`), the script for the name as it is written
(`create-superadmin.ts:61`), either stores it as it is written, and the unique index tells
upper from lower case: `NombresSuper` are the ways of writing it, one of which may be an
administrator's e-mail, and each start and run of the script is given one. `LeerAdmin`, `GuardarClave` are
`resetAdminPassword`. `rotas` and `promovidas` are history: the buildings whose creation has
broken off, and those whose administrator's account has been made the platform's.

### Cobro

`CobranzaReportService.build` of one apartment between the steps of the sessions
of `Pagos`: `LeerRecibo` and `LeerCredito` in any order, and the category by the operators
of `cobranza-classification.util.ts`. `vistas` collects what one consistent reading would
have answered at each moment of the build. `causas` collects what may make the
category one the apartment has never been in. Each of its excuses is needed:
without `"consumo"`, for instance, TLC finds a credit that is read before it is
spent on a debt, and the debt read after: it counts twice, and an apartment that
has owed money all the time is reported as `al_dia`.

### TasaBcv

`getTasa` and `getTasaPorFecha` of several instances. Time is counted in days of
Venezuela and a rate is the day it is of. `Llamar`, `LeerTasa`, `BorrarVieja`, `Mirar` (the look
at `pendingPromises` and the entry made in it, without an await between), then
`RecibirTasa`, `Guardar`, `Soltar` or `RechazarPeticion`; whoever finds an entry waits for it and
settles with it. `Historicas` is the walk back over `MAX_DAYS_HISTORY`. Days pass,
rates are published, some days without one and the next one already in the
evening, entries expire, an instance may die with its table.

### Archivos

GridFS and the two files a building names. `Recibir` (interceptor, presence, type),
`Subir` (size again, compression, start of the stream), `EscribirArchivo` (its end), `Fijar`
(the `$set`), `Releer`; `Eliminar`, `Mostrar`, `Descargar`. A stream that breaks off leaves its
file unfinished.

### ListadoCache

A collection is a version, a cached list the version it was read from. `Guiones`
lists for each kind of writing request which collections it writes and which
prefixes it deletes, in the order of the code, with the inner deletion of
`ejecutarBulkDesdeListado`. `deletePattern` is `Buscar` (KEYS) and `Borrar` (DEL), or one step
in an instance that started without Redis and keeps its own cache. Readers are
`Listar`, `LeerCache`, `Consultar`, `GuardarLista`. `excusas` is history: old lists nobody is
bound to delete.

### Propietarios

`create` (look-up, hash, insertion), `update` (`LeerDueno`, `ComprobarCorreo`, `GuardarDueno`), `deactivate`,
`login` (`Entrar`, `BuscarDueno`, `Firmar`) and `changePassword` (`LeerParaClave`, `Verificar`,
`GuardarDueno`). Mongoose's `save` writes the fields that differ from the copy that was
read: `Entonces` says so, and the model keeps that copy (`leido`) and what the request
has made of it (`nuevo`). An owner keeps floor, number and the id made of both; the
building lacks one of its apartments, as after a creation that broke off.

### AvisosLeidos

A notice is stamped (`FecharAviso`, `createdAt` before the insertion that `save` awaits) and
reaches the collection later (`InsertarAviso`) or never (`FallarInsercion`); `Actualizar` and
`EliminarAviso` are the administrator's other requests. A visit of a device is two requests:
`ListarAvisos`, then `Marcar` (`Date.now()`) and `FijarMarca` (the hour arrives in Redis, under a key
that names the device and no building). A count of a building is `LeerMarca` and `Contar`.
Requests overlap, so two hours may arrive in the wrong order; Redis fails, or loses an
hour (`Perder`). The client is not in the repository: it is taken to mark a visit after it
has listed a building. An instance without Redis, which would keep hours of its own, is
left out here.

`leidos`, `tope` and `colados` are history: what the visits a device has marked have listed, the
latest hour stored, and what those visits have passed over. A visit passes over (`pasados`)
what its hour covers and its list does not show: notices stamped and still on their way
when it lists, notices of another building, and those stamped after the list and not
after the hour. `NuevoSeCuenta` is a statement of completeness: a count leaves out published
notices for no other reasons but that they were listed or passed over. Each of the four
ways occurs in the run: with any of them taken out of `pasados` or `colados`, it fails.

### Comprobantes

A recognition is `Pedir`, `LeerTexto`, `PreguntarLogo` (Ollama, with its attempts),
`GuardarPrediccion`; a submission `Enviar`, `SubirImagen`,
`InsertarPago`, `BuscarPrediccion` (that of this image), `Registrar` (the log),
`BorrarPrediccion`, `InvalidarListas`. Both may die anywhere, and a
database may write a payment and lose the answer. `create` knows no payment twice,
so `repetidas` records the images sent again by a payer who had not been told that
they failed.

## 3. The runs

| Run | Question | Result |
|---|---|---|
| `pagos_concurrentes` | what still holds when two acceptances interleave, overwrite each other, are repeated, fail or die, and how long are the accounts right? | `SaldoAcotado`, `EstadoCoherente`, `PendienteNoMueve`, `LibroCuadra`, `UnAbonoPorAceptacion`, `SoloSolapadasPierden` hold always; `LibroSalvoCausas`, `TodoCuadra`: until one of the named causes |
| `pagos_serie` | served one at a time, are the accounts right? | `Pagos` implements `LibroMayor`; `CacheAlDia` holds |
| `pagos_doble_gasto` | is credit that pays a receipt spent? | no: `CreditoSeConsume` is violated |
| `pagos_excedente` | is what exceeds the debt credited? | not when nothing is owed: `ExcedenteSeAcredita` is violated |
| `cobranza_fallos` | with failures, deaths and late holders: who builds, what is cached, when is the report stale? | `UnSoloTitular`, `CacheTrasSnapshot`, `ReposoFresco`, `SnapshotAvanza` hold |
| `cobranza_atrasada` | does the snapshot catch up with the data? | no: `SnapshotSeActualiza` is violated without any failure |
| `cobranza_doble_rebuild` | does the lock keep cold starts apart? | no: `UnSoloRebuild` is violated |
| `excel_perdido` | does every job come to an end? | no: `NoSePierde` is violated |
| `archivos_pdf` | is a PDF that the route lets through stored? | no: `PdfAdmitidoSeGuarda` is violated |
| `administracion` | what do buildings and accounts, a subscription and a report say of each other when requests overlap and break off? | `IncompletoConCausa`, `UnSuperAdmin`, `SoloAdelantadosPisan`; `HistorialExplica`, `VencidoConRazon`, `SoloRenovarLevanta`; `CategoriaExplicada` hold |
| `servicios` | the same of owners, rates, notices, files, vouchers and listings | `DomicilioValido`, `BajaFirme`, `EntradaVigente`; `TablaViva`, `TasaConCausa`; `LeidoNoVuelve`, `NuevoSeCuenta`; `ReferenciaEntera`; `UnPagoPorComprobante`, `UnRegistroPorPrediccion`; `ViejaConExcusa` hold |
| `responde` | does everybody get an answer, and does every cache converge? | `LectorResponde`, `CerrojoSeLibera`, `CacheConverge`; `TerminaOSePierde`, `ResultadoFirme`, `ArchivosPorEntrega`; `SiempreRespondida`; `ListadoConverge` hold |

### Bounds, and why they are enough

* `pagos_concurrentes`: two receipts of 3, payments of 1 or 4, credit 1, two
  acceptances (of two payments or twice of one), two requests at a time. A
  payment of 1 plus the credit leaves a receipt partly paid, 4 pays one and a
  part of the other, two of 4 exceed the debt of 6, and the credit makes the
  difference to an exactly paid receipt, so partial, exact and excess payments
  and use of credit all occur in two acceptances. Two requests
  are enough for every lost update the code can produce: it takes one reader and
  one writer. Two receipts make queries and `bulkWrite` visibly not atomic.
  Failures are included, and each of the `causas` occurs, alone and after others:
  removing any one of them makes the run fail. No payment names receipts of its own
  here (`pagos_serie` has that), so receipts, payments and sessions are symmetric.
  `NextCausas` conjoins `Next` with the history, so TLC reports it as one action; with
  `-coverage` it shows every disjunct of `Next` taken in this run, `Abortar` among them.
* `pagos_serie`: one request at a time, no failures, three acceptances, receipts
  issued for 0, 1 or 2 and payments of 1 and 3: chains of excess, credit, use of
  that credit, receipts that owe nothing, and payments accepted again.
* `cobranza_fallos`: two writing requests of different kinds (one that schedules
  rebuilds, one that does not), two rebuilds and one reader: the fewest with which
  a late release can delete a third actor's lock. One poll before a reader goes
  on without the lock stands for eight: polls differ only in how much can happen
  between them, and any number of steps of others fits between two steps here.
  `cobranza_doble_rebuild` keeps the eight.
* `administracion`: two processes, two buildings of one apartment and three
  accounts, two slugs, two names of administrators, one of them the platform's, and
  another way of writing that one: two creations of
  the same slug, an administrator whose name is the platform's, two starts, a start
  and the script with the same and with different ways of writing it, a reset and a
  promotion all meet, and a failure between any two
  steps. Two renewals of one or three days in five days, a trial and a grace of
  one day: renewals before and after the end, two that overlap, a mark overtaken
  by a renewal and a suspension between any two steps all occur; the last instant
  of trial and of grace is a day of its own. For the report two receipts of 1, one
  payment of 1 or 2 that is accepted twice, a credit of 1 and two sessions, so
  that it is paid for by payment, by credit, by both, and written over.
* `servicios`: two requests at a time in every part. Two owners, two passwords and
  e-mails, one of them an administrator's, and two bodies of an update that move
  owners along different coordinates, so that two updates together name the
  apartment that does not exist. One instance, two days and a walk back of two for
  the rates. One device, two buildings, one notice and three hours: two visits, to the
  building of the notice and to the other, and a count between them. Both properties are
  about one notice and one device, and no action looks at two. Three files for two uploads and a replacement. Two recognitions and two
  submissions of one image, two attempts at Ollama. Two instances, one without
  Redis, for the listings, one writer, one reader, one filter; a writer alone runs
  through the whole script of its request. The listings and the report of
  `administracion` are the parts without failures: what may go wrong in them does so
  by interleaving alone, and `responde` runs the listings with failures.
* `responde`: one writing request, two rebuilds, one reader, two polls; one Excel job
  given out up to three times to two slots; two instances and two callers of the
  rate; a writer and a reader of one listing. Failures everywhere.
* `archivos_pdf`: one request and one file, no failures.

Processes, requests and ids that no action tells apart are symmetric, and the
runs that check no liveness use it.

Counters that would grow for ever are bounded in the guards by `MaxAceptaciones`,
`MaxEnVuelo`, `MaxPeticiones`, `MaxVersion`, `MaxDia`, `MaxHora`, `MaxIntentos` and
`MaxRenovaciones`. Deadlock is checked in `pagos_serie`, `administracion` and `servicios` (`Comprobantes`,
whose requests are sent once each, ends in the stuttering `Terminado`). The other
bounded runs may come to a halt when requests and versions are used up: nothing
obliges anybody to send another one, so deadlock is not checked there.

### Fairness

Only the runs `responde` (the `Justicia` of its four parts), `cobranza_atrasada` and
`excel_perdido` (`SpecJusta`) have it, and all of it is weak.

* Steps of a request, rebuild or slot after it has started: the event loop runs
  every callback that is ready and every await settles, with an answer, an error
  or the driver's timeout. A step that dies instead (`Caer`, `Morir`) is always
  possible and never obligatory.
* A `setImmediate` callback, or a job in the queue with a free slot, is eventually run.
* A call for the rate goes on: Redis answers or fails, and `fetch` gives up by itself.
* Redis and the memory of an instance keep TTLs, BullMQ repeats its check for stalled
  jobs. The check is fair only for a job without a living owner: nobody promises
  that a slow one is caught.
* Never: that a client sends a request, that a write happens, that a Redis or
  MongoDB command succeeds.

## 4. What is proved

Every safety property of the passing runs is a theorem: the invariants, the action
properties and the refinement. So is every type invariant a module states; it is proved
for all values of the constants, and the runs spend their properties on the others. The
theorems are of the form "the specification satisfies the property", for **every**
value of the constants: any number of receipts, payments, requests, instances, jobs,
polls and stalls, files, buildings, filters and days, any amounts.

What is assumed of the constants says that amounts and bounds are naturals, that
sentinels such as `NoExiste` are not values, that flags are Booleans. The modules that
are composed as instances state it as a definition (`TasaAssumption`), which their
theorems take as a hypothesis and the `MC` module assumes; in the others it is an
`ASSUME` that TLC evaluates in each run. Two kinds of theorems have further hypotheses,
each stated in the theorem: those about requests served one at a time (`MaxEnVuelo = 1`,
no failures) say what the code does as long as nothing overlaps, which
`pagos_doble_gasto` shows to be necessary; those that add up all receipts or payments of
an apartment take them to be finitely many. The two about `PagosCausas` need the
second only: they are what is left of the accounts when requests do overlap and die.

| Module | Theorem | Property |
|---|---|---|
| `PagosProofs` | `TipoCorrecto` | `TypeOK` |
| | `NuncaDeMas` | `SaldoAcotado` |
| | `EstadoSegunSaldo` | `EstadoCoherente` |
| | `SoloResueltosMueven` | `PendienteNoMueve` |
| | `LibroSiempreCuadra` | `LibroCuadra` |
| | `AbonosAcotados` | `UnAbonoPorAceptacion` |
| | `LibroSoloPierdeSolapado` | `SoloSolapadasPierden` (an action property) |
| | `CacheVeraz` | `CacheAlDia`, served one at a time |
| `CuentasProofs` | `ImplementaElLibro` | `LlevaElLibro` (the refinement), served one at a time |
| | `SinDobleGasto` | `CreditoSeConsume`, served one at a time |
| | `LibroHastaQueAlgoPasa` | `LibroSalvoCausas` (an action property) |
| | `TodoCuadraSiNadaPasa` | `TodoCuadra` |
| | `InformeTipado` | `TypeOKCobro` |
| | `CategoriaSeExplica` | `CategoriaExplicada` |
| `CobranzaProofs` | `TipoCorrecto` | `TypeOK` |
| | `ExclusionMutua` | `UnSoloTitular` |
| | `CachePersistida` | `CacheTrasSnapshot` |
| | `FrescoEnReposo` | `ReposoFresco` |
| | `AvanceDelSnapshot` | `SnapshotAvanza` (an action property) |
| `ExcelProofs` | `Tipos` | `TypeOK` |
| | `ListoConArchivo` | `ListoTieneArchivo` |
| | `ArchivosAcotados` | `ArchivosPorEntrega` |
| | `ResultadoQueSeMantiene` | `ResultadoFirme` (an action property) |
| `AdministracionProofs` | `TiposSuscripcion` | `TypeOKSuscripcion` |
| | `EstadoYActivo` | `ActivoSegunEstado` |
| | `HistorialVeraz` | `HistorialExplica` |
| | `MarcaJustificada` | `VencidoConRazon` |
| | `SuspensionSeMantiene` | `SoloRenovarLevanta` (an action property) |
| | `TiposAlta` | `TypeOKAlta` |
| | `UnSubdominio` | `SubdominioUnico` |
| | `UnaPlataforma` | `UnSuperAdmin` |
| | `IncompletosExplicados` | `IncompletoConCausa` |
| | `SuperParaSiempre` | `SuperPermanece` (an action property) |
| | `ClaveDelSuper` | `SoloAdelantadosPisan` (an action property) |
| | `CadaParte` | a behaviour of `MCAdministracion` is one of each of the three parts, with stuttering |
| `EdificioProofs` | `PropietariosTipados` | `TypeOKPropietarios` |
| | `DomiciliosValidos` | `DomicilioValido` |
| | `BajaSeMantiene` | `BajaFirme` (an action property) |
| | `TokenVigente` | `EntradaVigente` (an action property) |
| | `ListadosTipados` | `TypeOK` of `ListadoCache` |
| | `ViejasConRazon` | `ViejaConExcusa` |
| `ServiciosProofs` | `AvisosTipados` | `TypeOKAvisos` |
| | `LeidoSigueLeido` | `LeidoNoVuelve` |
| | `LoNuevoSeCuenta` | `NuevoSeCuenta` (an action property) |
| | `ComprobantesTipados` | `TypeOKComprobantes` |
| | `PagadoUnaVez` | `UnPagoPorComprobante` |
| | `RegistradaUnaVez` | `UnRegistroPorPrediccion` |
| | `ArchivosTipados` | `TypeOKArchivos` |
| | `ArchivosEnteros` | `ReferenciaEntera` |
| | `TasasTipadas` | `TypeOKTasa` |
| | `TablaSiempreViva` | `TablaViva` |
| | `PeticionCompartida` | `UnaPeticion` |
| | `RespuestaConCausa` | `TasaConCausa` |
| | `CadaParte` | a behaviour of `MCServicios` is one of each of the six parts, with stuttering |

`Sumas` holds the lemmas the last steps of `CuentasProofs` and `HistorialVeraz` rest on.

**Pagos.** `SaldoAcotado` is not inductive: the amount written to a receipt comes
from a copy in the session, and nothing in the property speaks of copies. The
invariant `IInv` adds `EnRegla` for each session: every copy it holds is `Fiel`, a
copy of that receipt (same amount, which no request changes), on which something
was owed when it was read, and whose ledger names only payments ruled on. It
may be out of date in everything else, and that is the point: `Menor(resto,
Saldo(copia))` added to the *copied* amount stays within the *stored* total, so an
overlapping acceptance can lose money but not overpay a receipt. One lemma per
action shows that a step keeps `IInv`; `PasoLocal` covers the actions that change
nothing but their own session.

**The ledgers.** `IInvContable` adds what is needed of them. `LibroCuadra` is stated by
running totals: an entry appended to a ledger extends them by one, so that no
induction over the ledger is needed, and `CopiasCuadran` says the same of the copies the
sessions write from. `Solape`: two acceptances in flight both know of an overlap, and a
session that has not overlapped holds the stored receipt as its copy; from it
`SoloSolapadasPierden` follows. `Cuentas` counts: of the times a payment was accepted, the
entries a receipt holds of it and the sessions that may still write one are together
no more. That is what makes `UnAbonoPorAceptacion` survive acceptances that die half way
and are repeated: one that dies gives up its place.

**Served one at a time.** `EnSerie` says that there is one request at most, that what it has
read of the credit is true, and that the cache is only behind while that request is about
to delete it. `Fondos` says what it has in its hands at each await (`EnMano`) and that
`Fondo` covers it. With the two, each step of `Pagos` maps to a step of `LibroMayor`:
`Aceptar` to `Ingresar`, `Agregar` to `Acreditar`, `Guardar` to `Tomar`, `EscribirRecibo` to
`Abonar`, `EmitirRecibo` to `Emitir` (of nothing, when the receipt is issued for nothing),
and every other step to a stutter. `CreditoSeConsume`, which two overlapping requests
violate, is a part of `Fondos`: `SinDobleGasto` says that without overlap, and without
failures, it holds.

**Overlap and death.** `IInvCausas` has two parts. `Cubierta`, until money may have
appeared: an acceptance that is alone has what it believes to have, and the money for it
is there (`EnSola`, the fact that `Fondos` has of the only request, now of one among
many); one that is not alone does not write, or `pisada` has happened. The step that
needs an argument is the second acceptance: it starts while another one is in flight, and
from then on both are `solapada` and nothing is claimed of them. `SolaPaso`
looks at each action once, as a step of the acceptance that is alone; `SigueSola` says that
nobody else's step takes that away from it, and `AjenaPaso` that a request without a payment
touches no account. `Exacta`, while nothing at all has happened: what the
only acceptance has in its hands is *all* the money on its way, and the receipts it may
still write owe as much as it has to apply (`Alcanza`). The second half is why money is not
lost: the second query reads receipts again, and what it finds to be owed must be no less
than what the first one counted. `NadaQueda` concludes that an acceptance that has written
everything ends with nothing in its hands.

**Parts of a run.** `CadaParte` says that what is proved of a component holds in the runs
that check several side by side, the steps of the others being stutters.

**Sums.** The library's induction theorems cannot be used with these provers, but an
induction over the subsets of a finite set can be made of a least counterexample
(`PorSubconjuntos` in `Sumas`, from the well-foundedness of the strict subset order). With
it the recursion behind the community modules' folds is shown to define a function
(`Recorrido`), and a sum not to depend on the order of its elements (`SumaQuita`,
`SumaCambia`, `SumaMonotona`).

**Cobro.** What has been read of the balances is at least what they are now, what has been
read of the credit at most: `Lectura` says so, and that an apartment that has never been in
arrears will be found to have enough credit whatever is still unread. It holds because a
step of an acceptance that is none of the `causas` lowers balances and raises the credit
only (`SaldosBajan`, which rests on `Solape`).

**CobranzaSnapshot.** `IInv` has four parts. `Locales` ties the program counter to
the locals. `Titular`: unless a lock has expired under its holder, whoever thinks
he holds it is the one the key was set by; with it mutual exclusion is immediate.
`Persistido`: what is about to be cached has been persisted. `Ordenado`: as long as
nobody builds without the lock, every builder holds it, and what he has read so
far is at least as new as the snapshot he will replace and not newer than the
data. The snapshot cannot move under a builder because there is no other builder:
this is where the orders of lock, read and write meet, and what
`SnapshotAvanza` and `CacheTrasSnapshot` follow from. `Cubierto`, for `ReposoFresco`, looks at
what is still to come: as long as none of the causes has occurred, every script ends by
scheduling a rebuild, and either a rebuild that will read everything written is on its
way (`PorReconstruir`) or the snapshot shows it.

**ExcelJobs.** `EntregaUnica`: before the queue has given a job out there is no
result and no run; until it is given out again there is at most one run.
`ResultadoUnico`: once there is a result, that run has nothing left to mark.
`Ejecuciones` ties a slot that is about to mark a job ready to a file that exists.
`PasoDeTurno` states once what every step of a slot has in common; the two harder
lemmas work from it instead of from the eight actions. `EntregasContadas` counts the
files: each time a job is given out is still ahead, is a run before its upload, or has
stored a file at most.

**Suscripcion.** `VencidoConRazon` is about a document and breaks through a request:
`LecturaVigente` adds that, as long as the building has not been renewed since it
was read, the date a request holds is the building's and a mark on its way is
justified, whatever the day has become. The same says of a renewal that is about to be
written that its date is the building's, extended as its entry tells; `HastaSegunMas`, that
a fold over a history with one more entry is one more extension, turns this into
`HistorialExplica`.

**AltaEdificio.** `IndiceUnico` is what the database keeps, two accounts of one name
and building being one. `DeLaPlataforma` says that a super administrator has one of the platform's names and no
building: with the index there is one for each of them, although any number of starts
find none. `Avance` says what a process that creates a building has done of it by each
step, `Mirada` what a process that looked for an account may hold, and that it is
marked `adelantado` as soon as somebody promotes one: the action properties follow
step by step from these two, that no account joins another as the platform's unless by
the script or by who is marked among them.

**TasaBcv.** `TablaViva` carries itself once `ConClave` says who has a promise. For
`TasaConCausa` two facts travel along: `Enterada` (a call that waits has seen no more
rates than the one it waits for) and `ConCausa`, the reason of a rate on its way and of
one in the cache. That a set of days has a last one is proved by well-founded
induction.

**Archivos.** `EnCamino` follows a file through the request: begun with the type of
its route, whole before it is named. What is shown to somebody is never undone
because no action takes a file out of the state `"listo"`.

**ListadoCache.** `ViejaConExcusa` looks ahead, into the rest of a request's script:
the invariant adds that cached and read versions are of the past (`CacheDelPasado`,
`LectorAlDia`), and `GuionesCompletos` says of every script that each write is followed by
the deletion of each prefix of its collection. One lemma per action does the rest.

**Propietarios.** `DomicilioValido` speaks of owners and breaks through an update that saves
what it has made of an older copy. `EnCurso` says what each request carries: an update an
address of the building, computed from a copy that is still the owner's unless he has been
written since; a change of password nothing but the password; a login the hash of
an owner who is still active and has it unless he was written. It also takes that whoever
is an owner has an e-mail, a floor and an apartment (`Completo`): `save` writes the fields
that differ, so an owner without a floor would, by an update of his number, get an
`idUnico` that names no apartment.

**AvisosLeidos.** What a device has marked was there at the latest hour stored for it, what
is in a visit at the hour of the visit, and what an intact count knows to be seen
at the hour it has read. Hours may arrive in any order because the invariant speaks of the
latest. For `NuevoSeCuenta` the same is said from the other side (`Cubierto`): of each hour that
is stored, read or about to be stored, every notice stamped up to it and not removed has
been listed or passed over. `ListarCubre` shows it of a list, which has both the notices of
its building and those it hides. A new stamp could break it at an hour that is not yet
over, and at no other: `SigueCubierto` rests on no such hour being later than now, and on
what `FecharAviso` records at each hour that is now. What happens to a notice afterwards,
its insertion too, moves no hour.

**Comprobantes.** `Enviados`: of two submissions of an image that may have paid, the second
is known to be a repetition. `Predicciones`: a prediction is cached under its image alone,
one that has neither been handed to two submissions nor outlived its log entry has one
holder, and once it is logged that
holder is about to delete it or it is gone.

`ListoTieneArchivo`, `ActivoSegunEstado`, `SubdominioUnico`, `SuperPermanece`, `UnaPeticion` and
the type invariants are proved and no run lists them.

### Only model-checked

* Liveness (`LectorResponde`, `CerrojoSeLibera`, `CacheConverge`, `TerminaOSePierde`,
  `SiempreRespondida`, `ListadoConverge`) and its fairness: out of the prover's reach, as is
  everything with `ENABLED`.
* The violations: that a property fails is what TLC's counterexample shows.

## 5. Findings

Six places where a doc or a comment of the repository and the code disagree;
`PROJECT.json` quotes the lines.

1. **Credit spent twice** (`abono-apartamento.service.ts:77`, run
   `pagos_doble_gasto`). Two acceptances read the same credit, both apply it to
   receipts, and `consumir` saves a difference computed before: the credit goes
   down once. `applyPagoAceptado` does not look at what `consumir` returns.
2. **Excess not credited** (`recibos-pago.service.ts:40`, run `pagos_excedente`).
   When no receipt owes anything the function returns before crediting.
3. **Snapshot left behind** (`cobranza-snapshot.service.ts:52`, run
   `cobranza_atrasada`). A rebuild that finds the lock taken is dropped even if the
   running one has already read its collection.
4. **Two builders on a cold start** (`cobranza-snapshot.service.ts:103`, run
   `cobranza_doble_rebuild`). After eight polls a reader builds without the lock.
5. **Excel job pending for ever** (`cobranza-excel-job.facade.ts:53`, run
   `excel_perdido`). No retries are configured, and nothing looks for documents
   whose job was never queued or could not be marked.
6. **A PDF between 5 and 10 MB** (`files.service.ts:31`, run `archivos_pdf`). The route of
   the regulations admits 10 MB, `FilesService` refuses what exceeds the 5 MB of the
   image compression, with an error 500.

Smaller disagreements seen while modelling, which the models follow as the code
is and no run singles out:

* `tasa-bcv.services.ts:119` keeps for a week the rate of the day before when a day is
  asked for before its own is published, where the comment at line 101 speaks of
  the rate of that day; `TasaConCausa` has the clause for it.
* `tasa-bcv.services.ts:65`: while no rate is published for the day, on a weekend, say,
  what is cached is thrown away and fetched again at every call, against the comment
  at line 11.
* `avisos.service.ts:96` counts every notice for a device without a stored hour, so also
  when Redis fails, against the comment at line 96; line 123 counts by creation, so a
  draft published after a visit may never be counted, nor a notice that was stamped
  before a visit and inserted after it (line 55), nor, since the key has no building
  (`cache.service.ts:190`), one that came out before a visit to another building, against the comment
  at line 95 (`NuevoSeCuenta` has the excuses).
* `user.service.ts:120` looks for the platform's name without regard to case and the script
  and the index with it: configured as `Admin@x.com`, with an administrator `admin@x.com`,
  a start makes his account the platform's and the script inserts another. The comment at
  `bootstrap.service.ts:35` holds of the starts alone (`UnSuperAdmin`, `SoloAdelantadosPisan`).
* `ollama-bank-logo.service.ts:75` rethrows the abort after 90 s with a text that
  `retry.util.ts:17` does not take for a network error: a timeout is never retried.
* `payments.service.ts:125` calls a prediction consumed once it is deleted; two payments
  of one image that overlap log it twice (`UnRegistroPorPrediccion` has the excuse).
* `payments.create` knows no payment twice: a repeat after a lost answer registers
  another one (`UnPagoPorComprobante` says that only such a repeat does).
* `super.service.ts:46`, `onboarding.service.ts:15`: a creation that breaks off leaves a building
  that no request completes, since a retry finds the slug taken
  (`IncompletoConCausa` says that only such a break, or a promotion, does).

Where the code does what it says, the passing runs say how far: overlapping
acceptances may lose entries of a ledger, but only they (`SoloSolapadasPierden`),
and state, amount and ledger of a receipt stay consistent with each other
throughout.

## 6. Not modelled, and why

* Doubles: amounts are naturals. A receipt that stays open because of a rounding
  error is not a behaviour of this model (listed as a hazard without a property).
* The rows, categories and layout of the report, formats, logs, messages.
* `RecibosService.updateEstado` and `registrarAbono`, which no caller reaches.
* `updateContactoPago` and the contact data a super administrator edits: one `$set` that
  nothing else reads.
* The engine and the patterns of the voucher parser: what is read in an image is a
  proposal shown to the payer. The parser's reading of amounts is listed as a hazard.
* Columns of the report beyond the category, and the workbook.
* Guards, CSRF and tokens: stateless checks of one request, and libraries. The login
  of an owner is modelled for what it reads.
* Banks (a constant), the shell (wiring, configuration, format of errors), scripts
  other than `create-superadmin`.
* Accounts of administrators stored in another case than lower, which `user.service.ts:13`
  calls legacy: nothing in the code creates one.
* The lock and the caches of `cobranza-snapshot.service.ts` in an instance without Redis
  (`cache.service.ts:114`): instances are taken to share Redis, whose calls may fail. The
  memory of one instance is modelled for the listings alone.
* The offset that `getVenezuelaDateString` takes from the server's clock: the instances
  are taken to agree on the day.

## 7. What is left

* How much, at most: `PagosCausas` names what makes money appear or be lost, and no bound
  of either is stated.
* `ListadoCache` composed with `Pagos`, to say which states of a payment a listing
  may show next to which receipts.
