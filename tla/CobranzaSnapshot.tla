-------------------------- MODULE CobranzaSnapshot --------------------------
(***************************************************************************)
(* The read model of one building's collection report: CobranzaSnapshot-   *)
(* Service over CacheService, and the requests that make the report stale. *)
(*                                                                         *)
(* A collection is abstracted to a version, which a write increments; a    *)
(* report, to the versions it was built from.  Requests run in any number  *)
(* of server instances, which share MongoDB and Redis.  Every action is    *)
(* what one of them does between two awaits.                               *)
(***************************************************************************)
EXTENDS Integers, Sequences, FiniteSets, SequencesExt

CONSTANTS
  Peticiones,     \* the kinds of writing request, a subset of DOMAIN Guiones
  Escritores,     \* writing requests in flight at the same time
  Tareas,         \* rebuilds in flight at the same time
  Lectores,       \* requests for the report in flight at the same time
  Intentos,       \* polls of a reader without the lock (8 in the code)
  MaxPeticiones,  \* bound: writing requests
  ConFallos,      \* a request or rebuild may die or throw, a Redis command fail
  ConDemoras,     \* a holder of the lock may outlive the lock's 120 s
  NoExiste,       \* no snapshot document
  NoCache,        \* no cache entry
  Libre           \* nobody's lock

\* Faulty variants (here and below, defined before what they stand in for): each
\* is a slip the code could have, and breaks one of the properties.
GuionesAlReves ==
  [aceptar |-> <<"programar", "pagos", "recibos">>, reportarPago |-> <<"pagos">>]

\* What each request writes and when it calls programarRebuild, in order.
Guiones ==
  [emitir          |-> <<"recibos", "programar", "programar">>,
   aceptar         |-> <<"pagos", "recibos", "programar", "programar">>,
   aceptarConAbono |-> <<"pagos", "abonos", "recibos", "programar", "programar">>,
   aceptarSinDeuda |-> <<"pagos", "programar">>,
   rechazar        |-> <<"pagos", "programar">>,
   reportarPago    |-> <<"pagos">>,
   editarOwner     |-> <<"owners">>]

Actores == Tareas \cup Lectores

ASSUME ActoresAssumption ==
  /\ Peticiones \subseteq DOMAIN Guiones
  /\ Tareas \cap Lectores = {}
  /\ Libre \notin Actores
  /\ Intentos \in Nat \ {0}
  /\ MaxPeticiones \in Nat
  /\ ConFallos \in BOOLEAN /\ ConDemoras \in BOOLEAN

\* The collections that change; the others read the same at any time.
Fuentes == (UNION {ToSet(Guiones[o]) : o \in Peticiones}) \ {"programar"}
Versiones == [Fuentes -> Nat]
Inicial == [f \in Fuentes |-> 0]

ASSUME SinDatosAssumption == NoExiste \notin Versiones /\ NoCache \notin Versiones

VARIABLES
  datos,        \* versions of the collections
  snapshot,     \* the document of "cobranza_snapshot", or NoExiste
  cache,        \* the entry reporte:cobranza:<building>, or NoCache
  cerrojo,      \* snapshot:lock:<building>: who set it (the value is just '1')
  programados,  \* rebuilds waiting in setImmediate
  guion,        \* what the writing requests have still to do
  act,          \* rebuilds and readers in flight
  peticiones,   \* history: writing requests so far
  causas        \* history: what has happened that may leave a stale report

vars == <<datos, snapshot, cache, cerrojo, programados, guion, act, peticiones, causas>>

Causas == {"omitido", "sinCerrojo", "expirado", "fallo", "sinPrograma"}
Pasos == {"inactivo", "snapshot", "cerrojo", "esperar", "recheck", "build",
          "borrar", "fijar", "liberar"}
Actor == [pc : Pasos, adquirio : BOOLEAN, porLeer : SUBSET Fuentes,
          reporte : Versiones, intentos : 0 .. Intentos]
Inactivo == [pc |-> "inactivo", adquirio |-> FALSE, porLeer |-> {},
             reporte |-> Inicial, intentos |-> 0]

TypeOK ==
  /\ datos \in Versiones
  /\ snapshot \in Versiones \cup {NoExiste}
  /\ cache \in Versiones \cup {NoCache}
  /\ cerrojo \in Actores \cup {Libre}
  /\ programados \in Nat
  /\ guion \in [Escritores -> Seq(Fuentes \cup {"programar"})]
  /\ act \in [Actores -> Actor]
  /\ peticiones \in 0 .. MaxPeticiones
  /\ causas \subseteq Causas

Init ==
  /\ datos = Inicial
  /\ snapshot \in {NoExiste, Inicial}
  /\ cache = NoCache
  /\ cerrojo = Libre
  /\ programados = 0
  /\ guion = [e \in Escritores |-> <<>>]
  /\ act = [a \in Actores |-> Inactivo]
  /\ peticiones = 0
  /\ causas = {}

(***************************************************************************)
(* The requests that write.                                                *)
(***************************************************************************)
Pedir(e, o) ==
  /\ guion[e] = <<>>
  /\ peticiones < MaxPeticiones
  /\ peticiones' = peticiones + 1
  /\ guion' = [guion EXCEPT ![e] = Guiones[o]]
  /\ causas' = causas \cup (IF Contains(Guiones[o], "programar") THEN {} ELSE {"sinPrograma"})
  /\ UNCHANGED <<datos, snapshot, cache, cerrojo, programados, act>>

Escribir(e) ==
  /\ guion[e] # <<>> /\ Head(guion[e]) # "programar"
  /\ datos' = [datos EXCEPT ![Head(guion[e])] = @ + 1]
  /\ guion' = [guion EXCEPT ![e] = Tail(@)]
  /\ UNCHANGED <<snapshot, cache, cerrojo, programados, act, peticiones, causas>>

programarRebuild(e) ==
  /\ guion[e] # <<>> /\ Head(guion[e]) = "programar"
  /\ programados' = programados + 1
  /\ guion' = [guion EXCEPT ![e] = Tail(@)]
  /\ UNCHANGED <<datos, snapshot, cache, cerrojo, act, peticiones, causas>>

(***************************************************************************)
(* Steps of rebuild and of obtenerReporte.                                 *)
(***************************************************************************)
Ir(a, actor) == act' = [act EXCEPT ![a] = actor]

\* finally: the lock is given back by whoever got it
Salida(actor) ==
  IF actor.adquirio THEN [actor EXCEPT !.pc = "liberar", !.porLeer = {}, !.reporte = Inicial]
  ELSE Inactivo

\* setImmediate runs the callback
Arrancar(t) ==
  /\ programados > 0
  /\ act[t].pc = "inactivo"
  /\ programados' = programados - 1
  /\ Ir(t, [Inactivo EXCEPT !.pc = "cerrojo"])
  /\ UNCHANGED <<datos, snapshot, cache, cerrojo, guion, peticiones, causas>>

\* obtenerReporte answers from the cache, which changes nothing, or goes on
Consultar(l) ==
  /\ act[l].pc = "inactivo"
  /\ cache = NoCache \/ ConFallos
  /\ Ir(l, [Inactivo EXCEPT !.pc = "snapshot"])
  /\ UNCHANGED <<datos, snapshot, cache, cerrojo, programados, guion, peticiones, causas>>

AdquirirSinNX(a) ==
  /\ act[a].pc = "cerrojo"
  /\ cerrojo' = a
  /\ Ir(a, [act[a] EXCEPT !.pc = IF a \in Tareas THEN "build" ELSE "recheck", !.adquirio = TRUE,
                          !.porLeer = IF a \in Tareas THEN Fuentes ELSE {}])
  /\ UNCHANGED <<datos, snapshot, cache, programados, guion, peticiones, causas>>

\* acquireLock: SET NX
Adquirir(a) ==
  /\ act[a].pc = "cerrojo"
  /\ cerrojo = Libre
  /\ cerrojo' = a
  /\ Ir(a, IF a \in Tareas
           THEN [act[a] EXCEPT !.pc = "build", !.adquirio = TRUE, !.porLeer = Fuentes]
           ELSE [act[a] EXCEPT !.pc = "recheck", !.adquirio = TRUE])
  /\ UNCHANGED <<datos, snapshot, cache, programados, guion, peticiones, causas>>

\* acquireLock is false when the lock is taken, and when Redis fails: a rebuild
\* is skipped for good, a reader starts to poll
NoAdquirir(a) ==
  /\ act[a].pc = "cerrojo"
  /\ cerrojo # Libre \/ ConFallos
  /\ Ir(a, IF a \in Tareas THEN Inactivo
           ELSE [act[a] EXCEPT !.pc = "esperar", !.intentos = Intentos])
  /\ causas' = causas \cup (IF a \in Tareas THEN {"omitido"} ELSE {})
  /\ UNCHANGED <<datos, snapshot, cache, cerrojo, programados, guion, peticiones>>

\* the three findOne of obtenerReporte that find a snapshot
LeerSnapshot(l) ==
  /\ act[l].pc \in {"snapshot", "esperar", "recheck"}
  /\ snapshot # NoExiste
  /\ Ir(l, [act[l] EXCEPT !.pc = "fijar", !.reporte = snapshot, !.intentos = 0])
  /\ UNCHANGED <<datos, snapshot, cache, cerrojo, programados, guion, peticiones, causas>>

EsperarSinLimite(l) ==
  /\ snapshot = NoExiste
  /\ \/ act[l].pc = "snapshot" /\ Ir(l, [act[l] EXCEPT !.pc = "cerrojo"])
     \/ act[l].pc = "esperar" /\ Ir(l, [act[l] EXCEPT !.intentos = IF @ > 1 THEN @ - 1 ELSE Intentos])
     \/ act[l].pc = "recheck" /\ Ir(l, [act[l] EXCEPT !.pc = "build", !.porLeer = Fuentes])
  /\ UNCHANGED <<datos, snapshot, cache, cerrojo, programados, guion, peticiones, causas>>

\* and what follows each when there is none; a reader that has polled in vain
\* goes on without the lock
SinSnapshot(l) ==
  /\ snapshot = NoExiste
  /\ \/ act[l].pc = "snapshot" /\ Ir(l, [act[l] EXCEPT !.pc = "cerrojo"])
     \/ /\ act[l].pc = "esperar"
        /\ Ir(l, [act[l] EXCEPT !.pc = IF act[l].intentos > 1 THEN @ ELSE "recheck",
                                !.intentos = @ - 1])
     \/ act[l].pc = "recheck" /\ Ir(l, [act[l] EXCEPT !.pc = "build", !.porLeer = Fuentes])
  /\ causas' = causas \cup (IF act[l].pc = "recheck" /\ ~act[l].adquirio
                            THEN {"sinCerrojo"} ELSE {})
  /\ UNCHANGED <<datos, snapshot, cache, cerrojo, programados, guion, peticiones>>

\* build: the queries of Promise.all, in whatever order they are answered
LeerFuente(a, f) ==
  /\ act[a].pc = "build"
  /\ f \in act[a].porLeer
  /\ Ir(a, [act[a] EXCEPT !.porLeer = @ \ {f}, !.reporte[f] = datos[f]])
  /\ UNCHANGED <<datos, snapshot, cache, cerrojo, programados, guion, peticiones, causas>>

PersistirSoloTareas(a) ==
  /\ act[a].pc = "build" /\ act[a].porLeer = {}
  /\ snapshot' = IF a \in Tareas THEN act[a].reporte ELSE snapshot
  /\ Ir(a, [act[a] EXCEPT !.pc = IF a \in Tareas THEN "borrar" ELSE "fijar"])
  /\ UNCHANGED <<datos, cache, cerrojo, programados, guion, peticiones, causas>>

\* findOneAndUpdate with upsert
Persistir(a) ==
  /\ act[a].pc = "build" /\ act[a].porLeer = {}
  /\ snapshot' = act[a].reporte
  /\ Ir(a, IF a \in Tareas THEN [act[a] EXCEPT !.pc = "borrar", !.reporte = Inicial]
           ELSE [act[a] EXCEPT !.pc = "fijar"])
  /\ UNCHANGED <<datos, cache, cerrojo, programados, guion, peticiones, causas>>

\* a Redis command that fails is swallowed
Redis(antes) == IF ConFallos THEN {antes} ELSE {}

\* persistirRebuild deletes the cached report
BorrarCache(t) ==
  /\ act[t].pc = "borrar"
  /\ cache' \in {NoCache} \cup Redis(cache)
  /\ Ir(t, Salida(act[t]))
  /\ UNCHANGED <<datos, snapshot, cerrojo, programados, guion, peticiones, causas>>

\* obtenerReporte caches the report it answers with
FijarCache(l) ==
  /\ act[l].pc = "fijar"
  /\ cache' \in {act[l].reporte} \cup Redis(cache)
  /\ Ir(l, Salida(act[l]))
  /\ UNCHANGED <<datos, snapshot, cerrojo, programados, guion, peticiones, causas>>

\* releaseLock deletes the key, whoever set it
Liberar(a) ==
  /\ act[a].pc = "liberar"
  /\ cerrojo' \in {Libre} \cup Redis(cerrojo)
  /\ Ir(a, Inactivo)
  /\ UNCHANGED <<datos, snapshot, cache, programados, guion, peticiones, causas>>

(***************************************************************************)
(* The environment.                                                        *)
(***************************************************************************)

\* a MongoDB operation throws: rebuild logs it, obtenerReporte answers 500
Fallar(a) ==
  /\ ConFallos
  /\ act[a].pc \in {"snapshot", "esperar", "recheck", "build"}
  /\ Ir(a, Salida([act[a] EXCEPT !.intentos = 0]))
  /\ causas' = causas \cup {"fallo"}
  /\ UNCHANGED <<datos, snapshot, cache, cerrojo, programados, guion, peticiones>>

\* the instance that ran it dies, and so does what only its memory held
Caer ==
  /\ ConFallos
  /\ \/ \E a \in Actores : act[a].pc # "inactivo" /\ Ir(a, Inactivo) /\ UNCHANGED <<programados, guion>>
     \/ programados > 0 /\ programados' = programados - 1 /\ UNCHANGED <<act, guion>>
     \/ \E e \in Escritores : guion[e] # <<>> /\ guion' = [guion EXCEPT ![e] = <<>>]
                              /\ UNCHANGED <<act, programados>>
  /\ causas' = causas \cup {"fallo"}
  /\ UNCHANGED <<datos, snapshot, cache, cerrojo, peticiones>>

CacheSinTTL == cache # NoCache /\ UNCHANGED vars

\* EX 300 of the report
ExpirarCache ==
  /\ cache # NoCache
  /\ cache' = NoCache
  /\ UNCHANGED <<datos, snapshot, cerrojo, programados, guion, act, peticiones, causas>>

Retiene(a) == a \in Actores /\ act[a].adquirio

CerrojoSinTTL == cerrojo # Libre /\ UNCHANGED vars

\* EX 120 of the lock: its holder is gone, or has taken longer than that
ExpirarCerrojo ==
  /\ cerrojo # Libre
  /\ Retiene(cerrojo) => ConDemoras
  /\ cerrojo' = Libre
  /\ causas' = causas \cup (IF Retiene(cerrojo) THEN {"expirado"} ELSE {})
  /\ UNCHANGED <<datos, snapshot, cache, programados, guion, act, peticiones>>

PasoEscritor(e) == Escribir(e) \/ programarRebuild(e)
PasoTarea(t) ==
  Adquirir(t) \/ NoAdquirir(t) \/ (\E f \in Fuentes : LeerFuente(t, f)) \/ Persistir(t)
    \/ BorrarCache(t) \/ Liberar(t)
PasoLector(l) ==
  LeerSnapshot(l) \/ SinSnapshot(l) \/ Adquirir(l) \/ NoAdquirir(l)
    \/ (\E f \in Fuentes : LeerFuente(l, f)) \/ Persistir(l) \/ FijarCache(l) \/ Liberar(l)

Next ==
  \/ \E e \in Escritores : PasoEscritor(e) \/ \E o \in Peticiones : Pedir(e, o)
  \/ \E t \in Tareas : PasoTarea(t) \/ Arrancar(t)
  \/ \E l \in Lectores : PasoLector(l) \/ Consultar(l)
  \/ \E a \in Actores : Fallar(a)
  \/ Caer
  \/ ExpirarCache
  \/ ExpirarCerrojo

Spec == Init /\ [][Next]_vars

\* The event loop runs every callback that is ready and every await is settled
\* (with an answer, an error or the driver's timeout); Redis keeps its TTLs.
\* Nobody has to send a request.
Justicia ==
  /\ \A e \in Escritores : WF_vars(PasoEscritor(e))
  /\ \A t \in Tareas : WF_vars(PasoTarea(t))
  /\ WF_vars(\E t \in Tareas : Arrancar(t))
  /\ \A l \in Lectores : WF_vars(PasoLector(l))
  /\ WF_vars(ExpirarCache)
  /\ WF_vars(ExpirarCerrojo)

SpecJusta == Spec /\ Justicia
-----------------------------------------------------------------------------
Anterior(v, w) == \A f \in Fuentes : v[f] <= w[f]

\* Nothing is going on but the TTLs.
Reposo ==
  /\ programados = 0
  /\ \A a \in Actores : act[a].pc = "inactivo"
  /\ \A e \in Escritores : guion[e] = <<>>

\* "SET NX EX": two actors hold the lock together only if one of them has
\* outlived the key, although releaseLock deletes it without asking whose it is.
UnSoloTitular ==
  "expirado" \in causas \/ \A a, b \in Actores : Retiene(a) /\ Retiene(b) => a = b

\* A report built from older data never replaces a newer one, unless a lock has
\* expired under its holder or a reader has gone on without it.
SnapshotAvanza ==
  [][\/ snapshot = NoExiste
     \/ Anterior(snapshot, snapshot')
     \/ causas \cap {"expirado", "sinCerrojo"} # {}]_vars

\* What is served from the cache has been persisted before, and is not newer
\* than the snapshot as long as that one does not go back.
CacheTrasSnapshot ==
  cache # NoCache =>
    /\ snapshot # NoExiste
    /\ Anterior(cache, snapshot) \/ causas \cap {"expirado", "sinCerrojo"} # {}

\* The complete list of what can leave the report stale for good: when all is
\* quiet and none of it has happened, the snapshot shows every write.
ReposoFresco == Reposo /\ causas = {} /\ peticiones > 0 => snapshot = datos

\* A reader that caches an old snapshot right after a rebuild deleted the entry
\* is undone by the TTL: the cache ends up agreeing with the snapshot.
CacheConverge == <>[](cache \in {NoCache, snapshot})

\* Nobody waits for ever: a request for the report is answered also when the
\* holder of the lock has died.
LectorResponde == \A l \in Lectores : act[l].pc # "inactivo" ~> act[l].pc = "inactivo"

\* The lock is always given up: by its holder, or by the 120 s of its key when
\* the holder has died or Redis has failed on the release.
CerrojoSeLibera == \A a \in Actores : cerrojo = a ~> cerrojo # a

\* proposal.md: "Eventual: snapshot se actualiza segundos despues de aceptar pago
\* / emitir recibo".
SnapshotSeActualiza ==
  (snapshot # NoExiste /\ snapshot # datos) ~> snapshot = datos

\* cobranza-snapshot.service.ts: "Cold start (REQ-015): lock evita dos rebuilds
\* concurrentes en multi-instancia."
UnSoloRebuild == \A a, b \in Actores : act[a].pc = "build" /\ act[b].pc = "build" => a = b
-----------------------------------------------------------------------------
(***************************************************************************)
(* The inductive invariant.  As long as no lock has expired under its      *)
(* holder and nobody builds without it, there is one builder, what it has  *)
(* read so far is at least as new as the snapshot it will replace, and     *)
(* what is on its way to the cache is not newer than that.                 *)
(***************************************************************************)
Locales ==
  \A a \in Actores :
    /\ act[a].pc = "esperar" => act[a].intentos > 0
    /\ act[a].pc = "liberar" => act[a].adquirio

Titular == "expirado" \notin causas => \A a \in Actores : Retiene(a) => cerrojo = a

Persistido ==
  /\ cache # NoCache => snapshot # NoExiste
  /\ \A a \in Actores : act[a].pc = "fijar" => snapshot # NoExiste

EnOrden == causas \cap {"expirado", "sinCerrojo"} = {}

LecturaFresca(actor) ==
  \A f \in Fuentes \ actor.porLeer :
    /\ actor.reporte[f] <= datos[f]
    /\ snapshot # NoExiste => snapshot[f] <= actor.reporte[f]

Ordenado ==
  EnOrden =>
    /\ snapshot # NoExiste => Anterior(snapshot, datos)
    /\ cache # NoCache => Anterior(cache, snapshot)
    /\ \A a \in Actores : act[a].pc = "fijar" => Anterior(act[a].reporte, snapshot)
    /\ \A a \in Actores : act[a].pc = "build" => act[a].adquirio /\ LecturaFresca(act[a])

\* as long as nothing has gone wrong, every write is followed by its rebuild:
\* what is left of a request ends with one, and a rebuild that reads everything
\* the requests have written is on its way, or has been made
PorReconstruir ==
  \/ \E e \in Escritores : guion[e] # <<>>
  \/ programados > 0
  \/ \E t \in Tareas : act[t].pc = "cerrojo"
  \/ \E a \in Actores : /\ act[a].pc = "build"
                         /\ \A f \in Fuentes \ act[a].porLeer : act[a].reporte[f] = datos[f]

TerminaProgramando(g) == g = <<>> \/ g[Len(g)] = "programar"

Cubierto ==
  causas = {} =>
    /\ \A e \in Escritores : TerminaProgramando(guion[e])
    /\ peticiones > 0 => PorReconstruir \/ snapshot = datos

IInv == TypeOK /\ Locales /\ Titular /\ Persistido /\ Ordenado /\ Cubierto
=============================================================================
