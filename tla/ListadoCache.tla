---------------------------- MODULE ListadoCache ----------------------------
(***************************************************************************)
(* The cached listings of payments and receipts: PaymentsService.findAll,  *)
(* RecibosService.findAll and findPendientesConSaldo fill them, and every  *)
(* request that writes one of the two collections deletes those of its     *)
(* prefixes with CacheService.deletePattern, at its end.                   *)
(*                                                                         *)
(* A collection is a version that a write increments, a cached list the    *)
(* version it was read from.  Against Redis, deletePattern is KEYS and     *)
(* then DEL, and errors are swallowed; an instance that could not connect  *)
(* when it started keeps a cache of its own, in memory.                    *)
(***************************************************************************)
EXTENDS Integers, Sequences

CONSTANTS
  Instancias,
  Escritores, Lectores,   \* requests that may be in flight together
  Filtros,                \* filters of a listing, part of its key
  MaxVersion,             \* bound: no request begins after so many writes of a collection
  ConFallos,              \* an await may reject, Redis may fail
  SinRedis                \* the instances that have started without Redis

\* what the constants must satisfy
ListadoAssumption ==
  /\ Instancias # {} /\ Filtros # {}
  /\ MaxVersion \in Nat
  /\ ConFallos \in BOOLEAN
  /\ SinRedis \subseteq Instancias
  /\ "redis" \notin Instancias

Colecciones == {"pagos", "recibos"}
Prefijos == {"payments", "recibos", "recibos_pendientes_saldo"}
Coleccion(prefijo) == IF prefijo = "payments" THEN "pagos" ELSE "recibos"
Claves == Prefijos \X Filtros
Almacenes == {"redis"} \cup SinRedis
Nada == -1
Versiones == Nat

\* What a request does, in order: it writes a collection or deletes a prefix.
Escribe(c) == [hace |-> "escribir", que |-> c]
Borra(p) == [hace |-> "borrar", que |-> p]
BorraRecibos == <<Borra("recibos"), Borra("recibos_pendientes_saldo")>>
CrearPago == <<Escribe("pagos"), Borra("payments")>>

\* Faulty variants (here and below, defined before what they stand in for): each
\* is a slip the code could have, and breaks one of the properties.
CrearReciboSinSaldo == <<Escribe("recibos"), Borra("recibos")>>
CrearRecibo == <<Escribe("recibos")>> \o BorraRecibos

\* ejecutarBulkDesdeListado, on the way of an acceptance
Bulk == <<Escribe("recibos")>> \o BorraRecibos

\* the end of updateEstado
AlFinal == <<Borra("payments")>> \o BorraRecibos

\* A rejection, or an acceptance without receipts to pay; an acceptance with them.
Rechazar == <<Escribe("pagos")>> \o AlFinal
Aceptar == <<Escribe("pagos")>> \o Bulk \o <<Escribe("pagos")>> \o AlFinal

Guiones == [crearPago |-> CrearPago, crearRecibo |-> CrearRecibo, rechazar |-> Rechazar,
            aceptar |-> Aceptar]
Escrituras == {"crearPago", "crearRecibo", "rechazar", "aceptar"}

Pasos(t) == IF t = "nada" THEN {1} ELSE 1 .. Len(Guiones[t])
\* claves are those KEYS has found.
Escritor == UNION {[inst : Instancias, tarea : {t}, paso : Pasos(t), buscando : BOOLEAN,
                    claves : SUBSET Claves] : t \in Escrituras \cup {"nada"}}
Lector == [pc : {"inactivo", "leer", "consultar", "guardar"}, inst : Instancias,
           clave : Claves, version : Versiones]

Quieto == [inst |-> CHOOSE i \in Instancias : TRUE, tarea |-> "nada", paso |-> 1,
           buscando |-> TRUE, claves |-> {}]
Inactivo == [pc |-> "inactivo", inst |-> CHOOSE i \in Instancias : TRUE,
             clave |-> CHOOSE k \in Claves : TRUE, version |-> 0]

VARIABLES
  version,    \* the collections
  cache,      \* the lists cached in Redis and in the instances without it
  escritor, lector,
  excusas     \* history: old lists in a cache that nobody is bound to delete

vars == <<version, cache, escritor, lector, excusas>>

TypeOK ==
  /\ version \in [Colecciones -> Versiones]
  /\ cache \in [Almacenes -> [Claves -> Versiones \cup {Nada}]]
  /\ escritor \in [Escritores -> Escritor]
  /\ lector \in [Lectores -> Lector]
  /\ excusas \subseteq Almacenes \X Claves

Init ==
  /\ version = [c \in Colecciones |-> 0]
  /\ cache = [a \in Almacenes |-> [k \in Claves |-> Nada]]
  /\ escritor = [e \in Escritores |-> Quieto]
  /\ lector = [l \in Lectores |-> Inactivo]
  /\ excusas = {}

Almacen(i) == IF i \in SinRedis THEN i ELSE "redis"
De(e) == Almacen(escritor[e].inst)
Guardada(a, k) == cache[a][k] # Nada
Vieja(a, k) == Guardada(a, k) /\ cache[a][k] < version[Coleccion(k[1])]
Viejas(a) == {<<a, k>> : k \in {k \in Claves : Vieja(a, k)}}

(***************************************************************************)
(* Requests that write.                                                    *)
(***************************************************************************)

Guion(e) == Guiones[escritor[e].tarea]
Ocupado(e) == escritor[e].tarea # "nada"
Toca(e, hace) == Ocupado(e) /\ Guion(e)[escritor[e].paso].hace = hace
Objeto(e) == Guion(e)[escritor[e].paso].que

Avanzado(e) ==
  IF escritor[e].paso = Len(Guion(e))
  THEN Quieto
  ELSE [escritor[e] EXCEPT !.paso = @ + 1, !.buscando = TRUE, !.claves = {}]

Empezar(e, i, tarea) ==
  /\ ~Ocupado(e)
  /\ \A c \in Colecciones : version[c] < MaxVersion
  /\ escritor' = [escritor EXCEPT ![e].inst = i, ![e].tarea = tarea]
  /\ UNCHANGED <<version, cache, lector, excusas>>

\* What is cached in another store than the writer's stays there.
Escribir(e) ==
  /\ Toca(e, "escribir")
  /\ LET c == Objeto(e)
     IN /\ version' = [version EXCEPT ![c] = @ + 1]
        /\ excusas' = excusas \cup
             {ak \in (Almacenes \ {De(e)}) \X Claves :
                Coleccion(ak[2][1]) = c /\ Guardada(ak[1], ak[2])}
  /\ escritor' = [escritor EXCEPT ![e] = Avanzado(e)]
  /\ UNCHANGED <<cache, lector>>

\* KEYS of the prefix
Buscar(e) ==
  /\ Toca(e, "borrar")
  /\ escritor[e].buscando
  /\ De(e) = "redis"
  /\ escritor' = [escritor EXCEPT ![e].buscando = FALSE,
       ![e].claves = {k \in Claves : k[1] = Objeto(e) /\ cache["redis"][k] # Nada}]
  /\ UNCHANGED <<version, cache, lector, excusas>>

Vaciar(e, ks) ==
  /\ cache' = [cache EXCEPT ![De(e)] = [k \in Claves |-> IF k \in ks THEN Nada ELSE @[k]]]
  /\ excusas' = excusas \ ({De(e)} \X ks)
  /\ escritor' = [escritor EXCEPT ![e] = Avanzado(e)]
  /\ UNCHANGED <<version, lector>>

\* DEL of what KEYS has found
Borrar(e) ==
  /\ Toca(e, "borrar")
  /\ ~escritor[e].buscando
  /\ Vaciar(e, escritor[e].claves)

\* in memory, both at once
BorrarMemoria(e) ==
  /\ Toca(e, "borrar")
  /\ De(e) # "redis"
  /\ Vaciar(e, {k \in Claves : k[1] = Objeto(e)})

\* the error is swallowed and the request goes on
NoBorrar(e) ==
  /\ ConFallos
  /\ Toca(e, "borrar")
  /\ De(e) = "redis"
  /\ excusas' = excusas \cup {ak \in Viejas("redis") : ak[2][1] = Objeto(e)}
  /\ escritor' = [escritor EXCEPT ![e] = Avanzado(e)]
  /\ UNCHANGED <<version, cache, lector>>

\* An await rejects or the process dies: the rest, deletions included, is not done.
Fallar(e) ==
  /\ ConFallos
  /\ Ocupado(e)
  /\ excusas' = excusas \cup Viejas(De(e))
  /\ escritor' = [escritor EXCEPT ![e] = Quieto]
  /\ UNCHANGED <<version, cache, lector>>

(***************************************************************************)
(* Requests that read.                                                     *)
(***************************************************************************)

Listar(l, i, k) ==
  /\ lector[l].pc = "inactivo"
  /\ lector' = [lector EXCEPT ![l].pc = "leer", ![l].inst = i, ![l].clave = k]
  /\ UNCHANGED <<version, cache, escritor, excusas>>

\* a hit is the answer; an error of Redis is a miss
LeerCache(l) ==
  /\ lector[l].pc = "leer"
  /\ LET hay == cache[Almacen(lector[l].inst)][lector[l].clave] # Nada
     IN \/ hay /\ lector' = [lector EXCEPT ![l] = Inactivo]
        \/ (~hay \/ ConFallos) /\ lector' = [lector EXCEPT ![l].pc = "consultar"]
  /\ UNCHANGED <<version, cache, escritor, excusas>>

Consultar(l) ==
  /\ lector[l].pc = "consultar"
  /\ lector' = [lector EXCEPT ![l].pc = "guardar", ![l].version = version[Coleccion(lector[l].clave[1])]]
  /\ UNCHANGED <<version, cache, escritor, excusas>>

\* A list that has been overtaken is stored all the same, after the deletion.
GuardarLista(l) ==
  /\ lector[l].pc = "guardar"
  /\ LET a == Almacen(lector[l].inst)
         k == lector[l].clave
     IN \/ /\ cache' = [cache EXCEPT ![a][k] = lector[l].version]
           /\ excusas' = IF lector[l].version < version[Coleccion(k[1])]
                         THEN excusas \cup {<<a, k>>} ELSE excusas \ {<<a, k>>}
        \/ ConFallos /\ UNCHANGED <<cache, excusas>>
  /\ lector' = [lector EXCEPT ![l] = Inactivo]
  /\ UNCHANGED <<version, escritor>>

ExpirarNunca(a, k) ==
  /\ cache[a][k] # Nada
  /\ a # "redis"
  /\ cache' = [cache EXCEPT ![a][k] = Nada]
  /\ excusas' = excusas \ {<<a, k>>}
  /\ UNCHANGED <<version, escritor, lector>>

\* three minutes
Expirar(a, k) ==
  /\ cache[a][k] # Nada
  /\ cache' = [cache EXCEPT ![a][k] = Nada]
  /\ excusas' = excusas \ {<<a, k>>}
  /\ UNCHANGED <<version, escritor, lector>>

PasoEscritor(e) ==
  Escribir(e) \/ Buscar(e) \/ Borrar(e) \/ BorrarMemoria(e) \/ NoBorrar(e) \/ Fallar(e)
PasoLector(l) == LeerCache(l) \/ Consultar(l) \/ GuardarLista(l)

Next ==
  \/ \E e \in Escritores :
       PasoEscritor(e) \/ \E i \in Instancias, t \in Escrituras : Empezar(e, i, t)
  \/ \E l \in Lectores :
       PasoLector(l) \/ \E i \in Instancias, k \in Claves : Listar(l, i, k)
  \/ \E a \in Almacenes, k \in Claves : Expirar(a, k)

Spec == Init /\ [][Next]_vars

\* Requests go on, and the TTL of an entry passes.
Justicia ==
  /\ \A e \in Escritores : WF_vars(PasoEscritor(e))
  /\ \A l \in Lectores : WF_vars(PasoLector(l))
  /\ \A a \in Almacenes, k \in Claves : WF_vars(Expirar(a, k))

SpecJusta == Spec /\ Justicia
-----------------------------------------------------------------------------
\* e will still delete k from a
BorraraAun(e, a, k) ==
  /\ Ocupado(e) /\ De(e) = a
  /\ \E j \in escritor[e].paso .. Len(Guion(e)) :
       /\ Guion(e)[j] = Borra(k[1])
       /\ j = escritor[e].paso => escritor[e].buscando \/ k \in escritor[e].claves

\* A list older than its collection is on its way to be deleted, or there is a
\* reason: its reader was overtaken by the write, the write came from an instance
\* with another cache, a request broke off or Redis lost the deletion.  No request
\* forgets a prefix.
ViejaConExcusa ==
  \A a \in Almacenes, k \in Claves :
    Vieja(a, k) => <<a, k>> \in excusas \/ \E e \in Escritores : BorraraAun(e, a, k)

\* Whatever has failed, after the last write every list in the cache is current
\* some day and from then on.
ListadoConverge == <>[](\A a \in Almacenes, k \in Claves : ~Vieja(a, k))
-----------------------------------------------------------------------------
(***************************************************************************)
(* The inductive invariant.                                                *)
(***************************************************************************)
LectorAlDia(l) ==
  lector[l].pc = "guardar" => lector[l].version <= version[Coleccion(lector[l].clave[1])]

CacheDelPasado ==
  \A a \in Almacenes, k \in Claves : cache[a][k] <= version[Coleccion(k[1])]

IInv ==
  /\ TypeOK
  /\ CacheDelPasado
  /\ ViejaConExcusa
  /\ \A l \in Lectores : LectorAlDia(l)
=============================================================================
