---------------------------- MODULE AvisosLeidos ----------------------------
(***************************************************************************)
(* The notices of the buildings: AvisosService creates, publishes,         *)
(* withdraws and removes them, and tells a device how many of a building   *)
(* it has not seen, from the hour of its last visit that CacheService      *)
(* keeps for a year.  The hour is the device's, of whatever building.      *)
(*                                                                         *)
(* A visit is two requests of the device, the list of a building and then  *)
(* mark-read; a count is a read of the hour and a query.  The clocks of    *)
(* the instances are taken to agree.                                       *)
(***************************************************************************)
EXTENDS Integers

CONSTANTS
  Dispositivos,
  Avisos,        \* ids of the notices that may be created
  Edificios,
  EdificioDe,    \* the building of each notice
  Visitas,       \* visits and counts that may be in progress together
  MaxHora,       \* bound: the last hour, in milliseconds
  AvisosConFallos,     \* Redis may fail, or lose an hour; an insertion may be rejected
  Nulo

ASSUME AvisosAssumption ==
  /\ EdificioDe \in [Avisos -> Edificios]
  /\ MaxHora \in Nat
  /\ AvisosConFallos \in BOOLEAN
  /\ Nulo \notin Int \cup Dispositivos \cup Edificios

Horas == 0 .. MaxHora
\* "fechado": createdAt is set, and the document is on its way to the collection
Estados == {"no", "fechado", "borrador", "publicado", "eliminado"}
EnColeccion == {"borrador", "publicado"}
Aviso == [estado : Estados, creado : Horas]

\* vistos are those of the visit.  The building is that of a count.  History: pasados,
\* what a visit has not listed and its hour covers, or what the hour of a count does
\* of what no visit has listed; leidos, what the device had seen at a count; and
\* intacta, whether its hour was read and is the latest ever stored.
PasosVisita == {"inactiva", "marcar", "fijar", "buscar", "contada"}
Visita == [pc : PasosVisita, dispositivo : Dispositivos \cup {Nulo}, hora : Horas \cup {Nulo},
             edificio : Edificios \cup {Nulo}, vistos : SUBSET Avisos, cuenta : SUBSET Avisos,
             pasados : SUBSET Avisos, leidos : SUBSET Avisos, intacta : BOOLEAN]
Ociosa == [pc |-> "inactiva", dispositivo |-> Nulo, hora |-> Nulo, edificio |-> Nulo,
           vistos |-> {}, cuenta |-> {}, pasados |-> {}, leidos |-> {}, intacta |-> FALSE]

VARIABLES
  ahora,
  avisos,      \* the collection
  marca,       \* Redis: the hour of the last visit of each device
  visita,
  leidos,      \* history: the notices of the visits that each device has marked
  tope,        \* history: the latest hour stored for each device
  colados      \* history: what the visits that each device has marked have passed over

varsAvisos == <<ahora, avisos, marca, visita, leidos, tope, colados>>

TypeOKAvisos ==
  /\ ahora \in Horas
  /\ avisos \in [Avisos -> Aviso]
  /\ marca \in [Dispositivos -> Horas \cup {Nulo}]
  /\ visita \in [Visitas -> Visita]
  /\ leidos \in [Dispositivos -> SUBSET Avisos]
  /\ tope \in [Dispositivos -> Horas \cup {Nulo}]
  /\ colados \in [Dispositivos -> SUBSET Avisos]

InitAvisos ==
  /\ ahora = 0
  /\ avisos = [a \in Avisos |-> [estado |-> "no", creado |-> 0]]
  /\ marca = [d \in Dispositivos |-> Nulo]
  /\ visita = [r \in Visitas |-> Ociosa]
  /\ leidos = [d \in Dispositivos |-> {}]
  /\ tope = [d \in Dispositivos |-> Nulo]
  /\ colados = [d \in Dispositivos |-> {}]

IrVisita(r, p) == visita' = [visita EXCEPT ![r] = p]
Publicados(b) == {a \in Avisos : avisos[a].estado = "publicado" /\ EdificioDe[a] = b}

Tic ==
  /\ ahora < MaxHora
  /\ ahora' = ahora + 1
  /\ UNCHANGED <<avisos, marca, visita, leidos, tope, colados>>

(***************************************************************************)
(* The administrator.                                                      *)
(***************************************************************************)

\* save: the time is stamped before the insertion is awaited.  A visit with its list
\* behind it, or of this very millisecond, has passed it over.
FecharAviso(a) ==
  /\ avisos[a].estado = "no"
  /\ avisos' = [avisos EXCEPT ![a] = [estado |-> "fechado", creado |-> ahora]]
  /\ visita' = [r \in Visitas |->
       IF visita[r].pc = "marcar" \/ visita[r].hora = ahora
       THEN [visita[r] EXCEPT !.pasados = @ \cup {a}] ELSE visita[r]]
  /\ colados' = [d \in Dispositivos |-> colados[d] \cup {b \in {a} : marca[d] = ahora}]
  /\ UNCHANGED <<ahora, marca, leidos, tope>>

Cambiar(a, estado) ==
  /\ avisos' = [avisos EXCEPT ![a].estado = estado]
  /\ UNCHANGED <<ahora, marca, visita, leidos, tope, colados>>

\* the document is in the collection, a draft or published
InsertarAviso(a, estado) ==
  /\ avisos[a].estado = "fechado"
  /\ Cambiar(a, estado)

FallarInsercion(a) ==
  /\ AvisosConFallos
  /\ avisos[a].estado = "fechado"
  /\ Cambiar(a, "eliminado")

\* an update sets the state and leaves createdAt alone
Actualizar(a, estado) ==
  /\ avisos[a].estado \in EnColeccion
  /\ Cambiar(a, estado)

EliminarAviso(a) ==
  /\ avisos[a].estado \in EnColeccion
  /\ Cambiar(a, "eliminado")

(***************************************************************************)
(* A visit.                                                                *)
(***************************************************************************)

Listados(b) == {a \in Avisos : avisos[a].estado \in EnColeccion /\ EdificioDe[a] = b}
\* not listed, although their hour is behind: on their way, or of another building
Ocultos(b) == {a \in Avisos : avisos[a].estado \in {"fechado"} \cup EnColeccion} \ Listados(b)

\* the list of a building, drafts and all
ListarAvisos(r, d, b) ==
  /\ visita[r].pc = "inactiva"
  /\ IrVisita(r, [Ociosa EXCEPT !.pc = "marcar", !.dispositivo = d, !.vistos = Listados(b),
                                !.pasados = Ocultos(b)])
  /\ UNCHANGED <<ahora, avisos, marca, leidos, tope, colados>>

\* Date.now() of mark-read, which names the device and no building
Marcar(r) ==
  /\ visita[r].pc = "marcar"
  /\ IrVisita(r, [visita[r] EXCEPT !.pc = "fijar", !.hora = ahora])
  /\ UNCHANGED <<ahora, avisos, marca, leidos, tope, colados>>

\* Redis stores it; an error is swallowed
FijarMarca(r) ==
  /\ visita[r].pc = "fijar"
  /\ LET d == visita[r].dispositivo
         h == visita[r].hora
     IN \/ /\ marca' = [marca EXCEPT ![d] = h]
           /\ tope' = [tope EXCEPT ![d] = IF @ = Nulo \/ h > @ THEN h ELSE @]
           /\ leidos' = [leidos EXCEPT ![d] = @ \cup visita[r].vistos]
           /\ colados' = [colados EXCEPT ![d] = @ \cup visita[r].pasados]
        \/ AvisosConFallos /\ UNCHANGED <<marca, tope, leidos, colados>>
  /\ IrVisita(r, Ociosa)
  /\ UNCHANGED <<ahora, avisos>>

\* a year later, or Redis restarts
Perder(d) ==
  /\ AvisosConFallos
  /\ marca[d] # Nulo
  /\ marca' = [marca EXCEPT ![d] = Nulo]
  /\ UNCHANGED <<ahora, avisos, visita, leidos, tope, colados>>

(***************************************************************************)
(* A count.                                                                *)
(***************************************************************************)

\* get of the hour; an error of Redis is a miss
LeerMarca(r, d, b) ==
  /\ visita[r].pc = "inactiva"
  /\ LET p == [Ociosa EXCEPT !.pc = "buscar", !.dispositivo = d, !.edificio = b,
                             !.leidos = leidos[d], !.pasados = colados[d]]
     IN \/ IrVisita(r, [p EXCEPT !.hora = marca[d], !.intacta = marca[d] = tope[d]])
        \/ AvisosConFallos /\ IrVisita(r, p)
  /\ UNCHANGED <<ahora, avisos, marca, leidos, tope, colados>>

\* Faulty variants (here and below, defined before what they stand in for): each
\* is a slip the code could have, and breaks one of the properties.
RecientesInclusive(hora, b) ==
  {a \in Publicados(b) : avisos[a].creado >= (IF hora = Nulo THEN 0 ELSE hora)}

RecientesConHora(hora, b) ==
  {a \in Publicados(b) : hora # Nulo /\ avisos[a].creado > hora}

\* createdAt against the hour, in building b; without an hour, all: 0 is long before
\* any of them
Recientes(hora, b) ==
  {a \in Publicados(b) : hora = Nulo \/ avisos[a].creado > hora}

Contar(r) ==
  /\ visita[r].pc = "buscar"
  /\ IrVisita(r, [visita[r] EXCEPT !.pc = "contada",
                               !.cuenta = Recientes(visita[r].hora, visita[r].edificio)])
  /\ UNCHANGED <<ahora, avisos, marca, leidos, tope, colados>>

\* The answer leaves, or a request is given up on its way.
TerminarVisita(r) ==
  /\ visita[r].pc = "contada" \/ (AvisosConFallos /\ visita[r].pc # "inactiva")
  /\ IrVisita(r, Ociosa)
  /\ UNCHANGED <<ahora, avisos, marca, leidos, tope, colados>>

Administrar(a) ==
  \/ FecharAviso(a) \/ FallarInsercion(a) \/ EliminarAviso(a)
  \/ \E estado \in EnColeccion : InsertarAviso(a, estado) \/ Actualizar(a, estado)
Atender(r) ==
  \/ Marcar(r) \/ FijarMarca(r) \/ Contar(r) \/ TerminarVisita(r)
  \/ \E d \in Dispositivos, b \in Edificios : ListarAvisos(r, d, b) \/ LeerMarca(r, d, b)

NextAvisos ==
  \/ Tic
  \/ \E a \in Avisos : Administrar(a)
  \/ \E r \in Visitas : Atender(r)
  \/ \E d \in Dispositivos : Perder(d)

SpecAvisos == InitAvisos /\ [][NextAvisos]_varsAvisos
-----------------------------------------------------------------------------
\* A notice that was in a visit of the device is not counted again, whatever is
\* published and withdrawn meanwhile, unless Redis has failed, has lost the hour, or
\* holds an older one: two visits whose hours arrive in the wrong order.
LeidoNoVuelve ==
  \A r \in Visitas :
    visita[r].pc = "contada" /\ visita[r].intacta => visita[r].cuenta \cap visita[r].leidos = {}

\* A published notice of the building that a count leaves out is one that a visit of
\* the device has listed (perhaps while it was a draft: it is published late and never
\* counted), or one that a visit has passed over and marked: it was on its way to the
\* collection at the list, its time already stamped (avisos.service.ts:55); it is of
\* another building than the one visited (cache.service.ts:190); or it was stamped
\* after the list and not after the hour.  This is so although hours may arrive in the
\* wrong order, be lost or not be read.
NuevoSeCuenta ==
  [][\A r \in Visitas :
       visita[r].pc = "buscar" /\ visita'[r].pc = "contada" =>
         Publicados(visita[r].edificio) \ visita'[r].cuenta
           \subseteq visita[r].leidos \cup visita[r].pasados]_varsAvisos
-----------------------------------------------------------------------------
(***************************************************************************)
(* The inductive invariant.  What a device has marked was there at the     *)
(* latest hour stored for it; what is in a visit, at the hour of the visit;*)
(* and what an intact count knows to be seen, at the hour it has read.     *)
(***************************************************************************)
Hasta(a, hora) == avisos[a].estado # "no" /\ hora # Nulo /\ avisos[a].creado <= hora

EnOrden(r) ==
  /\ visita[r].pc # "inactiva" => visita[r].dispositivo \in Dispositivos
  /\ visita[r].pc = "marcar" => \A a \in visita[r].vistos : Hasta(a, ahora)
  /\ visita[r].pc = "fijar" =>
       visita[r].hora # Nulo /\ \A a \in visita[r].vistos : Hasta(a, visita[r].hora)
  /\ visita[r].pc = "buscar" =>
       /\ visita[r].leidos \subseteq leidos[visita[r].dispositivo]
       /\ visita[r].intacta => \A a \in visita[r].leidos : Hasta(a, visita[r].hora)

IInvAvisos ==
  /\ TypeOKAvisos
  /\ \A a \in Avisos : avisos[a].creado <= ahora
  /\ \A d \in Dispositivos : \A a \in leidos[d] : Hasta(a, tope[d])
  /\ \A r \in Visitas : EnOrden(r)
  /\ LeidoNoVuelve

(***************************************************************************)
(* For NuevoSeCuenta: what was stamped up to an hour that is stored, read  *)
(* or about to be stored has been listed or passed over; and no such hour  *)
(* is later than now.                                                      *)
(***************************************************************************)
Cubierto(hora, los) ==
  \A a \in Avisos : Hasta(a, hora) /\ avisos[a].estado # "eliminado" => a \in los
NoTras(hora) == hora # Nulo => hora <= ahora

Cubierta(v) ==
  /\ NoTras(v.hora)
  /\ v.pc = "marcar" => Cubierto(ahora, v.vistos \cup v.pasados)
  /\ v.pc = "fijar" => Cubierto(v.hora, v.vistos \cup v.pasados)
  /\ v.pc = "buscar" => Cubierto(v.hora, v.leidos \cup v.pasados)

IInvColados ==
  /\ IInvAvisos
  /\ \A d \in Dispositivos : NoTras(marca[d]) /\ Cubierto(marca[d], leidos[d] \cup colados[d])
  /\ \A r \in Visitas : Cubierta(visita[r])
=============================================================================
