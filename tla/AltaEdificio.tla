---------------------------- MODULE AltaEdificio ----------------------------
(***************************************************************************)
(* Provisioning: SuperService.crearEdificio and OnboardingService.         *)
(* registerBuilding create a building, its apartments and its              *)
(* administrator in three collections, one after another and without       *)
(* compensation; resetAdminPassword changes the administrator's password;  *)
(* BootstrapService, in every instance that starts, and the script         *)
(* create-superadmin make one account the platform's.                      *)
(*                                                                         *)
(* An action is what the code does between two awaits.  insertMany is a    *)
(* step per document.  A unique index refuses the write that breaks it.    *)
(***************************************************************************)
EXTENDS Integers, FiniteSets

CONSTANTS
  Procesos,       \* requests, starting instances and runs of the script
  Edificios,      \* ids of the buildings that may be created
  Cuentas,        \* ids of the documents of the collection usuarios
  Slugs,
  Correos,        \* e-mails of administrators, stored in lower case
  NombresSuper,   \* SUPERADMIN_USUARIO in upper and lower case, as it may be configured
  TotalPisos, AptosPorPiso,
  Nada,
  AltaConFallos   \* an await may reject, a process may die

\* the names of accounts: one of NombresSuper may be an administrator's too
Usuarios == Correos \cup NombresSuper

\* what the constants must satisfy
AltaAssumption ==
  /\ Nada \notin Procesos \cup Edificios \cup Cuentas \cup Slugs \cup Usuarios
  /\ TotalPisos \in Nat \ {0}
  /\ AptosPorPiso \in Nat \ {0}
  /\ AltaConFallos \in BOOLEAN

Vias == {"super", "registro", "reset", "arranque", "script", "nada"}

\* clave is who set the password last
Cuenta == [usuario : Usuarios \cup {Nada}, edificio : Edificios \cup {Nada}, super : BOOLEAN,
           clave : Vias]
SinCuenta == [usuario |-> Nada, edificio |-> Nada, super |-> FALSE, clave |-> "nada"]

\* correo is the name a process works with, of the administrator or of the platform.
\* adelantado is history: an account has become the platform's since the process
\* has looked for one.
PasosAlta == {"inactivo", "crear", "datos", "sembrar", "buscarAdmin", "crearAdmin", "correo",
          "buscarSuper", "fijarSuper", "guardar"}
Proceso == [pc : PasosAlta, via : Vias, slug : Slugs \cup {Nada}, correo : Usuarios \cup {Nada},
            conDatos : BOOLEAN, edificio : Edificios \cup {Nada}, cuenta : Cuentas \cup {Nada},
            adelantado : BOOLEAN]
Inactivo == [pc |-> "inactivo", via |-> "nada", slug |-> Nada, correo |-> Nada,
             conDatos |-> FALSE, edificio |-> Nada, cuenta |-> Nada, adelantado |-> FALSE]

VARIABLES
  slugDe,       \* buildings: the slug of each, Nada before it is created
  conDatos,     \* buildings with payment contact data
  aptos,        \* apartments: those of each building
  cuentas,      \* users
  proceso,
  rotas,        \* history: buildings whose creation has broken off
  promovidas    \* history: buildings whose administrator has become the platform's

base == <<slugDe, conDatos, aptos, cuentas>>
historia == <<rotas, promovidas>>
varsAlta == <<slugDe, conDatos, aptos, cuentas, proceso, rotas, promovidas>>

TypeOKAlta ==
  /\ slugDe \in [Edificios -> Slugs \cup {Nada}]
  /\ conDatos \subseteq Edificios
  /\ aptos \in [Edificios -> SUBSET ((1 .. TotalPisos) \X (1 .. AptosPorPiso))]
  /\ cuentas \in [Cuentas -> Cuenta]
  /\ proceso \in [Procesos -> Proceso]
  /\ rotas \subseteq Edificios
  /\ promovidas \subseteq Edificios

InitAlta ==
  /\ slugDe = [b \in Edificios |-> Nada]
  /\ conDatos = {}
  /\ aptos = [b \in Edificios |-> {}]
  /\ cuentas = [c \in Cuentas |-> SinCuenta]
  /\ proceso = [p \in Procesos |-> Inactivo]
  /\ rotas = {}
  /\ promovidas = {}

PasarA(p, r) == proceso' = [proceso EXCEPT ![p] = r]
A(p, pc) == PasarA(p, [proceso[p] EXCEPT !.pc = pc])

Existe(c) == cuentas[c].usuario # Nada
\* the unique index (usuario, buildingId); a missing buildingId counts as null
Ocupada(u, b, salvo) ==
  \E c \in Cuentas \ {salvo} : cuentas[c].usuario = u /\ cuentas[c].edificio = b

(***************************************************************************)
(* Creating a building.                                                    *)
(***************************************************************************)

\* A slug in use is refused here, and nothing has been written.
Pedir(p, via, slug, correo, datos) ==
  /\ proceso[p].pc = "inactivo"
  /\ datos => via = "super"
  /\ \A b \in Edificios : slugDe[b] # slug
  /\ PasarA(p, [Inactivo EXCEPT !.pc = "crear", !.via = via, !.slug = slug, !.correo = correo,
                                !.conDatos = datos])
  /\ UNCHANGED <<base, historia>>

Creado(p, b) ==
  /\ slugDe' = [slugDe EXCEPT ![b] = proceso[p].slug]
  /\ PasarA(p, [proceso[p] EXCEPT !.edificio = b,
                                  !.pc = IF proceso[p].conDatos THEN "datos" ELSE "sembrar"])

\* the unique index on slug decides between two requests that both passed
CrearEdificio(p, b) ==
  /\ proceso[p].pc = "crear"
  /\ slugDe[b] = Nada
  /\ IF \E c \in Edificios : slugDe[c] = proceso[p].slug
     THEN PasarA(p, Inactivo) /\ UNCHANGED slugDe
     ELSE Creado(p, b)
  /\ UNCHANGED <<conDatos, aptos, cuentas, historia>>

FijarDatos(p) ==
  /\ proceso[p].pc = "datos"
  /\ conDatos' = conDatos \cup {proceso[p].edificio}
  /\ A(p, "sembrar")
  /\ UNCHANGED <<slugDe, aptos, cuentas, historia>>

Docs == (1 .. TotalPisos) \X (1 .. AptosPorPiso)

\* insertMany, unordered: the documents one by one, in any order
Sembrar(p, d) ==
  /\ proceso[p].pc = "sembrar"
  /\ d \in Docs \ aptos[proceso[p].edificio]
  /\ aptos' = [aptos EXCEPT ![proceso[p].edificio] = @ \cup {d}]
  /\ UNCHANGED <<slugDe, conDatos, cuentas, proceso, historia>>

Sembrado(p) ==
  /\ proceso[p].pc = "sembrar"
  /\ Docs \subseteq aptos[proceso[p].edificio]
  /\ A(p, "buscarAdmin")
  /\ UNCHANGED <<base, historia>>

\* Faulty variants (here and below, defined before what they stand in for): each
\* is a slip the code could have, and breaks one of the properties.
BuscarAdminGlobal(p) ==
  /\ proceso[p].pc = "buscarAdmin"
  /\ IF \E c \in Cuentas : cuentas[c].usuario = proceso[p].correo
     THEN PasarA(p, Inactivo) ELSE A(p, "crearAdmin")
  /\ UNCHANGED <<base, historia>>

\* an administrator may be one of several buildings; of this one, not twice
BuscarAdmin(p) ==
  /\ proceso[p].pc = "buscarAdmin"
  /\ IF Ocupada(proceso[p].correo, proceso[p].edificio, Nada)
     THEN PasarA(p, Inactivo) ELSE A(p, "crearAdmin")
  /\ UNCHANGED <<base, historia>>

\* after the hash; the index would refuse a second one
CrearAdmin(p, c) ==
  /\ proceso[p].pc = "crearAdmin"
  /\ ~Existe(c)
  /\ ~Ocupada(proceso[p].correo, proceso[p].edificio, Nada)
  /\ cuentas' = [cuentas EXCEPT ![c] = [usuario |-> proceso[p].correo, super |-> FALSE,
                   edificio |-> proceso[p].edificio, clave |-> proceso[p].via]]
  /\ A(p, "correo")
  /\ UNCHANGED <<slugDe, conDatos, aptos, historia>>

\* The mail is awaited but its failure is swallowed.  Then the answer.
Responder(p) ==
  /\ proceso[p].pc = "correo"
  /\ PasarA(p, Inactivo)
  /\ UNCHANGED <<base, historia>>

(***************************************************************************)
(* The platform's account.                                                 *)
(***************************************************************************)

ArrancarSinMirar(p, u) ==
  /\ proceso[p].pc = "inactivo"
  /\ PasarA(p, [Inactivo EXCEPT !.pc = "buscarSuper", !.via = "arranque", !.correo = u])
  /\ UNCHANGED <<base, historia>>

\* onModuleInit, u configured; with a super administrator in the database there is
\* nothing to do
Arrancar(p, u) ==
  /\ proceso[p].pc = "inactivo"
  /\ \A c \in Cuentas : ~cuentas[c].super
  /\ PasarA(p, [Inactivo EXCEPT !.pc = "buscarSuper", !.via = "arranque", !.correo = u])
  /\ UNCHANGED <<base, historia>>

\* a start looks for the name in whatever case, the script for the name as written
Candidatas(via, u) ==
  {c \in Cuentas : cuentas[c].usuario \in IF via = "script" THEN {u} ELSE NombresSuper}
Hallada(via, u, c) == c \in Candidatas(via, u) \/ (c = Nada /\ Candidatas(via, u) = {})

\* ensureSuperAdmin: any account of that name, of a building's administrator too
BuscarSuper(p, c) ==
  /\ proceso[p].pc = "buscarSuper"
  /\ Hallada("arranque", proceso[p].correo, c)
  /\ PasarA(p, [proceso[p] EXCEPT !.pc = "fijarSuper", !.cuenta = c])
  /\ UNCHANGED <<base, historia>>

\* create-superadmin looks and writes without asking whether there is one
Script(p, u, c) ==
  /\ proceso[p].pc = "inactivo"
  /\ Hallada("script", u, c)
  /\ PasarA(p, [Inactivo EXCEPT !.pc = "fijarSuper", !.via = "script", !.correo = u, !.cuenta = c])
  /\ UNCHANGED <<base, historia>>

PromoverSinSoltar(p, c) ==
  [cuentas[c] EXCEPT !.super = TRUE, !.clave = proceso[p].via]

\* the $set of both
Promover(p, c) ==
  [cuentas[c] EXCEPT !.super = TRUE, !.clave = proceso[p].via, !.edificio = Nada]

\* Who had looked before now decides upon an old state.
Adelantar(p, c) ==
  [q \in Procesos |->
    IF q = p \/ proceso[q].pc = "inactivo" THEN (IF q = p THEN Inactivo ELSE proceso[q])
    ELSE IF proceso[q].via = "arranque" \/ proceso[q].cuenta = c
         THEN [proceso[q] EXCEPT !.adelantado = TRUE] ELSE proceso[q]]

\* updateOne of the account found (the script updates any of that name); the
\* index refuses it when another one has the key (usuario, null) already
PromoverCuenta(p, c) ==
  /\ proceso[p].pc = "fijarSuper"
  /\ proceso[p].cuenta # Nada
  /\ IF proceso[p].via = "script" THEN c \in Candidatas("script", proceso[p].correo)
                                  ELSE c = proceso[p].cuenta
  /\ IF Ocupada(cuentas[c].usuario, Nada, c)
     THEN PasarA(p, Inactivo) /\ UNCHANGED <<cuentas, promovidas>>
     ELSE /\ cuentas' = [cuentas EXCEPT ![c] = Promover(p, c)]
          /\ promovidas' = promovidas \cup ({cuentas[c].edificio} \ {Nada})
          /\ proceso' = Adelantar(p, c)
  /\ UNCHANGED <<slugDe, conDatos, aptos, rotas>>

\* Nobody of that name was there.  It is stored as configured; the index, which
\* tells upper from lower case, refuses the second of two creations of one name,
\* and the instance does not start.
CrearSuper(p, c) ==
  /\ proceso[p].pc = "fijarSuper"
  /\ proceso[p].cuenta = Nada
  /\ ~Existe(c)
  /\ IF Ocupada(proceso[p].correo, Nada, Nada)
     THEN PasarA(p, Inactivo) /\ UNCHANGED cuentas
     ELSE /\ cuentas' = [cuentas EXCEPT ![c] = [usuario |-> proceso[p].correo, super |-> TRUE,
                           edificio |-> Nada, clave |-> proceso[p].via]]
          /\ proceso' = Adelantar(p, c)
  /\ UNCHANGED <<slugDe, conDatos, aptos, historia>>

(***************************************************************************)
(* resetAdminPassword: findOne, hash, save.                                *)
(***************************************************************************)

LeerAdmin(p, c) ==
  /\ proceso[p].pc = "inactivo"
  /\ Existe(c) /\ cuentas[c].edificio # Nada /\ ~cuentas[c].super
  /\ PasarA(p, [Inactivo EXCEPT !.pc = "guardar", !.via = "reset", !.cuenta = c])
  /\ UNCHANGED <<base, historia>>

\* save writes the fields it has changed, the hash alone
GuardarClave(p) ==
  /\ proceso[p].pc = "guardar"
  /\ cuentas' = [cuentas EXCEPT ![proceso[p].cuenta].clave = "reset"]
  /\ PasarA(p, Inactivo)
  /\ UNCHANGED <<slugDe, conDatos, aptos, historia>>

\* an await rejects, or the process dies
FallarAlta(p) ==
  /\ AltaConFallos
  /\ proceso[p].pc # "inactivo"
  /\ rotas' = rotas \cup ({proceso[p].edificio} \ {Nada})
  /\ PasarA(p, Inactivo)
  /\ UNCHANGED <<base, promovidas>>

Alta(p) ==
  \/ \E slug \in Slugs, correo \in Correos, datos \in BOOLEAN, via \in {"super", "registro"} :
       Pedir(p, via, slug, correo, datos)
  \/ (\E b \in Edificios : CrearEdificio(p, b)) \/ FijarDatos(p)
  \/ (\E d \in Docs : Sembrar(p, d)) \/ Sembrado(p)
  \/ BuscarAdmin(p) \/ (\E c \in Cuentas : CrearAdmin(p, c)) \/ Responder(p)

Plataforma(p) ==
  \/ \E u \in NombresSuper : Arrancar(p, u)
  \/ \E c \in Cuentas \cup {Nada} : BuscarSuper(p, c) \/ \E u \in NombresSuper : Script(p, u, c)
  \/ \E c \in Cuentas : PromoverCuenta(p, c) \/ CrearSuper(p, c)

Reset(p) == (\E c \in Cuentas : LeerAdmin(p, c)) \/ GuardarClave(p)

NextAlta == \E p \in Procesos : Alta(p) \/ Plataforma(p) \/ Reset(p) \/ FallarAlta(p)

SpecAlta == InitAlta /\ [][NextAlta]_varsAlta
-----------------------------------------------------------------------------
EnCurso(b) == \E p \in Procesos : proceso[p].edificio = b
TieneAdmin(b) == \E c \in Cuentas : cuentas[c].edificio = b /\ ~cuentas[c].super
\* c becomes the platform's although an account is already
SeSuma(c) == cuentas'[c].super /\ \E d \in Cuentas : cuentas[d].super
Completo(b) == Cardinality(aptos[b]) = TotalPisos * AptosPorPiso /\ TieneAdmin(b)

\* Two requests for one slug may both pass the look-up: one building comes out.
SubdominioUnico ==
  \A b, c \in Edificios : slugDe[b] = slugDe[c] /\ b # c => slugDe[b] = Nada

\* A building lacks apartments or its administrator only while it is being
\* created, after its creation has broken off, or because of such a promotion.
\* Nothing in the code ever completes it: a retry finds the slug taken.
IncompletoConCausa ==
  \A b \in Edificios :
    slugDe[b] # Nada /\ b \notin rotas \cup promovidas /\ ~EnCurso(b) => Completo(b)

\* However many instances start together and run the script besides, the platform
\* has one super administrator for each way the configured name is written in upper
\* and lower case (user.service.ts:120-125 ignores it, create-superadmin.ts:61 and
\* the index do not), who belongs to no building: with one way, there is one.
UnSuperAdmin ==
  \A c \in Cuentas : cuentas[c].super =>
    /\ cuentas[c].edificio = Nada /\ cuentas[c].usuario \in NombresSuper
    /\ \A d \in Cuentas : cuentas[d].super /\ cuentas[d].usuario = cuentas[c].usuario => c = d

\* bootstrap.service.ts: a start overwrites no credentials, and makes no second
\* super administrator.  The platform's password changes, and another account
\* becomes the platform's beside it, by the script, or by an instance or a reset
\* that had looked before an account was the platform's.
SoloAdelantadosPisan ==
  [][\A c \in Cuentas :
       cuentas'[c] # cuentas[c] /\ (cuentas[c].super \/ SeSuma(c)) =>
         \E p \in Procesos : /\ proceso[p].adelantado \/ proceso[p].via = "script"
                             /\ proceso[p].pc # "inactivo"
                             /\ proceso'[p] = Inactivo]_varsAlta

\* The platform never loses its account again: not by a reset that had read the
\* account of a building's administrator before its promotion.
SuperPermanece == [][\A c \in Cuentas : cuentas[c].super => cuentas'[c].super]_varsAlta
-----------------------------------------------------------------------------
(***************************************************************************)
(* The inductive invariant: what the unique index keeps, what a process    *)
(* has done of the building it creates, and what it has not seen of the    *)
(* platform's account.                                                     *)
(***************************************************************************)
IndiceUnico ==
  \A c, d \in Cuentas :
    Existe(c) /\ cuentas[c].usuario = cuentas[d].usuario /\ cuentas[c].edificio = cuentas[d].edificio
      => c = d

DeLaPlataforma ==
  \A c \in Cuentas :
    cuentas[c].super => cuentas[c].usuario \in NombresSuper /\ cuentas[c].edificio = Nada

SinDatos == \A c \in Cuentas : ~Existe(c) => cuentas[c].edificio = Nada

CreaEdificio(r) == r.pc \in {"datos", "sembrar", "buscarAdmin", "crearAdmin", "correo"}

Avance(r) ==
  /\ CreaEdificio(r) <=> r.edificio # Nada
  /\ r.pc = "crear" => r.slug # Nada
  /\ CreaEdificio(r) \/ r.pc = "crear" => r.correo # Nada
  /\ r.pc \in {"buscarAdmin", "crearAdmin", "correo"} => aptos[r.edificio] = Docs
  /\ r.pc = "correo" => TieneAdmin(r.edificio) \/ r.edificio \in promovidas

Mirada(r) ==
  /\ r.pc \in {"buscarSuper", "fijarSuper"} => /\ r.via \in {"arranque", "script"}
                                              /\ r.correo \in NombresSuper
  /\ r.pc = "fijarSuper" /\ r.cuenta # Nada => cuentas[r.cuenta].usuario \in NombresSuper
  /\ r.pc = "guardar" => r.cuenta # Nada /\ Existe(r.cuenta)
  /\ r.pc = "guardar" /\ cuentas[r.cuenta].super => r.adelantado
  /\ r.pc \in {"buscarSuper", "fijarSuper"} /\ r.via = "arranque"
       /\ (\E c \in Cuentas : cuentas[c].super) => r.adelantado

IInvAlta ==
  /\ TypeOKAlta
  /\ SubdominioUnico
  /\ IndiceUnico
  /\ DeLaPlataforma
  /\ SinDatos
  /\ \A p \in Procesos : Avance(proceso[p]) /\ Mirada(proceso[p])
  /\ IncompletoConCausa
=============================================================================
