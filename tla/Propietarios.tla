---------------------------- MODULE Propietarios ----------------------------
(***************************************************************************)
(* The owners and tenants of one building: OwnersService create, update,   *)
(* deactivate and changePassword, and AuthService.login, which looks for   *)
(* an administrator first and for an active owner then.                    *)
(*                                                                         *)
(* An action is what the code does between two awaits.  Mongoose's save    *)
(* writes only the fields that differ from the copy it has read; the       *)
(* unique index (buildingId, email) refuses a second owner of an e-mail.   *)
(***************************************************************************)
EXTENDS Integers, FiniteSets

CONSTANTS
  Procesos,    \* HTTP requests that may be in flight together
  Duenos,      \* ids of the owners that may be created
  Correos,
  Admins,      \* e-mails that belong to an administrator of the building
  Contrasenas, \* passwords; a hash is the password it stands for
  Pisos, Numeros,
  Apartamentos,  \* the apartments there are: a broken creation leaves gaps
  Cambios,       \* bodies of updates; a field not given is NoDado
  NoDado

ASSUME PropietariosAssumption ==
  /\ Admins \subseteq Correos
  /\ Apartamentos \subseteq Pisos \X Numeros
  /\ Cambios \subseteq [piso : Pisos \cup {NoDado}, numero : Numeros \cup {NoDado},
                         correo : Correos \cup {NoDado}, activo : BOOLEAN \cup {NoDado},
                         clave : Contrasenas \cup {NoDado}]
  /\ NoDado \notin Duenos \cup Correos \cup Contrasenas \cup Pisos \cup Numeros

Dueno == [correo : Correos \cup {NoDado}, clave : Contrasenas \cup {NoDado},
          piso : Pisos \cup {NoDado}, apartamento : Numeros \cup {NoDado},
          idUnico : (Pisos \X Numeros) \cup {NoDado}, activo : BOOLEAN]
SinDueno == [correo |-> NoDado, clave |-> NoDado, piso |-> NoDado, apartamento |-> NoDado,
             idUnico |-> NoDado, activo |-> FALSE]

\* leido is the copy a request has read of the owner, nuevo what it has made of
\* it; superado is history: the owner has been written since he was read.
PasosProceso == {"inactivo", "correo", "crear", "guardar", "verificar", "dueno", "firmar",
                 "dentro"}
Proceso == [pc : PasosProceso, dueno : Duenos \cup {NoDado}, leido : Dueno, nuevo : Dueno,
            correo : Correos \cup {NoDado}, clave : Contrasenas \cup {NoDado}, superado : BOOLEAN]
Ocioso == [pc |-> "inactivo", dueno |-> NoDado, leido |-> SinDueno, nuevo |-> SinDueno,
           correo |-> NoDado, clave |-> NoDado, superado |-> FALSE]

VARIABLES
  duenos,    \* the collection
  proceso,   \* the requests in flight, and the sessions of owners logged in
  cruzados   \* history: owners of whom one update was saved over another

varsPropietarios == <<duenos, proceso, cruzados>>

TypeOKPropietarios ==
  /\ duenos \in [Duenos -> Dueno]
  /\ proceso \in [Procesos -> Proceso]
  /\ cruzados \subseteq Duenos

InitPropietarios ==
  /\ duenos = [o \in Duenos |-> SinDueno]
  /\ proceso = [p \in Procesos |-> Ocioso]
  /\ cruzados = {}

IrProceso(p, r) == proceso' = [proceso EXCEPT ![p] = r]
Existe(o) == duenos[o].correo # NoDado
EnUso(correo, salvo) == \E o \in Duenos \ {salvo} : duenos[o].correo = correo

\* Owner o is written by p, who goes on as r: whoever has read him reads no more.
EscribirDueno(p, r, o, doc) ==
  /\ duenos' = [duenos EXCEPT ![o] = doc]
  /\ proceso' = [q \in Procesos |->
       IF q = p THEN r
       ELSE IF proceso[q].dueno = o /\ proceso[q].pc # "dentro"
            THEN [proceso[q] EXCEPT !.superado = TRUE] ELSE proceso[q]]

(***************************************************************************)
(* The administrator of the building.                                      *)
(***************************************************************************)

\* the apartment and the e-mail are looked up; a refusal changes nothing
PedirAlta(p, correo, clave, piso, numero) ==
  /\ proceso[p].pc = "inactivo"
  /\ <<piso, numero>> \in Apartamentos
  /\ ~EnUso(correo, NoDado)
  /\ IrProceso(p, [Ocioso EXCEPT !.pc = "crear",
              !.nuevo = [correo |-> correo, clave |-> clave, piso |-> piso,
                         apartamento |-> numero, idUnico |-> <<piso, numero>>,
                         activo |-> TRUE]])
  /\ UNCHANGED <<duenos, cruzados>>

\* after the hash
CrearDueno(p, o) ==
  /\ proceso[p].pc = "crear"
  /\ ~Existe(o)
  /\ IF EnUso(proceso[p].nuevo.correo, NoDado)
     THEN IrProceso(p, Ocioso) /\ UNCHANGED duenos
     ELSE EscribirDueno(p, Ocioso, o, proceso[p].nuevo)
  /\ UNCHANGED cruzados

Elegir(dado, tenia) == IF dado = NoDado THEN tenia ELSE dado

\* Faulty variants (here and below, defined before what they stand in for): each
\* is a slip the code could have, and breaks one of the properties.
UbicadoSoloPiso(doc, piso, numero) ==
  [doc EXCEPT !.piso = Elegir(piso, @), !.apartamento = Elegir(numero, @),
              !.idUnico = IF piso = NoDado THEN @ ELSE <<piso, Elegir(numero, doc.apartamento)>>]

\* idUnico is computed from what is given and, for the rest, from the copy read
Ubicado(doc, piso, numero) ==
  [doc EXCEPT !.piso = Elegir(piso, @), !.apartamento = Elegir(numero, @),
              !.idUnico = <<Elegir(piso, doc.piso), Elegir(numero, doc.apartamento)>>]

\* update: the owner is read, the apartment he would have must be there
LeerDueno(p, o, dto) ==
  /\ proceso[p].pc = "inactivo"
  /\ Existe(o)
  /\ dto.piso # NoDado \/ dto.numero # NoDado =>
       <<Elegir(dto.piso, duenos[o].piso), Elegir(dto.numero, duenos[o].apartamento)>>
         \in Apartamentos
  /\ LET nuevo == Ubicado(duenos[o], dto.piso, dto.numero)
     IN IrProceso(p, [Ocioso EXCEPT !.pc = "correo", !.dueno = o, !.leido = duenos[o],
                 !.correo = dto.correo, !.clave = dto.clave,
                 !.nuevo = [nuevo EXCEPT !.activo = Elegir(dto.activo, @)]])
  /\ UNCHANGED <<duenos, cruzados>>

\* another owner of the e-mail ends the update
ComprobarCorreo(p) ==
  /\ proceso[p].pc = "correo"
  /\ IF proceso[p].correo # NoDado /\ EnUso(proceso[p].correo, proceso[p].dueno)
     THEN IrProceso(p, Ocioso)
     ELSE IrProceso(p, [proceso[p] EXCEPT !.pc = "guardar",
                                   !.nuevo.correo = Elegir(proceso[p].correo, @)])
  /\ UNCHANGED <<duenos, cruzados>>

EntoncesCompleto(doc, p) ==
  [proceso[p].nuevo EXCEPT !.clave = Elegir(proceso[p].clave, @)]

\* save: a field is written when it differs from the copy; a new hash always does
Entonces(doc, p) ==
  LET leido == proceso[p].leido
      nuevo == proceso[p].nuevo
      Campo(f) == IF nuevo[f] # leido[f] THEN nuevo[f] ELSE doc[f]
  IN [correo |-> Campo("correo"), clave |-> Elegir(proceso[p].clave, doc.clave),
      piso |-> Campo("piso"), apartamento |-> Campo("apartamento"),
      idUnico |-> Campo("idUnico"), activo |-> Campo("activo")]

\* after the hash; the unique index has the last word
GuardarDueno(p) ==
  /\ proceso[p].pc = "guardar"
  /\ LET o == proceso[p].dueno
         doc == Entonces(duenos[o], p)
     IN IF EnUso(doc.correo, o)
        THEN IrProceso(p, Ocioso) /\ UNCHANGED <<duenos, cruzados>>
        ELSE /\ EscribirDueno(p, Ocioso, o, doc)
             /\ cruzados' = IF proceso[p].superado THEN cruzados \cup {o} ELSE cruzados

\* deactivate, one update
Desactivar(p, o) ==
  /\ proceso[p].pc = "inactivo"
  /\ Existe(o)
  /\ EscribirDueno(p, Ocioso, o, [duenos[o] EXCEPT !.activo = FALSE])
  /\ UNCHANGED cruzados

(***************************************************************************)
(* login, and what an owner may do inside.                                 *)
(***************************************************************************)

\* the building is found, and no administrator of that e-mail
Entrar(p, correo, clave) ==
  /\ proceso[p].pc = "inactivo"
  /\ correo \notin Admins
  /\ IrProceso(p, [Ocioso EXCEPT !.pc = "dueno", !.correo = correo, !.clave = clave])
  /\ UNCHANGED <<duenos, cruzados>>

\* of the copy read, the hash alone is looked at
Hash(o) == [SinDueno EXCEPT !.clave = duenos[o].clave]

BuscarDuenoCualquiera(p, o) ==
  /\ proceso[p].pc = "dueno"
  /\ duenos[o].correo = proceso[p].correo
  /\ IrProceso(p, [proceso[p] EXCEPT !.pc = "firmar", !.dueno = o, !.leido = Hash(o)])
  /\ UNCHANGED <<duenos, cruzados>>

\* findActiveByEmail
BuscarDueno(p, o) ==
  /\ proceso[p].pc = "dueno"
  /\ duenos[o].correo = proceso[p].correo
  /\ duenos[o].activo
  /\ IrProceso(p, [proceso[p] EXCEPT !.pc = "firmar", !.dueno = o, !.leido = Hash(o)])
  /\ UNCHANGED <<duenos, cruzados>>

\* nobody, or no active one: 401
SinEntrar(p) ==
  /\ proceso[p].pc = "dueno"
  /\ \A o \in Duenos : duenos[o].correo = proceso[p].correo => ~duenos[o].activo
  /\ IrProceso(p, Ocioso)
  /\ UNCHANGED <<duenos, cruzados>>

\* bcrypt.compare, then the token
Firmar(p) ==
  /\ proceso[p].pc = "firmar"
  /\ IrProceso(p, IF proceso[p].clave = proceso[p].leido.clave
           THEN [Ocioso EXCEPT !.pc = "dentro", !.dueno = proceso[p].dueno]
           ELSE Ocioso)
  /\ UNCHANGED <<duenos, cruzados>>

Salir(p) ==
  /\ proceso[p].pc = "dentro"
  /\ IrProceso(p, Ocioso)
  /\ UNCHANGED <<duenos, cruzados>>

\* changePassword: only an active owner is found, though the token lives on
LeerParaClave(p, actual, nueva) ==
  /\ proceso[p].pc = "dentro"
  /\ LET o == proceso[p].dueno
     IN /\ duenos[o].activo
        /\ IrProceso(p, [Ocioso EXCEPT !.pc = "verificar", !.dueno = o, !.leido = Hash(o),
                    !.nuevo = [SinDueno EXCEPT !.clave = actual], !.clave = nueva])
  /\ UNCHANGED <<duenos, cruzados>>

\* the password given against the hash read
Verificar(p) ==
  /\ proceso[p].pc = "verificar"
  /\ IrProceso(p, IF proceso[p].nuevo.clave # proceso[p].leido.clave THEN Ocioso
           ELSE [proceso[p] EXCEPT !.pc = "guardar", !.nuevo = proceso[p].leido])
  /\ UNCHANGED <<duenos, cruzados>>

\* an await rejects, or the process dies
FallarProceso(p) ==
  /\ proceso[p].pc \notin {"inactivo", "dentro"}
  /\ IrProceso(p, Ocioso)
  /\ UNCHANGED <<duenos, cruzados>>

Gestion(p) ==
  \/ \E correo \in Correos, clave \in Contrasenas, piso \in Pisos, numero \in Numeros :
       PedirAlta(p, correo, clave, piso, numero)
  \/ \E o \in Duenos :
       \/ CrearDueno(p, o) \/ Desactivar(p, o)
       \/ \E dto \in Cambios : LeerDueno(p, o, dto)
  \/ ComprobarCorreo(p) \/ GuardarDueno(p)

Acceso(p) ==
  \/ \E correo \in Correos, clave \in Contrasenas : Entrar(p, correo, clave)
  \/ (\E o \in Duenos : BuscarDueno(p, o)) \/ SinEntrar(p) \/ Firmar(p) \/ Salir(p)
  \/ (\E actual, nueva \in Contrasenas : LeerParaClave(p, actual, nueva)) \/ Verificar(p)

NextPropietarios == \E p \in Procesos : Gestion(p) \/ Acceso(p) \/ FallarProceso(p)

SpecPropietarios == InitPropietarios /\ [][NextPropietarios]_varsPropietarios
-----------------------------------------------------------------------------
\* idUnico names the floor and number an owner has, and there is such an
\* apartment, unless one update was saved over another: each saves its own part of
\* the address, and an idUnico of the copy it has read.
EnApartamento(doc) ==
  doc.idUnico = <<doc.piso, doc.apartamento>> /\ doc.idUnico \in Apartamentos
DomicilioValido == \A o \in Duenos \ cruzados : Existe(o) => EnApartamento(duenos[o])

\* Who has been deactivated comes back only by an update that has read him
\* inactive: none that started before, nor a change of his password.
BajaFirme ==
  [][\A o \in Duenos : Existe(o) /\ ~duenos[o].activo /\ duenos'[o].activo =>
       \E p \in Procesos : proceso[p].dueno = o /\ proceso[p].pc = "guardar"
                           /\ ~proceso[p].leido.activo /\ proceso[p].nuevo.activo]_varsPropietarios

\* A token is given to an active owner with his password, unless he was written
\* while the password was compared.
EntradaVigente ==
  [][\A p \in Procesos : proceso[p].pc = "firmar" /\ proceso'[p].pc = "dentro" =>
       \/ proceso[p].superado
       \/ duenos[proceso[p].dueno].activo /\ proceso[p].clave = duenos[proceso[p].dueno].clave]_varsPropietarios
-----------------------------------------------------------------------------
(***************************************************************************)
(* The inductive invariant.  An update carries an address of the building, *)
(* read from a copy that is still the owner's unless he was written since; *)
(* a change of password carries nothing but the password; and a login, the *)
(* hash of an owner who is still active unless he was written since.  Who  *)
(* is an owner keeps an e-mail and an apartment, or the update of the next *)
(* one would make an idUnico that names none.                              *)
(***************************************************************************)
ConDueno == {"correo", "guardar", "verificar", "firmar", "dentro"}

Completo(doc) == NoDado \notin {doc.correo, doc.piso, doc.apartamento}

Actualiza(p) ==
  LET o == proceso[p].dueno IN
  /\ Existe(o) /\ Completo(proceso[p].nuevo)
  /\ proceso[p].superado \/ proceso[p].leido = duenos[o]
  /\ o \in cruzados \/ EnApartamento(proceso[p].nuevo)

EnCurso(p) ==
  /\ proceso[p].pc \in ConDueno => proceso[p].dueno \in Duenos
  /\ proceso[p].pc = "crear" => Completo(proceso[p].nuevo) /\ EnApartamento(proceso[p].nuevo)
  /\ proceso[p].pc = "correo" => Actualiza(p)
  /\ proceso[p].pc = "guardar" => proceso[p].nuevo = proceso[p].leido \/ Actualiza(p)
  /\ proceso[p].pc = "firmar" =>
       \/ proceso[p].superado
       \/ /\ duenos[proceso[p].dueno].activo
          /\ proceso[p].leido.clave = duenos[proceso[p].dueno].clave

IInvPropietarios ==
  /\ TypeOKPropietarios /\ DomicilioValido
  /\ \A o \in Duenos : Existe(o) => Completo(duenos[o])
  /\ \A p \in Procesos : EnCurso(p)
=============================================================================
