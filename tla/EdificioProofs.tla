---------------------------- MODULE EdificioProofs ----------------------------
(***************************************************************************)
(* What holds of what the residents of a building are looked up in: its    *)
(* owners, for any number of owners, apartments and requests in flight,    *)
(* and the cached listings of its receipts and payments, for any number of *)
(* instances, requests and filters, with and without Redis.                *)
(***************************************************************************)
EXTENDS Propietarios, ListadoCache, SequenceTheorems, TLAPS

(***************************************************************************)
(* The owners.                                                             *)
(***************************************************************************)

LEMMA OciosoTipo == SinDueno \in Dueno /\ Ocioso \in Proceso
BY DEF SinDueno, Dueno, Ocioso, Proceso, PasosProceso

LEMMA HashTipo ==
  ASSUME TypeOKPropietarios, NEW o \in Duenos
  PROVE  Hash(o) \in Dueno /\ Hash(o).clave = duenos[o].clave
BY DEF Hash, SinDueno, Dueno, TypeOKPropietarios

LEMMA InicioInv == InitPropietarios => IInvPropietarios
<1> SUFFICES ASSUME InitPropietarios PROVE IInvPropietarios
  OBVIOUS
<1>1. TypeOKPropietarios
  BY OciosoTipo DEF InitPropietarios, TypeOKPropietarios
<1>2. \A p \in Procesos : proceso[p].pc = "inactivo"
  BY DEF InitPropietarios, Ocioso
<1>3. \A p \in Procesos : EnCurso(p)
  BY <1>2 DEF EnCurso, ConDueno
<1>4. DomicilioValido
  BY DEF InitPropietarios, DomicilioValido, Existe, SinDueno
<1>5. \A o \in Duenos : ~Existe(o)
  BY DEF InitPropietarios, Existe, SinDueno
<1> QED BY <1>1, <1>3, <1>4, <1>5 DEF IInvPropietarios

(***************************************************************************)
(* A step that writes no owner: request p goes on as r.                    *)
(***************************************************************************)
EnCursoComo(r) ==
  /\ r.pc \in ConDueno => r.dueno \in Duenos
  /\ r.pc = "crear" => Completo(r.nuevo) /\ EnApartamento(r.nuevo)
  /\ r.pc \in {"correo", "guardar"} =>
       \/ r.pc = "guardar" /\ r.nuevo = r.leido
       \/ /\ Existe(r.dueno) /\ Completo(r.nuevo)
          /\ r.superado \/ r.leido = duenos[r.dueno]
          /\ r.dueno \in cruzados \/ EnApartamento(r.nuevo)
  /\ r.pc = "firmar" =>
       r.superado \/ (duenos[r.dueno].activo /\ r.leido.clave = duenos[r.dueno].clave)

LEMMA Como ==
  ASSUME NEW p \in Procesos
  PROVE  EnCurso(p) <=> EnCursoComo(proceso[p])
BY DEF EnCurso, EnCursoComo, Actualiza

LEMMA IrInv ==
  ASSUME IInvPropietarios, NEW p \in Procesos, NEW r \in Proceso, IrProceso(p, r),
         EnCursoComo(r), UNCHANGED <<duenos, cruzados>>
  PROVE  IInvPropietarios'
<1>1. TypeOKPropietarios'
  BY DEF IInvPropietarios, TypeOKPropietarios, IrProceso
<1>2. DomicilioValido'
  BY DEF IInvPropietarios, DomicilioValido, Existe
<1>3. proceso'[p] = r /\ \A q \in Procesos \ {p} : proceso'[q] = proceso[q]
  BY DEF IInvPropietarios, TypeOKPropietarios, IrProceso
<1>4. ASSUME NEW q \in Procesos PROVE EnCurso(q)'
  <2>1. EnCursoComo(proceso'[q])
    BY <1>3, Como DEF IInvPropietarios
  <2> QED BY <2>1 DEF EnCurso, EnCursoComo, Actualiza, Existe
<1>5. \A o \in Duenos : Existe(o)' => Completo(duenos'[o])
  BY DEF IInvPropietarios, Existe
<1> QED BY <1>1, <1>2, <1>4, <1>5 DEF IInvPropietarios, Completo

\* a request that ends
LEMMA TerminaInv ==
  ASSUME IInvPropietarios, NEW p \in Procesos, IrProceso(p, Ocioso), UNCHANGED <<duenos, cruzados>>
  PROVE  IInvPropietarios'
<1>1. EnCursoComo(Ocioso)
  BY DEF EnCursoComo, Ocioso, ConDueno
<1> QED BY <1>1, OciosoTipo, IrInv

(***************************************************************************)
(* A step that writes owner o.                                             *)
(***************************************************************************)
LEMMA EscribirDuenoInv ==
  ASSUME IInvPropietarios, NEW p \in Procesos, NEW o \in Duenos, NEW doc \in Dueno,
         EscribirDueno(p, Ocioso, o, doc), cruzados \subseteq cruzados', cruzados' \subseteq Duenos,
         Existe(o) => doc.correo # NoDado,
         doc.correo # NoDado => Completo(doc) /\ (o \in cruzados' \/ EnApartamento(doc))
  PROVE  IInvPropietarios'
<1> USE DEF IInvPropietarios
<1>1. /\ duenos'[o] = doc /\ \A d \in Duenos \ {o} : duenos'[d] = duenos[d]
      /\ duenos' \in [Duenos -> Dueno]
  BY DEF EscribirDueno, TypeOKPropietarios
<1>2. proceso'[p] = Ocioso
  BY DEF EscribirDueno
<1>3. ASSUME NEW q \in Procesos \ {p}
      PROVE  /\ proceso'[q] \in Proceso
             /\ proceso'[q].pc = proceso[q].pc /\ proceso'[q].dueno = proceso[q].dueno
             /\ proceso'[q].leido = proceso[q].leido /\ proceso'[q].nuevo = proceso[q].nuevo
             /\ proceso[q].superado => proceso'[q].superado
             /\ proceso[q].dueno = o /\ proceso[q].pc # "dentro" => proceso'[q].superado
  <2>1. proceso[q] \in Proceso
    BY DEF TypeOKPropietarios
  <2>2. proceso'[q] = IF proceso[q].dueno = o /\ proceso[q].pc # "dentro"
                      THEN [proceso[q] EXCEPT !.superado = TRUE] ELSE proceso[q]
    BY DEF EscribirDueno
  <2> QED BY <2>1, <2>2 DEF Proceso
<1>4. TypeOKPropietarios'
  <2>1. \A q \in Procesos : proceso'[q] \in Proceso
    BY <1>2, <1>3, OciosoTipo
  <2>2. DOMAIN proceso' = Procesos /\ proceso' = [q \in Procesos |-> proceso'[q]]
    BY DEF EscribirDueno
  <2>3. proceso' \in [Procesos -> Proceso]
    BY <2>1, <2>2
  <2> QED BY <1>1, <2>3 DEF TypeOKPropietarios
<1>5. DomicilioValido'
  BY <1>1 DEF DomicilioValido, Existe
<1>6. EnCurso(p)'
  BY <1>2 DEF EnCurso, Ocioso, ConDueno
<1>7. ASSUME NEW q \in Procesos \ {p} PROVE EnCurso(q)'
  <2>1. EnCursoComo(proceso[q])
    BY Como
  <2>2. CASE proceso[q].dueno = o
    BY <1>1, <1>3, <2>1, <2>2 DEF EnCurso, EnCursoComo, Actualiza, ConDueno, Existe
  <2>3. CASE proceso[q].dueno # o
    <3>1. proceso[q].pc \in ConDueno => duenos'[proceso[q].dueno] = duenos[proceso[q].dueno]
      BY <1>1, <2>1, <2>3 DEF EnCursoComo
    <3> QED BY <1>3, <2>1, <3>1 DEF EnCurso, EnCursoComo, Actualiza, ConDueno, Existe
  <2> QED BY <2>2, <2>3
<1>8. \A d \in Duenos : Existe(d)' => Completo(duenos'[d])
  BY <1>1 DEF Existe
<1> QED BY <1>4, <1>5, <1>6, <1>7, <1>8 DEF Completo
-----------------------------------------------------------------------------
(***************************************************************************)
(* The administrator of the building.                                      *)
(***************************************************************************)
LEMMA PedirAltaInv ==
  ASSUME IInvPropietarios, NEW p \in Procesos, NEW correo \in Correos, NEW clave \in Contrasenas,
         NEW piso \in Pisos, NEW numero \in Numeros, PedirAlta(p, correo, clave, piso, numero)
  PROVE  IInvPropietarios'
<1> DEFINE doc == [correo |-> correo, clave |-> clave, piso |-> piso, apartamento |-> numero,
                   idUnico |-> <<piso, numero>>, activo |-> TRUE]
           r == [Ocioso EXCEPT !.pc = "crear", !.nuevo = doc]
<1>1. IrProceso(p, r) /\ UNCHANGED <<duenos, cruzados>> /\ <<piso, numero>> \in Apartamentos
  BY DEF PedirAlta
<1>2. doc \in Dueno
  BY DEF Dueno
<1>3. Completo(doc) /\ EnApartamento(doc)
  BY <1>1, PropietariosAssumption DEF Completo, EnApartamento
<1> HIDE DEF doc
<1>4. r \in Proceso /\ r.pc = "crear" /\ r.nuevo = doc
  BY <1>2, OciosoTipo DEF Ocioso, Proceso, PasosProceso
<1>5. EnCursoComo(r)
  BY <1>3, <1>4 DEF EnCursoComo, ConDueno
<1> QED BY <1>1, <1>4, <1>5, IrInv

LEMMA CrearDuenoInv ==
  ASSUME IInvPropietarios, NEW p \in Procesos, NEW o \in Duenos, CrearDueno(p, o)
  PROVE  IInvPropietarios'
<1>1. CASE IrProceso(p, Ocioso) /\ UNCHANGED duenos
  BY <1>1, TerminaInv DEF CrearDueno
<1>2. CASE EscribirDueno(p, Ocioso, o, proceso[p].nuevo)
  <2>1. ~Existe(o) /\ proceso[p].pc = "crear" /\ cruzados' = cruzados
    BY DEF CrearDueno
  <2>2. proceso[p].nuevo \in Dueno /\ cruzados \subseteq Duenos
    BY DEF IInvPropietarios, TypeOKPropietarios, Proceso
  <2>3. Completo(proceso[p].nuevo) /\ EnApartamento(proceso[p].nuevo)
    BY <2>1 DEF IInvPropietarios, EnCurso
  <2> QED BY <1>2, <2>1, <2>2, <2>3, EscribirDuenoInv
<1> QED BY <1>1, <1>2 DEF CrearDueno

\* an update's address: the apartment looked up, or that of the copy
LEMMA UbicadoBien ==
  ASSUME NEW doc \in Dueno, Completo(doc), NEW piso \in Pisos \cup {NoDado},
         NEW numero \in Numeros \cup {NoDado},
         piso # NoDado \/ numero # NoDado =>
           <<Elegir(piso, doc.piso), Elegir(numero, doc.apartamento)>> \in Apartamentos
  PROVE  LET nuevo == Ubicado(doc, piso, numero)
         IN  /\ nuevo \in Dueno /\ Completo(nuevo)
             /\ EnApartamento(doc) => EnApartamento(nuevo)
             /\ piso # NoDado \/ numero # NoDado => EnApartamento(nuevo)
<1> DEFINE nuevo == Ubicado(doc, piso, numero)
           enPiso == Elegir(piso, doc.piso)
           enNumero == Elegir(numero, doc.apartamento)
           lugar == <<enPiso, enNumero>>
<1>1. enPiso \in Pisos /\ enNumero \in Numeros
  BY DEF Elegir, Completo, Dueno
<1>2. piso = NoDado /\ numero = NoDado => enPiso = doc.piso /\ enNumero = doc.apartamento
  BY DEF Elegir
<1>3. NoDado \notin Pisos \cup Numeros
  BY PropietariosAssumption
<1>4. nuevo = [doc EXCEPT !.piso = enPiso, !.apartamento = enNumero,
                          !.idUnico = lugar]
  BY DEF Ubicado, Dueno
<1> HIDE DEF enPiso, enNumero, nuevo
<1>l. lugar \in Pisos \X Numeros
  BY <1>1
<1> HIDE DEF lugar
<1>5. /\ nuevo.correo = doc.correo /\ nuevo.piso = enPiso /\ nuevo.apartamento = enNumero
      /\ nuevo.idUnico = lugar /\ nuevo \in Dueno
  BY <1>1, <1>4, <1>l DEF Dueno
<1>6. nuevo \in Dueno /\ Completo(nuevo)
  BY <1>1, <1>3, <1>5 DEF Completo
<1>7. piso # NoDado \/ numero # NoDado => EnApartamento(nuevo)
  BY <1>5 DEF EnApartamento, enPiso, enNumero, lugar
<1>8. piso = NoDado /\ numero = NoDado /\ EnApartamento(doc) => EnApartamento(nuevo)
  BY <1>2, <1>5 DEF EnApartamento, lugar
<1> QED BY <1>6, <1>7, <1>8 DEF nuevo

LEMMA LeerDuenoInv ==
  ASSUME IInvPropietarios, NEW p \in Procesos, NEW o \in Duenos, NEW dto \in Cambios,
         LeerDueno(p, o, dto)
  PROVE  IInvPropietarios'
<1> DEFINE ubicado == Ubicado(duenos[o], dto.piso, dto.numero)
           doc == [ubicado EXCEPT !.activo = Elegir(dto.activo, @)]
           r == [Ocioso EXCEPT !.pc = "correo", !.dueno = o, !.leido = duenos[o],
                               !.correo = dto.correo, !.clave = dto.clave, !.nuevo = doc]
<1>1. /\ IrProceso(p, r) /\ UNCHANGED <<duenos, cruzados>> /\ Existe(o)
      /\ dto.piso # NoDado \/ dto.numero # NoDado =>
           <<Elegir(dto.piso, duenos[o].piso), Elegir(dto.numero, duenos[o].apartamento)>>
             \in Apartamentos
  BY DEF LeerDueno
<1>2. /\ dto.piso \in Pisos \cup {NoDado} /\ dto.numero \in Numeros \cup {NoDado}
      /\ dto.correo \in Correos \cup {NoDado} /\ dto.clave \in Contrasenas \cup {NoDado}
      /\ dto.activo \in BOOLEAN \cup {NoDado}
  BY PropietariosAssumption
<1>3. duenos[o] \in Dueno /\ Completo(duenos[o])
  BY <1>1 DEF IInvPropietarios, TypeOKPropietarios
<1>4. /\ ubicado \in Dueno /\ Completo(ubicado)
      /\ EnApartamento(duenos[o]) => EnApartamento(ubicado)
  BY <1>1, <1>2, <1>3, UbicadoBien
<1> HIDE DEF ubicado
<1>5. /\ doc \in Dueno /\ doc.correo = ubicado.correo /\ doc.piso = ubicado.piso
      /\ doc.apartamento = ubicado.apartamento /\ doc.idUnico = ubicado.idUnico
  <2>1. Elegir(dto.activo, ubicado.activo) \in BOOLEAN
    BY <1>2, <1>4 DEF Elegir, Dueno
  <2> QED BY <1>4, <2>1 DEF Dueno
<1> HIDE DEF doc
<1>6. Completo(doc) /\ (EnApartamento(duenos[o]) => EnApartamento(doc))
  BY <1>4, <1>5 DEF Completo, EnApartamento
<1>7. o \in cruzados \/ EnApartamento(duenos[o])
  BY <1>1 DEF IInvPropietarios, DomicilioValido
<1>8. /\ r \in Proceso /\ r.pc = "correo" /\ r.dueno = o /\ r.leido = duenos[o]
      /\ r.nuevo = doc
  BY <1>2, <1>3, <1>5, OciosoTipo DEF Ocioso, Proceso, PasosProceso
<1> HIDE DEF r
<1>9. EnCursoComo(r)
  BY <1>1, <1>6, <1>7, <1>8 DEF EnCursoComo
<1> QED BY <1>1, <1>8, <1>9, IrInv

LEMMA ComprobarCorreoInv ==
  ASSUME IInvPropietarios, NEW p \in Procesos, ComprobarCorreo(p)
  PROVE  IInvPropietarios'
<1> DEFINE doc == [proceso[p].nuevo EXCEPT !.correo = Elegir(proceso[p].correo, @)]
           r == [proceso[p] EXCEPT !.pc = "guardar", !.nuevo = doc]
<1>1. proceso[p] \in Proceso /\ proceso[p].nuevo \in Dueno /\ UNCHANGED <<duenos, cruzados>>
      /\ proceso[p].pc = "correo" /\ EnCursoComo(proceso[p])
  BY Como DEF IInvPropietarios, TypeOKPropietarios, Proceso, ComprobarCorreo
<1>2. CASE IrProceso(p, Ocioso)
  BY <1>1, <1>2, TerminaInv
<1>3. CASE IrProceso(p, r)
  <2>1. Completo(proceso[p].nuevo)
    BY <1>1 DEF EnCursoComo
  <2>2. NoDado \notin Correos /\ proceso[p].correo \in Correos \cup {NoDado}
    BY <1>1, PropietariosAssumption DEF Proceso
  <2>3. /\ doc \in Dueno /\ doc.piso = proceso[p].nuevo.piso /\ doc.correo # NoDado
        /\ doc.apartamento = proceso[p].nuevo.apartamento /\ doc.idUnico = proceso[p].nuevo.idUnico
    BY <1>1, <2>1, <2>2 DEF Dueno, Elegir, Completo
  <2>4. Completo(doc) /\ (EnApartamento(proceso[p].nuevo) => EnApartamento(doc))
    BY <2>1, <2>3 DEF Completo, EnApartamento
  <2> HIDE DEF doc
  <2>5. /\ r \in Proceso /\ r.pc = "guardar" /\ r.dueno = proceso[p].dueno
        /\ r.leido = proceso[p].leido /\ r.nuevo = doc /\ r.superado = proceso[p].superado
    BY <1>1, <2>3 DEF Proceso, PasosProceso
  <2> HIDE DEF r
  <2>6. EnCursoComo(r)
    BY <1>1, <2>4, <2>5 DEF EnCursoComo, ConDueno
  <2> QED BY <1>1, <1>3, <2>5, <2>6, IrInv
<1>4. r = [proceso[p] EXCEPT !.pc = "guardar", !.nuevo.correo = Elegir(proceso[p].correo, @)]
  BY <1>1 DEF Proceso
<1> QED BY <1>2, <1>3, <1>4 DEF ComprobarCorreo

\* what save writes, field by field
LEMMA GuardarDuenoInv ==
  ASSUME IInvPropietarios, NEW p \in Procesos, GuardarDueno(p)
  PROVE  IInvPropietarios'
<1> DEFINE o == proceso[p].dueno
           leido == proceso[p].leido
           nuevo == proceso[p].nuevo
           doc == Entonces(duenos[o], p)
<1>1. /\ proceso[p] \in Proceso /\ proceso[p].pc = "guardar" /\ EnCursoComo(proceso[p])
      /\ cruzados \subseteq Duenos
  BY Como DEF IInvPropietarios, TypeOKPropietarios, GuardarDueno
<1>2. /\ o \in Duenos /\ duenos[o] \in Dueno /\ leido \in Dueno /\ nuevo \in Dueno
      /\ proceso[p].clave \in Contrasenas \cup {NoDado}
  BY <1>1 DEF EnCursoComo, ConDueno, IInvPropietarios, TypeOKPropietarios, Proceso
<1>3. CASE IrProceso(p, Ocioso) /\ UNCHANGED <<duenos, cruzados>>
  BY <1>3, TerminaInv
<1>4. CASE /\ EscribirDueno(p, Ocioso, o, doc)
           /\ cruzados' = IF proceso[p].superado THEN cruzados \cup {o} ELSE cruzados
  <2>1. /\ doc.correo \in {nuevo.correo, duenos[o].correo}
        /\ doc.piso \in {nuevo.piso, duenos[o].piso}
        /\ doc.apartamento \in {nuevo.apartamento, duenos[o].apartamento}
        /\ nuevo = leido => /\ doc.correo = duenos[o].correo /\ doc.piso = duenos[o].piso
                            /\ doc.apartamento = duenos[o].apartamento
                            /\ doc.idUnico = duenos[o].idUnico
        /\ duenos[o] = leido => /\ doc.correo = nuevo.correo /\ doc.piso = nuevo.piso
                                /\ doc.apartamento = nuevo.apartamento
                                /\ doc.idUnico = nuevo.idUnico
    BY DEF Entonces
  <2>2. doc \in Dueno
    BY <1>2 DEF Entonces, Dueno, Elegir
  <2>3. /\ Existe(o) => Completo(duenos[o]) /\ (o \in cruzados \/ EnApartamento(duenos[o]))
        /\ nuevo = leido \/ (Existe(o) /\ Completo(nuevo)
                             /\ (proceso[p].superado \/ leido = duenos[o])
                             /\ (o \in cruzados \/ EnApartamento(nuevo)))
    BY <1>1, <1>2 DEF IInvPropietarios, DomicilioValido, EnCursoComo
  <2> HIDE DEF doc
  <2>4. Existe(o) => doc.correo # NoDado
    BY <2>1, <2>3 DEF Completo, Existe
  <2>5. doc.correo # NoDado => Completo(doc)
    BY <2>1, <2>3 DEF Completo, Existe
  <2>6. doc.correo # NoDado => o \in cruzados' \/ EnApartamento(doc)
    BY <1>4, <2>1, <2>3 DEF EnApartamento, Existe
  <2>7. cruzados \subseteq cruzados' /\ cruzados' \subseteq Duenos
    BY <1>1, <1>2, <1>4
  <2> QED BY <1>2, <1>4, <2>2, <2>4, <2>5, <2>6, <2>7, EscribirDuenoInv
<1> QED BY <1>3, <1>4 DEF GuardarDueno

LEMMA DesactivarInv ==
  ASSUME IInvPropietarios, NEW p \in Procesos, NEW o \in Duenos, Desactivar(p, o)
  PROVE  IInvPropietarios'
<1> DEFINE doc == [duenos[o] EXCEPT !.activo = FALSE]
<1>1. /\ EscribirDueno(p, Ocioso, o, doc) /\ cruzados' = cruzados /\ Existe(o)
      /\ duenos[o] \in Dueno /\ cruzados \subseteq Duenos
  BY DEF Desactivar, IInvPropietarios, TypeOKPropietarios
<1>2. /\ doc \in Dueno /\ doc.correo = duenos[o].correo /\ doc.piso = duenos[o].piso
      /\ doc.apartamento = duenos[o].apartamento /\ doc.idUnico = duenos[o].idUnico
  BY <1>1 DEF Dueno
<1> HIDE DEF doc
<1>3. Completo(doc) /\ (o \in cruzados \/ EnApartamento(doc)) /\ doc.correo # NoDado
  BY <1>1, <1>2 DEF IInvPropietarios, DomicilioValido, Completo, EnApartamento, Existe
<1> QED BY <1>1, <1>2, <1>3, EscribirDuenoInv
-----------------------------------------------------------------------------
(***************************************************************************)
(* login and changePassword.                                               *)
(***************************************************************************)
LEMMA EntrarInv ==
  ASSUME IInvPropietarios, NEW p \in Procesos, NEW correo \in Correos, NEW clave \in Contrasenas,
         Entrar(p, correo, clave)
  PROVE  IInvPropietarios'
<1> DEFINE r == [Ocioso EXCEPT !.pc = "dueno", !.correo = correo, !.clave = clave]
<1>1. r \in Proceso /\ r.pc = "dueno"
  BY OciosoTipo DEF Ocioso, Proceso, PasosProceso
<1>2. EnCursoComo(r)
  BY <1>1 DEF EnCursoComo, ConDueno
<1> QED BY <1>1, <1>2, IrInv DEF Entrar

LEMMA BuscarDuenoInv ==
  ASSUME IInvPropietarios, NEW p \in Procesos, NEW o \in Duenos, BuscarDueno(p, o)
  PROVE  IInvPropietarios'
<1> DEFINE r == [proceso[p] EXCEPT !.pc = "firmar", !.dueno = o, !.leido = Hash(o)]
<1>1. proceso[p] \in Proceso /\ Hash(o) \in Dueno /\ Hash(o).clave = duenos[o].clave
  BY HashTipo DEF IInvPropietarios, TypeOKPropietarios
<1>2. r \in Proceso /\ r.pc = "firmar" /\ r.dueno = o /\ r.leido = Hash(o)
  BY <1>1 DEF Proceso, PasosProceso
<1>3. IrProceso(p, r) /\ UNCHANGED <<duenos, cruzados>> /\ duenos[o].activo
  BY DEF BuscarDueno
<1> HIDE DEF r
<1>4. EnCursoComo(r)
  BY <1>1, <1>2, <1>3 DEF EnCursoComo
<1> QED BY <1>2, <1>3, <1>4, IrInv

LEMMA FirmarInv ==
  ASSUME IInvPropietarios, NEW p \in Procesos, Firmar(p)
  PROVE  IInvPropietarios'
<1> DEFINE r == [Ocioso EXCEPT !.pc = "dentro", !.dueno = proceso[p].dueno]
<1>1. proceso[p].dueno \in Duenos
  BY DEF IInvPropietarios, EnCurso, ConDueno, Firmar
<1>2. r \in Proceso /\ r.pc = "dentro" /\ r.dueno \in Duenos
  BY <1>1, OciosoTipo DEF Ocioso, Proceso, PasosProceso
<1>3. EnCursoComo(r)
  BY <1>2 DEF EnCursoComo
<1>4. UNCHANGED <<duenos, cruzados>> /\ (IrProceso(p, r) \/ IrProceso(p, Ocioso))
  BY DEF Firmar
<1> QED BY <1>2, <1>3, <1>4, IrInv, TerminaInv

LEMMA LeerParaClaveInv ==
  ASSUME IInvPropietarios, NEW p \in Procesos, NEW actual \in Contrasenas,
         NEW nueva \in Contrasenas, LeerParaClave(p, actual, nueva)
  PROVE  IInvPropietarios'
<1> DEFINE o == proceso[p].dueno
           dada == [SinDueno EXCEPT !.clave = actual]
           r == [Ocioso EXCEPT !.pc = "verificar", !.dueno = o, !.leido = Hash(o),
                               !.nuevo = dada, !.clave = nueva]
<1>1. o \in Duenos
  BY DEF IInvPropietarios, EnCurso, ConDueno, LeerParaClave
<1>2. Hash(o) \in Dueno /\ dada \in Dueno
  BY <1>1, HashTipo, OciosoTipo DEF IInvPropietarios, Dueno
<1> HIDE DEF dada
<1>3. r \in Proceso /\ r.pc = "verificar" /\ r.dueno = o
  BY <1>1, <1>2, OciosoTipo DEF Ocioso, Proceso, PasosProceso
<1>4. EnCursoComo(r)
  BY <1>1, <1>3 DEF EnCursoComo
<1>5. IrProceso(p, r) /\ UNCHANGED <<duenos, cruzados>>
  BY DEF LeerParaClave, dada
<1> QED BY <1>3, <1>4, <1>5, IrInv

LEMMA VerificarInv ==
  ASSUME IInvPropietarios, NEW p \in Procesos, Verificar(p)
  PROVE  IInvPropietarios'
<1> DEFINE r == [proceso[p] EXCEPT !.pc = "guardar", !.nuevo = proceso[p].leido]
<1>1. /\ proceso[p] \in Proceso /\ UNCHANGED <<duenos, cruzados>>
      /\ IrProceso(p, r) \/ IrProceso(p, Ocioso)
  BY DEF Verificar, IInvPropietarios, TypeOKPropietarios
<1>2. proceso[p].dueno \in Duenos
  BY DEF IInvPropietarios, EnCurso, ConDueno, Verificar
<1>3. /\ r \in Proceso /\ r.pc = "guardar" /\ r.dueno \in Duenos
      /\ r.nuevo = proceso[p].leido /\ r.leido = proceso[p].leido
  BY <1>1, <1>2 DEF Proceso, PasosProceso
<1> HIDE DEF r
<1>4. EnCursoComo(r)
  BY <1>3 DEF EnCursoComo
<1> QED BY <1>1, <1>3, <1>4, IrInv, TerminaInv

LEMMA PropietariosPaso == IInvPropietarios /\ [NextPropietarios]_varsPropietarios => IInvPropietarios'
<1> SUFFICES ASSUME IInvPropietarios, [NextPropietarios]_varsPropietarios
             PROVE  IInvPropietarios'
  OBVIOUS
<1>1. ASSUME NEW p \in Procesos, Gestion(p) PROVE IInvPropietarios'
  BY <1>1, PedirAltaInv, CrearDuenoInv, DesactivarInv, LeerDuenoInv, ComprobarCorreoInv,
     GuardarDuenoInv DEF Gestion
<1>2. ASSUME NEW p \in Procesos, Acceso(p) PROVE IInvPropietarios'
  <2>1. CASE SinEntrar(p) \/ Salir(p)
    BY <2>1, TerminaInv DEF SinEntrar, Salir
  <2> QED BY <1>2, <2>1, EntrarInv, BuscarDuenoInv, FirmarInv, LeerParaClaveInv, VerificarInv
          DEF Acceso
<1>3. ASSUME NEW p \in Procesos, FallarProceso(p) PROVE IInvPropietarios'
  BY <1>3, TerminaInv DEF FallarProceso
<1>4. CASE UNCHANGED varsPropietarios
  BY <1>4 DEF varsPropietarios, IInvPropietarios, TypeOKPropietarios, DomicilioValido, Existe,
              EnCurso, Actualiza
<1> QED BY <1>1, <1>2, <1>3, <1>4 DEF NextPropietarios

LEMMA Inductivo == SpecPropietarios => []IInvPropietarios
BY InicioInv, PropietariosPaso, PTL DEF SpecPropietarios
-----------------------------------------------------------------------------
\* The owners' documents and the copies of them in flight keep the shape of the
\* schema: no update saves an idUnico with half an address.
THEOREM PropietariosTipados == SpecPropietarios => []TypeOKPropietarios
<1>1. IInvPropietarios => TypeOKPropietarios
  BY DEF IInvPropietarios
<1> QED BY <1>1, Inductivo, PTL

\* An owner's idUnico is his floor and number, and an apartment of the building,
\* unless one update was saved over another.
THEOREM DomiciliosValidos == SpecPropietarios => []DomicilioValido
<1>1. IInvPropietarios => DomicilioValido
  BY DEF IInvPropietarios
<1> QED BY <1>1, Inductivo, PTL

\* the actions that write an owner
LEMMA QuienEscribe ==
  ASSUME [NextPropietarios]_varsPropietarios, duenos' # duenos
  PROVE  \E p \in Procesos :
           \/ \E o \in Duenos : CrearDueno(p, o) \/ Desactivar(p, o)
           \/ GuardarDueno(p)
BY DEF NextPropietarios, varsPropietarios, Gestion, Acceso, FallarProceso, PedirAlta, LeerDueno,
       ComprobarCorreo, Entrar, BuscarDueno, SinEntrar, Firmar, Salir, LeerParaClave, Verificar

\* Who was deactivated comes back only by an update that has read him inactive.
THEOREM BajaSeMantiene == SpecPropietarios => BajaFirme
<1> DEFINE Vuelve(o) == Existe(o) /\ ~duenos[o].activo /\ duenos'[o].activo
           Actualizado(o) ==
             \E p \in Procesos : proceso[p].dueno = o /\ proceso[p].pc = "guardar"
                                 /\ ~proceso[p].leido.activo /\ proceso[p].nuevo.activo
<1>1. ASSUME IInvPropietarios, [NextPropietarios]_varsPropietarios, NEW o \in Duenos, Vuelve(o)
      PROVE  Actualizado(o)
  <2>1. /\ duenos \in [Duenos -> Dueno] /\ proceso \in [Procesos -> Proceso]
        /\ duenos' # duenos /\ duenos[o] \in Dueno
    BY <1>1 DEF IInvPropietarios, TypeOKPropietarios
  <2>2. PICK p \in Procesos :
          \/ \E d \in Duenos : CrearDueno(p, d) \/ Desactivar(p, d)
          \/ GuardarDueno(p)
    BY <1>1, <2>1, QuienEscribe
  <2>3. ASSUME NEW d \in Duenos, CrearDueno(p, d) PROVE FALSE
    <3>1. d # o /\ duenos' = [duenos EXCEPT ![d] = proceso[p].nuevo]
      BY <1>1, <2>1, <2>3 DEF CrearDueno, EscribirDueno
    <3> QED BY <1>1, <2>1, <3>1
  <2>4. ASSUME NEW d \in Duenos, Desactivar(p, d) PROVE FALSE
    <3>1. duenos' = [duenos EXCEPT ![d] = [duenos[d] EXCEPT !.activo = FALSE]]
      BY <2>4 DEF Desactivar, EscribirDueno
    <3>2. [duenos[o] EXCEPT !.activo = FALSE].activo = FALSE
      BY <2>1 DEF Dueno
    <3>3. duenos'[o].activo = duenos[o].activo \/ duenos'[o].activo = FALSE
      BY <2>1, <3>1, <3>2
    <3> QED BY <1>1, <3>3
  <2>5. CASE GuardarDueno(p)
    <3> DEFINE doc == Entonces(duenos[proceso[p].dueno], p)
    <3>1. duenos' = [duenos EXCEPT ![proceso[p].dueno] = doc] /\ proceso[p].pc = "guardar"
      BY <2>1, <2>5 DEF GuardarDueno, EscribirDueno
    <3>2. proceso[p].dueno = o /\ duenos'[o] = doc
      BY <1>1, <2>1, <3>1
    <3>3. doc.activo = IF proceso[p].nuevo.activo # proceso[p].leido.activo
                       THEN proceso[p].nuevo.activo ELSE duenos[o].activo
      BY <3>2 DEF Entonces
    <3>4. proceso[p].nuevo.activo \in BOOLEAN /\ proceso[p].leido.activo \in BOOLEAN
      BY <2>1 DEF Proceso, Dueno
    <3> HIDE DEF doc
    <3>5. proceso[p].nuevo.activo /\ ~proceso[p].leido.activo
      BY <1>1, <3>2, <3>3, <3>4
    <3> QED BY <3>1, <3>2, <3>5
  <2> QED BY <2>2, <2>3, <2>4, <2>5
<1>2. IInvPropietarios /\ [NextPropietarios]_varsPropietarios =>
        [\A o \in Duenos : Existe(o) /\ ~duenos[o].activo /\ duenos'[o].activo =>
           \E p \in Procesos : proceso[p].dueno = o /\ proceso[p].pc = "guardar"
                               /\ ~proceso[p].leido.activo /\ proceso[p].nuevo.activo]_varsPropietarios
  BY <1>1
<1> QED BY <1>2, Inductivo, PTL DEF SpecPropietarios, BajaFirme

\* A token is given to an active owner with the password he has, unless he was
\* written while the password was compared.
THEOREM TokenVigente == SpecPropietarios => EntradaVigente
<1> DEFINE Entra(p) == proceso[p].pc = "firmar" /\ proceso'[p].pc = "dentro"
           Vigente(p) == \/ proceso[p].superado
                         \/ duenos[proceso[p].dueno].activo
                            /\ proceso[p].clave = duenos[proceso[p].dueno].clave
<1>1. ASSUME IInvPropietarios, [NextPropietarios]_varsPropietarios, NEW p \in Procesos, Entra(p)
      PROVE  Vigente(p)
  <2>1. EnCurso(p)
    BY <1>1 DEF IInvPropietarios
  <2>2. proceso[p].clave = proceso[p].leido.clave
    <3>1. proceso \in [Procesos -> Proceso] /\ proceso' # proceso
      BY <1>1 DEF IInvPropietarios, TypeOKPropietarios
    <3>2. PICK q \in Procesos : Gestion(q) \/ Acceso(q) \/ FallarProceso(q)
      BY <1>1, <3>1 DEF NextPropietarios, varsPropietarios
    <3>3. CASE q # p
      <4>1. proceso'[p].pc = proceso[p].pc
        <5>1. CASE \E r : IrProceso(q, r)
          BY <3>1, <3>3, <5>1 DEF IrProceso
        <5>2. CASE \E r, o, doc : EscribirDueno(q, r, o, doc)
          <6>1. proceso[p] \in Proceso
            BY <3>1
          <6>2. proceso'[p] = [proceso[p] EXCEPT !.superado = TRUE] \/ proceso'[p] = proceso[p]
            BY <3>3, <5>2 DEF EscribirDueno
          <6> QED BY <6>1, <6>2 DEF Proceso
        <5>3. (\E r : IrProceso(q, r)) \/ (\E r, o, doc : EscribirDueno(q, r, o, doc))
          BY <3>2 DEF Gestion, Acceso, FallarProceso, PedirAlta, CrearDueno, Desactivar, LeerDueno,
                      ComprobarCorreo, GuardarDueno, Entrar, BuscarDueno, SinEntrar, Firmar, Salir,
                      LeerParaClave, Verificar
        <5> QED BY <5>1, <5>2, <5>3
      <4> QED BY <1>1, <4>1
    <3>4. CASE q = p
      <4>1. Firmar(p) \/ (\E r : IrProceso(p, r) /\ r = Ocioso)
        BY <1>1, <3>2, <3>4 DEF Gestion, Acceso, FallarProceso, PedirAlta, CrearDueno, Desactivar,
           LeerDueno, ComprobarCorreo, GuardarDueno, Entrar, BuscarDueno, SinEntrar, Salir,
           LeerParaClave, Verificar
      <4>2. proceso'[p] # Ocioso
        BY <1>1 DEF Ocioso
      <4>3. Firmar(p)
        BY <3>1, <4>1, <4>2 DEF IrProceso
      <4> QED BY <3>1, <4>2, <4>3 DEF Firmar, IrProceso
    <3> QED BY <3>3, <3>4
  <2> QED BY <1>1, <2>1, <2>2 DEF EnCurso
<1>2. IInvPropietarios /\ [NextPropietarios]_varsPropietarios =>
        [\A p \in Procesos : proceso[p].pc = "firmar" /\ proceso'[p].pc = "dentro" =>
           \/ proceso[p].superado
           \/ duenos[proceso[p].dueno].activo
              /\ proceso[p].clave = duenos[proceso[p].dueno].clave]_varsPropietarios
  BY <1>1
<1> QED BY <1>2, Inductivo, PTL DEF SpecPropietarios, EntradaVigente
-----------------------------------------------------------------------------
(***************************************************************************)
(* The cached listings.                                                    *)
(***************************************************************************)

LEMMA Pegar12 ==
  ASSUME NEW S, NEW a \in S, NEW b \in S, NEW c \in S
  PROVE  <<a>> \o <<b, c>> = <<a, b, c>>
  <1>1. <<a>> \in Seq(S) /\ <<b, c>> \in Seq(S) /\ <<a, b, c>> \in Seq(S) OBVIOUS
  <1>2. Len(<<a>>) = 1 /\ Len(<<b, c>>) = 2 /\ Len(<<a, b, c>>) = 3 OBVIOUS
  <1>3. <<a>> \o <<b, c>> \in Seq(S) /\ Len(<<a>> \o <<b, c>>) = 3
    BY <1>1, <1>2, ConcatProperties
  <1>4. \A i \in 1 .. 3 : (<<a>> \o <<b, c>>)[i] = <<a, b, c>>[i]
    BY <1>1, <1>2, ConcatProperties
  <1> QED BY <1>1, <1>2, <1>3, <1>4, SeqEqual

LEMMA Pegar13 ==
  ASSUME NEW S, NEW a \in S, NEW b \in S, NEW c \in S, NEW d \in S
  PROVE  <<a>> \o <<b, c, d>> = <<a, b, c, d>>
  <1>1. <<a>> \in Seq(S) /\ <<b, c, d>> \in Seq(S) /\ <<a, b, c, d>> \in Seq(S) OBVIOUS
  <1>2. Len(<<a>>) = 1 /\ Len(<<b, c, d>>) = 3 /\ Len(<<a, b, c, d>>) = 4 OBVIOUS
  <1>3. <<a>> \o <<b, c, d>> \in Seq(S) /\ Len(<<a>> \o <<b, c, d>>) = 4
    BY <1>1, <1>2, ConcatProperties
  <1>4. \A i \in 1 .. 4 : (<<a>> \o <<b, c, d>>)[i] = <<a, b, c, d>>[i]
    BY <1>1, <1>2, ConcatProperties
  <1> QED BY <1>1, <1>2, <1>3, <1>4, SeqEqual

LEMMA Pegar41 ==
  ASSUME NEW S, NEW a \in S, NEW b \in S, NEW c \in S, NEW d \in S,
         NEW e \in S
  PROVE  <<a, b, c, d>> \o <<e>> = <<a, b, c, d, e>>
  <1>1. <<a, b, c, d>> \in Seq(S) /\ <<e>> \in Seq(S) /\ <<a, b, c, d, e>> \in Seq(S) OBVIOUS
  <1>2. Len(<<a, b, c, d>>) = 4 /\ Len(<<e>>) = 1 /\ Len(<<a, b, c, d, e>>) = 5 OBVIOUS
  <1>3. <<a, b, c, d>> \o <<e>> \in Seq(S) /\ Len(<<a, b, c, d>> \o <<e>>) = 5
    BY <1>1, <1>2, ConcatProperties
  <1>4. \A i \in 1 .. 5 : (<<a, b, c, d>> \o <<e>>)[i] = <<a, b, c, d, e>>[i]
    BY <1>1, <1>2, ConcatProperties
  <1> QED BY <1>1, <1>2, <1>3, <1>4, SeqEqual

LEMMA Pegar53 ==
  ASSUME NEW S, NEW a \in S, NEW b \in S, NEW c \in S, NEW d \in S,
         NEW e \in S, NEW f \in S, NEW g \in S, NEW h \in S
  PROVE  <<a, b, c, d, e>> \o <<f, g, h>> = <<a, b, c, d, e, f, g, h>>
  <1>1. <<a, b, c, d, e>> \in Seq(S) /\ <<f, g, h>> \in Seq(S) /\ <<a, b, c, d, e, f, g, h>> \in Seq(S) OBVIOUS
  <1>2. Len(<<a, b, c, d, e>>) = 5 /\ Len(<<f, g, h>>) = 3 /\ Len(<<a, b, c, d, e, f, g, h>>) = 8 OBVIOUS
  <1>3. <<a, b, c, d, e>> \o <<f, g, h>> \in Seq(S) /\ Len(<<a, b, c, d, e>> \o <<f, g, h>>) = 8
    BY <1>1, <1>2, ConcatProperties
  <1>4. \A i \in 1 .. 8 : (<<a, b, c, d, e>> \o <<f, g, h>>)[i] = <<a, b, c, d, e, f, g, h>>[i]
    BY <1>1, <1>2, ConcatProperties
  <1> QED BY <1>1, <1>2, <1>3, <1>4, SeqEqual

Acciones == {Escribe(c) : c \in Colecciones} \cup {Borra(q) : q \in Prefijos}

\* What a task of a request does: after a write of a collection it deletes every
\* prefix under which lists of it are cached.
Completa(g) ==
  /\ Len(g) \in Nat \ {0}
  /\ \A j \in 1 .. Len(g) :
       \/ \E c \in Colecciones :
            /\ g[j] = Escribe(c)
            /\ \A q \in Prefijos : Coleccion(q) = c => \E i \in (j + 1) .. Len(g) : g[i] = Borra(q)
       \/ \E q \in Prefijos : g[j] = Borra(q)

\* The scripts, written out.
LEMMA Escritos ==
  /\ CrearPago = <<Escribe("pagos"), Borra("payments")>>
  /\ CrearRecibo = <<Escribe("recibos"), Borra("recibos"), Borra("recibos_pendientes_saldo")>>
  /\ Rechazar = <<Escribe("pagos"), Borra("payments"), Borra("recibos"),
                  Borra("recibos_pendientes_saldo")>>
  /\ Aceptar = <<Escribe("pagos"), Escribe("recibos"), Borra("recibos"),
                 Borra("recibos_pendientes_saldo"), Escribe("pagos"), Borra("payments"),
                 Borra("recibos"), Borra("recibos_pendientes_saldo")>>
  <1> DEFINE wp == Escribe("pagos")
             wr == Escribe("recibos")
             bp == Borra("payments")
             br == Borra("recibos")
             bs == Borra("recibos_pendientes_saldo")
  <1>0. wp \in Acciones /\ wr \in Acciones /\ bp \in Acciones /\ br \in Acciones /\ bs \in Acciones
    BY DEF Acciones, Colecciones, Prefijos
  <1>1. BorraRecibos = <<br, bs>> BY DEF BorraRecibos
  <1> HIDE DEF wp, wr, bp, br, bs
  <1>2. CrearRecibo = <<wr, br, bs>>
    <2>1. <<wr>> \o <<br, bs>> = <<wr, br, bs>> BY <1>0, Pegar12
    <2> QED BY <1>1, <2>1 DEF CrearRecibo, wr
  <1>3. AlFinal = <<bp, br, bs>>
    <2>1. <<bp>> \o <<br, bs>> = <<bp, br, bs>> BY <1>0, Pegar12
    <2> QED BY <1>1, <2>1 DEF AlFinal, bp
  <1>4. Rechazar = <<wp, bp, br, bs>>
    <2>1. <<wp>> \o <<bp, br, bs>> = <<wp, bp, br, bs>> BY <1>0, Pegar13
    <2> QED BY <1>3, <2>1 DEF Rechazar, wp
  <1>5. Aceptar = <<wp, wr, br, bs, wp, bp, br, bs>>
    <2>1. <<wp>> \o <<wr, br, bs>> = <<wp, wr, br, bs>> BY <1>0, Pegar13
    <2>2. <<wp, wr, br, bs>> \o <<wp>> = <<wp, wr, br, bs, wp>> BY <1>0, Pegar41
    <2>3. <<wp, wr, br, bs, wp>> \o <<bp, br, bs>> = <<wp, wr, br, bs, wp, bp, br, bs>>
      BY <1>0, Pegar53
    <2>4. Bulk = <<wr, br, bs>> BY <1>2 DEF Bulk, CrearRecibo
    <2> QED BY <1>3, <2>1, <2>2, <2>3, <2>4 DEF Aceptar, wp
  <1> QED BY <1>2, <1>4, <1>5 DEF CrearPago, wp, wr, bp, br, bs

LEMMA GuionesCompletos == \A t \in Escrituras : Completa(Guiones[t])
  <1> USE Escritos DEF Completa, Colecciones, Prefijos, Coleccion
  <1>1. Completa(CrearPago) OBVIOUS
  <1>2. Completa(CrearRecibo) OBVIOUS
  <1>3. Completa(Rechazar) OBVIOUS
  <1>4. Completa(Aceptar) OBVIOUS
  <1> HIDE Escritos DEF Completa
  <1> QED BY <1>1, <1>2, <1>3, <1>4 DEF Escrituras, Guiones

(***************************************************************************)
(* What the invariant says of a writer, and where it goes from a step.     *)
(***************************************************************************)

LEMMA CampoEscritor ==
  ASSUME NEW x
  PROVE  x \in Escritor <=>
           \E t \in Escrituras \cup {"nada"} :
             x \in [inst : Instancias, tarea : {t}, paso : Pasos(t), buscando : BOOLEAN,
                    claves : SUBSET Claves]
  BY DEF Escritor

LEMMA Bases ==
  ASSUME ListadoAssumption, IInv
  PROVE  /\ version \in [Colecciones -> Nat] /\ excusas \subseteq Almacenes \X Claves
         /\ cache \in [Almacenes -> [Claves -> Nat \cup {Nada}]]
         /\ escritor \in [Escritores -> Escritor] /\ lector \in [Lectores -> Lector]
         /\ \A a \in Almacenes, k \in Claves : cache[a][k] <= version[Coleccion(k[1])]
         /\ \A k \in Claves : k[1] \in Prefijos /\ Coleccion(k[1]) \in Colecciones
         /\ \A i \in Instancias : Almacen(i) \in Almacenes
  BY DEF IInv, TypeOK, Versiones, CacheDelPasado, Claves, Coleccion, Colecciones, Almacen, Almacenes

LEMMA Trabajo ==
  ASSUME ListadoAssumption, IInv, NEW e \in Escritores, Ocupado(e)
  PROVE  /\ escritor[e] \in [inst : Instancias, tarea : Escrituras, paso : Nat,
                             buscando : BOOLEAN, claves : SUBSET Claves]
         /\ escritor[e].paso \in 1 .. Len(Guion(e)) /\ Completa(Guion(e)) /\ De(e) \in Almacenes
         /\ \A i \in 1 .. Len(Guion(e)), q \in Prefijos : Guion(e)[i] = Borra(q) =>
              Guion(e)[i].hace = "borrar" /\ Guion(e)[i].que = q
  <1>1. PICK t \in Escrituras \cup {"nada"} :
          escritor[e] \in [inst : Instancias, tarea : {t}, paso : Pasos(t), buscando : BOOLEAN,
                           claves : SUBSET Claves]
    BY Bases, CampoEscritor
  <1>2. t = escritor[e].tarea /\ t \in Escrituras BY <1>1 DEF Ocupado
  <1>3. Completa(Guion(e)) BY <1>2, GuionesCompletos DEF Guion
  <1>4. escritor[e].paso \in 1 .. Len(Guion(e)) BY <1>1, <1>2 DEF Pasos, Guion, Escrituras
  <1>5. escritor[e] \in [inst : Instancias, tarea : Escrituras, paso : Nat,
                         buscando : BOOLEAN, claves : SUBSET Claves]
    BY <1>1, <1>2, <1>4
  <1>6. De(e) \in Almacenes BY <1>5, Bases DEF De
  <1>7. \A q : Borra(q).hace = "borrar" /\ Borra(q).que = q BY DEF Borra
  <1> QED BY <1>3, <1>4, <1>5, <1>6, <1>7

LEMMA QuietoEscribe ==
  ASSUME ListadoAssumption
  PROVE  Quieto \in Escritor /\ Quieto.tarea = "nada" /\ Inactivo.pc = "inactivo" /\ Inactivo \in Lector
  <1>1. (CHOOSE i \in Instancias : TRUE) \in Instancias BY DEF ListadoAssumption
  <1>2. (CHOOSE k \in Claves : TRUE) \in Claves
    <2>1. PICK f \in Filtros : TRUE BY DEF ListadoAssumption
    <2>2. <<"payments", f>> \in Claves BY DEF Claves, Prefijos
    <2> QED BY <2>2
  <1>3. Quieto \in [inst : Instancias, tarea : {"nada"}, paso : Pasos("nada"), buscando : BOOLEAN,
                    claves : SUBSET Claves]
    BY <1>1 DEF Quieto, Pasos
  <1> QED BY <1>1, <1>2, <1>3, CampoEscritor DEF Quieto, Inactivo, Lector, Versiones

\* On to the next step of the script, or done.
LEMMA Avanza ==
  ASSUME ListadoAssumption, IInv, NEW e \in Escritores, Ocupado(e)
  PROVE  /\ Avanzado(e) \in Escritor
         /\ escritor[e].paso # Len(Guion(e)) =>
              /\ Avanzado(e).inst = escritor[e].inst /\ Avanzado(e).tarea = escritor[e].tarea
              /\ Avanzado(e).paso = escritor[e].paso + 1 /\ Avanzado(e).buscando
  <1>1. CASE escritor[e].paso = Len(Guion(e)) BY <1>1, QuietoEscribe DEF Avanzado
  <1>2. CASE escritor[e].paso # Len(Guion(e))
    <2>1. Avanzado(e) = [escritor[e] EXCEPT !.paso = @ + 1, !.buscando = TRUE, !.claves = {}]
      BY <1>2 DEF Avanzado
    <2>2. escritor[e].paso + 1 \in 1 .. Len(Guion(e)) BY <1>2, Trabajo DEF Completa
    <2>3. escritor[e].tarea \in Escrituras /\ escritor[e].tarea # "nada"
      BY Trabajo DEF Ocupado
    <2>4. Pasos(escritor[e].tarea) = 1 .. Len(Guion(e)) BY <2>3 DEF Pasos, Guion
    <2>5. Avanzado(e) \in [inst : Instancias, tarea : {escritor[e].tarea},
                           paso : Pasos(escritor[e].tarea), buscando : BOOLEAN, claves : SUBSET Claves]
      BY <2>1, <2>2, <2>4, Trabajo
    <2> QED BY <1>2, <2>1, <2>3, <2>5, Trabajo, CampoEscritor
  <1> QED BY <1>1, <1>2

\* Who has advanced still deletes what the rest of its script names.
LEMMA SigueBorrando ==
  ASSUME ListadoAssumption, IInv, NEW e \in Escritores, Ocupado(e),
         escritor' = [escritor EXCEPT ![e] = Avanzado(e)],
         NEW a, a = De(e), NEW k, NEW i \in (escritor[e].paso + 1) .. Len(Guion(e)), Guion(e)[i] = Borra(k[1])
  PROVE  BorraraAun(e, a, k)'
  <1>1. escritor[e].paso # Len(Guion(e)) BY Trabajo DEF Completa
  <1>2. /\ escritor'[e].inst = escritor[e].inst /\ escritor'[e].tarea = escritor[e].tarea
        /\ escritor'[e].paso = escritor[e].paso + 1 /\ escritor'[e].buscando
    BY <1>1, Avanza, Bases
  <1> QED BY <1>2 DEF BorraraAun, Ocupado, De, Guion

(***************************************************************************)
(* The steps.                                                              *)
(***************************************************************************)

\* A step of one writer: nothing grows old without a reason, nobody else forgets.
LEMMA EscritorInv ==
  ASSUME ListadoAssumption, IInv, NEW e \in Escritores, NEW x \in Escritor,
         escritor' = [escritor EXCEPT ![e] = x], UNCHANGED lector,
         version' \in [Colecciones -> Nat], \A c \in Colecciones : version[c] <= version'[c],
         cache' \in [Almacenes -> [Claves -> Nat \cup {Nada}]],
         \A a \in Almacenes, k \in Claves : cache'[a][k] <= cache[a][k] \/ cache'[a][k] = Nada,
         excusas' \subseteq Almacenes \X Claves,
         \A a \in Almacenes, k \in Claves :
           Vieja(a, k)' => \/ <<a, k>> \in excusas' \/ BorraraAun(e, a, k)'
                           \/ Vieja(a, k) /\ <<a, k>> \notin excusas /\ ~BorraraAun(e, a, k)
  PROVE  IInv'
  <1>1. TypeOK' BY Bases DEF IInv, TypeOK, Versiones
  <1>2. CacheDelPasado'
    <2> SUFFICES ASSUME NEW a \in Almacenes, NEW k \in Claves
                 PROVE  cache'[a][k] <= version'[Coleccion(k[1])]
      BY DEF CacheDelPasado
    <2>1. /\ cache'[a][k] \in Nat \cup {Nada} /\ cache[a][k] \in Nat \cup {Nada}
          /\ version[Coleccion(k[1])] \in Nat /\ version'[Coleccion(k[1])] \in Nat
          /\ version[Coleccion(k[1])] <= version'[Coleccion(k[1])]
          /\ cache[a][k] <= version[Coleccion(k[1])]
      BY Bases
    <2>2. cache'[a][k] <= cache[a][k] \/ cache'[a][k] = Nada OBVIOUS
    <2> QED BY <2>1, <2>2 DEF Nada
  <1>3. ViejaConExcusa'
    <2> SUFFICES ASSUME NEW a \in Almacenes, NEW k \in Claves, Vieja(a, k)', <<a, k>> \notin excusas'
                 PROVE  \E f \in Escritores : BorraraAun(f, a, k)'
      BY DEF ViejaConExcusa
    <2>1. CASE Vieja(a, k) /\ <<a, k>> \notin excusas /\ ~BorraraAun(e, a, k)
      <3>1. PICK f \in Escritores : BorraraAun(f, a, k) BY <2>1 DEF IInv, ViejaConExcusa
      <3>2. f # e /\ escritor'[f] = escritor[f] BY <2>1, <3>1, Bases
      <3> QED BY <3>1, <3>2 DEF BorraraAun, Ocupado, De, Guion
    <2> QED BY <2>1
  <1>4. \A l \in Lectores : LectorAlDia(l)'
    <2> SUFFICES ASSUME NEW l \in Lectores, lector[l].pc = "guardar"
                 PROVE  lector[l].version <= version'[Coleccion(lector[l].clave[1])]
      BY DEF LectorAlDia
    <2>1. /\ lector[l].version \in Nat /\ Coleccion(lector[l].clave[1]) \in Colecciones
          /\ lector[l].version <= version[Coleccion(lector[l].clave[1])]
      BY Bases DEF IInv, LectorAlDia, Lector, Versiones
    <2> QED BY <2>1, Bases
  <1> QED BY <1>1, <1>2, <1>3, <1>4 DEF IInv

LEMMA EmpezarInv ==
  ASSUME ListadoAssumption, IInv, NEW e \in Escritores, NEW i \in Instancias, NEW t \in Escrituras,
         Empezar(e, i, t)
  PROVE  IInv'
  <1>1. PICK x : x = [escritor[e] EXCEPT !.inst = i, !.tarea = t] OBVIOUS
  <1>2. escritor[e] \in [inst : Instancias, tarea : {"nada"}, paso : {1}, buscando : BOOLEAN,
                         claves : SUBSET Claves]
    BY Bases, CampoEscritor DEF Empezar, Ocupado, Pasos
  <1>3. 1 \in Pasos(t) BY GuionesCompletos DEF Completa, Pasos, Escrituras
  <1>4. x \in [inst : Instancias, tarea : {t}, paso : Pasos(t), buscando : BOOLEAN,
               claves : SUBSET Claves]
    BY <1>1, <1>2, <1>3
  <1>5. x \in Escritor BY <1>4, CampoEscritor
  <1>6. escritor' = [escritor EXCEPT ![e] = x] /\ UNCHANGED <<version, cache, lector, excusas>>
    BY <1>1, Bases DEF Empezar
  <1>7. \A a, k : ~BorraraAun(e, a, k) /\ (Vieja(a, k)' <=> Vieja(a, k))
    BY <1>6 DEF Empezar, BorraraAun, Vieja, Guardada
  <1>8. \A a \in Almacenes, k \in Claves : cache[a][k] <= cache[a][k]
    BY Bases DEF Nada
  <1>9. \A c \in Colecciones : version[c] <= version[c] BY Bases
  <1>10. \A a \in Almacenes, k \in Claves :
           Vieja(a, k)' => \/ <<a, k>> \in excusas' \/ BorraraAun(e, a, k)'
                           \/ Vieja(a, k) /\ <<a, k>> \notin excusas /\ ~BorraraAun(e, a, k)
    BY <1>6, <1>7
  <1>11. /\ version' \in [Colecciones -> Nat] /\ \A c \in Colecciones : version[c] <= version'[c]
         /\ cache' \in [Almacenes -> [Claves -> Nat \cup {Nada}]]
         /\ \A a \in Almacenes, k \in Claves : cache'[a][k] <= cache[a][k]
         /\ excusas' \subseteq Almacenes \X Claves
    BY <1>6, <1>8, <1>9, Bases
  <1> QED BY <1>5, <1>6, <1>10, <1>11, EscritorInv

\* A write: what is cached in the writer's store it will delete, the rest stays.
LEMMA EscribirListadoInv ==
  ASSUME ListadoAssumption, IInv, NEW e \in Escritores, Escribir(e)
  PROVE  IInv'
  <1>0. /\ Ocupado(e) /\ Guion(e)[escritor[e].paso].hace = "escribir"
        /\ escritor' = [escritor EXCEPT ![e] = Avanzado(e)] /\ UNCHANGED <<cache, lector>>
    BY DEF Escribir, Toca
  <1>1. PICK c : c = Objeto(e) OBVIOUS
  <1>2. /\ c \in Colecciones
        /\ \A q \in Prefijos : Coleccion(q) = c =>
             \E i \in (escritor[e].paso + 1) .. Len(Guion(e)) : Guion(e)[i] = Borra(q)
    <2> DEFINE g == Guion(e)
               j == escritor[e].paso
    <2>1. g[j].hace = "escribir" /\ g[j].que = c /\ j \in 1 .. Len(g) /\ Completa(g)
      BY <1>0, <1>1, Trabajo DEF Objeto
    <2> HIDE DEF g, j
    <2>2. \A q \in Prefijos : g[j] # Borra(q) BY <2>1 DEF Borra
    <2>3. PICK d \in Colecciones :
            /\ g[j] = Escribe(d)
            /\ \A q \in Prefijos : Coleccion(q) = d => \E i \in (j + 1) .. Len(g) : g[i] = Borra(q)
      BY <2>1, <2>2 DEF Completa
    <2>4. d = c BY <2>1, <2>3 DEF Escribe
    <2> QED BY <2>3, <2>4 DEF g, j
  <1>3. /\ version' = [version EXCEPT ![c] = @ + 1]
        /\ excusas' = excusas \cup {ak \in (Almacenes \ {De(e)}) \X Claves :
                                       Coleccion(ak[2][1]) = c /\ Guardada(ak[1], ak[2])}
    BY <1>1 DEF Escribir
  <1>4. /\ version' \in [Colecciones -> Nat] /\ \A d \in Colecciones : version[d] <= version'[d]
        /\ \A d \in Colecciones \ {c} : version'[d] = version[d]
    BY <1>2, <1>3, Bases
  <1>5. excusas \subseteq excusas' /\ excusas' \subseteq Almacenes \X Claves BY <1>3, Bases
  <1>6. ASSUME NEW a \in Almacenes, NEW k \in Claves, Vieja(a, k)', <<a, k>> \notin excusas'
        PROVE  \/ BorraraAun(e, a, k)'
               \/ Vieja(a, k) /\ <<a, k>> \notin excusas /\ ~BorraraAun(e, a, k)
    <2>0. k[1] \in Prefijos /\ Coleccion(k[1]) \in Colecciones /\ Guardada(a, k)
      BY <1>0, <1>6, Bases DEF Vieja, Guardada
    <2>1. CASE Coleccion(k[1]) = c
      <3>1. a = De(e) BY <1>3, <1>6, <2>0, <2>1
      <3>2. PICK i \in (escritor[e].paso + 1) .. Len(Guion(e)) : Guion(e)[i] = Borra(k[1])
        BY <1>2, <2>0, <2>1
      <3> QED BY <1>0, <3>1, <3>2, SigueBorrando
    <2>2. CASE Coleccion(k[1]) # c
      <3>1. Vieja(a, k) /\ <<a, k>> \notin excusas
        BY <1>0, <1>4, <1>5, <1>6, <2>0, <2>2 DEF Vieja, Guardada
      <3>2. ASSUME BorraraAun(e, a, k) PROVE BorraraAun(e, a, k)'
        <4>1. PICK i \in escritor[e].paso .. Len(Guion(e)) : Guion(e)[i] = Borra(k[1])
          BY <3>2 DEF BorraraAun
        <4>2. i # escritor[e].paso BY <1>0, <4>1 DEF Borra
        <4>3. i \in (escritor[e].paso + 1) .. Len(Guion(e)) BY <1>0, <4>1, <4>2, Trabajo DEF Completa
        <4>4. a = De(e) BY <3>2 DEF BorraraAun
        <4> QED BY <1>0, <4>1, <4>3, <4>4, SigueBorrando
      <3> QED BY <3>1, <3>2
    <2> QED BY <2>1, <2>2
  <1>7. \A a \in Almacenes, k \in Claves : cache'[a][k] <= cache[a][k] BY <1>0, Bases DEF Nada
  <1>8. Avanzado(e) \in Escritor /\ cache' \in [Almacenes -> [Claves -> Nat \cup {Nada}]]
    BY <1>0, Avanza, Bases
  <1>9. \A a \in Almacenes, k \in Claves :
          Vieja(a, k)' => \/ <<a, k>> \in excusas' \/ BorraraAun(e, a, k)'
                          \/ Vieja(a, k) /\ <<a, k>> \notin excusas /\ ~BorraraAun(e, a, k)
    BY <1>6
  <1>10. PICK x : x = Avanzado(e) OBVIOUS
  <1> QED BY <1>0, <1>4, <1>5, <1>7, <1>8, <1>9, <1>10, EscritorInv

\* KEYS has found every list that is old.
LEMMA BuscarListado ==
  ASSUME ListadoAssumption, IInv, NEW e \in Escritores, Buscar(e)
  PROVE  IInv'
  <1>1. PICK ks : ks = {k \in Claves : k[1] = Objeto(e) /\ cache["redis"][k] # Nada} OBVIOUS
  <1>2. PICK x : x = [escritor[e] EXCEPT !.buscando = FALSE, !.claves = ks] OBVIOUS
  <1>3. /\ Ocupado(e) /\ De(e) = "redis" /\ escritor[e] \in Escritor
        /\ escritor' = [escritor EXCEPT ![e] = x] /\ UNCHANGED <<version, cache, lector, excusas>>
    BY <1>1, <1>2, Bases DEF Buscar, Toca
  <1>4. PICK t \in Escrituras \cup {"nada"} :
          escritor[e] \in [inst : Instancias, tarea : {t}, paso : Pasos(t), buscando : BOOLEAN,
                           claves : SUBSET Claves]
    BY <1>3, CampoEscritor
  <1>5. x \in [inst : Instancias, tarea : {t}, paso : Pasos(t), buscando : BOOLEAN,
               claves : SUBSET Claves]
    BY <1>1, <1>2, <1>4
  <1>6. /\ x \in Escritor /\ x.inst = escritor[e].inst /\ x.tarea = escritor[e].tarea
        /\ x.paso = escritor[e].paso /\ x.claves = ks
    BY <1>2, <1>4, <1>5, CampoEscritor
  <1>7. escritor'[e] = x BY <1>3, Bases
  <1>8. ASSUME NEW a \in Almacenes, NEW k \in Claves, Vieja(a, k), BorraraAun(e, a, k)
        PROVE  BorraraAun(e, a, k)'
    <2>1. a = "redis" /\ cache["redis"][k] # Nada BY <1>3, <1>8 DEF BorraraAun, Vieja, Guardada
    <2>2. PICK i \in escritor[e].paso .. Len(Guion(e)) : Guion(e)[i] = Borra(k[1])
      BY <1>8 DEF BorraraAun
    <2>3. i = escritor[e].paso => k \in ks BY <1>1, <2>1, <2>2 DEF Objeto, Borra
    <2> QED BY <1>3, <1>6, <1>7, <1>8, <2>2, <2>3 DEF BorraraAun, Ocupado, De, Guion
  <1>9. \A a \in Almacenes, k \in Claves :
          Vieja(a, k)' => \/ <<a, k>> \in excusas' \/ BorraraAun(e, a, k)'
                          \/ Vieja(a, k) /\ <<a, k>> \notin excusas /\ ~BorraraAun(e, a, k)
    BY <1>3, <1>8 DEF Vieja, Guardada
  <1>10. /\ \A a \in Almacenes, k \in Claves : cache[a][k] <= cache[a][k]
         /\ \A c \in Colecciones : version[c] <= version[c]
    BY Bases DEF Nada
  <1> QED BY <1>3, <1>6, <1>9, <1>10, Bases, EscritorInv

\* A deletion: of the writer's store, with what remains of its script after it.
LEMMA VaciarInv ==
  ASSUME ListadoAssumption, IInv, NEW e \in Escritores, Ocupado(e), NEW ks \in SUBSET Claves,
         Vaciar(e, ks),
         \A k \in Claves : /\ Guion(e)[escritor[e].paso] = Borra(k[1])
                           /\ escritor[e].buscando \/ k \in escritor[e].claves
                           => k \in ks
  PROVE  IInv'
  <1>1. PICK s : s = De(e) OBVIOUS
  <1>2. /\ s \in Almacenes /\ escritor' = [escritor EXCEPT ![e] = Avanzado(e)]
        /\ UNCHANGED <<version, lector>> /\ excusas' = excusas \ ({s} \X ks)
        /\ cache' = [cache EXCEPT ![s] = [k \in Claves |-> IF k \in ks THEN Nada ELSE cache[s][k]]]
    BY <1>1, Trabajo, Bases DEF Vaciar
  <1>3. /\ cache' \in [Almacenes -> [Claves -> Nat \cup {Nada}]]
        /\ \A a \in Almacenes, k \in Claves :
             cache'[a][k] = IF a = s /\ k \in ks THEN Nada ELSE cache[a][k]
    BY <1>2, Bases
  <1>4. \A a \in Almacenes, k \in Claves : cache'[a][k] <= cache[a][k] \/ cache'[a][k] = Nada
    BY <1>3, Bases DEF Nada
  <1>5. ASSUME NEW a \in Almacenes, NEW k \in Claves, Vieja(a, k)', ~BorraraAun(e, a, k)'
        PROVE  Vieja(a, k) /\ (<<a, k>> \in excusas => <<a, k>> \in excusas') /\ ~BorraraAun(e, a, k)
    <2>1. a # s \/ k \notin ks BY <1>3, <1>5 DEF Vieja, Guardada
    <2>2. Vieja(a, k) BY <1>2, <1>3, <1>5, <2>1 DEF Vieja, Guardada
    <2>3. <<a, k>> \in excusas => <<a, k>> \in excusas' BY <1>2, <2>1
    <2>4. ASSUME BorraraAun(e, a, k) PROVE FALSE
      <3>1. PICK i \in escritor[e].paso .. Len(Guion(e)) :
              /\ Guion(e)[i] = Borra(k[1])
              /\ i = escritor[e].paso => escritor[e].buscando \/ k \in escritor[e].claves
        BY <2>4 DEF BorraraAun
      <3>2. a = s BY <1>1, <2>4 DEF BorraraAun
      <3>3. i # escritor[e].paso BY <2>1, <3>1, <3>2
      <3>4. i \in (escritor[e].paso + 1) .. Len(Guion(e)) BY <3>1, <3>3, Trabajo DEF Completa
      <3> QED BY <1>1, <1>2, <1>5, <3>1, <3>2, <3>4, SigueBorrando
    <2> QED BY <2>2, <2>3, <2>4
  <1>6. \A a \in Almacenes, k \in Claves :
          Vieja(a, k)' => \/ <<a, k>> \in excusas' \/ BorraraAun(e, a, k)'
                          \/ Vieja(a, k) /\ <<a, k>> \notin excusas /\ ~BorraraAun(e, a, k)
    BY <1>5
  <1>7. PICK x : x = Avanzado(e) OBVIOUS
  <1>8. x \in Escritor /\ excusas' \subseteq Almacenes \X Claves
        /\ version' \in [Colecciones -> Nat] /\ \A c \in Colecciones : version[c] <= version'[c]
    BY <1>2, <1>7, Avanza, Bases
  <1> QED BY <1>2, <1>3, <1>4, <1>6, <1>7, <1>8, EscritorInv

LEMMA BorrarListado ==
  ASSUME ListadoAssumption, IInv, NEW e \in Escritores, Borrar(e) \/ BorrarMemoria(e)
  PROVE  IInv'
  <1>1. CASE Borrar(e)
    <2>1. escritor[e].claves \in SUBSET Claves BY <1>1, Trabajo DEF Borrar, Toca
    <2> QED BY <1>1, <2>1, VaciarInv DEF Borrar, Toca
  <1>2. CASE BorrarMemoria(e)
    <2>1. PICK ks : ks = {k \in Claves : k[1] = Objeto(e)} OBVIOUS
    <2>2. \A k \in Claves : Guion(e)[escritor[e].paso] = Borra(k[1]) => k \in ks
      BY <2>1 DEF Objeto, Borra
    <2> QED BY <1>2, <2>1, <2>2, VaciarInv DEF BorrarMemoria, Toca
  <1> QED BY <1>1, <1>2

\* A deletion that Redis loses, or a request that breaks off, is the reason.
LEMMA NoBorrarInv ==
  ASSUME ListadoAssumption, IInv, NEW e \in Escritores, NoBorrar(e)
  PROVE  IInv'
  <1>1. /\ Ocupado(e) /\ escritor' = [escritor EXCEPT ![e] = Avanzado(e)] /\ De(e) = "redis"
        /\ UNCHANGED <<version, cache, lector>>
        /\ excusas' = excusas \cup {ak \in Viejas("redis") : ak[2][1] = Objeto(e)}
    BY DEF NoBorrar, Toca
  <1>2. Viejas("redis") \subseteq Almacenes \X Claves BY DEF Viejas, Almacenes
  <1>3. ASSUME NEW a \in Almacenes, NEW k \in Claves, Vieja(a, k)', <<a, k>> \notin excusas',
               ~BorraraAun(e, a, k)'
        PROVE  Vieja(a, k) /\ <<a, k>> \notin excusas /\ ~BorraraAun(e, a, k)
    <2>1. Vieja(a, k) /\ <<a, k>> \notin excusas BY <1>1, <1>3 DEF Vieja, Guardada
    <2>2. ASSUME BorraraAun(e, a, k) PROVE FALSE
      <3>1. PICK i \in escritor[e].paso .. Len(Guion(e)) : Guion(e)[i] = Borra(k[1])
        BY <2>2 DEF BorraraAun
      <3>2. a = "redis" /\ a = De(e) BY <1>1, <2>2 DEF BorraraAun
      <3>3. i # escritor[e].paso
        <4>1. i = escritor[e].paso => k[1] = Objeto(e) BY <3>1 DEF Objeto, Borra
        <4>2. k[1] = Objeto(e) => <<a, k>> \in excusas' BY <1>1, <2>1, <3>2 DEF Viejas
        <4> QED BY <1>3, <4>1, <4>2
      <3>4. i \in (escritor[e].paso + 1) .. Len(Guion(e)) BY <1>1, <3>1, <3>3, Trabajo DEF Completa
      <3> QED BY <1>1, <1>3, <3>1, <3>2, <3>4, SigueBorrando
    <2> QED BY <2>1, <2>2
  <1>4. \A a \in Almacenes, k \in Claves :
          Vieja(a, k)' => \/ <<a, k>> \in excusas' \/ BorraraAun(e, a, k)'
                          \/ Vieja(a, k) /\ <<a, k>> \notin excusas /\ ~BorraraAun(e, a, k)
    BY <1>3
  <1>5. PICK x : x = Avanzado(e) OBVIOUS
  <1>6. /\ x \in Escritor /\ excusas' \subseteq Almacenes \X Claves
        /\ version' \in [Colecciones -> Nat] /\ \A c \in Colecciones : version[c] <= version'[c]
        /\ cache' \in [Almacenes -> [Claves -> Nat \cup {Nada}]]
        /\ \A a \in Almacenes, k \in Claves : cache'[a][k] <= cache[a][k]
    BY <1>1, <1>2, <1>5, Avanza, Bases DEF Nada
  <1> QED BY <1>1, <1>4, <1>5, <1>6, EscritorInv

LEMMA FallarInv ==
  ASSUME ListadoAssumption, IInv, NEW e \in Escritores, Fallar(e)
  PROVE  IInv'
  <1>1. /\ escritor' = [escritor EXCEPT ![e] = Quieto] /\ De(e) \in Almacenes
        /\ UNCHANGED <<version, cache, lector>> /\ excusas' = excusas \cup Viejas(De(e))
    BY Trabajo DEF Fallar
  <1>2. ASSUME NEW a \in Almacenes, NEW k \in Claves, Vieja(a, k)', <<a, k>> \notin excusas'
        PROVE  Vieja(a, k) /\ <<a, k>> \notin excusas /\ ~BorraraAun(e, a, k)
    <2>1. Vieja(a, k) /\ <<a, k>> \notin excusas BY <1>1, <1>2 DEF Vieja, Guardada
    <2>2. a = De(e) => <<a, k>> \in Viejas(De(e)) BY <2>1 DEF Viejas
    <2> QED BY <1>1, <1>2, <2>1, <2>2 DEF BorraraAun
  <1>3. \A a \in Almacenes, k \in Claves :
          Vieja(a, k)' => \/ <<a, k>> \in excusas' \/ BorraraAun(e, a, k)'
                          \/ Vieja(a, k) /\ <<a, k>> \notin excusas /\ ~BorraraAun(e, a, k)
    BY <1>2
  <1>4. Viejas(De(e)) \subseteq Almacenes \X Claves BY <1>1 DEF Viejas
  <1>5. PICK x : x = Quieto OBVIOUS
  <1>6. /\ x \in Escritor /\ excusas' \subseteq Almacenes \X Claves
        /\ version' \in [Colecciones -> Nat] /\ \A c \in Colecciones : version[c] <= version'[c]
        /\ cache' \in [Almacenes -> [Claves -> Nat \cup {Nada}]]
        /\ \A a \in Almacenes, k \in Claves : cache'[a][k] <= cache[a][k]
    BY <1>1, <1>4, <1>5, QuietoEscribe, Bases DEF Nada
  <1> QED BY <1>1, <1>3, <1>5, <1>6, EscritorInv

\* A step of a reader, or a TTL: writers owe what they owed.
LEMMA LectorInv ==
  ASSUME ListadoAssumption, IInv, UNCHANGED <<version, escritor>>, lector' \in [Lectores -> Lector],
         \A l \in Lectores : LectorAlDia(l)',
         cache' \in [Almacenes -> [Claves -> Nat \cup {Nada}]],
         \A a \in Almacenes, k \in Claves : cache'[a][k] <= version[Coleccion(k[1])],
         excusas' \subseteq Almacenes \X Claves,
         \A a \in Almacenes, k \in Claves :
           Vieja(a, k)' => <<a, k>> \in excusas' \/ (Vieja(a, k) /\ <<a, k>> \notin excusas)
  PROVE  IInv'
  <1>1. TypeOK' BY Bases DEF IInv, TypeOK, Versiones
  <1>2. CacheDelPasado' BY DEF CacheDelPasado
  <1>3. \A e, a, k : BorraraAun(e, a, k) => BorraraAun(e, a, k)'
    BY DEF BorraraAun, Ocupado, De, Guion
  <1>4. ViejaConExcusa' BY <1>3 DEF ViejaConExcusa, IInv
  <1> QED BY <1>1, <1>2, <1>4 DEF IInv

LEMMA LeerInv ==
  ASSUME ListadoAssumption, IInv, NEW l \in Lectores, NEW i \in Instancias, NEW k \in Claves,
         Listar(l, i, k) \/ LeerCache(l) \/ Consultar(l)
  PROVE  IInv'
  <1>1. lector[l] \in Lector /\ lector \in [Lectores -> Lector] BY Bases
  <1>2. UNCHANGED <<version, cache, escritor, excusas>>
    BY DEF Listar, LeerCache, Consultar
  <1>3. \A c \in Colecciones : version[c] \in Nat /\ version[c] <= version[c] BY Bases
  <1>4. PICK x : x = lector'[l] OBVIOUS
  <1>5. /\ lector' = [lector EXCEPT ![l] = x] /\ x \in Lector
        /\ x.pc = "guardar" => x.version <= version[Coleccion(x.clave[1])]
    <2>1. CASE Listar(l, i, k) BY <1>1, <1>4, <2>1 DEF Listar, Lector
    <2>2. CASE LeerCache(l)
      <3>1. lector' = [lector EXCEPT ![l] = Inactivo] \/ lector' = [lector EXCEPT ![l].pc = "consultar"]
        BY <2>2 DEF LeerCache
      <3>2. CASE lector' = [lector EXCEPT ![l] = Inactivo] BY <1>1, <1>4, <3>2, QuietoEscribe
      <3>3. CASE lector' = [lector EXCEPT ![l].pc = "consultar"] BY <1>1, <1>4, <3>3 DEF Lector
      <3> QED BY <3>1, <3>2, <3>3
    <2>3. CASE Consultar(l)
      <3>1. PICK v : v = version[Coleccion(lector[l].clave[1])] OBVIOUS
      <3>2. lector' = [lector EXCEPT ![l].pc = "guardar", ![l].version = v] BY <2>3, <3>1 DEF Consultar
      <3>3. lector[l].clave \in Claves BY <1>1 DEF Lector
      <3>4. v \in Nat /\ v <= v BY <3>1, <3>3, Bases
      <3> QED BY <1>1, <1>4, <3>1, <3>2, <3>4 DEF Lector, Versiones
    <2> QED BY <2>1, <2>2, <2>3
  <1>6. \A m \in Lectores : LectorAlDia(m)' BY <1>1, <1>2, <1>5 DEF IInv, LectorAlDia
  <1>7. \A a \in Almacenes, c \in Claves : Vieja(a, c)' <=> Vieja(a, c)
    BY <1>2 DEF Vieja, Guardada
  <1>8. lector' \in [Lectores -> Lector] BY <1>1, <1>5
  <1> QED BY <1>2, <1>6, <1>7, <1>8, Bases, LectorInv

LEMMA GuardarListaInv ==
  ASSUME ListadoAssumption, IInv, NEW l \in Lectores, GuardarLista(l)
  PROVE  IInv'
  <1>1. PICK a : a = Almacen(lector[l].inst) OBVIOUS
  <1>2. PICK k : k = lector[l].clave OBVIOUS
  <1>3. PICK v : v = lector[l].version OBVIOUS
  <1>4. /\ a \in Almacenes /\ k \in Claves /\ v \in Nat /\ v <= version[Coleccion(k[1])]
        /\ version[Coleccion(k[1])] \in Nat
    BY <1>1, <1>2, <1>3, Bases DEF GuardarLista, IInv, LectorAlDia, Lector, Versiones
  <1>5. /\ lector' = [lector EXCEPT ![l] = Inactivo] /\ UNCHANGED <<version, escritor>>
        /\ \/ /\ cache' = [cache EXCEPT ![a][k] = v]
              /\ excusas' = IF v < version[Coleccion(k[1])]
                            THEN excusas \cup {<<a, k>>} ELSE excusas \ {<<a, k>>}
           \/ UNCHANGED <<cache, excusas>>
    BY <1>1, <1>2, <1>3 DEF GuardarLista
  <1>6. /\ lector' \in [Lectores -> Lector] /\ \A m \in Lectores : LectorAlDia(m)'
    BY <1>5, Bases, QuietoEscribe DEF IInv, LectorAlDia
  <1>7. CASE UNCHANGED <<cache, excusas>>
    <2>1. \A b \in Almacenes, c \in Claves : Vieja(b, c)' <=> Vieja(b, c)
      BY <1>5, <1>7 DEF Vieja, Guardada
    <2> QED BY <1>5, <1>6, <1>7, <2>1, Bases, LectorInv
  <1>8. CASE /\ cache' = [cache EXCEPT ![a][k] = v]
             /\ excusas' = IF v < version[Coleccion(k[1])]
                           THEN excusas \cup {<<a, k>>} ELSE excusas \ {<<a, k>>}
    <2>1. /\ cache' \in [Almacenes -> [Claves -> Nat \cup {Nada}]]
          /\ \A b \in Almacenes, c \in Claves :
               cache'[b][c] = IF b = a /\ c = k THEN v ELSE cache[b][c]
      BY <1>4, <1>8, Bases
    <2>2. \A b \in Almacenes, c \in Claves : cache'[b][c] <= version[Coleccion(c[1])]
      BY <1>4, <2>1, Bases
    <2>3. excusas' \subseteq Almacenes \X Claves BY <1>4, <1>8, Bases
    <2>4. ASSUME NEW b \in Almacenes, NEW c \in Claves, Vieja(b, c)', <<b, c>> \notin excusas'
          PROVE  Vieja(b, c) /\ <<b, c>> \notin excusas
      <3>1. CASE b = a /\ c = k BY <1>4, <1>5, <1>8, <2>1, <2>4, <3>1 DEF Vieja, Guardada
      <3>2. CASE ~(b = a /\ c = k) BY <1>5, <1>8, <2>1, <2>4, <3>2 DEF Vieja, Guardada
      <3> QED BY <3>1, <3>2
    <2> QED BY <1>5, <1>6, <2>1, <2>2, <2>3, <2>4, LectorInv
  <1> QED BY <1>5, <1>7, <1>8

LEMMA ExpirarListado ==
  ASSUME ListadoAssumption, IInv, NEW a \in Almacenes, NEW k \in Claves, Expirar(a, k)
  PROVE  IInv'
  <1>1. /\ cache' = [cache EXCEPT ![a][k] = Nada] /\ excusas' = excusas \ {<<a, k>>}
        /\ UNCHANGED <<version, escritor, lector>>
    BY DEF Expirar
  <1>2. /\ cache' \in [Almacenes -> [Claves -> Nat \cup {Nada}]]
        /\ \A b \in Almacenes, c \in Claves :
             cache'[b][c] = IF b = a /\ c = k THEN Nada ELSE cache[b][c]
    BY <1>1, Bases
  <1>3. \A b \in Almacenes, c \in Claves : cache'[b][c] <= version[Coleccion(c[1])]
    BY <1>2, Bases DEF Nada
  <1>4. ASSUME NEW b \in Almacenes, NEW c \in Claves, Vieja(b, c)', <<b, c>> \notin excusas'
        PROVE  Vieja(b, c) /\ <<b, c>> \notin excusas
    BY <1>1, <1>2, <1>4 DEF Vieja, Guardada
  <1>5. excusas' \subseteq Almacenes \X Claves BY <1>1, Bases
  <1>6. \A m \in Lectores : LectorAlDia(m)' BY <1>1 DEF IInv, LectorAlDia
  <1> QED BY <1>1, <1>2, <1>3, <1>4, <1>5, <1>6, Bases, LectorInv

LEMMA InicialListado == ListadoAssumption /\ Init => IInv
  <1> SUFFICES ASSUME ListadoAssumption, Init PROVE IInv OBVIOUS
  <1>1. TypeOK BY QuietoEscribe DEF Init, TypeOK, Versiones
  <1>2. \A a \in Almacenes, k \in Claves : cache[a][k] = Nada BY DEF Init
  <1>3. \A k \in Claves : Coleccion(k[1]) \in Colecciones BY DEF Claves, Coleccion, Colecciones
  <1>4. CacheDelPasado BY <1>2, <1>3 DEF Init, CacheDelPasado, Nada
  <1>5. ViejaConExcusa BY <1>2 DEF ViejaConExcusa, Vieja, Guardada
  <1>6. \A l \in Lectores : LectorAlDia(l) BY QuietoEscribe DEF Init, LectorAlDia
  <1> QED BY <1>1, <1>4, <1>5, <1>6 DEF IInv

LEMMA ListadosPaso == ListadoAssumption /\ IInv /\ [Next]_vars => IInv'
  <1> SUFFICES ASSUME ListadoAssumption, IInv, [Next]_vars PROVE IInv' OBVIOUS
  <1>1. CASE UNCHANGED vars
    <2>1. UNCHANGED <<version, cache, escritor, lector, excusas>> BY <1>1 DEF vars
    <2>2. \A a \in Almacenes, k \in Claves : Vieja(a, k)' <=> Vieja(a, k)
      BY <2>1 DEF Vieja, Guardada
    <2>3. \A l \in Lectores : LectorAlDia(l)' BY <2>1 DEF IInv, LectorAlDia
    <2> QED BY <2>1, <2>2, <2>3, Bases, LectorInv
  <1>2. ASSUME NEW e \in Escritores, PasoEscritor(e) PROVE IInv'
    BY <1>2, EscribirListadoInv, BuscarListado, BorrarListado, NoBorrarInv, FallarInv DEF PasoEscritor
  <1>3. ASSUME NEW e \in Escritores, NEW i \in Instancias, NEW t \in Escrituras, Empezar(e, i, t)
        PROVE  IInv'
    BY <1>3, EmpezarInv
  <1>4. ASSUME NEW l \in Lectores, PasoLector(l) PROVE IInv'
    <2>1. PICK i \in Instancias : TRUE BY DEF ListadoAssumption
    <2>2. PICK k \in Claves : TRUE
      <3>1. PICK f \in Filtros : TRUE BY DEF ListadoAssumption
      <3>2. <<"payments", f>> \in Claves BY DEF Claves, Prefijos
      <3> QED BY <3>2
    <2> QED BY <1>4, <2>1, <2>2, LeerInv, GuardarListaInv DEF PasoLector
  <1>5. ASSUME NEW l \in Lectores, NEW i \in Instancias, NEW k \in Claves, Listar(l, i, k) PROVE IInv'
    BY <1>5, LeerInv
  <1>6. ASSUME NEW a \in Almacenes, NEW k \in Claves, Expirar(a, k) PROVE IInv'
    BY <1>6, ExpirarListado
  <1> QED BY <1>1, <1>2, <1>3, <1>4, <1>5, <1>6 DEF Next

\* The state is always one the program can hold.
THEOREM ListadosTipados == ASSUME ListadoAssumption PROVE Spec => []TypeOK
  <1>1. Init => IInv BY InicialListado
  <1>2. IInv /\ [Next]_vars => IInv' BY ListadosPaso
  <1>3. IInv => TypeOK BY DEF IInv
  <1> QED BY <1>1, <1>2, <1>3, PTL DEF Spec

\* No cached list is older than its collection without a reason, whatever
\* requests of whatever instances write, read and fail: no script forgets a prefix.
THEOREM ViejasConRazon == ASSUME ListadoAssumption PROVE Spec => []ViejaConExcusa
  <1>1. Init => IInv BY InicialListado
  <1>2. IInv /\ [Next]_vars => IInv' BY ListadosPaso
  <1>3. IInv => ViejaConExcusa BY DEF IInv
  <1> QED BY <1>1, <1>2, <1>3, PTL DEF Spec
=============================================================================
