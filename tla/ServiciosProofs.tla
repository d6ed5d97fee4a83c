-------------------------- MODULE ServiciosProofs --------------------------
(***************************************************************************)
(* Proofs about the services around the payments, one after the other: the *)
(* notices and the visits of the devices, the vouchers from recognition to *)
(* log entry, the files of the buildings, and the exchange rate.  Each has *)
(* an inductive invariant, and one lemma per action that preserves it.     *)
(***************************************************************************)
EXTENDS EdificioProofs, MCServicios, WellFoundedInduction

(***************************************************************************)
(* The notices.                                                            *)
(***************************************************************************)
LEMMA VisitaOciosa == Ociosa \in Visita /\ Ociosa.pc = "inactiva"
BY DEF Ociosa, Visita, PasosVisita

LEMMA HorasTipo == Horas \subseteq Int /\ Nulo \notin Horas /\ Nulo \notin Dispositivos
BY AvisosAssumption DEF Horas

LEMMA InicioAvisos == InitAvisos => IInvAvisos
<1> SUFFICES ASSUME InitAvisos PROVE IInvAvisos
  OBVIOUS
<1>1. 0 \in Horas
  BY AvisosAssumption DEF Horas
<1>2. TypeOKAvisos
  BY <1>1, VisitaOciosa DEF InitAvisos, TypeOKAvisos, Aviso, Estados
<1>3. \A r \in Visitas : visita[r].pc = "inactiva"
  BY VisitaOciosa DEF InitAvisos
<1>4. (\A r \in Visitas : EnOrden(r)) /\ LeidoNoVuelve
  BY <1>3 DEF EnOrden, LeidoNoVuelve
<1> QED BY <1>2, <1>4 DEF IInvAvisos, InitAvisos

(***************************************************************************)
(* A step of request r, which goes on as v and leaves the notices alone.   *)
(***************************************************************************)
EnOrdenComo(v) ==
  /\ v.pc # "inactiva" => v.dispositivo \in Dispositivos
  /\ v.pc = "marcar" => \A a \in v.vistos : Hasta(a, ahora)
  /\ v.pc = "fijar" => v.hora # Nulo /\ \A a \in v.vistos : Hasta(a, v.hora)
  /\ v.pc = "buscar" =>
       /\ v.leidos \subseteq leidos[v.dispositivo]
       /\ v.intacta => \A a \in v.leidos : Hasta(a, v.hora)
  /\ v.pc = "contada" /\ v.intacta => v.cuenta \cap v.leidos = {}

LEMMA ComoVisita ==
  ASSUME IInvAvisos, NEW r \in Visitas
  PROVE  EnOrdenComo(visita[r]) /\ visita[r] \in Visita
BY DEF IInvAvisos, TypeOKAvisos, EnOrdenComo, EnOrden, LeidoNoVuelve

\* what is written keeps the notices seen seen, and the hours stored late enough
LEMMA PasoVisita ==
  ASSUME IInvAvisos, NEW r \in Visitas, NEW v \in Visita, IrVisita(r, v), EnOrdenComo(v),
         TypeOKAvisos' \/ UNCHANGED <<marca, leidos, tope, colados>>,
         UNCHANGED <<ahora, avisos>>,
         \A d \in Dispositivos : leidos[d] \subseteq leidos'[d],
         \A d \in Dispositivos : \A a \in leidos'[d] : Hasta(a, tope'[d])
  PROVE  IInvAvisos'
<1> USE DEF IInvAvisos
<1>1. visita' \in [Visitas -> Visita] /\ visita'[r] = v
      /\ \A q \in Visitas \ {r} : visita'[q] = visita[q]
  BY DEF IrVisita, TypeOKAvisos
<1>2. TypeOKAvisos'
  BY <1>1 DEF TypeOKAvisos
<1>3. \A q \in Visitas : EnOrdenComo(visita'[q])
  BY <1>1, ComoVisita
<1>4. \A q \in Visitas : EnOrden(q)'
  BY <1>3 DEF EnOrden, EnOrdenComo, Hasta
<1>5. LeidoNoVuelve'
  BY <1>3 DEF LeidoNoVuelve, EnOrdenComo
<1>6. \A d \in Dispositivos : \A a \in leidos'[d] : Hasta(a, tope[d])'
  BY DEF Hasta
<1> QED BY <1>2, <1>4, <1>5, <1>6

\* a request goes on, and nothing is written
LEMMA SoloVisita ==
  ASSUME IInvAvisos, NEW r \in Visitas, NEW v \in Visita, IrVisita(r, v), EnOrdenComo(v),
         UNCHANGED <<ahora, avisos, marca, leidos, tope, colados>>
  PROVE  IInvAvisos'
BY PasoVisita DEF IInvAvisos

LEMMA TerminarInv ==
  ASSUME IInvAvisos, NEW r \in Visitas, TerminarVisita(r)
  PROVE  IInvAvisos'
<1>1. EnOrdenComo(Ociosa)
  BY VisitaOciosa DEF EnOrdenComo
<1> QED BY <1>1, VisitaOciosa, SoloVisita DEF TerminarVisita

LEMMA ListarInv ==
  ASSUME IInvAvisos, NEW r \in Visitas, NEW d \in Dispositivos, NEW b \in Edificios,
         ListarAvisos(r, d, b)
  PROVE  IInvAvisos'
<1> DEFINE v == [Ociosa EXCEPT !.pc = "marcar", !.dispositivo = d, !.vistos = Listados(b),
                              !.pasados = Ocultos(b)]
<1>1. /\ v \in Visita /\ v.pc = "marcar" /\ v.dispositivo = d /\ v.vistos = Listados(b)
  BY VisitaOciosa DEF Ociosa, Visita, PasosVisita, Listados, Ocultos
<1>2. \A a \in Listados(b) : Hasta(a, ahora)
  BY HorasTipo DEF Hasta, Listados, EnColeccion, IInvAvisos, TypeOKAvisos
<1>3. EnOrdenComo(v)
  BY <1>1, <1>2 DEF EnOrdenComo
<1> QED BY <1>1, <1>3, SoloVisita DEF ListarAvisos

LEMMA MarcarInv ==
  ASSUME IInvAvisos, NEW r \in Visitas, Marcar(r)
  PROVE  IInvAvisos'
<1> DEFINE v == [visita[r] EXCEPT !.pc = "fijar", !.hora = ahora]
<1>1. visita[r] \in Visita /\ EnOrdenComo(visita[r]) /\ ahora \in Horas /\ visita[r].pc = "marcar"
  BY ComoVisita DEF IInvAvisos, TypeOKAvisos, Marcar
<1>2. /\ v \in Visita /\ v.pc = "fijar" /\ v.hora = ahora /\ v.vistos = visita[r].vistos
      /\ v.dispositivo = visita[r].dispositivo
  BY <1>1 DEF Visita, PasosVisita
<1>3. EnOrdenComo(v)
  BY <1>1, <1>2, HorasTipo DEF EnOrdenComo
<1> QED BY <1>2, <1>3, SoloVisita DEF Marcar

\* the hour stored covers what the visit has shown, and the latest hour all
LEMMA FijarMarcaInv ==
  ASSUME IInvAvisos, NEW r \in Visitas, FijarMarca(r)
  PROVE  IInvAvisos'
<1> DEFINE d == visita[r].dispositivo
           h == visita[r].hora
           vistos == visita[r].vistos
           pasados == visita[r].pasados
<1>1. /\ visita[r] \in Visita /\ EnOrdenComo(visita[r]) /\ visita[r].pc = "fijar"
      /\ IrVisita(r, Ociosa) /\ UNCHANGED <<ahora, avisos>>
  BY ComoVisita DEF FijarMarca
<1>2. EnOrdenComo(Ociosa)
  BY VisitaOciosa DEF EnOrdenComo
<1>3. CASE UNCHANGED <<marca, tope, leidos, colados>>
  BY <1>1, <1>2, <1>3, SoloVisita, VisitaOciosa
<1>4. CASE /\ marca' = [marca EXCEPT ![d] = h]
           /\ tope' = [tope EXCEPT ![d] = IF @ = Nulo \/ h > @ THEN h ELSE @]
           /\ leidos' = [leidos EXCEPT ![d] = @ \cup vistos]
           /\ colados' = [colados EXCEPT ![d] = @ \cup pasados]
  <2>1. /\ d \in Dispositivos /\ h \in Horas /\ \A a \in vistos : a \in Avisos /\ Hasta(a, h)
        /\ pasados \subseteq Avisos
    BY <1>1 DEF EnOrdenComo, Visita
  <2>2. TypeOKAvisos'
    <3>1. visita' \in [Visitas -> Visita]
      BY <1>1, VisitaOciosa DEF IrVisita, IInvAvisos, TypeOKAvisos
    <3> QED BY <1>1, <1>4, <2>1, <3>1 DEF IInvAvisos, TypeOKAvisos
  <2>3. ASSUME NEW e \in Dispositivos PROVE leidos[e] \subseteq leidos'[e]
    BY <1>4, <2>1 DEF IInvAvisos, TypeOKAvisos
  <2>4. ASSUME NEW e \in Dispositivos, NEW a \in leidos'[e] PROVE Hasta(a, tope'[e])
    <3>1. CASE e # d
      BY <1>4, <2>1, <2>4, <3>1 DEF IInvAvisos, TypeOKAvisos
    <3>2. CASE e = d
      <4>1. /\ tope[d] \in Horas \cup {Nulo}
            /\ tope'[d] = IF tope[d] = Nulo \/ h > tope[d] THEN h ELSE tope[d]
            /\ a \in leidos[d] \/ a \in vistos
        BY <1>4, <2>1, <2>4, <3>2 DEF IInvAvisos, TypeOKAvisos
      <4>2. a \in Avisos /\ avisos[a].creado \in Horas
        BY <2>1, <4>1 DEF IInvAvisos, TypeOKAvisos, Aviso
      <4>3. a \in leidos[d] => Hasta(a, tope[d])
        BY <2>1 DEF IInvAvisos
      <4>4. h \in Int /\ avisos[a].creado \in Int
            /\ (tope[d] # Nulo => tope[d] \in Int) /\ h # Nulo
        BY <2>1, <4>1, <4>2, HorasTipo
      <4>5. avisos[a].estado # "no" /\ tope'[d] # Nulo
        BY <2>1, <4>1, <4>3, <4>4 DEF Hasta
      <4>6. avisos[a].creado <= tope'[d]
        BY <2>1, <4>1, <4>3, <4>4 DEF Hasta
      <4> QED BY <3>2, <4>5, <4>6 DEF Hasta
    <3> QED BY <3>1, <3>2
  <2> QED BY <1>1, <1>2, <2>2, <2>3, <2>4, PasoVisita, VisitaOciosa
<1> QED BY <1>3, <1>4 DEF FijarMarca

LEMMA LeerMarcaInv ==
  ASSUME IInvAvisos, NEW r \in Visitas, NEW d \in Dispositivos, NEW b \in Edificios,
         LeerMarca(r, d, b)
  PROVE  IInvAvisos'
<1> DEFINE p == [Ociosa EXCEPT !.pc = "buscar", !.dispositivo = d, !.edificio = b,
                              !.leidos = leidos[d], !.pasados = colados[d]]
           v == [p EXCEPT !.hora = marca[d], !.intacta = marca[d] = tope[d]]
<1>1. leidos[d] \in SUBSET Avisos /\ marca[d] \in Horas \cup {Nulo}
      /\ colados[d] \in SUBSET Avisos /\ \A a \in leidos[d] : Hasta(a, tope[d])
  BY DEF IInvAvisos, TypeOKAvisos
<1>2. p \in Visita /\ p.pc = "buscar" /\ p.dispositivo = d /\ p.leidos = leidos[d] /\ ~p.intacta
  BY <1>1, VisitaOciosa DEF Ociosa, Visita, PasosVisita
<1>3. IrVisita(r, v) \/ IrVisita(r, p)
  BY DEF LeerMarca
<1> HIDE DEF p
<1>4. /\ v \in Visita /\ v.pc = "buscar" /\ v.dispositivo = d /\ v.leidos = leidos[d]
      /\ v.hora = marca[d] /\ v.intacta = (marca[d] = tope[d])
  BY <1>1, <1>2 DEF Visita
<1> HIDE DEF v
<1>5. EnOrdenComo(p) /\ EnOrdenComo(v)
  BY <1>1, <1>2, <1>4 DEF EnOrdenComo
<1> QED BY <1>2, <1>3, <1>4, <1>5, SoloVisita DEF LeerMarca

LEMMA ContarInv ==
  ASSUME IInvAvisos, NEW r \in Visitas, Contar(r)
  PROVE  IInvAvisos'
<1> DEFINE los == Recientes(visita[r].hora, visita[r].edificio)
           v == [visita[r] EXCEPT !.pc = "contada", !.cuenta = los]
<1>1. visita[r] \in Visita /\ EnOrdenComo(visita[r]) /\ visita[r].pc = "buscar"
  BY ComoVisita DEF Contar
<1>2. los \in SUBSET Avisos
  BY DEF Recientes, Publicados
<1>3. visita[r].intacta => los \cap visita[r].leidos = {}
  <2>1. ASSUME visita[r].intacta, NEW a \in los, a \in visita[r].leidos PROVE FALSE
    <3>1. Hasta(a, visita[r].hora)
      BY <1>1, <2>1 DEF EnOrdenComo
    <3>2. visita[r].hora = Nulo \/ avisos[a].creado > visita[r].hora
      BY <2>1 DEF Recientes
    <3>3. avisos[a].creado \in Int /\ visita[r].hora \in Int \cup {Nulo}
      BY <1>1, <1>2, <2>1, HorasTipo DEF IInvAvisos, TypeOKAvisos, Aviso, Visita
    <3> QED BY <3>1, <3>2, <3>3 DEF Hasta
  <2> QED BY <2>1
<1> HIDE DEF los
<1>4. /\ v \in Visita /\ v.pc = "contada" /\ v.cuenta = los /\ v.leidos = visita[r].leidos
      /\ v.intacta = visita[r].intacta /\ v.dispositivo = visita[r].dispositivo
  BY <1>1, <1>2 DEF Visita, PasosVisita
<1>5. IrVisita(r, v)
  BY DEF Contar, los
<1> HIDE DEF v
<1>6. EnOrdenComo(v)
  BY <1>1, <1>3, <1>4 DEF EnOrdenComo
<1> QED BY <1>4, <1>5, <1>6, SoloVisita DEF Contar

\* the clock goes on
LEMMA TicInv ==
  ASSUME IInvAvisos, Tic
  PROVE  IInvAvisos'
<1>1. /\ ahora \in Int /\ ahora' = ahora + 1 /\ ahora' \in Horas
      /\ UNCHANGED <<avisos, marca, visita, leidos, tope, colados>>
  BY AvisosAssumption DEF Tic, IInvAvisos, TypeOKAvisos, Horas
<1>2. TypeOKAvisos'
  BY <1>1 DEF IInvAvisos, TypeOKAvisos
<1>3. ASSUME NEW a \in Avisos, avisos[a].creado <= ahora
      PROVE  avisos'[a].creado <= ahora' /\ (Hasta(a, ahora) => Hasta(a, ahora)')
  <2>1. avisos[a].creado \in Int
    BY HorasTipo DEF IInvAvisos, TypeOKAvisos, Aviso
  <2>2. ahora' # Nulo
    BY <1>1, HorasTipo
  <2> QED BY <1>1, <1>3, <2>1, <2>2 DEF Hasta
<1>4. ASSUME NEW r \in Visitas PROVE EnOrden(r)'
  <2>1. EnOrden(r) /\ visita[r].vistos \subseteq Avisos
    BY DEF IInvAvisos, TypeOKAvisos, Visita
  <2>2. visita[r].pc = "marcar" => \A a \in visita[r].vistos : Hasta(a, ahora)'
    BY <1>3, <2>1 DEF EnOrden, IInvAvisos
  <2> QED BY <1>1, <2>1, <2>2 DEF EnOrden, Hasta
<1>5. LeidoNoVuelve' /\ \A d \in Dispositivos : \A a \in leidos'[d] : Hasta(a, tope[d])'
  BY <1>1 DEF IInvAvisos, LeidoNoVuelve, Hasta
<1> QED BY <1>1, <1>2, <1>3, <1>4, <1>5 DEF IInvAvisos

\* an hour is lost: nothing is said of the hours stored, but of the latest
LEMMA PerderInv ==
  ASSUME IInvAvisos, NEW d \in Dispositivos, Perder(d)
  PROVE  IInvAvisos'
<1>1. TypeOKAvisos' /\ UNCHANGED <<ahora, avisos, visita, leidos, tope>>
  BY DEF Perder, IInvAvisos, TypeOKAvisos
<1> QED BY <1>1 DEF IInvAvisos, EnOrden, Hasta, LeidoNoVuelve

(***************************************************************************)
(* A step of the administrator on notice a: what is seen stays there, with *)
(* the hour it was written.                                                *)
(***************************************************************************)
SalvoPasados(w, v) ==
  /\ w.pc = v.pc /\ w.dispositivo = v.dispositivo /\ w.hora = v.hora /\ w.vistos = v.vistos
  /\ w.cuenta = v.cuenta /\ w.leidos = v.leidos /\ w.intacta = v.intacta

LEMMA CambiarAviso ==
  ASSUME IInvAvisos, NEW a \in Avisos, NEW v \in Aviso, avisos' = [avisos EXCEPT ![a] = v],
         v.creado <= ahora,
         avisos[a].estado = "no" \/ (v.estado # "no" /\ v.creado = avisos[a].creado),
         visita' \in [Visitas -> Visita], \A r \in Visitas : SalvoPasados(visita'[r], visita[r]),
         colados' \in [Dispositivos -> SUBSET Avisos],
         UNCHANGED <<ahora, marca, leidos, tope>>
  PROVE  IInvAvisos'
<1>1. avisos'[a] = v /\ \A b \in Avisos \ {a} : avisos'[b] = avisos[b]
  BY DEF IInvAvisos, TypeOKAvisos
<1>2. TypeOKAvisos' /\ \A b \in Avisos : avisos'[b].creado <= ahora
  BY <1>1 DEF IInvAvisos, TypeOKAvisos
<1>3. ASSUME NEW b \in Avisos, NEW h, Hasta(b, h)
      PROVE  avisos'[b].estado # "no" /\ h # Nulo /\ avisos'[b].creado <= h
  BY <1>1, <1>3 DEF Hasta
<1>4. ASSUME NEW d \in Dispositivos, NEW b \in leidos[d] PROVE Hasta(b, tope[d])'
  <2>1. b \in Avisos /\ Hasta(b, tope[d])
    BY DEF IInvAvisos, TypeOKAvisos
  <2> QED BY <1>3, <2>1 DEF Hasta
<1>5. ASSUME NEW r \in Visitas PROVE EnOrden(r)'
  <2>1. /\ EnOrden(r) /\ visita[r].vistos \subseteq Avisos /\ visita[r].leidos \subseteq Avisos
        /\ SalvoPasados(visita'[r], visita[r]) /\ leidos' = leidos /\ ahora' = ahora
    BY DEF IInvAvisos, TypeOKAvisos, Visita
  <2>2. visita[r].pc = "marcar" => \A b \in visita[r].vistos : Hasta(b, ahora)'
    <3>1. ASSUME visita[r].pc = "marcar", NEW b \in visita[r].vistos PROVE Hasta(b, ahora)'
      <4>1. b \in Avisos /\ Hasta(b, ahora)
        BY <2>1, <3>1 DEF EnOrden
      <4> QED BY <1>3, <2>1, <3>1, <4>1 DEF Hasta
    <3> QED BY <3>1
  <2>3. visita[r].pc = "fijar" => \A b \in visita[r].vistos : Hasta(b, visita[r].hora)'
    <3>1. ASSUME visita[r].pc = "fijar", NEW b \in visita[r].vistos
          PROVE  Hasta(b, visita[r].hora)'
      <4>1. b \in Avisos /\ Hasta(b, visita[r].hora)
        BY <2>1, <3>1 DEF EnOrden
      <4> QED BY <1>3, <2>1, <3>1, <4>1 DEF Hasta, SalvoPasados
    <3> QED BY <3>1
  <2>4. visita[r].pc = "buscar" /\ visita[r].intacta =>
          \A b \in visita[r].leidos : Hasta(b, visita[r].hora)'
    <3>1. ASSUME visita[r].pc = "buscar", visita[r].intacta, NEW b \in visita[r].leidos
          PROVE  Hasta(b, visita[r].hora)'
      <4>1. b \in Avisos /\ Hasta(b, visita[r].hora)
            /\ visita[r].dispositivo \in Dispositivos /\ b \in leidos[visita[r].dispositivo]
        BY <2>1, <3>1 DEF EnOrden
      <4> QED BY <1>3, <2>1, <4>1 DEF Hasta, SalvoPasados
    <3> QED BY <3>1
  <2> QED BY <2>1, <2>2, <2>3, <2>4 DEF EnOrden, SalvoPasados
<1>6. LeidoNoVuelve'
  BY DEF IInvAvisos, LeidoNoVuelve, SalvoPasados
<1> QED BY <1>2, <1>4, <1>5, <1>6 DEF IInvAvisos

\* what the administrator does is a stamp or a change of state, never back to "no"
LEMMA SoloCambia ==
  ASSUME NEW a \in Avisos, Administrar(a)
  PROVE  \/ FecharAviso(a)
         \/ \E e \in Estados \ {"no"} :
              Cambiar(a, e) /\ avisos[a].estado # "no" /\ avisos[a].estado # "eliminado"
BY DEF Administrar, InsertarAviso, FallarInsercion, Actualizar, EliminarAviso, Estados, EnColeccion

LEMMA AdministrarInv ==
  ASSUME IInvAvisos, NEW a \in Avisos, Administrar(a)
  PROVE  IInvAvisos'
<1>1. /\ avisos[a] \in Aviso /\ avisos[a].creado <= ahora /\ ahora \in Horas /\ ahora \in Int
      /\ visita \in [Visitas -> Visita] /\ colados \in [Dispositivos -> SUBSET Avisos]
  BY HorasTipo DEF IInvAvisos, TypeOKAvisos
<1>2. CASE FecharAviso(a)
  <2> DEFINE v == [estado |-> "fechado", creado |-> ahora]
  <2>1. v \in Aviso /\ v.creado <= ahora
    BY <1>1 DEF Aviso, Estados
  <2>2. ASSUME NEW r \in Visitas PROVE visita'[r] \in Visita /\ SalvoPasados(visita'[r], visita[r])
    <3> DEFINE w == [visita[r] EXCEPT !.pasados = @ \cup {a}]
    <3>1. visita[r] \in Visita
      BY <1>1
    <3>2. w \in Visita /\ SalvoPasados(w, visita[r])
      BY <3>1 DEF Visita, SalvoPasados
    <3>3. visita'[r] = w \/ visita'[r] = visita[r]
      BY <1>2 DEF FecharAviso
    <3> QED BY <3>1, <3>2, <3>3 DEF SalvoPasados
  <2>3. visita' = [r \in Visitas |-> visita'[r]]
    BY <1>2 DEF FecharAviso
  <2>4. visita' \in [Visitas -> Visita]
    BY <2>2, <2>3
  <2>5. colados' \in [Dispositivos -> SUBSET Avisos]
    BY <1>1, <1>2 DEF FecharAviso
  <2> QED BY <1>2, <2>1, <2>2, <2>4, <2>5, CambiarAviso DEF FecharAviso
<1>3. ASSUME NEW e \in Estados, e # "no", Cambiar(a, e) PROVE IInvAvisos'
  <2> DEFINE v == [avisos[a] EXCEPT !.estado = e]
  <2>1. v \in Aviso /\ v.estado = e /\ v.creado = avisos[a].creado
    BY <1>1 DEF Aviso
  <2>2. avisos' = [avisos EXCEPT ![a] = v]
    BY <1>3 DEF Cambiar
  <2>3. \A r \in Visitas : SalvoPasados(visita'[r], visita[r])
    BY <1>3 DEF Cambiar, SalvoPasados
  <2> HIDE DEF v
  <2> QED BY <1>1, <1>3, <2>1, <2>2, <2>3, CambiarAviso DEF Cambiar
<1> QED BY <1>2, <1>3, SoloCambia

LEMMA PasoAvisos == IInvAvisos /\ [NextAvisos]_varsAvisos => IInvAvisos'
<1> SUFFICES ASSUME IInvAvisos, [NextAvisos]_varsAvisos PROVE IInvAvisos'
  OBVIOUS
<1>1. CASE UNCHANGED varsAvisos
  BY <1>1 DEF varsAvisos, IInvAvisos, TypeOKAvisos, EnOrden, Hasta, LeidoNoVuelve
<1>2. CASE NextAvisos
  BY <1>2, TicInv, PerderInv, AdministrarInv, TerminarInv, ListarInv, MarcarInv, FijarMarcaInv,
     LeerMarcaInv, ContarInv DEF NextAvisos, Atender
<1> QED BY <1>1, <1>2

LEMMA InductivoAvisos == SpecAvisos => []IInvAvisos
BY InicioAvisos, PasoAvisos, PTL DEF SpecAvisos

(***************************************************************************)
(* What a count leaves out.  A step of request r, which goes on as v and   *)
(* leaves the notices alone; then a step of the administrator.             *)
(***************************************************************************)
LEMMA PasoCubierto ==
  ASSUME IInvColados, IInvAvisos', NEW r \in Visitas, NEW v \in Visita, IrVisita(r, v),
         Cubierta(v), UNCHANGED <<ahora, avisos>>,
         \A d \in Dispositivos : NoTras(marca'[d]) /\ Cubierto(marca'[d], leidos'[d] \cup colados'[d])
  PROVE  IInvColados'
<1>1. visita'[r] = v /\ \A q \in Visitas \ {r} : visita'[q] = visita[q]
  BY DEF IrVisita, IInvColados, IInvAvisos, TypeOKAvisos
<1>2. /\ \A h, los : Cubierto(h, los) => Cubierto(h, los)'
      /\ \A h : NoTras(h) => NoTras(h)'
  BY DEF Cubierto, Hasta, NoTras
<1>3. ASSUME NEW q \in Visitas PROVE Cubierta(visita[q])'
  <2>1. Cubierta(visita'[q])
    BY <1>1 DEF IInvColados
  <2> QED BY <2>1 DEF Cubierta, Cubierto, Hasta, NoTras
<1>4. \A d \in Dispositivos : (NoTras(marca[d]) /\ Cubierto(marca[d], leidos[d] \cup colados[d]))'
  BY DEF Cubierto, Hasta, NoTras
<1> QED BY <1>3, <1>4 DEF IInvColados

\* a request goes on, and nothing is written
LEMMA SoloCubierta ==
  ASSUME IInvColados, IInvAvisos', NEW r \in Visitas, NEW v \in Visita, IrVisita(r, v),
         Cubierta(v), UNCHANGED <<ahora, avisos, marca, leidos, tope, colados>>
  PROVE  IInvColados'
BY PasoCubierto DEF IInvColados

LEMMA ComoCubierta ==
  ASSUME IInvColados, NEW r \in Visitas
  PROVE  /\ Cubierta(visita[r]) /\ visita[r] \in Visita /\ EnOrdenComo(visita[r]) /\ IInvAvisos
         /\ ahora \in Int /\ ahora \in Horas /\ ahora # Nulo
         /\ Cubierta(Ociosa) /\ Ociosa \in Visita
BY ComoVisita, HorasTipo, VisitaOciosa
DEF IInvColados, IInvAvisos, TypeOKAvisos, Ociosa, Cubierta, NoTras

\* Whatever is there is of the building and listed, or passed over.
LEMMA ListarCubre ==
  ASSUME IInvColados, IInvAvisos', NEW r \in Visitas, NEW d \in Dispositivos, NEW b \in Edificios,
         ListarAvisos(r, d, b)
  PROVE  IInvColados'
<1> DEFINE v == [Ociosa EXCEPT !.pc = "marcar", !.dispositivo = d, !.vistos = Listados(b),
                              !.pasados = Ocultos(b)]
<1>1. /\ v \in Visita /\ v.pc = "marcar" /\ v.hora = Nulo
      /\ v.vistos = Listados(b) /\ v.pasados = Ocultos(b)
  BY VisitaOciosa DEF Ociosa, Visita, PasosVisita, Listados, Ocultos
<1>2. Cubierto(ahora, Listados(b) \cup Ocultos(b))
  BY DEF Cubierto, Hasta, Listados, Ocultos, EnColeccion, IInvColados, IInvAvisos, TypeOKAvisos,
         Aviso, Estados
<1>3. Cubierta(v)
  BY <1>1, <1>2 DEF Cubierta, NoTras
<1> QED BY <1>1, <1>3, SoloCubierta DEF ListarAvisos

LEMMA MarcarCubre ==
  ASSUME IInvColados, IInvAvisos', NEW r \in Visitas, Marcar(r)
  PROVE  IInvColados'
<1> DEFINE v == [visita[r] EXCEPT !.pc = "fijar", !.hora = ahora]
<1>1. /\ visita[r] \in Visita /\ Cubierta(visita[r]) /\ visita[r].pc = "marcar"
      /\ ahora \in Horas /\ ahora \in Int
  BY ComoCubierta DEF Marcar
<1>2. /\ v \in Visita /\ v.pc = "fijar" /\ v.hora = ahora /\ v.vistos = visita[r].vistos
      /\ v.pasados = visita[r].pasados
  BY <1>1 DEF Visita, PasosVisita
<1>3. Cubierta(v)
  BY <1>1, <1>2 DEF Cubierta, NoTras
<1> QED BY <1>2, <1>3, SoloCubierta DEF Marcar

\* the hour of the visit becomes the device's, and its list is what it has seen
LEMMA FijarCubre ==
  ASSUME IInvColados, IInvAvisos', NEW r \in Visitas, FijarMarca(r)
  PROVE  IInvColados'
<1> DEFINE d == visita[r].dispositivo
           h == visita[r].hora
<1>1. /\ visita[r] \in Visita /\ Cubierta(visita[r]) /\ EnOrdenComo(visita[r]) /\ IInvAvisos
      /\ visita[r].pc = "fijar" /\ IrVisita(r, Ociosa) /\ UNCHANGED <<ahora, avisos>>
      /\ Cubierta(Ociosa) /\ Ociosa \in Visita
  BY ComoCubierta DEF FijarMarca
<1>2. CASE UNCHANGED <<marca, tope, leidos, colados>>
  BY <1>1, <1>2, SoloCubierta
<1>3. CASE /\ marca' = [marca EXCEPT ![d] = h]
           /\ leidos' = [leidos EXCEPT ![d] = @ \cup visita[r].vistos]
           /\ colados' = [colados EXCEPT ![d] = @ \cup visita[r].pasados]
  <2>1. /\ d \in Dispositivos /\ NoTras(h) /\ Cubierto(h, visita[r].vistos \cup visita[r].pasados)
    BY <1>1 DEF EnOrdenComo, Cubierta
  <2>2. ASSUME NEW e \in Dispositivos
        PROVE  NoTras(marca'[e]) /\ Cubierto(marca'[e], leidos'[e] \cup colados'[e])
    <3>1. CASE e = d
      <4>1. /\ marca'[e] = h
            /\ visita[r].vistos \cup visita[r].pasados \subseteq leidos'[e] \cup colados'[e]
        BY <1>1, <1>3, <2>1, <3>1 DEF IInvAvisos, TypeOKAvisos
      <4> QED BY <2>1, <4>1 DEF Cubierto
    <3>2. CASE e # d
      <4>1. marca'[e] = marca[e] /\ leidos'[e] = leidos[e] /\ colados'[e] = colados[e]
        BY <1>1, <1>3, <3>2 DEF IInvAvisos, TypeOKAvisos
      <4> QED BY <4>1 DEF IInvColados
    <3> QED BY <3>1, <3>2
  <2> QED BY <1>1, <2>2, PasoCubierto
<1> QED BY <1>2, <1>3 DEF FijarMarca

LEMMA LeerCubre ==
  ASSUME IInvColados, IInvAvisos', NEW r \in Visitas, NEW d \in Dispositivos, NEW b \in Edificios,
         LeerMarca(r, d, b)
  PROVE  IInvColados'
<1> DEFINE p == [Ociosa EXCEPT !.pc = "buscar", !.dispositivo = d, !.edificio = b,
                              !.leidos = leidos[d], !.pasados = colados[d]]
           v == [p EXCEPT !.hora = marca[d], !.intacta = marca[d] = tope[d]]
<1>1. /\ leidos[d] \in SUBSET Avisos /\ colados[d] \in SUBSET Avisos
      /\ marca[d] \in Horas \cup {Nulo}
      /\ NoTras(marca[d]) /\ Cubierto(marca[d], leidos[d] \cup colados[d])
  BY DEF IInvColados, IInvAvisos, TypeOKAvisos
<1>2. /\ p \in Visita /\ p.pc = "buscar" /\ p.leidos = leidos[d] /\ p.pasados = colados[d]
      /\ p.hora = Nulo
  BY <1>1, VisitaOciosa DEF Ociosa, Visita, PasosVisita
<1>3. IrVisita(r, v) \/ IrVisita(r, p)
  BY DEF LeerMarca
<1> HIDE DEF p
<1>4. /\ v \in Visita /\ v.pc = "buscar" /\ v.leidos = leidos[d] /\ v.pasados = colados[d]
      /\ v.hora = marca[d]
  BY <1>1, <1>2 DEF Visita
<1> HIDE DEF v
<1>5. Cubierta(p) /\ Cubierta(v)
  BY <1>1, <1>2, <1>4 DEF Cubierta, Cubierto, Hasta, NoTras
<1> QED BY <1>2, <1>3, <1>4, <1>5, SoloCubierta DEF LeerMarca

\* a count that is over, and a request that is given up, hold nothing
LEMMA FinalCubre ==
  ASSUME IInvColados, IInvAvisos', NEW r \in Visitas, Contar(r) \/ TerminarVisita(r)
  PROVE  IInvColados'
<1>1. CASE Contar(r)
  <2> DEFINE los == Recientes(visita[r].hora, visita[r].edificio)
             v == [visita[r] EXCEPT !.pc = "contada", !.cuenta = los]
  <2>1. los \in SUBSET Avisos
    BY DEF Recientes, Publicados
  <2>2. v \in Visita /\ v.pc = "contada" /\ v.hora = visita[r].hora /\ Cubierta(visita[r])
    <3> HIDE DEF los
    <3> QED BY <2>1, ComoCubierta DEF Visita, PasosVisita
  <2>3. Cubierta(v)
    BY <2>2 DEF Cubierta
  <2> QED BY <1>1, <2>2, <2>3, SoloCubierta DEF Contar
<1>2. CASE TerminarVisita(r)
  BY <1>2, ComoCubierta, SoloCubierta DEF TerminarVisita
<1> QED BY <1>1, <1>2

\* the clock goes on: what there was at this hour there was before
LEMMA TicCubre ==
  ASSUME IInvColados, IInvAvisos', Tic
  PROVE  IInvColados'
<1>1. /\ ahora \in Int /\ ahora' = ahora + 1 /\ ahora # Nulo /\ ahora' # Nulo
      /\ UNCHANGED <<avisos, marca, visita, leidos, tope, colados>>
  BY HorasTipo DEF Tic, IInvColados, IInvAvisos, TypeOKAvisos
<1>2. \A h, los : Cubierto(h, los) => Cubierto(h, los)'
  BY <1>1 DEF Cubierto, Hasta
<1>3. ASSUME NEW los, Cubierto(ahora, los) PROVE Cubierto(ahora, los)'
  <2>1. \A a \in Avisos : avisos[a].creado <= ahora
    BY DEF IInvColados, IInvAvisos
  <2> QED BY <1>1, <1>3, <2>1 DEF Cubierto, Hasta
<1>4. ASSUME NEW h \in Int \cup {Nulo}, NoTras(h) PROVE NoTras(h)'
  BY <1>1, <1>4 DEF NoTras
<1>5. ASSUME NEW r \in Visitas PROVE Cubierta(visita[r])'
  <2>1. Cubierta(visita[r]) /\ visita[r].hora \in Int \cup {Nulo}
    BY HorasTipo DEF IInvColados, IInvAvisos, TypeOKAvisos, Visita
  <2> QED BY <1>1, <1>2, <1>3, <1>4, <2>1 DEF Cubierta
<1>6. ASSUME NEW d \in Dispositivos
      PROVE  (NoTras(marca[d]) /\ Cubierto(marca[d], leidos[d] \cup colados[d]))'
  <2>1. /\ marca[d] \in Int \cup {Nulo} /\ NoTras(marca[d])
        /\ Cubierto(marca[d], leidos[d] \cup colados[d])
    BY HorasTipo DEF IInvColados, IInvAvisos, TypeOKAvisos
  <2> QED BY <1>1, <1>2, <1>4, <2>1
<1> QED BY <1>5, <1>6 DEF IInvColados

LEMMA PerderCubre ==
  ASSUME IInvColados, IInvAvisos', NEW d \in Dispositivos, Perder(d)
  PROVE  IInvColados'
<1>1. /\ UNCHANGED <<ahora, avisos, visita, leidos, tope, colados>>
      /\ \A e \in Dispositivos : marca'[e] \in {marca[e], Nulo}
  BY DEF Perder, IInvColados, IInvAvisos, TypeOKAvisos
<1>2. \A e \in Dispositivos : (NoTras(marca[e]) /\ Cubierto(marca[e], leidos[e] \cup colados[e]))'
  BY <1>1 DEF IInvColados, Cubierto, Hasta, NoTras
<1>3. \A r \in Visitas : Cubierta(visita[r])'
  BY <1>1 DEF IInvColados, Cubierta, Cubierto, Hasta, NoTras
<1> QED BY <1>2, <1>3 DEF IInvColados

\* A notice stamped now is behind no hour but one of this very millisecond.
LEMMA SigueCubierto ==
  ASSUME IInvColados, NEW a \in Avisos, FecharAviso(a), NEW h \in Int \cup {Nulo}, NoTras(h),
         NEW los, Cubierto(h, los), NEW mas, los \subseteq mas, h = ahora => a \in mas
  PROVE  Cubierto(h, mas)'
<1>1. /\ avisos'[a].creado = ahora /\ \A b \in Avisos \ {a} : avisos'[b] = avisos[b]
      /\ ahora \in Int
  BY HorasTipo DEF FecharAviso, IInvColados, IInvAvisos, TypeOKAvisos
<1>2. ASSUME h # Nulo, ahora <= h PROVE h = ahora
  BY <1>1, <1>2 DEF NoTras
<1>3. ASSUME NEW b \in Avisos, Hasta(b, h)', avisos'[b].estado # "eliminado" PROVE b \in mas
  <2>1. CASE b = a
    BY <1>1, <1>2, <1>3, <2>1 DEF Hasta
  <2>2. CASE b # a
    BY <1>1, <1>3, <2>2 DEF Hasta, Cubierto
  <2> QED BY <2>1, <2>2
<1> QED BY <1>3 DEF Cubierto, Hasta

LEMMA FecharCubre ==
  ASSUME IInvColados, IInvAvisos', NEW a \in Avisos, FecharAviso(a)
  PROVE  IInvColados'
<1>0. UNCHANGED <<ahora, marca, leidos>>
  BY DEF FecharAviso
<1>1. ASSUME NEW d \in Dispositivos
      PROVE  (NoTras(marca[d]) /\ Cubierto(marca[d], leidos[d] \cup colados[d]))'
  <2>1. /\ marca[d] \in Int \cup {Nulo} /\ NoTras(marca[d])
        /\ Cubierto(marca[d], leidos[d] \cup colados[d])
    BY HorasTipo DEF IInvColados, IInvAvisos, TypeOKAvisos
  <2>2. colados'[d] = colados[d] \cup {b \in {a} : marca[d] = ahora}
    BY DEF FecharAviso
  <2> DEFINE h == marca[d]
             mas == leidos'[d] \cup colados'[d]
  <2>3. \A b \in Avisos : Hasta(b, h)' /\ avisos'[b].estado # "eliminado" => b \in mas
    <3>1. PICK k, m, ls : k = h /\ m = mas /\ ls = leidos[d] \cup colados[d]
      OBVIOUS
    <3>2. ls \subseteq m /\ (k = ahora => a \in m)
      BY <1>0, <2>2, <3>1
    <3>3. k \in Int \cup {Nulo} /\ NoTras(k) /\ Cubierto(k, ls)
      BY <2>1, <3>1
    <3> HIDE DEF mas
    <3>4. Cubierto(k, m)'
      BY <3>2, <3>3, SigueCubierto
    <3> QED BY <1>0, <3>1, <3>4 DEF Cubierto, Hasta
  <2> QED BY <1>0, <2>1, <2>3 DEF Cubierto, NoTras
<1>2. ASSUME NEW r \in Visitas PROVE Cubierta(visita[r])'
  <2>1. /\ Cubierta(visita[r]) /\ visita[r] \in Visita /\ ahora \in Int
        /\ visita[r].hora \in Int \cup {Nulo}
    BY ComoCubierta, HorasTipo DEF Visita
  <2>2. /\ visita'[r].pc = visita[r].pc /\ visita'[r].hora = visita[r].hora
        /\ visita'[r].vistos = visita[r].vistos /\ visita'[r].leidos = visita[r].leidos
        /\ visita[r].pasados \subseteq visita'[r].pasados
        /\ visita[r].pc = "marcar" \/ visita[r].hora = ahora => a \in visita'[r].pasados
    <3> DEFINE w == [visita[r] EXCEPT !.pasados = @ \cup {a}]
    <3>1. visita'[r] = IF visita[r].pc = "marcar" \/ visita[r].hora = ahora THEN w ELSE visita[r]
      BY DEF FecharAviso
    <3>2. /\ w.pc = visita[r].pc /\ w.hora = visita[r].hora /\ w.vistos = visita[r].vistos
          /\ w.leidos = visita[r].leidos /\ w.pasados = visita[r].pasados \cup {a}
      BY <2>1 DEF Visita
    <3> HIDE DEF w
    <3> QED BY <3>1, <3>2
  <2> DEFINE mas(ls) == ls \cup visita'[r].pasados
             EsDe(k, m) == \A b \in Avisos : avisos'[b].estado # "no" /\ k # Nulo /\ avisos'[b].creado <= k
                           /\ avisos'[b].estado # "eliminado" => b \in m
  <2>3. ASSUME NEW k \in Int \cup {Nulo}, NoTras(k), NEW ls, Cubierto(k, ls \cup visita[r].pasados),
               visita[r].pc = "marcar" \/ visita[r].hora = k
        PROVE  EsDe(k, mas(ls))
    <3>1. PICK m : m = mas(ls)
      OBVIOUS
    <3>2. ls \cup visita[r].pasados \subseteq m /\ (k = ahora => a \in m)
      BY <2>2, <2>3, <3>1
    <3> HIDE DEF mas
    <3>3. Cubierto(k, m)'
      BY <2>3, <3>2, SigueCubierto
    <3> QED BY <3>1, <3>3 DEF Cubierto, Hasta
  <2>4. NoTras(ahora)
    BY <2>1 DEF NoTras
  <2>5. visita[r].pc = "marcar" => EsDe(ahora, mas(visita[r].vistos))
    BY <2>1, <2>3, <2>4 DEF Cubierta
  <2>6. visita[r].pc = "fijar" => EsDe(visita[r].hora, mas(visita[r].vistos))
    BY <2>1, <2>3 DEF Cubierta
  <2>7. visita[r].pc = "buscar" => EsDe(visita[r].hora, mas(visita[r].leidos))
    BY <2>1, <2>3 DEF Cubierta
  <2> QED BY <1>0, <2>1, <2>2, <2>5, <2>6, <2>7 DEF Cubierta, Cubierto, Hasta, NoTras
<1> QED BY <1>1, <1>2 DEF IInvColados

LEMMA AdministrarCubre ==
  ASSUME IInvColados, IInvAvisos', NEW a \in Avisos, Administrar(a)
  PROVE  IInvColados'
<1>1. CASE FecharAviso(a)
  BY <1>1, FecharCubre
<1>2. ASSUME NEW e \in Estados, Cambiar(a, e), avisos[a].estado # "no", avisos[a].estado # "eliminado"
      PROVE  IInvColados'
  <2>1. /\ UNCHANGED <<ahora, marca, visita, leidos, colados>>
        /\ \A b \in Avisos \ {a} : avisos'[b] = avisos[b]
        /\ avisos'[a].creado = avisos[a].creado
    BY <1>2 DEF Cambiar, IInvColados, IInvAvisos, TypeOKAvisos, Aviso
  <2>2. \A h, los : Cubierto(h, los) => Cubierto(h, los)'
    BY <1>2, <2>1 DEF Cubierto, Hasta
  <2>3. \A d \in Dispositivos : (NoTras(marca[d]) /\ Cubierto(marca[d], leidos[d] \cup colados[d]))'
    BY <2>1, <2>2 DEF IInvColados, NoTras
  <2>4. \A r \in Visitas : Cubierta(visita[r])'
    BY <2>1, <2>2 DEF IInvColados, Cubierta, NoTras
  <2> QED BY <2>3, <2>4 DEF IInvColados
<1> QED BY <1>1, <1>2, SoloCambia

LEMMA InductivoColados == SpecAvisos => []IInvColados
<1>1. InitAvisos => IInvColados
  <2> SUFFICES ASSUME InitAvisos PROVE IInvColados
    OBVIOUS
  <2>1. \A r \in Visitas : visita[r].pc = "inactiva" /\ visita[r].hora = Nulo
    BY VisitaOciosa DEF InitAvisos, Ociosa
  <2> QED BY <2>1, InicioAvisos DEF InitAvisos, IInvColados, Cubierta, Cubierto, Hasta, NoTras
<1>2. IInvColados /\ [NextAvisos]_varsAvisos => IInvColados'
  <2> SUFFICES ASSUME IInvColados, [NextAvisos]_varsAvisos PROVE IInvColados'
    OBVIOUS
  <2>1. IInvAvisos'
    BY PasoAvisos DEF IInvColados
  <2>2. CASE UNCHANGED varsAvisos
    BY <2>1, <2>2 DEF varsAvisos, IInvColados, Cubierta, Cubierto, Hasta, NoTras
  <2>3. CASE NextAvisos
    BY <2>1, <2>3, TicCubre, PerderCubre, AdministrarCubre, FinalCubre, ListarCubre,
       MarcarCubre, FijarCubre, LeerCubre DEF NextAvisos, Atender
  <2> QED BY <2>2, <2>3
<1> QED BY <1>1, <1>2, PTL DEF SpecAvisos

\* Every hour is one of the clock, and every device, notice and request a known one.
THEOREM AvisosTipados == SpecAvisos => []TypeOKAvisos
<1>1. IInvAvisos => TypeOKAvisos
  BY DEF IInvAvisos
<1> QED BY <1>1, InductivoAvisos, PTL

\* However many devices, notices and requests there are: a count that has read the
\* latest hour stored shows no notice that was in a visit of the device.
THEOREM LeidoSigueLeido == SpecAvisos => []LeidoNoVuelve
<1>1. IInvAvisos => LeidoNoVuelve
  BY DEF IInvAvisos
<1> QED BY <1>1, InductivoAvisos, PTL

\* However visits, counts, notices and lost hours interleave: a count leaves out no
\* published notice of the building but those that visits of the device have listed,
\* and those that a visit has passed over and marked: still on their way to the
\* collection, of another building, or stamped between its list and its hour.
THEOREM LoNuevoSeCuenta == SpecAvisos => NuevoSeCuenta
<1> DEFINE NadaFalta(r) ==
      visita[r].pc = "buscar" /\ visita'[r].pc = "contada" =>
        Publicados(visita[r].edificio) \ visita'[r].cuenta
          \subseteq visita[r].leidos \cup visita[r].pasados
<1>1. ASSUME IInvColados, [NextAvisos]_varsAvisos, NEW r \in Visitas PROVE NadaFalta(r)
  <2> SUFFICES ASSUME visita[r].pc = "buscar", visita'[r].pc = "contada",
                      NEW a \in Publicados(visita[r].edificio) \ visita'[r].cuenta
               PROVE  a \in visita[r].leidos \cup visita[r].pasados
    OBVIOUS
  <2>1. visita[r] \in Visita /\ visita \in [Visitas -> Visita]
        /\ Cubierto(visita[r].hora, visita[r].leidos \cup visita[r].pasados)
    BY <1>1 DEF IInvColados, IInvAvisos, TypeOKAvisos, Cubierta
  <2>2. visita'[r].cuenta = Recientes(visita[r].hora, visita[r].edificio)
    <3>1. \A q \in Visitas, v \in Visita : IrVisita(q, v) /\ v.pc # "contada" => visita'[r].pc # "contada"
      BY <2>1 DEF IrVisita
    <3>2. Ociosa \in Visita /\ Ociosa.pc # "contada"
      BY VisitaOciosa
    <3>3. visita' # visita
      BY <2>1
    <3>4. ~Tic /\ (\A d \in Dispositivos : ~Perder(d)) /\ (\A b \in Avisos : ~Administrar(b))
      <4>1. ASSUME NEW b \in Avisos PROVE ~FecharAviso(b)
        BY <2>1 DEF FecharAviso, Visita
      <4> QED BY <3>3, <4>1, SoloCambia DEF Tic, Perder, Cambiar
    <3>5. PICK q \in Visitas : Atender(q)
      BY <1>1, <3>3, <3>4 DEF NextAvisos, varsAvisos
    <3>6. ~FijarMarca(q) /\ ~TerminarVisita(q)
      BY <3>1, <3>2 DEF FijarMarca, TerminarVisita
    <3>7. ~Marcar(q)
      <4> DEFINE v == [visita[q] EXCEPT !.pc = "fijar", !.hora = ahora]
      <4>1. v \in Visita /\ v.pc # "contada"
        BY <1>1, <2>1 DEF IInvColados, IInvAvisos, TypeOKAvisos, Visita, PasosVisita
      <4> QED BY <3>1, <4>1 DEF Marcar
    <3>8. ASSUME NEW d \in Dispositivos, NEW b \in Edificios
          PROVE  ~ListarAvisos(q, d, b) /\ ~LeerMarca(q, d, b)
      <4> DEFINE l == [Ociosa EXCEPT !.pc = "marcar", !.dispositivo = d, !.vistos = Listados(b),
                                    !.pasados = Ocultos(b)]
                 p == [Ociosa EXCEPT !.pc = "buscar", !.dispositivo = d, !.edificio = b,
                                    !.leidos = leidos[d], !.pasados = colados[d]]
                 m == [p EXCEPT !.hora = marca[d], !.intacta = marca[d] = tope[d]]
      <4>1. leidos[d] \in SUBSET Avisos /\ colados[d] \in SUBSET Avisos /\ marca[d] \in Horas \cup {Nulo}
        BY <1>1 DEF IInvColados, IInvAvisos, TypeOKAvisos
      <4>2. l \in Visita /\ l.pc # "contada" /\ p \in Visita /\ p.pc = "buscar"
        BY <3>2, <4>1 DEF Ociosa, Visita, PasosVisita, Listados, Ocultos
      <4>3. LeerMarca(q, d, b) => IrVisita(q, m) \/ IrVisita(q, p)
        BY DEF LeerMarca
      <4>4. ListarAvisos(q, d, b) => IrVisita(q, l)
        BY DEF ListarAvisos
      <4> HIDE DEF l, p
      <4>5. m \in Visita /\ m.pc # "contada"
        BY <4>1, <4>2 DEF Visita
      <4> HIDE DEF m
      <4> QED BY <3>1, <4>2, <4>3, <4>4, <4>5
    <3>9. Contar(q)
      BY <3>5, <3>6, <3>7, <3>8 DEF Atender
    <3>10. q = r
      BY <2>1, <3>9 DEF Contar, IrVisita
    <3> QED BY <2>1, <3>9, <3>10 DEF Contar, IrVisita, Visita
  <2>3. a \in Avisos /\ avisos[a].estado = "publicado" /\ a \notin Recientes(visita[r].hora, visita[r].edificio)
    BY <2>2 DEF Publicados
  <2>4. Hasta(a, visita[r].hora)
    <3>1. visita[r].hora # Nulo /\ ~(avisos[a].creado > visita[r].hora)
      BY <2>3 DEF Recientes, Publicados
    <3>2. visita[r].hora \in Int /\ avisos[a].creado \in Int
      BY <1>1, <2>1, <2>3, <3>1, HorasTipo DEF Visita, IInvColados, IInvAvisos, TypeOKAvisos, Aviso
    <3> QED BY <2>3, <3>1, <3>2 DEF Hasta
  <2> QED BY <2>1, <2>3, <2>4 DEF Cubierto
<1>2. IInvColados /\ [NextAvisos]_varsAvisos => [\A r \in Visitas : NadaFalta(r)]_varsAvisos
  BY <1>1
<1> QED BY <1>2, InductivoColados, PTL DEF SpecAvisos, NuevoSeCuenta

(***************************************************************************)
(* The vouchers.                                                           *)
(***************************************************************************)
LEMMA InicioComprobantes == InitComprobantes => IInvComprobantes
<1> SUFFICES ASSUME InitComprobantes PROVE IInvComprobantes
  OBVIOUS
<1>1. TypeOKComprobantes
  BY ComprobantesAssumption
  DEF InitComprobantes, TypeOKComprobantes, Lectura, Envio, Negativas, ConPrediccion
<1>2. \A e \in Envios : ~Paga(e) /\ envio[e].imagen = SinPrediccion /\ envio[e].pc = "por_pedir"
  BY DEF InitComprobantes, Paga
<1>3. \A k \in Lecturas : Tenedores(k) = {}
  BY ComprobantesAssumption DEF InitComprobantes, Tenedores
<1>4. hechos = {} /\ registros = {}
      /\ (\A i \in Imagenes : guardada[i] = SinPrediccion)
      /\ (\A e \in Envios : envio[e].prediccion = SinPrediccion)
  BY DEF InitComprobantes
<1>5. Enviados
  BY <1>2, <1>4 DEF Enviados
<1>6. Predicciones /\ UnRegistroPorPrediccion
  BY <1>3, <1>4 DEF Predicciones, UnRegistroPorPrediccion
<1> QED BY <1>1, <1>5, <1>6 DEF IInvComprobantes

(***************************************************************************)
(* A step of submission e, of which only its own request is known to       *)
(* change.                                                                 *)
(***************************************************************************)
SoloDe(e) ==
  envio' \in [Envios -> Envio] /\ \A d \in Envios \ {e} : envio'[d] = envio[d]

\* a submission that goes on pays no more than it already did
LEMMA EnviadosSigue ==
  ASSUME TypeOKComprobantes, Enviados, NEW e \in Envios, SoloDe(e),
         envio[e].pc # "por_pedir", envio'[e].pc # "por_pedir",
         envio'[e].imagen = envio[e].imagen,
         hechos \subseteq hechos', hechos' \subseteq hechos \cup {e},
         repetidas \subseteq repetidas',
         Paga(e)' => Paga(e),
         e \in hechos' /\ envio'[e].pc \in {"subir", "crear"} \cup Negativas =>
           envio[e].imagen \in repetidas'
  PROVE  Enviados'
<1>1. hechos \subseteq Envios /\ hechos' \subseteq Envios
  BY DEF TypeOKComprobantes
<1>2. \A d \in Envios \ {e} : Paga(d)' <=> Paga(d)
  BY DEF Paga, SoloDe
<1>3. \A d \in Envios : envio'[d].imagen = envio[d].imagen
  BY DEF SoloDe
<1>4. \A d \in Envios : (envio[d].pc = "por_pedir" <=> envio[d].imagen = SinPrediccion)'
  BY <1>3 DEF Enviados, SoloDe
<1>5. ASSUME NEW d \in hechos',
             envio'[d].pc \in {"por_pedir", "subir", "crear"} \cup Negativas
      PROVE  envio'[d].imagen \in repetidas'
  <2>1. CASE d = e
    BY <1>3, <1>5, <2>1
  <2>2. CASE d # e
    BY <1>1, <1>3, <1>5, <2>2 DEF Enviados, SoloDe
  <2> QED BY <2>1, <2>2
<1>6. ASSUME NEW c \in Envios, NEW d \in Envios, c # d, Paga(c)', Paga(d)',
             envio'[c].imagen = envio'[d].imagen
      PROVE  envio'[d].imagen \in repetidas'
  <2>1. Paga(c) /\ Paga(d)
    BY <1>2, <1>6
  <2> QED BY <1>3, <1>6, <2>1 DEF Enviados
<1> QED BY <1>4, <1>5, <1>6 DEF Enviados

\* a submission that has no prediction left: what it held escapes, or is cached no
\* longer
LEMMA PrediccionesSuelta ==
  ASSUME TypeOKComprobantes, Predicciones, UnRegistroPorPrediccion, NEW e \in Envios, SoloDe(e),
         UNCHANGED <<lectura, registros>>, escapadas \subseteq escapadas',
         envio'[e].prediccion = SinPrediccion,
         \A i \in Imagenes : guardada'[i] \in {guardada[i], SinPrediccion},
         envio[e].prediccion # SinPrediccion /\ envio[e].prediccion \notin escapadas' =>
           \A i \in Imagenes : guardada'[i] # envio[e].prediccion
  PROVE  Predicciones' /\ UnRegistroPorPrediccion'
<1>1. \A i \in Imagenes : guardada'[i] # SinPrediccion =>
         DeImagen(guardada[i], i)' /\ guardada'[i] = guardada[i]
  BY DEF Predicciones, DeImagen
<1>2. \A d \in Envios : envio'[d].prediccion # SinPrediccion =>
         DeImagen(envio[d].prediccion, envio[d].imagen)'
  BY DEF Predicciones, DeImagen, SoloDe
<1>3. \A k \in Lecturas : Tenedores(k)' = Tenedores(k) \ {e}
  BY ComprobantesAssumption DEF Tenedores, SoloDe
<1>4. \A k \in Lecturas \ escapadas' : \A c, d \in Tenedores(k)' : c = d
  BY <1>3 DEF Predicciones
<1>5. ASSUME NEW x \in registros, x[1] \notin escapadas'
      PROVE  (\/ x[2] \in Tenedores(x[1]) /\ envio[x[2]].pc = "borrar"
              \/ Borrada(x[1]))'
  <2>1. x[1] \in Lecturas /\ x[2] \in Envios /\ x[1] # SinPrediccion /\ x[1] \notin escapadas
    BY <1>5, ComprobantesAssumption DEF TypeOKComprobantes
  <2>2. CASE Borrada(x[1])
    BY <1>3, <2>1, <2>2 DEF Borrada
  <2>3. CASE x[2] \in Tenedores(x[1]) /\ envio[x[2]].pc = "borrar" /\ x[2] # e
    BY <1>3, <2>1, <2>3 DEF SoloDe
  <2>4. CASE x[2] \in Tenedores(x[1]) /\ x[2] = e
    <3>1. envio[e].prediccion = x[1]
      BY <2>4 DEF Tenedores
    <3>2. Tenedores(x[1])' = {}
      BY <1>3, <2>1, <2>4 DEF Predicciones
    <3> QED BY <1>5, <2>1, <3>1, <3>2 DEF Borrada
  <2> QED BY <1>5, <2>1, <2>2, <2>3, <2>4 DEF Predicciones
<1>6. \A x \in registros' : lectura'[x[1]].pc = "respondido"
  BY DEF Predicciones
<1>7. UnRegistroPorPrediccion'
  BY DEF UnRegistroPorPrediccion
<1>8. Predicciones'
  BY <1>1, <1>2, <1>4, <1>5, <1>6 DEF Predicciones
<1> QED BY <1>7, <1>8

\* a recognition that has not answered is known to nobody: it may do as it likes
LEMMA SoloLectura ==
  ASSUME IInvComprobantes, NEW k \in Lecturas, lectura[k].pc # "respondido",
         lectura' \in [Lecturas -> Lectura],
         \A j \in Lecturas \ {k} : lectura'[j] = lectura[j],
         UNCHANGED <<envio, guardada, hechos, registros, repetidas, escapadas>>
  PROVE  IInvComprobantes'
<1>1. TypeOKComprobantes'
  BY DEF IInvComprobantes, TypeOKComprobantes
<1>2. Enviados' /\ UnRegistroPorPrediccion'
  BY DEF IInvComprobantes, Enviados, Paga, UnRegistroPorPrediccion
<1>3. \A j \in Lecturas : \A i : DeImagen(j, i) => DeImagen(j, i)'
  BY DEF DeImagen
<1>4. /\ \A i \in Imagenes : guardada[i] \in Lecturas \cup {SinPrediccion}
      /\ \A e \in Envios : envio[e].prediccion \in Lecturas \cup {SinPrediccion}
      /\ \A x \in registros : x[1] \in Lecturas
  BY DEF IInvComprobantes, TypeOKComprobantes, Envio
<1>5. Predicciones'
  BY <1>3, <1>4 DEF IInvComprobantes, Predicciones, DeImagen, Tenedores, Borrada
<1> QED BY <1>1, <1>2, <1>5 DEF IInvComprobantes

LEMMA LecturaInv ==
  ASSUME IInvComprobantes, NEW k \in Lecturas,
         LeerTexto(k) \/ PreguntarLogo(k) \/ MorirLectura(k) \/ \E i \in Imagenes : Pedir(k, i)
  PROVE  IInvComprobantes'
<1>1. lectura \in [Lecturas -> Lectura]
  BY DEF IInvComprobantes, TypeOKComprobantes
<1>2. UNCHANGED <<envio, guardada, hechos, registros, repetidas, escapadas>>
  BY DEF LeerTexto, PreguntarLogo, MorirLectura, Pedir
<1>3. lectura[k].pc # "respondido"
  BY DEF LeerTexto, PreguntarLogo, MorirLectura, Pedir
<1>4. \A j \in Lecturas \ {k} : lectura'[j] = lectura[j]
  BY <1>1 DEF LeerTexto, PreguntarLogo, MorirLectura, Pedir, IrLectura
<1>5. lectura' \in [Lecturas -> Lectura]
  <2>1. ASSUME NEW i \in Imagenes, Pedir(k, i) PROVE lectura' \in [Lecturas -> Lectura]
    <3>1. PICK pc \in {"texto", "rechazado"} :
            lectura' = [lectura EXCEPT ![k].pc = pc, ![k].imagen = i]
      BY <2>1 DEF Pedir
    <3>2. [lectura[k] EXCEPT !.pc = pc, !.imagen = i] \in Lectura
      BY <1>1 DEF Lectura, Negativas
    <3> QED BY <1>1, <3>1, <3>2
  <2>2. CASE LeerTexto(k)
    BY <1>1, <2>2 DEF LeerTexto, IrLectura, Lectura, Negativas
  <2>3. CASE PreguntarLogo(k)
    <3>1. lectura[k].intentos \in 0 .. MaxIntentos
      BY <1>1 DEF Lectura
    <3>2. CASE IrLectura(k, "guardar")
      BY <1>1, <3>2 DEF IrLectura, Lectura
    <3>3. CASE /\ lectura[k].intentos + 1 < MaxIntentos
               /\ lectura' = [lectura EXCEPT ![k].intentos = @ + 1]
      <4>1. lectura[k].intentos + 1 \in 0 .. MaxIntentos
        BY <3>1, <3>3, ComprobantesAssumption
      <4> QED BY <1>1, <3>3, <4>1 DEF Lectura
    <3> QED BY <2>3, <3>2, <3>3 DEF PreguntarLogo
  <2>4. CASE MorirLectura(k)
    BY <1>1, <2>4 DEF MorirLectura, IrLectura, Lectura
  <2> QED BY <2>1, <2>2, <2>3, <2>4
<1> QED BY <1>2, <1>3, <1>4, <1>5, SoloLectura

\* a new prediction is of the image it is cached under, and of no entry of the log
LEMMA GuardarInv ==
  ASSUME IInvComprobantes, NEW k \in Lecturas, GuardarPrediccion(k)
  PROVE  IInvComprobantes'
<1> DEFINE i == lectura[k].imagen
<1>1. /\ TypeOKComprobantes /\ Enviados /\ Predicciones /\ UnRegistroPorPrediccion
      /\ lectura[k].pc = "guardar" /\ UNCHANGED <<envio, hechos, registros, repetidas, escapadas>>
      /\ lectura' = [lectura EXCEPT ![k].pc = "respondido"]
      /\ guardada' = [guardada EXCEPT ![i] = k] \/ guardada' = guardada
  BY DEF IInvComprobantes, GuardarPrediccion, IrLectura
<1>2. /\ lectura' \in [Lecturas -> Lectura] /\ DeImagen(k, i)'
      /\ \A j \in Lecturas \ {k} : lectura'[j] = lectura[j]
  BY <1>1 DEF TypeOKComprobantes, Lectura, DeImagen
<1>3. guardada' \in [Imagenes -> Lecturas \cup {SinPrediccion}]
      /\ \A j \in Imagenes : guardada'[j] = guardada[j] \/ (j = i /\ guardada'[j] = k)
  BY <1>1 DEF TypeOKComprobantes
<1>4. TypeOKComprobantes'
  BY <1>1, <1>2, <1>3 DEF TypeOKComprobantes
<1>5. Enviados' /\ UnRegistroPorPrediccion'
  BY <1>1 DEF Enviados, Paga, UnRegistroPorPrediccion
<1>6. \A j \in Lecturas : \A h : DeImagen(j, h) => j # k /\ DeImagen(j, h)'
  BY <1>1, <1>2 DEF DeImagen
<1>7. /\ \A j \in Imagenes : guardada[j] \in Lecturas \cup {SinPrediccion}
      /\ \A e \in Envios : envio[e].prediccion \in Lecturas \cup {SinPrediccion}
      /\ \A x \in registros : x[1] \in Lecturas /\ x[1] # k
  BY <1>1 DEF TypeOKComprobantes, Envio, Predicciones
<1>8. \A j \in Imagenes : guardada'[j] # SinPrediccion => DeImagen(guardada[j], j)'
  BY <1>1, <1>2, <1>3, <1>6, <1>7 DEF Predicciones, DeImagen
<1>9. \A e \in Envios :
        envio'[e].prediccion # SinPrediccion => DeImagen(envio[e].prediccion, envio[e].imagen)'
  BY <1>1, <1>6, <1>7 DEF Predicciones, DeImagen
<1>10. \A x \in registros : Borrada(x[1]) => Borrada(x[1])'
  BY <1>1, <1>3, <1>7 DEF Borrada, Tenedores
<1>11. \A x \in registros : lectura'[x[1]].pc = "respondido"
  BY <1>1, <1>2, <1>7 DEF Predicciones
<1>12. \A j : Tenedores(j)' = Tenedores(j)
  BY <1>1 DEF Tenedores
<1>13. Predicciones'
  BY <1>1, <1>8, <1>9, <1>10, <1>11, <1>12 DEF Predicciones
<1> QED BY <1>4, <1>5, <1>13 DEF IInvComprobantes

LEMMA ExpirarInv ==
  ASSUME IInvComprobantes, NEW i \in Imagenes, ExpirarPrediccion(i)
  PROVE  IInvComprobantes'
<1>1. /\ TypeOKComprobantes /\ Enviados /\ Predicciones /\ UnRegistroPorPrediccion
      /\ UNCHANGED <<lectura, envio, hechos, registros, repetidas, escapadas>>
      /\ guardada' \in [Imagenes -> Lecturas \cup {SinPrediccion}]
      /\ \A j \in Imagenes : guardada'[j] \in {guardada[j], SinPrediccion}
  BY DEF IInvComprobantes, ExpirarPrediccion, TypeOKComprobantes
<1>2. TypeOKComprobantes' /\ Enviados' /\ UnRegistroPorPrediccion'
  BY <1>1 DEF TypeOKComprobantes, Enviados, Paga, UnRegistroPorPrediccion
<1>3. \A k : Tenedores(k)' = Tenedores(k)
  BY <1>1 DEF Tenedores
<1>4. \A x \in registros : x[1] # SinPrediccion
  BY <1>1, ComprobantesAssumption DEF TypeOKComprobantes
<1>5. \A x \in registros : Borrada(x[1]) => Borrada(x[1])'
  BY <1>1, <1>3, <1>4 DEF Borrada
<1>6. Predicciones'
  BY <1>1, <1>3, <1>5 DEF Predicciones, DeImagen
<1> QED BY <1>2, <1>6 DEF IInvComprobantes

(***************************************************************************)
(* The submissions.                                                        *)
(***************************************************************************)

\* where a submission is after a step
LEMMA CambioEnvio ==
  ASSUME TypeOKComprobantes, NEW e \in Envios, NEW v \in Envio,
         envio' = [envio EXCEPT ![e] = v]
  PROVE  SoloDe(e) /\ envio'[e] = v
BY DEF TypeOKComprobantes, SoloDe

\* the types of what a submission leaves as it is
LEMMA TiposEnvio ==
  ASSUME TypeOKComprobantes, NEW e \in Envios, SoloDe(e), UNCHANGED lectura,
         envio'[e].prediccion # SinPrediccion <=> envio'[e].pc \in ConPrediccion,
         guardada' \in [Imagenes -> Lecturas \cup {SinPrediccion}],
         hechos' \subseteq Envios, registros' \subseteq Lecturas \X Envios,
         repetidas' \subseteq Imagenes, escapadas' \subseteq Lecturas
  PROVE  TypeOKComprobantes'
BY DEF TypeOKComprobantes, SoloDe

\* of the types, what the steps of a submission need
LEMMA DeEnvio ==
  ASSUME IInvComprobantes, NEW e \in Envios
  PROVE  /\ TypeOKComprobantes /\ Enviados /\ Predicciones /\ UnRegistroPorPrediccion
         /\ envio[e] \in Envio /\ envio[e].imagen \in Imagenes \cup {SinPrediccion}
         /\ envio[e].pc # "por_pedir" => envio[e].imagen \in Imagenes
         /\ guardada \in [Imagenes -> Lecturas \cup {SinPrediccion}]
         /\ hechos \subseteq Envios /\ registros \subseteq Lecturas \X Envios
         /\ repetidas \subseteq Imagenes /\ escapadas \subseteq Lecturas
         /\ envio[e].prediccion # SinPrediccion <=> envio[e].pc \in ConPrediccion
BY DEF IInvComprobantes, TypeOKComprobantes, Enviados, Envio

LEMMA EnviarInv ==
  ASSUME IInvComprobantes, NEW e \in Envios, NEW i \in Imagenes, Enviar(e, i)
  PROVE  IInvComprobantes'
<1>1. PICK pc \in {"subir", "rechazado"} :
        envio' = [envio EXCEPT ![e].pc = pc, ![e].imagen = i]
  BY DEF Enviar
<1> DEFINE v == [envio[e] EXCEPT !.pc = pc, !.imagen = i]
           ya == {j \in {i} : \E d \in Envios : envio[d].imagen = j /\ envio[d].pc \notin Negativas}
<1>2. /\ envio[e].pc = "por_pedir" /\ repetidas' = repetidas \cup ya
      /\ UNCHANGED <<lectura, guardada, hechos, registros, escapadas>>
  BY DEF Enviar
<1>3. envio' = [envio EXCEPT ![e] = v]
  BY <1>1 DEF IInvComprobantes, TypeOKComprobantes
<1>4. v \in Envio /\ v.pc = pc /\ v.imagen = i /\ v.prediccion = envio[e].prediccion
  BY DeEnvio DEF Envio, Negativas
<1> HIDE DEF v
<1>5. SoloDe(e) /\ envio'[e] = v
  BY <1>3, <1>4, CambioEnvio, DeEnvio
<1>6. envio[e].prediccion = SinPrediccion /\ v.prediccion = SinPrediccion /\ pc \notin ConPrediccion
  BY <1>2, <1>4, DeEnvio DEF ConPrediccion
<1>7. ya \subseteq Imagenes
  OBVIOUS
<1>8. TypeOKComprobantes'
  BY <1>2, <1>4, <1>5, <1>6, <1>7, DeEnvio, TiposEnvio
<1>9. Predicciones' /\ UnRegistroPorPrediccion'
  BY <1>2, <1>5, <1>6, DeEnvio, PrediccionesSuelta
<1>10. Enviados'
  <2>1. \A d \in Envios : (envio[d].pc = "por_pedir" <=> envio[d].imagen = SinPrediccion)'
    BY <1>4, <1>5, ComprobantesAssumption, DeEnvio DEF Enviados, SoloDe
  <2>2. e \notin hechos /\ envio[e].imagen = SinPrediccion
    BY <1>2, ComprobantesAssumption, DeEnvio DEF Enviados
  <2>3. ASSUME NEW d \in hechos',
               envio'[d].pc \in {"por_pedir", "subir", "crear"} \cup Negativas
        PROVE  envio'[d].imagen \in repetidas'
    BY <1>2, <1>5, <2>2, <2>3, DeEnvio DEF Enviados, SoloDe
  <2>4. ASSUME NEW d \in Envios \ {e}, Paga(d)', envio'[d].imagen = i
        PROVE  i \in repetidas'
    <3>1. Paga(d) /\ envio[d].imagen = i
      BY <1>2, <1>5, <2>4 DEF Paga, SoloDe
    <3>2. CASE envio[d].pc \in Negativas
      BY <1>2, <3>1, <3>2, DeEnvio DEF Enviados, Paga
    <3>3. CASE envio[d].pc \notin Negativas
      BY <1>2, <3>1, <3>3
    <3> QED BY <3>2, <3>3
  <2>5. ASSUME NEW c \in Envios, NEW d \in Envios, c # d, Paga(c)', Paga(d)',
               envio'[c].imagen = envio'[d].imagen
        PROVE  envio'[d].imagen \in repetidas'
    <3>1. CASE c = e \/ d = e
      BY <1>4, <1>5, <2>4, <2>5, <3>1
    <3>2. CASE c # e /\ d # e
      <4>1. Paga(c) /\ Paga(d) /\ envio'[c] = envio[c] /\ envio'[d] = envio[d]
        BY <1>2, <1>5, <2>5, <3>2 DEF Paga, SoloDe
      <4> QED BY <1>2, <2>5, <4>1, DeEnvio DEF Enviados
    <3> QED BY <3>1, <3>2
  <2> QED BY <2>1, <2>3, <2>5 DEF Enviados
<1> QED BY <1>8, <1>9, <1>10 DEF IInvComprobantes

\* the submissions between whose steps nothing is written
LEMMA EnvioSigueInv ==
  ASSUME IInvComprobantes, NEW e \in Envios, SubirImagen(e) \/ InvalidarListas(e)
  PROVE  IInvComprobantes'
<1>1. PICK pc \in {"crear", "error", "respondido"} :
        /\ envio' = [envio EXCEPT ![e].pc = pc]
        /\ envio[e].pc \in {"subir", "listas"}
        /\ envio[e].pc = "listas" <=> pc = "respondido"
  <2>1. CASE SubirImagen(e)
    BY <2>1 DEF SubirImagen, IrEnvio
  <2>2. CASE InvalidarListas(e)
    BY <2>2 DEF InvalidarListas, IrEnvio
  <2> QED BY <2>1, <2>2
<1>2. UNCHANGED <<lectura, guardada, hechos, registros, repetidas, escapadas>>
  BY DEF SubirImagen, InvalidarListas
<1> DEFINE v == [envio[e] EXCEPT !.pc = pc]
<1>3. envio' = [envio EXCEPT ![e] = v]
  BY <1>1, DeEnvio DEF TypeOKComprobantes
<1>4. v \in Envio /\ v.pc = pc /\ v.imagen = envio[e].imagen /\ v.prediccion = envio[e].prediccion
  BY DeEnvio DEF Envio, Negativas
<1> HIDE DEF v
<1>5. SoloDe(e) /\ envio'[e] = v
  BY <1>3, <1>4, CambioEnvio, DeEnvio
<1>6. envio[e].prediccion = SinPrediccion /\ pc \notin ConPrediccion /\ envio[e].pc # "por_pedir"
  BY <1>1, DeEnvio DEF ConPrediccion
<1>7. TypeOKComprobantes'
  BY <1>2, <1>4, <1>5, <1>6, DeEnvio, TiposEnvio
<1>8. Predicciones' /\ UnRegistroPorPrediccion'
  BY <1>2, <1>4, <1>5, <1>6, DeEnvio, PrediccionesSuelta
<1>9. Paga(e)' => Paga(e)
  BY <1>1 DEF Paga, Negativas
<1>10. e \in hechos' /\ envio'[e].pc \in {"subir", "crear"} \cup Negativas =>
         envio[e].imagen \in repetidas'
  BY <1>1, <1>2, <1>4, <1>5, DeEnvio DEF Enviados, Negativas
<1>11. Enviados'
  BY <1>1, <1>2, <1>4, <1>5, <1>6, <1>9, <1>10, DeEnvio, EnviadosSigue
<1> QED BY <1>7, <1>8, <1>11 DEF IInvComprobantes

\* what the database wrote without an answer is known to be a repetition
LEMMA InsertarInv ==
  ASSUME IInvComprobantes, NEW e \in Envios, InsertarPago(e)
  PROVE  IInvComprobantes'
<1>1. PICK pc \in {"buscar", "error"} :
        /\ envio' = [envio EXCEPT ![e].pc = pc]
        /\ hechos' \in {hechos, hechos \cup {e}}
        /\ repetidas' \in {repetidas, repetidas \cup {envio[e].imagen}}
        /\ pc = "error" => hechos' = hechos \/ envio[e].imagen \in repetidas'
  BY DEF InsertarPago, IrEnvio
<1>2. envio[e].pc = "crear" /\ UNCHANGED <<lectura, guardada, registros, escapadas>>
  BY DEF InsertarPago
<1> DEFINE v == [envio[e] EXCEPT !.pc = pc]
<1>3. envio' = [envio EXCEPT ![e] = v]
  BY <1>1, DeEnvio DEF TypeOKComprobantes
<1>4. v \in Envio /\ v.pc = pc /\ v.imagen = envio[e].imagen /\ v.prediccion = envio[e].prediccion
  BY DeEnvio DEF Envio, Negativas
<1> HIDE DEF v
<1>5. SoloDe(e) /\ envio'[e] = v
  BY <1>3, <1>4, CambioEnvio, DeEnvio
<1>6. envio[e].prediccion = SinPrediccion /\ pc \notin ConPrediccion /\ envio[e].imagen \in Imagenes
  BY <1>2, DeEnvio DEF ConPrediccion
<1>7. hechos' \subseteq Envios /\ repetidas' \subseteq Imagenes
  BY <1>1, <1>6, DeEnvio
<1>8. TypeOKComprobantes'
  BY <1>2, <1>4, <1>5, <1>6, <1>7, DeEnvio, TiposEnvio
<1>9. Predicciones' /\ UnRegistroPorPrediccion'
  BY <1>2, <1>4, <1>5, <1>6, DeEnvio, PrediccionesSuelta
<1>10. Paga(e)
  BY <1>2 DEF Paga, Negativas
<1>11. e \in hechos' /\ envio'[e].pc \in {"subir", "crear"} \cup Negativas =>
         envio[e].imagen \in repetidas'
  <2>1. e \in hechos => envio[e].imagen \in repetidas
    BY <1>2, DeEnvio DEF Enviados
  <2>2. pc = "buscar" => pc \notin {"subir", "crear"} \cup Negativas
    BY DEF Negativas
  <2> QED BY <1>1, <1>4, <1>5, <2>1, <2>2
<1>12. Enviados'
  <2>1. /\ hechos \subseteq hechos' /\ hechos' \subseteq hechos \cup {e}
        /\ repetidas \subseteq repetidas'
    BY <1>1
  <2> QED BY <1>2, <1>4, <1>5, <1>10, <1>11, <2>1, DeEnvio, EnviadosSigue
<1> QED BY <1>8, <1>9, <1>12 DEF IInvComprobantes

\* a submission between "buscar" and "listas", and what stays of the payments
LEMMA EnviadosDespues ==
  ASSUME IInvComprobantes, NEW e \in Envios, SoloDe(e),
         envio[e].pc \in {"buscar", "registrar", "borrar"},
         envio'[e].pc \in {"registrar", "borrar", "listas"},
         envio'[e].imagen = envio[e].imagen, UNCHANGED <<hechos, repetidas>>
  PROVE  Enviados'
<1>1. Paga(e)
  BY DEF Paga, Negativas
<1>2. envio'[e].pc \notin {"subir", "crear"} \cup Negativas
  BY DEF Negativas
<1> QED BY <1>1, <1>2, DeEnvio, EnviadosSigue

\* a prediction is handed out while it is cached: nobody has logged it, or it escapes
LEMMA BuscarInv ==
  ASSUME IInvComprobantes, NEW e \in Envios, BuscarPrediccion(e)
  PROVE  IInvComprobantes'
<1> DEFINE k == guardada[envio[e].imagen]
<1>1. envio[e].pc = "buscar" /\ UNCHANGED <<lectura, guardada, hechos, registros, repetidas>>
  BY DEF BuscarPrediccion
<1>2. envio[e].prediccion = SinPrediccion /\ envio[e].imagen \in Imagenes
  BY <1>1, DeEnvio DEF ConPrediccion
<1>3. CASE IrEnvio(e, "listas") /\ UNCHANGED escapadas
  <2> DEFINE v == [envio[e] EXCEPT !.pc = "listas"]
  <2>1. envio' = [envio EXCEPT ![e] = v]
    BY <1>3, DeEnvio DEF IrEnvio, TypeOKComprobantes
  <2>2. v \in Envio /\ v.pc = "listas" /\ v.imagen = envio[e].imagen
        /\ v.prediccion = SinPrediccion
    BY <1>2, DeEnvio DEF Envio
  <2> HIDE DEF v
  <2>3. SoloDe(e) /\ envio'[e] = v
    BY <2>1, <2>2, CambioEnvio, DeEnvio
  <2>4. TypeOKComprobantes'
    BY <1>1, <1>3, <2>2, <2>3, DeEnvio, TiposEnvio DEF ConPrediccion
  <2>5. Predicciones' /\ UnRegistroPorPrediccion'
    BY <1>1, <1>2, <1>3, <2>2, <2>3, DeEnvio, PrediccionesSuelta
  <2> QED BY <1>1, <2>2, <2>3, <2>4, <2>5, EnviadosDespues DEF IInvComprobantes
<1>4. CASE /\ k # SinPrediccion
           /\ envio' = [envio EXCEPT ![e].pc = "registrar", ![e].prediccion = k]
           /\ escapadas' = IF Tenedores(k) # {} THEN escapadas \cup {k} ELSE escapadas
  <2> DEFINE v == [envio[e] EXCEPT !.pc = "registrar", !.prediccion = k]
  <2>1. k \in Lecturas /\ DeImagen(k, envio[e].imagen)
    BY <1>2, <1>4, DeEnvio DEF Predicciones
  <2>2. envio' = [envio EXCEPT ![e] = v]
    BY <1>4, DeEnvio DEF TypeOKComprobantes
  <2>3. v \in Envio /\ v.pc = "registrar" /\ v.imagen = envio[e].imagen /\ v.prediccion = k
    BY <2>1, DeEnvio DEF Envio
  <2> HIDE DEF v
  <2>4. SoloDe(e) /\ envio'[e] = v
    BY <2>2, <2>3, CambioEnvio, DeEnvio
  <2>5. escapadas \subseteq escapadas' /\ escapadas' \subseteq Lecturas
        /\ (k \notin escapadas' => Tenedores(k) = {})
    BY <1>4, <2>1, DeEnvio
  <2>6. TypeOKComprobantes'
    BY <1>1, <1>4, <2>3, <2>4, <2>5, DeEnvio, TiposEnvio DEF ConPrediccion
  <2>7. \A j \in Lecturas \ {k} : Tenedores(j)' = Tenedores(j)
    BY <1>2, <2>3, <2>4, ComprobantesAssumption DEF Tenedores, SoloDe
  <2>8. \A i \in Imagenes : guardada'[i] # SinPrediccion => DeImagen(guardada[i], i)'
    BY <1>1, DeEnvio DEF Predicciones, DeImagen
  <2>9. \A d \in Envios :
          envio'[d].prediccion # SinPrediccion => DeImagen(envio[d].prediccion, envio[d].imagen)'
    BY <1>1, <2>1, <2>3, <2>4, DeEnvio DEF Predicciones, DeImagen, SoloDe
  <2>10. ASSUME NEW j \in Lecturas \ escapadas', NEW c \in Tenedores(j)', NEW d \in Tenedores(j)'
         PROVE  c = d
    <3>1. CASE j = k
      BY <2>5, <2>10, <3>1, <2>4 DEF Tenedores, SoloDe
    <3>2. CASE j # k
      BY <2>5, <2>7, <2>10, <3>2, DeEnvio DEF Predicciones
    <3> QED BY <3>1, <3>2
  <2>11. ASSUME NEW x \in registros, x[1] \notin escapadas'
         PROVE  \/ x[2] \in Tenedores(x[1])' /\ envio'[x[2]].pc = "borrar"
                \/ Borrada(x[1])'
    <3>1. x[1] \in Lecturas /\ x[2] \in Envios /\ x[1] # SinPrediccion /\ x[1] \notin escapadas
      BY <2>5, <2>11, DeEnvio, ComprobantesAssumption
    <3>2. \/ x[2] \in Tenedores(x[1]) /\ envio[x[2]].pc = "borrar"
          \/ Borrada(x[1])
      BY <2>11, <3>1, DeEnvio DEF Predicciones
    <3>3. x[1] # k
      BY <1>2, <2>5, <2>11, <3>2 DEF Borrada
    <3>4. x[2] \in Tenedores(x[1]) => x[2] # e
      BY <1>2, <3>1 DEF Tenedores
    <3> QED BY <1>1, <2>4, <2>7, <3>1, <3>2, <3>3, <3>4 DEF Borrada, SoloDe
  <2>12. \A x \in registros' : lectura'[x[1]].pc = "respondido"
    BY <1>1, DeEnvio DEF Predicciones
  <2>13. Predicciones'
    BY <1>1, <2>8, <2>9, <2>10, <2>11, <2>12 DEF Predicciones
  <2>14. UnRegistroPorPrediccion'
    BY <1>1, <2>5, DeEnvio DEF UnRegistroPorPrediccion
  <2> QED BY <1>1, <2>3, <2>4, <2>6, <2>13, <2>14, EnviadosDespues DEF IInvComprobantes
<1> QED BY <1>3, <1>4 DEF BuscarPrediccion

LEMMA RegistrarInv ==
  ASSUME IInvComprobantes, NEW e \in Envios, Registrar(e)
  PROVE  IInvComprobantes'
<1> DEFINE k == envio[e].prediccion
           v == [envio[e] EXCEPT !.pc = "borrar"]
<1>1. envio[e].pc = "registrar" /\ UNCHANGED <<lectura, guardada, hechos, repetidas, escapadas>>
      /\ registros' \in {registros, registros \cup {<<k, e>>}}
  BY DEF Registrar
<1>2. k # SinPrediccion /\ k \in Lecturas /\ e \in Tenedores(k)
  BY <1>1, DeEnvio DEF ConPrediccion, Envio, Tenedores
<1>3. envio' = [envio EXCEPT ![e] = v]
  BY DeEnvio DEF Registrar, IrEnvio, TypeOKComprobantes
<1>4. v \in Envio /\ v.pc = "borrar" /\ v.imagen = envio[e].imagen /\ v.prediccion = k
  BY DeEnvio DEF Envio
<1> HIDE DEF v
<1>5. SoloDe(e) /\ envio'[e] = v
  BY <1>3, <1>4, CambioEnvio, DeEnvio
<1>6. registros' \subseteq Lecturas \X Envios
  BY <1>1, <1>2, DeEnvio
<1>7. TypeOKComprobantes'
  BY <1>1, <1>2, <1>4, <1>5, <1>6, DeEnvio, TiposEnvio DEF ConPrediccion
<1>8. \A j : Tenedores(j)' = Tenedores(j)
  BY <1>4, <1>5 DEF Tenedores, SoloDe
<1>9. DeImagen(k, envio[e].imagen)
  BY <1>2, DeEnvio DEF Predicciones
\* a prediction that has not escaped has no entry while somebody is about to write one
<1>10. ASSUME NEW x \in registros, x[1] = k PROVE k \in escapadas
  <2>1. ~Borrada(k)
    BY <1>2 DEF Borrada
  <2>2. k \in escapadas \/ (x[2] \in Tenedores(k) /\ envio[x[2]].pc = "borrar")
    BY <1>10, <2>1, DeEnvio DEF Predicciones
  <2>3. x[2] \in Tenedores(k) => k \in escapadas \/ x[2] = e
    BY <1>2, DeEnvio DEF Predicciones
  <2> QED BY <1>1, <2>2, <2>3
<1>11. ASSUME NEW x \in registros', x[1] \notin escapadas'
       PROVE  \/ x[2] \in Tenedores(x[1])' /\ envio'[x[2]].pc = "borrar"
              \/ Borrada(x[1])'
  <2>1. CASE x = <<k, e>>
    BY <1>2, <1>4, <1>5, <1>8, <2>1
  <2>2. CASE x \in registros
    <3>1. \/ x[2] \in Tenedores(x[1]) /\ envio[x[2]].pc = "borrar"
          \/ Borrada(x[1])
      BY <1>1, <1>11, <2>2, DeEnvio DEF Predicciones
    <3>2. x[2] \in Envios /\ (envio[x[2]].pc = "borrar" => x[2] # e)
      BY <1>1, <2>2, DeEnvio
    <3> QED BY <1>1, <1>5, <1>8, <3>1, <3>2 DEF Borrada, SoloDe
  <2> QED BY <1>1, <2>1, <2>2
<1>12. \A i \in Imagenes : guardada'[i] # SinPrediccion => DeImagen(guardada[i], i)'
  BY <1>1, DeEnvio DEF Predicciones, DeImagen
<1>13. \A d \in Envios :
         envio'[d].prediccion # SinPrediccion => DeImagen(envio[d].prediccion, envio[d].imagen)'
  BY <1>1, <1>4, <1>5, <1>9, DeEnvio DEF Predicciones, DeImagen, SoloDe
<1>14. \A x \in registros' : lectura'[x[1]].pc = "respondido"
  BY <1>1, <1>9, DeEnvio DEF Predicciones, DeImagen
<1>15. \A j \in Lecturas \ escapadas' : \A c, d \in Tenedores(j)' : c = d
  BY <1>1, <1>8, DeEnvio DEF Predicciones
<1>16. Predicciones'
  BY <1>11, <1>12, <1>13, <1>14, <1>15 DEF Predicciones
<1>17. UnRegistroPorPrediccion'
  <2>1. ASSUME NEW x \in registros', NEW y \in registros', x[1] = y[1], x # y
        PROVE  x[1] \in escapadas
    <3>1. CASE x \in registros /\ y \in registros
      BY <2>1, <3>1, DeEnvio DEF UnRegistroPorPrediccion
    <3>2. CASE x \in registros /\ y = <<k, e>>
      BY <1>10, <2>1, <3>2
    <3>3. CASE y \in registros /\ x = <<k, e>>
      BY <1>10, <2>1, <3>3
    <3> QED BY <1>1, <2>1, <3>1, <3>2, <3>3
  <2> QED BY <1>1, <2>1 DEF UnRegistroPorPrediccion
<1>18. Enviados'
  BY <1>1, <1>4, <1>5, EnviadosDespues
<1> QED BY <1>7, <1>16, <1>17, <1>18 DEF IInvComprobantes

\* the entry of the image goes, and with it the only place that had this prediction
LEMMA BorrarInv ==
  ASSUME IInvComprobantes, NEW e \in Envios, BorrarPrediccion(e)
  PROVE  IInvComprobantes'
<1> DEFINE k == envio[e].prediccion
           i == envio[e].imagen
           v == [envio[e] EXCEPT !.pc = "listas", !.prediccion = SinPrediccion]
<1>1. /\ envio[e].pc = "borrar" /\ UNCHANGED <<lectura, hechos, registros, repetidas>>
      /\ \/ guardada' = [guardada EXCEPT ![i] = SinPrediccion] /\ escapadas' = escapadas
         \/ guardada' = guardada /\ escapadas' = escapadas \cup {k}
  BY DEF BorrarPrediccion
<1>2. k \in Lecturas /\ i \in Imagenes /\ DeImagen(k, i)
  BY <1>1, DeEnvio DEF ConPrediccion, Envio, Predicciones
<1>3. envio' = [envio EXCEPT ![e] = v]
  BY DeEnvio DEF BorrarPrediccion, TypeOKComprobantes
<1>4. v \in Envio /\ v.pc = "listas" /\ v.imagen = i /\ v.prediccion = SinPrediccion
  BY DeEnvio DEF Envio
<1> HIDE DEF v
<1>5. SoloDe(e) /\ envio'[e] = v
  BY <1>3, <1>4, CambioEnvio, DeEnvio
<1>6. guardada' \in [Imagenes -> Lecturas \cup {SinPrediccion}]
      /\ \A j \in Imagenes : guardada'[j] \in {guardada[j], SinPrediccion}
  BY <1>1, DeEnvio
<1>7. escapadas \subseteq escapadas' /\ escapadas' \subseteq Lecturas
  BY <1>1, <1>2, DeEnvio
<1>8. TypeOKComprobantes'
  BY <1>1, <1>4, <1>5, <1>6, <1>7, DeEnvio, TiposEnvio DEF ConPrediccion
<1>9. k \notin escapadas' => \A j \in Imagenes : guardada'[j] # k
  <2>1. \A j \in Imagenes : guardada[j] = k => j = i
    BY <1>2, ComprobantesAssumption, DeEnvio DEF Predicciones, DeImagen
  <2> QED BY <1>1, <1>2, <2>1, ComprobantesAssumption, DeEnvio
<1>10. Predicciones' /\ UnRegistroPorPrediccion'
  BY <1>1, <1>4, <1>5, <1>6, <1>7, <1>9, DeEnvio, PrediccionesSuelta
<1>11. Enviados'
  BY <1>1, <1>4, <1>5, EnviadosDespues
<1> QED BY <1>8, <1>10, <1>11 DEF IInvComprobantes

LEMMA MorirEnvioInv ==
  ASSUME IInvComprobantes, NEW e \in Envios, MorirEnvio(e)
  PROVE  IInvComprobantes'
<1> DEFINE k == envio[e].prediccion
           v == [envio[e] EXCEPT !.pc = "caido", !.prediccion = SinPrediccion]
<1>1. /\ envio[e].pc \notin {"por_pedir"} \cup Finales
      /\ escapadas' = escapadas \cup ({k} \ {SinPrediccion})
      /\ UNCHANGED <<lectura, guardada, hechos, registros, repetidas>>
  BY DEF MorirEnvio, EnVuelo
<1>2. envio' = [envio EXCEPT ![e] = v]
  BY DeEnvio DEF MorirEnvio, TypeOKComprobantes
<1>3. v \in Envio /\ v.pc = "caido" /\ v.imagen = envio[e].imagen /\ v.prediccion = SinPrediccion
  BY DeEnvio DEF Envio
<1> HIDE DEF v
<1>4. SoloDe(e) /\ envio'[e] = v
  BY <1>2, <1>3, CambioEnvio, DeEnvio
<1>5. escapadas \subseteq escapadas' /\ escapadas' \subseteq Lecturas
      /\ (k # SinPrediccion => k \in escapadas')
  BY <1>1, DeEnvio DEF Envio
<1>6. TypeOKComprobantes'
  BY <1>1, <1>3, <1>4, <1>5, DeEnvio, TiposEnvio DEF ConPrediccion
<1>7. Predicciones' /\ UnRegistroPorPrediccion'
  BY <1>1, <1>3, <1>4, <1>5, DeEnvio, PrediccionesSuelta
<1>8. Paga(e) /\ "caido" \notin {"subir", "crear"} \cup Negativas
  BY <1>1 DEF Paga, Finales, Negativas
<1>9. Enviados'
  BY <1>1, <1>3, <1>4, <1>8, DeEnvio, EnviadosSigue
<1> QED BY <1>6, <1>7, <1>9 DEF IInvComprobantes

LEMMA PasoComprobantes ==
  IInvComprobantes /\ [NextComprobantes]_varsComprobantes => IInvComprobantes'
<1> SUFFICES ASSUME IInvComprobantes, [NextComprobantes]_varsComprobantes PROVE IInvComprobantes'
  OBVIOUS
<1>1. CASE UNCHANGED varsComprobantes
  <2>1. UNCHANGED <<lectura, envio, guardada, hechos, registros, repetidas, escapadas>>
    BY <1>1 DEF varsComprobantes
  <2> QED BY <2>1 DEF IInvComprobantes, TypeOKComprobantes, Enviados, Paga, Predicciones,
             DeImagen, Tenedores, Borrada, UnRegistroPorPrediccion
<1>2. CASE NextComprobantes
  BY <1>1, <1>2, LecturaInv, GuardarInv, ExpirarInv, EnviarInv, EnvioSigueInv, InsertarInv,
     BuscarInv, RegistrarInv, BorrarInv, MorirEnvioInv DEF NextComprobantes, Terminado
<1> QED BY <1>1, <1>2

LEMMA InductivoComprobantes == SpecComprobantes => []IInvComprobantes
BY InicioComprobantes, PasoComprobantes, PTL DEF SpecComprobantes

\* A submission holds a prediction exactly while it logs and deletes it.
THEOREM ComprobantesTipados == SpecComprobantes => []TypeOKComprobantes
<1>1. IInvComprobantes => TypeOKComprobantes
  BY DEF IInvComprobantes
<1> QED BY <1>1, InductivoComprobantes, PTL

\* However many vouchers, submissions and failures: two payments of one voucher come
\* of a submission repeated without a no, or of a database whose answer was lost.
THEOREM PagadoUnaVez == SpecComprobantes => []UnPagoPorComprobante
<1>1. ASSUME IInvComprobantes PROVE UnPagoPorComprobante
  <2>1. \A e \in hechos : e \in Envios /\ Paga(e)
    BY <1>1 DEF IInvComprobantes, TypeOKComprobantes, Paga
  <2> QED BY <1>1, <2>1 DEF IInvComprobantes, Enviados, UnPagoPorComprobante
<1>2. IInvComprobantes => UnPagoPorComprobante
  BY <1>1
<1> QED BY <1>2, InductivoComprobantes, PTL

\* However many recognitions and submissions: a prediction is logged with two
\* payments only when both held it, or when it outlived its deletion.
THEOREM RegistradaUnaVez == SpecComprobantes => []UnRegistroPorPrediccion
<1>1. IInvComprobantes => UnRegistroPorPrediccion
  BY DEF IInvComprobantes
<1> QED BY <1>1, InductivoComprobantes, PTL

(***************************************************************************)
(* The files of the buildings, for any number of requests and files.       *)
(***************************************************************************)
LEMMA InicioArchivos == ArchivosAssumption /\ InitArchivos => IInvArchivos
  BY DEF ArchivosAssumption, InitArchivos, IInvArchivos, TypeOKArchivos, Archivo, TiposArchivo,
         Usos, Tamanos, Peticion, PasosArchivo, Inactiva, ReferenciaEntera, EnCamino

\* What the type invariant and IInvArchivos say of the files.
LEMMA BasesArchivos ==
  ASSUME IInvArchivos
  PROVE  /\ archivos \in [Ficheros -> Archivo] /\ nombra \in [Usos -> Ficheros \cup {Ninguno}]
         /\ peticion \in [Peticiones -> Peticion]
         /\ \A r \in Peticiones : EnCamino(peticion[r]) /\ peticion[r] \in Peticion
         /\ \A r \in Peticiones : peticion[r].archivo # Ninguno => peticion[r].archivo \in Ficheros
  BY DEF IInvArchivos, TypeOKArchivos, Peticion

\* A step that changes a request alone.
LEMMA IrArchivoInv ==
  ASSUME ArchivosAssumption, IInvArchivos, NEW r \in Peticiones, NEW p \in Peticion, Ir(r, p),
         UNCHANGED <<archivos, nombra, nombre>>, EnCamino(p), p.pc # "noEncontrado",
         p.pc \in {"escribir", "fijar"} => p.tamano < LimiteArchivo
  PROVE  IInvArchivos'
  <1>0. peticion'[r] = p /\ \A q \in Peticiones \ {r} : peticion'[q] = peticion[q]
    BY BasesArchivos DEF Ir
  <1>1. TypeOKArchivos'
    <2>1. \A q \in Peticiones : peticion'[q].pc \in {"escribir", "fijar"} =>
            peticion'[q].archivo # Ninguno /\ peticion'[q].tamano < LimiteArchivo
      BY <1>0 DEF IInvArchivos, TypeOKArchivos, EnCamino
    <2> QED BY <2>1 DEF IInvArchivos, TypeOKArchivos, Ir
  <1>2. ReferenciaEntera' BY <1>0 DEF IInvArchivos, ReferenciaEntera
  <1>3. \A q \in Peticiones : EnCamino(peticion[q])' BY <1>0 DEF IInvArchivos, EnCamino
  <1> QED BY <1>1, <1>2, <1>3 DEF IInvArchivos

\* A step that begins or finishes a file, which nobody loses by it.
LEMMA ArchivoInv ==
  ASSUME ArchivosAssumption, IInvArchivos, NEW r \in Peticiones, NEW p \in Peticion, Ir(r, p),
         NEW f \in Ficheros, NEW a \in Archivo, archivos' = [archivos EXCEPT ![f] = a],
         UNCHANGED <<nombra, nombre>>, a.estado # "no",
         archivos[f].estado = "no" \/ (a.tipo = archivos[f].tipo /\ a.estado = "listo"),
         p.pc \in {"escribir", "fijar"}, p.archivo = f, p.archivo # Ninguno, p.tipo = a.tipo,
         p.tipo = TipoRuta[p.uso], p.pc = "fijar" => a.estado = "listo", p.tamano < LimiteArchivo
  PROVE  IInvArchivos'
  <1>0. /\ peticion'[r] = p /\ \A q \in Peticiones \ {r} : peticion'[q] = peticion[q]
        /\ \A g \in Ficheros : archivos'[g] = IF g = f THEN a ELSE archivos[g]
    BY BasesArchivos DEF Ir
  <1>1. TypeOKArchivos'
    <2>1. \A q \in Peticiones : peticion'[q].pc \in {"escribir", "fijar"} =>
            peticion'[q].archivo # Ninguno /\ peticion'[q].tamano < LimiteArchivo
      BY <1>0 DEF IInvArchivos, TypeOKArchivos
    <2> QED BY <2>1 DEF IInvArchivos, TypeOKArchivos, Ir
  <1>2. ReferenciaEntera'
    <2>1. \A u \in Usos : nombra[u] # Ninguno => nombra[u] \in Ficheros BY BasesArchivos
    <2>2. \A u \in Usos : nombra[u] # Ninguno =>
            archivos'[nombra[u]] = [estado |-> "listo", tipo |-> TipoRuta[u]]
      <3> SUFFICES ASSUME NEW u \in Usos, nombra[u] # Ninguno
                   PROVE  archivos'[nombra[u]] = [estado |-> "listo", tipo |-> TipoRuta[u]]
        OBVIOUS
      <3>1. archivos[nombra[u]] = [estado |-> "listo", tipo |-> TipoRuta[u]]
        BY DEF IInvArchivos, ReferenciaEntera
      <3>2. ASSUME nombra[u] = f PROVE a = [estado |-> "listo", tipo |-> TipoRuta[u]]
        <4>1. archivos[f].estado = "listo" /\ archivos[f].tipo = TipoRuta[u] BY <3>1, <3>2
        <4>2. a.estado = "listo" /\ a.tipo = TipoRuta[u] BY <4>1
        <4>3. a = [estado |-> a.estado, tipo |-> a.tipo] BY DEF Archivo
        <4> QED BY <4>2, <4>3
      <3> QED BY <1>0, <2>1, <3>1, <3>2
    <2> QED BY <1>0, <2>2 DEF IInvArchivos, ReferenciaEntera
  <1>3. ASSUME NEW q \in Peticiones PROVE EnCamino(peticion[q])'
    <2>1. CASE q = r BY <1>0, <2>1 DEF EnCamino
    <2>2. CASE q # r
      <3>1. /\ EnCamino(peticion[q]) /\ peticion'[q] = peticion[q]
            /\ peticion[q].archivo # Ninguno => peticion[q].archivo \in Ficheros
        BY <1>0, <2>2, BasesArchivos
      <3> QED BY <1>0, <3>1 DEF EnCamino
    <2> QED BY <2>1, <2>2
  <1> QED BY <1>1, <1>2, <1>3 DEF IInvArchivos

LEMMA RecibirInv ==
  ASSUME ArchivosAssumption, IInvArchivos,
         NEW r \in Peticiones, NEW uso \in Usos, NEW tamano \in Tamanos, NEW tipo \in TiposArchivo, Recibir(r, uso, tamano, tipo)
  PROVE  IInvArchivos'
  <1>1. PICK p : p = [Inactiva EXCEPT !.uso = uso, !.tamano = tamano, !.tipo = tipo,
                        !.pc = IF tamano < LimiteRuta[uso] /\ tipo = TipoRuta[uso]
                               THEN "subir" ELSE "rechazada"]
    OBVIOUS
  <1>2. /\ p \in Peticion /\ p.pc \in {"subir", "rechazada"}
        /\ p.pc = "subir" => p.tipo = TipoRuta[p.uso]
    BY <1>1 DEF Inactiva, Peticion, PasosArchivo, Usos, Tamanos, TiposArchivo
  <1> QED BY <1>1, <1>2, IrArchivoInv DEF Recibir, EnCamino

LEMMA SubirInv ==
  ASSUME ArchivosAssumption, IInvArchivos, NEW r \in Peticiones, NEW f \in Ficheros, Subir(r, f)
  PROVE  IInvArchivos'
  <1>0. /\ peticion[r] \in Peticion /\ peticion[r].pc = "subir"
        /\ peticion[r].tipo = TipoRuta[peticion[r].uso] /\ f # Ninguno
    BY BasesArchivos DEF Subir, EnCamino, ArchivosAssumption
  <1>1. CASE peticion[r].tamano >= LimiteArchivo
    <2>1. PICK p : p = [peticion[r] EXCEPT !.pc = "error"] OBVIOUS
    <2>2. p \in Peticion /\ p.pc = "error" BY <1>0, <2>1 DEF Peticion, PasosArchivo
    <2> QED BY <1>1, <2>1, <2>2, IrArchivoInv DEF Subir, A, EnCamino
  <1>2. CASE ~(peticion[r].tamano >= LimiteArchivo)
    <2>1. PICK p : p = [peticion[r] EXCEPT !.pc = "escribir", !.archivo = f] OBVIOUS
    <2>2. PICK a : a = [estado |-> "subiendo", tipo |-> peticion[r].tipo] OBVIOUS
    <2>0. peticion[r].tamano < LimiteArchivo BY <1>0, <1>2 DEF Peticion, Tamanos, LimiteArchivo
    <2>3. /\ p \in Peticion /\ p.pc = "escribir" /\ p.archivo = f /\ p.tipo = a.tipo
          /\ p.tipo = TipoRuta[p.uso] /\ p.tamano < LimiteArchivo
          /\ a \in Archivo /\ a.estado = "subiendo"
      BY <1>0, <2>0, <2>1, <2>2 DEF Peticion, PasosArchivo, Archivo
    <2>4. /\ archivos[f].estado = "no" /\ archivos' = [archivos EXCEPT ![f] = a] /\ Ir(r, p)
          /\ UNCHANGED <<nombra, nombre>>
      BY <1>2, <2>1, <2>2 DEF Subir
    <2> QED BY <1>0, <2>3, <2>4, ArchivoInv
  <1> QED BY <1>1, <1>2

LEMMA EscribirInv ==
  ASSUME ArchivosAssumption, IInvArchivos, NEW r \in Peticiones, EscribirArchivo(r)
  PROVE  IInvArchivos'
  <1>1. PICK f : f = peticion[r].archivo OBVIOUS
  <1>2. PICK p : p = [peticion[r] EXCEPT !.pc = "fijar"] OBVIOUS
  <1>3. PICK a : a = [archivos[f] EXCEPT !.estado = "listo"] OBVIOUS
  <1>4. /\ peticion[r] \in Peticion /\ peticion[r].pc = "escribir" /\ f \in Ficheros /\ f # Ninguno
        /\ archivos[f] \in Archivo /\ archivos[f].tipo = peticion[r].tipo
        /\ peticion[r].tipo = TipoRuta[peticion[r].uso] /\ peticion[r].tamano < LimiteArchivo
    BY <1>1, BasesArchivos DEF EscribirArchivo, EnCamino, IInvArchivos, TypeOKArchivos
  <1>5. /\ p \in Peticion /\ p.pc = "fijar" /\ p.archivo = f /\ p.tipo = a.tipo
        /\ p.tipo = TipoRuta[p.uso] /\ p.tamano < LimiteArchivo
        /\ a \in Archivo /\ a.estado = "listo" /\ a.tipo = archivos[f].tipo
    BY <1>1, <1>2, <1>3, <1>4 DEF Peticion, PasosArchivo, Archivo
  <1>6. archivos' = [archivos EXCEPT ![f] = a] /\ Ir(r, p) /\ UNCHANGED <<nombra, nombre>>
    BY <1>1, <1>2, <1>3 DEF EscribirArchivo, A
  <1> QED BY <1>4, <1>5, <1>6, ArchivoInv

\* The building is made to name a whole file of the right type, or none.
LEMMA NombrarInv ==
  ASSUME ArchivosAssumption, IInvArchivos, NEW r \in Peticiones, NEW p \in Peticion, Ir(r, p),
         UNCHANGED archivos, p.pc \in {"releer", "respondida"},
         NEW u \in Usos, NEW f \in Ficheros \cup {Ninguno}, nombra' = [nombra EXCEPT ![u] = f],
         nombre' = (IF u = "reglamento" THEN f ELSE nombre),
         f # Ninguno => archivos[f] = [estado |-> "listo", tipo |-> TipoRuta[u]]
  PROVE  IInvArchivos'
  <1>0. /\ peticion'[r] = p /\ \A q \in Peticiones \ {r} : peticion'[q] = peticion[q]
        /\ \A v \in Usos : nombra'[v] = IF v = u THEN f ELSE nombra[v]
    BY BasesArchivos DEF Ir
  <1>1. TypeOKArchivos'
    <2>1. \A q \in Peticiones : peticion'[q].pc \in {"escribir", "fijar"} =>
            peticion'[q].archivo # Ninguno /\ peticion'[q].tamano < LimiteArchivo
      BY <1>0 DEF IInvArchivos, TypeOKArchivos
    <2> QED BY <2>1 DEF IInvArchivos, TypeOKArchivos, Ir
  <1>2. ReferenciaEntera' BY <1>0 DEF IInvArchivos, ReferenciaEntera, Usos
  <1>3. \A q \in Peticiones : EnCamino(peticion[q])' BY <1>0 DEF IInvArchivos, EnCamino
  <1> QED BY <1>1, <1>2, <1>3 DEF IInvArchivos

LEMMA FijarInv ==
  ASSUME ArchivosAssumption, IInvArchivos, NEW r \in Peticiones, Fijar(r)
  PROVE  IInvArchivos'
  <1>1. PICK u : u = peticion[r].uso OBVIOUS
  <1>2. PICK f : f = peticion[r].archivo OBVIOUS
  <1>3. PICK p : p = [peticion[r] EXCEPT !.pc = IF u = "reglamento" THEN "releer" ELSE "respondida"]
    OBVIOUS
  <1>4. /\ peticion[r] \in Peticion /\ u \in Usos /\ f \in Ficheros
        /\ archivos[f] \in Archivo /\ archivos[f].tipo = TipoRuta[u] /\ archivos[f].estado = "listo"
    BY <1>1, <1>2, BasesArchivos DEF Fijar, EnCamino, Peticion
  <1>5. /\ p \in Peticion /\ p.pc \in {"releer", "respondida"}
        /\ archivos[f] = [estado |-> "listo", tipo |-> TipoRuta[u]]
    BY <1>3, <1>4 DEF Peticion, PasosArchivo, Archivo
  <1>6. /\ nombra' = [nombra EXCEPT ![u] = f] /\ Ir(r, p) /\ UNCHANGED archivos
        /\ nombre' = IF u = "reglamento" THEN f ELSE nombre
    BY <1>1, <1>2, <1>3 DEF Fijar, A
  <1> QED BY <1>4, <1>5, <1>6, NombrarInv

LEMMA EliminarInv ==
  ASSUME ArchivosAssumption, IInvArchivos, NEW r \in Peticiones, NEW uso \in Usos, Eliminar(r, uso)
  PROVE  IInvArchivos'
  <1>1. PICK p : p = [Inactiva EXCEPT !.pc = "respondida", !.uso = uso] OBVIOUS
  <1>2. p \in Peticion /\ p.pc = "respondida"
    BY <1>1 DEF Inactiva, Peticion, PasosArchivo, Usos, Tamanos, TiposArchivo
  <1> QED BY <1>1, <1>2, NombrarInv DEF Eliminar

LEMMA MostrarInv ==
  ASSUME ArchivosAssumption, IInvArchivos, NEW r \in Peticiones, NEW uso \in Usos, Mostrar(r, uso)
  PROVE  IInvArchivos'
  <1>1. PICK p : p = [Inactiva EXCEPT !.pc = "descargar", !.uso = uso, !.archivo = nombra[uso]]
    OBVIOUS
  <1>2. nombra[uso] \in Ficheros /\ nombra[uso] # Ninguno /\ archivos[nombra[uso]].estado = "listo"
    <2>1. /\ archivos[nombra[uso]] = [estado |-> "listo", tipo |-> TipoRuta[uso]]
          /\ nombra[uso] # Ninguno
      BY DEF Mostrar, IInvArchivos, ReferenciaEntera
    <2> QED BY <2>1, BasesArchivos
  <1>3. p \in Peticion /\ p.pc = "descargar" /\ p.archivo = nombra[uso]
    BY <1>1, <1>2 DEF Inactiva, Peticion, PasosArchivo, Usos, Tamanos, TiposArchivo
  <1> QED BY <1>1, <1>2, <1>3, IrArchivoInv DEF Mostrar, EnCamino

\* A request that goes on, ends, or is told what came of it, without a write.
LEMMA SeguirInv ==
  ASSUME ArchivosAssumption, IInvArchivos, NEW r \in Peticiones,
         Releer(r) \/ Descargar(r) \/ FallarArchivo(r) \/ Terminar(r)
  PROVE  IInvArchivos'
  <1>1. CASE Terminar(r)
    <2>1. Inactiva \in Peticion /\ Inactiva.pc = "inactiva"
      BY DEF Inactiva, Peticion, PasosArchivo, Usos, Tamanos, TiposArchivo
    <2> QED BY <1>1, <2>1, IrArchivoInv DEF Terminar, EnCamino
  <1>2. ASSUME NEW pc \in {"respondida", "descargada", "error"}, A(r, pc),
               UNCHANGED <<archivos, nombra, nombre>>
        PROVE  IInvArchivos'
    <2>1. PICK p : p = [peticion[r] EXCEPT !.pc = pc] OBVIOUS
    <2>2. p \in Peticion /\ p.pc = pc BY <2>1, BasesArchivos DEF Peticion, PasosArchivo
    <2> QED BY <1>2, <2>1, <2>2, IrArchivoInv DEF A, EnCamino
  <1>3. Descargar(r) => A(r, "descargada") BY BasesArchivos DEF Descargar, EnCamino
  <1> QED BY <1>1, <1>2, <1>3 DEF Releer, Descargar, FallarArchivo

LEMMA PasoArchivos ==
  ArchivosAssumption /\ IInvArchivos /\ [NextArchivos]_varsArchivos => IInvArchivos'
  <1> SUFFICES ASSUME ArchivosAssumption, IInvArchivos, [NextArchivos]_varsArchivos
               PROVE  IInvArchivos'
    OBVIOUS
  <1>1. CASE UNCHANGED varsArchivos
    BY <1>1 DEF varsArchivos, IInvArchivos, TypeOKArchivos, ReferenciaEntera, EnCamino
  <1>2. CASE NextArchivos
    <2>1. PICK r \in Peticiones :
            \/ Paso(r)
            \/ \E uso \in Usos : Eliminar(r, uso) \/ Mostrar(r, uso)
            \/ \E uso \in Usos, tamano \in Tamanos, tipo \in TiposArchivo :
                 Recibir(r, uso, tamano, tipo)
      BY <1>2 DEF NextArchivos
    <2>2. CASE Paso(r) BY <2>2, SubirInv, EscribirInv, FijarInv, SeguirInv DEF Paso
    <2> QED BY <2>1, <2>2, EliminarInv, MostrarInv, RecibirInv
  <1> QED BY <1>1, <1>2

\* The state is always one the program can hold.
THEOREM ArchivosTipados == ASSUME ArchivosAssumption PROVE SpecArchivos => []TypeOKArchivos
  <1>1. InitArchivos => IInvArchivos BY InicioArchivos
  <1>2. IInvArchivos /\ [NextArchivos]_varsArchivos => IInvArchivos' BY PasoArchivos
  <1>3. IInvArchivos => TypeOKArchivos BY DEF IInvArchivos
  <1> QED BY <1>1, <1>2, <1>3, PTL DEF SpecArchivos

\* Whatever uploads overlap or break off, a building names whole files of the
\* type of their route, and a download that was offered is not a 404.
THEOREM ArchivosEnteros == ASSUME ArchivosAssumption PROVE SpecArchivos => []ReferenciaEntera
  <1>1. InitArchivos => IInvArchivos BY InicioArchivos
  <1>2. IInvArchivos /\ [NextArchivos]_varsArchivos => IInvArchivos' BY PasoArchivos
  <1>3. IInvArchivos => ReferenciaEntera BY DEF IInvArchivos
  <1> QED BY <1>1, <1>2, <1>3, PTL DEF SpecArchivos
-----------------------------------------------------------------------------
(***************************************************************************)
(* The exchange rate, for any number of instances, calls and days.         *)
(***************************************************************************)
\* A set of days has a last one.
LEMMA HayMaximo ==
  ASSUME NEW n \in Nat, NEW S, S \subseteq 0 .. n, S # {}
  PROVE  Max(S) \in S /\ \A y \in S : Max(S) >= y
  <1> DEFINE T == {n - x : x \in S}
  <1>1. T \subseteq Nat
    <2> SUFFICES ASSUME NEW x \in S PROVE n - x \in Nat OBVIOUS
    <2>1. x \in 0 .. n OBVIOUS
    <2> QED BY <2>1
  <1>2. T # {}
    <2>1. PICK x : x \in S OBVIOUS
    <2> QED BY <2>1
  <1>3. PICK t \in T : \A u \in T : <<u, t>> \notin OpToRel(<, Nat)
    <2> HIDE DEF T
    <2> QED BY <1>1, <1>2, NatLessThanWellFounded, WFMin, Zenon
  <1>4. PICK x \in S : t = n - x OBVIOUS
  <1>5. \A y \in S : x >= y
    <2> TAKE y \in S
    <2>1. n - y \in Nat /\ n - x \in Nat /\ n - y \in T BY <1>1
    <2>2. ~(n - y < n - x) BY <1>3, <1>4, <2>1 DEF OpToRel
    <2>3. x \in Int /\ y \in Int OBVIOUS
    <2> QED BY <2>2, <2>3
  <1> QED BY <1>5 DEF Max

\* What an answer of DolarAPI says: of today, the last rate there is; of a day, its
\* own rate when there is one.
LEMMA ObtenidasJustas ==
  ASSUME TasaAssumption, TypeOKTasa, publicadas # {}, NEW k \in ClavesTasa, NEW tasa \in Obtenidas(k)
  PROVE  /\ tasa \in Dias
         /\ k[1] = "hoy" => \A d \in publicadas : tasa >= d
         /\ k[1] = "fecha" /\ k[2] \in publicadas => tasa = k[2]
  <1>1. CASE k[1] = "hoy"
    <2>1. tasa = Max(publicadas) BY <1>1 DEF Obtenidas
    <2> QED BY <1>1, <2>1, HayMaximo DEF TypeOKTasa, Dias, TasaAssumption
  <1>2. CASE k[1] # "hoy"
    <2> DEFINE H == Historicas(k[2])
    <2>1. tasa = Max(H) /\ H # {} BY <1>2 DEF Obtenidas
    <2>2. H \subseteq 0 .. MaxDia BY DEF Historicas, TypeOKTasa, Dias
    <2>3. tasa \in H /\ \A y \in H : tasa >= y
      <3> HIDE DEF H
      <3> QED BY <2>1, <2>2, HayMaximo DEF TasaAssumption
    <2>4. k[2] \in Int
      <3>1. k[2] \in Dias BY DEF ClavesTasa, Dias, TasaAssumption
      <3> QED BY <3>1 DEF Dias
    <2>5. k[2] \in publicadas => k[2] \in H BY <2>4 DEF Historicas, TasaAssumption
    <2>6. tasa \in Dias /\ tasa <= k[2] BY <2>3 DEF Historicas, TypeOKTasa
    <2> QED BY <1>2, <2>3, <2>4, <2>5, <2>6 DEF Dias
  <1> QED BY <1>1, <1>2

LEMMA InicialInv == TasaAssumption /\ InitTasa => IInvTasa
  <1> SUFFICES ASSUME TasaAssumption, InitTasa PROVE IInvTasa OBVIOUS
  <1> USE DEF InitTasa, TasaAssumption
  <1>1. TypeOKTasa BY DEF TypeOKTasa, Dias, Llamada, SinLlamada, PasosTasa
  <1>2. ConClave BY DEF ConClave, SinLlamada
  <1>3. TablaViva BY DEF TablaViva, Pide, SinLlamada
  <1>4. Enterada /\ ConCausa BY DEF Enterada, ConCausa, SinLlamada
  <1> QED BY <1>1, <1>2, <1>3, <1>4 DEF IInvTasa

(***************************************************************************)
(* The world.                                                              *)
(***************************************************************************)

LEMMA MundoInv == TasaAssumption /\ IInvTasa /\ Mundo => IInvTasa'
  <1> SUFFICES ASSUME TasaAssumption, IInvTasa, Mundo PROVE IInvTasa' OBVIOUS
  <1> USE DEF IInvTasa, TasaAssumption
  <1>1. CASE Amanecer
    <2>1. TypeOKTasa' BY <1>1 DEF Amanecer, TypeOKTasa, Dias
    <2> QED BY <1>1, <2>1
            DEF Amanecer, ConClave, TablaViva, Pide, Enterada, ConCausa, Justificada
  <1>2. ASSUME NEW d \in Dias, Publicar(d) PROVE IInvTasa'
    <2>1. TypeOKTasa' BY <1>2 DEF Publicar, TypeOKTasa
    <2> QED BY <1>2, <2>1
            DEF Publicar, ConClave, TablaViva, Pide, Enterada, ConCausa, Justificada
  <1>3. ASSUME NEW k \in ClavesTasa, ExpirarTasa(k) PROVE IInvTasa'
    <2>1. TypeOKTasa' BY <1>3 DEF ExpirarTasa, TypeOKTasa
    <2>2. ConCausa' BY <1>3 DEF ExpirarTasa, ConCausa, Justificada, TypeOKTasa
    <2> QED BY <1>3, <2>1, <2>2 DEF ExpirarTasa, ConClave, TablaViva, Pide, Enterada
  <1>4. ASSUME NEW i \in Servidores, Caer(i) PROVE IInvTasa'
    <2>0. \A c \in Llamadas : llamada'[c] = IF llamada[c].inst = i THEN SinLlamada ELSE llamada[c]
      BY <1>4 DEF Caer
    <2>1. TypeOKTasa'
      <3>1. SinLlamada \in Llamada BY DEF Llamada, SinLlamada, PasosTasa
      <3>2. llamada' \in [Llamadas -> Llamada] BY <1>4, <3>1 DEF Caer, TypeOKTasa
      <3>3. pendientes' \in [Servidores -> [ClavesTasa -> Llamadas \cup {Ninguna}]]
        BY <1>4 DEF Caer, TypeOKTasa
      <3> QED BY <1>4, <2>0, <3>2, <3>3 DEF Caer, TypeOKTasa, SinLlamada
    <2>2. ConClave' BY <2>0 DEF ConClave, SinLlamada
    <2>3. TablaViva'
      <3>1. \A j \in Servidores, k \in ClavesTasa :
              pendientes'[j][k] = IF j = i THEN Ninguna ELSE pendientes[j][k]
        BY <1>4 DEF Caer, TypeOKTasa
      <3>2. ASSUME NEW j \in Servidores, NEW k \in ClavesTasa, NEW c \in Llamadas, pendientes'[j][k] = c
            PROVE  Pide(c)' /\ llamada'[c].inst = j /\ llamada'[c].clave = k
        <4>1. j # i /\ pendientes[j][k] = c BY <3>1, <3>2
        <4>2. Pide(c) /\ llamada[c].inst = j /\ llamada[c].clave = k BY <4>1 DEF TablaViva
        <4>3. llamada'[c] = llamada[c] BY <2>0, <4>1, <4>2
        <4> QED BY <4>2, <4>3 DEF Pide
      <3>3. ASSUME NEW c \in Llamadas, llamada'[c].pc # "inactiva"
            PROVE  /\ llamada'[c] = llamada[c]
                   /\ pendientes'[llamada[c].inst][llamada[c].clave]
                        = pendientes[llamada[c].inst][llamada[c].clave]
        BY <2>0, <3>1, <3>3 DEF SinLlamada, ConClave
      <3>4. ASSUME NEW j \in Servidores, NEW k \in ClavesTasa, pendientes'[j][k] # Ninguna
            PROVE  pendientes'[j][k] \in Llamadas
        BY <3>1, <3>4 DEF TypeOKTasa
      <3>5. ASSUME NEW c \in Llamadas, Pide(c)' \/ llamada'[c].pc = "esperando"
            PROVE  pendientes'[llamada'[c].inst][llamada'[c].clave]
                     = IF Pide(c)' THEN c ELSE llamada'[c].promesa
        BY <3>3, <3>5 DEF TablaViva, Pide
      <3> QED BY <3>2, <3>4, <3>5 DEF TablaViva, Pide
    <2>4. Enterada'
      <3> SUFFICES ASSUME NEW c \in Llamadas
                   PROVE  /\ llamada'[c].conocidas \subseteq publicadas
                          /\ llamada'[c].pc = "esperando" =>
                               llamada'[c].conocidas \subseteq llamada'[llamada'[c].promesa].conocidas
        BY <1>4 DEF Enterada, Caer
      <3>1. llamada'[c].conocidas \subseteq publicadas BY <2>0 DEF Enterada, SinLlamada
      <3>2. ASSUME llamada'[c].pc = "esperando"
            PROVE  llamada'[llamada'[c].promesa] = llamada[llamada[c].promesa]
        <4>1. llamada'[c] = llamada[c] /\ llamada[c].inst # i BY <2>0, <3>2 DEF SinLlamada
        <4>2. llamada[llamada[c].promesa].inst = llamada[c].inst /\ llamada[c].promesa \in Llamadas
          BY <3>2, <4>1 DEF TablaViva, ConClave, TypeOKTasa, Pide
        <4> QED BY <2>0, <4>1, <4>2
      <3> QED BY <2>0, <3>1, <3>2 DEF Enterada, SinLlamada
    <2>5. ConCausa' BY <1>4, <2>0 DEF Caer, ConCausa, Justificada, SinLlamada
    <2> QED BY <1>4, <2>1, <2>2, <2>3, <2>4, <2>5 DEF Caer
  <1> QED BY <1>1, <1>2, <1>3, <1>4 DEF Mundo

(***************************************************************************)
(* A call before and after its request.                                    *)
(***************************************************************************)

\* What a step preserves that changes c alone, keeps it in the table if it is there,
\* and neither begins nor ends a wait.
LEMMA SoloUna ==
  ASSUME TasaAssumption, IInvTasa, NEW c \in Llamadas, NEW r \in Llamada, Poner(c, r),
         UNCHANGED <<hoy, publicadas, pendientes>>,
         llamada[c].pc # "esperando", r.pc # "esperando", r.promesa = Ninguna,
         r.pc # "inactiva" => r.clave \in ClavesTasa /\ r.inst \in Servidores,
         r.pc \in {"guardar", "soltar", "respondida"} => r.tasa # Ninguna,
         r.conocidas \subseteq publicadas,
         Pide(c) <=> r.pc \in {"pidiendo", "guardar", "soltar"},
         Pide(c) => /\ r.inst = llamada[c].inst /\ r.clave = llamada[c].clave
                    /\ r.conocidas = llamada[c].conocidas
  PROVE  /\ llamada' \in [Llamadas -> Llamada]
         /\ \A d \in Llamadas : llamada'[d].pc \in {"guardar", "soltar", "respondida"} =>
              llamada'[d].tasa # Ninguna
         /\ ConClave' /\ TablaViva' /\ Enterada' /\ publicadas' # {}
  <1> USE DEF IInvTasa
  <1>0. llamada \in [Llamadas -> Llamada] BY DEF TypeOKTasa
  <1>1. llamada'[c] = r /\ \A d \in Llamadas \ {c} : llamada'[d] = llamada[d]
    BY <1>0 DEF Poner
  <1>2. llamada' \in [Llamadas -> Llamada] BY <1>0 DEF Poner
  <1>3. \A d \in Llamadas : llamada'[d].pc \in {"guardar", "soltar", "respondida"} =>
          llamada'[d].tasa # Ninguna
    BY <1>1 DEF TypeOKTasa
  <1>4. ConClave' BY <1>1 DEF ConClave
  <1>5. TablaViva'
    <2>1. \A d \in Llamadas : /\ Pide(d)' <=> Pide(d)
                              /\ Pide(d) => /\ llamada'[d].inst = llamada[d].inst
                                            /\ llamada'[d].clave = llamada[d].clave
      BY <1>1 DEF Pide
    <2>2. \A d \in Llamadas : llamada'[d].pc = "esperando" => llamada'[d] = llamada[d]
      BY <1>1
    <2>3. \A i \in Servidores, k \in ClavesTasa : pendientes[i][k] \in Llamadas \cup {Ninguna}
      BY DEF TypeOKTasa
    <2> QED BY <2>1, <2>2, <2>3 DEF TablaViva
  <1>6. Enterada'
    <2>1. \A d \in Llamadas : llamada[d].pc = "esperando" =>
            llamada[d].promesa \in Llamadas /\ Pide(llamada[d].promesa)
      BY DEF TablaViva, ConClave, TypeOKTasa
    <2> QED BY <1>1, <2>1 DEF Enterada
  <1> QED BY <1>2, <1>3, <1>4, <1>5, <1>6

LEMMA LlamarInv ==
  ASSUME TasaAssumption, IInvTasa, NEW c \in Llamadas, NEW i \in Servidores, NEW k \in ClavesTasa,
         Llamar(c, i, k)
  PROVE  IInvTasa'
  <1> DEFINE r == [SinLlamada EXCEPT !.pc = "leer", !.inst = i, !.clave = k, !.conocidas = publicadas]
  <1>1. /\ r \in Llamada /\ r.pc = "leer" /\ r.promesa = Ninguna /\ r.clave = k /\ r.inst = i
        /\ r.conocidas = publicadas
    BY DEF SinLlamada, Llamada, PasosTasa, IInvTasa, TypeOKTasa
  <1>2. Poner(c, r) /\ UNCHANGED <<hoy, publicadas, pendientes, cacheTasa, provisionales>>
        /\ llamada[c].pc = "inactiva"
    BY DEF Llamar
  <1> HIDE DEF r
  <1>3. /\ llamada' \in [Llamadas -> Llamada]
        /\ \A d \in Llamadas : llamada'[d].pc \in {"guardar", "soltar", "respondida"} =>
             llamada'[d].tasa # Ninguna
        /\ ConClave' /\ TablaViva' /\ Enterada' /\ publicadas' # {}
    BY <1>1, <1>2, SoloUna DEF Pide
  <1>4. ConCausa' BY <1>1, <1>2 DEF Poner, ConCausa, Justificada, IInvTasa, TypeOKTasa
  <1> QED BY <1>2, <1>3, <1>4 DEF IInvTasa, TypeOKTasa

\* The same of a step of c that changes where it is and nothing else of it.
LEMMA Avanzar ==
  ASSUME TasaAssumption, IInvTasa, NEW c \in Llamadas, NEW pc \in PasosTasa, Pasar(c, pc),
         UNCHANGED <<hoy, publicadas, pendientes>>,
         llamada[c].pc \notin {"inactiva", "esperando"}, pc \notin {"inactiva", "esperando"},
         pc \in {"guardar", "soltar", "respondida"} => llamada[c].tasa # Ninguna,
         Pide(c) <=> pc \in {"pidiendo", "guardar", "soltar"}
  PROVE  /\ llamada' \in [Llamadas -> Llamada]
         /\ \A d \in Llamadas : llamada'[d].pc \in {"guardar", "soltar", "respondida"} =>
              llamada'[d].tasa # Ninguna
         /\ ConClave' /\ TablaViva' /\ Enterada' /\ publicadas' # {}
         /\ llamada'[c] = [llamada[c] EXCEPT !.pc = pc]
         /\ \A d \in Llamadas \ {c} : llamada'[d] = llamada[d]
  <1> DEFINE r == [llamada[c] EXCEPT !.pc = pc]
  <1>0. /\ llamada[c] \in Llamada /\ llamada[c].promesa = Ninguna
        /\ llamada[c].clave \in ClavesTasa /\ llamada[c].inst \in Servidores
        /\ llamada[c].conocidas \subseteq publicadas
    BY DEF IInvTasa, TypeOKTasa, ConClave, Enterada
  <1>1. /\ r \in Llamada /\ r.pc = pc /\ r.promesa = Ninguna /\ r.clave = llamada[c].clave
        /\ r.inst = llamada[c].inst /\ r.conocidas = llamada[c].conocidas
        /\ r.tasa = llamada[c].tasa /\ Poner(c, r)
    BY <1>0 DEF Llamada, Pasar
  <1>2. llamada'[c] = r /\ \A d \in Llamadas \ {c} : llamada'[d] = llamada[d]
    BY <1>1 DEF Poner, IInvTasa, TypeOKTasa
  <1> HIDE DEF r
  <1>3. /\ llamada' \in [Llamadas -> Llamada]
        /\ \A d \in Llamadas : llamada'[d].pc \in {"guardar", "soltar", "respondida"} =>
             llamada'[d].tasa # Ninguna
        /\ ConClave' /\ TablaViva' /\ Enterada' /\ publicadas' # {}
    BY <1>0, <1>1, SoloUna
  <1> QED BY <1>2, <1>3 DEF r

LEMMA LeerCacheInv ==
  ASSUME TasaAssumption, IInvTasa, NEW c \in Llamadas, LeerTasa(c)
  PROVE  IInvTasa'
  <1> DEFINE tasa == cacheTasa[llamada[c].clave]
  <1>0. /\ llamada[c] \in Llamada /\ llamada[c].pc = "leer" /\ llamada[c].promesa = Ninguna
        /\ llamada[c].clave \in ClavesTasa /\ llamada[c].inst \in Servidores
        /\ llamada[c].conocidas \subseteq publicadas /\ tasa \in Dias \cup {Ninguna}
        /\ UNCHANGED <<hoy, publicadas, cacheTasa, pendientes, provisionales>>
    BY DEF LeerTasa, IInvTasa, TypeOKTasa, ConClave, Enterada
  <1>1. ASSUME NEW pc \in {"borrar", "mirar"}, Pasar(c, pc) PROVE IInvTasa'
    <2>1. pc \in PasosTasa BY DEF PasosTasa
    <2>2. /\ llamada' \in [Llamadas -> Llamada]
          /\ \A d \in Llamadas : llamada'[d].pc \in {"guardar", "soltar", "respondida"} =>
               llamada'[d].tasa # Ninguna
          /\ ConClave' /\ TablaViva' /\ Enterada' /\ publicadas' # {}
          /\ llamada'[c] = [llamada[c] EXCEPT !.pc = pc]
          /\ \A d \in Llamadas \ {c} : llamada'[d] = llamada[d]
      BY <1>0, <1>1, <2>1, Avanzar DEF Pide
    <2>3. llamada'[c].pc = pc BY <1>0, <2>2 DEF Llamada
    <2>4. ConCausa' BY <1>0, <2>2, <2>3 DEF ConCausa, Justificada, IInvTasa
    <2> QED BY <1>0, <2>2, <2>4 DEF IInvTasa, TypeOKTasa
  <1>2. ASSUME tasa # Ninguna, Vale(llamada[c].clave, tasa),
               Poner(c, [llamada[c] EXCEPT !.pc = "respondida", !.tasa = tasa])
        PROVE  IInvTasa'
    <2> DEFINE r == [llamada[c] EXCEPT !.pc = "respondida", !.tasa = tasa]
    <2>1. /\ r \in Llamada /\ r.pc = "respondida" /\ r.tasa = tasa /\ r.promesa = Ninguna
          /\ r.clave = llamada[c].clave /\ r.inst = llamada[c].inst
          /\ r.conocidas = llamada[c].conocidas /\ Poner(c, r)
      BY <1>0, <1>2 DEF Llamada, PasosTasa
    <2> HIDE DEF r
    <2>2. /\ llamada' \in [Llamadas -> Llamada]
          /\ \A d \in Llamadas : llamada'[d].pc \in {"guardar", "soltar", "respondida"} =>
               llamada'[d].tasa # Ninguna
          /\ ConClave' /\ TablaViva' /\ Enterada' /\ publicadas' # {}
      BY <1>0, <1>2, <2>1, SoloUna DEF Pide
    <2>3. Justificada(llamada[c].clave, tasa, llamada[c].conocidas)
      <3>1. llamada[c].clave[1] \in {"hoy", "fecha"} BY <1>0 DEF ClavesTasa
      <3> QED BY <1>0, <1>2, <3>1 DEF Vale, ConCausa, Justificada, IInvTasa
    <2>4. ConCausa' BY <1>0, <2>1, <2>3 DEF Poner, ConCausa, Justificada, IInvTasa, TypeOKTasa
    <2> QED BY <1>0, <2>2, <2>4 DEF IInvTasa, TypeOKTasa
  <1> QED BY <1>1, <1>2 DEF LeerTasa

LEMMA BorrarTasaInv ==
  ASSUME TasaAssumption, IInvTasa, NEW c \in Llamadas, BorrarVieja(c)
  PROVE  IInvTasa'
  <1>0. /\ llamada[c] \in Llamada /\ llamada[c].pc = "borrar" /\ Pasar(c, "mirar")
        /\ UNCHANGED <<hoy, publicadas, pendientes, provisionales>> /\ "mirar" \in PasosTasa
    BY DEF BorrarVieja, IInvTasa, TypeOKTasa, PasosTasa
  <1>1. /\ llamada' \in [Llamadas -> Llamada]
        /\ \A d \in Llamadas : llamada'[d].pc \in {"guardar", "soltar", "respondida"} =>
             llamada'[d].tasa # Ninguna
        /\ ConClave' /\ TablaViva' /\ Enterada' /\ publicadas' # {}
        /\ llamada'[c] = [llamada[c] EXCEPT !.pc = "mirar"]
        /\ \A d \in Llamadas \ {c} : llamada'[d] = llamada[d]
    BY <1>0, Avanzar DEF Pide
  <1>2. /\ cacheTasa' \in [ClavesTasa -> Dias \cup {Ninguna}]
        /\ \A k \in ClavesTasa : cacheTasa'[k] \in {cacheTasa[k], Ninguna}
    BY DEF BorrarVieja, IInvTasa, TypeOKTasa
  <1>3. llamada'[c].pc = "mirar" BY <1>0, <1>1 DEF Llamada
  <1>4. ConCausa' BY <1>0, <1>1, <1>2, <1>3 DEF ConCausa, Justificada, IInvTasa
  <1> QED BY <1>0, <1>1, <1>2, <1>4 DEF IInvTasa, TypeOKTasa

LEMMA GuardarTasaInv ==
  ASSUME TasaAssumption, IInvTasa, NEW c \in Llamadas, Guardar(c)
  PROVE  IInvTasa'
  <1> DEFINE k == llamada[c].clave
  <1>0. /\ llamada[c] \in Llamada /\ llamada[c].pc = "guardar" /\ Pasar(c, "soltar")
        /\ UNCHANGED <<hoy, publicadas, pendientes, provisionales>> /\ "soltar" \in PasosTasa
        /\ llamada[c].tasa # Ninguna /\ llamada[c].tasa \in Dias /\ k \in ClavesTasa
        /\ Justificada(k, llamada[c].tasa, llamada[c].conocidas)
    BY DEF Guardar, IInvTasa, TypeOKTasa, PasosTasa, ConClave, ConCausa, Llamada
  <1>1. /\ llamada' \in [Llamadas -> Llamada]
        /\ \A d \in Llamadas : llamada'[d].pc \in {"guardar", "soltar", "respondida"} =>
             llamada'[d].tasa # Ninguna
        /\ ConClave' /\ TablaViva' /\ Enterada' /\ publicadas' # {}
        /\ llamada'[c] = [llamada[c] EXCEPT !.pc = "soltar"]
        /\ \A d \in Llamadas \ {c} : llamada'[d] = llamada[d]
    BY <1>0, Avanzar DEF Pide
  <1>2. /\ cacheTasa' \in [ClavesTasa -> Dias \cup {Ninguna}]
        /\ \A l \in ClavesTasa : cacheTasa'[l] = cacheTasa[l] \/ (l = k /\ cacheTasa'[l] = llamada[c].tasa)
    BY <1>0 DEF Guardar, IInvTasa, TypeOKTasa
  <1>3. /\ llamada'[c].clave = k /\ llamada'[c].tasa = llamada[c].tasa
        /\ llamada'[c].conocidas = llamada[c].conocidas
    BY <1>0, <1>1 DEF Llamada
  <1>4. ConCausa'
    <2> HIDE DEF k
    <2>1. ASSUME NEW l \in ClavesTasa, cacheTasa'[l] # Ninguna, l[1] = "fecha"
          PROVE  Justificada(l, cacheTasa[l], {})'
      <3>1. CASE cacheTasa'[l] = cacheTasa[l] BY <1>0, <2>1, <3>1 DEF ConCausa, Justificada, IInvTasa
      <3>2. CASE l = k /\ cacheTasa'[l] = llamada[c].tasa BY <1>0, <2>1, <3>2 DEF Justificada
      <3> QED BY <1>2, <2>1, <3>1, <3>2
    <2>2. ASSUME NEW d \in Llamadas, llamada'[d].pc \in {"guardar", "soltar", "respondida"}
          PROVE  Justificada(llamada[d].clave, llamada[d].tasa, llamada[d].conocidas)'
      BY <1>0, <1>1, <1>3, <2>2 DEF ConCausa, Justificada, IInvTasa
    <2> QED BY <2>1, <2>2 DEF ConCausa, Justificada
  <1> QED BY <1>0, <1>1, <1>2, <1>4 DEF IInvTasa, TypeOKTasa

LEMMA OlvidarInv ==
  ASSUME TasaAssumption, IInvTasa, NEW c \in Llamadas, Olvidar(c)
  PROVE  IInvTasa'
  <1>0. /\ Poner(c, SinLlamada) /\ UNCHANGED <<hoy, publicadas, cacheTasa, pendientes, provisionales>>
        /\ llamada[c].pc = "respondida" /\ llamada \in [Llamadas -> Llamada]
    BY DEF Olvidar, IInvTasa, TypeOKTasa
  <1>1. /\ SinLlamada \in Llamada /\ SinLlamada.pc = "inactiva" /\ SinLlamada.promesa = Ninguna
        /\ SinLlamada.conocidas = {}
    BY DEF SinLlamada, Llamada, PasosTasa
  <1>2. /\ llamada' \in [Llamadas -> Llamada]
        /\ \A d \in Llamadas : llamada'[d].pc \in {"guardar", "soltar", "respondida"} =>
             llamada'[d].tasa # Ninguna
        /\ ConClave' /\ TablaViva' /\ Enterada' /\ publicadas' # {}
    BY <1>0, <1>1, SoloUna DEF Pide
  <1>3. ConCausa' BY <1>0, <1>1 DEF Poner, ConCausa, Justificada, IInvTasa
  <1> QED BY <1>0, <1>2, <1>3 DEF IInvTasa, TypeOKTasa

LEMMA RecibirTasaInv ==
  ASSUME TasaAssumption, IInvTasa, NEW c \in Llamadas, NEW tasa \in Dias, RecibirTasa(c, tasa)
  PROVE  IInvTasa'
  <1> DEFINE k == llamada[c].clave
             r == [llamada[c] EXCEPT !.pc = "guardar", !.tasa = tasa]
  <1>0. /\ llamada[c] \in Llamada /\ llamada[c].pc = "pidiendo" /\ Poner(c, r)
        /\ UNCHANGED <<hoy, publicadas, cacheTasa, pendientes>> /\ tasa \in Obtenidas(k)
        /\ k \in ClavesTasa /\ llamada[c].inst \in Servidores /\ llamada[c].promesa = Ninguna
        /\ llamada[c].conocidas \subseteq publicadas /\ llamada \in [Llamadas -> Llamada]
    BY DEF RecibirTasa, IInvTasa, TypeOKTasa, ConClave, Enterada
  <1>1. /\ r \in Llamada /\ r.pc = "guardar" /\ r.tasa = tasa /\ r.tasa # Ninguna /\ r.promesa = Ninguna
        /\ r.clave = k /\ r.inst = llamada[c].inst /\ r.conocidas = llamada[c].conocidas
    <2>1. tasa # Ninguna BY DEF Dias, TasaAssumption
    <2>2. r \in Llamada BY <1>0 DEF Llamada, PasosTasa
    <2> QED BY <1>0, <2>1, <2>2 DEF Llamada
  <1> HIDE DEF r
  <1>2. /\ llamada' \in [Llamadas -> Llamada]
        /\ \A d \in Llamadas : llamada'[d].pc \in {"guardar", "soltar", "respondida"} =>
             llamada'[d].tasa # Ninguna
        /\ ConClave' /\ TablaViva' /\ Enterada' /\ publicadas' # {}
    BY <1>0, <1>1, SoloUna DEF Pide
  <1>3. /\ provisionales \subseteq provisionales' /\ provisionales' \subseteq Dias
        /\ k[1] = "fecha" /\ k[2] \notin publicadas => k[2] \in provisionales'
    <2>1. k[1] = "fecha" => k[2] \in Dias BY <1>0 DEF ClavesTasa, TasaAssumption, Dias
    <2> QED BY <2>1 DEF RecibirTasa, IInvTasa, TypeOKTasa
  <1>4. \/ tasa = k[2]
        \/ k[1] = "hoy" /\ \A d \in llamada[c].conocidas : tasa >= d
        \/ k[1] = "fecha" /\ k[2] \in provisionales'
    <2>1. k[1] \in {"hoy", "fecha"} BY <1>0 DEF ClavesTasa
    <2>2. /\ k[1] = "hoy" => \A d \in publicadas : tasa >= d
          /\ k[1] = "fecha" /\ k[2] \in publicadas => tasa = k[2]
      BY <1>0, ObtenidasJustas DEF IInvTasa
    <2> QED BY <1>0, <1>3, <2>1, <2>2
  <1>5. ConCausa' BY <1>0, <1>1, <1>3, <1>4 DEF Poner, ConCausa, Justificada, IInvTasa
  <1> QED BY <1>0, <1>2, <1>3, <1>5 DEF IInvTasa, TypeOKTasa

LEMMA MirarInv ==
  ASSUME TasaAssumption, IInvTasa, NEW c \in Llamadas, Mirar(c)
  PROVE  IInvTasa'
  <1> DEFINE i == llamada[c].inst
             k == llamada[c].clave
             d == pendientes[i][k]
  <1>0. /\ llamada[c] \in Llamada /\ llamada[c].pc = "mirar" /\ llamada[c].promesa = Ninguna
        /\ k \in ClavesTasa /\ i \in Servidores /\ llamada \in [Llamadas -> Llamada]
        /\ llamada[c].conocidas \subseteq publicadas
        /\ UNCHANGED <<hoy, publicadas, cacheTasa, provisionales>>
        /\ pendientes \in [Servidores -> [ClavesTasa -> Llamadas \cup {Ninguna}]]
    BY DEF Mirar, IInvTasa, TypeOKTasa, ConClave, Enterada
  <1>1. CASE d # Ninguna
    <2>1. d \in Llamadas /\ Pide(d) /\ llamada[d].inst = i /\ llamada[d].clave = k /\ d # c
      BY <1>0, <1>1 DEF IInvTasa, TablaViva, Pide
    <2> DEFINE r == [llamada[c] EXCEPT !.pc = "esperando", !.promesa = d,
                                       !.conocidas = llamada[c].conocidas \cap llamada[d].conocidas]
    <2>2. r \in Llamada BY <1>0, <2>1 DEF Llamada, PasosTasa
    <2>3. /\ r.pc = "esperando" /\ r.promesa = d /\ r.clave = k /\ r.inst = i
          /\ r.conocidas = llamada[c].conocidas \cap llamada[d].conocidas
      BY <1>0 DEF Llamada
    <2>4. llamada' = [llamada EXCEPT ![c] = r] /\ pendientes' = pendientes
      BY <1>0, <1>1 DEF Mirar, Poner, Llamada
    <2> HIDE DEF r, d, i, k
    <2>5. llamada'[c] = r /\ \A e \in Llamadas \ {c} : llamada'[e] = llamada[e]
      BY <1>0, <2>4
    <2>6. \A e \in Llamadas : llamada[e].pc = "esperando" =>
            llamada[e].promesa \in Llamadas \ {c}
      BY <1>0 DEF IInvTasa, TablaViva, ConClave, TypeOKTasa, Pide
    <2>7. TypeOKTasa' BY <1>0, <2>2, <2>3, <2>4, <2>5 DEF IInvTasa, TypeOKTasa
    <2>8. ConClave' BY <1>0, <2>1, <2>3, <2>5, TasaAssumption DEF IInvTasa, ConClave, TasaAssumption
    <2>9. TablaViva'
      <3>1. \A e \in Llamadas : Pide(e)' <=> Pide(e) /\ e # c
        BY <1>0, <2>3, <2>5 DEF Pide
      <3>2. d = pendientes[i][k] BY DEF d
      <3> QED BY <1>0, <2>1, <2>3, <2>4, <2>5, <3>1, <3>2 DEF IInvTasa, TablaViva, Pide
    <2>10. Enterada' BY <1>0, <2>1, <2>3, <2>5, <2>6 DEF IInvTasa, Enterada
    <2>11. ConCausa' BY <1>0, <2>3, <2>5 DEF IInvTasa, ConCausa, Justificada
    <2> QED BY <1>0, <2>7, <2>8, <2>9, <2>10, <2>11 DEF IInvTasa
  <1>2. CASE d = Ninguna
    <2> DEFINE r == [llamada[c] EXCEPT !.pc = "pidiendo"]
    <2>1. r \in Llamada BY <1>0 DEF Llamada, PasosTasa
    <2>2. /\ r.pc = "pidiendo" /\ r.promesa = Ninguna /\ r.clave = k /\ r.inst = i
          /\ r.conocidas = llamada[c].conocidas
      BY <1>0 DEF Llamada
    <2>3. llamada' = [llamada EXCEPT ![c] = r] /\ pendientes' = [pendientes EXCEPT ![i][k] = c]
      BY <1>0, <1>2 DEF Mirar, Pasar, Poner
    <2>4. pendientes[i][k] = Ninguna BY <1>2
    <2> HIDE DEF r, d, i, k
    <2>5. llamada'[c] = r /\ \A e \in Llamadas \ {c} : llamada'[e] = llamada[e]
      BY <1>0, <2>3
    <2>6. /\ pendientes' \in [Servidores -> [ClavesTasa -> Llamadas \cup {Ninguna}]]
          /\ \A j \in Servidores, l \in ClavesTasa :
               pendientes'[j][l] = IF j = i /\ l = k THEN c ELSE pendientes[j][l]
      BY <1>0, <2>3
    <2>7. \A e \in Llamadas : llamada[e].pc = "esperando" =>
            llamada[e].promesa \in Llamadas \ {c} /\ llamada[e].promesa # Ninguna
      BY <1>0 DEF IInvTasa, TablaViva, ConClave, TypeOKTasa, Pide
    <2>8. TypeOKTasa' BY <1>0, <2>1, <2>2, <2>3, <2>5, <2>6 DEF IInvTasa, TypeOKTasa
    <2>9. ConClave' BY <1>0, <2>2, <2>5 DEF IInvTasa, ConClave
    <2>10. TablaViva'
      <3>1. \A e \in Llamadas : Pide(e)' <=> Pide(e) \/ e = c
        BY <1>0, <2>2, <2>5 DEF Pide
      <3>2. \A e \in Llamadas : Pide(e) => ~(llamada[e].inst = i /\ llamada[e].clave = k)
        BY <2>4, TasaAssumption DEF IInvTasa, TablaViva, TasaAssumption
      <3>3. \A e \in Llamadas : llamada[e].pc = "esperando" =>
              ~(llamada[e].inst = i /\ llamada[e].clave = k)
        BY <2>4, <2>7 DEF IInvTasa, TablaViva
      <3>4. \A e \in Llamadas : Pide(e) \/ llamada[e].pc = "esperando" =>
              llamada[e].inst \in Servidores /\ llamada[e].clave \in ClavesTasa
        BY DEF IInvTasa, ConClave, Pide
      <3>5. ASSUME NEW j \in Servidores, NEW l \in ClavesTasa, NEW e \in Llamadas, pendientes'[j][l] = e
            PROVE  Pide(e)' /\ llamada'[e].inst = j /\ llamada'[e].clave = l
        <4>1. CASE j = i /\ l = k BY <2>2, <2>5, <2>6, <3>1, <3>5, <4>1
        <4>2. CASE ~(j = i /\ l = k)
          <5>1. pendientes[j][l] = e BY <2>6, <3>5, <4>2
          <5>2. Pide(e) /\ llamada[e].inst = j /\ llamada[e].clave = l
            BY <5>1, TasaAssumption DEF IInvTasa, TablaViva, TasaAssumption
          <5>3. llamada'[e].inst = j /\ llamada'[e].clave = l
            BY <1>0, <2>5, <5>2 DEF Pide
          <5> QED BY <3>1, <5>2, <5>3
        <4> QED BY <4>1, <4>2
      <3>6. \A j \in Servidores, l \in ClavesTasa : pendientes'[j][l] \in Llamadas \cup {Ninguna}
        BY <2>6
      <3>7. \A e \in Llamadas : Pide(e)' => pendientes'[llamada'[e].inst][llamada'[e].clave] = e
        BY <1>0, <2>2, <2>5, <2>6, <3>1, <3>2, <3>4 DEF IInvTasa, TablaViva
      <3>8. \A e \in Llamadas : llamada'[e].pc = "esperando" =>
              pendientes'[llamada'[e].inst][llamada'[e].clave] = llamada'[e].promesa
        BY <1>0, <2>2, <2>5, <2>6, <3>3, <3>4 DEF IInvTasa, TablaViva
      <3> QED BY <3>5, <3>6, <3>7, <3>8 DEF TablaViva
    <2>11. Enterada' BY <1>0, <2>2, <2>5, <2>7 DEF IInvTasa, Enterada
    <2>12. ConCausa' BY <1>0, <2>2, <2>5 DEF IInvTasa, ConCausa, Justificada
    <2> QED BY <1>0, <2>8, <2>9, <2>10, <2>11, <2>12 DEF IInvTasa
  <1> QED BY <1>1, <1>2

(***************************************************************************)
(* The end of a request, for the call that made it and for those that      *)
(* wait.                                                                   *)
(***************************************************************************)

LEMMA CumplirInv ==
  ASSUME TasaAssumption, IInvTasa, NEW c \in Llamadas, Pide(c), NEW pc \in {"inactiva", "respondida"},
         pc = "respondida" => llamada[c].pc = "soltar",
         Cumplir(c, pc), pendientes' = SinPendiente(c),
         UNCHANGED <<hoy, publicadas, cacheTasa, provisionales>>
  PROVE  IInvTasa'
  <1> DEFINE i == llamada[c].inst
             k == llamada[c].clave
             r(d) == IF pc = "inactiva" THEN SinLlamada
                     ELSE [llamada[d] EXCEPT !.pc = pc, !.tasa = llamada[c].tasa, !.promesa = Ninguna]
             Suya(d) == d = c \/ llamada[d].promesa = c
  <1>0. /\ llamada \in [Llamadas -> Llamada] /\ i \in Servidores /\ k \in ClavesTasa
        /\ pendientes \in [Servidores -> [ClavesTasa -> Llamadas \cup {Ninguna}]]
        /\ pendientes[i][k] = c /\ llamada[c].promesa = Ninguna /\ c # Ninguna
    BY DEF IInvTasa, TypeOKTasa, ConClave, TablaViva, Pide, TasaAssumption
  <1>1. \A d \in Llamadas : llamada'[d] = IF Suya(d) THEN r(d) ELSE llamada[d]
    BY DEF Cumplir
  <1>2. /\ pendientes' \in [Servidores -> [ClavesTasa -> Llamadas \cup {Ninguna}]]
        /\ \A j \in Servidores, l \in ClavesTasa :
             pendientes'[j][l] = IF j = i /\ l = k THEN Ninguna ELSE pendientes[j][l]
    BY <1>0 DEF SinPendiente
  <1>3. \A d \in Llamadas : Suya(d) =>
          /\ llamada[d].inst = i /\ llamada[d].clave = k
          /\ llamada[d].conocidas \subseteq llamada[c].conocidas
          /\ llamada[d].conocidas \subseteq publicadas
    <2> SUFFICES ASSUME NEW d \in Llamadas, llamada[d].promesa = c
                 PROVE  /\ llamada[d].inst = i /\ llamada[d].clave = k
                        /\ llamada[d].conocidas \subseteq llamada[c].conocidas
      BY DEF IInvTasa, Enterada
    <2>1. llamada[d].pc = "esperando" BY <1>0 DEF IInvTasa, ConClave
    <2>2. /\ llamada[d].inst \in Servidores /\ llamada[d].clave \in ClavesTasa
          /\ pendientes[llamada[d].inst][llamada[d].clave] = c
      BY <2>1 DEF IInvTasa, ConClave, TablaViva
    <2>3. llamada[d].inst = i /\ llamada[d].clave = k BY <1>0, <2>2 DEF IInvTasa, TablaViva
    <2> QED BY <2>1, <2>3 DEF IInvTasa, Enterada
  <1>4. \A d \in Llamadas : Pide(d) /\ d # c => ~Suya(d) /\ ~(llamada[d].inst = i /\ llamada[d].clave = k)
    BY <1>0 DEF IInvTasa, TablaViva, ConClave, Pide
  <1>5. \A d \in Llamadas : llamada[d].pc = "esperando" /\ ~Suya(d) =>
          ~(llamada[d].inst = i /\ llamada[d].clave = k)
    BY <1>0 DEF IInvTasa, TablaViva
  <1>6. \A d \in Llamadas : llamada[d].pc = "esperando" /\ ~Suya(d) =>
          /\ llamada[d].promesa \in Llamadas /\ Pide(llamada[d].promesa)
          /\ llamada[d].promesa # c
    BY DEF IInvTasa, TablaViva, ConClave, TypeOKTasa, Pide
  <1>7. ASSUME NEW d \in Llamadas, Suya(d)
        PROVE  /\ r(d) \in Llamada /\ r(d).pc = pc /\ r(d).promesa = Ninguna
               /\ r(d).conocidas \subseteq publicadas
               /\ pc = "respondida" =>
                    /\ r(d).clave = k /\ r(d).inst = i /\ r(d).tasa = llamada[c].tasa
                    /\ r(d).conocidas \subseteq llamada[c].conocidas
                    /\ r(d).tasa # Ninguna
    <2>1. CASE pc = "inactiva"
      BY <2>1 DEF SinLlamada, Llamada, PasosTasa
    <2>2. CASE pc = "respondida"
      <3>1. llamada[d] \in Llamada /\ llamada[c] \in Llamada BY <1>0
      <3>2. llamada[c].tasa \in Dias /\ llamada[c].tasa # Ninguna
        BY <2>2, <3>1 DEF IInvTasa, TypeOKTasa, Llamada
      <3>3. r(d) = [llamada[d] EXCEPT !.pc = pc, !.tasa = llamada[c].tasa, !.promesa = Ninguna]
        BY <2>2
      <3>4. r(d) \in Llamada BY <2>2, <3>1, <3>2, <3>3 DEF Llamada, PasosTasa
      <3>5. /\ r(d).pc = pc /\ r(d).promesa = Ninguna /\ r(d).clave = llamada[d].clave
            /\ r(d).inst = llamada[d].inst /\ r(d).tasa = llamada[c].tasa
            /\ r(d).conocidas = llamada[d].conocidas
        BY <3>1, <3>3 DEF Llamada
      <3> HIDE DEF r, i, k
      <3> QED BY <1>3, <1>7, <3>2, <3>4, <3>5
    <2> QED BY <2>1, <2>2
  <1>8. pc = "respondida" => Justificada(k, llamada[c].tasa, llamada[c].conocidas)
    BY DEF IInvTasa, ConCausa
  <1> HIDE DEF r, i, k, Suya
  <1>9. llamada' \in [Llamadas -> Llamada]
    <2>1. llamada' = [d \in Llamadas |-> llamada'[d]] BY DEF Cumplir
    <2>2. \A d \in Llamadas : llamada'[d] \in Llamada BY <1>0, <1>1, <1>7
    <2> QED BY <2>1, <2>2
  <1>10. TypeOKTasa' BY <1>1, <1>2, <1>7, <1>9 DEF IInvTasa, TypeOKTasa
  <1>11. ConClave' BY <1>0, <1>1, <1>7 DEF IInvTasa, ConClave
  <1>12. TablaViva'
    <2>1. \A d \in Llamadas : Pide(d)' <=> Pide(d) /\ d # c
      BY <1>1, <1>4, <1>7 DEF Pide, Suya
    <2>2. \A d \in Llamadas : Pide(d) /\ d # c => llamada'[d] = llamada[d]
      BY <1>1, <1>4
    <2>3. ASSUME NEW j \in Servidores, NEW l \in ClavesTasa, NEW d \in Llamadas, pendientes'[j][l] = d
          PROVE  Pide(d)' /\ llamada'[d].inst = j /\ llamada'[d].clave = l
      <3>1. pendientes[j][l] = d /\ d # Ninguna /\ ~(j = i /\ l = k)
        BY <1>2, <2>3, TasaAssumption DEF TasaAssumption
      <3>2. Pide(d) /\ llamada[d].inst = j /\ llamada[d].clave = l BY <3>1 DEF IInvTasa, TablaViva
      <3>3. d # c BY <3>1, <3>2 DEF i, k
      <3> QED BY <2>1, <2>2, <3>2, <3>3
    <2>4. \A j \in Servidores, l \in ClavesTasa : pendientes'[j][l] \in Llamadas \cup {Ninguna}
      BY <1>2
    <2>5. ASSUME NEW d \in Llamadas, Pide(d)'
          PROVE  pendientes'[llamada'[d].inst][llamada'[d].clave] = d
      <3>1. Pide(d) /\ d # c /\ llamada'[d] = llamada[d] BY <2>1, <2>2, <2>5
      <3>2. llamada[d].inst \in Servidores /\ llamada[d].clave \in ClavesTasa
        BY <3>1 DEF IInvTasa, ConClave, Pide
      <3> QED BY <1>2, <1>4, <3>1, <3>2 DEF IInvTasa, TablaViva
    <2>6. ASSUME NEW d \in Llamadas, llamada'[d].pc = "esperando"
          PROVE  pendientes'[llamada'[d].inst][llamada'[d].clave] = llamada'[d].promesa
      <3>1. ~Suya(d) /\ llamada'[d] = llamada[d] BY <1>1, <1>7, <2>6
      <3>2. llamada[d].inst \in Servidores /\ llamada[d].clave \in ClavesTasa
        BY <2>6, <3>1 DEF IInvTasa, ConClave
      <3> QED BY <1>2, <1>5, <2>6, <3>1, <3>2 DEF IInvTasa, TablaViva
    <2> QED BY <2>3, <2>4, <2>5, <2>6 DEF TablaViva
  <1>13. Enterada'
    <2> SUFFICES ASSUME NEW d \in Llamadas
                 PROVE  /\ llamada'[d].conocidas \subseteq publicadas
                        /\ llamada'[d].pc = "esperando" =>
                             llamada'[d].conocidas \subseteq llamada'[llamada'[d].promesa].conocidas
      BY DEF Enterada
    <2>1. llamada'[d].conocidas \subseteq publicadas BY <1>1, <1>7 DEF IInvTasa, Enterada
    <2>2. ASSUME llamada'[d].pc = "esperando"
          PROVE  llamada'[d].conocidas \subseteq llamada'[llamada'[d].promesa].conocidas
      <3>1. ~Suya(d) /\ llamada'[d] = llamada[d] BY <1>1, <1>7, <2>2
      <3>2. llamada'[llamada[d].promesa] = llamada[llamada[d].promesa]
        BY <1>1, <1>4, <1>6, <2>2, <3>1
      <3> QED BY <2>2, <3>1, <3>2 DEF IInvTasa, Enterada
    <2> QED BY <2>1, <2>2
  <1>14. ConCausa'
    <2>1. ASSUME NEW d \in Llamadas, llamada'[d].pc \in {"guardar", "soltar", "respondida"}
          PROVE  Justificada(llamada[d].clave, llamada[d].tasa, llamada[d].conocidas)'
      <3>1. CASE Suya(d) BY <1>1, <1>7, <1>8, <2>1, <3>1 DEF Justificada
      <3>2. CASE ~Suya(d) BY <1>1, <2>1, <3>2 DEF IInvTasa, ConCausa, Justificada
      <3> QED BY <3>1, <3>2
    <2> QED BY <2>1 DEF IInvTasa, ConCausa, Justificada
  <1> QED BY <1>10, <1>11, <1>12, <1>13, <1>14 DEF IInvTasa

LEMMA PasoInv ==
  ASSUME TasaAssumption, IInvTasa, NEW c \in Llamadas, PasoLlamada(c)
  PROVE  IInvTasa'
  <1>1. CASE Soltar(c) BY <1>1, CumplirInv DEF Soltar, Pide
  <1>2. CASE RechazarPeticion(c) BY <1>2, CumplirInv DEF RechazarPeticion, Pide
  <1> QED BY <1>1, <1>2, LeerCacheInv, BorrarTasaInv, MirarInv, RecibirTasaInv, GuardarTasaInv DEF PasoLlamada

\* The invariant is inductive.
THEOREM Invariante == ASSUME TasaAssumption PROVE SpecTasa => []IInvTasa
  <1>1. InitTasa => IInvTasa BY InicialInv
  <1>2. IInvTasa /\ [NextTasa]_varsTasa => IInvTasa'
    <2> SUFFICES ASSUME IInvTasa, [NextTasa]_varsTasa PROVE IInvTasa' OBVIOUS
    <2>1. CASE UNCHANGED varsTasa
      BY <2>1 DEF varsTasa, IInvTasa, TypeOKTasa, ConClave, TablaViva, Pide, Enterada, ConCausa, Justificada
    <2>2. CASE NextTasa
      <3>1. CASE Mundo BY <3>1, MundoInv
      <3>2. ASSUME NEW c \in Llamadas,
                   PasoLlamada(c) \/ Olvidar(c) \/ \E i \in Servidores, k \in ClavesTasa : Llamar(c, i, k)
            PROVE  IInvTasa'
        BY <3>2, PasoInv, OlvidarInv, LlamarInv
      <3> QED BY <2>2, <3>1, <3>2 DEF NextTasa
    <2> QED BY <2>1, <2>2
  <1> QED BY <1>1, <1>2, PTL DEF SpecTasa

\* Days, cache, table and calls keep their types; a call about to answer has a rate.
THEOREM TasasTipadas == ASSUME TasaAssumption PROVE SpecTasa => []TypeOKTasa
  <1>1. IInvTasa => TypeOKTasa BY DEF IInvTasa
  <1> QED BY Invariante, <1>1, PTL

\* The table of pending requests names those in progress and nothing else, whatever
\* fails, and nobody waits for one that is over.
THEOREM TablaSiempreViva == ASSUME TasaAssumption PROVE SpecTasa => []TablaViva
  <1>1. IInvTasa => TablaViva BY DEF IInvTasa
  <1> QED BY Invariante, <1>1, PTL

\* One request of an instance for a key at a time.
THEOREM PeticionCompartida == ASSUME TasaAssumption PROVE SpecTasa => []UnaPeticion
  <1>1. IInvTasa => UnaPeticion
    <2> SUFFICES ASSUME IInvTasa, NEW c \in Llamadas, NEW d \in Llamadas, Pide(c), Pide(d),
                        llamada[c].inst = llamada[d].inst, llamada[c].clave = llamada[d].clave
                 PROVE  c = d
      BY DEF UnaPeticion
    <2> QED BY DEF IInvTasa, TablaViva
  <1> QED BY Invariante, <1>1, PTL

\* An answer is the rate of its day, or the last one there was, or of a day that was
\* asked for too early.
THEOREM RespuestaConCausa == ASSUME TasaAssumption PROVE SpecTasa => []TasaConCausa
  <1>1. IInvTasa => TasaConCausa BY DEF IInvTasa, ConCausa, Justificada, TasaConCausa
  <1> QED BY Invariante, <1>1, PTL
-----------------------------------------------------------------------------
(***************************************************************************)
(* The six of them side by side, as they are model-checked.                *)
(***************************************************************************)
LEMMA PartesPaso ==
  ASSUME [NextPartes]_todas
  PROVE  /\ [NextPropietarios]_varsPropietarios /\ [NextTasa]_varsTasa
         /\ [NextAvisos]_varsAvisos /\ [NextArchivos]_varsArchivos
         /\ [NextComprobantes]_varsComprobantes /\ [Next]_vars
<1>1. CASE NextPartes
  BY <1>1 DEF NextPartes
<1>2. CASE UNCHANGED todas
  BY <1>2 DEF todas
<1> QED BY <1>1, <1>2

\* A behaviour of the six side by side is one of each: what is proved of a part
\* holds where the parts are checked together.
THEOREM CadaParte ==
  SpecPartes => /\ SpecPropietarios /\ SpecTasa /\ SpecAvisos /\ SpecArchivos
                /\ SpecComprobantes /\ Spec
<1>1. InitPartes => /\ InitPropietarios /\ InitTasa /\ InitAvisos /\ InitArchivos
                    /\ InitComprobantes /\ Init
  BY DEF InitPartes
<1>2. [NextPartes]_todas =>
        /\ [NextPropietarios]_varsPropietarios /\ [NextTasa]_varsTasa
        /\ [NextAvisos]_varsAvisos /\ [NextArchivos]_varsArchivos
        /\ [NextComprobantes]_varsComprobantes /\ [Next]_vars
  BY PartesPaso
<1> QED BY <1>1, <1>2, PTL
        DEF SpecPartes, SpecPropietarios, SpecTasa, SpecAvisos, SpecArchivos, SpecComprobantes, Spec
=============================================================================
