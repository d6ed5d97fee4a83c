------------------------ MODULE AdministracionProofs ------------------------
(***************************************************************************)
(* What the platform looks after.  The subscription of a building, for any *)
(* number of requests and any days; the creation of buildings and of their *)
(* accounts, for any number of processes, buildings, accounts, floors and  *)
(* apartments.                                                             *)
(***************************************************************************)
EXTENDS MCAdministracion, Sumas

(***************************************************************************)
(* The subscription of a building.                                         *)
(***************************************************************************)
(***************************************************************************)
(* What the renewals on record add up to.  Tramo(h) is the function of the *)
(* fold over the history h, on the sets of its entries.                    *)
(***************************************************************************)
Tramo(h) ==
  CHOOSE it : it = [s \in SUBSET (DOMAIN h) |->
                      IF s = {} THEN DiasPrueba ELSE Alargar(it[s \ {Max(s)}], h[Max(s)])]

LEMMA HastaEsTramo == \A h : HastaSegun(h) = Tramo(h)[DOMAIN h]
  BY Zenon DEF HastaSegun, FoldLeft, MapThenFoldSet, Tramo

LEMMA ElMayor ==
  ASSUME NEW n \in Nat, NEW s \in SUBSET (1 .. n), s # {}
  PROVE  Max(s) \in s /\ \A y \in s : Max(s) >= y
  <1> DEFINE T == {n - x : x \in s}
  <1>0. \A x \in s : x \in Int /\ x <= n /\ n - x \in Nat OBVIOUS
  <1>1. T \in SUBSET Nat /\ T # {} BY <1>0
  <1>2. PICK m \in T : \A y \in T : m <= y
    <2> HIDE DEF T
    <2> QED BY <1>1, Minimo
  <1>3. PICK x \in s : m = n - x OBVIOUS
  <1>4. ASSUME NEW y \in s PROVE x >= y
    <2>1. n - x <= n - y BY <1>2, <1>3
    <2> HIDE DEF T
    <2> QED BY <1>0, <2>1
  <1> QED BY <1>3, <1>4 DEF Max

LEMMA AlargarTipo ==
  ASSUME NEW hasta \in Nat, NEW r \in Renovacion
  PROVE  Alargar(hasta, r) \in Nat
  BY DEF Alargar, Renovacion

LEMMA TramoRecorre ==
  ASSUME NEW h \in Seq(Renovacion)
  PROVE  \A s \in SUBSET (DOMAIN h) :
           Tramo(h)[s] = IF s = {} THEN DiasPrueba ELSE Alargar(Tramo(h)[s \ {Max(s)}], h[Max(s)])
  <1> DEFINE S == DOMAIN h
             elige == [s \in SUBSET S |-> Max(s)]
             paso == [p \in (SUBSET S) \X Nat |->
                        IF p[1] = {} THEN 0 ELSE Alargar(p[2], h[Max(p[1])])]
             Cuerpo(it, s) == IF s = {} THEN DiasPrueba
                              ELSE Alargar(it[s \ {Max(s)}], h[Max(s)])
             Es(it) == it = [s \in SUBSET S |-> Cuerpo(it, s)]
  <1>0. /\ Len(h) \in Nat /\ S = 1 .. Len(h) /\ IsFiniteSet(S)
        /\ \A i \in S : h[i] \in Renovacion
    BY FS_Interval
  <1> HIDE DEF S
  <1>1. \A s \in SUBSET S : s # {} => Max(s) \in s /\ elige[s] = Max(s)
    BY <1>0, ElMayor
  <1>2. ASSUME NEW s \in SUBSET S, NEW v \in Nat
        PROVE  /\ paso[<<s, v>>] = IF s = {} THEN 0 ELSE Alargar(v, h[Max(s)])
               /\ paso[<<s, v>>] \in Nat
    <2>1. <<s, v>> \in (SUBSET S) \X Nat OBVIOUS
    <2>2. paso[<<s, v>>] = IF s = {} THEN 0 ELSE Alargar(v, h[Max(s)]) BY <2>1
    <2>3. s # {} => Alargar(v, h[Max(s)]) \in Nat BY <1>0, <1>1, AlargarTipo
    <2> HIDE DEF paso
    <2> QED BY <2>2, <2>3
  <1>3. PICK it \in [SUBSET S -> Nat] : Recorre(it, S, DiasPrueba, elige, paso)
    <2>1. Elige(elige, S) BY <1>1 DEF Elige
    <2>2. Pasa(paso, S, Nat)
      <3> HIDE DEF paso
      <3> QED BY <1>2 DEF Pasa
    <2>3. DiasPrueba \in Nat BY DiasAssumption
    <2> HIDE DEF elige, paso
    <2> QED BY <1>0, <2>1, <2>2, <2>3, Recorrido, Zenon
  <1>4. Es(it)
    <2>1. \A s \in SUBSET S : it[s] = Cuerpo(it, s)
      <3>1. \A s \in SUBSET S : s # {} => s \ {elige[s]} \in SUBSET S OBVIOUS
      <3> HIDE DEF elige, paso
      <3> QED BY <1>1, <1>2, <1>3, <3>1 DEF Recorre
    <2> HIDE DEF Cuerpo
    <2> QED BY <2>1
  <1>5. Es(Tramo(h))
    <2>1. \E f : f = [s \in SUBSET S |-> IF s = {} THEN DiasPrueba
                                         ELSE Alargar(f[s \ {Max(s)}], h[Max(s)])]
      BY <1>4
    <2> QED BY <2>1 DEF Tramo, S
  <1>6. \A s \in SUBSET S : Tramo(h)[s] = Cuerpo(Tramo(h), s)
    <2> HIDE DEF Cuerpo
    <2> QED BY <1>5
  <1> QED BY <1>6 DEF S

\* the fold over some entries of a history does not depend on the others
LEMMA TramoLocal ==
  ASSUME NEW g \in Seq(Renovacion), NEW h \in Seq(Renovacion), DOMAIN g \subseteq DOMAIN h,
         \A i \in DOMAIN g : h[i] = g[i]
  PROVE  Tramo(h)[DOMAIN g] = Tramo(g)[DOMAIN g]
  <1> DEFINE S == DOMAIN g
             M == {s \in SUBSET S : Tramo(h)[s] = Tramo(g)[s]}
  <1>1. Len(g) \in Nat /\ S = 1 .. Len(g) /\ IsFiniteSet(S) BY FS_Interval
  <1>2. ASSUME NEW T \in SUBSET S, \A U \in SUBSET T : U # T => U \in M PROVE T \in M
    <2>1. /\ Tramo(g)[T] = IF T = {} THEN DiasPrueba ELSE Alargar(Tramo(g)[T \ {Max(T)}], g[Max(T)])
          /\ Tramo(h)[T] = IF T = {} THEN DiasPrueba ELSE Alargar(Tramo(h)[T \ {Max(T)}], h[Max(T)])
      BY TramoRecorre
    <2>2. T # {} => Max(T) \in T BY <1>1, ElMayor
    <2>3. T # {} => /\ Tramo(h)[T \ {Max(T)}] = Tramo(g)[T \ {Max(T)}]
                    /\ h[Max(T)] = g[Max(T)]
      BY <1>2, <2>2
    <2>4. Tramo(h)[T] = Tramo(g)[T] BY <2>1, <2>3
    <2> QED BY <2>4
  <1> HIDE DEF M
  <1>3. \A T \in SUBSET S : T \in M BY <1>1, <1>2, PorSubconjuntos
  <1> QED BY <1>3 DEF M

\* one more renewal adds its days to what the earlier ones add up to
LEMMA HastaSegunMas ==
  ASSUME NEW h \in Seq(Renovacion), NEW r \in Renovacion
  PROVE  HastaSegun(Append(h, r)) = Alargar(HastaSegun(h), r)
  <1> DEFINE mas == Append(h, r)
             n == Len(h) + 1
  <1>1. /\ mas \in Seq(Renovacion) /\ n \in Nat /\ DOMAIN h = 1 .. Len(h) /\ DOMAIN mas = 1 .. n
        /\ mas[n] = r /\ Len(h) \in Nat
        /\ \A i \in DOMAIN h : mas[i] = h[i]
    OBVIOUS
  <1>2. /\ DOMAIN h \subseteq DOMAIN mas /\ n \in DOMAIN mas /\ DOMAIN mas \ {n} = DOMAIN h
    BY <1>1
  <1> HIDE DEF mas
  <1>3. Max(DOMAIN mas) = n
    <2>1. Max(1 .. n) \in 1 .. n /\ \A y \in 1 .. n : Max(1 .. n) >= y
      BY <1>1, <1>2, ElMayor
    <2> QED BY <1>1, <1>2, <2>1
  <1>4. Tramo(mas)[DOMAIN mas] = Alargar(Tramo(mas)[DOMAIN h], r)
    <2>1. DOMAIN mas # {} /\ DOMAIN mas \in SUBSET (DOMAIN mas) BY <1>2
    <2>2. Tramo(mas)[DOMAIN mas] = Alargar(Tramo(mas)[DOMAIN mas \ {Max(DOMAIN mas)}], mas[Max(DOMAIN mas)])
      BY <1>1, <2>1, TramoRecorre, Zenon
    <2> QED BY <1>1, <1>2, <1>3, <2>2, Zenon
  <1>5. Tramo(mas)[DOMAIN h] = Tramo(h)[DOMAIN h] BY <1>1, <1>2, TramoLocal
  <1> QED BY <1>4, <1>5, HastaEsTramo DEF mas

LEMMA HastaSegunVacio == HastaSegun(<<>>) = DiasPrueba
  <1>1. <<>> \in Seq(Renovacion) /\ DOMAIN <<>> = {} OBVIOUS
  <1>2. Tramo(<<>>)[{}] = DiasPrueba BY <1>1, TramoRecorre
  <1> QED BY <1>1, <1>2, HastaEsTramo

LEMMA InicioSuscripcion == InitSuscripcion => IInvSuscripcion
  <1> SUFFICES ASSUME InitSuscripcion PROVE IInvSuscripcion OBVIOUS
  <1> USE DiasAssumption DEF InitSuscripcion
  <1>1. TypeOKSuscripcion BY DEF TypeOKSuscripcion, Building, Estados, Peticion, PasosSuscripcion, SinPeticion, Renovacion
  <1>2. ActivoSegunEstado /\ VencidoConRazon /\ HistorialExplica
    BY HastaSegunVacio DEF ActivoSegunEstado, VencidoConRazon, HistorialExplica
  <1>3. \A s \in Peticiones : LecturaVigente(s) BY DEF LecturaVigente, SinPeticion
  <1> QED BY <1>1, <1>2, <1>3 DEF IInvSuscripcion

LEMMA TipoPaso == TypeOKSuscripcion /\ [NextSuscripcion]_varsSuscripcion => TypeOKSuscripcion'
  <1> SUFFICES ASSUME TypeOKSuscripcion, [NextSuscripcion]_varsSuscripcion PROVE TypeOKSuscripcion' OBVIOUS
  <1> USE DiasAssumption DEF TypeOKSuscripcion
  <1>0. SinPeticion \in Peticion BY DEF SinPeticion, Peticion, PasosSuscripcion, Estados
  <1>1. CASE Amanecer BY <1>1 DEF Amanecer
  <1>2. CASE Suspender BY <1>2 DEF Suspender, Building, Estados
  <1>3. ASSUME NEW s \in Peticiones, PasoPeticion(s) PROVE TypeOKSuscripcion'
    <2>0. peticion[s] \in Peticion OBVIOUS
    <2>1. CASE LeerEdificio(s)
      <3>1. edificio.estado \in Estados /\ edificio.hasta \in Nat BY DEF Building
      <3>2. [SinPeticion EXCEPT !.pc = "guardia", !.estado = edificio.estado,
                             !.hasta = edificio.hasta] \in Peticion
        BY <1>0, <3>1 DEF Peticion, PasosSuscripcion
      <3> QED BY <2>1, <3>2 DEF LeerEdificio, IrPeticion
    <2>2. CASE Evaluar(s)
      <3>1. [peticion[s] EXCEPT !.pc = "marcar"] \in Peticion BY <2>0 DEF Peticion, PasosSuscripcion
      <3> QED BY <1>0, <2>2, <3>1 DEF Evaluar, IrPeticion
    <2>3. CASE MarcarVencido(s)
      BY <1>0, <2>3 DEF MarcarVencido, IrPeticion, Building, Estados, Causas
    <2>4. ASSUME NEW dias \in Dias, LeerRenovacion(s, dias) PROVE TypeOKSuscripcion'
      <3>1. edificio.hasta \in Nat BY DEF Building
      <3>2. [SinPeticion EXCEPT !.pc = "calcular", !.hasta = edificio.hasta, !.dias = dias] \in Peticion
        BY <1>0, <3>1 DEF Peticion, PasosSuscripcion
      <3> QED BY <2>4, <3>2 DEF LeerRenovacion, IrPeticion
    <2>5. CASE Calcular(s)
      <3> DEFINE h == (IF peticion[s].hasta > hoy THEN peticion[s].hasta ELSE hoy) + peticion[s].dias
      <3>1. h \in Nat /\ hoy \in Nat BY <2>0 DEF Peticion
      <3>2. peticion' = [peticion EXCEPT ![s] =
                           [peticion[s] EXCEPT !.pc = "escribir", !.fecha = hoy, !.hasta = h]]
        BY <2>0, <2>5 DEF Calcular, IrPeticion, Peticion
      <3> HIDE DEF h
      <3>3. [peticion[s] EXCEPT !.pc = "escribir", !.fecha = hoy, !.hasta = h] \in Peticion
        BY <2>0, <3>1 DEF Peticion, PasosSuscripcion
      <3> QED BY <2>5, <3>2, <3>3 DEF Calcular
    <2>6. CASE Renovar(s)
      <3>1. [fecha |-> peticion[s].fecha, dias |-> peticion[s].dias] \in Renovacion
        BY <2>0 DEF Peticion, Renovacion
      <3>2. Append(edificio.historial, [fecha |-> peticion[s].fecha, dias |-> peticion[s].dias])
              \in Seq(Renovacion)
        BY <3>1 DEF Building
      <3>3. edificio' \in Building
        BY <2>0, <2>6, <3>2 DEF Renovar, Building, Peticion, Estados
      <3>4. \A t \in Peticiones : [peticion[t] EXCEPT !.superada = TRUE] \in Peticion
        BY DEF Peticion
      <3>5. peticion' \in [Peticiones -> Peticion]
        BY <1>0, <2>6, <3>4 DEF Renovar
      <3> QED BY <2>6, <3>3, <3>5 DEF Renovar, Causas
    <2>7. CASE Fallar(s) BY <1>0, <2>7 DEF Fallar, IrPeticion
    <2> QED BY <1>3, <2>1, <2>2, <2>3, <2>4, <2>5, <2>6, <2>7 DEF PasoPeticion
  <1>4. CASE UNCHANGED varsSuscripcion BY <1>4 DEF varsSuscripcion
  <1> QED BY <1>1, <1>2, <1>3, <1>4 DEF NextSuscripcion

LEMMA ActivoPaso == TypeOKSuscripcion /\ ActivoSegunEstado /\ [NextSuscripcion]_varsSuscripcion => ActivoSegunEstado'
  <1> SUFFICES ASSUME TypeOKSuscripcion, ActivoSegunEstado, [NextSuscripcion]_varsSuscripcion PROVE ActivoSegunEstado' OBVIOUS
  <1> USE DEF ActivoSegunEstado, TypeOKSuscripcion, Building
  <1>1. CASE Suspender BY <1>1 DEF Suspender
  <1>2. CASE UNCHANGED edificio BY <1>2
  <1>3. ASSUME NEW s \in Peticiones, PasoPeticion(s) PROVE ActivoSegunEstado'
    <2>1. CASE MarcarVencido(s) BY <2>1 DEF MarcarVencido
    <2>2. CASE Renovar(s) BY <2>2 DEF Renovar
    <2> QED BY <1>2, <1>3, <2>1, <2>2
            DEF PasoPeticion, LeerEdificio, Evaluar, LeerRenovacion, Calcular, Fallar
  <1> QED BY <1>1, <1>2, <1>3 DEF NextSuscripcion, Amanecer, varsSuscripcion

LEMMA VigentePaso == IInvSuscripcion /\ [NextSuscripcion]_varsSuscripcion => \A s \in Peticiones : LecturaVigente(s)'
  <1> SUFFICES ASSUME IInvSuscripcion, [NextSuscripcion]_varsSuscripcion, NEW s \in Peticiones PROVE LecturaVigente(s)' OBVIOUS
  <1> USE DiasAssumption DEF IInvSuscripcion, LecturaVigente
  <1>0. /\ peticion[s] \in Peticion /\ edificio.hasta \in Nat /\ hoy \in Nat
        /\ SinPeticion.pc = "inactiva"
    BY DEF TypeOKSuscripcion, Building, SinPeticion
  <1>1. CASE Amanecer BY <1>0, <1>1 DEF Amanecer
  <1>2. CASE Suspender BY <1>0, <1>2 DEF Suspender, TypeOKSuscripcion, Building
  <1>3. ASSUME NEW t \in Peticiones, PasoPeticion(t) PROVE LecturaVigente(s)'
    <2>1. CASE Renovar(t)
      BY <1>0, <2>1 DEF Renovar, TypeOKSuscripcion, Peticion
    <2>2. CASE ~Renovar(t)
      <3>1. edificio'.hasta = edificio.hasta /\ hoy' = hoy
        BY <1>3, <2>2 DEF PasoPeticion, LeerEdificio, Evaluar, MarcarVencido, LeerRenovacion,
           Calcular, Fallar, TypeOKSuscripcion, Building
      <3>2. CASE s # t
        <4>1. peticion'[s] = peticion[s]
          BY <1>3, <2>2, <3>2 DEF PasoPeticion, LeerEdificio, Evaluar, MarcarVencido, LeerRenovacion,
             Calcular, Fallar, IrPeticion, TypeOKSuscripcion
        <4> QED BY <3>1, <4>1
      <3>3. CASE s = t
        <4>1. CASE LeerEdificio(t)
          BY <3>1, <3>3, <4>1 DEF LeerEdificio, IrPeticion, TypeOKSuscripcion, SinPeticion
        <4>2. CASE Evaluar(t)
          BY <1>0, <3>1, <3>3, <4>2 DEF Evaluar, Acceso, IrPeticion, TypeOKSuscripcion, Peticion
        <4>3. CASE MarcarVencido(t) \/ Fallar(t)
          BY <1>0, <3>1, <3>3, <4>3 DEF MarcarVencido, Fallar, IrPeticion, TypeOKSuscripcion
        <4>4. ASSUME NEW dias \in Dias, LeerRenovacion(t, dias) PROVE LecturaVigente(s)'
          <5>1. peticion'[t].pc = "calcular" /\ peticion'[t].hasta = edificio.hasta
            BY <4>4 DEF LeerRenovacion, IrPeticion, TypeOKSuscripcion, SinPeticion
          <5> QED BY <3>1, <3>3, <5>1
        <4>5. CASE Calcular(t)
          <5>1. /\ peticion[t].pc = "calcular" /\ peticion'[t].pc = "escribir"
                /\ peticion'[t].superada = peticion[t].superada
                /\ peticion'[t].fecha = hoy /\ peticion'[t].dias = peticion[t].dias
                /\ peticion'[t].hasta = (IF peticion[t].hasta > hoy THEN peticion[t].hasta ELSE hoy)
                                        + peticion[t].dias
            BY <1>0, <3>3, <4>5 DEF Calcular, IrPeticion, TypeOKSuscripcion, Peticion
          <5>2. ~ peticion[t].superada => peticion[t].hasta = edificio.hasta
            BY <3>3, <5>1
          <5>3. ~ peticion'[s].superada =>
                  peticion'[s].hasta = Alargar(edificio'.hasta, [fecha |-> peticion'[s].fecha,
                                                                 dias |-> peticion'[s].dias])
            BY <3>1, <3>3, <5>1, <5>2 DEF Alargar
          <5> QED BY <3>3, <5>1, <5>3
        <4> QED BY <1>3, <2>2, <3>3, <4>1, <4>2, <4>3, <4>4, <4>5 DEF PasoPeticion
      <3> QED BY <3>2, <3>3
    <2> QED BY <2>1, <2>2
  <1>4. CASE UNCHANGED varsSuscripcion BY <1>4 DEF varsSuscripcion
  <1> QED BY <1>1, <1>2, <1>3, <1>4 DEF NextSuscripcion

LEMMA VencidoPaso == IInvSuscripcion /\ [NextSuscripcion]_varsSuscripcion => VencidoConRazon'
  <1> SUFFICES ASSUME IInvSuscripcion, [NextSuscripcion]_varsSuscripcion PROVE VencidoConRazon' OBVIOUS
  <1> USE DiasAssumption DEF IInvSuscripcion, VencidoConRazon
  <1>0. edificio \in Building /\ edificio.hasta \in Nat /\ hoy \in Nat
    BY DEF TypeOKSuscripcion, Building
  <1>1. CASE Amanecer BY <1>0, <1>1 DEF Amanecer
  <1>2. CASE Suspender BY <1>0, <1>2 DEF Suspender, Building
  <1>3. CASE UNCHANGED <<hoy, edificio, causas>> BY <1>3
  <1>4. ASSUME NEW s \in Peticiones, PasoPeticion(s) PROVE VencidoConRazon'
    <2>1. CASE Renovar(s) BY <2>1 DEF Renovar
    <2>2. CASE MarcarVencido(s)
      <3>1. ~peticion[s].superada => hoy > edificio.hasta + DiasGracia
        BY <2>2 DEF MarcarVencido, LecturaVigente
      <3>2. edificio'.hasta = edificio.hasta /\ hoy' = hoy
        BY <1>0, <2>2 DEF MarcarVencido, Building
      <3>3. peticion[s].superada => "marca" \in causas' BY <2>2 DEF MarcarVencido
      <3> QED BY <3>1, <3>2, <3>3
    <2> QED BY <1>3, <1>4, <2>1, <2>2
            DEF PasoPeticion, LeerEdificio, Evaluar, LeerRenovacion, Calcular, Fallar
  <1> QED BY <1>1, <1>2, <1>3, <1>4 DEF NextSuscripcion, varsSuscripcion

LEMMA HistorialPaso == IInvSuscripcion /\ [NextSuscripcion]_varsSuscripcion => HistorialExplica'
  <1> SUFFICES ASSUME IInvSuscripcion, [NextSuscripcion]_varsSuscripcion PROVE HistorialExplica' OBVIOUS
  <1>0. edificio \in Building /\ HistorialExplica /\ \A s \in Peticiones : LecturaVigente(s)
    BY DEF IInvSuscripcion, TypeOKSuscripcion
  <1>1. ASSUME edificio'.hasta = edificio.hasta, edificio'.historial = edificio.historial,
               causas \subseteq causas'
        PROVE  HistorialExplica'
    BY <1>0, <1>1 DEF HistorialExplica
  <1>2. CASE UNCHANGED <<edificio, causas>> BY <1>1, <1>2
  <1>3. CASE Suspender BY <1>0, <1>1, <1>3 DEF Suspender, Building
  <1>4. ASSUME NEW s \in Peticiones, PasoPeticion(s) PROVE HistorialExplica'
    <2>1. CASE MarcarVencido(s) BY <1>0, <1>1, <2>1 DEF MarcarVencido, Building
    <2>2. CASE Renovar(s)
      <3> DEFINE r == [fecha |-> peticion[s].fecha, dias |-> peticion[s].dias]
      <3>1. /\ edificio'.hasta = peticion[s].hasta
            /\ edificio'.historial = Append(edificio.historial, r)
            /\ causas \subseteq causas'
            /\ peticion[s].superada => "renovacion" \in causas'
            /\ peticion[s].pc = "escribir"
        BY <2>2 DEF Renovar
      <3>2. r \in Renovacion /\ edificio.historial \in Seq(Renovacion)
        BY <1>0 DEF IInvSuscripcion, TypeOKSuscripcion, Peticion, Renovacion, Building
      <3>3. ~ peticion[s].superada => peticion[s].hasta = Alargar(edificio.hasta, r)
        BY <1>0, <3>1 DEF LecturaVigente
      <3> HIDE DEF r
      <3>4. HastaSegun(edificio'.historial) = Alargar(HastaSegun(edificio.historial), r)
        BY <3>1, <3>2, HastaSegunMas
      <3>5. \/ "renovacion" \in causas'
            \/ edificio'.hasta = HastaSegun(edificio'.historial)
        BY <1>0, <3>1, <3>3, <3>4 DEF HistorialExplica
      <3> QED BY <3>5, Zenon DEF HistorialExplica
    <2> QED BY <1>2, <1>4, <2>1, <2>2
            DEF PasoPeticion, LeerEdificio, Evaluar, LeerRenovacion, Calcular, Fallar
  <1> QED BY <1>2, <1>3, <1>4 DEF NextSuscripcion, Amanecer, varsSuscripcion

\* The invariant is inductive.
LEMMA InductivoSuscripcion == SpecSuscripcion => []IInvSuscripcion
  <1>1. IInvSuscripcion /\ [NextSuscripcion]_varsSuscripcion => IInvSuscripcion'
    BY TipoPaso, ActivoPaso, VigentePaso, VencidoPaso, HistorialPaso DEF IInvSuscripcion
  <1> QED BY InicioSuscripcion, <1>1, PTL DEF SpecSuscripcion

\* The building's document and the requests keep their types.
THEOREM TiposSuscripcion == SpecSuscripcion => []TypeOKSuscripcion
  <1>1. IInvSuscripcion => TypeOKSuscripcion BY DEF IInvSuscripcion
  <1> QED BY InductivoSuscripcion, <1>1, PTL

\* activo and estadoSuscripcion agree, however requests interleave.
THEOREM EstadoYActivo == SpecSuscripcion => []ActivoSegunEstado
  <1>1. IInvSuscripcion => ActivoSegunEstado BY DEF IInvSuscripcion
  <1> QED BY InductivoSuscripcion, <1>1, PTL

\* The recorded renewals explain the date, unless two of them have overlapped: for
\* any number of renewals and of requests.
THEOREM HistorialVeraz == SpecSuscripcion => []HistorialExplica
  <1>1. IInvSuscripcion => HistorialExplica BY DEF IInvSuscripcion
  <1> QED BY InductivoSuscripcion, <1>1, PTL

\* Nothing paid is marked vencido, but by a mark that a renewal has overtaken.
THEOREM MarcaJustificada == SpecSuscripcion => []VencidoConRazon
  <1>1. IInvSuscripcion => VencidoConRazon BY DEF IInvSuscripcion
  <1> QED BY InductivoSuscripcion, <1>1, PTL

\* A suspended building stays suspended until a renewal is recorded.
THEOREM SuspensionSeMantiene == SpecSuscripcion => SoloRenovarLevanta
  <1> DEFINE Paso == edificio.estado = "suspendido" =>
                       \/ edificio'.estado = "suspendido"
                       \/ Len(edificio'.historial) > Len(edificio.historial)
  <1>1. IInvSuscripcion /\ [NextSuscripcion]_varsSuscripcion => [Paso]_varsSuscripcion
    <2> SUFFICES ASSUME IInvSuscripcion, NextSuscripcion PROVE Paso OBVIOUS
    <2> USE DEF IInvSuscripcion, TypeOKSuscripcion, Building
    <2>1. CASE Suspender BY <2>1 DEF Suspender
    <2>2. CASE UNCHANGED edificio BY <2>2
    <2>3. ASSUME NEW s \in Peticiones, MarcarVencido(s) PROVE Paso
      BY <2>3 DEF MarcarVencido
    <2>4. ASSUME NEW s \in Peticiones, Renovar(s) PROVE Paso
      <3>1. edificio.historial \in Seq(Renovacion) OBVIOUS
      <3>2. Len(edificio'.historial) = Len(edificio.historial) + 1
        BY <2>4, <3>1 DEF Renovar
      <3> QED BY <3>1, <3>2
    <2> QED BY <2>1, <2>2, <2>3, <2>4
            DEF NextSuscripcion, Amanecer, PasoPeticion, LeerEdificio, Evaluar, LeerRenovacion, Calcular, Fallar
  <1>2. SpecSuscripcion => [][Paso]_varsSuscripcion BY InductivoSuscripcion, <1>1, PTL DEF SpecSuscripcion
  <1> QED BY <1>2 DEF SoloRenovarLevanta
-----------------------------------------------------------------------------
(***************************************************************************)
(* The creation of buildings and accounts.                                 *)
(***************************************************************************)
\* The apartments of a building are as many as its floors times those of a floor.
LEMMA CuentaDocs == ASSUME AltaAssumption PROVE Cardinality(Docs) = TotalPisos * AptosPorPiso
  <1>1. /\ IsFiniteSet(1 .. TotalPisos) /\ Cardinality(1 .. TotalPisos) = TotalPisos
        /\ IsFiniteSet(1 .. AptosPorPiso) /\ Cardinality(1 .. AptosPorPiso) = AptosPorPiso
    BY FS_Interval DEF AltaAssumption
  <1> DEFINE P == 1 .. TotalPisos
             Q == 1 .. AptosPorPiso
  <1>2. Docs = P \X Q BY DEF Docs
  <1> HIDE DEF P, Q
  <1>3. IsFiniteSet(P) /\ Cardinality(P) = TotalPisos BY <1>1 DEF P
  <1>4. IsFiniteSet(Q) /\ Cardinality(Q) = AptosPorPiso BY <1>1 DEF Q
  <1>5. Cardinality(P \X Q) = Cardinality(P) * Cardinality(Q) BY <1>3, <1>4, FS_Product
  <1> QED BY <1>2, <1>3, <1>4, <1>5

LEMMA InicioAlta == AltaAssumption /\ InitAlta => IInvAlta
  <1> SUFFICES ASSUME AltaAssumption, InitAlta PROVE IInvAlta OBVIOUS
  <1> USE DEF InitAlta, AltaAssumption
  <1>1. TypeOKAlta BY DEF TypeOKAlta, Cuenta, SinCuenta, Vias, Proceso, Inactivo, PasosAlta
  <1>2. SubdominioUnico /\ IncompletoConCausa BY DEF SubdominioUnico, IncompletoConCausa
  <1>3. IndiceUnico /\ DeLaPlataforma /\ SinDatos
    BY DEF IndiceUnico, DeLaPlataforma, SinDatos, Existe, SinCuenta
  <1>4. \A p \in Procesos : Avance(proceso[p]) /\ Mirada(proceso[p])
    BY DEF Avance, Mirada, CreaEdificio, Inactivo
  <1> QED BY <1>1, <1>2, <1>3, <1>4 DEF IInvAlta

LEMMA Libre ==
  ASSUME AltaAssumption
  PROVE  Inactivo \in Proceso /\ Avance(Inactivo) /\ Mirada(Inactivo) /\ Inactivo.edificio = Nada
  BY DEF Inactivo, Proceso, PasosAlta, Vias, Avance, Mirada, CreaEdificio

\* A step that changes the process alone, or what its creation leaves undone.
LEMMA IrInv ==
  ASSUME AltaAssumption, IInvAlta, NEW p \in Procesos, NEW r \in Proceso, PasarA(p, r),
         UNCHANGED <<slugDe, aptos, cuentas, promovidas>>, conDatos' \subseteq Edificios,
         rotas \subseteq rotas', rotas' \subseteq Edificios, Avance(r), Mirada(r),
         LET b == proceso[p].edificio
         IN b # Nada => r.edificio = b \/ b \in rotas' \cup promovidas \/ Completo(b)
  PROVE  IInvAlta'
  <1> USE DEF IInvAlta
  <1>0. proceso'[p] = r /\ \A q \in Procesos \ {p} : proceso'[q] = proceso[q]
    BY DEF PasarA, TypeOKAlta
  <1>1. TypeOKAlta' BY DEF PasarA, TypeOKAlta
  <1>2. SubdominioUnico' /\ IndiceUnico' /\ DeLaPlataforma' /\ SinDatos'
    BY DEF SubdominioUnico, IndiceUnico, DeLaPlataforma, SinDatos, Existe
  <1>3. \A q \in Procesos : Avance(proceso[q])' /\ Mirada(proceso[q])'
    BY <1>0 DEF Avance, Mirada, CreaEdificio, TieneAdmin, Existe
  <1>4. IncompletoConCausa'
    <2> SUFFICES ASSUME NEW b \in Edificios, slugDe[b] # Nada, b \notin rotas' \cup promovidas, ~EnCurso(b)'
                 PROVE  Completo(b)
      BY DEF IncompletoConCausa, Completo, TieneAdmin
    <2>1. CASE EnCurso(b)
      <3>1. PICK q \in Procesos : proceso[q].edificio = b BY <2>1 DEF EnCurso
      <3>2. q = p BY <1>0, <3>1 DEF EnCurso
      <3>3. b # Nada /\ r.edificio # b BY <1>0 DEF EnCurso, AltaAssumption
      <3> QED BY <3>1, <3>2, <3>3
    <2>2. CASE ~EnCurso(b) BY <2>2 DEF IncompletoConCausa
    <2> QED BY <2>1, <2>2
  <1> QED BY <1>1, <1>2, <1>3, <1>4

(***************************************************************************)
(* Creating a building.                                                    *)
(***************************************************************************)

LEMMA PedirInv ==
  ASSUME AltaAssumption, IInvAlta, NEW p \in Procesos, NEW via \in {"super", "registro"},
         NEW slug \in Slugs, NEW correo \in Correos, NEW datos \in BOOLEAN,
         Pedir(p, via, slug, correo, datos)
  PROVE  IInvAlta'
  <1> DEFINE r == [Inactivo EXCEPT !.pc = "crear", !.via = via, !.slug = slug, !.correo = correo,
                                   !.conDatos = datos]
  <1>1. /\ r \in Proceso /\ r.pc = "crear" /\ r.slug = slug /\ r.correo = correo
        /\ r.edificio = Nada
    BY DEF Inactivo, Proceso, PasosAlta, Vias, Usuarios
  <1>2. /\ PasarA(p, r) /\ UNCHANGED <<base, historia>> /\ proceso[p].edificio = Nada
    BY DEF Pedir, IInvAlta, Avance, CreaEdificio
  <1> HIDE DEF r
  <1>3. Avance(r) /\ Mirada(r) BY <1>1 DEF Avance, Mirada, CreaEdificio, AltaAssumption, Usuarios
  <1>4. conDatos \subseteq Edificios /\ rotas \subseteq Edificios BY DEF IInvAlta, TypeOKAlta
  <1> QED BY <1>1, <1>2, <1>3, <1>4, IrInv DEF base, historia

\* A step of a creation that goes on from one await to the next.
LEMMA SeguirInv ==
  ASSUME AltaAssumption, IInvAlta, NEW p \in Procesos, NEW pc \in PasosAlta, A(p, pc),
         UNCHANGED <<slugDe, aptos, cuentas, promovidas, rotas>>, conDatos' \subseteq Edificios,
         proceso[p].pc \in {"datos", "sembrar", "buscarAdmin"}, pc \in {"sembrar", "buscarAdmin", "crearAdmin"},
         pc \in {"buscarAdmin", "crearAdmin"} => aptos[proceso[p].edificio] = Docs
  PROVE  IInvAlta'
  <1> DEFINE r == [proceso[p] EXCEPT !.pc = pc]
  <1>0. proceso[p] \in Proceso /\ Avance(proceso[p]) BY DEF IInvAlta, TypeOKAlta
  <1>1. /\ r \in Proceso /\ r.pc = pc /\ r.slug = proceso[p].slug /\ r.correo = proceso[p].correo
        /\ r.edificio = proceso[p].edificio /\ PasarA(p, r)
    BY <1>0 DEF Proceso, A
  <1> HIDE DEF r
  <1>2. Avance(r) /\ Mirada(r) BY <1>0, <1>1 DEF Avance, Mirada, CreaEdificio
  <1> QED BY <1>1, <1>2, IrInv DEF IInvAlta, TypeOKAlta

LEMMA CrearEdificioInv ==
  ASSUME AltaAssumption, IInvAlta, NEW p \in Procesos, NEW b \in Edificios, CrearEdificio(p, b)
  PROVE  IInvAlta'
  <1> DEFINE s == proceso[p].slug
             r == [proceso[p] EXCEPT !.edificio = b,
                                     !.pc = IF proceso[p].conDatos THEN "datos" ELSE "sembrar"]
  <1>0. /\ proceso[p] \in Proceso /\ proceso[p].pc = "crear" /\ proceso[p].edificio = Nada
        /\ s \in Slugs /\ s # Nada /\ proceso[p].correo # Nada /\ slugDe[b] = Nada /\ b # Nada
        /\ slugDe \in [Edificios -> Slugs \cup {Nada}] /\ proceso \in [Procesos -> Proceso]
        /\ UNCHANGED <<conDatos, aptos, cuentas, rotas, promovidas>>
    BY DEF CrearEdificio, IInvAlta, TypeOKAlta, Avance, CreaEdificio, Proceso, AltaAssumption, historia
  <1>1. CASE \E c \in Edificios : slugDe[c] = s
    <2>1. PasarA(p, Inactivo) /\ UNCHANGED slugDe BY <1>1 DEF CrearEdificio
    <2> QED BY <1>0, <2>1, Libre, IrInv DEF IInvAlta, TypeOKAlta
  <1>2. CASE \A c \in Edificios : slugDe[c] # s
    <2>1. slugDe' = [slugDe EXCEPT ![b] = s] /\ PasarA(p, r) BY <1>2 DEF CrearEdificio, Creado
    <2>2. /\ r \in Proceso /\ r.pc \in {"datos", "sembrar"} /\ r.edificio = b
          /\ r.slug = s /\ r.correo = proceso[p].correo
      BY <1>0 DEF Proceso, PasosAlta
    <2> HIDE DEF r, s
    <2>3. proceso'[p] = r /\ \A q \in Procesos \ {p} : proceso'[q] = proceso[q]
      BY <1>0, <2>1 DEF PasarA
    <2>4. \A c \in Edificios : slugDe'[c] = IF c = b THEN s ELSE slugDe[c] BY <1>0, <2>1
    <2>5. TypeOKAlta' BY <1>0, <2>1, <2>2 DEF IInvAlta, TypeOKAlta, PasarA
    <2>6. SubdominioUnico' BY <1>0, <1>2, <2>4 DEF IInvAlta, SubdominioUnico
    <2>7. IndiceUnico' /\ DeLaPlataforma' /\ SinDatos' BY <1>0 DEF IInvAlta, IndiceUnico, DeLaPlataforma, SinDatos, Existe
    <2>8. \A q \in Procesos : Avance(proceso[q])' /\ Mirada(proceso[q])'
      BY <1>0, <2>2, <2>3 DEF IInvAlta, Avance, Mirada, CreaEdificio, TieneAdmin, Existe
    <2>9. IncompletoConCausa'
      <3> SUFFICES ASSUME NEW c \in Edificios, slugDe'[c] # Nada, c \notin rotas \cup promovidas, ~EnCurso(c)'
                   PROVE  Completo(c)
        BY <1>0 DEF IncompletoConCausa, Completo, TieneAdmin
      <3>1. c # b BY <2>2, <2>3 DEF EnCurso
      <3>2. ~EnCurso(c) BY <1>0, <2>3, <3>1 DEF EnCurso, AltaAssumption
      <3> QED BY <2>4, <3>1, <3>2 DEF IInvAlta, IncompletoConCausa
    <2> QED BY <2>5, <2>6, <2>7, <2>8, <2>9 DEF IInvAlta
  <1> QED BY <1>1, <1>2

LEMMA SembrarInv ==
  ASSUME AltaAssumption, IInvAlta, NEW p \in Procesos, NEW d \in Docs, Sembrar(p, d)
  PROVE  IInvAlta'
  <1> DEFINE b == proceso[p].edificio
  <1>0. /\ proceso[p].pc = "sembrar" /\ b \in Edificios /\ d \notin aptos[b]
        /\ UNCHANGED <<slugDe, conDatos, cuentas, proceso, rotas, promovidas>>
        /\ aptos \in [Edificios -> SUBSET Docs] /\ aptos' = [aptos EXCEPT ![b] = aptos[b] \cup {d}]
    BY DEF Sembrar, IInvAlta, TypeOKAlta, Avance, CreaEdificio, Proceso, historia, Docs
  <1>1. \A c \in Edificios : aptos'[c] = IF c = b THEN aptos[c] \cup {d} ELSE aptos[c] BY <1>0
  <1>2. TypeOKAlta' BY <1>0 DEF IInvAlta, TypeOKAlta, Docs
  <1>3. SubdominioUnico' /\ IndiceUnico' /\ DeLaPlataforma' /\ SinDatos'
    BY <1>0 DEF IInvAlta, SubdominioUnico, IndiceUnico, DeLaPlataforma, SinDatos, Existe
  <1>4. \A q \in Procesos : Avance(proceso[q])' /\ Mirada(proceso[q])'
    <2>1. \A c \in Edificios : aptos[c] = Docs => aptos'[c] = Docs BY <1>0, <1>1
    <2>2. \A q \in Procesos : proceso[q].edificio \in Edificios \cup {Nada} BY DEF IInvAlta, TypeOKAlta, Proceso
    <2> QED BY <1>0, <2>1, <2>2 DEF IInvAlta, Avance, Mirada, CreaEdificio, TieneAdmin, Existe
  <1>5. IncompletoConCausa'
    <2> SUFFICES ASSUME NEW c \in Edificios, slugDe[c] # Nada, c \notin rotas \cup promovidas, ~EnCurso(c)
                 PROVE  Completo(c)'
      BY <1>0 DEF IncompletoConCausa, EnCurso
    <2>1. c # b BY DEF EnCurso
    <2>2. Completo(c) BY DEF IInvAlta, IncompletoConCausa
    <2> QED BY <1>0, <1>1, <2>1, <2>2 DEF Completo, TieneAdmin
  <1> QED BY <1>2, <1>3, <1>4, <1>5 DEF IInvAlta

LEMMA SeguirPasosInv ==
  ASSUME AltaAssumption, IInvAlta, NEW p \in Procesos,
         FijarDatos(p) \/ Sembrado(p) \/ BuscarAdmin(p)
  PROVE  IInvAlta'
  <1> USE DEF historia, base
  <1>0. /\ conDatos \subseteq Edificios /\ rotas \subseteq Edificios
        /\ aptos \in [Edificios -> SUBSET Docs] /\ proceso[p] \in Proceso /\ Avance(proceso[p])
    BY DEF IInvAlta, TypeOKAlta, Docs
  <1>1. CASE FijarDatos(p)
    <2>1. conDatos' \subseteq Edificios
      BY <1>0, <1>1 DEF FijarDatos, Avance, CreaEdificio, Proceso
    <2> QED BY <1>1, <2>1, SeguirInv DEF FijarDatos, PasosAlta
  <1>2. CASE Sembrado(p)
    <2>1. aptos[proceso[p].edificio] = Docs
      BY <1>0, <1>2 DEF Sembrado, Avance, CreaEdificio, Proceso
    <2> QED BY <1>0, <1>2, <2>1, SeguirInv DEF Sembrado, PasosAlta
  <1>3. CASE BuscarAdmin(p)
    <2> DEFINE b == proceso[p].edificio
    <2>1. proceso[p].pc = "buscarAdmin" /\ b \in Edificios /\ aptos[b] = Docs /\ b # Nada
      BY <1>0, <1>3 DEF BuscarAdmin, Avance, CreaEdificio, Proceso, AltaAssumption
    <2>2. CASE Ocupada(proceso[p].correo, b, Nada)
      <3>1. PICK c \in Cuentas : cuentas[c].edificio = b BY <2>2 DEF Ocupada
      <3>2. ~cuentas[c].super BY <2>1, <3>1 DEF IInvAlta, DeLaPlataforma
      <3>3. Completo(b) BY <2>1, <3>1, <3>2, CuentaDocs DEF Completo, TieneAdmin
      <3>4. PasarA(p, Inactivo) /\ UNCHANGED <<base, historia>> BY <1>3, <2>2 DEF BuscarAdmin
      <3> QED BY <1>0, <3>3, <3>4, Libre, IrInv
    <2>3. CASE ~Ocupada(proceso[p].correo, b, Nada)
      BY <1>0, <1>3, <2>1, <2>3, SeguirInv DEF BuscarAdmin, PasosAlta
    <2> QED BY <2>2, <2>3
  <1> QED BY <1>1, <1>2, <1>3

LEMMA CrearAdminInv ==
  ASSUME AltaAssumption, IInvAlta, NEW p \in Procesos, NEW c \in Cuentas, CrearAdmin(p, c)
  PROVE  IInvAlta'
  <1>0. /\ proceso[p] \in Proceso /\ proceso[p].pc = "crearAdmin"
        /\ proceso[p].edificio \in Edificios /\ proceso[p].edificio # Nada
        /\ aptos[proceso[p].edificio] = Docs /\ proceso[p].correo \in Usuarios
        /\ proceso[p].correo # Nada
        /\ ~Existe(c) /\ cuentas[c] \in Cuenta /\ cuentas \in [Cuentas -> Cuenta]
        /\ proceso \in [Procesos -> Proceso] /\ Nada \notin Cuentas
        /\ UNCHANGED <<slugDe, conDatos, aptos, rotas, promovidas>>
    BY DEF CrearAdmin, IInvAlta, TypeOKAlta, Avance, CreaEdificio, Proceso, AltaAssumption, historia
  <1>b. PICK b \in Edificios : b = proceso[p].edificio BY <1>0
  <1>r. PICK r : r = [proceso[p] EXCEPT !.pc = "correo"] OBVIOUS
  <1>k. PICK k : k = [usuario |-> proceso[p].correo, super |-> FALSE, edificio |-> b,
                      clave |-> proceso[p].via] OBVIOUS
  <1>1. /\ k \in Cuenta /\ k.usuario # Nada /\ ~k.super /\ k.edificio = b
        /\ r \in Proceso /\ r.pc = "correo" /\ r.edificio = b /\ r.correo = proceso[p].correo
    BY <1>0, <1>b, <1>r, <1>k DEF Cuenta, Proceso, PasosAlta
  <1>2. /\ cuentas' = [cuentas EXCEPT ![c] = k] /\ PasarA(p, r)
        /\ \A d \in Cuentas : ~(cuentas[d].usuario = k.usuario /\ cuentas[d].edificio = b)
    BY <1>0, <1>b, <1>r, <1>k DEF CrearAdmin, A, Ocupada
  <1>3. ~cuentas[c].super BY <1>0 DEF IInvAlta, DeLaPlataforma, Existe, AltaAssumption, Usuarios
  <1>4. /\ proceso'[p] = r /\ \A q \in Procesos \ {p} : proceso'[q] = proceso[q]
        /\ \A d \in Cuentas : cuentas'[d] = IF d = c THEN k ELSE cuentas[d]
    BY <1>0, <1>2 DEF PasarA
  <1>5. TypeOKAlta' BY <1>0, <1>1, <1>2 DEF IInvAlta, TypeOKAlta, PasarA
  <1>6. SubdominioUnico' /\ DeLaPlataforma' /\ SinDatos'
    BY <1>0, <1>1, <1>4 DEF IInvAlta, SubdominioUnico, DeLaPlataforma, SinDatos, Existe
  <1>7. IndiceUnico'
    <2>1. \A d \in Cuentas : Existe(d) => ~(cuentas[d].usuario = k.usuario /\ cuentas[d].edificio = b)
      BY <1>0, <1>2 DEF Existe
    <2> QED BY <1>1, <1>4, <2>1 DEF IInvAlta, IndiceUnico, Existe
  <1>8. TieneAdmin(b)' /\ \A e \in Edificios : TieneAdmin(e) => TieneAdmin(e)'
    BY <1>0, <1>1, <1>4 DEF IInvAlta, SinDatos, TieneAdmin, Existe, AltaAssumption
  <1>9. \A q \in Procesos : Avance(proceso[q])' /\ Mirada(proceso[q])'
    <2>0. \A q \in Procesos : proceso[q].edificio \in Edificios \cup {Nada} /\ proceso[q].cuenta \in Cuentas \cup {Nada}
      BY <1>0 DEF Proceso
    <2>1. Avance(r)' BY <1>0, <1>1, <1>b, <1>8 DEF Avance, CreaEdificio
    <2>2. Mirada(r)' BY <1>1 DEF Mirada
    <2>3. ASSUME NEW q \in Procesos \ {p} PROVE Avance(proceso[q])' /\ Mirada(proceso[q])'
      <3>1. Avance(proceso[q]) /\ Mirada(proceso[q]) BY DEF IInvAlta
      <3>2. Avance(proceso[q])' BY <1>0, <1>4, <1>8, <2>0, <3>1 DEF Avance, CreaEdificio
      <3>0. Nada \notin NombresSuper /\ \A d \in Cuentas : cuentas'[d].super <=> cuentas[d].super
        BY <1>1, <1>3, <1>4 DEF AltaAssumption, Usuarios
      <3>3. Mirada(proceso[q])' BY <1>0, <1>4, <2>0, <3>0, <3>1 DEF Mirada, Existe
      <3> QED BY <3>2, <3>3
    <2> QED BY <1>4, <2>1, <2>2, <2>3
  <1>10. IncompletoConCausa'
    <2> SUFFICES ASSUME NEW e \in Edificios, slugDe[e] # Nada, e \notin rotas \cup promovidas, ~EnCurso(e)'
                 PROVE  Completo(e)'
      BY <1>0 DEF IncompletoConCausa
    <2>1. ~EnCurso(e) BY <1>0, <1>b, <1>1, <1>4 DEF EnCurso
    <2> QED BY <1>0, <1>8, <2>1 DEF IInvAlta, IncompletoConCausa, Completo
  <1> QED BY <1>5, <1>6, <1>7, <1>9, <1>10 DEF IInvAlta

LEMMA SoltarInv ==
  ASSUME AltaAssumption, IInvAlta, NEW p \in Procesos, Responder(p) \/ FallarAlta(p)
  PROVE  IInvAlta'
  <1> USE DEF historia, base
  <1> DEFINE b == proceso[p].edificio
  <1>0. /\ conDatos \subseteq Edificios /\ rotas \subseteq Edificios
        /\ proceso[p] \in Proceso /\ Avance(proceso[p])
    BY DEF IInvAlta, TypeOKAlta
  <1>1. CASE Responder(p)
    <2>1. b \in promovidas \/ Completo(b)
      BY <1>0, <1>1, CuentaDocs DEF Responder, Avance, Completo
    <2> QED BY <1>0, <1>1, <2>1, Libre, IrInv DEF Responder
  <1>2. CASE FallarAlta(p)
    <2>1. rotas' \subseteq Edificios /\ rotas \subseteq rotas' /\ (b # Nada => b \in rotas')
      BY <1>0, <1>2 DEF FallarAlta, Proceso
    <2> QED BY <1>0, <1>2, <2>1, Libre, IrInv DEF FallarAlta
  <1> QED BY <1>1, <1>2

(***************************************************************************)
(* The platform's account.                                                 *)
(***************************************************************************)

LEMMA MirarInv ==
  ASSUME AltaAssumption, IInvAlta, NEW p \in Procesos, NEW c \in Cuentas \cup {Nada},
         NEW u \in NombresSuper, Arrancar(p, u) \/ BuscarSuper(p, c) \/ Script(p, u, c)
  PROVE  IInvAlta'
  <1> USE DEF historia, base
  <1>0. /\ conDatos \subseteq Edificios /\ rotas \subseteq Edificios
        /\ proceso[p] \in Proceso /\ Avance(proceso[p]) /\ Mirada(proceso[p])
    BY DEF IInvAlta, TypeOKAlta
  <1>1. CASE Arrancar(p, u)
    <2> DEFINE r == [Inactivo EXCEPT !.pc = "buscarSuper", !.via = "arranque", !.correo = u]
    <2>1. /\ r \in Proceso /\ r.pc = "buscarSuper" /\ r.via = "arranque" /\ r.edificio = Nada
          /\ r.correo \in NombresSuper
      BY DEF Inactivo, Proceso, PasosAlta, Vias, Usuarios
    <2>2. PasarA(p, r) /\ proceso[p].edificio = Nada BY <1>0, <1>1 DEF Arrancar, Avance, CreaEdificio
    <2> HIDE DEF r
    <2>3. Avance(r) /\ Mirada(r) BY <1>1, <2>1 DEF Arrancar, Avance, Mirada, CreaEdificio
    <2> QED BY <1>0, <1>1, <2>1, <2>2, <2>3, IrInv DEF Arrancar
  <1>2. CASE BuscarSuper(p, c)
    <2> DEFINE r == [proceso[p] EXCEPT !.pc = "fijarSuper", !.cuenta = c]
    <2>1. /\ r \in Proceso /\ r.pc = "fijarSuper" /\ r.via = proceso[p].via /\ r.cuenta = c
          /\ r.edificio = proceso[p].edificio /\ r.adelantado = proceso[p].adelantado
          /\ r.correo = proceso[p].correo
      BY <1>0 DEF Proceso, PasosAlta
    <2>2. /\ PasarA(p, r) /\ proceso[p].edificio = Nada /\ proceso[p].pc = "buscarSuper"
          /\ c # Nada => cuentas[c].usuario \in NombresSuper
      BY <1>0, <1>2 DEF BuscarSuper, Avance, CreaEdificio, Hallada, Candidatas
    <2> HIDE DEF r
    <2>3. Avance(r) /\ Mirada(r) BY <1>0, <2>1, <2>2 DEF Avance, Mirada, CreaEdificio
    <2> QED BY <1>0, <1>2, <2>1, <2>2, <2>3, IrInv DEF BuscarSuper
  <1>3. CASE Script(p, u, c)
    <2> DEFINE r == [Inactivo EXCEPT !.pc = "fijarSuper", !.via = "script", !.correo = u, !.cuenta = c]
    <2>1. /\ r \in Proceso /\ r.pc = "fijarSuper" /\ r.via = "script" /\ r.cuenta = c
          /\ r.edificio = Nada /\ r.correo \in NombresSuper
      BY DEF Inactivo, Proceso, PasosAlta, Vias, Usuarios
    <2>2. /\ PasarA(p, r) /\ proceso[p].edificio = Nada
          /\ c # Nada => cuentas[c].usuario \in NombresSuper
      BY <1>0, <1>3 DEF Script, Avance, CreaEdificio, Hallada, Candidatas
    <2> HIDE DEF r
    <2>3. Avance(r) /\ Mirada(r) BY <2>1, <2>2 DEF Avance, Mirada, CreaEdificio
    <2> QED BY <1>0, <1>3, <2>1, <2>2, <2>3, IrInv DEF Script
  <1> QED BY <1>1, <1>2, <1>3

LEMMA LeerAdminInv ==
  ASSUME AltaAssumption, IInvAlta, NEW p \in Procesos, NEW c \in Cuentas, LeerAdmin(p, c)
  PROVE  IInvAlta'
  <1> DEFINE r == [Inactivo EXCEPT !.pc = "guardar", !.via = "reset", !.cuenta = c]
  <1>1. r \in Proceso /\ r.pc = "guardar" /\ r.cuenta = c /\ r.edificio = Nada
    BY DEF Inactivo, Proceso, PasosAlta, Vias
  <1>2. /\ PasarA(p, r) /\ UNCHANGED <<base, historia>> /\ proceso[p].edificio = Nada
        /\ Existe(c) /\ ~cuentas[c].super
    BY DEF LeerAdmin, IInvAlta, Avance, CreaEdificio
  <1> HIDE DEF r
  <1>3. Avance(r) /\ Mirada(r) BY <1>1, <1>2 DEF Avance, Mirada, CreaEdificio, AltaAssumption
  <1>4. conDatos \subseteq Edificios /\ rotas \subseteq Edificios BY DEF IInvAlta, TypeOKAlta
  <1> QED BY <1>1, <1>2, <1>3, <1>4, IrInv DEF base, historia

\* An account becomes the platform's: whoever decides upon an older state is marked.
LEMMA FijarInv ==
  ASSUME AltaAssumption, IInvAlta, NEW p \in Procesos, NEW c \in Cuentas, NEW k \in Cuenta,
         k.usuario \in NombresSuper, k.super, k.edificio = Nada,
         proceso[p].pc = "fijarSuper", proceso' = Adelantar(p, c),
         cuentas' = [cuentas EXCEPT ![c] = k],
         \A d \in Cuentas \ {c} : ~(cuentas[d].usuario = k.usuario /\ cuentas[d].edificio = Nada),
         promovidas' = promovidas \cup ({cuentas[c].edificio} \ {Nada}),
         UNCHANGED <<slugDe, conDatos, aptos, rotas>>
  PROVE  IInvAlta'
  <1>0. /\ cuentas \in [Cuentas -> Cuenta] /\ proceso \in [Procesos -> Proceso]
        /\ promovidas \subseteq Edificios /\ Inactivo \in Proceso /\ Inactivo.edificio = Nada
        /\ Nada \notin NombresSuper /\ \A d \in Cuentas : cuentas[d].edificio \in Edificios \cup {Nada}
        /\ proceso[p].edificio = Nada
    BY Libre DEF IInvAlta, TypeOKAlta, Avance, CreaEdificio, Cuenta, AltaAssumption, Usuarios
  <1>1. \A d \in Cuentas : cuentas'[d] = IF d = c THEN k ELSE cuentas[d] BY <1>0
  <1>2. /\ proceso'[p] = Inactivo
        /\ \A q \in Procesos \ {p} :
             \/ proceso'[q] = proceso[q] /\ (proceso[q].pc # "inactivo" =>
                                               proceso[q].via # "arranque" /\ proceso[q].cuenta # c)
             \/ proceso'[q] = [proceso[q] EXCEPT !.adelantado = TRUE]
    BY DEF Adelantar
  <1>3. TypeOKAlta'
    <2>1. ASSUME NEW q \in Procesos PROVE proceso'[q] \in Proceso
      <3>1. proceso[q] \in Proceso BY <1>0
      <3>2. [proceso[q] EXCEPT !.adelantado = TRUE] \in Proceso BY <3>1 DEF Proceso
      <3> QED BY <1>0, <1>2, <3>1, <3>2
    <2>2. proceso' = [q \in Procesos |-> proceso'[q]] BY DEF Adelantar
    <2>3. proceso' \in [Procesos -> Proceso] BY <2>1, <2>2
    <2> QED BY <1>0, <2>3 DEF IInvAlta, TypeOKAlta
  <1>4. SubdominioUnico' /\ DeLaPlataforma' /\ SinDatos'
    BY <1>0, <1>1 DEF IInvAlta, SubdominioUnico, DeLaPlataforma, SinDatos, Existe
  <1>5. IndiceUnico' BY <1>0, <1>1 DEF IInvAlta, IndiceUnico, Existe
  <1>6. \A e \in Edificios : TieneAdmin(e) => TieneAdmin(e)' \/ e \in promovidas'
    BY <1>0, <1>1 DEF TieneAdmin, AltaAssumption
  <1>7. ASSUME NEW q \in Procesos PROVE proceso'[q].edificio = proceso[q].edificio
    <2>1. proceso[q] \in Proceso BY <1>0
    <2>2. [proceso[q] EXCEPT !.adelantado = TRUE].edificio = proceso[q].edificio BY <2>1 DEF Proceso
    <2> QED BY <1>0, <1>2, <2>2
  <1>8. ASSUME NEW q \in Procesos PROVE Avance(proceso[q])' /\ Mirada(proceso[q])'
    <2>1. CASE q = p BY <1>2, <2>1 DEF Inactivo, Avance, Mirada, CreaEdificio
    <2>2. CASE q # p
      <3>0. /\ Avance(proceso[q]) /\ Mirada(proceso[q]) /\ proceso[q] \in Proceso
            /\ proceso[q].edificio \in Edificios \cup {Nada} /\ proceso[q].cuenta \in Cuentas \cup {Nada}
        BY <1>0 DEF IInvAlta, Proceso
      <3>1. /\ proceso'[q].pc = proceso[q].pc /\ proceso'[q].via = proceso[q].via
            /\ proceso'[q].slug = proceso[q].slug /\ proceso'[q].correo = proceso[q].correo
            /\ proceso'[q].cuenta = proceso[q].cuenta
            /\ proceso[q].adelantado => proceso'[q].adelantado
            /\ proceso[q].pc # "inactivo" /\ (proceso[q].via = "arranque" \/ proceso[q].cuenta = c)
                 => proceso'[q].adelantado
        <4>1. CASE proceso'[q] = [proceso[q] EXCEPT !.adelantado = TRUE]
          BY <3>0, <4>1 DEF Proceso
        <4> QED BY <1>2, <2>2, <4>1
      <3>2. Avance(proceso[q])' BY <1>6, <1>7, <3>0, <3>1 DEF Avance, CreaEdificio, AltaAssumption
      <3>3. Mirada(proceso[q])' BY <1>0, <1>1, <3>0, <3>1 DEF Mirada, Existe
      <3> QED BY <3>2, <3>3
    <2> QED BY <2>1, <2>2
  <1>9. IncompletoConCausa'
    <2> SUFFICES ASSUME NEW e \in Edificios, slugDe[e] # Nada, e \notin rotas \cup promovidas', ~EnCurso(e)'
                 PROVE  Completo(e)'
      BY DEF IncompletoConCausa
    <2>1. ~EnCurso(e) BY <1>7 DEF EnCurso
    <2> QED BY <1>6, <2>1 DEF IInvAlta, IncompletoConCausa, Completo
  <1> QED BY <1>3, <1>4, <1>5, <1>8, <1>9 DEF IInvAlta

LEMMA PromoverCuentaInv ==
  ASSUME AltaAssumption, IInvAlta, NEW p \in Procesos, NEW c \in Cuentas, PromoverCuenta(p, c)
  PROVE  IInvAlta'
  <1>0. /\ proceso[p] \in Proceso /\ proceso[p].pc = "fijarSuper" /\ proceso[p].edificio = Nada
        /\ cuentas[c] \in Cuenta /\ cuentas[c].usuario \in NombresSuper
        /\ conDatos \subseteq Edificios /\ rotas \subseteq Edificios
        /\ UNCHANGED <<slugDe, conDatos, aptos, rotas>>
    BY DEF PromoverCuenta, IInvAlta, TypeOKAlta, Avance, Mirada, CreaEdificio, Candidatas
  <1>1. CASE Ocupada(cuentas[c].usuario, Nada, c)
    BY <1>0, <1>1, Libre, IrInv DEF PromoverCuenta
  <1>2. CASE ~Ocupada(cuentas[c].usuario, Nada, c)
    <2>1. PICK k : k = Promover(p, c) OBVIOUS
    <2>2. /\ k \in Cuenta /\ k.usuario = cuentas[c].usuario /\ k.super /\ k.edificio = Nada
      BY <1>0, <2>1 DEF Promover, Cuenta, Proceso
    <2>3. \A d \in Cuentas \ {c} : ~(cuentas[d].usuario = k.usuario /\ cuentas[d].edificio = Nada)
      BY <1>2, <2>2 DEF Ocupada
    <2> QED BY <1>0, <1>2, <2>1, <2>2, <2>3, FijarInv DEF PromoverCuenta
  <1> QED BY <1>1, <1>2

LEMMA CrearSuperInv ==
  ASSUME AltaAssumption, IInvAlta, NEW p \in Procesos, NEW c \in Cuentas, CrearSuper(p, c)
  PROVE  IInvAlta'
  <1>0. /\ proceso[p] \in Proceso /\ proceso[p].pc = "fijarSuper" /\ proceso[p].edificio = Nada
        /\ cuentas[c].edificio = Nada /\ proceso[p].correo \in NombresSuper
        /\ conDatos \subseteq Edificios /\ rotas \subseteq Edificios
        /\ UNCHANGED <<slugDe, conDatos, aptos, rotas, promovidas>>
    BY DEF CrearSuper, IInvAlta, TypeOKAlta, Avance, Mirada, CreaEdificio, SinDatos, historia
  <1>1. CASE Ocupada(proceso[p].correo, Nada, Nada)
    BY <1>0, <1>1, Libre, IrInv DEF CrearSuper
  <1>2. CASE ~Ocupada(proceso[p].correo, Nada, Nada)
    <2>1. PICK k : k = [usuario |-> proceso[p].correo, super |-> TRUE, edificio |-> Nada,
                        clave |-> proceso[p].via] OBVIOUS
    <2>2. /\ k \in Cuenta /\ k.usuario = proceso[p].correo /\ k.super /\ k.edificio = Nada
      BY <1>0, <2>1 DEF Cuenta, Proceso, Usuarios
    <2>3. \A d \in Cuentas \ {c} : ~(cuentas[d].usuario = k.usuario /\ cuentas[d].edificio = Nada)
      BY <1>2, <2>2 DEF Ocupada, AltaAssumption
    <2>4. /\ cuentas' = [cuentas EXCEPT ![c] = k] /\ proceso' = Adelantar(p, c)
          /\ promovidas' = promovidas \cup ({cuentas[c].edificio} \ {Nada})
      BY <1>0, <1>2, <2>1 DEF CrearSuper
    <2> QED BY <1>0, <2>2, <2>3, <2>4, FijarInv
  <1> QED BY <1>1, <1>2

LEMMA GuardarInv ==
  ASSUME AltaAssumption, IInvAlta, NEW p \in Procesos, GuardarClave(p)
  PROVE  IInvAlta'
  <1>1. PICK c : c = proceso[p].cuenta OBVIOUS
  <1>0. /\ proceso[p].pc = "guardar" /\ c \in Cuentas /\ cuentas \in [Cuentas -> Cuenta]
        /\ proceso[p].edificio = Nada /\ proceso \in [Procesos -> Proceso] /\ PasarA(p, Inactivo)
        /\ cuentas' = [cuentas EXCEPT ![c].clave = "reset"]
        /\ UNCHANGED <<slugDe, conDatos, aptos, rotas, promovidas>>
    BY <1>1 DEF GuardarClave, IInvAlta, TypeOKAlta, Avance, Mirada, CreaEdificio, Proceso, historia
  <1>2. /\ cuentas' \in [Cuentas -> Cuenta]
        /\ \A d \in Cuentas : /\ cuentas'[d].usuario = cuentas[d].usuario
                              /\ cuentas'[d].edificio = cuentas[d].edificio
                              /\ cuentas'[d].super = cuentas[d].super
    BY <1>0 DEF Cuenta, Vias
  <1>3. proceso'[p] = Inactivo /\ \A q \in Procesos \ {p} : proceso'[q] = proceso[q]
    BY <1>0 DEF PasarA
  <1>4. TypeOKAlta' BY <1>0, <1>2, Libre DEF IInvAlta, TypeOKAlta, PasarA
  <1>5. SubdominioUnico' /\ IndiceUnico' /\ DeLaPlataforma' /\ SinDatos'
    BY <1>0, <1>2 DEF IInvAlta, SubdominioUnico, IndiceUnico, DeLaPlataforma, SinDatos, Existe
  <1>6. \A e : TieneAdmin(e)' <=> TieneAdmin(e) BY <1>2 DEF TieneAdmin
  <1>7. ASSUME NEW q \in Procesos PROVE Avance(proceso[q])' /\ Mirada(proceso[q])'
    <2>1. CASE q = p BY <1>3, <2>1 DEF Inactivo, Avance, Mirada, CreaEdificio
    <2>2. CASE q # p
      <3>1. /\ Avance(proceso[q]) /\ Mirada(proceso[q]) /\ proceso'[q] = proceso[q]
            /\ proceso[q].cuenta \in Cuentas \cup {Nada}
        BY <1>0, <1>3, <2>2 DEF IInvAlta, Proceso
      <3>2. Avance(proceso[q])' BY <1>0, <1>6, <3>1 DEF Avance, CreaEdificio
      <3>3. Mirada(proceso[q])' BY <1>2, <3>1 DEF Mirada, Existe
      <3> QED BY <3>2, <3>3
    <2> QED BY <2>1, <2>2
  <1>8. IncompletoConCausa'
    <2> SUFFICES ASSUME NEW e \in Edificios, slugDe[e] # Nada, e \notin rotas \cup promovidas, ~EnCurso(e)'
                 PROVE  Completo(e)'
      BY <1>0 DEF IncompletoConCausa
    <2>1. ~EnCurso(e) BY <1>0, <1>3 DEF EnCurso, AltaAssumption
    <2> QED BY <1>0, <1>6, <2>1 DEF IInvAlta, IncompletoConCausa, Completo
  <1> QED BY <1>4, <1>5, <1>7, <1>8 DEF IInvAlta

LEMMA PasoAlta == AltaAssumption /\ IInvAlta /\ [NextAlta]_varsAlta => IInvAlta'
  <1> SUFFICES ASSUME AltaAssumption, IInvAlta, [NextAlta]_varsAlta PROVE IInvAlta' OBVIOUS
  <1>1. CASE UNCHANGED varsAlta
    BY <1>1 DEF varsAlta, IInvAlta, TypeOKAlta, SubdominioUnico, IndiceUnico, DeLaPlataforma, SinDatos, Existe,
                Avance, Mirada, CreaEdificio, TieneAdmin, IncompletoConCausa, Completo, EnCurso
  <1>2. ASSUME NEW p \in Procesos, Alta(p) PROVE IInvAlta'
    BY <1>2, PedirInv, CrearEdificioInv, SembrarInv, SeguirPasosInv, CrearAdminInv, SoltarInv DEF Alta
  <1>3. ASSUME NEW p \in Procesos, Plataforma(p) PROVE IInvAlta'
    <2>1. CASE \E u \in NombresSuper : Arrancar(p, u) BY <2>1, MirarInv
    <2>2. CASE \E c \in Cuentas \cup {Nada}, u \in NombresSuper : Script(p, u, c) BY <2>2, MirarInv
    <2>4. CASE \E c \in Cuentas \cup {Nada} : BuscarSuper(p, c)
      <3>1. PICK c \in Cuentas \cup {Nada} : BuscarSuper(p, c) BY <2>4
      <3>2. PICK u \in NombresSuper : TRUE BY <3>1 DEF BuscarSuper, IInvAlta, Mirada
      <3> QED BY <3>1, <3>2, MirarInv
    <2>3. CASE \E c \in Cuentas : PromoverCuenta(p, c) \/ CrearSuper(p, c)
      BY <2>3, PromoverCuentaInv, CrearSuperInv
    <2> QED BY <1>3, <2>1, <2>2, <2>3, <2>4 DEF Plataforma
  <1>4. ASSUME NEW p \in Procesos, Reset(p) PROVE IInvAlta'
    BY <1>4, LeerAdminInv, GuardarInv DEF Reset
  <1>5. ASSUME NEW p \in Procesos, FallarAlta(p) PROVE IInvAlta' BY <1>5, SoltarInv
  <1> QED BY <1>1, <1>2, <1>3, <1>4, <1>5 DEF NextAlta

\* IInvAlta holds always: the index, the progress of each creation and the marks of
\* those that looked before the platform had its account.
LEMMA InductivoAlta == ASSUME AltaAssumption PROVE SpecAlta => []IInvAlta
  <1>1. InitAlta => IInvAlta BY InicioAlta
  <1>2. IInvAlta /\ [NextAlta]_varsAlta => IInvAlta' BY PasoAlta
  <1> QED BY <1>1, <1>2, PTL DEF SpecAlta

\* The state is always one the program can hold.
THEOREM TiposAlta == ASSUME AltaAssumption PROVE SpecAlta => []TypeOKAlta
  <1>1. IInvAlta => TypeOKAlta BY DEF IInvAlta
  <1> QED BY <1>1, InductivoAlta, PTL

\* Any number of requests for one slug make one building at most.
THEOREM UnSubdominio == ASSUME AltaAssumption PROVE SpecAlta => []SubdominioUnico
  <1>1. IInvAlta => SubdominioUnico BY DEF IInvAlta
  <1> QED BY <1>1, InductivoAlta, PTL

\* Any number of instances and scripts leave one account of the platform, of no
\* building, for each way its name is written in upper and lower case: the unique
\* index refuses whoever comes second with one of them, and tells them apart.
THEOREM UnaPlataforma == ASSUME AltaAssumption PROVE SpecAlta => []UnSuperAdmin
  <1>1. IInvAlta => UnSuperAdmin
    BY DEF IInvAlta, UnSuperAdmin, DeLaPlataforma, IndiceUnico, Existe, AltaAssumption, Usuarios
  <1> QED BY <1>1, InductivoAlta, PTL

\* A building that nobody is creating has all its apartments and an administrator,
\* unless its creation broke off or its administrator became the platform's.
THEOREM IncompletosExplicados == ASSUME AltaAssumption PROVE SpecAlta => []IncompletoConCausa
  <1>1. IInvAlta => IncompletoConCausa BY DEF IInvAlta
  <1> QED BY <1>1, InductivoAlta, PTL

\* What a step does to an account: one of the platform stays one; and who writes to
\* it, or makes another one the platform's beside it, is the script or had looked
\* before.
LEMMA PasoSuper ==
  ASSUME AltaAssumption, IInvAlta, NextAlta, NEW c \in Cuentas
  PROVE  /\ cuentas[c].super => cuentas'[c].super
         /\ cuentas'[c] # cuentas[c] /\ (cuentas[c].super \/ SeSuma(c)) =>
              \E p \in Procesos : /\ proceso[p].adelantado \/ proceso[p].via = "script"
                                  /\ proceso[p].pc # "inactivo" /\ proceso'[p] = Inactivo
  <1>0. /\ cuentas \in [Cuentas -> Cuenta] /\ proceso \in [Procesos -> Proceso]
        /\ cuentas[c].super => Existe(c)
        /\ \A p \in Procesos : Mirada(proceso[p])
    BY DEF IInvAlta, TypeOKAlta, DeLaPlataforma, Existe, AltaAssumption, Usuarios
  <1>1. PICK p \in Procesos : Alta(p) \/ Plataforma(p) \/ Reset(p) \/ FallarAlta(p) BY DEF NextAlta
  <1>2. CASE UNCHANGED cuentas BY <1>2
  <1>3. ASSUME NEW d \in Cuentas, CrearAdmin(p, d)
        PROVE  (cuentas[c].super => UNCHANGED cuentas[c]) /\ (cuentas'[c] # cuentas[c] => ~cuentas'[c].super)
    BY <1>0, <1>3 DEF CrearAdmin
  <1>4. ASSUME \E d \in Cuentas : cuentas[d].super, proceso[p].pc = "fijarSuper"
        PROVE  proceso[p].adelantado \/ proceso[p].via = "script"
    BY <1>0, <1>4 DEF Mirada
  <1>5. ASSUME NEW d \in Cuentas, PromoverCuenta(p, d) \/ CrearSuper(p, d), cuentas' # cuentas
        PROVE  /\ cuentas[c].super => cuentas'[c].super
               /\ proceso[p].pc = "fijarSuper" /\ proceso'[p] = Inactivo
    <2>1. PICK k : k.super /\ cuentas' = [cuentas EXCEPT ![d] = k]
      <3>1. CASE PromoverCuenta(p, d)
        <4>1. Promover(p, d).super BY <1>0 DEF Promover, Cuenta
        <4> QED BY <1>5, <3>1, <4>1 DEF PromoverCuenta
      <3>2. CASE CrearSuper(p, d) BY <1>5, <3>2 DEF CrearSuper
      <3> QED BY <1>5, <3>1, <3>2
    <2>2. proceso' = Adelantar(p, d) /\ proceso[p].pc = "fijarSuper"
      BY <1>5 DEF PromoverCuenta, CrearSuper
    <2>3. proceso'[p] = Inactivo BY <2>2 DEF Adelantar
    <2> QED BY <1>0, <2>1, <2>2, <2>3
  <1>6. ASSUME GuardarClave(p)
        PROVE  /\ cuentas'[c].super = cuentas[c].super
               /\ cuentas'[c] # cuentas[c] /\ cuentas[c].super =>
                    /\ proceso[p].adelantado
                    /\ proceso[p].pc # "inactivo" /\ proceso'[p] = Inactivo
    <2>1. /\ cuentas' = [cuentas EXCEPT ![proceso[p].cuenta].clave = "reset"] /\ PasarA(p, Inactivo)
          /\ proceso[p].pc = "guardar"
      BY <1>6 DEF GuardarClave
    <2>2. cuentas[c] \in Cuenta BY <1>0
    <2>3. cuentas'[c].super = cuentas[c].super BY <1>0, <2>1, <2>2 DEF Cuenta
    <2>4. cuentas'[c] # cuentas[c] => proceso[p].cuenta = c BY <1>0, <2>1
    <2>5. proceso'[p] = Inactivo BY <1>0, <2>1 DEF PasarA
    <2> QED BY <1>0, <2>1, <2>3, <2>4, <2>5 DEF Mirada
  <1>7. Alta(p) => UNCHANGED cuentas \/ \E d \in Cuentas : CrearAdmin(p, d)
    BY DEF Alta, Pedir, CrearEdificio, FijarDatos, Sembrar, Sembrado, BuscarAdmin, Responder, base
  <1>8. Plataforma(p) => UNCHANGED cuentas \/ \E d \in Cuentas : PromoverCuenta(p, d) \/ CrearSuper(p, d)
    BY DEF Plataforma, Arrancar, BuscarSuper, Script, base
  <1>9. Reset(p) \/ FallarAlta(p) => UNCHANGED cuentas \/ GuardarClave(p)
    BY DEF Reset, FallarAlta, LeerAdmin, base
  <1>10. CASE \E d \in Cuentas : CrearAdmin(p, d) BY <1>3, <1>10 DEF SeSuma
  <1>11. CASE cuentas' # cuentas /\ \E d \in Cuentas : PromoverCuenta(p, d) \/ CrearSuper(p, d)
    BY <1>4, <1>5, <1>11 DEF SeSuma
  <1>12. CASE GuardarClave(p) BY <1>6, <1>12 DEF SeSuma
  <1> QED BY <1>1, <1>2, <1>7, <1>8, <1>9, <1>10, <1>11, <1>12

\* The platform's account never becomes a building's again.
THEOREM SuperParaSiempre == ASSUME AltaAssumption PROVE SpecAlta => SuperPermanece
  <1>1. IInvAlta /\ [NextAlta]_varsAlta => [\A c \in Cuentas : cuentas[c].super => cuentas'[c].super]_varsAlta
    BY PasoSuper
  <1> QED BY <1>1, InductivoAlta, PTL DEF SpecAlta, SuperPermanece

\* Its password is written, and another account becomes the platform's beside it,
\* only by the script, or by an instance or a reset that had looked before an
\* account was the platform's.
THEOREM ClaveDelSuper == ASSUME AltaAssumption PROVE SpecAlta => SoloAdelantadosPisan
  <1>1. IInvAlta /\ [NextAlta]_varsAlta =>
          [\A c \in Cuentas :
             cuentas'[c] # cuentas[c] /\ (cuentas[c].super \/ SeSuma(c)) =>
               \E p \in Procesos : /\ proceso[p].adelantado \/ proceso[p].via = "script"
                                   /\ proceso[p].pc # "inactivo"
                                   /\ proceso'[p] = Inactivo]_varsAlta
    BY PasoSuper
  <1> QED BY <1>1, InductivoAlta, PTL DEF SpecAlta, SoloAdelantadosPisan
-----------------------------------------------------------------------------
(***************************************************************************)
(* The parts side by side, as they are model-checked.                      *)
(***************************************************************************)
LEMMA PartesPaso ==
  ASSUME [NextPartes]_todas
  PROVE  /\ [NextSuscripcion]_varsSuscripcion /\ [NextAlta]_varsAlta
         /\ [NextCobro]_varsCobro
<1>1. CASE NextPartes
  BY <1>1 DEF NextPartes
<1>2. CASE UNCHANGED todas
  BY <1>2 DEF todas
<1> QED BY <1>1, <1>2

\* A behaviour of the three side by side is one of each: what is proved of a part,
\* above or in CuentasProofs, holds where the parts are checked together.
THEOREM CadaParte == SpecPartes => SpecSuscripcion /\ SpecAlta /\ SpecCobro
<1>1. InitPartes => InitSuscripcion /\ InitAlta /\ InitCobro
  BY DEF InitPartes
<1>2. [NextPartes]_todas => /\ [NextSuscripcion]_varsSuscripcion /\ [NextAlta]_varsAlta
                            /\ [NextCobro]_varsCobro
  BY PartesPaso
<1> QED BY <1>1, <1>2, PTL DEF SpecPartes, SpecSuscripcion, SpecAlta, SpecCobro
=============================================================================
