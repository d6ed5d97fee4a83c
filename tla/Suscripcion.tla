---------------------------- MODULE Suscripcion ----------------------------
(***************************************************************************)
(* The subscription of one building: BuildingsService.renovarSuscripcion,  *)
(* suspender and marcarVencido, and SubscriptionGuard, which rules on      *)
(* every request to the building's portal and has an expired subscription  *)
(* marked without waiting for the mark.                                    *)
(*                                                                         *)
(* Time is counted in days.  A request takes one step when MongoDB serves  *)
(* it and one when its process goes on with the answer, so that other      *)
(* requests and the end of a day come in between.                          *)
(***************************************************************************)
EXTENDS Integers, Sequences, SequencesExt

CONSTANTS
  Peticiones,           \* HTTP requests that may be in flight together
  Dias,                 \* days a renewal may add
  DiasPrueba,           \* days of trial of a new building, 14 in the code
  DiasGracia,           \* days of grace, 3 unless the building says otherwise
  MaxDia,               \* bound: the last day
  MaxRenovaciones,      \* bound: renewals of the building
  SuscripcionConFallos  \* a request may die, an update may be rejected

ASSUME DiasAssumption ==
  /\ Dias \subseteq Nat \ {0}
  /\ DiasPrueba \in Nat
  /\ DiasGracia \in Nat
  /\ MaxDia \in Nat
  /\ MaxRenovaciones \in Nat
  /\ SuscripcionConFallos \in BOOLEAN

Renovacion == [fecha : Nat, dias : Nat]
Estados == {"trial", "activo", "vencido", "suspendido"}
Building == [activo : BOOLEAN, estado : Estados, hasta : Nat, historial : Seq(Renovacion)]

VARIABLES
  hoy,       \* the day
  edificio,  \* the building's document
  peticion,  \* the requests in flight
  causas     \* history: updates decided upon a building that was renewed meanwhile

varsSuscripcion == <<hoy, edificio, peticion, causas>>

Causas == {"renovacion", "marca"}

\* estado and hasta are what the request has read of the building, or in
\* "escribir" the date it is going to set; superada is history: the building has
\* been renewed since it was read.
PasosSuscripcion == {"inactiva", "guardia", "marcar", "calcular", "escribir"}
Peticion == [pc : PasosSuscripcion, estado : Estados, hasta : Nat, fecha : Nat, dias : Nat,
             superada : BOOLEAN]
SinPeticion == [pc |-> "inactiva", estado |-> "trial", hasta |-> 0, fecha |-> 0, dias |-> 0,
             superada |-> FALSE]

TypeOKSuscripcion ==
  /\ hoy \in 0 .. MaxDia
  /\ edificio \in Building
  /\ peticion \in [Peticiones -> Peticion]
  /\ causas \subseteq Causas

\* BuildingsService.create, on day 0
InitSuscripcion ==
  /\ hoy = 0
  /\ edificio = [activo |-> TRUE, estado |-> "trial", hasta |-> DiasPrueba, historial |-> <<>>]
  /\ peticion = [s \in Peticiones |-> SinPeticion]
  /\ causas = {}

Amanecer ==
  /\ hoy < MaxDia
  /\ hoy' = hoy + 1
  /\ UNCHANGED <<edificio, peticion, causas>>

IrPeticion(s, p) == peticion' = [peticion EXCEPT ![s] = p]

(***************************************************************************)
(* BuildingContextGuard and SubscriptionGuard.                             *)
(***************************************************************************)

\* Faulty variants (here and below, defined before what they stand in for): each
\* is a slip the code could have, and breaks one of the properties.
AccesoSinGracia(estado, hasta) ==
  IF estado = "suspendido" THEN "suspendido"
  ELSE IF hoy > hasta THEN "vencido" ELSE "libre"

\* evaluarAccesoPortal; estado "vencido" alone blocks nothing
Acceso(estado, hasta) ==
  IF estado = "suspendido" THEN "suspendido"
  ELSE IF hoy > hasta + DiasGracia THEN "vencido" ELSE "libre"

LeerEdificio(s) ==
  /\ peticion[s].pc = "inactiva"
  /\ IrPeticion(s, [SinPeticion EXCEPT !.pc = "guardia", !.estado = edificio.estado, !.hasta = edificio.hasta])
  /\ UNCHANGED <<hoy, edificio, causas>>

\* let in or turned away; the update of an expired one is left in flight
Evaluar(s) ==
  /\ peticion[s].pc = "guardia"
  /\ LET acceso == Acceso(peticion[s].estado, peticion[s].hasta)
     IN IrPeticion(s, IF acceso = "vencido" /\ peticion[s].estado # "vencido"
                      THEN [peticion[s] EXCEPT !.pc = "marcar"] ELSE SinPeticion)
  /\ UNCHANGED <<hoy, edificio, causas>>

MarcarVencidoSinFiltro(s) ==
  /\ peticion[s].pc = "marcar"
  /\ edificio' = [edificio EXCEPT !.estado = "vencido"]
  /\ causas' = causas \cup (IF peticion[s].superada THEN {"marca"} ELSE {})
  /\ IrPeticion(s, SinPeticion)
  /\ UNCHANGED hoy

\* updateOne with the filter estadoSuscripcion: { $ne: 'suspendido' }
MarcarVencido(s) ==
  /\ peticion[s].pc = "marcar"
  /\ edificio' = IF edificio.estado = "suspendido" THEN edificio
                 ELSE [edificio EXCEPT !.estado = "vencido"]
  /\ causas' = causas \cup (IF peticion[s].superada THEN {"marca"} ELSE {})
  /\ IrPeticion(s, SinPeticion)
  /\ UNCHANGED hoy

(***************************************************************************)
(* The super administrator.                                                *)
(***************************************************************************)

LeerRenovacion(s, dias) ==
  /\ peticion[s].pc = "inactiva"
  /\ IrPeticion(s, [SinPeticion EXCEPT !.pc = "calcular", !.hasta = edificio.hasta, !.dias = dias])
  /\ UNCHANGED <<hoy, edificio, causas>>

CalcularDesdeHoy(s) ==
  /\ peticion[s].pc = "calcular"
  /\ IrPeticion(s, [peticion[s] EXCEPT !.pc = "escribir", !.fecha = hoy, !.hasta = hoy + peticion[s].dias])
  /\ UNCHANGED <<hoy, edificio, causas>>

\* the days are added to what is left, or to today
Calcular(s) ==
  /\ peticion[s].pc = "calcular"
  /\ IrPeticion(s, [peticion[s] EXCEPT !.pc = "escribir", !.fecha = hoy,
                       !.hasta = (IF @ > hoy THEN @ ELSE hoy) + peticion[s].dias])
  /\ UNCHANGED <<hoy, edificio, causas>>

\* findByIdAndUpdate: $set of estado, date and activo, $push of the entry
Renovar(s) ==
  /\ peticion[s].pc = "escribir"
  /\ Len(edificio.historial) < MaxRenovaciones
  /\ edificio' = [activo |-> TRUE, estado |-> "activo", hasta |-> peticion[s].hasta,
                  historial |-> Append(edificio.historial,
                                       [fecha |-> peticion[s].fecha, dias |-> peticion[s].dias])]
  /\ causas' = causas \cup (IF peticion[s].superada THEN {"renovacion"} ELSE {})
  /\ peticion' = [t \in Peticiones |->
       IF t = s \/ peticion[t].pc = "inactiva" THEN SinPeticion
       ELSE [peticion[t] EXCEPT !.superada = TRUE]]
  /\ UNCHANGED hoy

Suspender ==
  /\ edificio' = [edificio EXCEPT !.estado = "suspendido", !.activo = FALSE]
  /\ UNCHANGED <<hoy, peticion, causas>>

\* an await rejects (of a mark, nobody notices), or the process dies
Fallar(s) ==
  /\ SuscripcionConFallos
  /\ peticion[s].pc # "inactiva"
  /\ IrPeticion(s, SinPeticion)
  /\ UNCHANGED <<hoy, edificio, causas>>

PasoPeticion(s) ==
  \/ LeerEdificio(s) \/ Evaluar(s) \/ MarcarVencido(s)
  \/ (\E dias \in Dias : LeerRenovacion(s, dias)) \/ Calcular(s) \/ Renovar(s)
  \/ Fallar(s)

NextSuscripcion == Amanecer \/ Suspender \/ \E s \in Peticiones : PasoPeticion(s)

SpecSuscripcion == InitSuscripcion /\ [][NextSuscripcion]_varsSuscripcion
-----------------------------------------------------------------------------
\* activo and estadoSuscripcion, which two handlers and the unawaited mark set
\* separately, never disagree about a suspension.
ActivoSegunEstado == edificio.activo <=> edificio.estado # "suspendido"

\* A suspension is lifted by a recorded renewal and by nothing else: not by the
\* mark of a request that found the subscription expired before it.
SoloRenovarLevanta ==
  [][edificio.estado = "suspendido" =>
       \/ edificio'.estado = "suspendido"
       \/ Len(edificio'.historial) > Len(edificio.historial)]_varsSuscripcion

\* The end of the subscription is what the recorded renewals add up to, each from
\* its own day on, unless two of them have overlapped.
Alargar(hasta, r) == (IF hasta > r.fecha THEN hasta ELSE r.fecha) + r.dias
HastaSegun(historial) == FoldLeft(Alargar, DiasPrueba, historial)
HistorialExplica ==
  "renovacion" \in causas \/ edificio.hasta = HastaSegun(edificio.historial)

\* Only an expired subscription is marked vencido, grace included, unless it has
\* been renewed while the mark was on its way.
VencidoConRazon ==
  edificio.estado = "vencido" => hoy > edificio.hasta + DiasGracia \/ "marca" \in causas
-----------------------------------------------------------------------------
(***************************************************************************)
(* The inductive invariant: as long as the building has not been renewed,  *)
(* what a request has read of its date is still true, a mark on its way is *)
(* justified, and the date of a renewal on its way is the one its entry    *)
(* will explain.                                                           *)
(***************************************************************************)
LecturaVigente(s) ==
  ~peticion[s].superada =>
    /\ peticion[s].pc \in {"guardia", "marcar", "calcular"} => peticion[s].hasta = edificio.hasta
    /\ peticion[s].pc = "marcar" => hoy > edificio.hasta + DiasGracia
    /\ peticion[s].pc = "escribir" =>
         peticion[s].hasta = Alargar(edificio.hasta,
                                     [fecha |-> peticion[s].fecha, dias |-> peticion[s].dias])

IInvSuscripcion ==
  /\ TypeOKSuscripcion
  /\ ActivoSegunEstado
  /\ VencidoConRazon
  /\ HistorialExplica
  /\ \A s \in Peticiones : LecturaVigente(s)
=============================================================================
