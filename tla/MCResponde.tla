----------------------------- MODULE MCResponde -----------------------------
(***************************************************************************)
(* What must happen in the end, under the fairness each part states: the   *)
(* small instances of the read model of the report, the exchange rate and  *)
(* the cached listings beside those of the Excel jobs.  A behaviour is     *)
(* about one of them, parte, as in MCServicios; the others stay as they    *)
(* begin, where none of their fair actions is enabled.                     *)
(***************************************************************************)
EXTENDS ExcelJobs

CONSTANTS
  Escritores, Tareas, Lectores, Intentos, MaxPeticiones, NoCache, LibreCerrojo,
  Servidores, Llamadas, Filtros,
  j1, w1, w2, e1, t1, t2, l1, i1, i2, c1, c2, f1, nada

VARIABLES
  parte,
  datos, reporte, cacheReporte, cerrojo, programados, guion, act, pedidas, motivos,
  hoy, publicadas, cacheTasa, pendientes, llamada, provisionales,
  version, cacheListas, escritor, lector, excusas

Cobr == INSTANCE CobranzaSnapshot WITH
  Peticiones <- {"emitir"}, Libre <- LibreCerrojo,
  snapshot <- reporte, cache <- cacheReporte, peticiones <- pedidas, causas <- motivos

Tasa == INSTANCE TasaBcv WITH
  MaxDia <- 0, Fechas <- {0}, MaxDiasHistoria <- 1, TasaConFallos <- ConFallos, Ninguna <- nada

List == INSTANCE ListadoCache WITH
  Instancias <- {i1}, SinRedis <- {}, MaxVersion <- 1, cache <- cacheListas

ASSUME RespondeAssumption ==
  Cobr!ActoresAssumption /\ Cobr!SinDatosAssumption /\ Tasa!TasaAssumption
    /\ List!ListadoAssumption

Partes == {"cobranza", "excel", "tasa", "listados"}

deCobranza ==
  <<datos, reporte, cacheReporte, cerrojo, programados, guion, act, pedidas, motivos>>
deExcel == <<snapshot, peticion, docs, cola, estancos, archivos, turno, causas>>
deTasa == <<hoy, publicadas, cacheTasa, pendientes, llamada, provisionales>>
deListados == <<version, cacheListas, escritor, lector, excusas>>
todas == <<parte, deCobranza, deExcel, deTasa, deListados>>

InitPartes ==
  /\ parte \in Partes
  /\ Cobr!Init /\ Init /\ Tasa!InitTasa /\ List!Init
  /\ parte # "cobranza" => reporte = NoExiste

NextPartes ==
  \/ /\ parte = "cobranza" /\ Cobr!Next
     /\ UNCHANGED <<parte, deExcel, deTasa, deListados>>
  \/ /\ parte = "excel" /\ Next
     /\ UNCHANGED <<parte, deCobranza, deTasa, deListados>>
  \/ /\ parte = "tasa" /\ Tasa!NextTasa
     /\ UNCHANGED <<parte, deCobranza, deExcel, deListados>>
  \/ /\ parte = "listados" /\ List!Next
     /\ UNCHANGED <<parte, deCobranza, deExcel, deTasa>>

SpecPartes ==
  /\ InitPartes /\ [][NextPartes]_todas
  /\ Cobr!Justicia /\ Justicia /\ Tasa!JusticiaTasa /\ List!Justicia
-----------------------------------------------------------------------------
\* The properties of the parts, stated where they are defined.
CacheConverge == Cobr!CacheConverge
LectorResponde == Cobr!LectorResponde
CerrojoSeLibera == Cobr!CerrojoSeLibera
SiempreRespondida == Tasa!SiempreRespondida
ListadoConverge == List!ListadoConverge
=============================================================================
