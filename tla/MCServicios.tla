----------------------------- MODULE MCServicios -----------------------------
(***************************************************************************)
(* Small instances of the parts of the server that share no state, in one  *)
(* run: a behaviour is about one of them, parte, and the others stay as    *)
(* they begin.  Their interleavings would add states and nothing else.     *)
(* Requests, ids and e-mails are the same small sets in all of them.       *)
(***************************************************************************)
EXTENDS ListadoCache, TasaBcv, Archivos, Propietarios, AvisosLeidos, Comprobantes, TLC

CONSTANTS e1, l1, i1, i2, r1, r2, o1, o2, u1, u2, u3, ana, luis, k1, k2, nada

VARIABLE parte

\* one of the four apartments is missing
MCApartamentos == (Pisos \X Numeros) \ {<<2, 2>>}
SinCambios == [piso |-> nada, numero |-> nada, correo |-> nada, activo |-> nada, clave |-> nada]
MCCambios ==
  {[SinCambios EXCEPT !.piso = 2, !.clave = k1],
   [SinCambios EXCEPT !.numero = 2, !.activo = TRUE, !.correo = luis]}

\* the second building has no notice: its visits pass over those of the first
MCEdificioDe == [a \in Avisos |-> "este"]

ASSUME ServiciosAssumption == ListadoAssumption /\ TasaAssumption /\ ArchivosAssumption

Partes == {"propietarios", "tasa", "avisos", "archivos", "comprobantes", "listados"}

todas == <<parte, varsPropietarios, varsTasa, varsAvisos, varsArchivos, varsComprobantes, vars>>

InitPartes ==
  /\ parte \in Partes
  /\ InitPropietarios /\ InitTasa /\ InitAvisos /\ InitArchivos /\ InitComprobantes /\ Init

NextPartes ==
  \/ /\ parte = "propietarios" /\ NextPropietarios
     /\ UNCHANGED <<parte, varsTasa, varsAvisos, varsArchivos, varsComprobantes, vars>>
  \/ /\ parte = "tasa" /\ NextTasa
     /\ UNCHANGED <<parte, varsPropietarios, varsAvisos, varsArchivos, varsComprobantes, vars>>
  \/ /\ parte = "avisos" /\ NextAvisos
     /\ UNCHANGED <<parte, varsPropietarios, varsTasa, varsArchivos, varsComprobantes, vars>>
  \/ /\ parte = "archivos" /\ NextArchivos
     /\ UNCHANGED <<parte, varsPropietarios, varsTasa, varsAvisos, varsComprobantes, vars>>
  \/ /\ parte = "comprobantes" /\ NextComprobantes
     /\ UNCHANGED <<parte, varsPropietarios, varsTasa, varsAvisos, varsArchivos, vars>>
  \/ /\ parte = "listados" /\ Next
     /\ UNCHANGED <<parte, varsPropietarios, varsTasa, varsAvisos, varsArchivos, varsComprobantes>>

SpecPartes == InitPartes /\ [][NextPartes]_todas

MCSimetria == Permutations(Peticiones) \cup Permutations(Duenos)
=============================================================================
