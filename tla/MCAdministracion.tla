-------------------------- MODULE MCAdministracion --------------------------
(***************************************************************************)
(* Small instances of what the platform and the administrator of a         *)
(* building look after: the creation of buildings and their accounts, the  *)
(* subscription of one building, and the collection report of one          *)
(* apartment while payments are accepted.  None reads state of another: a  *)
(* behaviour is about one of them, parte, and the others stay as they      *)
(* begin.                                                                  *)
(***************************************************************************)
EXTENDS Suscripcion, AltaEdificio, Cobro

CONSTANTS q1, q2, o1, o2, u1, u2, u3, s1, s2, ana, Ana, luis, nada

VARIABLE parte

ASSUME AdministracionAssumption == AltaAssumption

Partes == {"alta", "suscripcion", "cobro"}

todas == <<parte, varsAlta, varsSuscripcion, varsCobro>>

InitPartes == parte \in Partes /\ InitAlta /\ InitSuscripcion /\ InitCobro

NextPartes ==
  \/ parte = "alta" /\ NextAlta /\ UNCHANGED <<parte, varsSuscripcion, varsCobro>>
  \/ parte = "suscripcion" /\ NextSuscripcion /\ UNCHANGED <<parte, varsAlta, varsCobro>>
  \/ parte = "cobro" /\ NextCobro /\ UNCHANGED <<parte, varsAlta, varsSuscripcion>>

SpecPartes == InitPartes /\ [][NextPartes]_todas

\* every payment declares the months of both receipts
MCCoincide == [p \in Pagos |-> Recibos]

\* u1 is the payment too
MCSimetria ==
  UNION {Permutations(S) : S \in {Peticiones, Edificios, Slugs, Cuentas \ Pagos}}
=============================================================================
