---------------------------- MODULE LibroMayor ----------------------------
(***************************************************************************)
(* What accepting payments promises, as the accounts of one apartment:     *)
(* money comes in with an accepted payment, is laid down on a receipt or   *)
(* as credit, and credit can be taken up again to pay receipts.            *)
(***************************************************************************)
EXTENDS Integers, Totales

CONSTANT Recibos

VARIABLES
  ingresado,    \* what the accepted payments (and the initial credit) brought in
  disponible,   \* the apartment's credit
  montoUsd,     \* what each receipt was issued for
  montoPagado   \* what was laid down on it

cuentas == <<ingresado, disponible, montoUsd, montoPagado>>

\* the money that neither a receipt nor the credit holds
Fondo == ingresado - disponible - Suma(montoPagado, Recibos)

Init ==
  /\ disponible \in Nat /\ ingresado = disponible
  /\ montoUsd = [r \in Recibos |-> 0]
  /\ montoPagado = [r \in Recibos |-> 0]

Emitir(r) ==
  /\ montoUsd[r] = 0
  /\ montoUsd' \in [Recibos -> Nat]
  /\ \A q \in Recibos \ {r} : montoUsd'[q] = montoUsd[q]
  /\ UNCHANGED <<ingresado, disponible, montoPagado>>

Ingresar ==
  /\ ingresado' > ingresado
  /\ UNCHANGED <<disponible, montoUsd, montoPagado>>

Acreditar ==
  /\ disponible' \in (disponible + 1) .. (disponible + Fondo)
  /\ UNCHANGED <<ingresado, montoUsd, montoPagado>>

Tomar ==
  /\ disponible' \in 0 .. disponible
  /\ UNCHANGED <<ingresado, montoUsd, montoPagado>>

Abonar(r) ==
  /\ \E m \in 1 .. Fondo :
       /\ montoPagado[r] + m <= montoUsd[r]
       /\ montoPagado' = [montoPagado EXCEPT ![r] = @ + m]
  /\ UNCHANGED <<ingresado, disponible, montoUsd>>

Next ==
  \/ \E r \in Recibos : Emitir(r) \/ Abonar(r)
  \/ Ingresar
  \/ Acreditar
  \/ Tomar

Spec == Init /\ [][Next]_cuentas
=============================================================================
