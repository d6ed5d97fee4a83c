------------------------------- MODULE Cobro -------------------------------
(***************************************************************************)
(* The collection report of one apartment while its payments are being     *)
(* accepted: CobranzaReportService.build beside the sessions of Pagos.     *)
(*                                                                         *)
(* build sends its queries at once and none is a snapshot: each receipt    *)
(* and the credit document are read at a moment of their own, and any      *)
(* step of a session may fall between two of these reads.  The apartment,  *)
(* its owner and the payments under review are columns of the row that do  *)
(* not enter its category, and are left out.                               *)
(***************************************************************************)
EXTENDS Pagos, Totales

VARIABLE informe   \* the request that builds the report

(***************************************************************************)
(* porLeer and falta say which reads are outstanding; saldoBruto and       *)
(* abonoUsd are the sums so far.  vistas and causas are history: the       *)
(* categories the apartment has been in since the build began, and what    *)
(* has made it owe more, or have less credit, meanwhile.                   *)
(***************************************************************************)
Categorias == {"al_dia", "moroso"}
Informe == [pc : {"sin_pedir", "leyendo", "listo"}, porLeer : SUBSET Recibos,
            falta : BOOLEAN, saldoBruto : Nat, abonoUsd : Nat,
            vistas : SUBSET Categorias, causas : SUBSET {"emision", "consumo", "solapada"}]

SinPedir == [pc |-> "sin_pedir", porLeer |-> {}, falta |-> FALSE, saldoBruto |-> 0,
             abonoUsd |-> 0, vistas |-> {}, causas |-> {}]

TypeOKCobro ==
  /\ TypeOK /\ informe \in Informe
  /\ informe.pc # "leyendo" => informe.porLeer = {} /\ ~informe.falta

InitCobro == Init /\ informe = SinPedir

\* a receipt without balance is not among those the query returns
saldoRecibo(doc) == IF TieneSaldo(doc) THEN Saldo(doc) ELSE 0

calcularSaldoNetoSinAbono(saldoBruto, abono) == saldoBruto

calcularSaldoNeto(saldoBruto, abono) == saldoBruto - Menor(saldoBruto, abono)

clasificarApartamento(saldoNeto) == IF saldoNeto > 0 THEN "moroso" ELSE "al_dia"

\* the category of the row, from what has been read
categoria ==
  clasificarApartamento(calcularSaldoNeto(informe.saldoBruto, informe.abonoUsd))

\* the gross balance as it is stored now
saldos == [r \in Recibos |-> saldoRecibo(recibos[r])]
Deuda == Suma(saldos, Recibos)

\* what one consistent reading of the database would answer
CategoriaReal == IF Deuda <= MontoCredito THEN "al_dia" ELSE "moroso"

EmpezarInforme ==
  /\ informe.pc = "sin_pedir"
  /\ informe' = [SinPedir EXCEPT !.pc = "leyendo", !.porLeer = Recibos, !.falta = TRUE,
                                 !.vistas = {CategoriaReal}]
  /\ UNCHANGED vars

LeerRecibo(r) ==
  /\ informe.pc = "leyendo" /\ r \in informe.porLeer
  /\ informe' = [informe EXCEPT !.porLeer = @ \ {r},
                                !.saldoBruto = @ + saldoRecibo(recibos[r])]
  /\ UNCHANGED vars

LeerCredito ==
  /\ informe.pc = "leyendo" /\ informe.falta
  /\ informe' = [informe EXCEPT !.falta = FALSE, !.abonoUsd = MontoCredito]
  /\ UNCHANGED vars

TerminarInforme ==
  /\ informe.pc = "leyendo" /\ informe.porLeer = {} /\ ~informe.falta
  /\ informe' = [informe EXCEPT !.pc = "listo"]
  /\ UNCHANGED vars

\* a step of Pagos while the report is being built, and its cause for concern
Emision == \E r \in Recibos : recibos[r] = NoExiste /\ recibos'[r] # NoExiste
Consumo == MontoCredito' < MontoCredito
Solapada == \E s \in Sesiones :
  ses[s].solapada /\ ses'[s] # ses[s] /\ recibos' # recibos

Observar ==
  informe' = IF informe.pc # "leyendo" THEN informe
             ELSE [informe EXCEPT
                     !.vistas = @ \cup {CategoriaReal'},
                     !.causas = @ \cup (IF Emision THEN {"emision"} ELSE {})
                                  \cup (IF Consumo THEN {"consumo"} ELSE {})
                                  \cup (IF Solapada THEN {"solapada"} ELSE {})]

NextCobro ==
  \/ Next /\ Observar
  \/ EmpezarInforme
  \/ \E r \in Recibos : LeerRecibo(r)
  \/ LeerCredito
  \/ TerminarInforme

varsCobro == <<vars, informe>>
SpecCobro == InitCobro /\ [][NextCobro]_varsCobro
-----------------------------------------------------------------------------
\* The queries of build are not a snapshot, and yet the category it reports was
\* the apartment's at some moment of the build: acceptances only pay debts and add
\* credit.  What may break this is a receipt issued meanwhile, credit that is being
\* spent on a debt (read before the one and after the other, it counts twice), and
\* an acceptance that writes over what an overlapping one has paid.
CategoriaExplicada ==
  informe.pc = "listo" /\ informe.causas = {} => categoria \in informe.vistas

(***************************************************************************)
(* Why: while none of the causes occurs, balances only fall and the credit *)
(* only grows.  So what has been read of the balances is at least what     *)
(* they are now, and what has been read of the credit at most; and if the  *)
(* apartment has never been in arrears meanwhile, then all that will have  *)
(* been read of the one is covered by what will have been read of the      *)
(* other.                                                                  *)
(***************************************************************************)
abonoPorLeer == IF informe.falta THEN MontoCredito ELSE informe.abonoUsd

Lectura ==
  /\ CategoriaReal \in informe.vistas
  /\ Suma(saldos, Recibos \ informe.porLeer) <= informe.saldoBruto
  /\ abonoPorLeer <= MontoCredito
  /\ "moroso" \notin informe.vistas =>
       informe.saldoBruto + Suma(saldos, informe.porLeer) <= abonoPorLeer

IInvCobro ==
  /\ TypeOKCobro
  /\ CategoriaExplicada
  /\ informe.pc = "leyendo" /\ informe.causas = {} => Lectura
=============================================================================
