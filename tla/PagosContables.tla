-------------------------- MODULE PagosContables --------------------------
(***************************************************************************)
(* What the payments of an apartment must add up to: each receipt's ledger *)
(* (by running totals, which a proof can extend entry by entry) and the    *)
(* apartment's accounts (by sums over its receipts, which TLC adds up).    *)
(***************************************************************************)
EXTENDS Pagos, Totales, SequencesExt

\* the entries of a ledger add up to total: it is the last of their running totals
Suman(abonos, total) ==
  \E acumulado \in [0 .. Len(abonos) -> 0 .. total] :
    /\ acumulado[0] = 0 /\ acumulado[Len(abonos)] = total
    /\ \A i \in DOMAIN abonos : acumulado[i] = acumulado[i - 1] + abonos[i].monto

Entradas(abonos, p) == {i \in DOMAIN abonos : abonos[i].pago = p}
AbonosDe(r, p) == Entradas(recibos[r].abonos, p)

\* The entries of a receipt's ledger explain its montoPagado, although the two
\* fields are set from a copy by requests that overwrite each other.
LibroCuadra == \A r \in Emitidos : Suman(recibos[r].abonos, recibos[r].montoPagado)

\* A receipt holds at most one entry of a payment for each time the payment was
\* accepted, also when an acceptance dies half way and is repeated.
UnAbonoPorAceptacion ==
  \A r \in Emitidos, p \in Pagos : Cardinality(AbonosDe(r, p)) <= aceptaciones[p]

\* An entry of a ledger disappears only under a write of an acceptance that has
\* overlapped another one: served one at a time, even with requests that die
\* half way, receipts only gain entries.
SoloSolapadasPierden ==
  [][\A r \in Emitidos :
       \/ IsPrefix(recibos[r].abonos, recibos'[r].abonos)
       \/ \E s \in Sesiones : ses'[s] # ses[s] /\ ses[s].solapada]_vars

(***************************************************************************)
(* The accounts.  ingresado is the money the accepted payments brought in, *)
(* Fondo the part of it no receipt and no credit holds: what the request   *)
(* in flight still has in its hands.                                       *)
(***************************************************************************)
ingresos ==
  [p \in Pagos |-> IF pagos[p] = NoExiste THEN 0 ELSE aceptaciones[p] * pagos[p].monto]
ingresado ==
  (IF CreditoInicial = NoExiste THEN 0 ELSE CreditoInicial) + Suma(ingresos, Pagos)
montoUsd == [r \in Recibos |-> IF recibos[r] = NoExiste THEN 0 ELSE recibos[r].montoUsd]
montoPagado ==
  [r \in Recibos |-> IF recibos[r] = NoExiste THEN 0 ELSE recibos[r].montoPagado]

Mayor == INSTANCE LibroMayor WITH disponible <- MontoCredito

\* Served one at a time and without failures, an apartment's requests keep the
\* accounts of LibroMayor: no credit is spent twice or invented.
LlevaElLibro == Mayor!Spec

\* With no request in flight the cached credit is the stored one.
CacheAlDia == EnVuelo = {} => cacheAbono \in {NoCache, MontoCredito}

\* "se consume al aplicar a nuevos recibos": credit that pays a receipt is spent,
\* so receipts and credit never hold more than was paid in.
CreditoSeConsume == Mayor!Fondo >= 0

\* "Se genera cuando paga por encima de la deuda": when a request has ended, what
\* it brought in beyond the debt is credit.
ExcedenteSeAcredita == EnVuelo = {} => Mayor!Fondo <= 0
-----------------------------------------------------------------------------
(***************************************************************************)
(* The inductive invariant of the first three.  The copy of a receipt      *)
(* balances as the receipt does.  It is the receipt itself as long as no   *)
(* other acceptance has been in flight.  And of the times a payment was    *)
(* accepted, those whose request may still write a receipt's entry are not *)
(* in the receipt's ledger yet, nor in any copy of it.                     *)
(***************************************************************************)
CopiasCuadran ==
  \A s \in Sesiones, r \in Recibos : ses[s].copia[r] # NoExiste =>
    Suman(ses[s].copia[r].abonos, ses[s].copia[r].montoPagado)

Solape ==
  /\ \A s \in Sesiones : ses[s].pc = "inactiva" => ses[s].pago = NoPago
  /\ \A s, t \in Sesiones :
       s # t /\ ses[s].pago # NoPago /\ ses[t].pago # NoPago => ses[s].solapada
  /\ \A s \in Sesiones, r \in Recibos : ses[s].copia[r] # NoExiste =>
       ses[s].pago # NoPago /\ (ses[s].solapada \/ ses[s].copia[r] = recibos[r])

\* the requests that may still write an entry of p to r
PorAnotar(r, p) == {s \in Sesiones : ses[s].pago = p /\ r \notin ses[s].ids}

CabenEn(doc, r) ==
  \A p \in Pagos :
    Cardinality(Entradas(doc.abonos, p)) + Cardinality(PorAnotar(r, p)) <= aceptaciones[p]

Cuentas ==
  /\ \A s \in Sesiones :
       /\ ses[s].ids # {} => ses[s].pc = "bulk" /\ ses[s].porLeer = {}
       /\ \A r \in Recibos : ses[s].copia[r] # NoExiste =>
            r \notin ses[s].ids /\ CabenEn(ses[s].copia[r], r)
  /\ \A r \in Emitidos : CabenEn(recibos[r], r)
  /\ \A r \in Recibos, p \in Pagos :
       IsFiniteSet(PorAnotar(r, p)) /\ Cardinality(PorAnotar(r, p)) <= aceptaciones[p]

IInvContable == IInv /\ LibroCuadra /\ CopiasCuadran /\ Solape /\ Cuentas

\* Served one at a time, without failures: one request is in flight at most,
\* what it has read of the credit is true, and the cache is only behind while
\* that request is about to delete it.
EnSerie ==
  /\ IsFiniteSet(EnVuelo) /\ Cardinality(EnVuelo) <= 1
  /\ \A s \in Sesiones : ses[s].pc = "fijar" => ses[s].leido = MontoCredito
  /\ (\A s \in Sesiones : ses[s].pc # "invalidar") => cacheAbono \in {NoCache, MontoCredito}

\* What a request has in its hands of the money paid in: first the payment it
\* accepts, then what it has computed to credit and to apply, less the part of the
\* credit it has still to take.
PorCalcular == {"deuda", "cache", "doc", "fijar"}
EnMano(docs, sesion) ==
  IF sesion.pc \in PorCalcular
  THEN IF sesion.pago = NoPago THEN 0 ELSE docs[sesion.pago].monto
  ELSE sesion.excess + sesion.resto - sesion.deAbono

\* What it has read and computed is true: its share of the credit is there.
EnCuenta(sesion, disponible) ==
  /\ sesion.deAbono <= disponible /\ sesion.deAbono <= sesion.resto
  /\ sesion.pc = "agregar" <=> sesion.excess > 0
  /\ sesion.pc \in {"fijar", "guardar"} => sesion.leido = disponible
  /\ sesion.pc = "bulk" => sesion.deAbono = 0

Precios ==
  \A p \in Pagos : IF pagos[p] = NoExiste THEN aceptaciones[p] = 0 ELSE pagos[p].monto > 0

\* An acceptance, alone, has no more in its hands than no receipt and no credit holds.
EnSola(s) ==
  /\ ~ ses[s].solapada
  /\ EnCuenta(ses[s], MontoCredito)
  /\ EnMano(pagos, ses[s]) <= Mayor!Fondo

\* Served one at a time, that is so of the request in flight.
Fondos ==
  /\ Mayor!Fondo \in Nat /\ Precios
  /\ \A s \in Sesiones : ses[s].pago # NoPago => EnSola(s)
=============================================================================
