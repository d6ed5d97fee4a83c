---------------------------- MODULE PagosProofs ----------------------------
(***************************************************************************)
(* What holds of an apartment's receipts and payments for any number of    *)
(* receipts, payments and requests in flight.                              *)
(***************************************************************************)
EXTENDS PagosContables, FiniteSetTheorems, TLAPS

(***************************************************************************)
(* What the operators of Pagos return.                                     *)
(***************************************************************************)

\* the lesser of two amounts is one of them and an amount
LEMMA MenorCota ==
  ASSUME NEW a \in Nat, NEW b \in Nat
  PROVE  /\ Menor(a, b) \in Nat
         /\ Menor(a, b) <= a /\ Menor(a, b) <= b
         /\ Menor(a, b) = a \/ Menor(a, b) = b
BY DEF Menor

\* splitting a payment never asks for a negative amount
LEMMA CalculoTipo ==
  ASSUME NEW montoPago \in Nat, NEW totalDeuda \in Nat, NEW abono \in Nat
  PROVE  LET c == calcularAplicacionPagoConAbono(montoPago, totalDeuda, abono)
         IN  c.excess \in Nat /\ c.amountFromAbono \in Nat /\ c.totalToApply \in Nat
<1>1. Menor(montoPago, totalDeuda) \in Nat /\ Menor(montoPago, totalDeuda) <= totalDeuda
      /\ Menor(montoPago, totalDeuda) <= montoPago
  BY MenorCota
<1>2. totalDeuda - Menor(montoPago, totalDeuda) \in Nat
  BY <1>1
<1>3. Menor(abono, totalDeuda - Menor(montoPago, totalDeuda)) \in Nat
  BY <1>2, MenorCota
<1> QED BY <1>1, <1>3 DEF calcularAplicacionPagoConAbono

\* writing what was computed from a copy leaves a receipt
LEMMA FijarTipo ==
  ASSUME NEW doc \in Recibo, NEW copia \in Recibo, NEW p \in Pagos, NEW monto \in Nat
  PROVE  Fijar(doc, ConAbono(copia, p, monto)) \in Recibo
<1>1. [pago |-> p, monto |-> monto] \in Abono
  BY DEF Abono
<1>2. Append(copia.abonos, [pago |-> p, monto |-> monto]) \in Seq(Abono)
  BY <1>1 DEF Recibo
<1> QED BY <1>2 DEF ConAbono, Fijar, Recibo

\* the owed part of a receipt with a balance is a positive amount
LEMMA SaldoTipo ==
  ASSUME NEW doc \in Recibo \cup {NoExiste}, TieneSaldo(doc)
  PROVE  doc \in Recibo /\ Saldo(doc) \in Nat /\ Saldo(doc) > 0
BY DEF TieneSaldo, Saldo, Recibo

LEMMA InactivaTipo == Inactiva \in Sesion
BY DEF Inactiva, Sesion, Pasos

LEMMA TrasAgregarTipo ==
  ASSUME NEW sesion \in Sesion
  PROVE  TrasAgregar(sesion) \in Sesion
BY DEF TrasAgregar, Sesion, Pasos

\* the state after getMonto is that of a session
LEMMA ConMontoTipo ==
  ASSUME TypeOK, NEW s \in Sesiones, NEW abono \in Nat,
         ses[s].pago = NoPago \/ pagos[ses[s].pago] # NoExiste
  PROVE  ConMonto(s, abono) \in Sesion
<1> DEFINE p == ses[s].pago
           c == calcularAplicacionPagoConAbono(pagos[p].monto, ses[s].deuda, abono)
           sig == [ses[s] EXCEPT !.leido = 0, !.deuda = 0, !.excess = c.excess,
                                 !.deAbono = c.amountFromAbono, !.resto = c.totalToApply]
<1>1. CASE p = NoPago
  BY <1>1, InactivaTipo DEF ConMonto
<1>2. CASE p # NoPago
  <2>1. ses[s] \in Sesion /\ ses[s].deuda \in Nat /\ p \in Pagos
    BY <1>2 DEF TypeOK, Sesion
  <2>2. pagos[p] \in Pago
    BY <1>2, <2>1 DEF TypeOK
  <2>3. c.excess \in Nat /\ c.amountFromAbono \in Nat /\ c.totalToApply \in Nat
    BY <2>1, <2>2, CalculoTipo DEF Pago
  <2> HIDE DEF c
  <2>4. sig \in Sesion
    BY <2>1, <2>3 DEF Sesion
  <2>5. [sig EXCEPT !.pc = "agregar"] \in Sesion
    BY <2>4 DEF Sesion, Pasos
  <2>6. TrasAgregar(sig) \in Sesion
    BY <2>4, TrasAgregarTipo
  <2> QED BY <1>2, <2>5, <2>6 DEF ConMonto, c
<1> QED BY <1>1, <1>2
-----------------------------------------------------------------------------
(***************************************************************************)
(* The inductive invariant, in the form its proof uses.                    *)
(***************************************************************************)
Sano(docs, rec) ==
  /\ rec.montoPagado <= rec.montoUsd
  /\ rec.estado = "pagado" <=> rec.montoUsd > 0 /\ rec.montoPagado >= rec.montoUsd
  /\ Resueltos(docs, rec.abonos)

Sanos == \A r \in Recibos : recibos[r] # NoExiste => Sano(pagos, recibos[r])
Reglas == \A s \in Sesiones : EnRegla(recibos, pagos, ses[s])

LEMMA Forma == IInv <=> TypeOK /\ Sanos /\ Reglas
BY DEF IInv, Sanos, Reglas, Sano, SaldoAcotado, EstadoCoherente, PendienteNoMueve, Emitidos

LEMMA FormaPrima == IInv' <=> TypeOK' /\ Sanos' /\ Reglas'
BY DEF IInv, Sanos, Reglas, Sano, SaldoAcotado, EstadoCoherente, PendienteNoMueve, Emitidos

\* an idle session is in order
LEMMA InactivaEnRegla == EnRegla(recibos, pagos, Inactiva)
BY DEF EnRegla, Inactiva, ConPago

LEMMA SiguenResueltos ==
  ASSUME NEW docs1, NEW docs2, NEW abonos \in Seq(Abono), Resueltos(docs1, abonos),
         \A p \in Pagos : Resuelto(docs1, p) => Resuelto(docs2, p)
  PROVE  Resueltos(docs2, abonos)
<1>1. SUFFICES ASSUME NEW i \in DOMAIN abonos
               PROVE  Resuelto(docs2, abonos[i].pago)
  BY DEF Resueltos
<1>2. abonos[i] \in Abono
  OBVIOUS
<1>3. abonos[i].pago \in Pagos
  BY <1>2 DEF Abono
<1> QED BY <1>3 DEF Resueltos

\* rulings and receipts are never taken back: what was in order stays so
LEMMA SigueEnRegla ==
  ASSUME NEW recs1, NEW recs2, NEW docs1, NEW docs2, NEW sesion \in Sesion,
         EnRegla(recs1, docs1, sesion),
         \A p \in Pagos : Resuelto(docs1, p) => Resuelto(docs2, p),
         \A r \in Recibos : recs1[r] # NoExiste =>
           recs2[r] # NoExiste /\ recs2[r].montoUsd = recs1[r].montoUsd
  PROVE  EnRegla(recs2, docs2, sesion)
<1>1. ASSUME NEW r \in Recibos, sesion.copia[r] # NoExiste
      PROVE  Fiel(recs2, docs2, sesion.copia[r], r)
  <2>1. Fiel(recs1, docs1, sesion.copia[r], r) /\ sesion.copia[r] \in Recibo
    BY <1>1 DEF EnRegla, Sesion
  <2>2. Resueltos(docs2, sesion.copia[r].abonos)
    BY <2>1, SiguenResueltos DEF Fiel, Recibo
  <2> QED BY <2>1, <2>2 DEF Fiel
<1>2. sesion.pago # NoPago => Resuelto(docs2, sesion.pago)
  BY DEF EnRegla, Sesion
<1> QED BY <1>1, <1>2 DEF EnRegla

LEMMA SigueSano ==
  ASSUME NEW docs1, NEW docs2, NEW rec \in Recibo, Sano(docs1, rec),
         \A p \in Pagos : Resuelto(docs1, p) => Resuelto(docs2, p)
  PROVE  Sano(docs2, rec)
BY SiguenResueltos DEF Sano, Recibo

\* a step of one session that writes neither receipts nor payments
LEMMA PasoLocal ==
  ASSUME IInv, NEW s \in Sesiones, NEW sesion \in Sesion,
         EnRegla(recibos, pagos, sesion), Ir(s, sesion),
         credito' \in Nat \cup {NoExiste}, cacheAbono' \in Nat \cup {NoCache},
         UNCHANGED <<recibos, pagos, aceptaciones>>
  PROVE  IInv'
<1>1. TypeOK /\ Sanos /\ Reglas
  BY Forma
<1>2. TypeOK'
  BY <1>1 DEF TypeOK, Ir
<1>3. Sanos'
  BY <1>1 DEF Sanos
<1>4. Reglas'
  BY <1>1 DEF Reglas, Ir, TypeOK
<1> QED BY <1>2, <1>3, <1>4, FormaPrima

(***************************************************************************)
(* One lemma per action of Next that has something to disturb.             *)
(***************************************************************************)
LEMMA EmitirReciboInv ==
  ASSUME IInv, NEW r \in Recibos, NEW m \in MontosRecibo, EmitirRecibo(r, m)
  PROVE  IInv'
<1> DEFINE nuevo == [montoUsd |-> m, montoPagado |-> 0, abonos |-> <<>>, estado |-> "pendiente"]
<1>1. TypeOK /\ Sanos /\ Reglas
  BY Forma
<1>2. nuevo \in Recibo /\ Sano(pagos, nuevo)
  BY MontosAssumption DEF Recibo, Sano, Resueltos
<1>3. recibos' = [recibos EXCEPT ![r] = nuevo] /\ recibos[r] = NoExiste
      /\ UNCHANGED <<pagos, credito, cacheAbono, ses, aceptaciones>>
  BY DEF EmitirRecibo
<1> HIDE DEF nuevo
<1>4. TypeOK'
  BY <1>1, <1>2, <1>3 DEF TypeOK
<1>5. Sanos'
  BY <1>1, <1>2, <1>3 DEF Sanos, TypeOK
<1>6. \A q \in Recibos : recibos[q] # NoExiste =>
        recibos'[q] # NoExiste /\ recibos'[q].montoUsd = recibos[q].montoUsd
  BY <1>1, <1>3 DEF TypeOK
<1>7. Reglas'
  <2>1. ASSUME NEW t \in Sesiones PROVE EnRegla(recibos', pagos, ses[t])
    BY <1>1, <1>6, SigueEnRegla DEF Reglas, TypeOK
  <2> QED BY <2>1, <1>3 DEF Reglas
<1> QED BY <1>4, <1>5, <1>7, FormaPrima

\* a write of one payment document that keeps it ruled on
LEMMA EscrituraPago ==
  ASSUME IInv, NEW p \in Pagos, NEW doc \in Pago,
         Resuelto(pagos, p) => doc.estado # "pendiente",
         pagos' = [pagos EXCEPT ![p] = doc], UNCHANGED recibos
  PROVE  /\ Sanos'
         /\ \A sesion \in Sesion : EnRegla(recibos, pagos, sesion) =>
              EnRegla(recibos', pagos', sesion)
<1>1. TypeOK /\ Sanos /\ Reglas
  BY Forma
<1>2. \A q \in Pagos : Resuelto(pagos, q) => Resuelto(pagos', q)
  BY <1>1, CentinelasAssumption DEF TypeOK, Resuelto
<1>3. Sanos'
  BY <1>1, <1>2, SigueSano DEF Sanos, TypeOK
<1>4. ASSUME NEW sesion \in Sesion, EnRegla(recibos, pagos, sesion)
      PROVE  EnRegla(recibos', pagos', sesion)
  BY <1>2, <1>4, SigueEnRegla
<1> QED BY <1>3, <1>4

LEMMA CrearPagoInv ==
  ASSUME IInv, NEW p \in Pagos, NEW m \in MontosPago, NEW ids \in Seleccion, CrearPago(p, m, ids)
  PROVE  IInv'
<1> DEFINE doc == [estado |-> "pendiente", monto |-> m, recibosPagados |-> ids]
<1>1. TypeOK /\ Reglas
  BY Forma
<1>2. doc \in Pago /\ ~Resuelto(pagos, p) /\ pagos' = [pagos EXCEPT ![p] = doc]
      /\ UNCHANGED <<recibos, credito, cacheAbono, ses, aceptaciones>>
  BY MontosAssumption, EleccionAssumption DEF CrearPago, Pago, Resuelto
<1> HIDE DEF doc
<1>3. TypeOK'
  BY <1>1, <1>2 DEF TypeOK
<1>4. Sanos' /\ Reglas'
  BY <1>1, <1>2, EscrituraPago DEF Reglas, TypeOK
<1> QED BY <1>3, <1>4, FormaPrima

LEMMA RechazarInv ==
  ASSUME IInv, NEW p \in Pagos, Rechazar(p)
  PROVE  IInv'
<1> DEFINE doc == [pagos[p] EXCEPT !.estado = "rechazado"]
<1>1. TypeOK /\ Reglas
  BY Forma
<1>2. doc \in Pago /\ doc.estado # "pendiente" /\ pagos' = [pagos EXCEPT ![p] = doc]
      /\ UNCHANGED <<recibos, credito, cacheAbono, ses, aceptaciones>>
  BY <1>1 DEF Rechazar, Pago, TypeOK
<1> HIDE DEF doc
<1>3. TypeOK'
  BY <1>1, <1>2 DEF TypeOK
<1>4. Sanos' /\ Reglas'
  BY <1>1, <1>2, EscrituraPago DEF Reglas, TypeOK
<1> QED BY <1>3, <1>4, FormaPrima

LEMMA AceptarInv ==
  ASSUME IInv, NEW s \in Sesiones, NEW p \in Pagos, Aceptar(s, p)
  PROVE  IInv'
<1> DEFINE doc == [pagos[p] EXCEPT !.estado = "aceptado"]
           nueva(b) == [Inactiva EXCEPT !.pc = "deuda", !.pago = p,
                          !.objetivo = Objetivo(p), !.porLeer = Objetivo(p), !.solapada = b]
<1>1. TypeOK /\ Reglas
  BY Forma
<1>2. pagos[p] \in Pago /\ doc \in Pago /\ doc.estado # "pendiente"
      /\ pagos' = [pagos EXCEPT ![p] = doc]
      /\ UNCHANGED <<recibos, credito, cacheAbono>>
  BY <1>1 DEF Aceptar, Pago, TypeOK
<1>3. aceptaciones' \in [Pagos -> Nat]
  <2>1. aceptaciones' = [aceptaciones EXCEPT ![p] = @ + 1]
    BY DEF Aceptar
  <2> QED BY <2>1, <1>1 DEF TypeOK
<1>4. Objetivo(p) \in SUBSET Recibos
  BY <1>2, EleccionAssumption DEF Objetivo, Pago
<1>5. \A b \in BOOLEAN : nueva(b) \in Sesion
  BY <1>4 DEF Inactiva, Sesion, Pasos
<1>6. Resuelto(pagos', p)
  BY <1>1, <1>2, CentinelasAssumption DEF Resuelto, TypeOK
<1>7. \A b \in BOOLEAN : EnRegla(recibos', pagos', nueva(b))
  BY <1>6, EleccionAssumption DEF EnRegla, Inactiva
<1> HIDE DEF doc, nueva
<1>8. /\ ses' \in [Sesiones -> Sesion]
      /\ \A t \in Sesiones : \/ \E b \in BOOLEAN : ses'[t] = nueva(b)
                             \/ \E b \in BOOLEAN : ses'[t] = [ses[t] EXCEPT !.solapada = b]
  <2> DEFINE otras == {t \in Sesiones : ses[t].pago # NoPago}
  <2>1. ses' = [t \in Sesiones |-> IF t = s THEN nueva(otras # {})
                                   ELSE [ses[t] EXCEPT !.solapada = @ \/ t \in otras]]
    BY DEF Aceptar, nueva
  <2> HIDE DEF otras
  <2>2. \A t \in Sesiones, b \in BOOLEAN : [ses[t] EXCEPT !.solapada = b] \in Sesion
    BY <1>1 DEF TypeOK, Sesion
  <2>3. \A t \in Sesiones : (ses[t].solapada \/ t \in otras) \in BOOLEAN
    OBVIOUS
  <2>4. (otras # {}) \in BOOLEAN
    OBVIOUS
  <2>5. ASSUME NEW t \in Sesiones, t # s
        PROVE  \E b \in BOOLEAN : ses'[t] = [ses[t] EXCEPT !.solapada = b]
    <3>1. ses'[t] = [ses[t] EXCEPT !.solapada = ses[t].solapada \/ t \in otras]
      BY <2>1, <2>5
    <3> QED BY <3>1, <2>3
  <2>6. \E b \in BOOLEAN : ses'[s] = nueva(b)
    BY <2>1, <2>4
  <2>7. DOMAIN ses' = Sesiones /\ ses' = [t \in Sesiones |-> ses'[t]]
    BY <2>1
  <2>8. ASSUME NEW t \in Sesiones PROVE ses'[t] \in Sesion
    BY <2>2, <2>5, <2>6, <1>5
  <2> QED BY <2>5, <2>6, <2>7, <2>8
<1>9. TypeOK'
  BY <1>1, <1>2, <1>3, <1>8 DEF TypeOK
<1>10. Sanos' /\ \A sesion \in Sesion : EnRegla(recibos, pagos, sesion) =>
                    EnRegla(recibos', pagos', sesion)
  BY <1>2, EscrituraPago
<1>11. ASSUME NEW t \in Sesiones PROVE EnRegla(recibos', pagos', ses'[t])
  <2>1. ASSUME NEW b \in BOOLEAN, ses'[t] = [ses[t] EXCEPT !.solapada = b]
        PROVE  EnRegla(recibos', pagos', ses'[t])
    <3>1. EnRegla(recibos', pagos', ses[t])
      BY <1>1, <1>10 DEF Reglas, TypeOK
    <3>2. ses[t] \in Sesion
      BY <1>1 DEF TypeOK
    <3>3. ses'[t].pc = ses[t].pc /\ ses'[t].pago = ses[t].pago /\ ses'[t].copia = ses[t].copia
      BY <2>1, <3>2 DEF Sesion
    <3> QED BY <3>1, <3>3 DEF EnRegla
  <2> QED BY <2>1, <1>7, <1>8
<1> QED BY <1>9, <1>10, <1>11, FormaPrima DEF Reglas

\* the two reads of the receipts
LEMMA LeerDeudaInv ==
  ASSUME IInv, NEW s \in Sesiones, NEW r \in Recibos, LeerDeuda(s, r)
  PROVE  IInv'
<1> DEFINE suma == IF TieneSaldo(recibos[r]) THEN ses[s].deuda + Saldo(recibos[r])
                   ELSE ses[s].deuda
           sesion == [ses[s] EXCEPT !.porLeer = @ \ {r}, !.deuda = suma]
<1>1. TypeOK /\ Reglas
  BY Forma
<1>2. ses[s] \in Sesion /\ EnRegla(recibos, pagos, ses[s])
  BY <1>1 DEF TypeOK, Reglas
<1>3. suma \in Nat
  BY <1>1, <1>2, SaldoTipo DEF TypeOK, Sesion
<1>4. Ir(s, sesion) /\ UNCHANGED <<recibos, pagos, credito, cacheAbono, aceptaciones>>
  BY DEF LeerDeuda
<1> HIDE DEF suma
<1>5. sesion \in Sesion
  BY <1>2, <1>3 DEF Sesion
<1>6. EnRegla(recibos, pagos, sesion)
  BY <1>2 DEF EnRegla, Sesion
<1> HIDE DEF sesion
<1> QED BY <1>1, <1>4, <1>5, <1>6, PasoLocal DEF TypeOK

LEMMA ReleerInv ==
  ASSUME IInv, NEW s \in Sesiones, NEW r \in Recibos, Releer(s, r)
  PROVE  IInv'
<1> DEFINE leida == IF TieneSaldo(recibos[r]) THEN recibos[r] ELSE NoExiste
           sesion == [ses[s] EXCEPT !.porLeer = @ \ {r}, !.copia[r] = leida]
<1>1. TypeOK /\ Sanos /\ Reglas
  BY Forma
<1>2. ses[s] \in Sesion /\ EnRegla(recibos, pagos, ses[s])
  BY <1>1 DEF TypeOK, Reglas
<1>3. leida \in Recibo \cup {NoExiste} /\ (leida # NoExiste => Fiel(recibos, pagos, leida, r))
  BY <1>1 DEF TypeOK, Sanos, Sano, Fiel, TieneSaldo
<1>4. Ir(s, sesion) /\ UNCHANGED <<recibos, pagos, credito, cacheAbono, aceptaciones>>
  BY DEF Releer
<1> HIDE DEF leida
<1>5. /\ sesion \in Sesion /\ sesion.pc = ses[s].pc /\ sesion.pago = ses[s].pago
      /\ sesion.copia = [ses[s].copia EXCEPT ![r] = leida]
  BY <1>2, <1>3 DEF Sesion
<1> HIDE DEF sesion
<1>6. EnRegla(recibos, pagos, sesion)
  BY <1>2, <1>3, <1>5 DEF EnRegla, Sesion
<1> QED BY <1>1, <1>4, <1>5, <1>6, PasoLocal DEF TypeOK

\* a session that ends or dies
LEMMA CierraInv ==
  ASSUME IInv, NEW s \in Sesiones, Ir(s, Inactiva),
         UNCHANGED <<recibos, pagos, credito, cacheAbono, aceptaciones>>
  PROVE  IInv'
BY InactivaTipo, InactivaEnRegla, PasoLocal, Forma DEF TypeOK

LEMMA ConsultarInv ==
  ASSUME IInv, NEW s \in Sesiones, Consultar(s)
  PROVE  IInv'
<1> DEFINE sesion == [Inactiva EXCEPT !.pc = "cache"]
<1>1. sesion \in Sesion
  BY DEF Inactiva, Sesion, Pasos
<1>2. EnRegla(recibos, pagos, sesion)
  BY DEF EnRegla, Inactiva, ConPago
<1>3. TypeOK /\ Ir(s, sesion) /\ UNCHANGED <<recibos, pagos, credito, cacheAbono, aceptaciones>>
  BY Forma DEF Consultar
<1> HIDE DEF sesion
<1> QED BY <1>1, <1>2, <1>3, PasoLocal DEF TypeOK

\* moving on in the same request keeps it in order
LEMMA TrasAgregarEnRegla ==
  ASSUME NEW sesion \in Sesion, EnRegla(recibos, pagos, sesion), sesion.pago # NoPago
  PROVE  EnRegla(recibos, pagos, TrasAgregar(sesion))
BY DEF EnRegla, TrasAgregar, Sesion

LEMMA ConMontoEnRegla ==
  ASSUME IInv, NEW s \in Sesiones, NEW abono \in Nat
  PROVE  ConMonto(s, abono) \in Sesion /\ EnRegla(recibos, pagos, ConMonto(s, abono))
<1> DEFINE p == ses[s].pago
           c == calcularAplicacionPagoConAbono(pagos[p].monto, ses[s].deuda, abono)
           sig == [ses[s] EXCEPT !.leido = 0, !.deuda = 0, !.excess = c.excess,
                                 !.deAbono = c.amountFromAbono, !.resto = c.totalToApply]
<1>1. TypeOK /\ ses[s] \in Sesion /\ EnRegla(recibos, pagos, ses[s])
  BY Forma DEF Reglas, TypeOK
<1>2. p = NoPago \/ pagos[p] # NoExiste
  BY <1>1 DEF EnRegla, Resuelto
<1>3. ConMonto(s, abono) \in Sesion
  BY <1>1, <1>2, ConMontoTipo
<1>4. CASE p = NoPago
  BY <1>3, <1>4, InactivaEnRegla DEF ConMonto
<1>5. CASE p # NoPago
  <2>1. p \in Pagos /\ pagos[p] \in Pago /\ ses[s].deuda \in Nat
    BY <1>1, <1>2, <1>5 DEF TypeOK, Sesion
  <2>2. c.excess \in Nat /\ c.amountFromAbono \in Nat /\ c.totalToApply \in Nat
    BY <2>1, CalculoTipo DEF Pago
  <2>6. ConMonto(s, abono) = IF c.excess > 0 THEN [sig EXCEPT !.pc = "agregar"]
                             ELSE TrasAgregar(sig)
    BY <1>5 DEF ConMonto
  <2> HIDE DEF c
  <2>3. sig \in Sesion /\ EnRegla(recibos, pagos, sig) /\ sig.pago = p
    BY <1>1, <2>2 DEF Sesion, EnRegla
  <2> HIDE DEF sig
  <2>4. EnRegla(recibos, pagos, [sig EXCEPT !.pc = "agregar"])
    BY <1>5, <2>3 DEF EnRegla, Sesion
  <2>5. EnRegla(recibos, pagos, TrasAgregar(sig))
    BY <1>5, <2>3, TrasAgregarEnRegla
  <2> QED BY <1>3, <2>4, <2>5, <2>6
<1> QED BY <1>3, <1>4, <1>5

LEMMA LeerCacheInv ==
  ASSUME IInv, NEW s \in Sesiones, LeerCache(s)
  PROVE  IInv'
<1>1. TypeOK /\ ses[s] \in Sesion /\ EnRegla(recibos, pagos, ses[s])
      /\ UNCHANGED <<recibos, pagos, credito, cacheAbono, aceptaciones>>
  BY Forma DEF Reglas, TypeOK, LeerCache
<1>2. CASE cacheAbono # NoCache /\ Ir(s, ConMonto(s, cacheAbono))
  <2>1. cacheAbono \in Nat
    BY <1>1, <1>2 DEF TypeOK
  <2>2. ConMonto(s, cacheAbono) \in Sesion /\ EnRegla(recibos, pagos, ConMonto(s, cacheAbono))
    BY <2>1, ConMontoEnRegla
  <2> QED BY <1>1, <1>2, <2>2, PasoLocal DEF TypeOK
<1>3. CASE Ir(s, [ses[s] EXCEPT !.pc = "doc"])
  <2> DEFINE sesion == [ses[s] EXCEPT !.pc = "doc"]
  <2>1. sesion \in Sesion
    BY <1>1 DEF Sesion, Pasos
  <2>2. EnRegla(recibos, pagos, sesion)
    BY <1>1 DEF EnRegla, Sesion, ConPago
  <2>3. Ir(s, sesion)
    BY <1>3
  <2> HIDE DEF sesion
  <2> QED BY <1>1, <2>1, <2>2, <2>3, PasoLocal DEF TypeOK
<1> QED BY <1>2, <1>3 DEF LeerCache

LEMMA MontoCreditoTipo == ASSUME TypeOK PROVE MontoCredito \in Nat
BY DEF TypeOK, MontoCredito

LEMMA LeerAbonoInv ==
  ASSUME IInv, NEW s \in Sesiones, LeerAbono(s)
  PROVE  IInv'
<1> DEFINE sesion == [ses[s] EXCEPT !.pc = "fijar", !.leido = MontoCredito]
<1>1. TypeOK /\ ses[s] \in Sesion /\ EnRegla(recibos, pagos, ses[s]) /\ MontoCredito \in Nat
  BY Forma, MontoCreditoTipo DEF Reglas, TypeOK
<1>2. sesion \in Sesion
  BY <1>1 DEF Sesion, Pasos
<1>3. EnRegla(recibos, pagos, sesion)
  BY <1>1 DEF EnRegla, Sesion, ConPago
<1>4. Ir(s, sesion) /\ UNCHANGED <<recibos, pagos, credito, cacheAbono, aceptaciones>>
  BY DEF LeerAbono
<1> HIDE DEF sesion
<1> QED BY <1>1, <1>2, <1>3, <1>4, PasoLocal DEF TypeOK

LEMMA FijarCacheInv ==
  ASSUME IInv, NEW s \in Sesiones, FijarCache(s)
  PROVE  IInv'
<1>1. TypeOK /\ ses[s].leido \in Nat
  BY Forma DEF TypeOK, Sesion
<1>2. ConMonto(s, ses[s].leido) \in Sesion
      /\ EnRegla(recibos, pagos, ConMonto(s, ses[s].leido))
  BY <1>1, ConMontoEnRegla
<1>3. cacheAbono' \in Nat \cup {NoCache}
  BY <1>1 DEF FijarCache, TypeOK
<1>4. Ir(s, ConMonto(s, ses[s].leido)) /\ UNCHANGED <<recibos, pagos, credito, aceptaciones>>
  BY DEF FijarCache
<1> QED BY <1>1, <1>2, <1>3, <1>4, PasoLocal DEF TypeOK

LEMMA AgregarInv ==
  ASSUME IInv, NEW s \in Sesiones, Agregar(s)
  PROVE  IInv'
<1> DEFINE sesion == [ses[s] EXCEPT !.pc = "invalidar", !.excess = 0]
<1>1. TypeOK /\ ses[s] \in Sesion /\ EnRegla(recibos, pagos, ses[s]) /\ MontoCredito \in Nat
      /\ ses[s].excess \in Nat
  BY Forma, MontoCreditoTipo DEF Reglas, TypeOK, Sesion
<1>2. sesion \in Sesion
  BY <1>1 DEF Sesion, Pasos
<1>3. EnRegla(recibos, pagos, sesion)
  BY <1>1 DEF EnRegla, Sesion, ConPago, Agregar
<1>4. credito' \in Nat /\ Ir(s, sesion)
      /\ UNCHANGED <<recibos, pagos, cacheAbono, aceptaciones>>
  BY <1>1 DEF Agregar
<1> HIDE DEF sesion
<1> QED BY <1>1, <1>2, <1>3, <1>4, PasoLocal DEF TypeOK

LEMMA ConsumirInv ==
  ASSUME IInv, NEW s \in Sesiones, Consumir(s)
  PROVE  IInv'
<1> DEFINE lee == [ses[s] EXCEPT !.pc = "guardar", !.leido = MontoCredito]
           sigue == [ses[s] EXCEPT !.deAbono = 0]
<1>1. TypeOK /\ ses[s] \in Sesion /\ EnRegla(recibos, pagos, ses[s]) /\ MontoCredito \in Nat
  BY Forma, MontoCreditoTipo DEF Reglas, TypeOK
<1>2. lee \in Sesion /\ sigue \in Sesion /\ sigue.pago = ses[s].pago
  BY <1>1 DEF Sesion, Pasos
<1>3. ses[s].pago # NoPago
  BY <1>1 DEF EnRegla, ConPago, Consumir
<1>4. EnRegla(recibos, pagos, lee) /\ EnRegla(recibos, pagos, sigue)
  BY <1>1, <1>3 DEF EnRegla, Sesion
<1>5. (Ir(s, lee) \/ Ir(s, TrasAgregar(sigue)))
      /\ UNCHANGED <<recibos, pagos, credito, cacheAbono, aceptaciones>>
  BY DEF Consumir
<1> HIDE DEF lee, sigue
<1>6. TrasAgregar(sigue) \in Sesion /\ EnRegla(recibos, pagos, TrasAgregar(sigue))
  BY <1>2, <1>3, <1>4, TrasAgregarTipo, TrasAgregarEnRegla
<1> QED BY <1>1, <1>2, <1>4, <1>5, <1>6, PasoLocal DEF TypeOK

LEMMA GuardarInv ==
  ASSUME IInv, NEW s \in Sesiones, Guardar(s)
  PROVE  IInv'
<1> DEFINE sesion == [ses[s] EXCEPT !.pc = "invalidar", !.leido = 0, !.deAbono = 0]
<1>1. TypeOK /\ ses[s] \in Sesion /\ EnRegla(recibos, pagos, ses[s])
      /\ ses[s].leido \in Nat /\ ses[s].deAbono \in Nat
  BY Forma DEF Reglas, TypeOK, Sesion
<1>2. sesion \in Sesion
  BY <1>1 DEF Sesion, Pasos
<1>3. EnRegla(recibos, pagos, sesion)
  BY <1>1 DEF EnRegla, Sesion, ConPago, Guardar
<1>4. ses[s].leido - Menor(ses[s].leido, ses[s].deAbono) \in Nat
  <2>1. Menor(ses[s].leido, ses[s].deAbono) \in Nat
        /\ Menor(ses[s].leido, ses[s].deAbono) <= ses[s].leido
    BY <1>1, MenorCota
  <2> QED BY <1>1, <2>1
<1>5. credito' \in Nat /\ Ir(s, sesion)
      /\ UNCHANGED <<recibos, pagos, cacheAbono, aceptaciones>>
  BY <1>4 DEF Guardar
<1> HIDE DEF sesion
<1> QED BY <1>1, <1>2, <1>3, <1>5, PasoLocal DEF TypeOK

LEMMA InvalidarInv ==
  ASSUME IInv, NEW s \in Sesiones, Invalidar(s)
  PROVE  IInv'
<1>1. TypeOK /\ ses[s] \in Sesion /\ EnRegla(recibos, pagos, ses[s])
  BY Forma DEF Reglas, TypeOK
<1>2. ses[s].pago # NoPago
  BY <1>1 DEF EnRegla, ConPago, Invalidar
<1>3. TrasAgregar(ses[s]) \in Sesion /\ EnRegla(recibos, pagos, TrasAgregar(ses[s]))
  BY <1>1, <1>2, TrasAgregarTipo, TrasAgregarEnRegla
<1>4. Ir(s, TrasAgregar(ses[s])) /\ UNCHANGED <<recibos, pagos, credito, aceptaciones>>
      /\ cacheAbono' \in {NoCache, cacheAbono}
  BY DEF Invalidar
<1>5. cacheAbono' \in Nat \cup {NoCache}
  BY <1>1, <1>4 DEF TypeOK
<1> QED BY <1>1, <1>3, <1>4, <1>5, PasoLocal DEF TypeOK

\* the write of one receipt, from a copy that may be out of date
LEMMA EscribirReciboInv ==
  ASSUME IInv, NEW s \in Sesiones, NEW r \in Recibos, EscribirRecibo(s, r)
  PROVE  IInv'
<1> DEFINE copia == ses[s].copia[r]
           pago == ses[s].pago
           monto == Menor(ses[s].resto, Saldo(copia))
           doc == Fijar(recibos[r], ConAbono(copia, pago, monto))
           sesion == [ses[s] EXCEPT !.resto = @ - monto, !.copia[r] = NoExiste,
                                    !.ids = @ \cup {r}]
<1>1. TypeOK /\ Sanos /\ Reglas
  BY Forma
<1>2. ses[s] \in Sesion /\ EnRegla(recibos, pagos, ses[s])
  BY <1>1 DEF TypeOK, Reglas
<1>3. ses[s].pc = "bulk" /\ ses[s].resto > 0 /\ copia # NoExiste
  BY DEF EscribirRecibo, PorEscribir
<1>4. recibos' = [recibos EXCEPT ![r] = doc] /\ Ir(s, sesion)
      /\ UNCHANGED <<pagos, credito, cacheAbono, aceptaciones>>
  BY DEF EscribirRecibo
<1>5. copia \in Recibo /\ Fiel(recibos, pagos, copia, r)
  BY <1>2, <1>3 DEF Sesion, EnRegla
<1>6. recibos[r] \in Recibo /\ recibos[r].montoUsd = copia.montoUsd
  BY <1>1, <1>5 DEF TypeOK, Fiel
<1>7. pago \in Pagos /\ Resuelto(pagos, pago)
  BY <1>2, <1>3 DEF EnRegla, Sesion, ConPago
<1>8. Saldo(copia) \in Nat /\ Saldo(copia) = copia.montoUsd - copia.montoPagado
  BY <1>5 DEF Saldo, Fiel, Recibo
<1>9. monto \in Nat /\ monto <= Saldo(copia) /\ monto <= ses[s].resto
  BY <1>2, <1>8, MenorCota DEF Sesion
<1>10. doc \in Recibo
  BY <1>5, <1>6, <1>7, <1>9, FijarTipo
<1>11. Sano(pagos, doc)
  <2> HIDE DEF monto, pago, copia
  <2>1. /\ doc.montoUsd = copia.montoUsd
        /\ doc.montoPagado = copia.montoPagado + monto
        /\ doc.abonos = Append(copia.abonos, [pago |-> pago, monto |-> monto])
        /\ doc.estado = IF copia.montoPagado + monto >= copia.montoUsd
                        THEN "pagado" ELSE "pendiente"
    BY <1>6 DEF Fijar, ConAbono
  <2>2. copia.montoUsd \in Nat /\ copia.montoPagado \in Nat /\ copia.abonos \in Seq(Abono)
        /\ copia.montoPagado < copia.montoUsd /\ Resueltos(pagos, copia.abonos)
    BY <1>5 DEF Recibo, Fiel
  <2>3. copia.montoPagado + monto <= copia.montoUsd
    BY <1>8, <1>9, <2>2
  <2> DEFINE abonos == Append(copia.abonos, [pago |-> pago, monto |-> monto])
  <2>4. Resueltos(pagos, abonos)
    <3>1. SUFFICES ASSUME NEW i \in DOMAIN abonos
                   PROVE  Resuelto(pagos, abonos[i].pago)
      BY DEF Resueltos
    <3>2. [pago |-> pago, monto |-> monto] \in Abono
      BY <1>7, <1>9 DEF Abono
    <3>3. \/ i \in DOMAIN copia.abonos /\ abonos[i] = copia.abonos[i]
          \/ abonos[i] = [pago |-> pago, monto |-> monto]
      BY <2>2, <3>2
    <3> QED BY <1>7, <2>2, <3>3 DEF Resueltos
  <2> HIDE DEF doc, abonos
  <2> QED BY <2>1, <2>2, <2>3, <2>4, <1>9 DEF Sano, abonos
<1>12. sesion \in Sesion
  <2>1. ses[s].resto - monto \in Nat
    BY <1>2, <1>9 DEF Sesion
  <2> HIDE DEF monto, copia
  <2> QED BY <1>2, <2>1 DEF Sesion
<1>13. EnRegla(recibos, pagos, sesion)
  <2>1. sesion.pc = ses[s].pc /\ sesion.pago = ses[s].pago
        /\ sesion.copia = [ses[s].copia EXCEPT ![r] = NoExiste]
    BY <1>2 DEF Sesion
  <2> HIDE DEF sesion
  <2> QED BY <1>2, <2>1 DEF EnRegla, Sesion
<1>14. doc.montoUsd = recibos[r].montoUsd /\ doc # NoExiste
  BY <1>10, CentinelasAssumption DEF Fijar
<1> HIDE DEF doc, sesion, monto, pago, copia
<1>15. TypeOK'
  BY <1>1, <1>4, <1>10, <1>12 DEF TypeOK, Ir
<1>16. Sanos'
  BY <1>1, <1>4, <1>11 DEF Sanos, TypeOK
<1>17. \A q \in Recibos : recibos[q] # NoExiste =>
         recibos'[q] # NoExiste /\ recibos'[q].montoUsd = recibos[q].montoUsd
  BY <1>1, <1>4, <1>14 DEF TypeOK
<1>18. ASSUME NEW t \in Sesiones PROVE EnRegla(recibos', pagos, ses'[t])
  <2>1. ses'[t] \in Sesion /\ EnRegla(recibos, pagos, ses'[t])
    BY <1>1, <1>4, <1>12, <1>13 DEF Ir, Reglas, TypeOK
  <2> QED BY <1>17, <2>1, SigueEnRegla
<1> QED BY <1>4, <1>15, <1>16, <1>18, FormaPrima DEF Reglas

LEMMA AnotarRecibosInv ==
  ASSUME IInv, NEW s \in Sesiones, AnotarRecibos(s)
  PROVE  IInv'
<1> DEFINE p == ses[s].pago
           doc == [pagos[p] EXCEPT !.recibosPagados = ses[s].ids]
<1>1. TypeOK /\ Reglas
  BY Forma
<1>2. ses[s] \in Sesion /\ EnRegla(recibos, pagos, ses[s])
  BY <1>1 DEF TypeOK, Reglas
<1>3. Ir(s, Inactiva) /\ UNCHANGED <<recibos, credito, cacheAbono, aceptaciones>>
  BY DEF AnotarRecibos
<1>4. CASE pagos' = pagos
  BY <1>3, <1>4, CierraInv
<1>5. CASE pagos' = [pagos EXCEPT ![p].recibosPagados = ses[s].ids]
  <2>1. p \in Pagos /\ Resuelto(pagos, p)
    BY <1>2 DEF EnRegla, ConPago, Sesion, AnotarRecibos
  <2>2. pagos[p] \in Pago
    BY <1>1, <2>1 DEF TypeOK, Resuelto
  <2>3. doc \in Pago /\ doc.estado # "pendiente" /\ pagos' = [pagos EXCEPT ![p] = doc]
    BY <1>2, <1>5, <2>1, <2>2 DEF Pago, Sesion, Resuelto
  <2> HIDE DEF doc, p
  <2>4. TypeOK'
    BY <1>1, <1>3, <2>1, <2>3, InactivaTipo DEF TypeOK, Ir
  <2>5. Sanos' /\ \A sesion \in Sesion : EnRegla(recibos, pagos, sesion) =>
                     EnRegla(recibos', pagos', sesion)
    BY <1>3, <2>1, <2>3, EscrituraPago
  <2>6. ASSUME NEW t \in Sesiones PROVE EnRegla(recibos', pagos', ses'[t])
    <3>1. ses'[t] \in Sesion /\ EnRegla(recibos, pagos, ses'[t])
      BY <1>1, <1>3, InactivaTipo, InactivaEnRegla DEF Ir, Reglas, TypeOK
    <3> QED BY <2>5, <3>1
  <2> QED BY <2>4, <2>5, <2>6, FormaPrima DEF Reglas
<1> QED BY <1>4, <1>5 DEF AnotarRecibos

(***************************************************************************)
(* The theorems.                                                           *)
(***************************************************************************)
LEMMA InicioInv == Init => IInv
<1> SUFFICES ASSUME Init PROVE IInv
  OBVIOUS
<1>1. TypeOK
  BY InactivaTipo, MontosAssumption DEF Init, TypeOK
<1>2. Sanos
  BY DEF Init, Sanos
<1>3. Reglas
  BY InactivaEnRegla DEF Init, Reglas
<1> QED BY <1>1, <1>2, <1>3, Forma

LEMMA PasoInv == IInv /\ [Next]_vars => IInv'
<1> SUFFICES ASSUME IInv, [Next]_vars PROVE IInv'
  OBVIOUS
<1>1. ASSUME NEW r \in Recibos, NEW m \in MontosRecibo, EmitirRecibo(r, m) PROVE IInv'
  BY <1>1, EmitirReciboInv
<1>2. ASSUME NEW p \in Pagos, NEW m \in MontosPago, NEW ids \in Seleccion, CrearPago(p, m, ids)
      PROVE  IInv'
  BY <1>2, CrearPagoInv
<1>3. ASSUME NEW p \in Pagos, Rechazar(p) PROVE IInv'
  BY <1>3, RechazarInv
<1>4. ASSUME NEW s \in Sesiones, PasoSesion(s) PROVE IInv'
  <2>1. ASSUME NEW p \in Pagos, Aceptar(s, p) PROVE IInv'
    BY <2>1, AceptarInv
  <2>2. ASSUME NEW r \in Recibos, LeerDeuda(s, r) PROVE IInv'
    BY <2>2, LeerDeudaInv
  <2>3. CASE SinDeuda(s)
    BY <2>3, CierraInv DEF SinDeuda
  <2>4. CASE Consultar(s)
    BY <2>4, ConsultarInv
  <2>5. CASE LeerCache(s)
    BY <2>5, LeerCacheInv
  <2>6. CASE LeerAbono(s)
    BY <2>6, LeerAbonoInv
  <2>7. CASE FijarCache(s)
    BY <2>7, FijarCacheInv
  <2>8. CASE Agregar(s)
    BY <2>8, AgregarInv
  <2>9. CASE Consumir(s)
    BY <2>9, ConsumirInv
  <2>10. CASE Guardar(s)
    BY <2>10, GuardarInv
  <2>11. CASE Invalidar(s)
    BY <2>11, InvalidarInv
  <2>12. ASSUME NEW r \in Recibos, Releer(s, r) PROVE IInv'
    BY <2>12, ReleerInv
  <2>13. ASSUME NEW r \in Recibos, EscribirRecibo(s, r) PROVE IInv'
    BY <2>13, EscribirReciboInv
  <2>14. CASE AnotarRecibos(s)
    BY <2>14, AnotarRecibosInv
  <2>15. CASE Abortar(s)
    BY <2>15, CierraInv DEF Abortar
  <2> QED BY <1>4, <2>1, <2>2, <2>3, <2>4, <2>5, <2>6, <2>7, <2>8, <2>9, <2>10, <2>11, <2>12,
             <2>13, <2>14, <2>15 DEF PasoSesion
<1>5. CASE ExpirarCache
  <2>1. TypeOK'
    BY <1>5, Forma DEF ExpirarCache, TypeOK
  <2>2. Sanos' /\ Reglas'
    BY <1>5, Forma DEF ExpirarCache, Sanos, Reglas
  <2> QED BY <2>1, <2>2, FormaPrima
<1>6. CASE UNCHANGED vars
  <2>1. TypeOK' /\ Sanos' /\ Reglas'
    BY <1>6, Forma DEF vars, TypeOK, Sanos, Reglas
  <2> QED BY <2>1, FormaPrima
<1> QED BY <1>1, <1>2, <1>3, <1>4, <1>5, <1>6 DEF Next

LEMMA Inductivo == Spec => []IInv
BY InicioInv, PasoInv, PTL DEF Spec

\* The documents and the requests in flight always have the shape of the
\* schemas, so no await leaves a negative credit or amount to apply.
THEOREM TipoCorrecto == Spec => []TypeOK
<1>1. IInv => TypeOK
  BY DEF IInv
<1> QED BY <1>1, Inductivo, PTL

\* No receipt is paid beyond its amount, whatever requests overlap or die.
THEOREM NuncaDeMas == Spec => []SaldoAcotado
<1>1. IInv => SaldoAcotado
  BY DEF IInv
<1> QED BY <1>1, Inductivo, PTL

\* The estado of a receipt says at all times whether something is owed on it.
THEOREM EstadoSegunSaldo == Spec => []EstadoCoherente
<1>1. IInv => EstadoCoherente
  BY DEF IInv
<1> QED BY <1>1, Inductivo, PTL

\* Only payments an administrator has ruled on appear in the ledger of a receipt.
THEOREM SoloResueltosMueven == Spec => []PendienteNoMueve
<1>1. IInv => PendienteNoMueve
  BY DEF IInv
<1> QED BY <1>1, Inductivo, PTL
-----------------------------------------------------------------------------
(***************************************************************************)
(* The ledgers.  What a step does to the receipts, and to what the         *)
(* requests in flight know of them.                                        *)
(***************************************************************************)
Consulta == [Inactiva EXCEPT !.pc = "cache"]

\* an acceptance goes on to its next await, before it reads the receipts again
Conserva(s, x) ==
  /\ ses[s].pc \notin {"inactiva", "bulk"} /\ x.pc # "inactiva"
  /\ x.pago = ses[s].pago /\ x.copia = ses[s].copia
  /\ x.ids = ses[s].ids /\ x.solapada = ses[s].solapada

LEMMA TrasAgregarConserva ==
  ASSUME NEW s, NEW x \in Sesion, Conserva(s, x)
  PROVE  Conserva(s, TrasAgregar(x))
BY DEF Conserva, TrasAgregar, Sesion

LEMMA ConMontoConserva ==
  ASSUME IInv, NEW s \in Sesiones, NEW abono \in Nat, ses[s].pc \notin {"inactiva", "bulk"}
  PROVE  ConMonto(s, abono) = Inactiva \/ Conserva(s, ConMonto(s, abono))
<1> DEFINE p == ses[s].pago
           c == calcularAplicacionPagoConAbono(pagos[p].monto, ses[s].deuda, abono)
           sig == [ses[s] EXCEPT !.leido = 0, !.deuda = 0, !.excess = c.excess,
                                 !.deAbono = c.amountFromAbono, !.resto = c.totalToApply]
<1>1. ses[s] \in Sesion /\ EnRegla(recibos, pagos, ses[s])
  BY Forma DEF Reglas, TypeOK
<1>2. CASE p = NoPago
  BY <1>2 DEF ConMonto
<1>3. CASE p # NoPago
  <2>1. p \in Pagos /\ pagos[p] \in Pago /\ ses[s].deuda \in Nat
    BY <1>1, <1>3, Forma DEF TypeOK, Sesion, EnRegla, Resuelto
  <2>2. c.excess \in Nat /\ c.amountFromAbono \in Nat /\ c.totalToApply \in Nat
    BY <2>1, CalculoTipo DEF Pago
  <2>3. ConMonto(s, abono) = IF c.excess > 0 THEN [sig EXCEPT !.pc = "agregar"]
                             ELSE TrasAgregar(sig)
    BY <1>3 DEF ConMonto
  <2> HIDE DEF c
  <2>4. sig \in Sesion /\ Conserva(s, sig)
    BY <1>1, <2>2 DEF Sesion, Conserva
  <2> HIDE DEF sig
  <2>5. Conserva(s, [sig EXCEPT !.pc = "agregar"])
    BY <2>4 DEF Conserva, Sesion
  <2>6. Conserva(s, TrasAgregar(sig))
    BY <2>4, TrasAgregarConserva
  <2> QED BY <2>3, <2>5, <2>6
<1> QED BY <1>2, <1>3

LEMMA PasoDeSesion ==
  ASSUME IInv, NEW s \in Sesiones, PasoSesion(s)
  PROVE  \/ \E p \in Pagos : Aceptar(s, p)
         \/ \E r \in Recibos : Releer(s, r) \/ EscribirRecibo(s, r)
         \/ /\ UNCHANGED <<recibos, aceptaciones>>
            /\ \/ Ir(s, Inactiva)
               \/ ses[s].pc = "inactiva" /\ Ir(s, Consulta)
               \/ \E x : Conserva(s, x) /\ Ir(s, x)
<1> DEFINE Sigue == UNCHANGED <<recibos, aceptaciones>> /\ \E x : Conserva(s, x) /\ Ir(s, x)
<1>1. ses[s] \in Sesion /\ MontoCredito \in Nat /\ cacheAbono \in Nat \cup {NoCache}
  BY Forma, MontoCreditoTipo DEF TypeOK
<1>2. ASSUME NEW r \in Recibos, LeerDeuda(s, r) PROVE Sigue
  <2> DEFINE suma == IF TieneSaldo(recibos[r]) THEN ses[s].deuda + Saldo(recibos[r])
                     ELSE ses[s].deuda
             x == [ses[s] EXCEPT !.porLeer = @ \ {r}, !.deuda = suma]
  <2>1. ses[s].pc = "deuda" /\ Ir(s, x) /\ UNCHANGED <<recibos, aceptaciones>>
    BY <1>2 DEF LeerDeuda
  <2> HIDE DEF suma
  <2>2. Conserva(s, x)
    BY <1>1, <2>1 DEF Conserva, Sesion
  <2> HIDE DEF x
  <2> QED BY <2>1, <2>2
<1>3. ASSUME LeerCache(s), ~ Ir(s, Inactiva) PROVE Sigue
  <2>1. ses[s].pc \in {"cache", "deuda"} /\ UNCHANGED <<recibos, aceptaciones>>
    BY <1>3 DEF LeerCache
  <2>2. CASE Ir(s, [ses[s] EXCEPT !.pc = "doc"])
    <3>1. Conserva(s, [ses[s] EXCEPT !.pc = "doc"])
      BY <1>1, <2>1 DEF Conserva, Sesion
    <3> QED BY <2>1, <2>2, <3>1
  <2>3. CASE cacheAbono # NoCache /\ Ir(s, ConMonto(s, cacheAbono))
    <3>1. Conserva(s, ConMonto(s, cacheAbono))
      BY <1>1, <1>3, <2>1, <2>3, ConMontoConserva
    <3> QED BY <2>1, <2>3, <3>1
  <2> QED BY <1>3, <2>2, <2>3 DEF LeerCache
<1>4. ASSUME FijarCache(s), ~ Ir(s, Inactiva) PROVE Sigue
  <2>1. /\ ses[s].pc = "fijar" /\ UNCHANGED <<recibos, aceptaciones>>
        /\ Ir(s, ConMonto(s, ses[s].leido)) /\ ses[s].leido \in Nat
    BY <1>1, <1>4 DEF FijarCache, Sesion
  <2>2. Conserva(s, ConMonto(s, ses[s].leido))
    BY <1>4, <2>1, ConMontoConserva
  <2> QED BY <2>1, <2>2
<1>5. ASSUME LeerAbono(s) \/ Agregar(s) \/ Guardar(s) PROVE Sigue
  <2> DEFINE x == [ses[s] EXCEPT !.pc = "fijar", !.leido = MontoCredito]
             y == [ses[s] EXCEPT !.pc = "invalidar", !.excess = 0]
             z == [ses[s] EXCEPT !.pc = "invalidar", !.leido = 0, !.deAbono = 0]
  <2>1. /\ ses[s].pc \in {"doc", "agregar", "guardar"} /\ UNCHANGED <<recibos, aceptaciones>>
        /\ Ir(s, x) \/ Ir(s, y) \/ Ir(s, z)
    BY <1>5 DEF LeerAbono, Agregar, Guardar
  <2>2. Conserva(s, x) /\ Conserva(s, y) /\ Conserva(s, z)
    BY <1>1, <2>1 DEF Conserva, Sesion
  <2> HIDE DEF x, y, z
  <2> QED BY <2>1, <2>2
<1>6. ASSUME Consumir(s) \/ Invalidar(s) PROVE Sigue
  <2> DEFINE lee == [ses[s] EXCEPT !.pc = "guardar", !.leido = MontoCredito]
             sin == [ses[s] EXCEPT !.deAbono = 0]
  <2>1. /\ ses[s].pc \in {"consumir", "invalidar"} /\ UNCHANGED <<recibos, aceptaciones>>
        /\ Ir(s, lee) \/ Ir(s, TrasAgregar(sin)) \/ Ir(s, TrasAgregar(ses[s]))
    BY <1>6 DEF Consumir, Invalidar
  <2>2. Conserva(s, lee) /\ Conserva(s, sin) /\ Conserva(s, ses[s]) /\ sin \in Sesion
    BY <1>1, <2>1 DEF Conserva, Sesion
  <2> HIDE DEF lee, sin
  <2>3. Conserva(s, TrasAgregar(sin)) /\ Conserva(s, TrasAgregar(ses[s]))
    BY <1>1, <2>2, TrasAgregarConserva
  <2> QED BY <2>1, <2>2, <2>3
<1>7. ASSUME Consultar(s) PROVE UNCHANGED <<recibos, aceptaciones>> /\ ses[s].pc = "inactiva"
                                /\ Ir(s, Consulta)
  BY <1>7 DEF Consultar, Abrir, Consulta
<1>8. ASSUME SinDeuda(s) \/ AnotarRecibos(s) \/ Abortar(s)
      PROVE  UNCHANGED <<recibos, aceptaciones>> /\ Ir(s, Inactiva)
  BY <1>8 DEF SinDeuda, AnotarRecibos, Abortar
<1>9. ASSUME LeerCache(s) \/ FijarCache(s) PROVE UNCHANGED <<recibos, aceptaciones>>
  BY <1>9 DEF LeerCache, FijarCache
<1> HIDE DEF Sigue
<1>10. \/ \E p \in Pagos : Aceptar(s, p)
       \/ \E r \in Recibos : Releer(s, r) \/ EscribirRecibo(s, r)
       \/ /\ UNCHANGED <<recibos, aceptaciones>>
          /\ Ir(s, Inactiva) \/ (ses[s].pc = "inactiva" /\ Ir(s, Consulta))
       \/ Sigue
  BY <1>2, <1>3, <1>4, <1>5, <1>6, <1>7, <1>8, <1>9 DEF PasoSesion
<1> QED BY <1>10 DEF Sigue
\* the actions that touch what the invariant speaks of, field by field
LEMMA AlAceptar ==
  ASSUME IInv, NEW s \in Sesiones, NEW p \in Pagos, Aceptar(s, p)
  PROVE  /\ recibos' = recibos /\ aceptaciones' = [aceptaciones EXCEPT ![p] = @ + 1]
         /\ ses[s].pc = "inactiva"
         /\ ses'[s].pc = "deuda" /\ ses'[s].pago = p /\ ses'[s].ids = {}
         /\ \A r \in Recibos : ses'[s].copia[r] = NoExiste
         /\ ses'[s].solapada <=> \E t \in Sesiones : ses[t].pago # NoPago
         /\ \A t \in Sesiones \ {s} :
              /\ ses'[t].pc = ses[t].pc /\ ses'[t].pago = ses[t].pago
              /\ ses'[t].copia = ses[t].copia /\ ses'[t].ids = ses[t].ids
              /\ ses'[t].porLeer = ses[t].porLeer
              /\ ses'[t].solapada <=> ses[t].solapada \/ ses[t].pago # NoPago
<1> DEFINE otras == {t \in Sesiones : ses[t].pago # NoPago}
           nueva == [Inactiva EXCEPT !.pc = "deuda", !.pago = p, !.objetivo = Objetivo(p),
                                     !.porLeer = Objetivo(p), !.solapada = otras # {}]
<1>1. ses' = [t \in Sesiones |-> IF t = s THEN nueva
                                ELSE [ses[t] EXCEPT !.solapada = @ \/ t \in otras]]
  BY DEF Aceptar
<1>2. \A t \in Sesiones : ses[t] \in Sesion
  BY Forma DEF TypeOK
<1>3. otras # {} <=> \E t \in Sesiones : ses[t].pago # NoPago
  OBVIOUS
<1>4. ses'[s] = nueva
  BY <1>1
<1> HIDE DEF otras
<1>5. /\ nueva.pc = "deuda" /\ nueva.pago = p /\ nueva.ids = {}
      /\ nueva.copia = [r \in Recibos |-> NoExiste] /\ nueva.solapada = (otras # {})
  BY DEF Inactiva
<1> HIDE DEF nueva
<1>6. ASSUME NEW t \in Sesiones \ {s}
      PROVE  /\ ses'[t].pc = ses[t].pc /\ ses'[t].pago = ses[t].pago
             /\ ses'[t].copia = ses[t].copia /\ ses'[t].ids = ses[t].ids
             /\ ses'[t].porLeer = ses[t].porLeer
             /\ ses'[t].solapada <=> ses[t].solapada \/ t \in otras
  BY <1>1, <1>2 DEF Sesion
<1>7. \A t \in Sesiones : t \in otras <=> ses[t].pago # NoPago
  BY DEF otras
<1>8. /\ recibos' = recibos /\ aceptaciones' = [aceptaciones EXCEPT ![p] = @ + 1]
      /\ ses[s].pc = "inactiva"
  BY DEF Aceptar, Abrir
<1>9. /\ ses'[s].pc = "deuda" /\ ses'[s].pago = p /\ ses'[s].ids = {}
      /\ \A r \in Recibos : ses'[s].copia[r] = NoExiste
  BY <1>4, <1>5
<1>10. ses'[s].solapada = (otras # {})
  BY <1>4, <1>5
<1>11. ses'[s].solapada <=> \E t \in Sesiones : ses[t].pago # NoPago
  BY <1>3, <1>10, Zenon DEF otras
<1>12. \A t \in Sesiones \ {s} :
         /\ ses'[t].pc = ses[t].pc /\ ses'[t].pago = ses[t].pago
         /\ ses'[t].copia = ses[t].copia /\ ses'[t].ids = ses[t].ids
         /\ ses'[t].porLeer = ses[t].porLeer
         /\ ses'[t].solapada <=> ses[t].solapada \/ ses[t].pago # NoPago
  BY <1>6, <1>7, Zenon
<1> QED BY <1>8, <1>9, <1>11, <1>12, Zenon

LEMMA AlReleer ==
  ASSUME IInv, NEW s \in Sesiones, NEW r \in Recibos, Releer(s, r)
  PROVE  /\ recibos' = recibos /\ aceptaciones' = aceptaciones
         /\ \A t \in Sesiones \ {s} : ses'[t] = ses[t]
         /\ ses[s].pc = "bulk" /\ ses[s].pago # NoPago /\ r \in ses[s].porLeer
         /\ ses'[s].pc = "bulk" /\ ses'[s].pago = ses[s].pago /\ ses'[s].ids = ses[s].ids
         /\ ses'[s].solapada = ses[s].solapada
         /\ ses'[s].copia[r] \in {NoExiste, recibos[r]}
         /\ \A q \in Recibos \ {r} : ses'[s].copia[q] = ses[s].copia[q]
<1> DEFINE leida == IF TieneSaldo(recibos[r]) THEN recibos[r] ELSE NoExiste
           x == [ses[s] EXCEPT !.porLeer = @ \ {r}, !.copia[r] = leida]
<1>1. ses[s] \in Sesion /\ ses[s].pc = "bulk" /\ EnRegla(recibos, pagos, ses[s])
  BY Forma DEF TypeOK, Releer, Reglas
<1>2. ses' = [ses EXCEPT ![s] = x]
  BY DEF Releer, Ir
<1> HIDE DEF leida
<1>3. /\ x.pc = "bulk" /\ x.pago = ses[s].pago /\ x.ids = ses[s].ids
      /\ x.solapada = ses[s].solapada /\ x.copia = [ses[s].copia EXCEPT ![r] = leida]
  BY <1>1 DEF Sesion
<1> HIDE DEF x
<1>4. ses'[s] = x /\ \A t \in Sesiones \ {s} : ses'[t] = ses[t]
  BY <1>2, Forma DEF TypeOK
<1>5. ses[s].copia \in [Recibos -> Recibo \cup {NoExiste}]
  BY <1>1 DEF Sesion
<1>6. ses[s].pago # NoPago
  BY <1>1 DEF EnRegla, ConPago
<1> QED BY <1>1, <1>3, <1>4, <1>5, <1>6 DEF Releer, leida

LEMMA AlEscribir ==
  ASSUME IInv, NEW s \in Sesiones, NEW r \in Recibos, EscribirRecibo(s, r)
  PROVE  /\ aceptaciones' = aceptaciones
         /\ recibos[r] # NoExiste /\ \A q \in Recibos \ {r} : recibos'[q] = recibos[q]
         /\ ses[s].pago \in Pagos /\ ses[s].copia[r] # NoExiste
         /\ ses[s].pc = "bulk" /\ ses[s].porLeer = {}
         /\ \E monto \in Nat :
              /\ recibos'[r].montoPagado = ses[s].copia[r].montoPagado + monto
              /\ recibos'[r].abonos =
                   Append(ses[s].copia[r].abonos, [pago |-> ses[s].pago, monto |-> monto])
         /\ \A t \in Sesiones \ {s} : ses'[t] = ses[t]
         /\ ses'[s].pc = "bulk" /\ ses'[s].porLeer = {} /\ ses'[s].pago = ses[s].pago
         /\ ses'[s].solapada = ses[s].solapada /\ ses'[s].ids = ses[s].ids \cup {r}
         /\ ses'[s].copia[r] = NoExiste
         /\ \A q \in Recibos \ {r} : ses'[s].copia[q] = ses[s].copia[q]
<1> DEFINE copia == ses[s].copia[r]
           monto == Menor(ses[s].resto, Saldo(copia))
           doc == Fijar(recibos[r], ConAbono(copia, ses[s].pago, monto))
           x == [ses[s] EXCEPT !.resto = @ - monto, !.copia[r] = NoExiste, !.ids = @ \cup {r}]
<1>1. /\ ses[s] \in Sesion /\ EnRegla(recibos, pagos, ses[s])
      /\ ses[s].pc = "bulk" /\ ses[s].porLeer = {} /\ copia # NoExiste
  BY Forma DEF TypeOK, Reglas, EscribirRecibo, PorEscribir
<1>2. recibos' = [recibos EXCEPT ![r] = doc] /\ ses' = [ses EXCEPT ![s] = x]
      /\ aceptaciones' = aceptaciones
  BY DEF EscribirRecibo, Ir
<1>3. copia \in Recibo /\ Fiel(recibos, pagos, copia, r)
  BY <1>1 DEF Sesion, EnRegla
<1>4. Saldo(copia) \in Nat
  BY <1>3 DEF Saldo, Fiel, Recibo
<1>5. monto \in Nat
  BY <1>1, <1>4, MenorCota DEF Sesion
<1>6. recibos[r] # NoExiste /\ recibos'[r] = doc
      /\ \A q \in Recibos \ {r} : recibos'[q] = recibos[q]
  BY <1>2, <1>3, Forma DEF TypeOK, Fiel
<1>7. /\ doc.montoPagado = copia.montoPagado + monto
      /\ doc.abonos = Append(copia.abonos, [pago |-> ses[s].pago, monto |-> monto])
  BY DEF Fijar, ConAbono
<1>8. ses[s].pago \in Pagos
  BY <1>1 DEF EnRegla, Sesion, ConPago
<1> HIDE DEF monto, copia, doc
<1>9. /\ x.pc = "bulk" /\ x.porLeer = {} /\ x.pago = ses[s].pago
      /\ x.solapada = ses[s].solapada /\ x.ids = ses[s].ids \cup {r}
      /\ x.copia = [ses[s].copia EXCEPT ![r] = NoExiste]
  BY <1>1 DEF Sesion
<1> HIDE DEF x
<1>10. ses'[s] = x /\ \A t \in Sesiones \ {s} : ses'[t] = ses[t]
  BY <1>2, Forma DEF TypeOK
<1>11. ses[s].copia \in [Recibos -> Recibo \cup {NoExiste}]
  BY <1>1 DEF Sesion
<1> QED BY <1>1, <1>2, <1>5, <1>6, <1>7, <1>8, <1>9, <1>10, <1>11 DEF copia

(***************************************************************************)
(* The ledgers balance.                                                    *)
(***************************************************************************)
LEMMA SumanVacio == Suman(<<>>, 0)
<1> DEFINE acumulado == [i \in 0 .. 0 |-> 0]
<1>1. acumulado \in [0 .. Len(<<>>) -> 0 .. 0] /\ acumulado[0] = 0 /\ Len(<<>>) = 0
      /\ DOMAIN <<>> = {}
  OBVIOUS
<1> QED BY <1>1 DEF Suman

\* an entry at the end of a ledger adds its amount
LEMMA SumanUnoMas ==
  ASSUME NEW abonos \in Seq(Abono), NEW total \in Nat, Suman(abonos, total),
         NEW abono \in Abono
  PROVE  Suman(Append(abonos, abono), total + abono.monto)
<1> DEFINE n == Len(abonos)
           mas == Append(abonos, abono)
           nuevo == total + abono.monto
<1>1. PICK ac \in [0 .. n -> 0 .. total] :
        /\ ac[0] = 0 /\ ac[n] = total
        /\ \A i \in DOMAIN abonos : ac[i] = ac[i - 1] + abonos[i].monto
  BY DEF Suman
<1>2. n \in Nat /\ abono.monto \in Nat /\ DOMAIN abonos = 1 .. n
  BY DEF Abono
<1>3. /\ DOMAIN mas = 1 .. (n + 1) /\ Len(mas) = n + 1 /\ mas[n + 1] = abono
      /\ \A i \in 1 .. n : mas[i] = abonos[i]
  OBVIOUS
<1> HIDE DEF n, mas
<1> DEFINE ac2 == [i \in 0 .. (n + 1) |-> IF i = n + 1 THEN nuevo ELSE ac[i]]
<1>4. ac2 \in [0 .. (n + 1) -> 0 .. nuevo]
  BY <1>1, <1>2
<1>5. ac2[0] = 0 /\ ac2[n + 1] = nuevo
  BY <1>1, <1>2
<1>6. ASSUME NEW i \in 1 .. (n + 1) PROVE ac2[i] = ac2[i - 1] + mas[i].monto
  <2>1. CASE i = n + 1
    BY <1>1, <1>2, <1>3, <2>1
  <2>2. CASE i # n + 1
    <3>1. i \in 1 .. n /\ i - 1 \in 0 .. n
      BY <1>2, <2>2
    <3>2. ac2[i] = ac[i] /\ ac2[i - 1] = ac[i - 1]
      BY <1>2, <3>1
    <3> QED BY <1>1, <1>2, <1>3, <3>1, <3>2
  <2> QED BY <2>1, <2>2
<1> HIDE DEF ac2, nuevo
<1>7. Suman(mas, nuevo)
  BY <1>3, <1>4, <1>5, <1>6 DEF Suman
<1> QED BY <1>7 DEF mas, nuevo

LEMMA LibrosPaso ==
  ASSUME IInv, LibroCuadra, CopiasCuadran, [Next]_vars
  PROVE  LibroCuadra' /\ CopiasCuadran'
<1>t. TypeOK /\ IInv'
  BY Forma, PasoInv
<1>1. ASSUME UNCHANGED <<recibos, ses>> PROVE LibroCuadra' /\ CopiasCuadran'
  BY <1>1 DEF LibroCuadra, CopiasCuadran, Emitidos
<1>2. ASSUME NEW r \in Recibos, NEW m \in MontosRecibo, EmitirRecibo(r, m)
      PROVE  LibroCuadra' /\ CopiasCuadran'
  <2>1. /\ recibos'[r].abonos = <<>> /\ recibos'[r].montoPagado = 0 /\ ses' = ses
        /\ \A q \in Recibos \ {r} : recibos'[q] = recibos[q]
    BY <1>2, <1>t DEF EmitirRecibo, TypeOK
  <2> QED BY <2>1, SumanVacio DEF LibroCuadra, CopiasCuadran, Emitidos
<1>3. ASSUME NEW s \in Sesiones, PasoSesion(s) PROVE LibroCuadra' /\ CopiasCuadran'
  <2>1. ASSUME NEW p \in Pagos, Aceptar(s, p) PROVE LibroCuadra' /\ CopiasCuadran'
    BY <2>1, AlAceptar DEF LibroCuadra, CopiasCuadran, Emitidos
  <2>2. ASSUME NEW r \in Recibos, Releer(s, r) PROVE LibroCuadra' /\ CopiasCuadran'
    <3>1. recibos' = recibos /\ LibroCuadra'
      BY <2>2, AlReleer DEF LibroCuadra, Emitidos
    <3>2. ASSUME NEW t \in Sesiones, NEW q \in Recibos, ses'[t].copia[q] # NoExiste
          PROVE  ses'[t].copia[q] = ses[t].copia[q] \/ ses'[t].copia[q] = recibos[q]
      BY <2>2, <3>2, AlReleer
    <3> QED BY <3>1, <3>2 DEF LibroCuadra, CopiasCuadran, Emitidos
  <2>3. ASSUME NEW r \in Recibos, EscribirRecibo(s, r) PROVE LibroCuadra' /\ CopiasCuadran'
    <3> DEFINE copia == ses[s].copia[r]
    <3>1. PICK monto \in Nat :
            /\ recibos'[r].montoPagado = copia.montoPagado + monto
            /\ recibos'[r].abonos = Append(copia.abonos, [pago |-> ses[s].pago, monto |-> monto])
      BY <2>3, AlEscribir
    <3>2. copia \in Recibo /\ ses[s].pago \in Pagos /\ copia # NoExiste
      BY <2>3, <1>t, AlEscribir DEF TypeOK, Sesion
    <3>3. Suman(copia.abonos, copia.montoPagado)
      BY <3>2 DEF CopiasCuadran
    <3>4. [pago |-> ses[s].pago, monto |-> monto] \in Abono
          /\ [pago |-> ses[s].pago, monto |-> monto].monto = monto
      BY <3>2 DEF Abono
    <3>5. copia.abonos \in Seq(Abono) /\ copia.montoPagado \in Nat
      BY <3>2 DEF Recibo
    <3>6. Suman(recibos'[r].abonos, recibos'[r].montoPagado)
      BY <3>1, <3>3, <3>4, <3>5, SumanUnoMas
    <3>7. /\ \A q \in Recibos \ {r} : recibos'[q] = recibos[q]
          /\ \A t \in Sesiones, q \in Recibos :
               ses'[t].copia[q] # NoExiste => ses'[t].copia[q] = ses[t].copia[q]
      BY <2>3, AlEscribir
    <3> QED BY <3>6, <3>7 DEF LibroCuadra, CopiasCuadran, Emitidos
  <2>4. ASSUME UNCHANGED recibos, NEW x, Ir(s, x), Conserva(s, x)
        PROVE  LibroCuadra' /\ CopiasCuadran'
    BY <1>t, <2>4 DEF LibroCuadra, CopiasCuadran, Emitidos, Ir, Conserva, TypeOK
  <2>5. ASSUME UNCHANGED recibos, Ir(s, Inactiva) \/ Ir(s, Consulta)
        PROVE  LibroCuadra' /\ CopiasCuadran'
    <3>1. \A r \in Recibos : ses'[s].copia[r] = NoExiste
      BY <1>t, <2>5 DEF Ir, TypeOK, Inactiva, Consulta
    <3>2. \A t \in Sesiones \ {s} : ses'[t] = ses[t]
      BY <1>t, <2>5 DEF Ir, TypeOK
    <3> QED BY <2>5, <3>1, <3>2 DEF LibroCuadra, CopiasCuadran, Emitidos
  <2> QED BY <1>3, <2>1, <2>2, <2>3, <2>4, <2>5, PasoDeSesion
<1>4. ASSUME NEW p \in Pagos, Rechazar(p) \/ \E m \in MontosPago, ids \in Seleccion : CrearPago(p, m, ids)
      PROVE  LibroCuadra' /\ CopiasCuadran'
  BY <1>1, <1>4 DEF Rechazar, CrearPago
<1>5. CASE ExpirarCache \/ UNCHANGED vars
  BY <1>1, <1>5 DEF ExpirarCache, vars
<1> QED BY <1>2, <1>3, <1>4, <1>5 DEF Next

(***************************************************************************)
(* Acceptances that overlap.                                               *)
(***************************************************************************)
LEMMA AlIr ==
  ASSUME IInv, NEW s \in Sesiones, NEW x, Ir(s, x)
  PROVE  ses'[s] = x /\ \A t \in Sesiones \ {s} : ses'[t] = ses[t]
BY Forma DEF Ir, TypeOK

LEMMA SolapePaso ==
  ASSUME IInv, Solape, [Next]_vars
  PROVE  Solape'
<1>t. TypeOK /\ NoPago \notin Pagos
  BY Forma, EleccionAssumption
<1>1. ASSUME UNCHANGED <<recibos, ses>> PROVE Solape'
  BY <1>1 DEF Solape
<1>2. ASSUME NEW r \in Recibos, NEW m \in MontosRecibo, EmitirRecibo(r, m) PROVE Solape'
  <2>1. /\ recibos[r] = NoExiste /\ ses' = ses
        /\ \A q \in Recibos \ {r} : recibos'[q] = recibos[q]
    BY <1>2, <1>t DEF EmitirRecibo, TypeOK
  <2>2. \A t \in Sesiones : ses[t].copia[r] = NoExiste
    BY <2>1, Forma DEF Reglas, EnRegla, Fiel
  <2> QED BY <2>1, <2>2 DEF Solape
<1>3. ASSUME NEW s \in Sesiones, PasoSesion(s) PROVE Solape'
  <2>1. ASSUME NEW p \in Pagos, Aceptar(s, p) PROVE Solape'
    <3>1. ses[s].pago = NoPago
      BY <2>1, AlAceptar DEF Solape
    <3>2. \A t \in Sesiones : ses'[t].pc = "inactiva" => ses'[t].pago = NoPago
      BY <2>1, AlAceptar DEF Solape
    <3>3. ASSUME NEW t \in Sesiones, NEW u \in Sesiones, t # u, ses'[t].pago # NoPago,
                 ses'[u].pago # NoPago
          PROVE  ses'[t].solapada
      <4>1. CASE t = s
        BY <2>1, <3>3, <4>1, AlAceptar
      <4>2. CASE t # s
        BY <2>1, <3>3, <4>2, AlAceptar
      <4> QED BY <4>1, <4>2
    <3>4. ASSUME NEW t \in Sesiones, NEW r \in Recibos, ses'[t].copia[r] # NoExiste
          PROVE  ses'[t].pago # NoPago /\ (ses'[t].solapada \/ ses'[t].copia[r] = recibos'[r])
      BY <2>1, <3>4, AlAceptar DEF Solape
    <3> QED BY <3>2, <3>3, <3>4 DEF Solape
  <2>2. ASSUME NEW r \in Recibos, Releer(s, r) PROVE Solape'
    <3>1. \A t \in Sesiones : ses'[t].pago = ses[t].pago /\ ses'[t].solapada = ses[t].solapada
                              /\ ses'[t].pc = ses[t].pc
      BY <2>2, AlReleer
    <3>2. ASSUME NEW t \in Sesiones, NEW q \in Recibos, ses'[t].copia[q] # NoExiste
          PROVE  ses[t].pago # NoPago /\ (ses[t].solapada \/ ses'[t].copia[q] = recibos'[q])
      BY <2>2, <3>2, AlReleer DEF Solape
    <3> QED BY <3>1, <3>2 DEF Solape
  <2>3. ASSUME NEW r \in Recibos, EscribirRecibo(s, r) PROVE Solape'
    <3>1. \A t \in Sesiones : ses'[t].pago = ses[t].pago /\ ses'[t].solapada = ses[t].solapada
                              /\ ses'[t].pc = ses[t].pc
      BY <2>3, AlEscribir
    <3>2. ASSUME NEW t \in Sesiones, NEW q \in Recibos, ses'[t].copia[q] # NoExiste
          PROVE  ses[t].pago # NoPago /\ (ses[t].solapada \/ ses'[t].copia[q] = recibos'[q])
      <4>1. /\ ses[s].pago # NoPago /\ ~ (t = s /\ q = r)
            /\ ses'[t].copia[q] = ses[t].copia[q] /\ (q # r => recibos'[q] = recibos[q])
        BY <1>t, <2>3, <3>2, AlEscribir
      <4> QED BY <3>2, <4>1 DEF Solape
    <3> QED BY <3>1, <3>2 DEF Solape
  <2>4. ASSUME UNCHANGED recibos, NEW x, Ir(s, x), Conserva(s, x) PROVE Solape'
    <3>1. /\ \A t \in Sesiones : ses'[t].pago = ses[t].pago /\ ses'[t].copia = ses[t].copia
                                 /\ ses'[t].solapada = ses[t].solapada
          /\ \A t \in Sesiones : ses'[t].pc = "inactiva" => ses[t].pc = "inactiva"
      BY <2>4, AlIr DEF Conserva
    <3> QED BY <2>4, <3>1 DEF Solape
  <2>5. ASSUME UNCHANGED recibos, Ir(s, Inactiva) \/ Ir(s, Consulta) PROVE Solape'
    <3>1. ses'[s].pago = NoPago /\ \A r \in Recibos : ses'[s].copia[r] = NoExiste
      BY <2>5, AlIr DEF Inactiva, Consulta
    <3>2. \A t \in Sesiones \ {s} : ses'[t] = ses[t]
      BY <2>5, AlIr
    <3> QED BY <2>5, <3>1, <3>2 DEF Solape
  <2> QED BY <1>3, <2>1, <2>2, <2>3, <2>4, <2>5, PasoDeSesion
<1>4. ASSUME NEW p \in Pagos, Rechazar(p) \/ \E m \in MontosPago, ids \in Seleccion : CrearPago(p, m, ids)
      PROVE  Solape'
  BY <1>1, <1>4 DEF Rechazar, CrearPago
<1>5. CASE ExpirarCache \/ UNCHANGED vars
  BY <1>1, <1>5 DEF ExpirarCache, vars
<1> QED BY <1>2, <1>3, <1>4, <1>5 DEF Next

(***************************************************************************)
(* Entries and acceptances.                                                *)
(***************************************************************************)

\* an entry at the end of a ledger counts for its payment alone
LEMMA EntradasMas ==
  ASSUME NEW abonos \in Seq(Abono), NEW abono, NEW p
  PROVE  /\ IsFiniteSet(Entradas(abonos, p)) /\ Cardinality(Entradas(abonos, p)) \in Nat
         /\ Cardinality(Entradas(Append(abonos, abono), p)) =
              Cardinality(Entradas(abonos, p)) + IF abono.pago = p THEN 1 ELSE 0
<1> DEFINE n == Len(abonos)
           mas == Append(abonos, abono)
<1>1. n \in Nat /\ DOMAIN abonos = 1 .. n
  OBVIOUS
<1>2. IsFiniteSet(1 .. n) /\ Entradas(abonos, p) \subseteq 1 .. n
  BY <1>1, FS_Interval DEF Entradas
<1>3. IsFiniteSet(Entradas(abonos, p)) /\ Cardinality(Entradas(abonos, p)) \in Nat
  BY <1>2, FS_Subset, FS_CardinalityType
<1>4. /\ DOMAIN mas = 1 .. (n + 1) /\ mas[n + 1] = abono
      /\ \A i \in 1 .. n : mas[i] = abonos[i]
  OBVIOUS
<1> HIDE DEF n, mas
<1>5. CASE abono.pago = p
  <2>1. Entradas(mas, p) = Entradas(abonos, p) \cup {n + 1}
    BY <1>1, <1>4, <1>5 DEF Entradas
  <2>2. n + 1 \notin Entradas(abonos, p)
    BY <1>1 DEF Entradas
  <2>3. Cardinality(Entradas(mas, p)) = Cardinality(Entradas(abonos, p)) + 1
    BY <1>3, <2>1, <2>2, FS_AddElement
  <2> QED BY <1>3, <1>5, <2>3 DEF mas
<1>6. CASE abono.pago # p
  <2>1. Entradas(mas, p) = Entradas(abonos, p)
    BY <1>1, <1>4, <1>6 DEF Entradas
  <2> QED BY <1>3, <1>6, <2>1 DEF mas
<1> QED BY <1>5, <1>6

\* what is left to write after a step, and Cuentas then
Quedan(r, p) == {s \in Sesiones : ses'[s].pago = p /\ r \notin ses'[s].ids}

CabenTras(doc, r) ==
  \A p \in Pagos :
    Cardinality(Entradas(doc.abonos, p)) + Cardinality(Quedan(r, p)) <= aceptaciones'[p]

\* a step makes room for each request it brings
Holgura(r, p) ==
  /\ IsFiniteSet(Quedan(r, p))
  /\ Cardinality(Quedan(r, p)) + aceptaciones[p]
       <= Cardinality(PorAnotar(r, p)) + aceptaciones'[p]

EnOrden(s) == ses'[s].ids # {} => ses'[s].pc = "bulk" /\ ses'[s].porLeer = {}

LEMMA CuentasTras ==
  ASSUME \A s \in Sesiones : EnOrden(s),
         \A s \in Sesiones, r \in Recibos : ses'[s].copia[r] # NoExiste =>
           r \notin ses'[s].ids /\ CabenTras(ses'[s].copia[r], r),
         \A r \in Recibos : recibos'[r] # NoExiste => CabenTras(recibos'[r], r),
         \A r \in Recibos, p \in Pagos :
           IsFiniteSet(Quedan(r, p)) /\ Cardinality(Quedan(r, p)) <= aceptaciones'[p]
  PROVE  Cuentas'
BY DEF Cuentas, EnOrden, CabenEn, CabenTras, Quedan, PorAnotar, Emitidos

LEMMA HolguraCabe ==
  ASSUME IInv, IInv', Cuentas, NEW r \in Recibos, \A p \in Pagos : Holgura(r, p)
  PROVE  /\ \A doc \in Recibo : CabenEn(doc, r) => CabenTras(doc, r)
         /\ \A p \in Pagos :
              IsFiniteSet(Quedan(r, p)) /\ Cardinality(Quedan(r, p)) <= aceptaciones'[p]
<1>1. ASSUME NEW p \in Pagos
      PROVE  /\ aceptaciones[p] \in Nat /\ aceptaciones'[p] \in Nat
             /\ Cardinality(Quedan(r, p)) \in Nat /\ Cardinality(PorAnotar(r, p)) \in Nat
             /\ Cardinality(PorAnotar(r, p)) <= aceptaciones[p]
             /\ Cardinality(Quedan(r, p)) + aceptaciones[p]
                  <= Cardinality(PorAnotar(r, p)) + aceptaciones'[p]
  BY FS_CardinalityType, Forma, FormaPrima DEF TypeOK, Holgura, Cuentas
<1>2. \A p \in Pagos :
        IsFiniteSet(Quedan(r, p)) /\ Cardinality(Quedan(r, p)) <= aceptaciones'[p]
  BY <1>1 DEF Holgura
<1>3. ASSUME NEW doc \in Recibo, CabenEn(doc, r) PROVE CabenTras(doc, r)
  <2>1. SUFFICES ASSUME NEW p \in Pagos
                 PROVE  Cardinality(Entradas(doc.abonos, p)) + Cardinality(Quedan(r, p))
                          <= aceptaciones'[p]
    BY DEF CabenTras
  <2>2. Cardinality(Entradas(doc.abonos, p)) \in Nat
    BY EntradasMas DEF Recibo
  <2>3. Cardinality(Entradas(doc.abonos, p)) + Cardinality(PorAnotar(r, p)) <= aceptaciones[p]
    BY <1>3 DEF CabenEn
  <2> QED BY <1>1, <2>2, <2>3
<1> QED BY <1>2, <1>3

LEMMA MenosHolgura ==
  ASSUME IInv, Cuentas, NEW r \in Recibos, NEW p \in Pagos, aceptaciones' = aceptaciones,
         Quedan(r, p) \subseteq PorAnotar(r, p)
  PROVE  Holgura(r, p)
<1>1. IsFiniteSet(PorAnotar(r, p)) /\ aceptaciones[p] \in Nat
  BY Forma DEF Cuentas, TypeOK
<1>2. IsFiniteSet(Quedan(r, p)) /\ Cardinality(Quedan(r, p)) <= Cardinality(PorAnotar(r, p))
      /\ Cardinality(Quedan(r, p)) \in Nat /\ Cardinality(PorAnotar(r, p)) \in Nat
  BY <1>1, FS_Subset, FS_CardinalityType
<1> QED BY <1>1, <1>2 DEF Holgura

\* the receipts and copies of them that a step leaves alone still fit
LEMMA SiguenCabiendo ==
  ASSUME IInv, IInv', Cuentas, \A r \in Recibos, p \in Pagos : Holgura(r, p)
  PROVE  /\ \A s \in Sesiones, r \in Recibos :
              ses[s].copia[r] # NoExiste => CabenTras(ses[s].copia[r], r)
         /\ \A r \in Recibos : recibos[r] # NoExiste => CabenTras(recibos[r], r)
         /\ \A r \in Recibos, p \in Pagos :
              IsFiniteSet(Quedan(r, p)) /\ Cardinality(Quedan(r, p)) <= aceptaciones'[p]
<1>1. /\ \A s \in Sesiones, r \in Recibos :
           ses[s].copia[r] # NoExiste => ses[s].copia[r] \in Recibo
      /\ \A r \in Recibos : recibos[r] # NoExiste => recibos[r] \in Recibo
  BY Forma DEF TypeOK, Sesion
<1> QED BY <1>1, HolguraCabe DEF Cuentas, Emitidos

LEMMA CuentasAlAceptar ==
  ASSUME IInv, IInv', Solape, Cuentas, NEW s \in Sesiones, NEW p \in Pagos, Aceptar(s, p)
  PROVE  Cuentas'
<1>1. ses[s].pago = NoPago /\ NoPago \notin Pagos
  BY AlAceptar, EleccionAssumption DEF Solape
<1>2. \A r \in Recibos, q \in Pagos :
        Quedan(r, q) = IF q = p THEN PorAnotar(r, q) \cup {s} ELSE PorAnotar(r, q)
  BY <1>1, AlAceptar DEF Quedan, PorAnotar
<1>3. \A r \in Recibos, q \in Pagos : s \notin PorAnotar(r, q)
  BY <1>1 DEF PorAnotar
<1>4. aceptaciones \in [Pagos -> Nat] /\ aceptaciones' = [aceptaciones EXCEPT ![p] = @ + 1]
  BY AlAceptar, Forma DEF TypeOK
<1>5. ASSUME NEW r \in Recibos, NEW q \in Pagos PROVE Holgura(r, q)
  <2>1. IsFiniteSet(PorAnotar(r, q)) /\ Cardinality(PorAnotar(r, q)) \in Nat
    BY FS_CardinalityType DEF Cuentas
  <2>2. CASE q = p
    <3>1. Quedan(r, q) = PorAnotar(r, q) \cup {s} /\ s \notin PorAnotar(r, q)
      BY <1>2, <1>3, <2>2
    <3>2. IsFiniteSet(Quedan(r, q)) /\ Cardinality(Quedan(r, q)) = Cardinality(PorAnotar(r, q)) + 1
      BY <2>1, <3>1, FS_AddElement
    <3> QED BY <1>4, <2>1, <2>2, <3>2 DEF Holgura
  <2>3. CASE q # p
    BY <1>2, <1>4, <2>1, <2>3 DEF Holgura
  <2> QED BY <2>2, <2>3
<1>6. ASSUME NEW t \in Sesiones
      PROVE  /\ EnOrden(t)
             /\ \A r \in Recibos : ses'[t].copia[r] # NoExiste =>
                  r \notin ses'[t].ids /\ CabenTras(ses'[t].copia[r], r)
  <2>1. CASE t = s
    BY <2>1, AlAceptar DEF EnOrden
  <2>2. CASE t # s
    <3>1. /\ ses'[t].ids = ses[t].ids /\ ses'[t].copia = ses[t].copia
          /\ ses'[t].pc = ses[t].pc /\ ses'[t].porLeer = ses[t].porLeer
      BY <2>2, AlAceptar
    <3> QED BY <1>5, <3>1, SiguenCabiendo DEF Cuentas, EnOrden
  <2> QED BY <2>1, <2>2
<1>7. recibos' = recibos
  BY AlAceptar
<1> QED BY <1>5, <1>6, <1>7, SiguenCabiendo, CuentasTras

LEMMA CuentasAlReleer ==
  ASSUME IInv, IInv', Cuentas, NEW s \in Sesiones, NEW r \in Recibos, Releer(s, r)
  PROVE  Cuentas'
<1>1. \A t \in Sesiones : ses'[t].pago = ses[t].pago /\ ses'[t].ids = ses[t].ids
  BY AlReleer
<1>2. ASSUME NEW q \in Recibos, NEW p \in Pagos PROVE Holgura(q, p)
  BY <1>1, AlReleer, MenosHolgura DEF Quedan, PorAnotar
<1>3. ses[s].ids = {} /\ ses'[s].ids = {}
  BY AlReleer DEF Cuentas
<1>4. ASSUME NEW t \in Sesiones
      PROVE  /\ EnOrden(t)
             /\ \A q \in Recibos : ses'[t].copia[q] # NoExiste =>
                  q \notin ses'[t].ids /\ CabenTras(ses'[t].copia[q], q)
  <2>1. EnOrden(t)
    BY <1>3, AlReleer DEF EnOrden, Cuentas
  <2>2. ASSUME NEW q \in Recibos, ses'[t].copia[q] # NoExiste
        PROVE  q \notin ses'[t].ids /\ CabenTras(ses'[t].copia[q], q)
    <3>1. CASE t = s /\ q = r
      <4>1. ses'[t].copia[q] = recibos[q]
        BY <2>2, <3>1, AlReleer
      <4> QED BY <1>2, <1>3, <2>2, <3>1, <4>1, SiguenCabiendo
    <3>2. CASE ~ (t = s /\ q = r)
      <4>1. ses'[t].copia[q] = ses[t].copia[q]
        BY <3>2, AlReleer
      <4> QED BY <1>1, <1>2, <2>2, <4>1, SiguenCabiendo DEF Cuentas
    <3> QED BY <3>1, <3>2
  <2> QED BY <2>1, <2>2
<1>5. recibos' = recibos
  BY AlReleer
<1> QED BY <1>2, <1>4, <1>5, SiguenCabiendo, CuentasTras

\* the entry that is written is the one that was still to be written
LEMMA CuentasAlEscribir ==
  ASSUME IInv, IInv', Cuentas, NEW s \in Sesiones, NEW r \in Recibos, EscribirRecibo(s, r)
  PROVE  Cuentas'
<1> DEFINE pago == ses[s].pago
           copia == ses[s].copia[r]
<1>1. /\ \A t \in Sesiones : ses'[t].pago = ses[t].pago
      /\ \A t \in Sesiones \ {s} : ses'[t].ids = ses[t].ids
      /\ ses'[s].ids = ses[s].ids \cup {r}
      /\ aceptaciones' = aceptaciones
  BY AlEscribir
<1>2. ASSUME NEW q \in Recibos, NEW p \in Pagos PROVE Holgura(q, p)
  BY <1>1, MenosHolgura DEF Quedan, PorAnotar
<1>3. copia \in Recibo /\ pago \in Pagos /\ copia # NoExiste /\ r \notin ses[s].ids
      /\ CabenEn(copia, r)
  BY AlEscribir, Forma DEF TypeOK, Sesion, Cuentas
<1>4. CabenTras(recibos'[r], r)
  <2>1. SUFFICES ASSUME NEW p \in Pagos
                 PROVE  Cardinality(Entradas(recibos'[r].abonos, p)) + Cardinality(Quedan(r, p))
                          <= aceptaciones'[p]
    BY DEF CabenTras
  <2>2. PICK monto \in Nat :
          recibos'[r].abonos = Append(copia.abonos, [pago |-> pago, monto |-> monto])
    BY AlEscribir
  <2>3. /\ Cardinality(Entradas(copia.abonos, p)) \in Nat
        /\ Cardinality(Entradas(recibos'[r].abonos, p)) =
             Cardinality(Entradas(copia.abonos, p)) + IF pago = p THEN 1 ELSE 0
    <3>1. copia.abonos \in Seq(Abono)
      BY <1>3 DEF Recibo
    <3> DEFINE e == [pago |-> pago, monto |-> monto]
    <3>2. e.pago = pago
      OBVIOUS
    <3> HIDE DEF e
    <3>3. /\ Cardinality(Entradas(copia.abonos, p)) \in Nat
          /\ Cardinality(Entradas(Append(copia.abonos, e), p)) =
               Cardinality(Entradas(copia.abonos, p)) + IF e.pago = p THEN 1 ELSE 0
      BY <3>1, EntradasMas
    <3> QED BY <2>2, <3>2, <3>3 DEF e
  <2>4. /\ Cardinality(Entradas(copia.abonos, p)) + Cardinality(PorAnotar(r, p)) <= aceptaciones[p]
        /\ IsFiniteSet(PorAnotar(r, p)) /\ Cardinality(PorAnotar(r, p)) \in Nat
        /\ aceptaciones[p] \in Nat
    BY <1>3, FS_CardinalityType, Forma DEF CabenEn, Cuentas, TypeOK
  <2>5. CASE p = pago
    <3>1. Quedan(r, p) = PorAnotar(r, p) \ {s} /\ s \in PorAnotar(r, p)
      BY <1>1, <1>3, <2>5 DEF Quedan, PorAnotar
    <3>2. Cardinality(Quedan(r, p)) = Cardinality(PorAnotar(r, p)) - 1
      BY <2>4, <3>1, FS_RemoveElement
    <3> QED BY <1>1, <2>3, <2>4, <2>5, <3>2
  <2>6. CASE p # pago
    <3>1. Quedan(r, p) = PorAnotar(r, p)
      BY <1>1, <2>6 DEF Quedan, PorAnotar
    <3> QED BY <1>1, <2>3, <2>4, <2>6, <3>1
  <2> QED BY <2>5, <2>6
<1>5. \A q \in Recibos : recibos'[q] # NoExiste => CabenTras(recibos'[q], q)
  <2>1. \A q \in Recibos \ {r} : recibos'[q] = recibos[q]
    BY AlEscribir
  <2> QED BY <1>2, <1>4, <2>1, SiguenCabiendo
<1>6. ASSUME NEW t \in Sesiones
      PROVE  /\ EnOrden(t)
             /\ \A q \in Recibos : ses'[t].copia[q] # NoExiste =>
                  q \notin ses'[t].ids /\ CabenTras(ses'[t].copia[q], q)
  <2>1. EnOrden(t)
    BY AlEscribir DEF EnOrden, Cuentas
  <2>2. ASSUME NEW q \in Recibos, ses'[t].copia[q] # NoExiste
        PROVE  q \notin ses'[t].ids /\ CabenTras(ses'[t].copia[q], q)
    <3>1. ~ (t = s /\ q = r) /\ ses'[t].copia[q] = ses[t].copia[q]
      BY <2>2, AlEscribir
    <3>2. q \notin ses'[t].ids
      BY <1>1, <2>2, <3>1 DEF Cuentas
    <3> QED BY <1>2, <2>2, <3>1, <3>2, SiguenCabiendo
  <2> QED BY <2>1, <2>2
<1> QED BY <1>2, <1>5, <1>6, SiguenCabiendo, CuentasTras

LEMMA CuentasPaso ==
  ASSUME IInv, Solape, Cuentas, [Next]_vars
  PROVE  Cuentas'
<1>t. IInv' /\ TypeOK
  BY PasoInv, Forma
<1>1. ASSUME UNCHANGED <<recibos, ses, aceptaciones>> PROVE Cuentas'
  BY <1>1 DEF Cuentas, CabenEn, PorAnotar, Emitidos
<1>2. ASSUME NEW r \in Recibos, NEW m \in MontosRecibo, EmitirRecibo(r, m) PROVE Cuentas'
  <2>1. /\ recibos'[r].abonos = <<>> /\ ses' = ses /\ aceptaciones' = aceptaciones
        /\ \A q \in Recibos \ {r} : recibos'[q] = recibos[q]
    BY <1>2, <1>t DEF EmitirRecibo, TypeOK
  <2>2. ASSUME NEW q \in Recibos, NEW p \in Pagos PROVE Holgura(q, p)
    BY <2>1, MenosHolgura DEF Quedan, PorAnotar
  <2>3. CabenTras(recibos'[r], r)
    <3>1. \A p \in Pagos : Cardinality(Entradas(recibos'[r].abonos, p)) = 0
      BY <2>1, FS_EmptySet DEF Entradas
    <3>2. \A p \in Pagos : /\ Cardinality(Quedan(r, p)) \in Nat
                           /\ Cardinality(Quedan(r, p)) <= aceptaciones'[p]
      BY <1>t, <2>2, SiguenCabiendo, FS_CardinalityType
    <3> QED BY <3>1, <3>2 DEF CabenTras
  <2>4. \A t \in Sesiones : EnOrden(t)
    BY <2>1 DEF EnOrden, Cuentas
  <2>5. \A t \in Sesiones, q \in Recibos : ses'[t].copia[q] # NoExiste =>
          q \notin ses'[t].ids /\ CabenTras(ses'[t].copia[q], q)
    BY <1>t, <2>1, <2>2, SiguenCabiendo DEF Cuentas
  <2>6. \A q \in Recibos : recibos'[q] # NoExiste => CabenTras(recibos'[q], q)
    BY <1>t, <2>1, <2>2, <2>3, SiguenCabiendo
  <2> QED BY <1>t, <2>2, <2>4, <2>5, <2>6, SiguenCabiendo, CuentasTras
<1>3. ASSUME NEW s \in Sesiones, PasoSesion(s) PROVE Cuentas'
  <2>1. ASSUME NEW p \in Pagos, Aceptar(s, p) PROVE Cuentas'
    BY <1>t, <2>1, CuentasAlAceptar
  <2>2. ASSUME NEW r \in Recibos, Releer(s, r) PROVE Cuentas'
    BY <1>t, <2>2, CuentasAlReleer
  <2>3. ASSUME NEW r \in Recibos, EscribirRecibo(s, r) PROVE Cuentas'
    BY <1>t, <2>3, CuentasAlEscribir
  <2>4. ASSUME UNCHANGED <<recibos, aceptaciones>>, NEW x, Ir(s, x),
               Conserva(s, x) \/ x = Inactiva \/ x = Consulta
        PROVE  Cuentas'
    <3>1. ses'[s] = x /\ \A t \in Sesiones \ {s} : ses'[t] = ses[t]
      BY <2>4, AlIr
    <3>2. /\ x.ids = {}
          /\ (x.pago = ses[s].pago /\ ses[s].ids = {}) \/ x.pago = NoPago
          /\ \A q \in Recibos : x.copia[q] # NoExiste => x.copia[q] = ses[s].copia[q]
      BY <2>4 DEF Conserva, Inactiva, Consulta, Cuentas
    <3>3. ASSUME NEW q \in Recibos, NEW p \in Pagos PROVE Holgura(q, p)
      BY <2>4, <3>1, <3>2, MenosHolgura, EleccionAssumption DEF Quedan, PorAnotar
    <3>4. ASSUME NEW t \in Sesiones
          PROVE  /\ EnOrden(t)
                 /\ \A q \in Recibos : ses'[t].copia[q] # NoExiste =>
                      q \notin ses'[t].ids /\ CabenTras(ses'[t].copia[q], q)
      <4>1. CASE t = s
        BY <1>t, <3>1, <3>2, <3>3, <4>1, SiguenCabiendo DEF EnOrden
      <4>2. CASE t # s
        BY <1>t, <3>1, <3>3, <4>2, SiguenCabiendo DEF EnOrden, Cuentas
      <4> QED BY <4>1, <4>2
    <3> QED BY <1>t, <2>4, <3>3, <3>4, SiguenCabiendo, CuentasTras
  <2> QED BY <1>3, <2>1, <2>2, <2>3, <2>4, PasoDeSesion
<1>4. ASSUME NEW p \in Pagos, Rechazar(p) \/ \E m \in MontosPago, ids \in Seleccion : CrearPago(p, m, ids)
      PROVE  Cuentas'
  BY <1>1, <1>4 DEF Rechazar, CrearPago
<1>5. CASE ExpirarCache \/ UNCHANGED vars
  BY <1>1, <1>5 DEF ExpirarCache, vars
<1> QED BY <1>2, <1>3, <1>4, <1>5 DEF Next

LEMMA ContableInicio == Init => IInvContable
<1> SUFFICES ASSUME Init PROVE IInvContable
  OBVIOUS
<1>1. IInv
  BY InicioInv
<1>2. /\ \A r \in Recibos : recibos[r] = NoExiste
      /\ \A s \in Sesiones : ses[s] = Inactiva
      /\ \A p \in Pagos : aceptaciones[p] = 0
  BY DEF Init
<1>3. LibroCuadra /\ CopiasCuadran
  BY <1>2 DEF LibroCuadra, CopiasCuadran, Emitidos, Inactiva
<1>4. Solape
  BY <1>2 DEF Solape, Inactiva
<1>5. \A r \in Recibos, p \in Pagos : PorAnotar(r, p) = {}
  BY <1>2, EleccionAssumption DEF PorAnotar, Inactiva
<1>6. Cuentas
  <2>1. \A s \in Sesiones : ses[s].ids = {} /\ \A r \in Recibos : ses[s].copia[r] = NoExiste
    BY <1>2 DEF Inactiva
  <2>2. \A r \in Recibos, p \in Pagos :
          IsFiniteSet(PorAnotar(r, p)) /\ Cardinality(PorAnotar(r, p)) <= aceptaciones[p]
    BY <1>2, <1>5, FS_EmptySet
  <2> QED BY <1>2, <2>1, <2>2 DEF Cuentas, Emitidos
<1> QED BY <1>1, <1>3, <1>4, <1>6 DEF IInvContable

LEMMA ContablePaso == IInvContable /\ [Next]_vars => IInvContable'
BY PasoInv, LibrosPaso, SolapePaso, CuentasPaso DEF IInvContable

LEMMA InductivoContable == Spec => []IInvContable
BY ContableInicio, ContablePaso, PTL DEF Spec

\* The entries of every receipt's ledger explain its montoPagado, although both
\* are written from copies that other requests overwrite.
THEOREM LibroSiempreCuadra == Spec => []LibroCuadra
<1>1. IInvContable => LibroCuadra
  BY DEF IInvContable
<1> QED BY <1>1, InductivoContable, PTL

\* However requests overlap, die and are repeated, no receipt holds more entries
\* of a payment than the payment was accepted.
THEOREM AbonosAcotados == Spec => []UnAbonoPorAceptacion
<1>1. ASSUME IInvContable PROVE UnAbonoPorAceptacion
  <2>1. SUFFICES ASSUME NEW r \in Emitidos, NEW p \in Pagos
                 PROVE  Cardinality(Entradas(recibos[r].abonos, p)) <= aceptaciones[p]
    BY DEF UnAbonoPorAceptacion, AbonosDe
  <2>2. r \in Recibos /\ recibos[r] \in Recibo /\ aceptaciones[p] \in Nat
    BY <1>1, Forma DEF IInvContable, TypeOK, Emitidos
  <2>3. /\ Cardinality(Entradas(recibos[r].abonos, p)) + Cardinality(PorAnotar(r, p))
             <= aceptaciones[p]
        /\ IsFiniteSet(PorAnotar(r, p))
    BY <1>1, <2>2 DEF IInvContable, Cuentas, CabenEn
  <2>4. Cardinality(Entradas(recibos[r].abonos, p)) \in Nat
        /\ Cardinality(PorAnotar(r, p)) \in Nat
    BY <2>2, <2>3, EntradasMas, FS_CardinalityType DEF Recibo
  <2> QED BY <2>2, <2>3, <2>4
<1> QED BY <1>1, InductivoContable, PTL

LEMMA PrefijoDeSi ==
  ASSUME NEW S, NEW abonos \in Seq(S)
  PROVE  IsPrefix(abonos, abonos)
BY DEF IsPrefix

LEMMA PrefijoMas ==
  ASSUME NEW S, NEW abonos \in Seq(S), NEW abono \in S
  PROVE  IsPrefix(abonos, Append(abonos, abono))
<1>1. /\ Len(Append(abonos, abono)) = Len(abonos) + 1 /\ Len(abonos) \in Nat
      /\ \A i \in 1 .. Len(abonos) : Append(abonos, abono)[i] = abonos[i]
  OBVIOUS
<1>2. SubSeq(abonos, 1, Len(abonos)) = SubSeq(Append(abonos, abono), 1, Len(abonos))
  BY <1>1
<1> QED BY <1>1, <1>2 DEF IsPrefix

\* A ledger loses an entry only to an acceptance that has overlapped another.
THEOREM LibroSoloPierdeSolapado == Spec => SoloSolapadasPierden
<1> DEFINE Pierde(r) == \E s \in Sesiones : ses'[s] # ses[s] /\ ses[s].solapada
           Gana(r) == IsPrefix(recibos[r].abonos, recibos'[r].abonos)
<1>1. ASSUME IInvContable, [Next]_vars, NEW r \in Emitidos PROVE Gana(r) \/ Pierde(r)
  <2>t. /\ IInv /\ TypeOK /\ r \in Recibos /\ recibos[r] # NoExiste
        /\ recibos[r].abonos \in Seq(Abono)
    BY <1>1, Forma DEF IInvContable, TypeOK, Emitidos, Recibo
  <2>1. CASE recibos'[r] = recibos[r]
    BY <2>1, <2>t, PrefijoDeSi
  <2>2. ASSUME NEW q \in Recibos, NEW m \in MontosRecibo, EmitirRecibo(q, m)
        PROVE  recibos'[r] = recibos[r]
    BY <2>t, <2>2 DEF EmitirRecibo, TypeOK
  <2>3. ASSUME NEW s \in Sesiones, PasoSesion(s) PROVE Gana(r) \/ Pierde(r)
    <3>1. ASSUME NEW q \in Recibos, EscribirRecibo(s, q) PROVE Gana(r) \/ Pierde(r)
      <4>1. CASE q # r
        BY <2>1, <2>t, <3>1, <4>1, AlEscribir
      <4>2. CASE q = r
        <5>1. ses'[s] # ses[s] /\ ses[s].copia[r] # NoExiste
          BY <2>t, <3>1, <4>2, AlEscribir
        <5>2. ses[s].solapada \/ ses[s].copia[r] = recibos[r]
          BY <1>1, <2>t, <5>1 DEF IInvContable, Solape
        <5>3. CASE ses[s].solapada
          BY <5>1, <5>3
        <5>4. CASE ses[s].copia[r] = recibos[r]
          <6>0. IInv /\ EscribirRecibo(s, r)
            BY <2>t, <3>1, <4>2
          <6>1. PICK monto \in Nat :
                  recibos'[r].abonos =
                    Append(ses[s].copia[r].abonos, [pago |-> ses[s].pago, monto |-> monto])
            BY <2>t, <6>0, AlEscribir
          <6>2. ses[s].pago \in Pagos
            BY <2>t, <3>1, AlEscribir
          <6>3. [pago |-> ses[s].pago, monto |-> monto] \in Abono
            BY <6>2 DEF Abono
          <6> QED BY <2>t, <5>4, <6>1, <6>3, PrefijoMas
        <5> QED BY <5>2, <5>3, <5>4
      <4> QED BY <4>1, <4>2
    <3>2. ASSUME NEW p \in Pagos, Aceptar(s, p) PROVE recibos'[r] = recibos[r]
      BY <2>t, <3>2, AlAceptar
    <3>3. ASSUME NEW q \in Recibos, Releer(s, q) PROVE recibos'[r] = recibos[r]
      BY <2>t, <3>3, AlReleer
    <3> QED BY <2>t, <2>1, <2>3, <3>1, <3>2, <3>3, PasoDeSesion
  <2>4. ASSUME NEW p \in Pagos,
               Rechazar(p) \/ \E m \in MontosPago, ids \in Seleccion : CrearPago(p, m, ids)
        PROVE  recibos'[r] = recibos[r]
    BY <2>4 DEF Rechazar, CrearPago
  <2>5. ASSUME ExpirarCache \/ UNCHANGED vars PROVE recibos'[r] = recibos[r]
    BY <2>5 DEF ExpirarCache, vars
  <2> QED BY <1>1, <2>1, <2>2, <2>3, <2>4, <2>5 DEF Next
<1>2. IInvContable /\ [Next]_vars =>
        [\A r \in Emitidos :
           \/ IsPrefix(recibos[r].abonos, recibos'[r].abonos)
           \/ \E s \in Sesiones : ses'[s] # ses[s] /\ ses[s].solapada]_vars
  BY <1>1
<1> QED BY <1>2, InductivoContable, PTL DEF Spec, SoloSolapadasPierden
-----------------------------------------------------------------------------
(***************************************************************************)
(* The cached credit, requests served one at a time and without failures.  *)
(***************************************************************************)

\* of the requests in flight there is one at most
LEMMA SolaEnVuelo ==
  ASSUME EnSerie, NEW s \in EnVuelo, NEW t \in EnVuelo
  PROVE  s = t
<1>1. SUFFICES ASSUME s # t PROVE FALSE
  OBVIOUS
<1>2. IsFiniteSet({s, t}) /\ Cardinality({s, t}) = 2
  <2>1. IsFiniteSet({s}) /\ Cardinality({s}) = 1
    BY FS_Singleton
  <2>2. t \notin {s} /\ {s, t} = {s} \cup {t}
    BY <1>1
  <2>3. IsFiniteSet({s} \cup {t}) /\ Cardinality({s} \cup {t}) = Cardinality({s}) + 1
    BY <2>1, <2>2, FS_AddElement
  <2> QED BY <2>1, <2>2, <2>3
<1>3. {s, t} \subseteq EnVuelo /\ IsFiniteSet(EnVuelo) /\ Cardinality(EnVuelo) <= 1
  BY DEF EnSerie
<1>4. Cardinality({s, t}) <= Cardinality(EnVuelo) /\ Cardinality(EnVuelo) \in Nat
  BY <1>3, FS_Subset, FS_CardinalityType
<1> QED BY <1>2, <1>3, <1>4

LEMMA ConMontoSigue ==
  ASSUME IInv, NEW s \in Sesiones, NEW abono \in Nat
  PROVE  ConMonto(s, abono).pc \in {"inactiva", "agregar", "consumir", "bulk"}
<1> DEFINE c == calcularAplicacionPagoConAbono(pagos[ses[s].pago].monto, ses[s].deuda, abono)
           sig == [ses[s] EXCEPT !.leido = 0, !.deuda = 0, !.excess = c.excess,
                                 !.deAbono = c.amountFromAbono, !.resto = c.totalToApply]
           con == [sig EXCEPT !.pc = "agregar"]
<1>1. ses[s] \in Sesion
  BY Forma DEF TypeOK
<1>2. con.pc = "agregar"
  BY <1>1 DEF Sesion
<1>3. TrasAgregar(sig).pc \in {"consumir", "bulk"}
  BY <1>1 DEF Sesion, TrasAgregar
<1>4. \/ ConMonto(s, abono) = Inactiva
      \/ ConMonto(s, abono) = con
      \/ ConMonto(s, abono) = TrasAgregar(sig)
  BY DEF ConMonto
<1>5. Inactiva.pc = "inactiva"
  BY DEF Inactiva
<1> HIDE DEF sig, con
<1> QED BY <1>2, <1>3, <1>4, <1>5

\* what a step of a request leaves of the credit, of its cache and of itself
Ajena(s) ==
  /\ UNCHANGED <<credito, cacheAbono>>
  /\ ses[s].pc # "invalidar" /\ ses'[s].pc \notin {"fijar", "invalidar"}

LEMMA PasoDeCredito ==
  ASSUME IInv, ~ ConFallos, NEW s \in Sesiones, PasoSesion(s)
  PROVE  /\ \A t \in Sesiones \ {s} : ses'[t].pc = ses[t].pc
         /\ ses[s].pc # "inactiva" \/ Abrir(s)
         /\ \/ Ajena(s)
            \/ ses'[s].pc = "invalidar"
            \/ UNCHANGED <<credito, cacheAbono>> /\ ses[s].pc = "doc" /\ ses'[s].pc = "fijar"
               /\ ses'[s].leido = MontoCredito
            \/ credito' = credito /\ cacheAbono' = NoCache
               /\ ses'[s].pc \in {"consumir", "bulk"}
            \/ credito' = credito /\ cacheAbono' = ses[s].leido /\ ses[s].pc = "fijar"
               /\ ses'[s].pc \notin {"fijar", "invalidar"}
<1>1. ses[s] \in Sesion /\ TypeOK /\ MontoCredito \in Nat
  BY Forma, MontoCreditoTipo DEF TypeOK
<1>2. ASSUME NEW p \in Pagos, Aceptar(s, p)
      PROVE  Ajena(s) /\ Abrir(s) /\ \A t \in Sesiones \ {s} : ses'[t].pc = ses[t].pc
  <2>1. UNCHANGED <<credito, cacheAbono>> /\ Abrir(s)
    BY <1>2 DEF Aceptar
  <2> QED BY <1>2, <2>1, AlAceptar DEF Ajena
<1>3. ASSUME ~ \E p \in Pagos : Aceptar(s, p)
      PROVE  \E x : Ir(s, x)
  BY <1>3 DEF PasoSesion, LeerDeuda, SinDeuda, Consultar, LeerCache, LeerAbono, FijarCache,
              Agregar, Consumir, Guardar, Invalidar, Releer, EscribirRecibo, AnotarRecibos, Abortar
<1>4. \A t \in Sesiones \ {s} : ses'[t].pc = ses[t].pc
  BY <1>2, <1>3, AlIr
<1>5. ASSUME NEW x, Ir(s, x), x.pc \notin {"fijar", "invalidar"}, ses[s].pc # "invalidar",
             UNCHANGED <<credito, cacheAbono>>
      PROVE  Ajena(s)
  BY <1>5, AlIr DEF Ajena
<1>6. ASSUME NEW r \in Recibos, LeerDeuda(s, r) PROVE Ajena(s) /\ ses[s].pc # "inactiva"
  BY <1>1, <1>5, <1>6 DEF LeerDeuda, Sesion
<1>7. ASSUME SinDeuda(s) \/ AnotarRecibos(s) PROVE Ajena(s) /\ ses[s].pc # "inactiva"
  BY <1>1, <1>5, <1>7 DEF SinDeuda, AnotarRecibos, Inactiva
<1>8. ASSUME Consultar(s) PROVE Ajena(s) /\ Abrir(s)
  BY <1>1, <1>5, <1>8 DEF Consultar, Abrir, Inactiva
<1>9. ASSUME LeerCache(s) PROVE Ajena(s) /\ ses[s].pc # "inactiva"
  <2>1. /\ ses[s].pc \in {"cache", "deuda"} /\ UNCHANGED <<credito, cacheAbono>>
        /\ \/ cacheAbono # NoCache /\ Ir(s, ConMonto(s, cacheAbono))
           \/ Ir(s, [ses[s] EXCEPT !.pc = "doc"])
    BY <1>9 DEF LeerCache
  <2>2. CASE cacheAbono # NoCache /\ Ir(s, ConMonto(s, cacheAbono))
    BY <1>1, <1>5, <2>1, <2>2, ConMontoSigue DEF TypeOK
  <2>3. CASE Ir(s, [ses[s] EXCEPT !.pc = "doc"])
    BY <1>1, <1>5, <2>1, <2>3 DEF Sesion
  <2> QED BY <2>1, <2>2, <2>3
<1>10. ASSUME LeerAbono(s)
       PROVE  UNCHANGED <<credito, cacheAbono>> /\ ses[s].pc = "doc" /\ ses'[s].pc = "fijar"
              /\ ses'[s].leido = MontoCredito
  <2> DEFINE x == [ses[s] EXCEPT !.pc = "fijar", !.leido = MontoCredito]
  <2>1. UNCHANGED <<credito, cacheAbono>> /\ ses[s].pc = "doc" /\ Ir(s, x)
    BY <1>10 DEF LeerAbono
  <2>2. x.pc = "fijar" /\ x.leido = MontoCredito
    BY <1>1 DEF Sesion
  <2> HIDE DEF x
  <2> QED BY <2>1, <2>2, AlIr
<1>11. ASSUME FijarCache(s)
       PROVE  credito' = credito /\ cacheAbono' = ses[s].leido /\ ses[s].pc = "fijar"
              /\ ses'[s].pc \notin {"fijar", "invalidar"}
  <2>1. credito' = credito /\ cacheAbono' = ses[s].leido /\ ses[s].pc = "fijar"
        /\ Ir(s, ConMonto(s, ses[s].leido)) /\ ses[s].leido \in Nat
    BY <1>1, <1>11 DEF FijarCache, Sesion
  <2> QED BY <2>1, AlIr, ConMontoSigue
<1>12. ASSUME Agregar(s) \/ Guardar(s) PROVE ses'[s].pc = "invalidar" /\ ses[s].pc # "inactiva"
  <2> DEFINE y == [ses[s] EXCEPT !.pc = "invalidar", !.excess = 0]
             z == [ses[s] EXCEPT !.pc = "invalidar", !.leido = 0, !.deAbono = 0]
  <2>1. ses[s].pc \in {"agregar", "guardar"} /\ (Ir(s, y) \/ Ir(s, z))
    BY <1>12 DEF Agregar, Guardar
  <2>2. y.pc = "invalidar" /\ z.pc = "invalidar"
    BY <1>1 DEF Sesion
  <2> HIDE DEF y, z
  <2> QED BY <2>1, <2>2, AlIr
<1>13. ASSUME Consumir(s) PROVE Ajena(s) /\ ses[s].pc # "inactiva"
  <2> DEFINE sin == [ses[s] EXCEPT !.deAbono = 0]
             lee == [ses[s] EXCEPT !.pc = "guardar", !.leido = MontoCredito]
  <2>1. /\ ses[s].pc = "consumir" /\ UNCHANGED <<credito, cacheAbono>>
        /\ Ir(s, lee) \/ Ir(s, TrasAgregar(sin))
    BY <1>13 DEF Consumir
  <2>2. lee.pc = "guardar" /\ TrasAgregar(sin).pc \in {"consumir", "bulk"}
    BY <1>1 DEF Sesion, TrasAgregar
  <2> HIDE DEF lee, sin
  <2> QED BY <1>5, <2>1, <2>2
<1>14. ASSUME Invalidar(s)
       PROVE  credito' = credito /\ cacheAbono' = NoCache /\ ses'[s].pc \in {"consumir", "bulk"}
              /\ ses[s].pc # "inactiva"
  <2>1. TrasAgregar(ses[s]).pc \in {"consumir", "bulk"}
    BY <1>1 DEF Sesion, TrasAgregar
  <2>2. credito' = credito /\ cacheAbono' = NoCache /\ Ir(s, TrasAgregar(ses[s]))
        /\ ses[s].pc = "invalidar"
    BY <1>14 DEF Invalidar
  <2> QED BY <2>1, <2>2, AlIr
<1>15. ASSUME NEW r \in Recibos, Releer(s, r) PROVE Ajena(s) /\ ses[s].pc # "inactiva"
  <2>1. UNCHANGED <<credito, cacheAbono>>
    BY <1>15 DEF Releer
  <2> QED BY <1>15, <2>1, AlReleer DEF Ajena
<1>16. ASSUME NEW r \in Recibos, EscribirRecibo(s, r) PROVE Ajena(s) /\ ses[s].pc # "inactiva"
  <2>1. UNCHANGED <<credito, cacheAbono>>
    BY <1>16 DEF EscribirRecibo
  <2> QED BY <1>16, <2>1, AlEscribir DEF Ajena
<1>17. ~ Abortar(s)
  BY DEF Abortar
<1> QED BY <1>2, <1>4, <1>6, <1>7, <1>8, <1>9, <1>10, <1>11, <1>12, <1>13, <1>14, <1>15, <1>16,
           <1>17 DEF PasoSesion

LEMMA SerieInicio == Init => EnSerie
<1> SUFFICES ASSUME Init PROVE EnSerie
  OBVIOUS
<1>1. \A s \in Sesiones : ses[s].pc = "inactiva"
  BY DEF Init, Inactiva
<1>2. EnVuelo = {} /\ cacheAbono = NoCache
  BY <1>1 DEF EnVuelo, Init
<1> QED BY <1>1, <1>2, FS_EmptySet DEF EnSerie

LEMMA SeriePaso ==
  ASSUME MaxEnVuelo = 1, ~ ConFallos, IInv, EnSerie, [Next]_vars
  PROVE  EnSerie'
<1>1. ASSUME UNCHANGED <<ses, credito>>, cacheAbono' \in {cacheAbono, NoCache} PROVE EnSerie'
  BY <1>1 DEF EnSerie, EnVuelo, MontoCredito
<1>2. ASSUME NEW s \in Sesiones, PasoSesion(s) PROVE EnSerie'
  <2>1. \A t \in Sesiones \ {s} : ses'[t].pc = ses[t].pc /\ ses[t].pc = "inactiva"
    <3>1. \A t \in Sesiones \ {s} : ses'[t].pc = ses[t].pc
      BY <1>2, PasoDeCredito
    <3>2. CASE s \in EnVuelo
      BY <3>1, <3>2, SolaEnVuelo DEF EnVuelo
    <3>3. CASE s \notin EnVuelo
      <4>1. Abrir(s)
        BY <1>2, <3>3, PasoDeCredito DEF EnVuelo
      <4>2. IsFiniteSet(EnVuelo) /\ Cardinality(EnVuelo) \in Nat /\ Cardinality(EnVuelo) < 1
        BY <4>1, FS_CardinalityType DEF Abrir, EnSerie
      <4>3. EnVuelo = {}
        BY <4>2, FS_EmptySet
      <4> QED BY <3>1, <4>3 DEF EnVuelo
    <3> QED BY <3>2, <3>3
  <2>2. IsFiniteSet(EnVuelo') /\ Cardinality(EnVuelo') <= 1
    <3>1. EnVuelo' \subseteq {s}
      BY <2>1 DEF EnVuelo
    <3>2. IsFiniteSet({s}) /\ Cardinality({s}) = 1
      BY FS_Singleton
    <3> QED BY <3>1, <3>2, FS_Subset
  <2>3. ASSUME NEW t \in Sesiones, ses'[t].pc = "fijar" PROVE ses'[t].leido = MontoCredito'
    <3>1. t = s
      BY <2>1, <2>3
    <3>2. UNCHANGED credito /\ ses'[s].leido = MontoCredito
      BY <1>2, <2>3, <3>1, PasoDeCredito DEF Ajena
    <3> QED BY <3>1, <3>2 DEF MontoCredito
  <2>4. ASSUME ses'[s].pc # "invalidar" PROVE cacheAbono' \in {NoCache, MontoCredito'}
    <3>1. MontoCredito' = MontoCredito
      BY <1>2, <2>4, PasoDeCredito DEF Ajena, MontoCredito
    <3>2. CASE UNCHANGED cacheAbono /\ ses[s].pc # "invalidar"
      BY <2>1, <3>1, <3>2 DEF EnSerie
    <3>3. CASE cacheAbono' = NoCache
      BY <3>3
    <3>4. CASE cacheAbono' = ses[s].leido /\ ses[s].pc = "fijar"
      BY <3>1, <3>4 DEF EnSerie
    <3> QED BY <1>2, <2>4, <3>2, <3>3, <3>4, PasoDeCredito DEF Ajena
  <2> QED BY <2>2, <2>3, <2>4 DEF EnSerie
<1>3. ASSUME NEW r \in Recibos, NEW m \in MontosRecibo, EmitirRecibo(r, m) PROVE EnSerie'
  BY <1>1, <1>3 DEF EmitirRecibo
<1>4. ASSUME NEW p \in Pagos, Rechazar(p) \/ \E m \in MontosPago, ids \in Seleccion : CrearPago(p, m, ids)
      PROVE  EnSerie'
  BY <1>1, <1>4 DEF Rechazar, CrearPago
<1>5. CASE ExpirarCache \/ UNCHANGED vars
  BY <1>1, <1>5 DEF ExpirarCache, vars
<1> QED BY <1>2, <1>3, <1>4, <1>5 DEF Next

\* Served one at a time and without failures, a request leaves the cache of the
\* credit empty or true.
THEOREM CacheVeraz ==
  ASSUME MaxEnVuelo = 1, ~ ConFallos
  PROVE  Spec => []CacheAlDia
<1>1. EnSerie => CacheAlDia
  BY DEF EnSerie, CacheAlDia, EnVuelo
<1>2. IInv /\ EnSerie /\ [Next]_vars => EnSerie'
  BY SeriePaso
<1> QED BY <1>1, <1>2, SerieInicio, Inductivo, PTL DEF Spec
=============================================================================
