------------------------------- MODULE Pagos -------------------------------
(***************************************************************************)
(* Accepting a payment: PaymentsService.updateEstado, which calls          *)
(* RecibosPagoService.applyPagoAceptado and AbonoApartamentoService.       *)
(*                                                                         *)
(* One apartment of one building.  Its state in MongoDB is the set of its  *)
(* receipts (collection "administracion"), its payments (collection        *)
(* "payments") and its credit document (collection "abono_apartamento");   *)
(* the credit is also cached for 60 s under abono:<building>:<floor>:<apt>.*)
(* A session is one HTTP request in flight.  It takes one step per await:  *)
(* between two steps any other session, or the expiry of the cache entry,  *)
(* may run, and the session may die (an exception, a restart).  A find     *)
(* over several documents reads them one by one and a bulkWrite writes     *)
(* them one by one: MongoDB gives neither a snapshot without transactions. *)
(***************************************************************************)
EXTENDS Integers, Sequences, FiniteSets

CONSTANTS
  Recibos,          \* identifiers of the apartment's receipts
  Pagos,            \* identifiers of its payments
  Sesiones,         \* HTTP requests that may be in flight together
  MontosRecibo,     \* amounts a receipt may be issued for
  MontosPago,       \* amounts a payment may declare
  Seleccion,        \* the receipts a payment's form may name (recibosIds)
  Coincide,         \* Coincide[p]: receipts of the months that p declares
  CreditoInicial,   \* the credit the apartment starts with, or NoExiste
  MaxAceptaciones,  \* bound: requests that accept a payment, in all
  MaxEnVuelo,       \* bound: sessions active at the same time
  ConFallos,        \* sessions may die and Redis commands may fail
  NoExiste,         \* no such document
  NoCache,          \* no cache entry
  NoPago            \* a session that only consults the credit

ASSUME MontosAssumption ==
  /\ MontosRecibo \subseteq Nat
  /\ MontosPago \subseteq Nat \ {0}
  /\ CreditoInicial \in Nat \cup {NoExiste}
  /\ MaxAceptaciones \in Nat
ASSUME EleccionAssumption ==
  /\ Seleccion \subseteq SUBSET Recibos
  /\ Coincide \in [Pagos -> SUBSET Recibos]
  /\ ConFallos \in BOOLEAN
  /\ NoPago \notin Pagos

Abono == [pago : Pagos, monto : Nat]
Recibo == [montoUsd : Nat, montoPagado : Nat, abonos : Seq(Abono),
           estado : {"pendiente", "pagado"}]
Pago == [estado : {"pendiente", "aceptado", "rechazado"}, monto : Nat,
         recibosPagados : SUBSET Recibos]

ASSUME CentinelasAssumption ==
  /\ NoExiste \notin Recibo
  /\ NoExiste \notin Pago
  /\ NoExiste \notin Nat
  /\ NoCache \notin Nat

VARIABLES
  recibos,      \* the receipts' documents
  pagos,        \* the payments' documents
  credito,      \* monto of the credit document, or NoExiste
  cacheAbono,   \* the cached credit, or NoCache
  ses,          \* the requests in flight
  aceptaciones  \* history: how often each payment was accepted

vars == <<recibos, pagos, credito, cacheAbono, ses, aceptaciones>>

(***************************************************************************)
(* What a session holds: the awaits it has passed (pc) and the handler's   *)
(* local variables.  objetivo are the receipts the payment document of     *)
(* findOneAndUpdate refers to, porLeer those a find has still to read,     *)
(* copia the array of receipts bulkWrite is computed from, ids the ones it *)
(* has written.  solapada is history: another acceptance has been in       *)
(* flight during this one.                                                 *)
(***************************************************************************)
Pasos == {"inactiva", "deuda", "cache", "doc", "fijar", "agregar", "consumir",
          "guardar", "invalidar", "bulk"}
Sesion == [pc : Pasos, pago : Pagos \cup {NoPago}, objetivo : SUBSET Recibos,
           porLeer : SUBSET Recibos, deuda : Nat, leido : Nat, excess : Nat, deAbono : Nat, resto : Nat,
           copia : [Recibos -> Recibo \cup {NoExiste}], ids : SUBSET Recibos,
           solapada : BOOLEAN]

Inactiva == [pc |-> "inactiva", pago |-> NoPago, objetivo |-> {}, porLeer |-> {},
             deuda |-> 0, leido |-> 0, excess |-> 0, deAbono |-> 0, resto |-> 0,
             copia |-> [r \in Recibos |-> NoExiste], ids |-> {}, solapada |-> FALSE]

TypeOK ==
  /\ recibos \in [Recibos -> Recibo \cup {NoExiste}]
  /\ pagos \in [Pagos -> Pago \cup {NoExiste}]
  /\ credito \in Nat \cup {NoExiste}
  /\ cacheAbono \in Nat \cup {NoCache}
  /\ ses \in [Sesiones -> Sesion]
  /\ aceptaciones \in [Pagos -> Nat]

Init ==
  /\ recibos = [r \in Recibos |-> NoExiste]
  /\ pagos = [p \in Pagos |-> NoExiste]
  /\ credito = CreditoInicial
  /\ cacheAbono = NoCache
  /\ ses = [s \in Sesiones |-> Inactiva]
  /\ aceptaciones = [p \in Pagos |-> 0]

Menor(a, b) == IF a <= b THEN a ELSE b
EnVuelo == {s \in Sesiones : ses[s].pc # "inactiva"}
MontoCredito == IF credito = NoExiste THEN 0 ELSE credito
TieneSaldo(doc) == doc # NoExiste /\ doc.montoPagado < doc.montoUsd
Saldo(doc) == doc.montoUsd - doc.montoPagado

\* recibosPagados when the payment names receipts, else those of its months
Objetivo(p) ==
  IF pagos[p].recibosPagados # {} THEN pagos[p].recibosPagados ELSE Coincide[p]

calcularAplicacionPagoConAbono(montoPago, totalDeuda, abonoDisponible) ==
  LET amountFromPayment == Menor(montoPago, totalDeuda)
      amountFromAbono == Menor(abonoDisponible, totalDeuda - amountFromPayment)
  IN  [excess |-> montoPago - amountFromPayment,
       amountFromAbono |-> amountFromAbono,
       totalToApply |-> amountFromPayment + amountFromAbono]

\* Faulty variants (here and below, defined before what they stand in for): each
\* is a slip the code could have, and breaks one of the properties.
ConAbonoEstricto(copia, p, monto) ==
  [montoPagado |-> copia.montoPagado + monto,
   abonos |-> Append(copia.abonos, [pago |-> p, monto |-> monto]),
   estado |-> IF copia.montoPagado + monto > copia.montoUsd THEN "pagado" ELSE "pendiente"]

ConAbonoSinPrevios(copia, p, monto) ==
  [montoPagado |-> copia.montoPagado + monto,
   abonos |-> <<[pago |-> p, monto |-> monto]>>,
   estado |-> IF copia.montoPagado + monto >= copia.montoUsd THEN "pagado" ELSE "pendiente"]

\* prepararBulkAbonosRecibos: the $set computed from the copy it was given
ConAbono(copia, p, monto) ==
  [montoPagado |-> copia.montoPagado + monto,
   abonos |-> Append(copia.abonos, [pago |-> p, monto |-> monto]),
   estado |-> IF copia.montoPagado + monto >= copia.montoUsd
              THEN "pagado" ELSE "pendiente"]

FijarConPush(doc, set) ==
  [montoUsd |-> doc.montoUsd, montoPagado |-> set.montoPagado,
   abonos |-> Append(doc.abonos, set.abonos[Len(set.abonos)]), estado |-> set.estado]

\* what updateOne leaves of the stored receipt: all but the fields set
Fijar(doc, set) ==
  [montoUsd |-> doc.montoUsd, montoPagado |-> set.montoPagado,
   abonos |-> set.abonos, estado |-> set.estado]

(***************************************************************************)
(* Requests of a single write.                                             *)
(***************************************************************************)

\* RecibosService.create
EmitirRecibo(r, monto) ==
  /\ recibos[r] = NoExiste
  /\ recibos' = [recibos EXCEPT ![r] =
       [montoUsd |-> monto, montoPagado |-> 0, abonos |-> <<>>, estado |-> "pendiente"]]
  /\ UNCHANGED <<pagos, credito, cacheAbono, ses, aceptaciones>>

CrearPagoReenviado(p, monto, recibosIds) ==
  /\ pagos' = [pagos EXCEPT ![p] =
       [estado |-> "pendiente", monto |-> monto, recibosPagados |-> recibosIds]]
  /\ UNCHANGED <<recibos, credito, cacheAbono, ses, aceptaciones>>

\* PaymentsService.create: the receipts its form names are kept with the payment
CrearPago(p, monto, recibosIds) ==
  /\ pagos[p] = NoExiste
  /\ pagos' = [pagos EXCEPT ![p] =
       [estado |-> "pendiente", monto |-> monto, recibosPagados |-> recibosIds]]
  /\ UNCHANGED <<recibos, credito, cacheAbono, ses, aceptaciones>>

\* PaymentsService.updateEstado(id, 'rechazado'): whatever the state it was in
Rechazar(p) ==
  /\ pagos[p] # NoExiste
  /\ pagos' = [pagos EXCEPT ![p].estado = "rechazado"]
  /\ UNCHANGED <<recibos, credito, cacheAbono, ses, aceptaciones>>

(***************************************************************************)
(* PaymentsService.updateEstado(id, 'aceptado'), step by step.             *)
(***************************************************************************)
Ir(s, sesion) == ses' = [ses EXCEPT ![s] = sesion]

\* how many requests have accepted a payment, over all payments
Total(acs) == Cardinality(UNION {{p} \X (1 .. acs[p]) : p \in Pagos})

\* a new request arrives
Abrir(s) == ses[s].pc = "inactiva" /\ Cardinality(EnVuelo) < MaxEnVuelo

\* findOneAndUpdate sets the state without looking at the one it had
Aceptar(s, p) ==
  /\ Abrir(s)
  /\ pagos[p] # NoExiste
  /\ Total(aceptaciones) < MaxAceptaciones
  /\ pagos' = [pagos EXCEPT ![p].estado = "aceptado"]
  /\ aceptaciones' = [aceptaciones EXCEPT ![p] = @ + 1]
  /\ LET otras == {t \in Sesiones : ses[t].pago # NoPago} IN
     ses' = [t \in Sesiones |->
       IF t = s THEN [Inactiva EXCEPT !.pc = "deuda", !.pago = p,
                                      !.objetivo = Objetivo(p), !.porLeer = Objetivo(p),
                                      !.solapada = otras # {}]
       ELSE [ses[t] EXCEPT !.solapada = @ \/ t \in otras]]
  /\ UNCHANGED <<recibos, credito, cacheAbono>>

LeerDeudaEntera(s, r) ==
  /\ ses[s].pc = "deuda"
  /\ r \in ses[s].porLeer
  /\ Ir(s, [ses[s] EXCEPT
              !.porLeer = @ \ {r},
              !.deuda = IF TieneSaldo(recibos[r]) THEN @ + recibos[r].montoUsd ELSE @])
  /\ UNCHANGED <<recibos, pagos, credito, cacheAbono, aceptaciones>>

\* cargarRecibosPendientesParaPago and sumarDeudaPendienteRecibos
LeerDeuda(s, r) ==
  /\ ses[s].pc = "deuda"
  /\ r \in ses[s].porLeer
  /\ Ir(s, [ses[s] EXCEPT
              !.porLeer = @ \ {r},
              !.deuda = IF TieneSaldo(recibos[r]) THEN @ + Saldo(recibos[r]) ELSE @])
  /\ UNCHANGED <<recibos, pagos, credito, cacheAbono, aceptaciones>>

\* recibosPendientes.length === 0: nothing is applied and nothing is credited
SinDeuda(s) ==
  /\ ses[s].pc = "deuda" /\ ses[s].porLeer = {} /\ ses[s].deuda = 0
  /\ Ir(s, Inactiva)
  /\ UNCHANGED <<recibos, pagos, credito, cacheAbono, aceptaciones>>

\* GET abono publico: a resident's page only asks for the credit
Consultar(s) ==
  /\ Abrir(s)
  /\ Ir(s, [Inactiva EXCEPT !.pc = "cache"])
  /\ UNCHANGED <<recibos, pagos, credito, cacheAbono, aceptaciones>>

TrasAgregar(sesion) ==
  IF sesion.deAbono > 0 THEN [sesion EXCEPT !.pc = "consumir"]
  ELSE [sesion EXCEPT !.pc = "bulk", !.porLeer = sesion.objetivo]

\* getMonto returned: the rest of applyPagoAceptado up to its next await
ConMonto(s, abono) ==
  LET p == ses[s].pago
      c == calcularAplicacionPagoConAbono(pagos[p].monto, ses[s].deuda, abono)
      sig == [ses[s] EXCEPT !.leido = 0, !.deuda = 0, !.excess = c.excess,
                            !.deAbono = c.amountFromAbono, !.resto = c.totalToApply]
  IN  IF p = NoPago THEN Inactiva
      ELSE IF c.excess > 0 THEN [sig EXCEPT !.pc = "agregar"]
      ELSE TrasAgregar(sig)

LeerCache(s) ==
  /\ \/ ses[s].pc = "cache"
     \/ ses[s].pc = "deuda" /\ ses[s].porLeer = {} /\ ses[s].deuda > 0
  /\ \/ cacheAbono # NoCache /\ Ir(s, ConMonto(s, cacheAbono))
     \/ (cacheAbono = NoCache \/ ConFallos) /\ Ir(s, [ses[s] EXCEPT !.pc = "doc"])
  /\ UNCHANGED <<recibos, pagos, credito, cacheAbono, aceptaciones>>

LeerAbono(s) ==
  /\ ses[s].pc = "doc"
  /\ Ir(s, [ses[s] EXCEPT !.pc = "fijar", !.leido = MontoCredito])
  /\ UNCHANGED <<recibos, pagos, credito, cacheAbono, aceptaciones>>

FijarCache(s) ==
  /\ ses[s].pc = "fijar"
  /\ cacheAbono' \in {ses[s].leido} \cup (IF ConFallos THEN {cacheAbono} ELSE {})
  /\ Ir(s, ConMonto(s, ses[s].leido))
  /\ UNCHANGED <<recibos, pagos, credito, aceptaciones>>

\* agregar: an upsert with $inc
Agregar(s) ==
  /\ ses[s].pc = "agregar"
  /\ credito' = MontoCredito + ses[s].excess
  /\ Ir(s, [ses[s] EXCEPT !.pc = "invalidar", !.excess = 0])
  /\ UNCHANGED <<recibos, pagos, cacheAbono, aceptaciones>>

ConsumirSinGuardar(s) ==
  /\ ses[s].pc = "consumir"
  /\ Ir(s, TrasAgregar([ses[s] EXCEPT !.deAbono = 0]))
  /\ UNCHANGED <<recibos, pagos, credito, cacheAbono, aceptaciones>>

\* consumir reads the document; without credit it returns 0, which nobody looks at
Consumir(s) ==
  /\ ses[s].pc = "consumir"
  /\ Ir(s, IF MontoCredito > 0
           THEN [ses[s] EXCEPT !.pc = "guardar", !.leido = MontoCredito]
           ELSE TrasAgregar([ses[s] EXCEPT !.deAbono = 0]))
  /\ UNCHANGED <<recibos, pagos, credito, cacheAbono, aceptaciones>>

\* doc.save() sets the amount computed from the document read before
Guardar(s) ==
  /\ ses[s].pc = "guardar"
  /\ credito' = ses[s].leido - Menor(ses[s].leido, ses[s].deAbono)
  /\ Ir(s, [ses[s] EXCEPT !.pc = "invalidar", !.leido = 0, !.deAbono = 0])
  /\ UNCHANGED <<recibos, pagos, cacheAbono, aceptaciones>>

InvalidarOlvidado(s) ==
  /\ ses[s].pc = "invalidar"
  /\ Ir(s, TrasAgregar(ses[s]))
  /\ UNCHANGED <<recibos, pagos, credito, cacheAbono, aceptaciones>>

\* invalidarCache: a failing Redis command is swallowed
Invalidar(s) ==
  /\ ses[s].pc = "invalidar"
  /\ cacheAbono' \in {NoCache} \cup (IF ConFallos THEN {cacheAbono} ELSE {})
  /\ Ir(s, TrasAgregar(ses[s]))
  /\ UNCHANGED <<recibos, pagos, credito, aceptaciones>>

\* updateManyByIds / updateManyByMeses read the receipts again
Releer(s, r) ==
  /\ ses[s].pc = "bulk"
  /\ r \in ses[s].porLeer
  /\ Ir(s, [ses[s] EXCEPT
              !.porLeer = @ \ {r},
              !.copia[r] = IF TieneSaldo(recibos[r]) THEN recibos[r] ELSE NoExiste])
  /\ UNCHANGED <<recibos, pagos, credito, cacheAbono, aceptaciones>>

\* the receipts bulkWrite has still to write, while an amount is left
PorEscribir(s) ==
  {r \in Recibos : ses[s].resto > 0 /\ ses[s].copia[r] # NoExiste}

EscribirSinTope(s, r) ==
  LET monto == ses[s].resto
      set == ConAbono(ses[s].copia[r], ses[s].pago, monto)
  IN  /\ ses[s].pc = "bulk" /\ ses[s].porLeer = {}
      /\ r \in PorEscribir(s)
      /\ recibos' = [recibos EXCEPT ![r] = Fijar(recibos[r], set)]
      /\ Ir(s, [ses[s] EXCEPT !.resto = 0, !.copia[r] = NoExiste, !.ids = @ \cup {r}])
      /\ UNCHANGED <<pagos, credito, cacheAbono, aceptaciones>>

EscribirSinDescontar(s, r) ==
  LET monto == Menor(ses[s].resto, Saldo(ses[s].copia[r]))
      set == ConAbono(ses[s].copia[r], ses[s].pago, monto)
  IN  /\ ses[s].pc = "bulk" /\ ses[s].porLeer = {}
      /\ r \in PorEscribir(s)
      /\ recibos' = [recibos EXCEPT ![r] = Fijar(recibos[r], set)]
      /\ Ir(s, [ses[s] EXCEPT !.copia[r] = NoExiste, !.ids = @ \cup {r}])
      /\ UNCHANGED <<pagos, credito, cacheAbono, aceptaciones>>

\* one updateOne of the bulkWrite: $set of the values computed from the copy
EscribirRecibo(s, r) ==
  LET monto == Menor(ses[s].resto, Saldo(ses[s].copia[r]))
      set == ConAbono(ses[s].copia[r], ses[s].pago, monto)
  IN  /\ ses[s].pc = "bulk" /\ ses[s].porLeer = {}
      /\ r \in PorEscribir(s)
      /\ recibos' = [recibos EXCEPT ![r] = Fijar(recibos[r], set)]
      /\ Ir(s, [ses[s] EXCEPT !.resto = @ - monto, !.copia[r] = NoExiste,
                              !.ids = @ \cup {r}])
      /\ UNCHANGED <<pagos, credito, cacheAbono, aceptaciones>>

\* the receipts written, if any, replace the ones the payment named
AnotarRecibos(s) ==
  /\ ses[s].pc = "bulk" /\ ses[s].porLeer = {} /\ PorEscribir(s) = {}
  /\ pagos' = IF ses[s].ids = {} THEN pagos
              ELSE [pagos EXCEPT ![ses[s].pago].recibosPagados = ses[s].ids]
  /\ Ir(s, Inactiva)
  /\ UNCHANGED <<recibos, credito, cacheAbono, aceptaciones>>

(***************************************************************************)
(* The environment.                                                        *)
(***************************************************************************)

AbortarYReintentar(s) ==
  /\ ses[s].pago # NoPago
  /\ Ir(s, [Inactiva EXCEPT !.pc = "deuda", !.pago = ses[s].pago,
                            !.objetivo = ses[s].objetivo, !.porLeer = ses[s].objetivo])
  /\ UNCHANGED <<recibos, pagos, credito, cacheAbono, aceptaciones>>

\* an await rejects, or the process dies: what was written stays written
Abortar(s) ==
  /\ ConFallos
  /\ ses[s].pc # "inactiva"
  /\ Ir(s, Inactiva)
  /\ UNCHANGED <<recibos, pagos, credito, cacheAbono, aceptaciones>>

\* the 60 s of the entry are over
ExpirarCache ==
  /\ cacheAbono # NoCache
  /\ cacheAbono' = NoCache
  /\ UNCHANGED <<recibos, pagos, credito, ses, aceptaciones>>

PasoSesion(s) ==
  \/ \E p \in Pagos : Aceptar(s, p)
  \/ \E r \in Recibos : LeerDeuda(s, r)
  \/ SinDeuda(s)
  \/ Consultar(s)
  \/ LeerCache(s)
  \/ LeerAbono(s)
  \/ FijarCache(s)
  \/ Agregar(s)
  \/ Consumir(s)
  \/ Guardar(s)
  \/ Invalidar(s)
  \/ \E r \in Recibos : Releer(s, r)
  \/ \E r \in Recibos : EscribirRecibo(s, r)
  \/ AnotarRecibos(s)
  \/ Abortar(s)

Next ==
  \/ \E r \in Recibos, m \in MontosRecibo : EmitirRecibo(r, m)
  \/ \E p \in Pagos, m \in MontosPago, ids \in Seleccion : CrearPago(p, m, ids)
  \/ \E p \in Pagos : Rechazar(p)
  \/ \E s \in Sesiones : PasoSesion(s)
  \/ ExpirarCache

Spec == Init /\ [][Next]_vars
-----------------------------------------------------------------------------
(***************************************************************************)
(* Invariants under every interleaving, with sessions that die anywhere.   *)
(***************************************************************************)
Emitidos == {r \in Recibos : recibos[r] # NoExiste}

\* No receipt is ever paid beyond its amount, although the amount to apply is
\* computed from a copy that other requests overwrite meanwhile.
SaldoAcotado == \A r \in Emitidos : recibos[r].montoPagado <= recibos[r].montoUsd

\* A receipt is "pagado" exactly when nothing is owed on it (a receipt issued
\* for nothing stays "pendiente"), so listings by estado and by saldo agree.
EstadoCoherente ==
  \A r \in Emitidos :
    recibos[r].estado = "pagado" <=>
      recibos[r].montoUsd > 0 /\ recibos[r].montoPagado >= recibos[r].montoUsd

\* A payment still to be reviewed has moved no money: every entry of a ledger
\* comes from a payment an administrator has ruled on.
Resuelto(docs, p) == docs[p] # NoExiste /\ docs[p].estado # "pendiente"
Resueltos(docs, abonos) == \A i \in DOMAIN abonos : Resuelto(docs, abonos[i].pago)
PendienteNoMueve == \A r \in Emitidos : Resueltos(pagos, recibos[r].abonos)

(***************************************************************************)
(* The inductive invariant.  A copy of a receipt may be out of date in     *)
(* what was paid, but it is a copy of that receipt: it was issued for the  *)
(* same amount, and when it was read something was owed on it.             *)
(***************************************************************************)
Fiel(recs, docs, copia, r) ==
  /\ recs[r] # NoExiste
  /\ copia.montoUsd = recs[r].montoUsd
  /\ copia.montoPagado < copia.montoUsd
  /\ Resueltos(docs, copia.abonos)

ConPago == {"deuda", "agregar", "consumir", "guardar", "invalidar", "bulk"}

EnRegla(recs, docs, sesion) ==
  /\ sesion.pc \in ConPago => sesion.pago # NoPago
  /\ sesion.pago # NoPago => Resuelto(docs, sesion.pago)
  /\ \A r \in Recibos :
       sesion.copia[r] # NoExiste => Fiel(recs, docs, sesion.copia[r], r)

IInv ==
  /\ TypeOK
  /\ SaldoAcotado
  /\ EstadoCoherente
  /\ PendienteNoMueve
  /\ \A s \in Sesiones : EnRegla(recibos, pagos, ses[s])
=============================================================================
