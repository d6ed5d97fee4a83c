---------------------------- MODULE CuentasProofs ----------------------------
(***************************************************************************)
(* Proofs about what the apartment's documents add up to, for any number   *)
(* of receipts, payments and requests: served one at a time, acceptances   *)
(* implement the accounts of LibroMayor; and the category that a report    *)
(* answers, while payments are being accepted, is explained.               *)
(***************************************************************************)
EXTENDS Cobro, PagosProofs, PagosCausas, Sumas

(***************************************************************************)
(* The accounts.  FondoDe is Fondo with the sums named, so that a step can *)
(* be reckoned on them.                                                    *)
(***************************************************************************)
Inicial == IF CreditoInicial = NoExiste THEN 0 ELSE CreditoInicial
FondoDe(ing, disponible, pagado) ==
  (Inicial + Suma(ing, Pagos)) - disponible - Suma(pagado, Recibos)

\* the abstract accounts add up in the same way
LEMMA SumaDelMayor == \A g, S : Mayor!Suma(g, S) = Suma(g, S)
BY Zenon DEF Mayor!Suma, Mayor!MapThenSumSet, Mayor!MapThenFoldSet, Suma, MapThenSumSet,
             MapThenFoldSet

LEMMA FondoEs ==
  /\ Mayor!Fondo = FondoDe(ingresos, MontoCredito, montoPagado)
  /\ ingresado = Inicial + Suma(ingresos, Pagos)
<1>1. ingresado = Inicial + Suma(ingresos, Pagos)
  BY Zenon DEF ingresado, Inicial
<1>2. Mayor!Fondo = ingresado - MontoCredito - Mayor!Suma(montoPagado, Recibos)
  BY Zenon DEF Mayor!Fondo
<1>3. Mayor!Suma(montoPagado, Recibos) = Suma(montoPagado, Recibos)
  BY SumaDelMayor, Zenon
<1>4. Mayor!Fondo = ingresado - MontoCredito - Suma(montoPagado, Recibos)
  BY <1>2, <1>3, Zenon
<1>5. Mayor!Fondo = (Inicial + Suma(ingresos, Pagos)) - MontoCredito - Suma(montoPagado, Recibos)
  BY <1>1, <1>4, Zenon
<1> QED BY <1>1, <1>5, Zenon DEF FondoDe

LEMMA FondoEsTras ==
  /\ (Mayor!Fondo)' = FondoDe(ingresos', MontoCredito', montoPagado')
  /\ ingresado' = Inicial + Suma(ingresos', Pagos)
<1>1. ingresado' = Inicial + Suma(ingresos', Pagos)
  BY Zenon DEF ingresado, Inicial
<1>2. (Mayor!Fondo)' = ingresado' - MontoCredito' - Mayor!Suma(montoPagado', Recibos)
  BY Zenon DEF Mayor!Fondo
<1>3. Mayor!Suma(montoPagado', Recibos) = Suma(montoPagado', Recibos)
  BY SumaDelMayor, Zenon
<1>4. (Mayor!Fondo)' = ingresado' - MontoCredito' - Suma(montoPagado', Recibos)
  BY <1>2, <1>3, Zenon
<1>5. (Mayor!Fondo)' = (Inicial + Suma(ingresos', Pagos)) - MontoCredito' - Suma(montoPagado', Recibos)
  BY <1>1, <1>4, Zenon
<1> QED BY <1>1, <1>5, Zenon DEF FondoDe

LEMMA Producto ==
  ASSUME NEW a \in Nat, NEW m \in Nat
  PROVE  a * m \in Nat /\ (a + 1) * m = a * m + m
OBVIOUS

\* the accounts of the receipts and of the payments are amounts
LEMMA MontosTipo ==
  ASSUME TypeOK
  PROVE  /\ montoUsd \in [Recibos -> Nat] /\ montoPagado \in [Recibos -> Nat]
         /\ ingresos \in [Pagos -> Nat] /\ MontoCredito \in Nat
<1>1. \A r \in Recibos : recibos[r] # NoExiste => recibos[r].montoUsd \in Nat
                                                  /\ recibos[r].montoPagado \in Nat
  BY DEF TypeOK, Recibo
<1>2. \A p \in Pagos : pagos[p] # NoExiste => aceptaciones[p] * pagos[p].monto \in Nat
  <2> SUFFICES ASSUME NEW p \in Pagos, pagos[p] # NoExiste
               PROVE  aceptaciones[p] * pagos[p].monto \in Nat
    OBVIOUS
  <2>1. aceptaciones[p] \in Nat /\ pagos[p].monto \in Nat
    BY DEF TypeOK, Pago
  <2> QED BY <2>1, Producto
<1> QED BY <1>1, <1>2, MontoCreditoTipo DEF montoUsd, montoPagado, ingresos

LEMMA MontosTipoTras ==
  ASSUME TypeOK'
  PROVE  /\ montoUsd' \in [Recibos -> Nat] /\ montoPagado' \in [Recibos -> Nat]
         /\ ingresos' \in [Pagos -> Nat] /\ MontoCredito' \in Nat
<1>1. \A r \in Recibos : recibos'[r] # NoExiste => recibos'[r].montoUsd \in Nat
                                                   /\ recibos'[r].montoPagado \in Nat
  BY DEF TypeOK, Recibo
<1>2. \A p \in Pagos : pagos'[p] # NoExiste => aceptaciones'[p] * pagos'[p].monto \in Nat
  <2> SUFFICES ASSUME NEW p \in Pagos, pagos'[p] # NoExiste
               PROVE  aceptaciones'[p] * pagos'[p].monto \in Nat
    OBVIOUS
  <2>1. aceptaciones'[p] \in Nat /\ pagos'[p].monto \in Nat
    BY DEF TypeOK, Pago
  <2> QED BY <2>1, Producto
<1>3. MontoCredito' \in Nat
  BY DEF TypeOK, MontoCredito
<1> QED BY <1>1, <1>2, <1>3 DEF montoUsd, montoPagado, ingresos

Finitos == IsFiniteSet(Recibos) /\ IsFiniteSet(Pagos)

LEMMA FondoEntero ==
  ASSUME Finitos, NEW ing \in [Pagos -> Nat], NEW d \in Nat, NEW pag \in [Recibos -> Nat]
  PROVE  /\ Suma(ing, Pagos) \in Int /\ Suma(pag, Recibos) \in Int
         /\ Inicial \in Nat /\ FondoDe(ing, d, pag) \in Int
<1>1. Enteros(ing, Pagos) /\ Enteros(pag, Recibos)
  BY DEF Enteros
<1>2. Suma(ing, Pagos) \in Int /\ Suma(pag, Recibos) \in Int
  BY <1>1, SumaTipo DEF Finitos
<1>3. Inicial \in Nat
  BY MontosAssumption DEF Inicial
<1> QED BY <1>2, <1>3 DEF FondoDe

\* what a step that touches no account leaves of them
LEMMA CuentasQuietas ==
  ASSUME UNCHANGED <<recibos, credito>>, ingresos' = ingresos
  PROVE  /\ UNCHANGED Mayor!cuentas /\ (Mayor!Fondo)' = Mayor!Fondo
         /\ MontoCredito' = MontoCredito
<1>1. montoUsd' = montoUsd /\ montoPagado' = montoPagado /\ MontoCredito' = MontoCredito
  BY DEF montoUsd, montoPagado, MontoCredito
<1>2. ingresado' = ingresado /\ (Mayor!Fondo)' = Mayor!Fondo
  BY <1>1, FondoEs, FondoEsTras
<1> QED BY <1>1, <1>2 DEF Mayor!cuentas

(***************************************************************************)
(* What a request has in its hands, await by await, and what is owed on    *)
(* the receipts it is to write.                                            *)
(***************************************************************************)
LEMMA PendientesTipo ==
  ASSUME TypeOK
  PROVE  pendientes \in [Recibos -> Nat]
BY CentinelasAssumption DEF TypeOK, pendientes, TieneSaldo, Saldo, Recibo

LEMMA PendientesTipoTras ==
  ASSUME TypeOK'
  PROVE  pendientes' \in [Recibos -> Nat]
BY CentinelasAssumption DEF TypeOK, pendientes, TieneSaldo, Saldo, Recibo

\* on more receipts no less is owed
LEMMA PendienteParte ==
  ASSUME Finitos, NEW g \in [Recibos -> Nat], NEW A \in SUBSET Recibos, NEW B \in SUBSET A
  PROVE  Suma(g, B) \in Nat /\ Suma(g, A) \in Nat /\ Suma(g, B) <= Suma(g, A)
<1>1. IsFiniteSet(A) /\ \A r \in A : g[r] \in Nat
  BY FS_Subset DEF Finitos
<1> QED BY <1>1, SumaParte

LEMMA TrasAgregarCuenta ==
  ASSUME Finitos, NEW docs, NEW x \in Sesion, NEW d \in Nat, NEW g \in [Recibos -> Nat],
         x.excess = 0, x.deAbono <= d, x.deAbono <= x.resto
  PROVE  /\ EnCuenta(TrasAgregar(x), d) /\ TrasAgregar(x).solapada = x.solapada
         /\ EnMano(docs, TrasAgregar(x)) = x.resto - x.deAbono
         /\ x.resto <= Suma(g, x.objetivo) => Alcanza(g, TrasAgregar(x))
<1> DEFINE y == TrasAgregar(x)
           C == {r \in Recibos : x.copia[r] # NoExiste}
<1>1. x.deAbono \in Nat /\ x.resto \in Nat /\ x.objetivo \in SUBSET Recibos
  BY DEF Sesion
<1>2. /\ y.deAbono = x.deAbono /\ y.resto = x.resto /\ y.excess = 0
      /\ y.solapada = x.solapada /\ y.pc = IF x.deAbono > 0 THEN "consumir" ELSE "bulk"
      /\ y.objetivo = x.objetivo /\ y.copia = x.copia
      /\ y.pc = "bulk" => y.porLeer = x.objetivo
  BY DEF TrasAgregar, Sesion
<1> HIDE DEF y
<1>3. EnMano(docs, y) = x.resto - x.deAbono
  BY <1>1, <1>2 DEF EnMano, PorCalcular
<1>4. EnCuenta(y, d)
  BY <1>1, <1>2 DEF EnCuenta
<1>5. ASSUME x.resto <= Suma(g, x.objetivo) PROVE Alcanza(g, y)
  <2>1. /\ Suma(g, x.objetivo) \in Nat /\ Suma(g, x.objetivo \cup C) \in Nat
        /\ Suma(g, x.objetivo) <= Suma(g, x.objetivo \cup C)
    BY <1>1, PendienteParte
  <2>2. C = {r \in Recibos : y.copia[r] # NoExiste}
    BY <1>2
  <2> HIDE DEF C
  <2>3. x.resto <= Suma(g, x.objetivo \cup C)
    BY <1>1, <1>5, <2>1
  <2> QED BY <1>2, <1>5, <2>2, <2>3 DEF Alcanza, PorCalcular
<1> QED BY <1>2, <1>3, <1>4, <1>5 DEF y

\* the parts a payment is split into are the payment and no more, and what is to be
\* applied is owed
LEMMA CalculoCuadra ==
  ASSUME NEW montoPago \in Nat, NEW totalDeuda \in Nat, NEW abono \in Nat
  PROVE  LET c == calcularAplicacionPagoConAbono(montoPago, totalDeuda, abono)
         IN  /\ c.excess \in Nat /\ c.amountFromAbono \in Nat /\ c.totalToApply \in Nat
             /\ c.amountFromAbono <= abono /\ c.amountFromAbono <= c.totalToApply
             /\ c.excess + c.totalToApply - c.amountFromAbono = montoPago
             /\ c.totalToApply <= totalDeuda
<1> DEFINE a == Menor(montoPago, totalDeuda)
           b == Menor(abono, totalDeuda - a)
<1>1. a \in Nat /\ a <= montoPago /\ a <= totalDeuda
  BY MenorCota
<1>2. totalDeuda - a \in Nat
  BY <1>1
<1>3. b \in Nat /\ b <= abono /\ b <= totalDeuda - a
  <2> HIDE DEF a
  <2> QED BY <1>2, MenorCota
<1> HIDE DEF a, b
<1> QED BY <1>1, <1>3 DEF calcularAplicacionPagoConAbono, a, b

LEMMA ConMontoCuenta ==
  ASSUME Finitos, IInv, NEW s \in Sesiones, ses[s].pago # NoPago
  PROVE  LET y == ConMonto(s, MontoCredito) IN
         /\ EnCuenta(y, MontoCredito) /\ y.solapada = ses[s].solapada
         /\ EnMano(pagos, y) = pagos[ses[s].pago].monto
         /\ ses[s].deuda <= Suma(pendientes, ses[s].objetivo) => Alcanza(pendientes, y)
<1> DEFINE p == ses[s].pago
           c == calcularAplicacionPagoConAbono(pagos[p].monto, ses[s].deuda, MontoCredito)
           sig == [ses[s] EXCEPT !.leido = 0, !.deuda = 0, !.excess = c.excess,
                                 !.deAbono = c.amountFromAbono, !.resto = c.totalToApply]
           con == [sig EXCEPT !.pc = "agregar"]
           debe == Suma(pendientes, ses[s].objetivo)
<1>1. /\ ses[s] \in Sesion /\ EnRegla(recibos, pagos, ses[s]) /\ MontoCredito \in Nat
      /\ pendientes \in [Recibos -> Nat]
  BY Forma, MontoCreditoTipo, PendientesTipo DEF Reglas, TypeOK
<1>2. /\ p \in Pagos /\ pagos[p] \in Pago /\ ses[s].deuda \in Nat /\ pagos[p].monto \in Nat
      /\ ses[s].objetivo \in SUBSET Recibos
  BY <1>1, Forma DEF TypeOK, Sesion, EnRegla, Resuelto, Pago
<1>3. debe \in Nat
  BY <1>1, <1>2, PendienteParte
<1>4. /\ c.excess \in Nat /\ c.amountFromAbono \in Nat /\ c.totalToApply \in Nat
      /\ c.amountFromAbono <= MontoCredito /\ c.amountFromAbono <= c.totalToApply
      /\ c.excess + c.totalToApply - c.amountFromAbono = pagos[p].monto
      /\ c.totalToApply <= ses[s].deuda
  BY <1>1, <1>2, CalculoCuadra
<1>5. ConMonto(s, MontoCredito) = IF c.excess > 0 THEN con ELSE TrasAgregar(sig)
  BY DEF ConMonto
<1> HIDE DEF c
<1>6. /\ sig \in Sesion /\ sig.solapada = ses[s].solapada /\ sig.objetivo = ses[s].objetivo
      /\ sig.excess = c.excess /\ sig.deAbono = c.amountFromAbono /\ sig.resto = c.totalToApply
  BY <1>1, <1>4 DEF Sesion
<1> HIDE DEF sig
<1>7. /\ con.pc = "agregar" /\ con.solapada = sig.solapada /\ con.excess = sig.excess
      /\ con.deAbono = sig.deAbono /\ con.resto = sig.resto /\ con.objetivo = sig.objetivo
  BY <1>6 DEF Sesion
<1> HIDE DEF con
<1>8. ses[s].deuda <= debe => sig.resto <= debe
  <2> HIDE DEF debe
  <2> QED BY <1>2, <1>3, <1>4, <1>6
<1>9. CASE c.excess > 0
  <2>1. EnMano(pagos, con) = pagos[p].monto
    BY <1>4, <1>6, <1>7 DEF EnMano, PorCalcular
  <2>2. EnCuenta(con, MontoCredito)
    BY <1>4, <1>6, <1>7, <1>9 DEF EnCuenta
  <2>3. ses[s].deuda <= debe => Alcanza(pendientes, con)
    BY <1>6, <1>7, <1>8 DEF Alcanza, PorCalcular
  <2> QED BY <1>5, <1>6, <1>7, <1>9, <2>1, <2>2, <2>3
<1>10. CASE ~ (c.excess > 0)
  <2>1. sig.excess = 0
    BY <1>4, <1>6, <1>10
  <2>2. /\ EnCuenta(TrasAgregar(sig), MontoCredito) /\ TrasAgregar(sig).solapada = sig.solapada
        /\ EnMano(pagos, TrasAgregar(sig)) = sig.resto - sig.deAbono
        /\ sig.resto <= Suma(pendientes, sig.objetivo) => Alcanza(pendientes, TrasAgregar(sig))
    BY <1>1, <1>4, <1>6, <2>1, TrasAgregarCuenta
  <2>3. sig.resto - sig.deAbono = pagos[p].monto
    BY <1>2, <1>4, <1>6, <1>10
  <2> QED BY <1>5, <1>6, <1>8, <1>10, <2>2, <2>3
<1> QED BY <1>9, <1>10

\* what an await that writes nothing leaves of an acceptance whose accounts are true
Sigue(x, y) ==
  /\ EnCuenta(y, MontoCredito) /\ EnMano(pagos, y) = EnMano(pagos, x)
  /\ y.solapada = x.solapada
  /\ Alcanza(pendientes, x) => Alcanza(pendientes, y)

Callados(s) ==
  \/ (\E r \in Recibos : LeerDeuda(s, r) \/ Releer(s, r))
  \/ LeerCache(s) \/ LeerAbono(s) \/ FijarCache(s) \/ Consumir(s) \/ Invalidar(s)

\* the credit an acceptance finds in the cache, if it is to read it, is the stored one
Fresca(s) == ses[s].pc \in {"deuda", "cache"} => cacheAbono \in {NoCache, MontoCredito}

LEMMA LeerDeudaCuenta ==
  ASSUME Finitos, IInv, NEW s \in Sesiones, EnCuenta(ses[s], MontoCredito),
         NEW r \in Recibos, LeerDeuda(s, r)
  PROVE  Sigue(ses[s], ses'[s])
<1> DEFINE suma == IF TieneSaldo(recibos[r]) THEN ses[s].deuda + Saldo(recibos[r])
                   ELSE ses[s].deuda
           x == [ses[s] EXCEPT !.porLeer = @ \ {r}, !.deuda = suma]
           leidos == ses[s].objetivo \ ses[s].porLeer
<1>t. /\ ses[s] \in Sesion /\ pendientes \in [Recibos -> Nat]
      /\ recibos[r] \in Recibo \cup {NoExiste} /\ ses[s].deuda \in Nat
      /\ ses[s].objetivo \in SUBSET Recibos
  BY Forma, PendientesTipo DEF TypeOK, Sesion
<1>1. ses[s].pc = "deuda" /\ r \in ses[s].porLeer /\ Ir(s, x)
  BY DEF LeerDeuda
<1>2. suma = ses[s].deuda + pendientes[r]
  BY <1>t DEF pendientes
<1> HIDE DEF suma
<1>3. /\ x.pc = "deuda" /\ x.pago = ses[s].pago /\ x.excess = ses[s].excess
      /\ x.resto = ses[s].resto /\ x.deAbono = ses[s].deAbono
      /\ x.solapada = ses[s].solapada /\ x.objetivo = ses[s].objetivo
      /\ x.porLeer = ses[s].porLeer \ {r} /\ x.deuda = suma
  BY <1>t, <1>1 DEF Sesion
<1> HIDE DEF x
<1>4. ASSUME Alcanza(pendientes, ses[s]) PROVE Alcanza(pendientes, x)
  <2>1. ses[s].porLeer \subseteq ses[s].objetivo /\ ses[s].deuda <= Suma(pendientes, leidos)
    BY <1>1, <1>4 DEF Alcanza, PorCalcular
  <2>2. x.objetivo \ x.porLeer = leidos \cup {r} /\ (leidos \cup {r}) \ {r} = leidos
        /\ leidos \cup {r} \in SUBSET Recibos
    BY <1>1, <1>3, <1>t, <2>1
  <2> HIDE DEF leidos
  <2>3. IsFiniteSet(leidos \cup {r}) /\ Enteros(pendientes, leidos \cup {r})
    BY <1>t, <2>2, FS_Subset DEF Finitos, Enteros
  <2>4. Suma(pendientes, leidos \cup {r}) = pendientes[r] + Suma(pendientes, leidos)
    <3>1. Suma(pendientes, leidos \cup {r}) =
            pendientes[r] + Suma(pendientes, (leidos \cup {r}) \ {r})
      BY <2>3, SumaQuita
    <3> QED BY <2>2, <3>1, Zenon
  <2>5. Suma(pendientes, leidos) \in Nat /\ pendientes[r] \in Nat
    BY <1>t, <2>2, PendienteParte
  <2>6. suma <= Suma(pendientes, leidos \cup {r})
    BY <1>t, <1>2, <2>1, <2>4, <2>5
  <2>7. x.porLeer \subseteq x.objetivo
    BY <1>3, <2>1
  <2> QED BY <1>3, <2>2, <2>6, <2>7 DEF Alcanza, PorCalcular
<1>5. ses'[s] = x
  BY <1>1, AlIr
<1>6. EnCuenta(x, MontoCredito) /\ EnMano(pagos, x) = EnMano(pagos, ses[s])
  BY <1>1, <1>3 DEF EnCuenta, EnMano, PorCalcular
<1> QED BY <1>3, <1>4, <1>5, <1>6 DEF Sigue

LEMMA ReleerCuenta ==
  ASSUME Finitos, IInv, NEW s \in Sesiones, EnCuenta(ses[s], MontoCredito),
         NEW r \in Recibos, Releer(s, r)
  PROVE  Sigue(ses[s], ses'[s])
<1> DEFINE leida == IF TieneSaldo(recibos[r]) THEN recibos[r] ELSE NoExiste
           x == [ses[s] EXCEPT !.porLeer = @ \ {r}, !.copia[r] = leida]
           Quedan_(y) == y.porLeer \cup {q \in Recibos : y.copia[q] # NoExiste}
<1>t. /\ ses[s] \in Sesion /\ pendientes \in [Recibos -> Nat]
      /\ ses[s].resto \in Nat /\ ses[s].porLeer \in SUBSET Recibos
      /\ ses[s].copia \in [Recibos -> Recibo \cup {NoExiste}]
  BY Forma, PendientesTipo DEF TypeOK, Sesion
<1>1. ses[s].pc = "bulk" /\ r \in ses[s].porLeer /\ Ir(s, x)
  BY DEF Releer
<1>2. IF TieneSaldo(recibos[r]) THEN leida # NoExiste ELSE leida = NoExiste /\ pendientes[r] = 0
  BY DEF pendientes, TieneSaldo
<1> HIDE DEF leida
<1>3. /\ x.pc = "bulk" /\ x.pago = ses[s].pago /\ x.excess = ses[s].excess
      /\ x.resto = ses[s].resto /\ x.deAbono = ses[s].deAbono
      /\ x.solapada = ses[s].solapada /\ x.porLeer = ses[s].porLeer \ {r}
      /\ x.copia = [ses[s].copia EXCEPT ![r] = leida]
  BY <1>t, <1>1 DEF Sesion
<1> HIDE DEF x
<1>4. ASSUME Alcanza(pendientes, ses[s]) PROVE Alcanza(pendientes, x)
  <2> DEFINE A == Quedan_(ses[s])
             B == Quedan_(x)
  <2>1. ses[s].resto <= Suma(pendientes, A)
    BY <1>1, <1>4 DEF Alcanza, PorCalcular
  <2>2. A \in SUBSET Recibos /\ r \in A
    BY <1>1, <1>t
  <2>3. CASE TieneSaldo(recibos[r])
    <3>1. B = A
      BY <1>1, <1>2, <1>3, <1>t, <2>3
    <3> QED BY <1>3, <2>1, <3>1 DEF Alcanza, PorCalcular
  <2>4. CASE ~ TieneSaldo(recibos[r])
    <3>1. B = A \ {r} /\ pendientes[r] = 0
      BY <1>1, <1>2, <1>3, <1>t, <2>4
    <3>2. Suma(pendientes, A) = Suma(pendientes, B)
      <4> HIDE DEF A, B
      <4>1. IsFiniteSet(A) /\ Enteros(pendientes, A)
        BY <1>t, <2>2, FS_Subset DEF Finitos, Enteros
      <4>2. Suma(pendientes, A) = pendientes[r] + Suma(pendientes, A \ {r})
        BY <2>2, <4>1, SumaQuita
      <4>3. Suma(pendientes, A \ {r}) \in Nat
        BY <1>t, <2>2, PendienteParte
      <4> QED BY <3>1, <4>2, <4>3
    <3> QED BY <1>3, <2>1, <3>2 DEF Alcanza, PorCalcular
  <2> QED BY <2>3, <2>4
<1>5. ses'[s] = x
  BY <1>1, AlIr
<1>6. EnCuenta(x, MontoCredito) /\ EnMano(pagos, x) = EnMano(pagos, ses[s])
  BY <1>1, <1>3 DEF EnCuenta, EnMano, PorCalcular
<1> QED BY <1>3, <1>4, <1>5, <1>6 DEF Sigue

\* the step that knows the credit
LEMMA CalculadoCuenta ==
  ASSUME Finitos, IInv, NEW s \in Sesiones, ses[s].pago # NoPago, ses[s].pc \in PorCalcular,
         Ir(s, ConMonto(s, MontoCredito))
  PROVE  Sigue(ses[s], ses'[s])
<1> DEFINE y == ConMonto(s, MontoCredito)
           debe == Suma(pendientes, ses[s].objetivo)
<1>1. /\ EnCuenta(y, MontoCredito) /\ y.solapada = ses[s].solapada
      /\ EnMano(pagos, y) = pagos[ses[s].pago].monto
      /\ ses[s].deuda <= debe => Alcanza(pendientes, y)
  BY ConMontoCuenta
<1>2. ses'[s] = y
  BY AlIr
<1>3. EnMano(pagos, ses[s]) = pagos[ses[s].pago].monto
  BY DEF EnMano
<1>4. Alcanza(pendientes, ses[s]) => ses[s].deuda <= debe
  <2>1. /\ ses[s].objetivo \in SUBSET Recibos /\ ses[s].deuda \in Nat
        /\ pendientes \in [Recibos -> Nat]
    BY Forma, PendientesTipo DEF TypeOK, Sesion
  <2>2. /\ Suma(pendientes, ses[s].objetivo \ ses[s].porLeer) <= debe /\ debe \in Nat
        /\ Suma(pendientes, ses[s].objetivo \ ses[s].porLeer) \in Nat
    BY <2>1, PendienteParte
  <2> HIDE DEF debe
  <2> QED BY <2>1, <2>2 DEF Alcanza
<1> HIDE DEF y, debe
<1> QED BY <1>1, <1>2, <1>3, <1>4 DEF Sigue

\* the awaits that write no document
LEMMA CalladoCuenta ==
  ASSUME Finitos, IInv, NEW s \in Sesiones, ses[s].pago # NoPago,
         EnCuenta(ses[s], MontoCredito), Fresca(s), Callados(s)
  PROVE  UNCHANGED <<recibos, pagos, credito, aceptaciones>> /\ Sigue(ses[s], ses'[s])
<1>t. /\ ses[s] \in Sesion /\ MontoCredito \in Nat /\ pendientes \in [Recibos -> Nat]
      /\ ses[s].deAbono \in Nat /\ ses[s].resto \in Nat /\ ses[s].excess \in Nat
  BY Forma, MontoCreditoTipo, PendientesTipo DEF TypeOK, Sesion
<1>1. ASSUME NEW x, ses[s].pc \in PorCalcular, x.pc \in PorCalcular, Ir(s, x),
             x.pago = ses[s].pago, x.excess = ses[s].excess, x.resto = ses[s].resto,
             x.deAbono = ses[s].deAbono, x.pc = "fijar" => x.leido = MontoCredito,
             x.solapada = ses[s].solapada, x.objetivo = ses[s].objetivo,
             x.porLeer = ses[s].porLeer, x.deuda = ses[s].deuda
      PROVE  Sigue(ses[s], ses'[s])
  <2>1. EnCuenta(x, MontoCredito)
    BY <1>1 DEF EnCuenta, PorCalcular
  <2>2. EnMano(pagos, x) = EnMano(pagos, ses[s])
    BY <1>1 DEF EnMano
  <2>3. Alcanza(pendientes, ses[s]) => Alcanza(pendientes, x)
    BY <1>1 DEF Alcanza
  <2> QED BY <1>1, <2>1, <2>2, <2>3, AlIr DEF Sigue
<1>2. ASSUME LeerCache(s) PROVE Sigue(ses[s], ses'[s])
  <2>1. ses[s].pc \in {"cache", "deuda"}
    BY <1>2 DEF LeerCache
  <2>2. CASE Ir(s, [ses[s] EXCEPT !.pc = "doc"])
    <3> DEFINE x == [ses[s] EXCEPT !.pc = "doc"]
    <3>1. /\ x.pc = "doc" /\ x.pago = ses[s].pago /\ x.solapada = ses[s].solapada
          /\ x.resto = ses[s].resto /\ x.deAbono = ses[s].deAbono /\ x.excess = ses[s].excess
          /\ x.objetivo = ses[s].objetivo /\ x.porLeer = ses[s].porLeer
          /\ x.deuda = ses[s].deuda
      BY <1>t DEF Sesion
    <3>2. Ir(s, x)
      BY <2>2
    <3> HIDE DEF x
    <3> QED BY <1>1, <2>1, <3>1, <3>2 DEF PorCalcular
  <2>3. CASE cacheAbono # NoCache /\ Ir(s, ConMonto(s, cacheAbono))
    <3>1. cacheAbono = MontoCredito
      BY <2>1, <2>3 DEF Fresca
    <3> QED BY <2>1, <2>3, <3>1, CalculadoCuenta DEF PorCalcular
  <2> QED BY <1>2, <2>2, <2>3 DEF LeerCache
<1>3. ASSUME LeerAbono(s) PROVE Sigue(ses[s], ses'[s])
  <2> DEFINE x == [ses[s] EXCEPT !.pc = "fijar", !.leido = MontoCredito]
  <2>1. ses[s].pc = "doc" /\ Ir(s, x)
    BY <1>3 DEF LeerAbono
  <2>2. /\ x.pc = "fijar" /\ x.pago = ses[s].pago /\ x.solapada = ses[s].solapada
        /\ x.resto = ses[s].resto /\ x.deAbono = ses[s].deAbono /\ x.excess = ses[s].excess
        /\ x.objetivo = ses[s].objetivo /\ x.porLeer = ses[s].porLeer
        /\ x.deuda = ses[s].deuda /\ x.leido = MontoCredito
    BY <1>t DEF Sesion
  <2> HIDE DEF x
  <2> QED BY <1>1, <2>1, <2>2 DEF PorCalcular
<1>4. ASSUME FijarCache(s) PROVE Sigue(ses[s], ses'[s])
  <2>1. ses[s].pc = "fijar" /\ Ir(s, ConMonto(s, ses[s].leido))
    BY <1>4 DEF FijarCache
  <2>2. ses[s].leido = MontoCredito
    BY <2>1 DEF EnCuenta
  <2> QED BY <2>1, <2>2, CalculadoCuenta DEF PorCalcular
<1>5. ASSUME NEW x \in Sesion, Ir(s, TrasAgregar(x)), ses[s].pc \in {"consumir", "invalidar"},
             x.excess = 0, x.deAbono = ses[s].deAbono, x.resto = ses[s].resto,
             x.solapada = ses[s].solapada, x.objetivo = ses[s].objetivo
      PROVE  Sigue(ses[s], ses'[s])
  <2>1. ses[s].deAbono <= MontoCredito /\ ses[s].deAbono <= ses[s].resto
        /\ ~ (ses[s].excess > 0)
    BY <1>5 DEF EnCuenta
  <2>2. /\ EnCuenta(TrasAgregar(x), MontoCredito) /\ TrasAgregar(x).solapada = x.solapada
        /\ EnMano(pagos, TrasAgregar(x)) = x.resto - x.deAbono
        /\ x.resto <= Suma(pendientes, x.objetivo) => Alcanza(pendientes, TrasAgregar(x))
    BY <1>t, <1>5, <2>1, TrasAgregarCuenta
  <2>3. EnMano(pagos, ses[s]) = ses[s].resto - ses[s].deAbono
    BY <1>t, <1>5, <2>1 DEF EnMano, PorCalcular
  <2>4. Alcanza(pendientes, ses[s]) => x.resto <= Suma(pendientes, x.objetivo)
    BY <1>5 DEF Alcanza, PorCalcular
  <2>5. ses'[s] = TrasAgregar(x)
    BY <1>5, AlIr
  <2> QED BY <1>5, <2>2, <2>3, <2>4, <2>5 DEF Sigue
<1>6. ASSUME Consumir(s) PROVE Sigue(ses[s], ses'[s])
  <2> DEFINE sin == [ses[s] EXCEPT !.deAbono = 0]
             lee == [ses[s] EXCEPT !.pc = "guardar", !.leido = MontoCredito]
  <2>1. /\ ses[s].pc = "consumir"
        /\ Ir(s, IF MontoCredito > 0 THEN lee ELSE TrasAgregar(sin))
    BY <1>6 DEF Consumir
  <2>2. /\ lee.pc = "guardar" /\ lee.leido = MontoCredito /\ lee.solapada = ses[s].solapada
        /\ lee.excess = ses[s].excess /\ lee.resto = ses[s].resto
        /\ lee.deAbono = ses[s].deAbono /\ lee.objetivo = ses[s].objetivo
    BY <1>t DEF Sesion
  <2>3. /\ sin \in Sesion /\ sin.solapada = ses[s].solapada /\ sin.objetivo = ses[s].objetivo
        /\ sin.excess = ses[s].excess /\ sin.resto = ses[s].resto /\ sin.deAbono = 0
    BY <1>t DEF Sesion
  <2>4. ses[s].deAbono <= MontoCredito /\ ses[s].excess = 0
    BY <1>t, <2>1 DEF EnCuenta
  <2> HIDE DEF sin, lee
  <2>5. CASE MontoCredito > 0
    <3>1. EnCuenta(lee, MontoCredito) /\ EnMano(pagos, lee) = EnMano(pagos, ses[s])
      BY <2>1, <2>2 DEF EnCuenta, EnMano, PorCalcular
    <3>2. Alcanza(pendientes, ses[s]) => Alcanza(pendientes, lee)
      BY <2>1, <2>2 DEF Alcanza, PorCalcular
    <3>3. ses'[s] = lee
      BY <2>1, <2>5, AlIr
    <3> QED BY <2>2, <3>1, <3>2, <3>3 DEF Sigue
  <2>6. CASE ~ (MontoCredito > 0)
    <3>1. ses[s].deAbono = 0
      BY <1>t, <2>4, <2>6
    <3> QED BY <1>5, <2>1, <2>3, <2>4, <2>6, <3>1
  <2> QED BY <2>5, <2>6
<1>7. ASSUME Invalidar(s) PROVE Sigue(ses[s], ses'[s])
  <2>1. ses[s].pc = "invalidar" /\ Ir(s, TrasAgregar(ses[s]))
    BY <1>7 DEF Invalidar
  <2>2. ses[s].excess = 0
    BY <1>t, <2>1 DEF EnCuenta
  <2> QED BY <1>5, <1>t, <2>1, <2>2
<1>8. UNCHANGED <<recibos, pagos, credito, aceptaciones>>
  BY DEF Callados, LeerDeuda, Releer, LeerCache, LeerAbono, FijarCache, Consumir, Invalidar
<1> QED BY <1>2, <1>3, <1>4, <1>6, <1>7, <1>8, LeerDeudaCuenta, ReleerCuenta DEF Callados

(***************************************************************************)
(* What a write does to the accounts.                                      *)
(***************************************************************************)
LEMMA FondoTras ==
  ASSUME Finitos, TypeOK, TypeOK'
  PROVE  /\ Suma(ingresos, Pagos) \in Int /\ Suma(ingresos', Pagos) \in Int
         /\ Suma(montoPagado, Recibos) \in Int /\ Suma(montoPagado', Recibos) \in Int
         /\ MontoCredito \in Nat /\ MontoCredito' \in Nat
         /\ Mayor!Fondo \in Int /\ ingresado \in Int
         /\ ingresado' = ingresado + (Suma(ingresos', Pagos) - Suma(ingresos, Pagos))
         /\ (Mayor!Fondo)' = Mayor!Fondo + (Suma(ingresos', Pagos) - Suma(ingresos, Pagos))
              - (MontoCredito' - MontoCredito)
              - (Suma(montoPagado', Recibos) - Suma(montoPagado, Recibos))
<1>1. /\ Suma(ingresos, Pagos) \in Int /\ Suma(montoPagado, Recibos) \in Int
      /\ MontoCredito \in Nat /\ Inicial \in Nat
  BY FondoEntero, MontosTipo
<1>2. /\ Suma(ingresos', Pagos) \in Int /\ Suma(montoPagado', Recibos) \in Int
      /\ MontoCredito' \in Nat
  BY FondoEntero, MontosTipoTras
<1> QED BY <1>1, <1>2, FondoEs, FondoEsTras DEF FondoDe

\* an account of one more, and the others as they were
LEMMA UnaMas ==
  ASSUME NEW S, IsFiniteSet(S), NEW g \in [S -> Nat], NEW h \in [S -> Nat], NEW x \in S,
         NEW m \in Nat, h[x] = g[x] + m, \A y \in S \ {x} : h[y] = g[y]
  PROVE  Suma(h, S) = Suma(g, S) + m
<1>1. Enteros(g, S) /\ Enteros(h, S)
  BY DEF Enteros
<1>2. Suma(h, S) = Suma(g, S) + (h[x] - g[x])
  BY <1>1, SumaCambia
<1>3. h[x] - g[x] = m /\ Suma(g, S) \in Int
  BY <1>1, SumaTipo
<1> QED BY <1>2, <1>3

LEMMA AceptarCuenta ==
  ASSUME Finitos, IInv, TypeOK', Precios, NEW s \in Sesiones, NEW p \in Pagos, Aceptar(s, p)
  PROVE  /\ Mayor!Ingresar /\ Precios'
         /\ (Mayor!Fondo)' = Mayor!Fondo + pagos[p].monto /\ pagos[p].monto \in Nat
         /\ EnCuenta(ses'[s], MontoCredito') /\ EnMano(pagos', ses'[s]) = pagos[p].monto
         /\ Alcanza(pendientes', ses'[s])
<1> DEFINE monto == pagos[p].monto
           objetivo == Objetivo(p)
           nueva == [Inactiva EXCEPT !.pc = "deuda", !.pago = p, !.objetivo = objetivo,
                       !.porLeer = objetivo,
                       !.solapada = {t \in Sesiones : ses[t].pago # NoPago} # {}]
<1>t. TypeOK /\ pagos[p] \in Pago /\ pagos[p] # NoExiste /\ monto \in Nat /\ monto > 0
  BY Forma DEF TypeOK, Aceptar, Pago, Precios
<1>1. UNCHANGED <<recibos, credito>> /\ MontoCredito' = MontoCredito
      /\ montoUsd' = montoUsd /\ montoPagado' = montoPagado
  BY DEF Aceptar, MontoCredito, montoUsd, montoPagado
<1>2. /\ pagos'[p] # NoExiste /\ pagos'[p].monto = monto
      /\ \A q \in Pagos \ {p} : pagos'[q] = pagos[q]
      /\ aceptaciones[p] \in Nat /\ aceptaciones'[p] = aceptaciones[p] + 1
      /\ \A q \in Pagos \ {p} : aceptaciones'[q] = aceptaciones[q]
  <2> DEFINE doc == [pagos[p] EXCEPT !.estado = "aceptado"]
  <2>1. doc \in Pago /\ doc.monto = monto /\ pagos' = [pagos EXCEPT ![p] = doc]
    BY <1>t DEF Aceptar, Pago
  <2>2. aceptaciones' = [aceptaciones EXCEPT ![p] = @ + 1]
    BY DEF Aceptar
  <2> HIDE DEF doc, monto
  <2> QED BY <1>t, <2>1, <2>2, CentinelasAssumption DEF TypeOK
<1>3. ingresos'[p] = ingresos[p] + monto /\ \A q \in Pagos \ {p} : ingresos'[q] = ingresos[q]
  <2>1. ingresos[p] = aceptaciones[p] * monto /\ ingresos'[p] = (aceptaciones[p] + 1) * monto
    BY <1>t, <1>2 DEF ingresos
  <2>2. \A q \in Pagos \ {p} : ingresos'[q] = ingresos[q]
    BY <1>2 DEF ingresos
  <2> HIDE DEF monto
  <2> QED BY <1>t, <1>2, <2>1, <2>2, Producto
<1>4. Precios'
  BY <1>t, <1>2 DEF Precios
<1> HIDE DEF monto
<1>5. Suma(ingresos', Pagos) = Suma(ingresos, Pagos) + monto
  BY <1>t, <1>3, UnaMas, MontosTipo, MontosTipoTras DEF Finitos
<1>6. /\ Suma(ingresos, Pagos) \in Int /\ Suma(montoPagado, Recibos) \in Int
      /\ MontoCredito \in Nat /\ Mayor!Fondo \in Int /\ ingresado \in Int
  BY <1>t, FondoTras
<1>7. (Mayor!Fondo)' = Mayor!Fondo + monto /\ ingresado' = ingresado + monto
  BY <1>t, <1>1, <1>5, <1>6, FondoTras
<1>8. Mayor!Ingresar
  <2>1. ingresado' > ingresado
    BY <1>t, <1>6, <1>7
  <2> QED BY <1>1, <2>1 DEF Mayor!Ingresar
<1>9. /\ ses'[s].pc = "deuda" /\ ses'[s].pago = p /\ ses'[s].deAbono = 0 /\ ses'[s].resto = 0
      /\ ses'[s].excess = 0 /\ ses'[s].deuda = 0
      /\ ses'[s].objetivo = objetivo /\ ses'[s].porLeer = objetivo
  <2>1. ses'[s] = nueva
    BY DEF Aceptar
  <2> HIDE DEF objetivo
  <2>2. /\ nueva.pc = "deuda" /\ nueva.pago = p /\ nueva.deAbono = 0 /\ nueva.resto = 0
        /\ nueva.excess = 0 /\ nueva.deuda = 0
        /\ nueva.objetivo = objetivo /\ nueva.porLeer = objetivo
    BY DEF Inactiva
  <2> HIDE DEF nueva
  <2> QED BY <2>1, <2>2
<1> HIDE DEF objetivo
<1>10. EnCuenta(ses'[s], MontoCredito') /\ EnMano(pagos', ses'[s]) = monto
  BY <1>1, <1>2, <1>6, <1>9, EleccionAssumption DEF EnCuenta, EnMano, PorCalcular
<1>11. Alcanza(pendientes', ses'[s])
  <2>1. ses'[s].objetivo \ ses'[s].porLeer = {}
    BY <1>9
  <2>2. Suma(pendientes', {}) = 0
    BY SumaVacia
  <2>3. 0 <= Suma(pendientes', ses'[s].objetivo \ ses'[s].porLeer)
    BY <2>1, <2>2
  <2> QED BY <1>9, <2>3 DEF Alcanza, PorCalcular
<1> QED BY <1>t, <1>4, <1>7, <1>8, <1>10, <1>11 DEF monto

\* what a write leaves of an acceptance: it has in its hands what the accounts say
Avanza(s) ==
  /\ EnCuenta(ses'[s], MontoCredito') /\ ses'[s].solapada = ses[s].solapada
  /\ EnMano(pagos', ses'[s]) = EnMano(pagos, ses[s]) + ((Mayor!Fondo)' - Mayor!Fondo)
  /\ Alcanza(pendientes, ses[s]) => Alcanza(pendientes', ses'[s])

\* a step that touches the credit alone
LEMMA CreditoTras ==
  ASSUME Finitos, TypeOK, TypeOK', UNCHANGED <<recibos, pagos, aceptaciones>>
  PROVE  /\ ingresado' = ingresado /\ montoUsd' = montoUsd /\ montoPagado' = montoPagado
         /\ MontoCredito \in Nat /\ MontoCredito' \in Nat /\ pendientes' = pendientes
         /\ (Mayor!Fondo)' = Mayor!Fondo + (MontoCredito - MontoCredito')
<1>1. montoUsd' = montoUsd /\ montoPagado' = montoPagado /\ ingresos' = ingresos
      /\ pendientes' = pendientes
  BY DEF montoUsd, montoPagado, ingresos, pendientes
<1>2. ingresado' = ingresado
  BY <1>1, FondoEs, FondoEsTras
<1> QED BY <1>1, <1>2, FondoTras

LEMMA AgregarCuenta ==
  ASSUME Finitos, IInv, TypeOK', NEW s \in Sesiones, EnSola(s), Mayor!Fondo \in Nat, Agregar(s)
  PROVE  Mayor!Acreditar /\ UNCHANGED <<pagos, aceptaciones>> /\ Avanza(s)
<1> DEFINE x == [ses[s] EXCEPT !.pc = "invalidar", !.excess = 0]
           f == Mayor!Fondo
<1>1. /\ TypeOK /\ ses[s] \in Sesion /\ ses[s].pc = "agregar" /\ Ir(s, x)
      /\ UNCHANGED <<recibos, pagos, aceptaciones>>
      /\ credito' = MontoCredito + ses[s].excess
  BY Forma DEF TypeOK, Agregar
<1>2. /\ ses[s].excess \in Nat /\ ses[s].resto \in Nat /\ ses[s].deAbono \in Nat
      /\ MontoCredito \in Nat
  BY <1>1, MontoCreditoTipo DEF Sesion
<1>3. MontoCredito' = MontoCredito + ses[s].excess
  <2>1. credito' \in Nat
    BY <1>1, <1>2
  <2> QED BY <1>1, <2>1, CentinelasAssumption DEF MontoCredito
<1>4. /\ EnCuenta(ses[s], MontoCredito)
      /\ EnMano(pagos, ses[s]) = ses[s].excess + ses[s].resto - ses[s].deAbono
      /\ EnMano(pagos, ses[s]) <= f
  BY <1>1 DEF EnSola, EnMano, PorCalcular
<1>5. /\ ses[s].excess > 0 /\ ses[s].excess <= f
      /\ ses[s].deAbono <= MontoCredito /\ ses[s].deAbono <= ses[s].resto
  <2>1. /\ ses[s].excess > 0 /\ ses[s].deAbono <= MontoCredito
        /\ ses[s].deAbono <= ses[s].resto
    BY <1>1, <1>4 DEF EnCuenta
  <2> HIDE DEF f
  <2>2. f \in Nat
    BY DEF f
  <2> QED BY <1>2, <1>4, <2>1, <2>2
<1>6. /\ x.pc = "invalidar" /\ x.excess = 0 /\ x.resto = ses[s].resto
      /\ x.deAbono = ses[s].deAbono /\ x.solapada = ses[s].solapada
      /\ x.objetivo = ses[s].objetivo
  BY <1>1 DEF Sesion
<1> HIDE DEF x
<1>7. ses'[s] = x
  BY <1>1, AlIr
<1>8. /\ ingresado' = ingresado /\ montoUsd' = montoUsd /\ montoPagado' = montoPagado
      /\ pendientes' = pendientes /\ (Mayor!Fondo)' = f - ses[s].excess
  BY <1>1, <1>2, <1>3, CreditoTras
<1>9. MontoCredito' \in (MontoCredito + 1) .. (MontoCredito + f)
  BY <1>2, <1>3, <1>5
<1>10. Mayor!Acreditar
  BY <1>8, <1>9 DEF Mayor!Acreditar, f
<1>11. EnCuenta(x, MontoCredito')
  BY <1>2, <1>3, <1>5, <1>6 DEF EnCuenta
<1>12. EnMano(pagos', x) = EnMano(pagos, ses[s]) + ((Mayor!Fondo)' - f)
  <2>1. EnMano(pagos', x) = ses[s].resto - ses[s].deAbono
    BY <1>2, <1>6 DEF EnMano, PorCalcular
  <2> HIDE DEF f
  <2>2. f \in Nat
    BY DEF f
  <2> QED BY <1>2, <1>4, <1>8, <2>1, <2>2
<1>13. Alcanza(pendientes, ses[s]) => Alcanza(pendientes', x)
  BY <1>1, <1>6, <1>8 DEF Alcanza, PorCalcular
<1> QED BY <1>1, <1>6, <1>7, <1>10, <1>11, <1>12, <1>13 DEF Avanza

LEMMA GuardarCuenta ==
  ASSUME Finitos, IInv, TypeOK', NEW s \in Sesiones, EnSola(s), Mayor!Fondo \in Nat, Guardar(s)
  PROVE  Mayor!Tomar /\ UNCHANGED <<pagos, aceptaciones>> /\ Avanza(s)
<1> DEFINE x == [ses[s] EXCEPT !.pc = "invalidar", !.leido = 0, !.deAbono = 0]
           f == Mayor!Fondo
           d == ses[s].deAbono
<1>1. /\ TypeOK /\ ses[s] \in Sesion /\ ses[s].pc = "guardar" /\ Ir(s, x)
      /\ UNCHANGED <<recibos, pagos, aceptaciones>>
      /\ credito' = ses[s].leido - Menor(ses[s].leido, d)
  BY Forma DEF TypeOK, Guardar
<1>2. /\ ses[s].excess \in Nat /\ ses[s].resto \in Nat /\ d \in Nat
      /\ MontoCredito \in Nat
  BY <1>1, MontoCreditoTipo DEF Sesion
<1>3. /\ EnCuenta(ses[s], MontoCredito)
      /\ EnMano(pagos, ses[s]) = ses[s].excess + ses[s].resto - d
  BY <1>1 DEF EnSola, EnMano, PorCalcular
<1>4. ses[s].leido = MontoCredito /\ d <= MontoCredito /\ ~ (ses[s].excess > 0)
  BY <1>1, <1>3 DEF EnCuenta
<1>5. /\ x.pc = "invalidar" /\ x.excess = ses[s].excess /\ x.resto = ses[s].resto
      /\ x.deAbono = 0 /\ x.solapada = ses[s].solapada /\ x.objetivo = ses[s].objetivo
  BY <1>1 DEF Sesion
<1> HIDE DEF x, d
<1>6. MontoCredito' = MontoCredito - d /\ MontoCredito' \in Nat
  <2>1. credito' = MontoCredito - d /\ credito' \in Nat
    BY <1>1, <1>2, <1>4 DEF Menor
  <2> QED BY <2>1, CentinelasAssumption DEF MontoCredito
<1>7. ses'[s] = x
  BY <1>1, AlIr
<1>8. /\ ingresado' = ingresado /\ montoUsd' = montoUsd /\ montoPagado' = montoPagado
      /\ pendientes' = pendientes /\ (Mayor!Fondo)' = f + d
  BY <1>1, <1>2, <1>6, CreditoTras
<1>9. Mayor!Tomar
  BY <1>2, <1>4, <1>6, <1>8 DEF Mayor!Tomar
<1>10. EnCuenta(x, MontoCredito')
  BY <1>2, <1>4, <1>5, <1>6 DEF EnCuenta
<1>11. EnMano(pagos', x) = EnMano(pagos, ses[s]) + ((Mayor!Fondo)' - f)
  <2>1. EnMano(pagos', x) = ses[s].excess + ses[s].resto
    BY <1>2, <1>5 DEF EnMano, PorCalcular
  <2> HIDE DEF f
  <2>2. f \in Nat
    BY DEF f
  <2> QED BY <1>2, <1>3, <1>8, <2>1, <2>2
<1>12. Alcanza(pendientes, ses[s]) => Alcanza(pendientes', x)
  BY <1>1, <1>5, <1>8 DEF Alcanza, PorCalcular
<1> QED BY <1>1, <1>5, <1>7, <1>9, <1>10, <1>11, <1>12 DEF Avanza

LEMMA EscribirCuenta ==
  ASSUME Finitos, IInv, TypeOK', Solape, NEW s \in Sesiones, EnSola(s), Mayor!Fondo \in Nat,
         NEW r \in Recibos, EscribirRecibo(s, r)
  PROVE  Mayor!Abonar(r) /\ UNCHANGED <<pagos, aceptaciones>> /\ Avanza(s)
<1> DEFINE copia == ses[s].copia[r]
           monto == Menor(ses[s].resto, Saldo(copia))
           doc == Fijar(recibos[r], ConAbono(copia, ses[s].pago, monto))
           x == [ses[s] EXCEPT !.resto = @ - monto, !.copia[r] = NoExiste, !.ids = @ \cup {r}]
           f == Mayor!Fondo
<1>1. /\ TypeOK /\ ses[s] \in Sesion /\ EnRegla(recibos, pagos, ses[s])
      /\ ses[s].pc = "bulk" /\ ses[s].resto > 0 /\ copia # NoExiste
      /\ recibos' = [recibos EXCEPT ![r] = doc] /\ Ir(s, x)
      /\ UNCHANGED <<pagos, credito, aceptaciones>> /\ ses[s].porLeer = {}
  BY Forma DEF TypeOK, Reglas, EscribirRecibo, PorEscribir
<1>2. EnCuenta(ses[s], MontoCredito) /\ EnMano(pagos, ses[s]) <= f
      /\ EnMano(pagos, ses[s]) = ses[s].excess + ses[s].resto - ses[s].deAbono
  BY <1>1 DEF EnSola, EnMano, PorCalcular
<1>3. copia = recibos[r] /\ copia \in Recibo /\ Fiel(recibos, pagos, copia, r)
  BY <1>1 DEF Solape, EnSola, Sesion, EnRegla
<1>4. /\ copia.montoUsd \in Nat /\ copia.montoPagado \in Nat /\ ses[s].resto \in Nat
      /\ ses[s].excess = 0 /\ ses[s].deAbono = 0 /\ MontoCredito \in Nat
      /\ Saldo(copia) = copia.montoUsd - copia.montoPagado /\ copia.montoPagado < copia.montoUsd
  BY <1>1, <1>2, <1>3, MontoCreditoTipo DEF Recibo, Fiel, Sesion, EnCuenta, Saldo
<1>5. /\ monto \in Nat /\ monto > 0 /\ monto <= ses[s].resto
      /\ copia.montoPagado + monto <= copia.montoUsd
      /\ monto = ses[s].resto \/ monto = Saldo(copia)
  <2>1. Saldo(copia) \in Nat /\ Saldo(copia) > 0
    BY <1>4
  <2>2. monto \in Nat /\ monto <= ses[s].resto /\ monto <= Saldo(copia)
        /\ (monto = ses[s].resto \/ monto = Saldo(copia))
    BY <1>4, <2>1, MenorCota
  <2> HIDE DEF monto, copia
  <2> QED BY <1>1, <1>4, <2>1, <2>2
<1>6. monto <= f
  <2> HIDE DEF f, monto
  <2>1. f \in Nat
    BY DEF f
  <2> QED BY <1>2, <1>4, <1>5, <2>1
<1>7. /\ recibos'[r] = doc /\ doc # NoExiste /\ doc.montoUsd = copia.montoUsd
      /\ doc.montoPagado = copia.montoPagado + monto
      /\ \A q \in Recibos \ {r} : recibos'[q] = recibos[q]
  <2>1. doc \in Recibo
    BY <1>1, <1>3, <1>5, FijarTipo DEF EnRegla, Sesion, ConPago
  <2>2. doc.montoUsd = copia.montoUsd /\ doc.montoPagado = copia.montoPagado + monto
    BY <1>3 DEF Fijar, ConAbono
  <2>3. recibos'[r] = doc /\ \A q \in Recibos \ {r} : recibos'[q] = recibos[q]
    BY <1>1 DEF TypeOK
  <2> HIDE DEF doc
  <2> QED BY <2>1, <2>2, <2>3, CentinelasAssumption
<1>8. /\ x.pc = "bulk" /\ x.excess = ses[s].excess /\ x.resto = ses[s].resto - monto
      /\ x.deAbono = 0 /\ x.solapada = ses[s].solapada /\ x.porLeer = {}
      /\ x.copia = [ses[s].copia EXCEPT ![r] = NoExiste]
  <2> HIDE DEF monto
  <2> QED BY <1>1, <1>4 DEF Sesion
<1> HIDE DEF x, doc, monto
<1>9. /\ montoPagado'[r] = montoPagado[r] + monto /\ montoUsd[r] = copia.montoUsd
      /\ montoPagado[r] = copia.montoPagado
      /\ \A q \in Recibos \ {r} : montoPagado'[q] = montoPagado[q]
      /\ \A q \in Recibos : montoUsd'[q] = montoUsd[q]
  <2>1. recibos[r] = copia /\ recibos[r] # NoExiste /\ r \in Recibos
    BY <1>1, <1>3
  <2> HIDE DEF copia
  <2> QED BY <1>7, <2>1 DEF montoPagado, montoUsd
<1>10. /\ montoPagado \in [Recibos -> Nat] /\ montoPagado' \in [Recibos -> Nat]
       /\ montoUsd \in [Recibos -> Nat] /\ montoUsd' \in [Recibos -> Nat]
  BY <1>1, MontosTipo, MontosTipoTras
<1>11. /\ ingresos' = ingresos /\ MontoCredito' = MontoCredito /\ montoUsd' = montoUsd
       /\ montoPagado' = [montoPagado EXCEPT ![r] = @ + monto]
  <2>1. ingresos' = ingresos /\ MontoCredito' = MontoCredito
    BY <1>1 DEF ingresos, MontoCredito
  <2> HIDE DEF copia
  <2> QED BY <1>9, <1>10, <2>1
<1>12. Suma(montoPagado', Recibos) = Suma(montoPagado, Recibos) + monto
  BY <1>5, <1>9, <1>10, UnaMas DEF Finitos
<1>13. ingresado' = ingresado /\ (Mayor!Fondo)' = f - monto
  <2>1. /\ Suma(ingresos, Pagos) \in Int /\ Suma(montoPagado, Recibos) \in Int
    BY <1>1, FondoTras
  <2>2. ingresado' = ingresado
    BY <1>11, FondoEs, FondoEsTras
  <2> QED BY <1>1, <1>4, <1>5, <1>11, <1>12, <2>1, <2>2, FondoTras
<1>14. Mayor!Abonar(r)
  <2>1. monto \in 1 .. f /\ montoPagado[r] + monto <= montoUsd[r]
    BY <1>4, <1>5, <1>6, <1>9
  <2> QED BY <1>11, <1>13, <2>1 DEF Mayor!Abonar, f
<1>15. ses'[s] = x
  BY <1>1, AlIr
<1>16. EnCuenta(x, MontoCredito')
  BY <1>4, <1>5, <1>8, <1>11 DEF EnCuenta
<1>17. EnMano(pagos', x) = EnMano(pagos, ses[s]) + ((Mayor!Fondo)' - f)
  <2>1. EnMano(pagos', x) = ses[s].resto - monto
    BY <1>4, <1>5, <1>8 DEF EnMano, PorCalcular
  <2> HIDE DEF f
  <2>2. f \in Nat
    BY DEF f
  <2> QED BY <1>2, <1>4, <1>5, <1>13, <2>1, <2>2
<1>18. ASSUME Alcanza(pendientes, ses[s]) PROVE Alcanza(pendientes', x)
  <2> DEFINE C == {q \in Recibos : ses[s].copia[q] # NoExiste}
             D == {q \in Recibos : x.copia[q] # NoExiste}
  <2>1. ses[s].resto <= Suma(pendientes, C)
    <3>1. ses[s].porLeer \cup C = C
      BY <1>1
    <3> QED BY <1>1, <1>18, <3>1 DEF Alcanza, PorCalcular
  <2>2. C \in SUBSET Recibos /\ r \in C /\ D = C \ {r} /\ x.porLeer \cup D = D
    BY <1>1, <1>8 DEF Sesion
  <2>3. /\ pendientes[r] = Saldo(copia)
        /\ \A q \in Recibos \ {r} : pendientes'[q] = pendientes[q]
    <3>1. TieneSaldo(recibos[r])
      BY <1>1, <1>3, <1>4 DEF TieneSaldo
    <3> QED BY <1>3, <1>7, <3>1 DEF pendientes
  <2>4. pendientes \in [Recibos -> Nat] /\ pendientes' \in [Recibos -> Nat]
    BY <1>1, PendientesTipo, PendientesTipoTras
  <2> HIDE DEF C, D
  <2>5. Suma(pendientes', D) \in Nat /\ Suma(pendientes, D) \in Nat
    BY <2>2, <2>4, PendienteParte
  <2>6. Suma(pendientes, D) = Suma(pendientes', D)
    <3>1. IsFiniteSet(D) /\ Enteros(pendientes, D) /\ \A q \in D : pendientes[q] = pendientes'[q]
      BY <2>2, <2>3, <2>4, FS_Subset DEF Finitos, Enteros
    <3> QED BY <3>1, SumaIgual
  <2>7. Suma(pendientes, C) = pendientes[r] + Suma(pendientes, D)
    <3>1. IsFiniteSet(C) /\ Enteros(pendientes, C)
      BY <2>2, <2>4, FS_Subset DEF Finitos, Enteros
    <3>2. Suma(pendientes, C) = pendientes[r] + Suma(pendientes, C \ {r})
      BY <2>2, <3>1, SumaQuita
    <3> QED BY <2>2, <3>2, Zenon
  <2>8. ses[s].resto - monto <= Suma(pendientes', D)
    <3> HIDE DEF copia
    <3>1. pendientes[r] \in Nat
      BY <2>4
    <3>2. CASE monto = ses[s].resto
      BY <1>4, <1>5, <2>5, <3>2
    <3>3. CASE monto = pendientes[r]
      BY <1>4, <1>5, <2>1, <2>5, <2>6, <2>7, <3>1, <3>3
    <3> QED BY <1>5, <2>3, <3>2, <3>3
  <2>9. x.resto <= Suma(pendientes', x.porLeer \cup {q \in Recibos : x.copia[q] # NoExiste})
    BY <1>8, <2>2, <2>8 DEF D
  <2> QED BY <1>8, <2>9 DEF Alcanza, PorCalcular
<1> QED BY <1>1, <1>8, <1>14, <1>15, <1>16, <1>17, <1>18 DEF Avanza

(***************************************************************************)
(* A step that writes no receipt and no credit.                            *)
(***************************************************************************)

\* what a step leaves of the payments: their amounts, and the ones there were
MismosMontos ==
  \A p \in Pagos : pagos[p] # NoExiste =>
    pagos'[p] # NoExiste /\ pagos'[p].monto = pagos[p].monto

LEMMA UnPagoEscrito ==
  ASSUME TypeOK, Precios, UNCHANGED aceptaciones, NEW p \in Pagos, NEW doc \in Pago,
         pagos[p] # NoExiste, doc.monto = pagos[p].monto, pagos' = [pagos EXCEPT ![p] = doc]
  PROVE  MismosMontos /\ Precios'
<1>1. /\ pagos'[p] = doc /\ doc # NoExiste
      /\ \A q \in Pagos \ {p} : pagos'[q] = pagos[q]
  BY CentinelasAssumption DEF TypeOK
<1> QED BY <1>1 DEF MismosMontos, Precios

\* a write of the payments that leaves their amounts, and no acceptance
LEMMA PagosQuietos ==
  ASSUME TypeOK, TypeOK', Precios, UNCHANGED <<recibos, credito, aceptaciones>>, MismosMontos
  PROVE  /\ UNCHANGED Mayor!cuentas /\ (Mayor!Fondo)' = Mayor!Fondo
         /\ MontoCredito' = MontoCredito /\ pendientes' = pendientes
<1>1. ASSUME NEW p \in Pagos PROVE ingresos'[p] = ingresos[p]
  <2>1. CASE pagos[p] # NoExiste
    BY <2>1 DEF ingresos, MismosMontos
  <2>2. CASE pagos[p] = NoExiste
    <3>1. ingresos[p] = 0 /\ aceptaciones'[p] = 0
      BY <2>2 DEF ingresos, Precios
    <3>2. pagos'[p] # NoExiste => 0 * pagos'[p].monto = 0
      BY DEF TypeOK, Pago
    <3> QED BY <3>1, <3>2 DEF ingresos
  <2> QED BY <2>1, <2>2
<1>2. ingresos \in [Pagos -> Nat] /\ ingresos' \in [Pagos -> Nat]
  BY MontosTipo, MontosTipoTras
<1>3. ingresos' = ingresos
  BY <1>1, <1>2
<1>4. pendientes' = pendientes
  BY DEF pendientes
<1> QED BY <1>3, <1>4, CuentasQuietas

\* but for accepting, a request leaves the other requests, what was accepted and
\* the payments' amounts
LEMMA SinAceptar ==
  ASSUME IInv, Precios, NEW s \in Sesiones, PasoSesion(s), \A p \in Pagos : ~ Aceptar(s, p)
  PROVE  /\ UNCHANGED aceptaciones /\ MismosMontos /\ Precios'
         /\ \A t \in Sesiones \ {s} : ses'[t] = ses[t]
<1>t. TypeOK
  BY Forma
<1>1. \A t \in Sesiones \ {s} : ses'[t] = ses[t]
  BY AlIr DEF PasoSesion, LeerDeuda, SinDeuda, Consultar, LeerCache, LeerAbono, FijarCache,
              Agregar, Consumir, Guardar, Invalidar, Releer, EscribirRecibo, AnotarRecibos, Abortar
<1>2. UNCHANGED aceptaciones
  BY DEF PasoSesion, LeerDeuda, SinDeuda, Consultar, LeerCache, LeerAbono, FijarCache,
         Agregar, Consumir, Guardar, Invalidar, Releer, EscribirRecibo, AnotarRecibos, Abortar
<1>3. CASE AnotarRecibos(s) /\ pagos' # pagos
  <2> DEFINE p == ses[s].pago
             doc == [pagos[p] EXCEPT !.recibosPagados = ses[s].ids]
  <2>1. pagos' = [pagos EXCEPT ![ses[s].pago].recibosPagados = ses[s].ids]
    BY <1>3 DEF AnotarRecibos
  <2>2. p \in Pagos /\ pagos[p] # NoExiste /\ ses[s].ids \in SUBSET Recibos
    BY <1>3, Forma DEF AnotarRecibos, Reglas, EnRegla, ConPago, TypeOK, Sesion, Resuelto
  <2>3. pagos[p] \in Pago
    BY <1>t, <2>2 DEF TypeOK
  <2>4. doc \in Pago /\ doc.monto = pagos[p].monto /\ pagos' = [pagos EXCEPT ![p] = doc]
    BY <2>1, <2>2, <2>3 DEF Pago
  <2> HIDE DEF doc, p
  <2> QED BY <1>t, <1>1, <1>2, <2>2, <2>4, UnPagoEscrito
<1>4. CASE ~ (AnotarRecibos(s) /\ pagos' # pagos)
  <2>1. pagos' = pagos
    BY <1>4 DEF PasoSesion, LeerDeuda, SinDeuda, Consultar, LeerCache, LeerAbono, FijarCache,
         Agregar, Consumir, Guardar, Invalidar, Releer, EscribirRecibo, AnotarRecibos, Abortar
  <2> QED BY <1>1, <1>2, <2>1 DEF MismosMontos, Precios
<1> QED BY <1>3, <1>4

\* a request that accepts nothing, now or in this step, writes no document
LEMMA AjenaPaso ==
  ASSUME IInv, NEW s \in Sesiones, PasoSesion(s), ses[s].pago = NoPago,
         \A p \in Pagos : ~ Aceptar(s, p)
  PROVE  UNCHANGED <<recibos, pagos, credito, aceptaciones>> /\ ses'[s].pago = NoPago
<1>1. ses[s] \in Sesion /\ ses[s].pc \notin ConPago
  BY Forma DEF Reglas, EnRegla, TypeOK
<1>2. Consultar(s) \/ LeerCache(s) \/ LeerAbono(s) \/ FijarCache(s) \/ Abortar(s)
  BY <1>1 DEF PasoSesion, LeerDeuda, SinDeuda, Agregar, Consumir, Guardar, Invalidar, Releer,
              EscribirRecibo, AnotarRecibos, ConPago
<1>3. UNCHANGED <<recibos, pagos, credito, aceptaciones>>
  BY <1>2 DEF Consultar, LeerCache, LeerAbono, FijarCache, Abortar
<1>4. \A abono : ConMonto(s, abono) = Inactiva
  BY DEF ConMonto
<1>5. ASSUME NEW x, Ir(s, x), x.pago = NoPago PROVE ses'[s].pago = NoPago
  BY <1>5, AlIr
<1>6. Inactiva.pago = NoPago /\ [Inactiva EXCEPT !.pc = "cache"].pago = NoPago
  BY DEF Inactiva
<1>7. \A v : [ses[s] EXCEPT !.pc = "doc"].pago = NoPago
             /\ [ses[s] EXCEPT !.pc = "fijar", !.leido = v].pago = NoPago
  BY <1>1 DEF Sesion
<1>8. ses'[s].pago = NoPago
  BY <1>2, <1>4, <1>5, <1>6, <1>7 DEF Consultar, LeerCache, LeerAbono, FijarCache, Abortar
<1> QED BY <1>3, <1>8

\* who writes a receipt or the credit takes a step that shows on itself
LEMMA EscribirSeNota ==
  ASSUME IInv, NEW s \in Sesiones, PasoSesion(s), ses'[s] = ses[s]
  PROVE  UNCHANGED <<recibos, credito>>
<1>1. ses[s] \in Sesion
  BY Forma DEF TypeOK
<1>2. ~ Agregar(s) /\ ~ Guardar(s)
  <2>1. [ses[s] EXCEPT !.pc = "invalidar", !.excess = 0].pc = "invalidar"
        /\ [ses[s] EXCEPT !.pc = "invalidar", !.leido = 0, !.deAbono = 0].pc = "invalidar"
    BY <1>1 DEF Sesion
  <2> QED BY <2>1, AlIr DEF Agregar, Guardar
<1>3. \A r \in Recibos : ~ EscribirRecibo(s, r)
  BY AlEscribir
<1> QED BY <1>2, <1>3 DEF PasoSesion, Aceptar, LeerDeuda, SinDeuda, Consultar, LeerCache,
      LeerAbono, FijarCache, Consumir, Invalidar, Releer, AnotarRecibos, Abortar

\* an acceptance stays one, overlapped or not, until it ends
LEMMA SigueSiendo ==
  ASSUME IInv, NEW s \in Sesiones, PasoSesion(s), \A p \in Pagos : ~ Aceptar(s, p)
  PROVE  \/ ses'[s] = Inactiva
         \/ ses[s].pc = "inactiva" /\ ses'[s] = Consulta
         \/ ses'[s].pago = ses[s].pago /\ ses'[s].solapada = ses[s].solapada
BY PasoDeSesion, AlReleer, AlEscribir, AlIr DEF Conserva

(***************************************************************************)
(* An acceptance that is alone, and its accounts true, keeps LibroMayor.   *)
(***************************************************************************)
LEMMA EnManoTipo ==
  ASSUME NEW docs \in [Pagos -> Pago \cup {NoExiste}], NEW x \in Sesion, NEW d \in Nat,
         EnCuenta(x, d), x.pago # NoPago => docs[x.pago] # NoExiste
  PROVE  EnMano(docs, x) \in Nat
<1>1. /\ x.deAbono \in Nat /\ x.resto \in Nat /\ x.excess \in Nat /\ x.deAbono <= x.resto
      /\ x.pago # NoPago => x.pago \in Pagos /\ docs[x.pago] \in Pago
  BY DEF Sesion, EnCuenta
<1> QED BY <1>1 DEF EnMano, Pago

LEMMA SolaPaso ==
  ASSUME Finitos, IInv, Solape, Precios, Mayor!Fondo \in Nat, NEW s \in Sesiones,
         ses[s].pago # NoPago, EnSola(s), Fresca(s), PasoSesion(s)
  PROVE  /\ [Mayor!Next]_(Mayor!cuentas) /\ (Mayor!Fondo)' \in Nat /\ Precios'
         /\ \/ Avanza(s) /\ EnSola(s)'
            \/ ses'[s] = Inactiva /\ (Mayor!Fondo)' = Mayor!Fondo
<1>t. /\ TypeOK /\ IInv' /\ TypeOK' /\ ses[s] \in Sesion /\ MontoCredito \in Nat
      /\ EnRegla(recibos, pagos, ses[s])
  BY PasoInv, Forma, FormaPrima, MontoCreditoTipo DEF Next, TypeOK, Reglas
<1>1. \A p \in Pagos : ~ Aceptar(s, p)
  BY AlAceptar DEF Solape
<1>2. UNCHANGED aceptaciones /\ MismosMontos /\ Precios'
  BY <1>1, SinAceptar
<1>3. ASSUME Avanza(s) PROVE EnSola(s)' /\ (Mayor!Fondo)' \in Nat
  <2>1. /\ EnCuenta(ses'[s], MontoCredito') /\ ~ ses'[s].solapada
        /\ EnMano(pagos', ses'[s]) = EnMano(pagos, ses[s]) + ((Mayor!Fondo)' - Mayor!Fondo)
    BY <1>3 DEF Avanza, EnSola
  <2>2. EnMano(pagos, ses[s]) \in Nat
    BY <1>t, EnManoTipo DEF EnSola, TypeOK, EnRegla, Resuelto
  <2>3. EnMano(pagos', ses'[s]) \in Nat
    <3>1. ses'[s] \in Sesion /\ EnRegla(recibos', pagos', ses'[s])
          /\ pagos' \in [Pagos -> Pago \cup {NoExiste}]
      BY <1>t, FormaPrima DEF TypeOK, Reglas
    <3>2. MontoCredito' \in Nat
      BY <1>t DEF TypeOK, MontoCredito
    <3> QED BY <2>1, <3>1, <3>2, EnManoTipo DEF EnRegla, Resuelto
  <2>4. (Mayor!Fondo)' \in Int
    BY <1>t, FondoEntero, MontosTipoTras, FondoEsTras
  <2>5. EnMano(pagos, ses[s]) <= Mayor!Fondo
    BY DEF EnSola
  <2>6. EnMano(pagos', ses'[s]) <= (Mayor!Fondo)' /\ (Mayor!Fondo)' \in Nat
    BY <2>1, <2>2, <2>3, <2>4, <2>5
  <2> QED BY <2>1, <2>6 DEF EnSola
<1>4. ASSUME Callados(s) PROVE [Mayor!Next]_(Mayor!cuentas) /\ Avanza(s)
  <2>1. UNCHANGED <<recibos, pagos, credito, aceptaciones>> /\ Sigue(ses[s], ses'[s])
    BY <1>4, CalladoCuenta DEF EnSola
  <2>2. /\ UNCHANGED Mayor!cuentas /\ (Mayor!Fondo)' = Mayor!Fondo
        /\ MontoCredito' = MontoCredito /\ pendientes' = pendientes
    BY <1>t, <1>2, <2>1, PagosQuietos
  <2>3. EnMano(pagos, ses[s]) \in Nat
    BY <1>t, EnManoTipo DEF EnSola, TypeOK, EnRegla, Resuelto
  <2>4. EnMano(pagos', ses'[s]) = EnMano(pagos, ses[s]) + ((Mayor!Fondo)' - Mayor!Fondo)
    BY <2>1, <2>2, <2>3 DEF Sigue
  <2> QED BY <2>1, <2>2, <2>4 DEF Avanza, Sigue
<1>5. ASSUME Agregar(s) PROVE [Mayor!Next]_(Mayor!cuentas) /\ Avanza(s)
  BY <1>t, <1>5, AgregarCuenta DEF Mayor!Next
<1>6. ASSUME Guardar(s) PROVE [Mayor!Next]_(Mayor!cuentas) /\ Avanza(s)
  BY <1>t, <1>6, GuardarCuenta DEF Mayor!Next
<1>7. ASSUME NEW r \in Recibos, EscribirRecibo(s, r)
      PROVE  [Mayor!Next]_(Mayor!cuentas) /\ Avanza(s)
  BY <1>t, <1>7, EscribirCuenta DEF Mayor!Next
<1>8. ASSUME SinDeuda(s) \/ AnotarRecibos(s) \/ Abortar(s)
      PROVE  UNCHANGED Mayor!cuentas /\ (Mayor!Fondo)' = Mayor!Fondo /\ ses'[s] = Inactiva
  <2>1. UNCHANGED <<recibos, credito>> /\ Ir(s, Inactiva)
    BY <1>8 DEF SinDeuda, AnotarRecibos, Abortar
  <2> QED BY <1>t, <1>2, <2>1, PagosQuietos, AlIr
<1>9. ~ Consultar(s)
  BY DEF Consultar, Abrir, Solape
<1> QED BY <1>1, <1>2, <1>3, <1>4, <1>5, <1>6, <1>7, <1>8, <1>9 DEF PasoSesion, Callados

(***************************************************************************)
(* Every step keeps LibroMayor, and the accounts of the acceptances that   *)
(* are alone, if overlapped ones write nothing and the cache is not old.   *)
(***************************************************************************)
Solas == \A s \in Sesiones : ses[s].pago # NoPago /\ ~ ses[s].solapada => EnSola(s)
SolapadasCallan ==
  \A s \in Sesiones : ses[s].pago # NoPago /\ ses[s].solapada /\ ses'[s] # ses[s] =>
    UNCHANGED <<recibos, credito>>

\* who is about to delete the cached credit is an acceptance, so that one which is
\* alone and has not read it finds the true one
LEMMA SolaFresca ==
  ASSUME IInv, Solape, ~ CacheVieja, NEW s \in Sesiones, ses[s].pago # NoPago, ~ ses[s].solapada
  PROVE  Fresca(s)
<1>1. SUFFICES ASSUME ses[s].pc \in {"deuda", "cache"}, cacheAbono \notin {NoCache, MontoCredito}
               PROVE  FALSE
  BY DEF Fresca
<1>2. PICK t \in Sesiones : ses[t].pc = "invalidar"
  BY <1>1 DEF CacheVieja
<1>3. ses[t].pago # NoPago /\ s # t
  BY <1>1, <1>2, Forma DEF Reglas, EnRegla, ConPago
<1> QED BY <1>3 DEF Solape

\* a request that stays as it was keeps its accounts, if the others' steps do
LEMMA SigueSola ==
  ASSUME IInv, MismosMontos, NEW t \in Sesiones, ses'[t] = ses[t], ses[t].pago # NoPago,
         MontoCredito' = MontoCredito, (Mayor!Fondo)' = Mayor!Fondo
  PROVE  /\ EnMano(pagos', ses'[t]) = EnMano(pagos, ses[t])
         /\ EnSola(t) => EnSola(t)'
<1>1. ses[t].pago \in Pagos /\ pagos[ses[t].pago] # NoExiste
  BY Forma DEF Reglas, EnRegla, Resuelto, TypeOK, Sesion
<1>2. pagos'[ses[t].pago].monto = pagos[ses[t].pago].monto
  BY <1>1 DEF MismosMontos
<1>3. EnMano(pagos', ses'[t]) = EnMano(pagos, ses[t])
  BY <1>2 DEF EnMano
<1> QED BY <1>3 DEF EnSola

\* the steps of nobody's request
LEMMA EmitirCuenta ==
  ASSUME Finitos, IInv, TypeOK', NEW r \in Recibos, NEW m \in MontosRecibo, EmitirRecibo(r, m)
  PROVE  /\ Mayor!Emitir(r) /\ UNCHANGED <<pagos, credito, ses, aceptaciones>>
         /\ (Mayor!Fondo)' = Mayor!Fondo /\ MontoCredito' = MontoCredito
         /\ \A q \in Recibos : pendientes[q] <= pendientes'[q]
<1> DEFINE nuevo == [montoUsd |-> m, montoPagado |-> 0, abonos |-> <<>>, estado |-> "pendiente"]
<1>1. /\ recibos[r] = NoExiste /\ recibos' = [recibos EXCEPT ![r] = nuevo]
      /\ UNCHANGED <<pagos, credito, ses, aceptaciones>> /\ TypeOK
  BY Forma DEF EmitirRecibo
<1>2. nuevo \in Recibo /\ nuevo.montoPagado = 0
  BY MontosAssumption DEF Recibo
<1> HIDE DEF nuevo
<1>3. /\ recibos'[r] = nuevo /\ nuevo # NoExiste
      /\ \A q \in Recibos \ {r} : recibos'[q] = recibos[q]
  BY <1>1, <1>2, CentinelasAssumption DEF TypeOK
<1>4. /\ \A q \in Recibos : montoPagado'[q] = montoPagado[q]
      /\ \A q \in Recibos \ {r} : montoUsd'[q] = montoUsd[q]
      /\ montoUsd[r] = 0
  BY <1>1, <1>2, <1>3 DEF montoPagado, montoUsd
<1>5. /\ montoPagado \in [Recibos -> Nat] /\ montoPagado' \in [Recibos -> Nat]
      /\ montoUsd' \in [Recibos -> Nat]
  BY <1>1, MontosTipo, MontosTipoTras
<1>6. /\ montoPagado' = montoPagado /\ MontoCredito' = MontoCredito /\ ingresos' = ingresos
  BY <1>1, <1>4, <1>5 DEF MontoCredito, ingresos
<1>7. ingresado' = ingresado /\ (Mayor!Fondo)' = Mayor!Fondo
  BY <1>6, FondoEs, FondoEsTras
<1>8. Mayor!Emitir(r)
  BY <1>4, <1>5, <1>6, <1>7 DEF Mayor!Emitir
<1>9. \A q \in Recibos : pendientes[q] <= pendientes'[q]
  <2>1. pendientes \in [Recibos -> Nat] /\ pendientes' \in [Recibos -> Nat]
    BY <1>1, PendientesTipo, PendientesTipoTras
  <2>2. \A q \in Recibos \ {r} : pendientes'[q] = pendientes[q]
    BY <1>3 DEF pendientes
  <2>3. pendientes[r] = 0
    BY <1>1 DEF pendientes, TieneSaldo
  <2> QED BY <2>1, <2>2, <2>3
<1> QED BY <1>1, <1>6, <1>7, <1>8, <1>9

LEMMA AmbienteCuenta ==
  ASSUME IInv, TypeOK', Precios, [Next]_vars, \A s \in Sesiones : ~ PasoSesion(s),
         \A r \in Recibos, m \in MontosRecibo : ~ EmitirRecibo(r, m)
  PROVE  /\ UNCHANGED <<recibos, credito, ses, aceptaciones>> /\ MismosMontos /\ Precios'
         /\ UNCHANGED Mayor!cuentas /\ (Mayor!Fondo)' = Mayor!Fondo
         /\ MontoCredito' = MontoCredito /\ pendientes' = pendientes
<1>t. TypeOK
  BY Forma
<1>1. ASSUME NEW p \in Pagos, NEW m \in MontosPago, NEW ids \in Seleccion, CrearPago(p, m, ids)
      PROVE  UNCHANGED <<recibos, credito, ses, aceptaciones>> /\ MismosMontos /\ Precios'
  <2> DEFINE doc == [estado |-> "pendiente", monto |-> m, recibosPagados |-> ids]
  <2>1. /\ pagos[p] = NoExiste /\ pagos' = [pagos EXCEPT ![p] = doc]
        /\ UNCHANGED <<recibos, credito, ses, aceptaciones>>
    BY <1>1 DEF CrearPago
  <2>2. doc.monto > 0 /\ doc \in Pago
    BY MontosAssumption, EleccionAssumption DEF Pago
  <2> HIDE DEF doc
  <2>3. MismosMontos
    BY <1>t, <2>1 DEF MismosMontos, TypeOK
  <2>4. Precios'
    BY <1>t, <2>1, <2>2, CentinelasAssumption DEF Precios, TypeOK
  <2> QED BY <2>1, <2>3, <2>4
<1>2. ASSUME NEW p \in Pagos, Rechazar(p)
      PROVE  UNCHANGED <<recibos, credito, ses, aceptaciones>> /\ MismosMontos /\ Precios'
  <2> DEFINE doc == [pagos[p] EXCEPT !.estado = "rechazado"]
  <2>1. /\ pagos[p] # NoExiste /\ pagos[p] \in Pago
        /\ UNCHANGED <<recibos, credito, ses, aceptaciones>>
    BY <1>t, <1>2 DEF Rechazar, TypeOK
  <2>2. doc \in Pago /\ doc.monto = pagos[p].monto /\ pagos' = [pagos EXCEPT ![p] = doc]
    BY <1>2, <2>1 DEF Pago, Rechazar
  <2> HIDE DEF doc
  <2>3. MismosMontos /\ Precios'
    BY <1>t, <2>1, <2>2, UnPagoEscrito
  <2> QED BY <2>1, <2>3
<1>3. CASE ExpirarCache \/ UNCHANGED vars
  <2>1. UNCHANGED <<recibos, pagos, credito, ses, aceptaciones>>
    BY <1>3 DEF ExpirarCache, vars
  <2>2. MismosMontos /\ Precios'
    BY <2>1 DEF MismosMontos, Precios
  <2> QED BY <1>t, <2>1, <2>2, PagosQuietos
<1>4. UNCHANGED <<recibos, credito, ses, aceptaciones>> /\ MismosMontos /\ Precios'
  BY <1>1, <1>2, <1>3 DEF Next
<1> QED BY <1>t, <1>4, PagosQuietos

LEMMA LibrePaso ==
  ASSUME Finitos, IInv, Solape, Precios, Mayor!Fondo \in Nat, ~ CacheVieja, Solas,
         [Next]_vars, SolapadasCallan
  PROVE  [Mayor!Next]_(Mayor!cuentas) /\ (Mayor!Fondo)' \in Nat /\ Precios' /\ Solas'
<1>t. TypeOK /\ IInv' /\ TypeOK'
  BY PasoInv, Forma, FormaPrima
<1> DEFINE Bien == [Mayor!Next]_(Mayor!cuentas) /\ (Mayor!Fondo)' \in Nat /\ Precios' /\ Solas'
           Sola_(t) == ses'[t].pago # NoPago /\ ~ ses'[t].solapada => EnSola(t)'
<1>1. ASSUME \A t \in Sesiones : Sola_(t) PROVE Solas'
  BY <1>1 DEF Solas
<1>2. ASSUME NEW s \in Sesiones, NEW p \in Pagos, Aceptar(s, p) PROVE Bien
  <2>1. /\ Mayor!Ingresar /\ Precios'
        /\ (Mayor!Fondo)' = Mayor!Fondo + pagos[p].monto /\ pagos[p].monto \in Nat
        /\ EnCuenta(ses'[s], MontoCredito') /\ EnMano(pagos', ses'[s]) = pagos[p].monto
    BY <1>t, <1>2, AceptarCuenta
  <2>2. Sola_(s)
    <3>1. EnMano(pagos', ses'[s]) <= (Mayor!Fondo)'
      BY <2>1
    <3> QED BY <2>1, <3>1 DEF EnSola
  <2>3. \A t \in Sesiones \ {s} : Sola_(t)
    BY <1>2, AlAceptar
  <2> HIDE DEF Sola_
  <2> QED BY <1>1, <2>1, <2>2, <2>3 DEF Mayor!Next
<1>3. ASSUME NEW s \in Sesiones, PasoSesion(s), \A p \in Pagos : ~ Aceptar(s, p) PROVE Bien
  <2>t. /\ UNCHANGED aceptaciones /\ MismosMontos /\ Precios'
        /\ \A t \in Sesiones \ {s} : ses'[t] = ses[t]
    BY <1>3, SinAceptar
  <2>1. ASSUME UNCHANGED <<recibos, credito>>, \/ ses'[s].pago = NoPago
                                                \/ ses'[s].solapada
        PROVE  Bien
    <3>1. /\ UNCHANGED Mayor!cuentas /\ (Mayor!Fondo)' = Mayor!Fondo
          /\ MontoCredito' = MontoCredito
      BY <1>t, <2>t, <2>1, PagosQuietos
    <3>2. ASSUME NEW t \in Sesiones PROVE Sola_(t)
      <4>1. CASE t = s
        BY <2>1, <4>1
      <4>2. CASE t # s
        BY <2>t, <3>1, <4>2, SigueSola DEF Solas
      <4> QED BY <4>1, <4>2
    <3> HIDE DEF Sola_
    <3> QED BY <1>1, <2>t, <3>1, <3>2
  <2>2. CASE ses[s].pago = NoPago
    BY <1>3, <2>1, <2>2, AjenaPaso
  <2>3. CASE ses[s].pago # NoPago /\ ses[s].solapada
    <3>1. UNCHANGED <<recibos, credito>>
      BY <1>3, <2>3, EscribirSeNota DEF SolapadasCallan
    <3>2. ses[s].pc # "inactiva"
      BY <2>3 DEF Solape
    <3>3. ses'[s].pago = NoPago \/ ses'[s].solapada
      BY <1>3, <2>3, <3>2, SigueSiendo DEF Inactiva
    <3> QED BY <2>1, <3>1, <3>3
  <2>4. CASE ses[s].pago # NoPago /\ ~ ses[s].solapada
    <3>1. EnSola(s) /\ Fresca(s)
      BY <2>4, SolaFresca DEF Solas
    <3>2. /\ [Mayor!Next]_(Mayor!cuentas) /\ (Mayor!Fondo)' \in Nat /\ Precios'
          /\ EnSola(s)' \/ ses'[s] = Inactiva
      BY <1>3, <2>4, <3>1, SolaPaso
    <3>3. Sola_(s)
      BY <3>2 DEF Inactiva
    <3>4. \A t \in Sesiones \ {s} : Sola_(t)
      BY <2>t, <2>4 DEF Solape
    <3> HIDE DEF Sola_
    <3> QED BY <1>1, <3>2, <3>3, <3>4
  <2> QED BY <2>2, <2>3, <2>4
<1>4. ASSUME UNCHANGED ses, MismosMontos, MontoCredito' = MontoCredito,
             (Mayor!Fondo)' = Mayor!Fondo, Precios', [Mayor!Next]_(Mayor!cuentas)
      PROVE  Bien
  <2>1. \A t \in Sesiones : Sola_(t)
    BY <1>4, SigueSola DEF Solas
  <2> HIDE DEF Sola_
  <2> QED BY <1>1, <1>4, <2>1
<1>5. ASSUME NEW r \in Recibos, NEW m \in MontosRecibo, EmitirRecibo(r, m) PROVE Bien
  <2>1. /\ Mayor!Emitir(r) /\ UNCHANGED <<pagos, credito, ses, aceptaciones>>
        /\ (Mayor!Fondo)' = Mayor!Fondo /\ MontoCredito' = MontoCredito
    BY <1>t, <1>5, EmitirCuenta
  <2>2. Precios' /\ MismosMontos
    BY <2>1 DEF Precios, MismosMontos
  <2> QED BY <1>4, <2>1, <2>2 DEF Mayor!Next
<1> HIDE DEF Bien
<1>6. ASSUME \A s \in Sesiones : ~ PasoSesion(s),
             \A r \in Recibos, m \in MontosRecibo : ~ EmitirRecibo(r, m)
      PROVE  Bien
  <2>1. /\ UNCHANGED <<recibos, credito, ses, aceptaciones>> /\ MismosMontos /\ Precios'
        /\ UNCHANGED Mayor!cuentas /\ (Mayor!Fondo)' = Mayor!Fondo
        /\ MontoCredito' = MontoCredito
    BY <1>t, <1>6, AmbienteCuenta
  <2>2. UNCHANGED ses /\ [Mayor!Next]_(Mayor!cuentas)
    BY <2>1
  <2> QED BY <1>4, <2>1, <2>2, Zenon
<1>7. ASSUME NEW s \in Sesiones, PasoSesion(s) PROVE Bien
  BY <1>2, <1>3, <1>7, Zenon
<1>8. Bien
  BY <1>5, <1>6, <1>7, Zenon
<1> QED BY <1>8 DEF Bien

(***************************************************************************)
(* Requests served one at a time and without failures.                     *)
(***************************************************************************)

\* the request that takes a step is the only one in flight
LEMMA LosDemasOciosos ==
  ASSUME MaxEnVuelo = 1, ~ ConFallos, IInv, EnSerie, NEW s \in Sesiones, PasoSesion(s)
  PROVE  \A t \in Sesiones \ {s} : ses[t].pc = "inactiva" /\ ses'[t].pc = "inactiva"
<1>1. \A t \in Sesiones \ {s} : ses'[t].pc = ses[t].pc
  BY PasoDeCredito
<1>2. CASE s \in EnVuelo
  BY <1>1, <1>2, SolaEnVuelo DEF EnVuelo
<1>3. CASE s \notin EnVuelo
  <2>1. Abrir(s)
    BY <1>3, PasoDeCredito DEF EnVuelo
  <2>2. IsFiniteSet(EnVuelo) /\ Cardinality(EnVuelo) \in Nat /\ Cardinality(EnVuelo) < 1
    BY <2>1, FS_CardinalityType DEF Abrir, EnSerie
  <2>3. EnVuelo = {}
    BY <2>2, FS_EmptySet
  <2> QED BY <1>1, <2>3 DEF EnVuelo
<1> QED BY <1>2, <1>3

LEMMA FondosPaso ==
  ASSUME MaxEnVuelo = 1, ~ ConFallos, Finitos, IInv, Solape, EnSerie, Fondos, [Next]_vars
  PROVE  [Mayor!Next]_(Mayor!cuentas) /\ Fondos'
<1>1. ~ CacheVieja
  BY DEF CacheVieja, EnSerie
<1>2. Mayor!Fondo \in Nat /\ Precios /\ Solas /\ SolapadasCallan
  BY DEF Fondos, Solas, SolapadasCallan, EnSola
<1>3. [Mayor!Next]_(Mayor!cuentas) /\ (Mayor!Fondo)' \in Nat /\ Precios' /\ Solas'
  BY <1>1, <1>2, LibrePaso
<1>4. \A s \in Sesiones : ses[s].pago # NoPago => ~ ses[s].solapada
  BY DEF Fondos, EnSola
<1>5. ASSUME NEW s \in Sesiones, PasoSesion(s)
      PROVE  \A t \in Sesiones : ses'[t].pago # NoPago => ~ ses'[t].solapada
  <2>1. \A t \in Sesiones \ {s} : ses[t].pago = NoPago /\ ses'[t].pago = NoPago
    BY <1>5, LosDemasOciosos, SolapePaso DEF Solape
  <2>2. ASSUME NEW p \in Pagos, Aceptar(s, p) PROVE ~ ses'[s].solapada
    BY <2>1, <2>2, AlAceptar DEF Solape
  <2>3. ASSUME \A p \in Pagos : ~ Aceptar(s, p), ses'[s].pago # NoPago PROVE ~ ses'[s].solapada
    BY <1>4, <1>5, <2>3, SigueSiendo DEF Inactiva, Consulta
  <2> QED BY <2>1, <2>2, <2>3
<1>6. ASSUME \A s \in Sesiones : ~ PasoSesion(s) PROVE ses' = ses
  BY <1>6 DEF Next, EmitirRecibo, CrearPago, Rechazar, ExpirarCache, vars
<1>7. \A s \in Sesiones : ses'[s].pago # NoPago => ~ ses'[s].solapada
  BY <1>4, <1>5, <1>6
<1> QED BY <1>3, <1>7 DEF Fondos, Solas

LEMMA MayorInicio ==
  ASSUME Finitos, Init
  PROVE  Mayor!Init /\ Mayor!Fondo = 0 /\ Precios /\ \A s \in Sesiones : ses[s] = Inactiva
<1>1. TypeOK /\ Inicial \in Nat /\ MontoCredito = Inicial
  BY InicioInv, Forma, MontosAssumption DEF Inicial, Init, MontoCredito
<1>2. /\ \A p \in Pagos : ingresos[p] = 0 /\ pagos[p] = NoExiste /\ aceptaciones[p] = 0
      /\ \A r \in Recibos : montoPagado[r] = 0
      /\ montoUsd = [r \in Recibos |-> 0] /\ montoPagado = [r \in Recibos |-> 0]
  BY DEF Init, ingresos, montoPagado, montoUsd
<1>3. Suma(ingresos, Pagos) = 0 /\ Suma(montoPagado, Recibos) = 0
  BY <1>2, SumaDeCeros DEF Finitos
<1>4. ingresado = Inicial /\ Mayor!Fondo = 0
  BY <1>1, <1>3, FondoEs DEF FondoDe
<1>5. Mayor!Init
  BY <1>1, <1>2, <1>4 DEF Mayor!Init
<1>6. Precios /\ \A s \in Sesiones : ses[s] = Inactiva
  BY <1>2 DEF Precios, Init
<1> QED BY <1>4, <1>5, <1>6

LEMMA FondosInicio == ASSUME Finitos, Init PROVE Fondos
BY MayorInicio DEF Fondos, Inactiva

\* Served one at a time and without failures, accepting payments implements the
\* accounts of LibroMayor, however many receipts and payments there are.
THEOREM ImplementaElLibro ==
  ASSUME MaxEnVuelo = 1, ~ ConFallos, IsFiniteSet(Recibos), IsFiniteSet(Pagos)
  PROVE  Spec => LlevaElLibro
<1> DEFINE Todo == IInvContable /\ EnSerie /\ Fondos
<1>1. Init => Todo /\ Mayor!Init
  BY ContableInicio, SerieInicio, FondosInicio, MayorInicio DEF Finitos
<1>2. Todo /\ [Next]_vars => Todo' /\ [Mayor!Next]_(Mayor!cuentas)
  BY ContablePaso, SeriePaso, FondosPaso DEF IInvContable, Finitos
<1> HIDE DEF Todo
<1> QED BY <1>1, <1>2, PTL DEF Spec, LlevaElLibro, Mayor!Spec

\* Served one at a time and without failures, credit that pays a receipt is spent:
\* receipts and credit never hold more than was paid in.
THEOREM SinDobleGasto ==
  ASSUME MaxEnVuelo = 1, ~ ConFallos, IsFiniteSet(Recibos), IsFiniteSet(Pagos)
  PROVE  Spec => []CreditoSeConsume
<1> DEFINE Todo == IInvContable /\ EnSerie /\ Fondos
<1>1. Init => Todo
  BY ContableInicio, SerieInicio, FondosInicio DEF Finitos
<1>2. Todo /\ [Next]_vars => Todo'
  BY ContablePaso, SeriePaso, FondosPaso DEF IInvContable, Finitos
<1>3. Todo => CreditoSeConsume
  BY DEF Fondos, CreditoSeConsume
<1> HIDE DEF Todo
<1> QED BY <1>1, <1>2, <1>3, PTL DEF Spec

(***************************************************************************)
(* Requests that overlap, die and fail.  As long as nothing has happened   *)
(* that may lose money, what an acceptance has in its hands is all the     *)
(* money on its way, and the receipts it may still write take what it has  *)
(* to apply: so it ends with nothing in its hands.                         *)
(***************************************************************************)
EnTransito ==
  /\ \A s \in Sesiones : ~ ses[s].solapada
  /\ \A s \in Sesiones : ses[s].pago # NoPago =>
       EnMano(pagos, ses[s]) = Mayor!Fondo /\ Alcanza(pendientes, ses[s])
  /\ (\A s \in Sesiones : ses[s].pago = NoPago) => Mayor!Fondo = 0

\* an acceptance that has written all it was going to has nothing left
LEMMA NadaQueda ==
  ASSUME IInv, NEW s \in Sesiones, EnCuenta(ses[s], MontoCredito), Escrita(s),
         Alcanza(pendientes, ses[s])
  PROVE  EnMano(pagos, ses[s]) = 0
<1> DEFINE C == {r \in Recibos : ses[s].copia[r] # NoExiste}
<1>1. /\ ses[s].resto \in Nat /\ ses[s].excess \in Nat
  BY Forma DEF TypeOK, Sesion
<1>2. ses[s].pc = "bulk" /\ ses[s].porLeer = {} /\ PorEscribir(s) = {}
  BY DEF Escrita
<1>3. ses[s].excess = 0 /\ ses[s].deAbono = 0
  BY <1>1, <1>2 DEF EnCuenta
<1>4. ses[s].resto = 0
  <2>1. SUFFICES ASSUME ses[s].resto > 0 PROVE FALSE
    BY <1>1
  <2>2. ses[s].porLeer \cup C = {}
    BY <1>2, <2>1 DEF PorEscribir
  <2>3. ses[s].resto <= Suma(pendientes, ses[s].porLeer \cup C)
    BY <1>2 DEF Alcanza, PorCalcular
  <2>4. ses[s].resto <= 0
    BY <2>2, <2>3, SumaVacia
  <2> QED BY <1>1, <2>1, <2>4
<1> QED BY <1>2, <1>3, <1>4 DEF EnMano, PorCalcular

\* on receipts that owe more, an acceptance still finds what it has to apply
LEMMA AlcanzaSube ==
  ASSUME Finitos, NEW x \in Sesion, NEW g \in [Recibos -> Nat], NEW h \in [Recibos -> Nat],
         \A r \in Recibos : g[r] <= h[r], Alcanza(g, x)
  PROVE  Alcanza(h, x)
<1>1. ASSUME NEW A \in SUBSET Recibos, NEW n \in Nat, n <= Suma(g, A) PROVE n <= Suma(h, A)
  <2>1. IsFiniteSet(A) /\ Enteros(g, A) /\ Enteros(h, A) /\ \A r \in A : g[r] <= h[r]
    BY FS_Subset DEF Finitos, Enteros
  <2>2. Suma(g, A) <= Suma(h, A) /\ Suma(g, A) \in Int /\ Suma(h, A) \in Int
    BY <2>1, SumaMonotona, SumaTipo
  <2> QED BY <1>1, <2>2
<1>2. /\ x.deuda \in Nat /\ x.resto \in Nat /\ x.objetivo \in SUBSET Recibos
      /\ x.objetivo \ x.porLeer \in SUBSET Recibos
      /\ x.porLeer \cup {r \in Recibos : x.copia[r] # NoExiste} \in SUBSET Recibos
  BY DEF Sesion
<1> QED BY <1>1, <1>2 DEF Alcanza

LEMMA IgualTras ==
  ASSUME NEW f \in Nat, NEW g \in Int, NEW e, NEW h, e = f, h = e + (g - f)
  PROVE  h = g
OBVIOUS

LEMMA TransitoPaso ==
  ASSUME Finitos, IInv, Solape, Precios, Mayor!Fondo \in Nat, ~ CacheVieja, Solas, EnTransito,
         [Next]_vars, \A s \in Sesiones : ~ ses'[s].solapada,
         \A s \in Sesiones : Acaba(s) => Escrita(s)
  PROVE  EnTransito'
<1>t. TypeOK /\ IInv' /\ TypeOK'
  BY PasoInv, Forma, FormaPrima
<1> DEFINE Lleva_(t) == ses'[t].pago # NoPago =>
                          /\ EnMano(pagos', ses'[t]) = (Mayor!Fondo)'
                          /\ Alcanza(pendientes', ses'[t])
<1>q. ASSUME \A t \in Sesiones : Lleva_(t),
             (\A t \in Sesiones : ses'[t].pago = NoPago) => (Mayor!Fondo)' = 0
      PROVE  EnTransito'
  BY <1>q DEF EnTransito
<1>1. ASSUME NEW s \in Sesiones, NEW p \in Pagos, Aceptar(s, p) PROVE EnTransito'
  <2>1. /\ \A t \in Sesiones : ses[t].pago = NoPago
        /\ \A t \in Sesiones \ {s} : ses'[t].pago = NoPago
        /\ ses'[s].pago = p /\ p # NoPago
    BY <1>1, AlAceptar, EleccionAssumption
  <2>2. Mayor!Fondo = 0
    BY <2>1 DEF EnTransito
  <2>3. /\ (Mayor!Fondo)' = Mayor!Fondo + pagos[p].monto /\ pagos[p].monto \in Nat
        /\ EnMano(pagos', ses'[s]) = pagos[p].monto /\ Alcanza(pendientes', ses'[s])
    BY <1>t, <1>1, AceptarCuenta
  <2>4. Lleva_(s) /\ \A t \in Sesiones \ {s} : Lleva_(t)
    BY <2>1, <2>2, <2>3
  <2> HIDE DEF Lleva_
  <2> QED BY <1>q, <2>1, <2>4
<1>2. ASSUME NEW t \in Sesiones, ses'[t] = ses[t], MismosMontos, MontoCredito' = MontoCredito,
             (Mayor!Fondo)' = Mayor!Fondo, \A r \in Recibos : pendientes[r] <= pendientes'[r]
      PROVE  Lleva_(t)
  <2>1. SUFFICES ASSUME ses[t].pago # NoPago
                 PROVE  /\ EnMano(pagos', ses[t]) = Mayor!Fondo
                        /\ Alcanza(pendientes', ses[t])
    BY <1>2
  <2>2. EnMano(pagos, ses[t]) = Mayor!Fondo /\ Alcanza(pendientes, ses[t])
    BY <2>1 DEF EnTransito
  <2>3. EnMano(pagos', ses[t]) = EnMano(pagos, ses[t])
    BY <1>2, <2>1, SigueSola
  <2>4. /\ ses[t] \in Sesion /\ pendientes \in [Recibos -> Nat]
        /\ pendientes' \in [Recibos -> Nat]
    BY <1>t, PendientesTipo, PendientesTipoTras DEF TypeOK
  <2>5. Alcanza(pendientes', ses[t])
    BY <1>2, <2>2, <2>4, AlcanzaSube
  <2> QED BY <2>2, <2>3, <2>5
<1>3. ASSUME pendientes' = pendientes PROVE \A r \in Recibos : pendientes[r] <= pendientes'[r]
  BY <1>t, <1>3, PendientesTipo
<1>4. ASSUME NEW s \in Sesiones, PasoSesion(s), \A p \in Pagos : ~ Aceptar(s, p)
      PROVE  EnTransito'
  <2>t. /\ UNCHANGED aceptaciones /\ MismosMontos /\ Precios'
        /\ \A t \in Sesiones \ {s} : ses'[t] = ses[t]
    BY <1>4, SinAceptar
  <2>1. CASE ses[s].pago = NoPago
    <3>1. UNCHANGED <<recibos, pagos, credito, aceptaciones>> /\ ses'[s].pago = NoPago
      BY <1>4, <2>1, AjenaPaso
    <3>2. /\ (Mayor!Fondo)' = Mayor!Fondo
          /\ MontoCredito' = MontoCredito /\ pendientes' = pendientes
      BY <1>t, <2>t, <3>1, PagosQuietos
    <3>3. Lleva_(s) /\ \A t \in Sesiones \ {s} : Lleva_(t)
      BY <1>2, <1>3, <2>t, <3>1, <3>2
    <3>4. (\A t \in Sesiones : ses'[t].pago = NoPago) => (Mayor!Fondo)' = 0
      BY <2>t, <2>1, <3>2 DEF EnTransito
    <3> HIDE DEF Lleva_
    <3> QED BY <1>q, <3>3, <3>4
  <2>2. CASE ses[s].pago # NoPago
    <3>1. /\ EnMano(pagos, ses[s]) = Mayor!Fondo /\ Alcanza(pendientes, ses[s])
          /\ ~ ses[s].solapada /\ EnSola(s) /\ Fresca(s)
      BY <2>2, SolaFresca DEF EnTransito, Solas
    <3>2. \A t \in Sesiones \ {s} : ses[t].pago = NoPago /\ ses'[t].pago = NoPago
      BY <2>t, <2>2, <3>1 DEF Solape
    <3>3. \/ Avanza(s)
          \/ ses'[s] = Inactiva /\ (Mayor!Fondo)' = Mayor!Fondo
      BY <1>4, <2>2, <3>1, SolaPaso
    <3>4. CASE ses'[s].pago # NoPago
      <4>1. Avanza(s)
        BY <3>3, <3>4 DEF Inactiva
      <4>2. (Mayor!Fondo)' \in Int
        BY <1>t, FondoEntero, MontosTipoTras, FondoEsTras
      <4>e. /\ EnMano(pagos', ses'[s]) = EnMano(pagos, ses[s]) + ((Mayor!Fondo)' - Mayor!Fondo)
            /\ Alcanza(pendientes', ses'[s])
        BY <3>1, <4>1 DEF Avanza
      <4>3. EnMano(pagos', ses'[s]) = (Mayor!Fondo)' /\ Alcanza(pendientes', ses'[s])
        BY <3>1, <4>e, <4>2, IgualTras
      <4>4. Lleva_(s) /\ \A t \in Sesiones \ {s} : Lleva_(t)
        BY <3>2, <4>3
      <4> HIDE DEF Lleva_
      <4> QED BY <1>q, <3>4, <4>4
    <3>5. CASE ses'[s].pago = NoPago
      <4>1. Escrita(s)
        BY <2>2, <3>5 DEF Acaba
      <4>2. Mayor!Fondo = 0 /\ EnMano(pagos, ses[s]) = 0
        BY <3>1, <4>1, NadaQueda DEF EnSola
      <4>3. ses[s].pc = "bulk"
        BY <4>1 DEF Escrita
      <4>4. ses'[s] = Inactiva
        BY <1>4, <2>2, <3>5, <4>3, SigueSiendo
      <4>5. EnMano(pagos', ses'[s]) = 0
        <5>1. Inactiva.pc = "inactiva" /\ Inactiva.excess = 0 /\ Inactiva.resto = 0
              /\ Inactiva.deAbono = 0
          BY DEF Inactiva
        <5> QED BY <4>4, <5>1 DEF EnMano, PorCalcular
      <4>6. (Mayor!Fondo)' \in Int
        BY <1>t, FondoEntero, MontosTipoTras, FondoEsTras
      <4>7. (Mayor!Fondo)' = 0
        <5>1. CASE Avanza(s)
          <6>1. EnMano(pagos', ses'[s]) = EnMano(pagos, ses[s]) + ((Mayor!Fondo)' - Mayor!Fondo)
            BY <5>1 DEF Avanza
          <6>2. EnMano(pagos', ses'[s]) = (Mayor!Fondo)'
            BY <4>2, <4>6, <6>1, IgualTras
          <6> QED BY <4>5, <6>2
        <5>2. CASE (Mayor!Fondo)' = Mayor!Fondo
          BY <4>2, <5>2
        <5> QED BY <3>3, <5>1, <5>2
      <4>8. \A t \in Sesiones : Lleva_(t)
        BY <3>2, <3>5
      <4> HIDE DEF Lleva_
      <4> QED BY <1>q, <4>7, <4>8
    <3> QED BY <3>4, <3>5
  <2> QED BY <2>1, <2>2
<1>5. ASSUME UNCHANGED ses, MismosMontos, MontoCredito' = MontoCredito,
             (Mayor!Fondo)' = Mayor!Fondo, \A r \in Recibos : pendientes[r] <= pendientes'[r]
      PROVE  EnTransito'
  <2>1. \A t \in Sesiones : Lleva_(t)
    BY <1>2, <1>5
  <2>2. (\A t \in Sesiones : ses'[t].pago = NoPago) => (Mayor!Fondo)' = 0
    BY <1>5 DEF EnTransito
  <2> HIDE DEF Lleva_
  <2> QED BY <1>q, <2>1, <2>2
<1>6. ASSUME NEW r \in Recibos, NEW m \in MontosRecibo, EmitirRecibo(r, m) PROVE EnTransito'
  <2>1. /\ UNCHANGED <<pagos, credito, ses, aceptaciones>>
        /\ (Mayor!Fondo)' = Mayor!Fondo /\ MontoCredito' = MontoCredito
        /\ \A q \in Recibos : pendientes[q] <= pendientes'[q]
    BY <1>t, <1>6, EmitirCuenta
  <2>2. MismosMontos
    BY <2>1 DEF MismosMontos
  <2> QED BY <1>5, <2>1, <2>2
<1>7. ASSUME \A s \in Sesiones : ~ PasoSesion(s),
             \A r \in Recibos, m \in MontosRecibo : ~ EmitirRecibo(r, m)
      PROVE  EnTransito'
  <2>1. /\ UNCHANGED <<recibos, credito, ses, aceptaciones>> /\ MismosMontos
        /\ (Mayor!Fondo)' = Mayor!Fondo
        /\ MontoCredito' = MontoCredito /\ pendientes' = pendientes
    BY <1>t, <1>7, AmbienteCuenta
  <2> QED BY <1>3, <1>5, <2>1
<1>8. ASSUME NEW s \in Sesiones, PasoSesion(s) PROVE EnTransito'
  BY <1>1, <1>4, <1>8, Zenon
<1> QED BY <1>6, <1>7, <1>8, Zenon

\* what a step that records none of them has not done
LEMMA SinCausa ==
  ASSUME IInvCausas, [NextCausas]_varsCausas, causas' \cap Duplican = {}
  PROVE  /\ [Next]_vars /\ causas \subseteq causas' /\ causas \cap Duplican = {}
         /\ ~ CacheVieja' /\ SolapadasCallan
         /\ causas' = {} => /\ EnTransito /\ \A s \in Sesiones : ~ ses'[s].solapada
                            /\ \A s \in Sesiones : Acaba(s) => Escrita(s)
<1>1. CASE NextCausas
  <2>1. Next /\ Anotar
    BY <1>1 DEF NextCausas
  <2>2. causas' = causas \cup {c \in Causas : Sucede[c]}
    BY <2>1 DEF Anotar
  <2>3. causas \cap Duplican = {} /\ causas \subseteq causas'
    BY <2>2
  <2>4. \A c \in Causas : c \notin causas' => ~ Sucede[c]
    BY <2>2
  <2>5. /\ "pisada" \notin causas' => ~ Sucede.pisada
        /\ "rellenada" \notin causas' => ~ Sucede.rellenada
        /\ "olvidada" \notin causas' => ~ Sucede.olvidada
        /\ causas' = {} => ~ Sucede.solapada /\ ~ Sucede.sinDeuda /\ ~ Sucede.muerte
    BY <2>4 DEF Causas
  <2>6. "pisada" \notin causas' /\ "rellenada" \notin causas' /\ "olvidada" \notin causas'
    BY DEF Duplican
  <2>7. ~ CacheVieja
    BY <2>3 DEF IInvCausas, Cubierta
  <2>8. ~ CacheVieja'
    BY <2>5, <2>6, <2>7 DEF Sucede
  <2>9. SolapadasCallan
    <3>1. ~ Pisa
      BY <2>5, <2>6 DEF Sucede
    <3> QED BY <3>1 DEF Pisa, SolapadasCallan
  <2>10. ASSUME causas' = {}
         PROVE  /\ EnTransito /\ \A s \in Sesiones : ~ ses'[s].solapada
                /\ \A s \in Sesiones : Acaba(s) => Escrita(s)
    <3>1. EnTransito
      BY <2>3, <2>10 DEF IInvCausas, Exacta, EnTransito
    <3>2. ~ (\E s \in Sesiones : ses'[s].solapada)
          /\ ~ (\E s \in Sesiones : Acaba(s) /\ Sobra(s))
          /\ ~ (\E s \in Sesiones : Acaba(s) /\ ~ Sobra(s) /\ ~ Escrita(s))
      BY <2>5, <2>10 DEF Sucede
    <3> QED BY <3>1, <3>2
  <2> QED BY <2>1, <2>3, <2>8, <2>9, <2>10
<1>2. CASE UNCHANGED varsCausas
  <2>1. UNCHANGED vars /\ causas' = causas /\ ses' = ses
    BY <1>2 DEF varsCausas, vars
  <2>2. ~ CacheVieja
    BY <2>1 DEF IInvCausas, Cubierta
  <2>3. ~ CacheVieja'
    BY <2>1, <2>2 DEF CacheVieja, MontoCredito, vars
  <2>4. causas' = {} => EnTransito
    BY <2>1 DEF IInvCausas, Exacta, EnTransito
  <2> QED BY <2>1, <2>3, <2>4 DEF SolapadasCallan, EnTransito, Acaba
<1> QED BY <1>1, <1>2

LEMMA PreciosPaso ==
  ASSUME IInv, TypeOK', Finitos, Precios, [Next]_vars
  PROVE  Precios'
<1>1. ASSUME NEW s \in Sesiones, PasoSesion(s) PROVE Precios'
  BY <1>1, SinAceptar, AceptarCuenta
<1>2. ASSUME NEW r \in Recibos, NEW m \in MontosRecibo, EmitirRecibo(r, m) PROVE Precios'
  BY <1>2 DEF EmitirRecibo, Precios
<1> QED BY <1>1, <1>2, AmbienteCuenta

LEMMA CausasPaso ==
  ASSUME Finitos, IInvContable, IInvCausas, [NextCausas]_varsCausas
  PROVE  /\ IInvContable' /\ IInvCausas'
         /\ causas' \cap Duplican = {} => [Mayor!Next]_(Mayor!cuentas)
<1>1. [Next]_vars
  BY DEF NextCausas, varsCausas, vars
<1>2. IInvContable' /\ TypeOK' /\ IInv /\ Solape /\ Precios
  BY <1>1, ContablePaso DEF IInvContable, IInv, IInvCausas
<1>3. causas' \subseteq Causas
  BY DEF IInvCausas, NextCausas, Anotar, varsCausas
<1>4. Precios'
  BY <1>1, <1>2, PreciosPaso
<1>5. ASSUME causas' \cap Duplican = {}
      PROVE  /\ [Mayor!Next]_(Mayor!cuentas) /\ Cubierta'
             /\ causas' = {} => EnTransito'
  <2>1. /\ causas \cap Duplican = {} /\ ~ CacheVieja' /\ SolapadasCallan
        /\ causas' = {} => /\ EnTransito /\ \A s \in Sesiones : ~ ses'[s].solapada
                           /\ \A s \in Sesiones : Acaba(s) => Escrita(s)
    BY <1>5, SinCausa
  <2>2. ~ CacheVieja /\ Mayor!Fondo \in Nat /\ Solas
    BY <2>1 DEF IInvCausas, Cubierta, Solas
  <2>3. [Mayor!Next]_(Mayor!cuentas) /\ (Mayor!Fondo)' \in Nat /\ Solas'
    BY <1>1, <1>2, <2>1, <2>2, LibrePaso
  <2>4. Cubierta'
    BY <2>1, <2>3 DEF Cubierta, Solas
  <2>5. causas' = {} => EnTransito'
    BY <1>1, <1>2, <2>1, <2>2, TransitoPaso
  <2> QED BY <2>3, <2>4, <2>5
<1>6. Cubierta'
  BY <1>5 DEF Cubierta
<1>7. Exacta'
  BY <1>5 DEF Exacta, EnTransito
<1> QED BY <1>2, <1>3, <1>4, <1>5, <1>6, <1>7 DEF IInvCausas

LEMMA CausasInicio == ASSUME Finitos, InitCausas PROVE IInvContable /\ IInvCausas
<1>1. Init /\ causas = {} /\ IInvContable
  BY ContableInicio DEF InitCausas
<1>2. Mayor!Fondo = 0 /\ Precios /\ \A s \in Sesiones : ses[s] = Inactiva
  BY <1>1, MayorInicio
<1>3. ~ CacheVieja
  BY <1>1 DEF Init, CacheVieja
<1>4. Inactiva.pago = NoPago /\ Inactiva.solapada = FALSE
  BY DEF Inactiva
<1> QED BY <1>1, <1>2, <1>3, <1>4 DEF IInvCausas, Cubierta, Exacta

LEMMA CausasInductivo ==
  ASSUME IsFiniteSet(Recibos), IsFiniteSet(Pagos)
  PROVE  SpecCausas => [](IInvContable /\ IInvCausas)
<1>1. InitCausas => IInvContable /\ IInvCausas
  BY CausasInicio DEF Finitos
<1>2. IInvContable /\ IInvCausas /\ [NextCausas]_varsCausas => IInvContable' /\ IInvCausas'
  BY CausasPaso DEF Finitos
<1> QED BY <1>1, <1>2, PTL DEF SpecCausas

\* Requests may overlap, die or fail: every step keeps the accounts of LibroMayor
\* until an overlapping acceptance writes or an outdated credit stays in the cache.
THEOREM LibroHastaQueAlgoPasa ==
  ASSUME IsFiniteSet(Recibos), IsFiniteSet(Pagos)
  PROVE  SpecCausas => LibroSalvoCausas
<1>1. IInvContable /\ IInvCausas /\ [NextCausas]_varsCausas
        => (causas' \cap Duplican = {} => [Mayor!Next]_(Mayor!cuentas))
  BY CausasPaso DEF Finitos
<1>2. IInvContable /\ IInvCausas /\ [NextCausas]_varsCausas
        => [causas' \cap Duplican = {} => [Mayor!Next]_(Mayor!cuentas)]_varsCausas
  BY <1>1
<1> QED BY <1>2, CausasInductivo, PTL DEF SpecCausas, LibroSalvoCausas

\* As long as nothing of it has happened, nobody finds money missing: with no request
\* in flight, receipts and credit hold all that was paid in.
THEOREM TodoCuadraSiNadaPasa ==
  ASSUME IsFiniteSet(Recibos), IsFiniteSet(Pagos)
  PROVE  SpecCausas => []TodoCuadra
<1>1. IInvContable /\ IInvCausas => TodoCuadra
  <2> SUFFICES ASSUME IInvContable, IInvCausas, causas = {}, EnVuelo = {} PROVE Mayor!Fondo = 0
    BY DEF TodoCuadra
  <2>1. \A s \in Sesiones : ses[s].pago = NoPago
    BY DEF IInvContable, Solape, EnVuelo
  <2> QED BY <2>1 DEF IInvCausas, Exacta
<1> QED BY <1>1, CausasInductivo, PTL
(***************************************************************************)
(* The report of the apartment.  What a step of the acceptances does to    *)
(* the balances and to the credit.                                         *)
(***************************************************************************)
LEMMA SaldoReciboTipo ==
  ASSUME NEW doc \in Recibo \cup {NoExiste}
  PROVE  saldoRecibo(doc) \in Nat
BY CentinelasAssumption DEF saldoRecibo, TieneSaldo, Saldo, Recibo

LEMMA SaldosTipo ==
  ASSUME TypeOK
  PROVE  \A r \in Recibos : saldos[r] = saldoRecibo(recibos[r]) /\ saldos[r] \in Nat
BY SaldoReciboTipo DEF saldos, TypeOK

LEMMA SaldosTipoTras ==
  ASSUME TypeOK'
  PROVE  \A r \in Recibos : saldos'[r] = saldoRecibo(recibos'[r]) /\ saldos'[r] \in Nat
BY SaldoReciboTipo DEF saldos, TypeOK

\* only receipts that are issued, and overlapping acceptances, make a debt grow
LEMMA SaldosBajan ==
  ASSUME IInvContable, [Next]_vars, ~ Emision, ~ Solapada, NEW q \in Recibos
  PROVE  saldoRecibo(recibos'[q]) <= saldoRecibo(recibos[q])
<1>t. IInv /\ TypeOK /\ Solape /\ IInv' /\ TypeOK'
  BY ContablePaso DEF IInvContable, IInv
<1>1. saldoRecibo(recibos[q]) \in Nat
  BY <1>t, SaldoReciboTipo DEF TypeOK
<1>2. CASE recibos'[q] = recibos[q]
  BY <1>1, <1>2
<1>3. ASSUME NEW r \in Recibos, NEW m \in MontosRecibo, EmitirRecibo(r, m) PROVE FALSE
  <2>1. recibos[r] = NoExiste /\ recibos'[r] # NoExiste
    <3> DEFINE doc == [montoUsd |-> m, montoPagado |-> 0, abonos |-> <<>>, estado |-> "pendiente"]
    <3>1. doc \in Recibo
      BY MontosAssumption DEF Recibo
    <3> HIDE DEF doc
    <3>2. recibos[r] = NoExiste /\ recibos'[r] = doc
      BY <1>t, <1>3 DEF EmitirRecibo, TypeOK, doc
    <3> QED BY <3>1, <3>2, CentinelasAssumption
  <2> QED BY <2>1 DEF Emision
<1>4. ASSUME NEW s \in Sesiones, NEW r \in Recibos, EscribirRecibo(s, r)
      PROVE  saldoRecibo(recibos'[q]) <= saldoRecibo(recibos[q])
  <2>1. CASE ses[s].solapada
    <3>1. ses'[s] # ses[s]
      BY <1>t, <1>4, AlEscribir
    <3>2. recibos' = recibos
      BY <2>1, <3>1 DEF Solapada
    <3> QED BY <1>1, <3>2
  <2>2. CASE ~ ses[s].solapada /\ q = r
    <3>1. ses[s].copia[r] = recibos[r] /\ recibos[r] # NoExiste
      BY <1>t, <1>4, <2>2, AlEscribir DEF Solape
    <3>2. PICK monto \in Nat : recibos'[r].montoPagado = recibos[r].montoPagado + monto
      <4>1. \E monto \in Nat :
              /\ recibos'[r].montoPagado = ses[s].copia[r].montoPagado + monto
              /\ recibos'[r].abonos =
                   Append(ses[s].copia[r].abonos, [pago |-> ses[s].pago, monto |-> monto])
        BY <1>t, <1>4, AlEscribir, Zenon
      <4> QED BY <3>1, <4>1, Zenon
    <3>3. recibos'[r].montoUsd = recibos[r].montoUsd
      BY <1>t, <1>4 DEF EscribirRecibo, Fijar, TypeOK
    <3>4. recibos[r] \in Recibo /\ recibos'[r] \in Recibo \cup {NoExiste}
      BY <1>t, <3>1 DEF TypeOK
    <3> QED BY <2>2, <3>1, <3>2, <3>3, <3>4 DEF saldoRecibo, TieneSaldo, Saldo, Recibo
  <2>3. CASE q # r
    BY <1>t, <1>1, <1>4, <2>3, AlEscribir
  <2> QED BY <2>1, <2>2, <2>3
<1>5. ASSUME NEW s \in Sesiones, PasoSesion(s), \A r \in Recibos : ~ EscribirRecibo(s, r)
      PROVE  recibos' = recibos
  BY <1>t, <1>5, PasoDeSesion, AlAceptar, AlReleer
<1>6. ASSUME NEW p \in Pagos, Rechazar(p) \/ \E m \in MontosPago, ids \in Seleccion : CrearPago(p, m, ids)
      PROVE  recibos' = recibos
  BY <1>6 DEF Rechazar, CrearPago
<1>7. CASE ExpirarCache \/ UNCHANGED vars
  BY <1>1, <1>7 DEF ExpirarCache, vars
<1> QED BY <1>2, <1>3, <1>4, <1>5, <1>6, <1>7 DEF Next

LEMMA DeudaTipo ==
  ASSUME TypeOK, IsFiniteSet(Recibos), NEW S \in SUBSET Recibos
  PROVE  /\ Enteros(saldos, S) /\ IsFiniteSet(S)
         /\ Suma(saldos, S) \in Int
<1>1. Enteros(saldos, S)
  BY SaldosTipo DEF Enteros
<1>2. IsFiniteSet(S)
  BY FS_Subset
<1> QED BY <1>1, <1>2, SumaTipo

LEMMA DeudaBaja ==
  ASSUME IInvContable, IsFiniteSet(Recibos), [Next]_vars, ~ Emision, ~ Solapada, NEW S \in SUBSET Recibos
  PROVE  /\ Suma(saldos', S) <= Suma(saldos, S)
         /\ Suma(saldos', S) \in Int /\ Suma(saldos, S) \in Int
<1>t. TypeOK /\ TypeOK'
  BY ContablePaso DEF IInvContable, IInv
<1>1. \A r \in S : saldos'[r] <= saldos[r]
  BY <1>t, SaldosBajan, SaldosTipo, SaldosTipoTras
<1>2. Enteros(saldos, S) /\ IsFiniteSet(S)
  BY <1>t, DeudaTipo
<1>3. Enteros(saldos', S)
  BY <1>t, SaldosTipoTras DEF Enteros
<1> QED BY <1>1, <1>2, <1>3, SumaMonotona, SumaTipo

(***************************************************************************)
(* The steps of the report.                                                *)
(***************************************************************************)
LEMMA InformeInicio == InitCobro => IInvContable /\ IInvCobro
<1>1. ASSUME InitCobro PROVE TypeOKCobro
  BY <1>1, InicioInv, Forma DEF InitCobro, TypeOKCobro, Informe, SinPedir
<1> QED BY <1>1, ContableInicio DEF InitCobro, IInvCobro, CategoriaExplicada, SinPedir

LEMMA EmpezarInv ==
  ASSUME IsFiniteSet(Recibos), IInvCobro, EmpezarInforme
  PROVE  IInvCobro'
<1>t. TypeOK /\ informe \in Informe /\ UNCHANGED vars
  BY DEF IInvCobro, TypeOKCobro, EmpezarInforme
<1>1. /\ informe'.pc = "leyendo" /\ informe'.porLeer = Recibos /\ informe'.falta = TRUE
      /\ informe'.vistas = {CategoriaReal} /\ informe'.saldoBruto = 0
      /\ informe' \in Informe
  BY DEF EmpezarInforme, SinPedir, Informe, CategoriaReal, Categorias
<1>2. TypeOKCobro'
  BY <1>t, <1>1 DEF TypeOKCobro, TypeOK, vars
<1>3. saldos' = saldos /\ CategoriaReal' = CategoriaReal /\ MontoCredito' = MontoCredito
  BY <1>t DEF vars, saldos, CategoriaReal, Deuda, MontoCredito
<1>4. Suma(saldos, {}) = 0 /\ Suma(saldos, Recibos) \in Int /\ MontoCredito \in Nat
  BY <1>t, SumaVacia, DeudaTipo, MontoCreditoTipo
<1>5. "moroso" \notin informe'.vistas => Suma(saldos, Recibos) <= MontoCredito
  BY <1>1 DEF CategoriaReal, Deuda
<1>6. Recibos \ informe'.porLeer = {} /\ abonoPorLeer' = MontoCredito
  BY <1>1, <1>3 DEF abonoPorLeer
<1>7. Lectura'
  BY <1>1, <1>3, <1>4, <1>5, <1>6 DEF Lectura
<1> QED BY <1>1, <1>2, <1>7 DEF IInvCobro, CategoriaExplicada

LEMMA LeerReciboInv ==
  ASSUME IsFiniteSet(Recibos), IInvCobro, NEW r \in Recibos, LeerRecibo(r)
  PROVE  IInvCobro'
<1> DEFINE suma == informe.saldoBruto + saldoRecibo(recibos[r])
<1>t. TypeOK /\ informe \in Informe /\ UNCHANGED vars
  BY DEF IInvCobro, TypeOKCobro, LeerRecibo
<1>s. saldos[r] = saldoRecibo(recibos[r]) /\ saldos[r] \in Nat /\ suma \in Nat
  BY <1>t, SaldosTipo DEF Informe
<1>1. /\ informe.pc = "leyendo" /\ r \in informe.porLeer
      /\ informe' = [informe EXCEPT !.porLeer = @ \ {r}, !.saldoBruto = suma]
  BY DEF LeerRecibo
<1> HIDE DEF suma
<1>2. /\ informe'.pc = "leyendo" /\ informe'.porLeer = informe.porLeer \ {r}
      /\ informe'.saldoBruto = suma /\ informe'.falta = informe.falta
      /\ informe'.abonoUsd = informe.abonoUsd /\ informe'.vistas = informe.vistas
      /\ informe'.causas = informe.causas /\ informe' \in Informe
  BY <1>t, <1>s, <1>1 DEF Informe
<1>3. TypeOKCobro'
  BY <1>t, <1>2 DEF TypeOKCobro, TypeOK, vars
<1>4. saldos' = saldos /\ CategoriaReal' = CategoriaReal /\ MontoCredito' = MontoCredito
  BY <1>t DEF vars, saldos, CategoriaReal, Deuda, MontoCredito
<1>5. abonoPorLeer' = abonoPorLeer
  BY <1>2, <1>4 DEF abonoPorLeer
<1>6. ASSUME informe.causas = {} PROVE Lectura'
  <2> DEFINE leidos == Recibos \ informe.porLeer
  <2>1. Lectura /\ informe.porLeer \in SUBSET Recibos
    BY <1>t, <1>1, <1>6 DEF IInvCobro, Informe
  <2>2. /\ Suma(saldos, informe.porLeer) = saldos[r] + Suma(saldos, informe.porLeer \ {r})
        /\ Suma(saldos, informe.porLeer \ {r}) \in Int
    BY <1>t, <1>1, <2>1, DeudaTipo, SumaQuita
  <2>3. leidos \cup {r} \in SUBSET Recibos /\ (leidos \cup {r}) \ {r} = leidos
        /\ Recibos \ informe'.porLeer = leidos \cup {r}
    BY <1>1, <1>2
  <2>4. Suma(saldos, leidos \cup {r}) = saldos[r] + Suma(saldos, leidos)
        /\ Suma(saldos, leidos) \in Int
    <3> HIDE DEF leidos
    <3>1. leidos \in SUBSET Recibos /\ r \in leidos \cup {r}
      BY <2>3
    <3>2. Suma(saldos, leidos \cup {r}) = saldos[r] + Suma(saldos, (leidos \cup {r}) \ {r})
      BY <1>t, <2>3, <3>1, DeudaTipo, SumaQuita
    <3> QED BY <1>t, <2>3, <3>1, <3>2, DeudaTipo
  <2>5. informe.saldoBruto \in Nat /\ abonoPorLeer \in Nat
    BY <1>t, MontoCreditoTipo DEF Informe, abonoPorLeer
  <2>6. Suma(saldos, Recibos \ informe'.porLeer) <= informe'.saldoBruto
    <3>1. Suma(saldos, leidos) <= informe.saldoBruto
      BY <2>1 DEF Lectura
    <3>2. informe'.saldoBruto = informe.saldoBruto + saldos[r]
      BY <1>s, <1>2 DEF suma
    <3> HIDE DEF leidos
    <3>3. Suma(saldos, leidos \cup {r}) <= informe'.saldoBruto
      BY <1>s, <2>4, <2>5, <3>1, <3>2
    <3> QED BY <2>3, <3>3, Zenon
  <2>7. "moroso" \notin informe.vistas =>
          informe'.saldoBruto + Suma(saldos, informe'.porLeer) <= abonoPorLeer
    <3>1. "moroso" \notin informe.vistas =>
            informe.saldoBruto + Suma(saldos, informe.porLeer) <= abonoPorLeer
      BY <2>1 DEF Lectura
    <3> QED BY <1>s, <1>2, <2>2, <2>5, <3>1 DEF suma
  <2> QED BY <1>2, <1>4, <1>5, <2>1, <2>6, <2>7 DEF Lectura
<1> QED BY <1>2, <1>3, <1>6 DEF IInvCobro, CategoriaExplicada

LEMMA LeerCreditoInv ==
  ASSUME IInvCobro, LeerCredito
  PROVE  IInvCobro'
<1>t. TypeOK /\ informe \in Informe /\ UNCHANGED vars /\ MontoCredito \in Nat
  BY MontoCreditoTipo DEF IInvCobro, TypeOKCobro, LeerCredito
<1>1. /\ informe.pc = "leyendo" /\ informe.falta
      /\ informe' = [informe EXCEPT !.falta = FALSE, !.abonoUsd = MontoCredito]
  BY DEF LeerCredito
<1>2. /\ informe'.pc = "leyendo" /\ informe'.porLeer = informe.porLeer
      /\ informe'.saldoBruto = informe.saldoBruto /\ informe'.falta = FALSE
      /\ informe'.abonoUsd = MontoCredito /\ informe'.vistas = informe.vistas
      /\ informe'.causas = informe.causas /\ informe' \in Informe
  BY <1>t, <1>1 DEF Informe
<1>3. TypeOKCobro'
  BY <1>t, <1>2 DEF TypeOKCobro, TypeOK, vars
<1>4. saldos' = saldos /\ CategoriaReal' = CategoriaReal /\ MontoCredito' = MontoCredito
  BY <1>t DEF vars, saldos, CategoriaReal, Deuda, MontoCredito
<1>5. abonoPorLeer' = abonoPorLeer
  BY <1>1, <1>2, <1>4 DEF abonoPorLeer
<1>6. informe.causas = {} => Lectura'
  BY <1>1, <1>2, <1>4, <1>5 DEF Lectura, IInvCobro
<1> QED BY <1>2, <1>3, <1>6 DEF IInvCobro, CategoriaExplicada

LEMMA TerminarInv ==
  ASSUME IsFiniteSet(Recibos), IInvCobro, TerminarInforme
  PROVE  IInvCobro'
<1>t. TypeOK /\ informe \in Informe /\ UNCHANGED vars /\ MontoCredito \in Nat
  BY MontoCreditoTipo DEF IInvCobro, TypeOKCobro, TerminarInforme
<1>1. /\ informe.pc = "leyendo" /\ informe.porLeer = {} /\ ~ informe.falta
      /\ informe' = [informe EXCEPT !.pc = "listo"]
  BY DEF TerminarInforme
<1>2. /\ informe'.pc = "listo" /\ informe'.porLeer = {} /\ ~ informe'.falta
      /\ informe'.saldoBruto = informe.saldoBruto /\ informe'.abonoUsd = informe.abonoUsd
      /\ informe'.vistas = informe.vistas
      /\ informe'.causas = informe.causas /\ informe' \in Informe
  BY <1>t, <1>1 DEF Informe
<1>3. TypeOKCobro'
  BY <1>t, <1>2 DEF TypeOKCobro, TypeOK, vars
<1>4. ASSUME informe.causas = {} PROVE categoria' \in informe.vistas
  <2>1. Lectura /\ informe.saldoBruto \in Nat /\ informe.abonoUsd \in Nat
    BY <1>t, <1>1, <1>4 DEF IInvCobro, Informe
  <2>2. /\ CategoriaReal \in informe.vistas
        /\ Deuda <= informe.saldoBruto /\ informe.abonoUsd <= MontoCredito
        /\ "moroso" \notin informe.vistas => informe.saldoBruto <= informe.abonoUsd
        /\ Deuda \in Int
    <3>1. Recibos \ informe.porLeer = Recibos /\ Suma(saldos, informe.porLeer) = 0
          /\ abonoPorLeer = informe.abonoUsd
      BY <1>1, SumaVacia DEF abonoPorLeer
    <3>2. Suma(saldos, Recibos) \in Int
      BY <1>t, DeudaTipo
    <3> QED BY <2>1, <3>1, <3>2 DEF Lectura, Deuda
  <2>3. categoria' = IF informe.saldoBruto <= informe.abonoUsd THEN "al_dia" ELSE "moroso"
    BY <1>2, <2>1 DEF categoria, clasificarApartamento, calcularSaldoNeto, Menor
  <2>4. CASE informe.saldoBruto <= informe.abonoUsd
    <3>1. CategoriaReal = "al_dia"
      BY <1>t, <2>1, <2>2, <2>4 DEF CategoriaReal
    <3> QED BY <2>2, <2>3, <2>4, <3>1
  <2>5. CASE ~ (informe.saldoBruto <= informe.abonoUsd)
    BY <2>2, <2>3, <2>5
  <2> QED BY <2>4, <2>5
<1> QED BY <1>2, <1>3, <1>4 DEF IInvCobro, CategoriaExplicada

LEMMA ObservarInv ==
  ASSUME IsFiniteSet(Recibos), IInvContable, IInvCobro, [Next]_vars, Observar
  PROVE  IInvCobro'
<1>t. /\ TypeOK /\ TypeOK' /\ informe \in Informe
      /\ MontoCredito \in Nat /\ MontoCredito' \in Nat
  <2>1. TypeOK /\ TypeOK' /\ informe \in Informe
    BY ContablePaso DEF IInvCobro, TypeOKCobro, IInvContable, IInv
  <2> QED BY <2>1 DEF TypeOK, MontoCredito
<1>1. CASE informe.pc # "leyendo"
  <2>1. informe' = informe
    BY <1>1 DEF Observar
  <2>2. TypeOKCobro'
    BY <1>t, <2>1 DEF IInvCobro, TypeOKCobro
  <2>3. categoria' = categoria
    BY <2>1 DEF categoria
  <2> QED BY <1>1, <2>1, <2>2, <2>3 DEF IInvCobro, CategoriaExplicada
<1>2. CASE informe.pc = "leyendo"
  <2> DEFINE razones == informe.causas \cup (IF Emision THEN {"emision"} ELSE {})
                                      \cup (IF Consumo THEN {"consumo"} ELSE {})
                                      \cup (IF Solapada THEN {"solapada"} ELSE {})
             vistas == informe.vistas \cup {CategoriaReal'}
  <2>1. informe' = [informe EXCEPT !.vistas = vistas, !.causas = razones]
    BY <1>2 DEF Observar
  <2>2. /\ vistas \in SUBSET Categorias /\ razones \in SUBSET {"emision", "consumo", "solapada"}
        /\ razones = {} => informe.causas = {} /\ ~ Emision /\ ~ Consumo /\ ~ Solapada
    BY <1>t DEF Informe, CategoriaReal, Categorias
  <2>3. CategoriaReal' \in vistas /\ informe.vistas \subseteq vistas
    OBVIOUS
  <2> HIDE DEF vistas, razones
  <2>4. /\ informe'.pc = "leyendo" /\ informe'.porLeer = informe.porLeer
        /\ informe'.saldoBruto = informe.saldoBruto /\ informe'.falta = informe.falta
        /\ informe'.abonoUsd = informe.abonoUsd /\ informe'.vistas = vistas
        /\ informe'.causas = razones /\ informe' \in Informe
    BY <1>t, <1>2, <2>1, <2>2 DEF Informe
  <2>5. TypeOKCobro'
    BY <1>t, <2>4 DEF TypeOKCobro
  <2>6. ASSUME razones = {} PROVE Lectura'
    <3>1. Lectura /\ ~ Emision /\ ~ Consumo /\ ~ Solapada
      BY <1>2, <2>2, <2>6 DEF IInvCobro
    <3>2. MontoCredito <= MontoCredito'
      BY <1>t, <3>1 DEF Consumo
    <3>3. /\ informe.saldoBruto \in Nat /\ informe.abonoUsd \in Nat
          /\ informe.porLeer \in SUBSET Recibos /\ Recibos \ informe.porLeer \in SUBSET Recibos
      BY <1>t DEF Informe
    <3>4. /\ Suma(saldos', informe.porLeer) <= Suma(saldos, informe.porLeer)
          /\ Suma(saldos', informe.porLeer) \in Int /\ Suma(saldos, informe.porLeer) \in Int
      BY <3>1, <3>3, DeudaBaja
    <3>5. LET S == Recibos \ informe.porLeer
          IN  /\ Suma(saldos', S) <= Suma(saldos, S)
              /\ Suma(saldos', S) \in Int /\ Suma(saldos, S) \in Int
      BY <3>1, <3>3, DeudaBaja
    <3>6. /\ abonoPorLeer \in Nat /\ abonoPorLeer <= abonoPorLeer'
          /\ abonoPorLeer' <= MontoCredito' /\ abonoPorLeer' \in Nat
      BY <1>t, <2>4, <3>1, <3>2, <3>3 DEF Lectura, abonoPorLeer
    <3>7. Suma(saldos', Recibos \ informe'.porLeer) <= informe'.saldoBruto
      BY <2>4, <3>1, <3>3, <3>5 DEF Lectura
    <3>8. "moroso" \notin vistas =>
            informe'.saldoBruto + Suma(saldos', informe'.porLeer) <= abonoPorLeer'
      BY <2>3, <2>4, <3>1, <3>3, <3>4, <3>6 DEF Lectura
    <3> QED BY <2>3, <2>4, <3>6, <3>7, <3>8 DEF Lectura
  <2> QED BY <2>4, <2>5, <2>6 DEF IInvCobro, CategoriaExplicada
<1> QED BY <1>1, <1>2

LEMMA InformeInductivo ==
  ASSUME IsFiniteSet(Recibos)
  PROVE  SpecCobro => [](IInvContable /\ IInvCobro)
<1>1. ASSUME IInvContable, IInvCobro, [NextCobro]_varsCobro
      PROVE  IInvContable' /\ IInvCobro'
  <2>1. [Next]_vars
    BY <1>1 DEF NextCobro, EmpezarInforme, LeerRecibo, LeerCredito, TerminarInforme, varsCobro
  <2>2. IInvContable'
    BY <1>1, <2>1, ContablePaso
  <2>3. ASSUME UNCHANGED <<vars, informe>> PROVE IInvCobro'
    <3>1. informe.pc # "leyendo" => Observar
      BY <2>3 DEF Observar
    <3>2. TypeOKCobro' /\ CategoriaExplicada'
      BY <1>1, <2>3 DEF IInvCobro, TypeOKCobro, TypeOK, vars, CategoriaExplicada, categoria
    <3>3. saldos' = saldos /\ CategoriaReal' = CategoriaReal /\ MontoCredito' = MontoCredito
      BY <2>3 DEF vars, saldos, CategoriaReal, Deuda, MontoCredito
    <3>4. Lectura => Lectura'
      BY <2>3, <3>3 DEF Lectura, abonoPorLeer
    <3> QED BY <1>1, <2>3, <3>2, <3>4 DEF IInvCobro
  <2>4. IInvCobro'
    BY <1>1, <2>3, EmpezarInv, LeerReciboInv, LeerCreditoInv, TerminarInv, ObservarInv
       DEF NextCobro, varsCobro
  <2> QED BY <2>2, <2>4
<1> QED BY <1>1, InformeInicio, PTL DEF SpecCobro

\* A report keeps its types, and has read everything when it is done.
THEOREM InformeTipado ==
  ASSUME IsFiniteSet(Recibos)
  PROVE  SpecCobro => []TypeOKCobro
<1>1. IInvCobro => TypeOKCobro
  BY DEF IInvCobro
<1> QED BY <1>1, InformeInductivo, PTL

\* Although nothing it reads is a snapshot, the category a report answers is one the
\* apartment has been in, unless one of the named causes came between.
THEOREM CategoriaSeExplica ==
  ASSUME IsFiniteSet(Recibos)
  PROVE  SpecCobro => []CategoriaExplicada
<1>1. IInvCobro => CategoriaExplicada
  BY DEF IInvCobro
<1> QED BY <1>1, InformeInductivo, PTL
=============================================================================
