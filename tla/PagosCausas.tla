---------------------------- MODULE PagosCausas ----------------------------
(***************************************************************************)
(* The accounts of an apartment when requests do overlap and die.          *)
(* PagosContables shows that an acceptance served alone keeps LibroMayor;  *)
(* here the sessions of Pagos run freely, and a history variable records   *)
(* what has happened that may make money appear or be lost.                *)
(***************************************************************************)
EXTENDS PagosContables

VARIABLE causas   \* history: what has happened of the following

\* the step is one of an acceptance that has overlapped another one, and writes
\* a receipt or the credit: by values computed from what it has read before
Pisa ==
  \E s \in Sesiones : ses[s].solapada /\ ses'[s] # ses[s] /\ <<recibos, credito>>' # <<recibos, credito>>

\* the cached credit is not the stored one, and nobody is about to delete it
CacheVieja ==
  /\ cacheAbono \notin {NoCache, MontoCredito}
  /\ \A s \in Sesiones : ses[s].pc # "invalidar"

\* an acceptance found nothing to pay, and ended
Sobra(s) == ses[s].pc = "deuda" /\ ses[s].porLeer = {} /\ ses[s].deuda = 0

\* an acceptance has written all it was going to write
Escrita(s) == ses[s].pc = "bulk" /\ ses[s].porLeer = {} /\ PorEscribir(s) = {}

Acaba(s) == ses[s].pago # NoPago /\ ses'[s].pago = NoPago

\* what may make money appear
Duplican == {"pisada", "rellenada", "olvidada"}

Sucede ==
  [solapada  |-> \E s \in Sesiones : ses'[s].solapada,
   pisada    |-> Pisa,
   rellenada |-> ~CacheVieja /\ CacheVieja' /\ cacheAbono' # cacheAbono,
   olvidada  |-> ~CacheVieja /\ CacheVieja' /\ cacheAbono' = cacheAbono,
   sinDeuda  |-> \E s \in Sesiones : Acaba(s) /\ Sobra(s),
   muerte    |-> \E s \in Sesiones : Acaba(s) /\ ~Sobra(s) /\ ~Escrita(s)]

Causas == {"solapada", "pisada", "rellenada", "olvidada", "sinDeuda", "muerte"}

\* after a cause that voids both properties, nothing more is recorded
Anotar ==
  causas' = IF causas \cap Duplican # {} THEN causas
            ELSE causas \cup {c \in Causas : Sucede[c]}

InitCausas == Init /\ causas = {}
NextCausas == Next /\ Anotar
varsCausas == <<vars, causas>>
SpecCausas == InitCausas /\ [][NextCausas]_varsCausas
-----------------------------------------------------------------------------
\* Whatever overlaps, dies or fails, every step keeps the accounts of LibroMayor,
\* so that receipts and credit never hold more than was paid in, as long as no
\* overlapping acceptance has written and no outdated credit stays in the cache.
LibroSalvoCausas ==
  [][causas' \cap Duplican = {} => [Mayor!Next]_(Mayor!cuentas)]_varsCausas

\* And nothing is lost: with no request in flight all that was paid in is on a
\* receipt or in the credit, unless an acceptance found nothing owed, died, or
\* overlapped another one.
TodoCuadra == causas = {} /\ EnVuelo = {} => Mayor!Fondo = 0
-----------------------------------------------------------------------------
(***************************************************************************)
(* The inductive invariant.  Cubierta: an acceptance that is alone has     *)
(* what it believes to have, and the money for it is there.  Exacta: when  *)
(* nothing at all has happened, that is all the money that is on its way,  *)
(* and the receipts it may still write take all that it has to apply.      *)
(***************************************************************************)
Cubierta ==
  causas \cap Duplican = {} =>
    /\ ~ CacheVieja
    /\ Mayor!Fondo \in Nat
    /\ \A s \in Sesiones : ses[s].pago # NoPago /\ ~ ses[s].solapada => EnSola(s)

pendientes ==
  [r \in Recibos |-> IF TieneSaldo(recibos[r]) THEN Saldo(recibos[r]) ELSE 0]

\* what is owed on the receipts it is still to write, pend by receipt, is enough
Alcanza(pend, sesion) ==
  IF sesion.pc \in PorCalcular
  THEN /\ sesion.porLeer \subseteq sesion.objetivo
       /\ sesion.deuda <= Suma(pend, sesion.objetivo \ sesion.porLeer)
  ELSE IF sesion.pc = "bulk"
  THEN sesion.resto <=
         Suma(pend, sesion.porLeer \cup {r \in Recibos : sesion.copia[r] # NoExiste})
  ELSE sesion.resto <= Suma(pend, sesion.objetivo)

Exacta ==
  causas = {} =>
    /\ \A s \in Sesiones : ~ ses[s].solapada
    /\ \A s \in Sesiones : ses[s].pago # NoPago =>
         EnMano(pagos, ses[s]) = Mayor!Fondo /\ Alcanza(pendientes, ses[s])
    /\ (\A s \in Sesiones : ses[s].pago = NoPago) => Mayor!Fondo = 0

IInvCausas == causas \subseteq Causas /\ Precios /\ Cubierta /\ Exacta
=============================================================================
