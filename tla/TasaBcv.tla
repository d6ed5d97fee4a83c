------------------------------ MODULE TasaBcv ------------------------------
(***************************************************************************)
(* The exchange rate: TasaBcvService.getTasa and getTasaPorFecha ask       *)
(* DolarAPI, keep the answer in the cache and, in each instance, let the   *)
(* callers of a key share one request through the table pendingPromises.   *)
(*                                                                         *)
(* Time is counted in days of Venezuela.  A rate is the day it is of: what *)
(* it amounts to matters to nobody here.  An action is what the code does  *)
(* between two awaits.                                                     *)
(***************************************************************************)
EXTENDS Integers, FiniteSets, FiniteSetsExt

CONSTANTS
  Servidores,       \* processes of the server, which share Redis
  Llamadas,         \* calls that may be in progress together
  MaxDia,           \* bound: the last day
  Fechas,           \* the days getTasaPorFecha is asked for
  MaxDiasHistoria,  \* MAX_DAYS_HISTORY, 7 in the code
  TasaConFallos,    \* DolarAPI and Redis may fail, an instance may die
  Ninguna

\* what the constants must satisfy
TasaAssumption ==
  /\ MaxDia \in Nat
  /\ Fechas \subseteq 0 .. MaxDia
  /\ MaxDiasHistoria \in Nat \ {0}
  /\ TasaConFallos \in BOOLEAN
  /\ Ninguna \notin Int \cup Servidores \cup Llamadas

Dias == 0 .. MaxDia
\* key of getTasa or of getTasaPorFecha, and its day
ClavesTasa == ({"hoy"} \X Dias) \cup ({"fecha"} \X Fechas)

\* conocidas is history: the rates published when the call began, or when the call
\* whose request it shares did.
PasosTasa == {"inactiva", "leer", "borrar", "mirar", "pidiendo", "guardar", "soltar", "esperando",
          "respondida"}
Llamada == [pc : PasosTasa, inst : Servidores \cup {Ninguna}, clave : ClavesTasa \cup {Ninguna},
            tasa : Dias \cup {Ninguna}, promesa : Llamadas \cup {Ninguna}, conocidas : SUBSET Dias]
SinLlamada == [pc |-> "inactiva", inst |-> Ninguna, clave |-> Ninguna, tasa |-> Ninguna,
               promesa |-> Ninguna, conocidas |-> {}]

VARIABLES
  hoy,
  publicadas,    \* days whose rate DolarAPI has
  cacheTasa,     \* Redis
  pendientes,    \* pendingPromises of each instance: the call that asks for a key
  llamada,
  provisionales  \* history: days that were asked for before their rate was there

varsTasa == <<hoy, publicadas, cacheTasa, pendientes, llamada, provisionales>>

TypeOKTasa ==
  /\ hoy \in Dias
  /\ publicadas \subseteq Dias
  /\ cacheTasa \in [ClavesTasa -> Dias \cup {Ninguna}]
  /\ pendientes \in [Servidores -> [ClavesTasa -> Llamadas \cup {Ninguna}]]
  /\ llamada \in [Llamadas -> Llamada]
  /\ \A c \in Llamadas : llamada[c].pc \in {"guardar", "soltar", "respondida"} =>
       llamada[c].tasa # Ninguna
  /\ provisionales \subseteq Dias

InitTasa ==
  /\ hoy = 0
  /\ publicadas = {0}
  /\ cacheTasa = [k \in ClavesTasa |-> Ninguna]
  /\ pendientes = [i \in Servidores |-> [k \in ClavesTasa |-> Ninguna]]
  /\ llamada = [c \in Llamadas |-> SinLlamada]
  /\ provisionales = {}

Poner(c, r) == llamada' = [llamada EXCEPT ![c] = r]
Pasar(c, pc) == Poner(c, [llamada[c] EXCEPT !.pc = pc])

(***************************************************************************)
(* The world: days pass, some of them without a rate of their own; the     *)
(* rate of tomorrow may be published in the evening; entries expire.       *)
(***************************************************************************)

Amanecer ==
  /\ hoy < MaxDia
  /\ hoy' = hoy + 1
  /\ UNCHANGED <<publicadas, cacheTasa, pendientes, llamada, provisionales>>

Publicar(d) ==
  /\ d > Max(publicadas)
  /\ d <= hoy + 1
  /\ publicadas' = publicadas \cup {d}
  /\ UNCHANGED <<hoy, cacheTasa, pendientes, llamada, provisionales>>

ExpirarTasa(k) ==
  /\ cacheTasa[k] # Ninguna
  /\ cacheTasa' = [cacheTasa EXCEPT ![k] = Ninguna]
  /\ UNCHANGED <<hoy, publicadas, pendientes, llamada, provisionales>>

(***************************************************************************)
(* A call, up to the answer or the request.                                *)
(***************************************************************************)

Llamar(c, i, k) ==
  /\ llamada[c].pc = "inactiva"
  /\ k[1] = "hoy" => k[2] = hoy
  /\ Poner(c, [SinLlamada EXCEPT !.pc = "leer", !.inst = i, !.clave = k,
                              !.conocidas = publicadas])
  /\ UNCHANGED <<hoy, publicadas, cacheTasa, pendientes, provisionales>>

\* the rate of today is taken from the cache only when it is of today
Vale(k, tasa) == k[1] = "hoy" => tasa = k[2]

\* get; an error of Redis is a miss
LeerTasa(c) ==
  /\ llamada[c].pc = "leer"
  /\ LET tasa == cacheTasa[llamada[c].clave]
     IN \/ /\ tasa # Ninguna
           /\ IF Vale(llamada[c].clave, tasa)
              THEN Poner(c, [llamada[c] EXCEPT !.pc = "respondida", !.tasa = tasa])
              ELSE Pasar(c, "borrar")
        \/ (tasa = Ninguna \/ TasaConFallos) /\ Pasar(c, "mirar")
  /\ UNCHANGED <<hoy, publicadas, cacheTasa, pendientes, provisionales>>

BorrarVieja(c) ==
  /\ llamada[c].pc = "borrar"
  /\ \/ cacheTasa' = [cacheTasa EXCEPT ![llamada[c].clave] = Ninguna]
     \/ TasaConFallos /\ UNCHANGED cacheTasa
  /\ Pasar(c, "mirar")
  /\ UNCHANGED <<hoy, publicadas, pendientes, provisionales>>

\* no await between the look at the table and the entry made in it
Mirar(c) ==
  /\ llamada[c].pc = "mirar"
  /\ LET i == llamada[c].inst
         k == llamada[c].clave
         d == pendientes[i][k]
     IN IF d # Ninguna
        THEN /\ Poner(c, [llamada[c] EXCEPT !.pc = "esperando", !.promesa = d,
                                            !.conocidas = @ \cap llamada[d].conocidas])
             /\ UNCHANGED pendientes
        ELSE /\ pendientes' = [pendientes EXCEPT ![i][k] = c]
             /\ Pasar(c, "pidiendo")
  /\ UNCHANGED <<hoy, publicadas, cacheTasa, provisionales>>

(***************************************************************************)
(* The request.                                                            *)
(***************************************************************************)

\* Faulty variants (here and below, defined before what they stand in for): each
\* is a slip the code could have, and breaks one of the properties.
HistoricasDesdeLaVispera(f) == {d \in publicadas : d < f /\ d > f - MaxDiasHistoria}

\* the days the walk back from f meets
Historicas(f) == {d \in publicadas : d <= f /\ d > f - MaxDiasHistoria}

\* what DolarAPI's answer says about key k: at most one rate
Obtenidas(k) ==
  LET candidatas == IF k[1] = "hoy" THEN publicadas ELSE Historicas(k[2])
  IN IF candidatas = {} THEN {} ELSE {Max(candidatas)}

RecibirTasa(c, tasa) ==
  /\ llamada[c].pc = "pidiendo"
  /\ tasa \in Obtenidas(llamada[c].clave)
  /\ Poner(c, [llamada[c] EXCEPT !.pc = "guardar", !.tasa = tasa])
  /\ provisionales' =
       IF llamada[c].clave[1] = "fecha" /\ llamada[c].clave[2] \notin publicadas
       THEN provisionales \cup {llamada[c].clave[2]} ELSE provisionales
  /\ UNCHANGED <<hoy, publicadas, cacheTasa, pendientes>>

\* set, for an hour or for a week; an error of Redis is swallowed
Guardar(c) ==
  /\ llamada[c].pc = "guardar"
  /\ \/ cacheTasa' = [cacheTasa EXCEPT ![llamada[c].clave] = llamada[c].tasa]
     \/ TasaConFallos /\ UNCHANGED cacheTasa
  /\ Pasar(c, "soltar")
  /\ UNCHANGED <<hoy, publicadas, pendientes, provisionales>>

\* The promise of c settles, for everyone who waits for it.
Cumplir(c, pc) ==
  llamada' = [d \in Llamadas |->
    IF d = c \/ llamada[d].promesa = c
    THEN IF pc = "inactiva" THEN SinLlamada
         ELSE [llamada[d] EXCEPT !.pc = pc, !.tasa = llamada[c].tasa, !.promesa = Ninguna]
    ELSE llamada[d]]
SinPendiente(c) == [pendientes EXCEPT ![llamada[c].inst][llamada[c].clave] = Ninguna]

Soltar(c) ==
  /\ llamada[c].pc = "soltar"
  /\ pendientes' = SinPendiente(c)
  /\ Cumplir(c, "respondida")
  /\ UNCHANGED <<hoy, publicadas, cacheTasa, provisionales>>

RechazarSinBorrar(c) ==
  /\ llamada[c].pc = "pidiendo"
  /\ TasaConFallos \/ Obtenidas(llamada[c].clave) = {}
  /\ Cumplir(c, "inactiva")
  /\ UNCHANGED <<hoy, publicadas, cacheTasa, pendientes, provisionales>>
RechazarSinAvisar(c) ==
  /\ llamada[c].pc = "pidiendo"
  /\ TasaConFallos \/ Obtenidas(llamada[c].clave) = {}
  /\ pendientes' = SinPendiente(c)
  /\ Poner(c, SinLlamada)
  /\ UNCHANGED <<hoy, publicadas, cacheTasa, provisionales>>

\* catch: DolarAPI fails, or has no rate for the week before the day
RechazarPeticion(c) ==
  /\ llamada[c].pc = "pidiendo"
  /\ TasaConFallos \/ Obtenidas(llamada[c].clave) = {}
  /\ pendientes' = SinPendiente(c)
  /\ Cumplir(c, "inactiva")
  /\ UNCHANGED <<hoy, publicadas, cacheTasa, provisionales>>

Olvidar(c) ==
  /\ llamada[c].pc = "respondida"
  /\ Poner(c, SinLlamada)
  /\ UNCHANGED <<hoy, publicadas, cacheTasa, pendientes, provisionales>>

\* an instance dies, its table and its calls with it
Caer(i) ==
  /\ TasaConFallos
  /\ pendientes' = [pendientes EXCEPT ![i] = [k \in ClavesTasa |-> Ninguna]]
  /\ llamada' = [c \in Llamadas |-> IF llamada[c].inst = i THEN SinLlamada ELSE llamada[c]]
  /\ UNCHANGED <<hoy, publicadas, cacheTasa, provisionales>>

PasoLlamada(c) ==
  \/ LeerTasa(c) \/ BorrarVieja(c) \/ Mirar(c)
  \/ (\E tasa \in Dias : RecibirTasa(c, tasa)) \/ RechazarPeticion(c) \/ Guardar(c) \/ Soltar(c)

Mundo ==
  \/ Amanecer \/ (\E d \in Dias : Publicar(d)) \/ (\E k \in ClavesTasa : ExpirarTasa(k))
  \/ \E i \in Servidores : Caer(i)

NextTasa ==
  \/ Mundo
  \/ \E c \in Llamadas :
       PasoLlamada(c) \/ Olvidar(c) \/ \E i \in Servidores, k \in ClavesTasa : Llamar(c, i, k)

SpecTasa == InitTasa /\ [][NextTasa]_varsTasa

\* Nothing here waits for ever by itself: Redis answers or fails, and so does
\* DolarAPI, for fetch gives up after its own timeouts.
JusticiaTasa == \A c \in Llamadas : WF_varsTasa(PasoLlamada(c))

SpecJustaTasa == SpecTasa /\ JusticiaTasa
-----------------------------------------------------------------------------
Pide(c) == llamada[c].pc \in {"pidiendo", "guardar", "soltar"}

\* The callers of a key share one request, however many miss the cache together.
UnaPeticion ==
  \A c, d \in Llamadas :
    Pide(c) /\ Pide(d) /\ llamada[c].inst = llamada[d].inst /\ llamada[c].clave = llamada[d].clave
      => c = d

\* The table names the requests in progress and nothing else, and whoever waits waits
\* for one of his own instance and key: nobody is left with a promise that is over,
\* and no key is asked for twice.
TablaViva ==
  /\ \A i \in Servidores, k \in ClavesTasa : pendientes[i][k] # Ninguna =>
       LET c == pendientes[i][k] IN Pide(c) /\ llamada[c].inst = i /\ llamada[c].clave = k
  /\ \A c \in Llamadas : Pide(c) => pendientes[llamada[c].inst][llamada[c].clave] = c
  /\ \A c \in Llamadas : llamada[c].pc = "esperando" =>
       pendientes[llamada[c].inst][llamada[c].clave] = llamada[c].promesa

\* getTasa answers with the rate of its day, or with the last one published when it
\* began or a later one, never with an older one that was in the cache.
\* getTasaPorFecha answers with the rate of another day, when there was one of the
\* day itself, only after the day had been asked for too early: that answer is kept
\* for a week.
TasaConCausa ==
  \A c \in Llamadas : llamada[c].pc = "respondida" =>
    LET k == llamada[c].clave
    IN \/ llamada[c].tasa = k[2]
       \/ k[1] = "hoy" /\ \A d \in llamada[c].conocidas : llamada[c].tasa >= d
       \/ k[1] = "fecha" /\ (k[2] \in llamada[c].conocidas => k[2] \in provisionales)

\* Every call is answered, rejected or lost with its instance.
SiempreRespondida ==
  \A c \in Llamadas :
    llamada[c].pc # "inactiva" ~> llamada[c].pc \in {"inactiva", "respondida"}
-----------------------------------------------------------------------------
(***************************************************************************)
(* The inductive invariant: a call in progress knows its instance and key, *)
(* and only who waits has a promise; what a call has seen published bounds *)
(* from below the rate it will answer with, and who waits has seen no more *)
(* than the call that asks for him.                                        *)
(***************************************************************************)
ConClave ==
  \A c \in Llamadas :
    /\ llamada[c].pc # "inactiva" =>
         llamada[c].clave \in ClavesTasa /\ llamada[c].inst \in Servidores
    /\ llamada[c].pc = "esperando" <=> llamada[c].promesa # Ninguna

Enterada ==
  \A c \in Llamadas :
    /\ llamada[c].conocidas \subseteq publicadas
    /\ llamada[c].pc = "esperando" =>
         llamada[c].conocidas \subseteq llamada[llamada[c].promesa].conocidas

\* why tasa may be the answer to key k of a call that has seen conocidas
Justificada(k, tasa, conocidas) ==
  \/ tasa = k[2]
  \/ k[1] = "hoy" /\ \A d \in conocidas : tasa >= d
  \/ k[1] = "fecha" /\ k[2] \in provisionales

ConCausa ==
  /\ \A c \in Llamadas : llamada[c].pc \in {"guardar", "soltar", "respondida"} =>
       Justificada(llamada[c].clave, llamada[c].tasa, llamada[c].conocidas)
  /\ \A k \in ClavesTasa :
       cacheTasa[k] # Ninguna /\ k[1] = "fecha" => Justificada(k, cacheTasa[k], {})

IInvTasa == TypeOKTasa /\ ConClave /\ TablaViva /\ publicadas # {} /\ Enterada /\ ConCausa
=============================================================================
