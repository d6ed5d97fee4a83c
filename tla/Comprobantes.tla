---------------------------- MODULE Comprobantes ----------------------------
(***************************************************************************)
(* A payer's voucher: POST /ocr/extract-receipt, which proposes the data   *)
(* of the form from the image, and POST /payments, which registers the     *)
(* payment.  The two meet in one cache entry, ocr_pred:<sha256 of the      *)
(* image>, kept for 2 h: PaymentsService.create takes the prediction from  *)
(* it, logs it beside what the payer typed and deletes it.                 *)
(*                                                                         *)
(* A recognition and a submission are one request each, with one step per  *)
(* await.  What an image says is data: the recognition names a bank or     *)
(* none, and the model keeps which recognition a prediction came from.     *)
(***************************************************************************)
EXTENDS Integers, FiniteSets

CONSTANTS
  Lecturas,     \* requests to recognise an image
  Envios,       \* requests to register a payment
  Imagenes,     \* vouchers, told apart by their hash
  MaxIntentos,  \* calls to Ollama: maxAttempts of identificarBancoPorLogo
  OcrConFallos,    \* Redis and MongoDB may fail, and requests may die
  SinPrediccion          \* no prediction

ASSUME ComprobantesAssumption ==
  /\ MaxIntentos \in Nat \ {0}
  /\ OcrConFallos \in BOOLEAN
  /\ SinPrediccion \notin Lecturas \cup Imagenes

VARIABLES
  lectura,    \* the recognitions
  envio,      \* the submissions
  guardada,   \* the cached prediction of each image: the recognition it is of
  hechos,     \* the submissions whose payment is in the database
  registros,  \* the entries of ocr_logs: which prediction, in which submission
  repetidas,  \* history: images sent again without an answer that said no
  escapadas     \* history: predictions that outlived their log entry, or were shared

varsComprobantes == <<lectura, envio, guardada, hechos, registros, repetidas, escapadas>>

Negativas == {"rechazado", "error"}
Lectura == [pc : {"por_pedir", "texto", "logo", "guardar", "respondido", "caido"} \cup Negativas,
            imagen : Imagenes \cup {SinPrediccion}, intentos : 0 .. MaxIntentos]
Envio == [pc : {"por_pedir", "subir", "crear", "buscar", "registrar", "borrar", "listas",
                "respondido", "caido"} \cup Negativas,
          imagen : Imagenes \cup {SinPrediccion}, prediccion : Lecturas \cup {SinPrediccion}]

Finales == {"respondido", "caido"} \cup Negativas
EnVuelo == {e \in Envios : envio[e].pc \notin {"por_pedir"} \cup Finales}
ConPrediccion == {"registrar", "borrar"}

TypeOKComprobantes ==
  /\ lectura \in [Lecturas -> Lectura]
  /\ envio \in [Envios -> Envio]
  /\ guardada \in [Imagenes -> Lecturas \cup {SinPrediccion}]
  /\ hechos \subseteq Envios
  /\ registros \subseteq Lecturas \X Envios
  /\ repetidas \subseteq Imagenes /\ escapadas \subseteq Lecturas
  /\ \A e \in Envios : envio[e].prediccion # SinPrediccion <=> envio[e].pc \in ConPrediccion

InitComprobantes ==
  /\ lectura = [k \in Lecturas |-> [pc |-> "por_pedir", imagen |-> SinPrediccion, intentos |-> 0]]
  /\ envio = [e \in Envios |-> [pc |-> "por_pedir", imagen |-> SinPrediccion, prediccion |-> SinPrediccion]]
  /\ guardada = [i \in Imagenes |-> SinPrediccion]
  /\ hechos = {} /\ registros = {} /\ repetidas = {} /\ escapadas = {}

(***************************************************************************)
(* OcrController.extractReceipt.                                           *)
(***************************************************************************)
IrLectura(k, pc) == lectura' = [lectura EXCEPT ![k].pc = pc]

\* size and type of the file are looked at before anything else
Pedir(k, imagen) ==
  /\ lectura[k].pc = "por_pedir"
  /\ \E pc \in {"texto", "rechazado"} :
       lectura' = [lectura EXCEPT ![k].pc = pc, ![k].imagen = imagen]
  /\ UNCHANGED <<envio, guardada, hechos, registros, repetidas, escapadas>>

\* Tesseract and the parser: a bank is named, or none on a transfer whose logo
\* may tell; a failure of the engine is answered with 400
LeerTexto(k) ==
  /\ lectura[k].pc = "texto"
  /\ \E pc \in {"guardar", "logo", "error"} : IrLectura(k, pc)
  /\ UNCHANGED <<envio, guardada, hechos, registros, repetidas, escapadas>>

\* one call of Ollama: it answers or fails for good, and the prediction goes on
\* with a bank or without; a network failure is tried again while attempts are left
PreguntarLogo(k) ==
  /\ lectura[k].pc = "logo"
  /\ \/ IrLectura(k, "guardar")
     \/ /\ lectura[k].intentos + 1 < MaxIntentos
        /\ lectura' = [lectura EXCEPT ![k].intentos = @ + 1]
  /\ UNCHANGED <<envio, guardada, hechos, registros, repetidas, escapadas>>

\* the prediction is cached; set swallows its errors, and the answer follows
GuardarPrediccion(k) ==
  /\ lectura[k].pc = "guardar"
  /\ \/ guardada' = [guardada EXCEPT ![lectura[k].imagen] = k]
     \/ OcrConFallos /\ UNCHANGED guardada
  /\ IrLectura(k, "respondido")
  /\ UNCHANGED <<envio, hechos, registros, repetidas, escapadas>>

MorirLectura(k) ==
  /\ OcrConFallos
  /\ lectura[k].pc \in {"texto", "logo", "guardar"}
  /\ IrLectura(k, "caido")
  /\ UNCHANGED <<envio, guardada, hechos, registros, repetidas, escapadas>>

\* the 2 h are over
ExpirarPrediccion(i) ==
  /\ guardada[i] # SinPrediccion
  /\ guardada' = [guardada EXCEPT ![i] = SinPrediccion]
  /\ UNCHANGED <<lectura, envio, hechos, registros, repetidas, escapadas>>

(***************************************************************************)
(* PaymentsController.create.                                              *)
(***************************************************************************)
IrEnvio(e, pc) == envio' = [envio EXCEPT ![e].pc = pc]

\* the form is parsed first.  A payer who sends a voucher again has been told that
\* it failed, or repeats it without knowing: repetidas
Enviar(e, imagen) ==
  /\ envio[e].pc = "por_pedir"
  /\ \E pc \in {"subir", "rechazado"} :
       envio' = [envio EXCEPT ![e].pc = pc, ![e].imagen = imagen]
  /\ repetidas' = repetidas \cup
       {i \in {imagen} : \E d \in Envios : envio[d].imagen = i /\ envio[d].pc \notin Negativas}
  /\ UNCHANGED <<lectura, guardada, hechos, registros, escapadas>>

SubirImagen(e) ==
  /\ envio[e].pc = "subir"
  /\ \E pc \in {"crear", "error"} : IrEnvio(e, pc)
  /\ UNCHANGED <<lectura, guardada, hechos, registros, repetidas, escapadas>>

\* the payment is written; or refused (a date that is none, a missing field, the
\* database); or written by a database whose answer is lost
InsertarPago(e) ==
  /\ envio[e].pc = "crear"
  /\ \/ IrEnvio(e, "buscar") /\ hechos' = hechos \cup {e} /\ UNCHANGED repetidas
     \/ IrEnvio(e, "error") /\ UNCHANGED <<hechos, repetidas>>
     \/ /\ OcrConFallos
        /\ IrEnvio(e, "error") /\ hechos' = hechos \cup {e}
        /\ repetidas' = repetidas \cup {envio[e].imagen}
  /\ UNCHANGED <<lectura, guardada, registros, escapadas>>

\* those that hold the prediction k
Tenedores(k) == {e \in Envios : envio[e].prediccion = k}

\* the prediction of this image, if the cache has one and answers
BuscarPrediccion(e) ==
  LET k == guardada[envio[e].imagen] IN
  /\ envio[e].pc = "buscar"
  /\ \/ /\ k # SinPrediccion
        /\ envio' = [envio EXCEPT ![e].pc = "registrar", ![e].prediccion = k]
        /\ escapadas' = IF Tenedores(k) # {} THEN escapadas \cup {k} ELSE escapadas
     \/ /\ k = SinPrediccion \/ OcrConFallos
        /\ IrEnvio(e, "listas") /\ UNCHANGED escapadas
  /\ UNCHANGED <<lectura, guardada, hechos, registros, repetidas>>

\* without the catch of registrarOcrLog, and the one around its call
RegistrarSinAtrapar(e) ==
  /\ envio[e].pc = "registrar"
  /\ \/ /\ registros' = registros \cup {<<envio[e].prediccion, e>>}
        /\ IrEnvio(e, "borrar")
     \/ /\ OcrConFallos /\ UNCHANGED registros
        /\ envio' = [envio EXCEPT ![e].pc = "error", ![e].prediccion = SinPrediccion]
  /\ UNCHANGED <<lectura, guardada, hechos, repetidas, escapadas>>

\* registrarOcrLog catches its own errors
Registrar(e) ==
  /\ envio[e].pc = "registrar"
  /\ \/ registros' = registros \cup {<<envio[e].prediccion, e>>}
     \/ OcrConFallos /\ UNCHANGED registros
  /\ IrEnvio(e, "borrar")
  /\ UNCHANGED <<lectura, guardada, hechos, repetidas, escapadas>>

BorrarOlvidado(e) ==
  /\ envio[e].pc = "borrar"
  /\ envio' = [envio EXCEPT ![e].pc = "listas", ![e].prediccion = SinPrediccion]
  /\ UNCHANGED <<lectura, guardada, hechos, registros, repetidas, escapadas>>

\* the entry is deleted, whichever prediction it holds by now; delete swallows
\* its errors
BorrarPrediccion(e) ==
  /\ envio[e].pc = "borrar"
  /\ envio' = [envio EXCEPT ![e].pc = "listas", ![e].prediccion = SinPrediccion]
  /\ \/ guardada' = [guardada EXCEPT ![envio[e].imagen] = SinPrediccion] /\ UNCHANGED escapadas
     \/ /\ OcrConFallos /\ UNCHANGED guardada
        /\ escapadas' = escapadas \cup {envio[e].prediccion}
  /\ UNCHANGED <<lectura, hechos, registros, repetidas>>

\* the cached lists of payments are dropped, or Redis fails, and the answer follows
InvalidarListas(e) ==
  /\ envio[e].pc = "listas"
  /\ IrEnvio(e, "respondido")
  /\ UNCHANGED <<lectura, guardada, hechos, registros, repetidas, escapadas>>

\* the process dies: there is no answer, and nothing else is undone or done
MorirEnvio(e) ==
  /\ OcrConFallos
  /\ e \in EnVuelo
  /\ envio' = [envio EXCEPT ![e].pc = "caido", ![e].prediccion = SinPrediccion]
  /\ escapadas' = escapadas \cup ({envio[e].prediccion} \ {SinPrediccion})
  /\ UNCHANGED <<lectura, guardada, hechos, registros, repetidas>>

\* every request has ended: nothing is left to happen
Terminado ==
  /\ \A k \in Lecturas : lectura[k].pc \in Finales
  /\ \A e \in Envios : envio[e].pc \in Finales
  /\ \A i \in Imagenes : guardada[i] = SinPrediccion
  /\ UNCHANGED varsComprobantes

NextComprobantes ==
  \/ \E k \in Lecturas, i \in Imagenes : Pedir(k, i)
  \/ \E k \in Lecturas : LeerTexto(k)
  \/ \E k \in Lecturas : PreguntarLogo(k)
  \/ \E k \in Lecturas : GuardarPrediccion(k)
  \/ \E k \in Lecturas : MorirLectura(k)
  \/ \E i \in Imagenes : ExpirarPrediccion(i)
  \/ \E e \in Envios, i \in Imagenes : Enviar(e, i)
  \/ \E e \in Envios : SubirImagen(e)
  \/ \E e \in Envios : InsertarPago(e)
  \/ \E e \in Envios : BuscarPrediccion(e)
  \/ \E e \in Envios : Registrar(e)
  \/ \E e \in Envios : BorrarPrediccion(e)
  \/ \E e \in Envios : InvalidarListas(e)
  \/ \E e \in Envios : MorirEnvio(e)
  \/ Terminado

SpecComprobantes == InitComprobantes /\ [][NextComprobantes]_varsComprobantes
-----------------------------------------------------------------------------
\* create knows no payment twice: nothing tells a repeated submission from a new
\* one.  What protects a payer is that an error he is shown means that nothing was
\* registered, whatever fails after the payment is written (the log of the
\* prediction, the caches): two payments of one voucher exist only when it was
\* sent again after a yes, without waiting for the answer or without getting one,
\* or when the database wrote a payment and its answer was lost.
UnPagoPorComprobante ==
  \A d, e \in hechos :
    d # e /\ envio[d].imagen = envio[e].imagen => envio[e].imagen \in repetidas

\* A prediction is deleted once it was used: it is logged with two payments only
\* when both were being registered at once, or when its deletion failed or was
\* never reached.
UnRegistroPorPrediccion ==
  \A x, y \in registros : x[1] = y[1] /\ x # y => x[1] \in escapadas
-----------------------------------------------------------------------------
(***************************************************************************)
(* The inductive invariant.  Of two submissions that may have paid with an *)
(* image, the second is known to be a repetition.  A prediction is cached  *)
(* under its image alone; one that has not escaped has one holder at most, *)
(* and once it is logged, that holder is about to delete it or it is gone. *)
(***************************************************************************)
Paga(e) == e \in hechos \/ envio[e].pc \notin {"por_pedir"} \cup Negativas

Enviados ==
  /\ \A e \in Envios : envio[e].pc = "por_pedir" <=> envio[e].imagen = SinPrediccion
  /\ \A e \in hechos :
       envio[e].pc \in {"por_pedir", "subir", "crear"} \cup Negativas =>
         envio[e].imagen \in repetidas
  /\ \A d, e \in Envios :
       d # e /\ Paga(d) /\ Paga(e) /\ envio[d].imagen = envio[e].imagen =>
         envio[e].imagen \in repetidas

DeImagen(k, i) == lectura[k].pc = "respondido" /\ lectura[k].imagen = i
Borrada(k) == Tenedores(k) = {} /\ \A i \in Imagenes : guardada[i] # k

Predicciones ==
  /\ \A i \in Imagenes : guardada[i] # SinPrediccion => DeImagen(guardada[i], i)
  /\ \A e \in Envios :
       envio[e].prediccion # SinPrediccion => DeImagen(envio[e].prediccion, envio[e].imagen)
  /\ \A x \in registros : lectura[x[1]].pc = "respondido"
  /\ \A k \in Lecturas \ escapadas : \A d, e \in Tenedores(k) : d = e
  /\ \A x \in registros : x[1] \notin escapadas =>
       \/ x[2] \in Tenedores(x[1]) /\ envio[x[2]].pc = "borrar"
       \/ Borrada(x[1])

IInvComprobantes ==
  TypeOKComprobantes /\ Enviados /\ Predicciones /\ UnRegistroPorPrediccion
=============================================================================
