----------------------------- MODULE ExcelJobs -----------------------------
(***************************************************************************)
(* The Excel file of the collection report, made by a job: the facade      *)
(* CobranzaExcelJobFacade creates the job's document in MongoDB and adds   *)
(* the job to a BullMQ queue; CobranzaExcelJobService.procesar runs in the *)
(* slots of the workers, stores the file in GridFS and marks the document, *)
(* which the client polls.  One building.                                  *)
(*                                                                         *)
(* Of BullMQ (external) the module has what the code relies on: a job is   *)
(* added with no options, so one that throws is not tried again; a job     *)
(* whose worker stops renewing its lock is given out again, MaxEstancos    *)
(* times (1 by default), and then dropped.                                 *)
(***************************************************************************)
EXTENDS Integers, Sequences, FiniteSets

CONSTANTS
  Trabajos,     \* requests for an Excel file, and the jobs they create
  Turnos,       \* slots of the workers, over all instances
  MaxEstancos,  \* how often BullMQ gives out a stalled job again
  MaxVersion,   \* bound: versions of the snapshot
  ConFallos,    \* calls may fail, instances may die
  ConDemoras,   \* a worker may be busy for longer than its lock lasts
  NoExiste,     \* no such document
  Nadie         \* no job

ASSUME TrabajosAssumption ==
  /\ Nadie \notin Trabajos
  /\ MaxEstancos \in Nat
  /\ MaxVersion \in Nat
  /\ ConFallos \in BOOLEAN /\ ConDemoras \in BOOLEAN

\* fileId: which of the job's files, 0 when unset
Doc == [estado : {"pending", "ready", "failed"}, fileId : Nat]

ASSUME DocAssumption == NoExiste \notin Doc

VARIABLES
  snapshot,  \* version of the document of "cobranza_snapshot", 0 when there is none
  peticion,  \* how far each POST .../jobs is
  docs,      \* collection "cobranza_report_jobs"
  cola,      \* where the queue has each job
  estancos,  \* how often it has given it out again
  archivos,  \* the files stored for each job: the versions they show
  turno,     \* what each slot is running
  causas     \* history: what has happened to a job that may lose it

vars == <<snapshot, peticion, docs, cola, estancos, archivos, turno, causas>>

Causas == {"sinEncolar", "descartado", "sinMarcar", "respuestaPerdida"}
Pasos == {"libre", "leer", "subir", "listo", "fallar", "terminar"}

\* duenio: the slot holds the job's lock
Turno == [pc : Pasos, trabajo : Trabajos \cup {Nadie}, duenio : BOOLEAN,
          version : 0 .. MaxVersion, fileId : Nat]
Libre == [pc |-> "libre", trabajo |-> Nadie, duenio |-> FALSE, version |-> 0, fileId |-> 0]

TypeOK ==
  /\ snapshot \in 0 .. MaxVersion
  /\ peticion \in [Trabajos -> {"nueva", "creada", "hecha"}]
  /\ docs \in [Trabajos -> Doc \cup {NoExiste}]
  /\ cola \in [Trabajos -> {"fuera", "espera", "activo", "fin"}]
  /\ estancos \in [Trabajos -> 0 .. MaxEstancos]
  /\ archivos \in [Trabajos -> Seq(1 .. MaxVersion)]
  /\ turno \in [Turnos -> Turno]
  /\ causas \in [Trabajos -> SUBSET Causas]

Init ==
  /\ snapshot = 0
  /\ peticion = [j \in Trabajos |-> "nueva"]
  /\ docs = [j \in Trabajos |-> NoExiste]
  /\ cola = [j \in Trabajos |-> "fuera"]
  /\ estancos = [j \in Trabajos |-> 0]
  /\ archivos = [j \in Trabajos |-> <<>>]
  /\ turno = [w \in Turnos |-> Libre]
  /\ causas = [j \in Trabajos |-> {}]

Estado(j, estado) == docs[j] # NoExiste /\ docs[j].estado = estado
Anotar(j, cs) == causas' = [causas EXCEPT ![j] = @ \cup cs]

\* CobranzaSnapshotService persists a report
Publicar ==
  /\ snapshot < MaxVersion
  /\ snapshot' = snapshot + 1
  /\ UNCHANGED <<peticion, docs, cola, estancos, archivos, turno, causas>>

(***************************************************************************)
(* crearJob.                                                               *)
(***************************************************************************)
Crear(j) ==
  /\ peticion[j] = "nueva"
  /\ peticion' = [peticion EXCEPT ![j] = "creada"]
  /\ docs' = [docs EXCEPT ![j] = [estado |-> "pending", fileId |-> 0]]
  /\ UNCHANGED <<snapshot, cola, estancos, archivos, turno, causas>>

Encolar(j) ==
  /\ peticion[j] = "creada"
  /\ peticion' = [peticion EXCEPT ![j] = "hecha"]
  /\ cola' = [cola EXCEPT ![j] = "espera"]
  /\ UNCHANGED <<snapshot, docs, estancos, archivos, turno, causas>>

\* the queue refuses the job, or the instance dies before it has asked
NoEncolar(j) ==
  /\ ConFallos
  /\ peticion[j] = "creada"
  /\ peticion' = [peticion EXCEPT ![j] = "hecha"]
  /\ Anotar(j, {"sinEncolar"})
  /\ UNCHANGED <<snapshot, docs, cola, estancos, archivos, turno>>

(***************************************************************************)
(* procesar, in slot w.                                                    *)
(***************************************************************************)
Ir(w, t) == turno' = [turno EXCEPT ![w] = t]

Tomar(w, j) ==
  /\ turno[w].pc = "libre" /\ cola[j] = "espera"
  /\ cola' = [cola EXCEPT ![j] = "activo"]
  /\ Ir(w, [Libre EXCEPT !.pc = "leer", !.trabajo = j, !.duenio = TRUE])
  /\ UNCHANGED <<snapshot, peticion, docs, estancos, archivos, causas>>

\* without a snapshot the job fails
LeerSnapshot(w) ==
  /\ turno[w].pc = "leer"
  /\ Ir(w, IF snapshot = 0 THEN [turno[w] EXCEPT !.pc = "fallar"]
           ELSE [turno[w] EXCEPT !.pc = "subir", !.version = snapshot])
  /\ UNCHANGED <<snapshot, peticion, docs, cola, estancos, archivos, causas>>

\* filesService.upload: a new file each time
Subir(w) ==
  LET j == turno[w].trabajo IN
  /\ turno[w].pc = "subir"
  /\ archivos' = [archivos EXCEPT ![j] = Append(@, turno[w].version)]
  /\ Ir(w, [turno[w] EXCEPT !.pc = "listo", !.version = 0, !.fileId = Len(archivos[j]) + 1])
  /\ UNCHANGED <<snapshot, peticion, docs, cola, estancos, causas>>

\* the query, the workbook or the upload throws
Fallar(w) ==
  /\ ConFallos
  /\ turno[w].pc \in {"leer", "subir"}
  /\ Ir(w, [turno[w] EXCEPT !.pc = "fallar"])
  /\ UNCHANGED <<snapshot, peticion, docs, cola, estancos, archivos, causas>>

\* actualizarEstado: findByIdAndUpdate of a document that may be gone by now; a
\* field given as undefined is left alone
Marcado(j, estado, fileId) ==
  IF docs[j] = NoExiste THEN docs
  ELSE [docs EXCEPT ![j] = [estado |-> estado, fileId |-> IF fileId = 0 THEN @.fileId ELSE fileId]]

MarcarListoYFallar(w) ==
  /\ turno[w].pc = "listo"
  /\ docs' = Marcado(turno[w].trabajo, "ready", turno[w].fileId)
  /\ Ir(w, [turno[w] EXCEPT !.pc = "fallar", !.fileId = 0])
  /\ UNCHANGED <<snapshot, peticion, cola, estancos, archivos, causas>>

MarcarListo(w) ==
  /\ turno[w].pc = "listo"
  /\ docs' = Marcado(turno[w].trabajo, "ready", turno[w].fileId)
  /\ Ir(w, [turno[w] EXCEPT !.pc = "terminar", !.fileId = 0])
  /\ UNCHANGED <<snapshot, peticion, cola, estancos, archivos, causas>>

\* the same update throws, before or after it has been applied: the catch runs
MarcarListoFalla(w) ==
  /\ ConFallos
  /\ turno[w].pc = "listo"
  /\ docs' \in {docs, Marcado(turno[w].trabajo, "ready", turno[w].fileId)}
  /\ Ir(w, [turno[w] EXCEPT !.pc = "fallar", !.fileId = 0])
  /\ Anotar(turno[w].trabajo, {"respuestaPerdida"})
  /\ UNCHANGED <<snapshot, peticion, cola, estancos, archivos>>

MarcarFallidoSoloLog(w) ==
  /\ turno[w].pc = "fallar"
  /\ Ir(w, [turno[w] EXCEPT !.pc = "terminar"])
  /\ UNCHANGED <<snapshot, peticion, docs, cola, estancos, archivos, causas>>

\* the catch: the job is marked failed, and the error goes on to BullMQ
MarcarFallido(w) ==
  /\ turno[w].pc = "fallar"
  /\ docs' = Marcado(turno[w].trabajo, "failed", 0)
  /\ Ir(w, [turno[w] EXCEPT !.pc = "terminar"])
  /\ UNCHANGED <<snapshot, peticion, cola, estancos, archivos, causas>>

\* that update throws too
MarcarFallidoFalla(w) ==
  /\ ConFallos
  /\ turno[w].pc = "fallar"
  /\ Ir(w, [turno[w] EXCEPT !.pc = "terminar"])
  /\ Anotar(turno[w].trabajo, {"sinMarcar"})
  /\ UNCHANGED <<snapshot, peticion, docs, cola, estancos, archivos>>

TerminarConReintento(w) ==
  LET j == turno[w].trabajo IN
  /\ turno[w].pc = "terminar"
  /\ cola' = IF turno[w].duenio
             THEN [cola EXCEPT ![j] = IF Estado(j, "failed") THEN "espera" ELSE "fin"]
             ELSE cola
  /\ Ir(w, Libre)
  /\ UNCHANGED <<snapshot, peticion, docs, estancos, archivos, causas>>

\* process has returned or thrown: BullMQ closes the job, unless the slot has
\* lost its lock
Terminar(w) ==
  /\ turno[w].pc = "terminar"
  /\ cola' = IF turno[w].duenio THEN [cola EXCEPT ![turno[w].trabajo] = "fin"] ELSE cola
  /\ Ir(w, Libre)
  /\ UNCHANGED <<snapshot, peticion, docs, estancos, archivos, causas>>

(***************************************************************************)
(* The environment.                                                        *)
(***************************************************************************)

\* the instance dies
Morir(w) ==
  /\ ConFallos
  /\ turno[w].pc # "libre"
  /\ Ir(w, Libre)
  /\ UNCHANGED <<snapshot, peticion, docs, cola, estancos, archivos, causas>>

Duenios(j) == {w \in Turnos : turno[w].trabajo = j /\ turno[w].duenio}

\* the lock of an active job has not been renewed
Estancar(j) ==
  /\ cola[j] = "activo"
  /\ Duenios(j) = {} \/ ConDemoras
  /\ turno' = [w \in Turnos |->
       IF w \in Duenios(j) THEN [turno[w] EXCEPT !.duenio = FALSE] ELSE turno[w]]
  /\ IF estancos[j] < MaxEstancos
     THEN /\ estancos' = [estancos EXCEPT ![j] = @ + 1]
          /\ cola' = [cola EXCEPT ![j] = "espera"]
          /\ UNCHANGED causas
     ELSE /\ cola' = [cola EXCEPT ![j] = "fin"]
          /\ Anotar(j, {"descartado"})
          /\ UNCHANGED estancos
  /\ UNCHANGED <<snapshot, peticion, docs, archivos>>

\* the TTL index removes a document 24 h after listoEn; its files stay
ExpirarDoc(j) ==
  /\ Estado(j, "ready") \/ Estado(j, "failed")
  /\ docs' = [docs EXCEPT ![j] = NoExiste]
  /\ UNCHANGED <<snapshot, peticion, cola, estancos, archivos, turno, causas>>

PasoTurno(w) ==
  \/ LeerSnapshot(w) \/ Subir(w) \/ Fallar(w)
  \/ MarcarListo(w) \/ MarcarListoFalla(w)
  \/ MarcarFallido(w) \/ MarcarFallidoFalla(w)
  \/ Terminar(w)

Next ==
  \/ Publicar
  \/ \E j \in Trabajos : Crear(j) \/ Encolar(j) \/ NoEncolar(j) \/ Estancar(j) \/ ExpirarDoc(j)
  \/ \E w \in Turnos : PasoTurno(w) \/ Morir(w) \/ \E j \in Trabajos : Tomar(w, j)

Spec == Init /\ [][Next]_vars

\* A request goes on after its awaits, a free worker asks the queue, awaits are
\* settled, and the check for stalled jobs is repeated.  Nobody has to send a
\* request or to publish a snapshot.
Justicia ==
  /\ \A j \in Trabajos : WF_vars(Encolar(j) \/ NoEncolar(j))
  /\ WF_vars(\E w \in Turnos, j \in Trabajos : Tomar(w, j))
  /\ \A w \in Turnos : WF_vars(PasoTurno(w))
  /\ \A j \in Trabajos : WF_vars(Duenios(j) = {} /\ Estancar(j))

SpecJusta == Spec /\ Justicia
-----------------------------------------------------------------------------
\* What a client is told to download exists: the file is complete before the
\* document says ready, also when two runs of a job overlap.
ListoTieneArchivo ==
  \A j \in Trabajos : Estado(j, "ready") => docs[j].fileId \in DOMAIN archivos[j]

\* Files nobody can download any more are bounded by how often the queue gives
\* the job out again.
ArchivosPorEntrega == \A j \in Trabajos : Len(archivos[j]) <= estancos[j] + 1

\* The result a client has been told changes only when the job was given out
\* again, or when the answer to the update that marked it was lost.
ResultadoFirme ==
  [][\A j \in Trabajos :
       (Estado(j, "ready") \/ Estado(j, "failed")) =>
         \/ docs'[j] = docs[j] \/ docs'[j] = NoExiste
         \/ estancos[j] > 0 \/ "respuestaPerdida" \in causas[j]]_vars

\* The complete list of ways to lose a job: one that waits for ever was never
\* queued, was dropped by the queue after stalling, or could not be marked.
TerminaOSePierde ==
  \A j \in Trabajos :
    Estado(j, "pending") ~>
      ~Estado(j, "pending") \/ causas[j] \cap {"sinEncolar", "descartado", "sinMarcar"} # {}

\* proposal.md, risk "Excel job perdido": "Estado persistido en Mongo
\* `cobranza_report_jobs`; reintentos BullMQ".
NoSePierde == \A j \in Trabajos : Estado(j, "pending") ~> ~Estado(j, "pending")
-----------------------------------------------------------------------------
(***************************************************************************)
(* The inductive invariant.  Until a job is given out again it has one run *)
(* at most, none before the queue has handed it out, and that run has      *)
(* nothing left to mark once the result is there.  Of the times a job may  *)
(* be given out, each is still ahead, is a run before its upload, or has   *)
(* stored a file at most.                                                  *)
(***************************************************************************)
Terminado(j) == Estado(j, "ready") \/ Estado(j, "failed")

Peticiones ==
  \A j \in Trabajos :
    /\ peticion[j] = "nueva" => docs[j] = NoExiste
    /\ peticion[j] # "hecha" => cola[j] = "fuera"

Ejecuciones ==
  \A w \in Turnos :
    /\ turno[w].pc # "libre" <=> turno[w].trabajo # Nadie
    /\ turno[w].pc = "subir" => turno[w].version > 0
    /\ turno[w].pc = "listo" => turno[w].fileId \in DOMAIN archivos[turno[w].trabajo]

\* j has not been given out yet
SinEntregar(j) == cola[j] = "fuera" \/ (cola[j] = "espera" /\ estancos[j] = 0)

EntregaUnica ==
  \A j \in Trabajos :
    /\ SinEntregar(j) => ~Terminado(j) /\ \A w \in Turnos : turno[w].trabajo # j
    /\ cola[j] = "fuera" => estancos[j] = 0
    /\ estancos[j] = 0 =>
         \A w, v \in Turnos : turno[w].trabajo = j /\ turno[v].trabajo = j => w = v

ResultadoUnico ==
  \A j \in Trabajos :
    Terminado(j) /\ estancos[j] = 0 /\ "respuestaPerdida" \notin causas[j] =>
      \A w \in Turnos : turno[w].trabajo = j => turno[w].pc = "terminar"

SinSubir(j) == {w \in Turnos : turno[w].trabajo = j /\ turno[w].pc \in {"leer", "subir"}}
PorEntregar(j) == IF cola[j] \in {"fuera", "espera"} THEN 1 ELSE 0

EntregasContadas ==
  \A j \in Trabajos :
    /\ IsFiniteSet(SinSubir(j))
    /\ Len(archivos[j]) + Cardinality(SinSubir(j)) + PorEntregar(j) <= estancos[j] + 1

IInv ==
  /\ TypeOK /\ ListoTieneArchivo /\ Peticiones /\ Ejecuciones
  /\ EntregaUnica /\ ResultadoUnico /\ EntregasContadas
=============================================================================
