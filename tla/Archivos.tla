------------------------------ MODULE Archivos ------------------------------
(***************************************************************************)
(* Files in GridFS and the two that a building names, its regulations (a   *)
(* PDF) and the banner of its portal (an image): FilesService, and the     *)
(* routes of ReglamentosController, SuperService and BuildingsService that *)
(* set, clear and show them.  Nothing in the code deletes a file.          *)
(*                                                                         *)
(* A size is the largest limit it exceeds, in megabytes; a type is what    *)
(* the magic bytes say, and a declared type that differs is refused.       *)
(***************************************************************************)
EXTENDS Integers, FiniteSets

CONSTANTS
  Peticiones,         \* uploads, deletions and downloads that may be in flight together
  Ficheros,           \* ids of the files that may be uploaded
  ArchivosConFallos,  \* an await may reject, an instance may die
  Ninguno

\* what the constants must satisfy
ArchivosAssumption ==
  /\ ArchivosConFallos \in BOOLEAN
  /\ Ninguno \notin Ficheros

TiposArchivo == {"pdf", "imagen", "hoja"}
Tamanos == {0, 5, 10}                \* up to 5 MB, 5 to 10, more than 10
Usos == {"reglamento", "banner"}

\* What a route lets through: the limit of its interceptor and the types it takes.
\* MAX_PDF_BYTES is 10 MB.
LimiteRuta == [reglamento |-> 10, banner |-> 5]
TipoRuta == [reglamento |-> "pdf", banner |-> "imagen"]
\* MAX_FILE_SIZE_BYTES of ImageCompressionService, for whatever type
LimiteArchivo == 5

\* A file is being written, or finished; what was cut off stays as it was.
Archivo == [estado : {"no", "subiendo", "listo"}, tipo : TiposArchivo]
PasosArchivo == {"inactiva", "subir", "escribir", "fijar", "releer", "respondida", "rechazada",
          "error", "descargar", "descargada", "noEncontrado"}
Peticion == [pc : PasosArchivo, uso : Usos, tamano : Tamanos, tipo : TiposArchivo,
             archivo : Ficheros \cup {Ninguno}]
Inactiva == [pc |-> "inactiva", uso |-> "banner", tamano |-> 0, tipo |-> "imagen",
             archivo |-> Ninguno]

VARIABLES
  archivos,    \* GridFS
  nombra,      \* the building: the file it names for each use
  nombre,      \* reglamentoNombre, seen as the upload that it is of
  peticion

varsArchivos == <<archivos, nombra, nombre, peticion>>

TypeOKArchivos ==
  /\ archivos \in [Ficheros -> Archivo]
  /\ nombra \in [Usos -> Ficheros \cup {Ninguno}]
  /\ nombre \in Ficheros \cup {Ninguno}
  /\ peticion \in [Peticiones -> Peticion]
  /\ \A r \in Peticiones : peticion[r].pc \in {"escribir", "fijar"} =>
       peticion[r].archivo # Ninguno /\ peticion[r].tamano < LimiteArchivo

InitArchivos ==
  /\ archivos = [f \in Ficheros |-> [estado |-> "no", tipo |-> "imagen"]]
  /\ nombra = [u \in Usos |-> Ninguno]
  /\ nombre = Ninguno
  /\ peticion = [r \in Peticiones |-> Inactiva]

Ir(r, p) == peticion' = [peticion EXCEPT ![r] = p]
A(r, pc) == Ir(r, [peticion[r] EXCEPT !.pc = pc])

(***************************************************************************)
(* An upload.                                                              *)
(***************************************************************************)

\* The interceptor's limit, the file's presence, the type: a refusal is a 4xx.
Recibir(r, uso, tamano, tipo) ==
  /\ peticion[r].pc = "inactiva"
  /\ Ir(r, [Inactiva EXCEPT !.uso = uso, !.tamano = tamano, !.tipo = tipo,
              !.pc = IF tamano < LimiteRuta[uso] /\ tipo = TipoRuta[uso]
                     THEN "subir" ELSE "rechazada"])
  /\ UNCHANGED <<archivos, nombra, nombre>>

\* upload: the size again, an Error and no 4xx; then a compression that leaves the
\* file as it is when it fails; then the stream
Subir(r, f) ==
  /\ peticion[r].pc = "subir"
  /\ IF peticion[r].tamano >= LimiteArchivo
     THEN A(r, "error") /\ UNCHANGED archivos
     ELSE /\ archivos[f].estado = "no"
          /\ archivos' = [archivos EXCEPT ![f] = [estado |-> "subiendo",
                                                  tipo |-> peticion[r].tipo]]
          /\ Ir(r, [peticion[r] EXCEPT !.pc = "escribir", !.archivo = f])
  /\ UNCHANGED <<nombra, nombre>>

\* Faulty variants (here and below, defined before what they stand in for): each
\* is a slip the code could have, and breaks one of the properties.
EscribirSinEsperar(r) ==
  /\ peticion[r].pc = "escribir"
  /\ archivos' \in {archivos, [archivos EXCEPT ![peticion[r].archivo].estado = "listo"]}
  /\ A(r, "fijar")
  /\ UNCHANGED <<nombra, nombre>>

\* finish of the stream
EscribirArchivo(r) ==
  /\ peticion[r].pc = "escribir"
  /\ archivos' = [archivos EXCEPT ![peticion[r].archivo].estado = "listo"]
  /\ A(r, "fijar")
  /\ UNCHANGED <<nombra, nombre>>

\* setReglamento or setPortalBanner: one $set of all the fields
Fijar(r) ==
  /\ peticion[r].pc = "fijar"
  /\ nombra' = [nombra EXCEPT ![peticion[r].uso] = peticion[r].archivo]
  /\ nombre' = IF peticion[r].uso = "reglamento" THEN peticion[r].archivo ELSE nombre
  /\ A(r, IF peticion[r].uso = "reglamento" THEN "releer" ELSE "respondida")
  /\ UNCHANGED archivos

\* getReglamento for the answer: whatever the building names by now
Releer(r) ==
  /\ peticion[r].pc = "releer"
  /\ A(r, "respondida")
  /\ UNCHANGED <<archivos, nombra, nombre>>

(***************************************************************************)
(* Deletions and downloads.                                                *)
(***************************************************************************)

\* clearReglamento, clearPortalBanner: $unset, and the file stays
Eliminar(r, uso) ==
  /\ peticion[r].pc = "inactiva"
  /\ nombra' = [nombra EXCEPT ![uso] = Ninguno]
  /\ nombre' = IF uso = "reglamento" THEN Ninguno ELSE nombre
  /\ Ir(r, [Inactiva EXCEPT !.pc = "respondida", !.uso = uso])
  /\ UNCHANGED archivos

\* getReglamento or getPortalInfo; without a file there is nothing to download
Mostrar(r, uso) ==
  /\ peticion[r].pc = "inactiva"
  /\ nombra[uso] # Ninguno
  /\ Ir(r, [Inactiva EXCEPT !.pc = "descargar", !.uso = uso, !.archivo = nombra[uso]])
  /\ UNCHANGED <<archivos, nombra, nombre>>

\* getStream: a file without its document, or without any, is a 404
Descargar(r) ==
  /\ peticion[r].pc = "descargar"
  /\ A(r, IF archivos[peticion[r].archivo].estado = "listo"
          THEN "descargada" ELSE "noEncontrado")
  /\ UNCHANGED <<archivos, nombra, nombre>>

\* an await rejects, or the instance dies
FallarArchivo(r) ==
  /\ ArchivosConFallos
  /\ peticion[r].pc \in {"subir", "escribir", "fijar", "releer", "descargar"}
  /\ A(r, "error")
  /\ UNCHANGED <<archivos, nombra, nombre>>

Terminar(r) ==
  /\ peticion[r].pc \in {"respondida", "rechazada", "error", "descargada", "noEncontrado"}
  /\ Ir(r, Inactiva)
  /\ UNCHANGED <<archivos, nombra, nombre>>

Paso(r) ==
  \/ (\E f \in Ficheros : Subir(r, f)) \/ EscribirArchivo(r) \/ Fijar(r) \/ Releer(r)
  \/ Descargar(r) \/ FallarArchivo(r) \/ Terminar(r)

NextArchivos ==
  \E r \in Peticiones :
    \/ Paso(r)
    \/ \E uso \in Usos : Eliminar(r, uso) \/ Mostrar(r, uso)
    \/ \E uso \in Usos, tamano \in Tamanos, tipo \in TiposArchivo : Recibir(r, uso, tamano, tipo)

SpecArchivos == InitArchivos /\ [][NextArchivos]_varsArchivos
-----------------------------------------------------------------------------
\* What the building names is a whole file of the type its route takes, and the
\* regulations have the name they were uploaded with, whatever upload has broken
\* off; and who was shown a file can download it, though it was replaced or cleared
\* meanwhile: nothing deletes it.
ReferenciaEntera ==
  /\ \A u \in Usos : nombra[u] # Ninguno =>
       archivos[nombra[u]] = [estado |-> "listo", tipo |-> TipoRuta[u]]
  /\ nombre = nombra["reglamento"]
  /\ \A r \in Peticiones : peticion[r].pc # "noEncontrado"

\* reglamentos.controller.ts:24, "const MAX_PDF_BYTES = 10 * 1024 * 1024": a PDF that
\* the route lets through is stored, when nothing fails.
PdfAdmitidoSeGuarda == \A r \in Peticiones : peticion[r].pc # "error"
-----------------------------------------------------------------------------
(***************************************************************************)
(* The inductive invariant: the file a request holds has been begun by an  *)
(* upload of the type of its route, and is whole before anybody names it.  *)
(***************************************************************************)
EnCamino(p) ==
  /\ p.pc \in {"subir", "escribir", "fijar"} => p.tipo = TipoRuta[p.uso]
  /\ p.pc \in {"escribir", "fijar", "descargar"} =>
       p.archivo # Ninguno /\ archivos[p.archivo].estado # "no"
  /\ p.pc \in {"escribir", "fijar"} => archivos[p.archivo].tipo = p.tipo
  /\ p.pc \in {"fijar", "descargar"} => archivos[p.archivo].estado = "listo"

IInvArchivos == TypeOKArchivos /\ ReferenciaEntera /\ \A r \in Peticiones : EnCamino(peticion[r])
=============================================================================
