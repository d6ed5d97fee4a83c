SPECIFICATION SpecArchivos
CONSTANTS
  r1 = r1
  r2 = r2
  f1 = f1
  f2 = f2
  f3 = f3
  nada = nada
  Peticiones = {r1}
  Ficheros = {f1}
  ArchivosConFallos = FALSE
  Ninguno = nada
INVARIANTS
  PdfAdmitidoSeGuarda
