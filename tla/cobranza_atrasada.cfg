SPECIFICATION SpecJusta
CONSTANTS
  e1 = e1
  e2 = e2
  t1 = t1
  t2 = t2
  l1 = l1
  l2 = l2
  Peticiones = {"emitir", "aceptar"}
  Escritores = {e1, e2}
  Tareas = {t1, t2}
  Lectores = {}
  Intentos = 8
  MaxPeticiones = 2
  ConFallos = FALSE
  ConDemoras = FALSE
  NoExiste = NoExiste
  NoCache = NoCache
  Libre = Libre
PROPERTY SnapshotSeActualiza
CHECK_DEADLOCK FALSE
