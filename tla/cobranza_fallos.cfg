SPECIFICATION Spec
CONSTANTS
  e1 = e1
  e2 = e2
  t1 = t1
  t2 = t2
  l1 = l1
  l2 = l2
  Peticiones = {"aceptar", "reportarPago"}
  Escritores = {e1, e2}
  Tareas = {t1, t2}
  Lectores = {l1}
  Intentos = 1
  MaxPeticiones = 2
  ConFallos = TRUE
  ConDemoras = TRUE
  NoExiste = NoExiste
  NoCache = NoCache
  Libre = Libre
SYMMETRY MCSimetria
INVARIANTS
  UnSoloTitular
  CacheTrasSnapshot
  ReposoFresco
PROPERTY SnapshotAvanza
CHECK_DEADLOCK FALSE
