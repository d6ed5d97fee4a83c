SPECIFICATION Spec
CONSTANTS
  e1 = e1
  e2 = e2
  t1 = t1
  t2 = t2
  l1 = l1
  l2 = l2
  Peticiones = {"aceptar"}
  Escritores = {e1}
  Tareas = {t1, t2}
  Lectores = {l1, l2}
  Intentos = 8
  MaxPeticiones = 1
  ConFallos = FALSE
  ConDemoras = FALSE
  NoExiste = NoExiste
  NoCache = NoCache
  Libre = Libre
INVARIANT UnSoloRebuild
CHECK_DEADLOCK FALSE
