SPECIFICATION SpecPartes
CONSTANTS
  j1 = j1
  w1 = w1
  w2 = w2
  e1 = e1
  t1 = t1
  t2 = t2
  l1 = l1
  i1 = i1
  i2 = i2
  c1 = c1
  c2 = c2
  f1 = f1
  nada = nada
  NoExiste = NoExiste
  Nadie = Nadie
  NoCache = NoCache
  LibreCerrojo = LibreCerrojo
  Trabajos = {j1}
  Turnos = {w1, w2}
  MaxEstancos = 2
  MaxVersion = 2
  ConFallos = TRUE
  ConDemoras = TRUE
  Escritores = {e1}
  Tareas = {t1, t2}
  Lectores = {l1}
  Intentos = 2
  MaxPeticiones = 1
  Servidores = {i1, i2}
  Llamadas = {c1, c2}
  Filtros = {f1}
INVARIANTS
  ArchivosPorEntrega
PROPERTIES
  ResultadoFirme
  TerminaOSePierde
  CacheConverge
  LectorResponde
  CerrojoSeLibera
  SiempreRespondida
  ListadoConverge
CHECK_DEADLOCK FALSE
