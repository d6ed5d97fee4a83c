SPECIFICATION SpecCausas
CONSTANTS
  r1 = r1
  r2 = r2
  p1 = p1
  p2 = p2
  s1 = s1
  s2 = s2
  Recibos = {r1, r2}
  Pagos = {p1, p2}
  Sesiones = {s1, s2}
  MontosRecibo = {3}
  MontosPago = {1, 4}
  Seleccion = {{}}
  Coincide <- MCCoincide
  CreditoInicial = 1
  MaxAceptaciones = 2
  MaxEnVuelo = 2
  ConFallos = TRUE
  NoExiste = NoExiste
  NoCache = NoCache
  NoPago = NoPago
SYMMETRY MCSimetriaCausas
INVARIANTS
  SaldoAcotado
  EstadoCoherente
  PendienteNoMueve
  LibroCuadra
  UnAbonoPorAceptacion
  TodoCuadra
PROPERTIES
  SoloSolapadasPierden
  LibroSalvoCausas
CHECK_DEADLOCK FALSE
