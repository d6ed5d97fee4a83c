SPECIFICATION SpecCausas
CONSTANTS
  r1 = r1
  r2 = r2
  p1 = p1
  p2 = p2
  s1 = s1
  s2 = s2
  Recibos = {r1, r2}
  Pagos = {p1, p2}
  Sesiones = {s1}
  MontosRecibo = {0, 1, 2}
  MontosPago = {1, 3}
  Seleccion <- MCSeleccion
  Coincide <- MCCoincide
  CreditoInicial = 1
  MaxAceptaciones = 3
  MaxEnVuelo = 1
  ConFallos = FALSE
  NoExiste = NoExiste
  NoCache = NoCache
  NoPago = NoPago
INVARIANT CacheAlDia
PROPERTY LlevaElLibro
