SPECIFICATION SpecPartes
CONSTANTS
  q1 = q1
  q2 = q2
  o1 = o1
  o2 = o2
  u1 = u1
  u2 = u2
  u3 = u3
  s1 = s1
  s2 = s2
  ana = ana
  Ana = Ana
  luis = luis
  nada = nada
  Peticiones = {q1, q2}
  Procesos = {q1, q2}
  Edificios = {o1, o2}
  Cuentas = {u1, u2, u3}
  NombresSuper = {ana, Ana}
  TotalPisos = 1
  AptosPorPiso = 1
  AltaConFallos = TRUE
  Nada = nada
  Slugs = {s1, s2}
  Correos = {ana, luis}
  Dias = {1, 3}
  DiasPrueba = 1
  DiasGracia = 1
  MaxDia = 5
  MaxRenovaciones = 2
  SuscripcionConFallos = TRUE
  Recibos = {o1, o2}
  Pagos = {u1}
  Sesiones = {q1, q2}
  MontosRecibo = {1}
  MontosPago = {1, 2}
  Seleccion = {{}}
  Coincide <- MCCoincide
  CreditoInicial = 1
  MaxAceptaciones = 2
  MaxEnVuelo = 2
  ConFallos = FALSE
  NoExiste = nada
  NoCache = nada
  NoPago = nada
SYMMETRY MCSimetria
INVARIANTS
  IncompletoConCausa
  UnSuperAdmin
  HistorialExplica
  VencidoConRazon
  CategoriaExplicada
PROPERTIES
  SoloAdelantadosPisan
  SoloRenovarLevanta
