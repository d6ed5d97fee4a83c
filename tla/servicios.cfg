SPECIFICATION SpecPartes
CONSTANTS
  r1 = r1
  r2 = r2
  o1 = o1
  o2 = o2
  u1 = u1
  u2 = u2
  u3 = u3
  i1 = i1
  i2 = i2
  e1 = e1
  l1 = l1
  ana = ana
  luis = luis
  k1 = k1
  k2 = k2
  nada = nada
  Peticiones = {r1, r2}
  Procesos = {r1, r2}
  Duenos = {o1, o2}
  Correos = {ana, luis}
  Admins = {luis}
  Contrasenas = {k1, k2}
  Pisos = {1, 2}
  Numeros = {1, 2}
  Apartamentos <- MCApartamentos
  Cambios <- MCCambios
  NoDado = nada
  Dispositivos = {"movil"}
  Avisos = {"aviso"}
  Edificios = {"este", "otro"}
  EdificioDe <- MCEdificioDe
  Visitas = {r1, r2}
  MaxHora = 2
  AvisosConFallos = TRUE
  Nulo = nada
  Lecturas = {o1, o2}
  Envios = {r1, r2}
  Imagenes = {"imagen"}
  MaxIntentos = 2
  OcrConFallos = TRUE
  SinPrediccion = nada
  Instancias = {i1, i2}
  SinRedis = {i2}
  Escritores = {e1}
  Lectores = {l1}
  Filtros = {"todos"}
  MaxVersion = 1
  ConFallos = FALSE
  Servidores = {i1}
  Llamadas = {r1, r2}
  MaxDia = 1
  Fechas = {1}
  MaxDiasHistoria = 2
  TasaConFallos = TRUE
  Ninguna = nada
  Ficheros = {u1, u2, u3}
  ArchivosConFallos = TRUE
  Ninguno = nada
SYMMETRY MCSimetria
INVARIANTS
  DomicilioValido
  TablaViva
  TasaConCausa
  LeidoNoVuelve
  ReferenciaEntera
  ViejaConExcusa
  UnPagoPorComprobante
  UnRegistroPorPrediccion
PROPERTIES
  BajaFirme
  EntradaVigente
  NuevoSeCuenta
