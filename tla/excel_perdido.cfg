SPECIFICATION SpecJusta
CONSTANTS
  j1 = j1
  j2 = j2
  w1 = w1
  w2 = w2
  Trabajos = {j1}
  Turnos = {w1, w2}
  MaxEstancos = 1
  MaxVersion = 1
  ConFallos = TRUE
  ConDemoras = FALSE
  NoExiste = NoExiste
  Nadie = Nadie
PROPERTY NoSePierde
CHECK_DEADLOCK FALSE
