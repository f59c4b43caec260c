SPECIFICATION Spec
CONSTANTS
  Procesos = {s1, s2}
  Scripts = {s1, s2}
  Lineas <- LineasCortas
  Hilos = {h1, h2, h3}
  QUANTUM = 1
  MULTIPROCESAMIENTO = 2
  Nadie = Nadie
SYMMETRY Simetria
INVARIANTS ColaContada CupoRespetado UnSoloLugar EnOrden
PROPERTY ImplementaRonda
CHECK_DEADLOCK FALSE
