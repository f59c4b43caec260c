SPECIFICATION SpecSerena
CONSTANTS
  Procesos = {s1, r1, r2}
  Scripts = {s1}
  Lineas <- LineasLargas
  Hilos = {h1, h2}
  QUANTUM = 2
  MULTIPROCESAMIENTO = 2
  Nadie = Nadie
PROPERTIES TodoSeEjecuta TodoVuelveAReposo
CHECK_DEADLOCK FALSE
