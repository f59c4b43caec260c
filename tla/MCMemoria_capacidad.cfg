SPECIFICATION Spec
CONSTANTS
  Tablas = {t1, t2}
  Claves = {k1, k2}
  Hilos = {servidor}
  max_paginas_disponibles = 2
  MaxTimestamp = 3
  MaxTransito = 2
  RelojEstricto = TRUE
  LFSPuedeCaer = FALSE
  LFSGuardaLargos = FALSE
SYMMETRY Simetria
INVARIANT CapacidadRespetada
CHECK_DEADLOCK FALSE
