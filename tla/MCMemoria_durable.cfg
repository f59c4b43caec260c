SPECIFICATION Spec
CONSTANTS
  Tablas = {t1, t2}
  Claves = {k1, k2}
  Hilos = {servidor}
  max_paginas_disponibles = 1
  MaxTimestamp = 3
  MaxTransito = 2
  RelojEstricto = TRUE
  LFSPuedeCaer = FALSE
  LFSGuardaLargos = TRUE
SYMMETRY Simetria
INVARIANTS EscrituraConservada CapacidadAcotada
CHECK_DEADLOCK FALSE
