SPECIFICATION Spec
CONSTANTS
  Tablas = {t1}
  Claves = {k1, k2, k3}
  Hilos = {servidor, consola}
  max_paginas_disponibles = 2
  MaxTimestamp = 1
  MaxTransito = 2
  RelojEstricto = FALSE
  LFSPuedeCaer = TRUE
  LFSGuardaLargos = FALSE
CONSTRAINT SinSolapes
SYMMETRY Simetria
INVARIANTS ClaveUnica Contabilidad
PROPERTY SoloPierdePorEmpate
