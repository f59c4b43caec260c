SPECIFICATION Spec
CONSTANTS
  Tablas = {t1}
  Clientes = {c1, c2}
  MaxSemaforos = 3
  MaxPedidos = 4
  MaxCuenta = 2
  Nadie = Nadie
INVARIANTS NadieEsperaEnVano SemaforoPorHilo MemtableConTabla Exclusion
  SinCarpetaHueca SinMuertes
PROPERTY BajaLibera
CONSTRAINT ListaEntera
CHECK_DEADLOCK FALSE
