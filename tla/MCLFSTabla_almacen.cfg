SPECIFICATION SpecEquitativa
CONSTANTS
  Claves = {0, 1}
  NumParticiones = 2
  MaxTimestamp = 2
  MaxInserts = 3
  MaxTemporales = 3
  Red = {s1}
  Consola = {}
  PuedeCaer = FALSE
CONSTRAINT Interesa
INVARIANTS SinMuertes Exclusion
PROPERTIES ImplementaAlmacen TodoCompactado SelectTermina
CHECK_DEADLOCK FALSE
