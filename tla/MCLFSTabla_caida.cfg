SPECIFICATION Spec
CONSTANTS
  Claves = {0}
  NumParticiones = 1
  MaxTimestamp = 2
  MaxInserts = 2
  MaxTemporales = 2
  Red = {}
  Consola = {c1}
  PuedeCaer = TRUE
INVARIANTS Conservado HuecoNoPierde
CHECK_DEADLOCK FALSE
