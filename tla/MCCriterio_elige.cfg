SPECIFICATION Spec
CONSTANTS
  tsc = tsc
  tshc = tshc
  tneg = tneg
  Memorias = {0, 1}
  Numeros = {0, 1}
  PrimeraMemoria = 1
  Tablas = {tsc, tshc, tneg}
  Consistencia <- UnaDeCada
  SumaAscii <- Letras
  Hilos = {h1, h2}
  Refrescos = {}
  MaxAltas = 2
  MaxReferencia = 2
  Nadie = Nadie
SYMMETRY Simetria
CONSTRAINT Interesa
INVARIANTS SinMuertes Reparto UnaSolaSC
PROPERTIES EligeDelPool SeLeeDondeSeEscribio CaidaSale
CHECK_DEADLOCK FALSE
