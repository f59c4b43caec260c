SPECIFICATION Spec
CONSTANTS
  m1 = m1
  m2 = m2
  m3 = m3
  Memorias = {m1, m2, m3}
  Semillas <- Cadena
  Basura = Basura
  MaxCaidas = 1
  Nadie = Nadie
CONSTRAINT Interesa
INVARIANTS TablaSana SinMuertes
PROPERTIES NadieOlvida Convergencia
