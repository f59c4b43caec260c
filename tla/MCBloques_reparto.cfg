SPECIFICATION Spec
CONSTANTS
  Tablas = {t1, t2}
  Clientes = {c1}
  Volcador = volcador
  BLOCKS = 3
  AnchoByte = 4
  MaxPorArchivo = 2
  MaxPedidos = 5
  Nadie = Nadie
CONSTRAINT Interesa
SYMMETRY Simetria
INVARIANTS SemaforosConDueno SinCompartir SinFuga ContenidoPropio
