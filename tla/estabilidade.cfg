CONSTANTS
  Valores = {a, b}
  Leituras = 3
  Grao = 2
  TamanhoMaximo = 2
  Nada = Nada
  MaxEscritas = 3
  MaxAtrasos = 1
SPECIFICATION SpecVivo
INVARIANT TypeOK
PROPERTIES HashDeUmInstante SempreAcaba
CHECK_DEADLOCK FALSE
