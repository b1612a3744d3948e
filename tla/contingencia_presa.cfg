CONSTANTS
  Eventos = {e1, e2, e3}
  Nada = Nada
  MaxRecusas = 2
  MaxFalhas = 0
  MaxQuedas = 1
  MaxRasgos = 0
SPECIFICATION SpecVivo
PROPERTY TodoAceitoChega
CHECK_DEADLOCK FALSE
