CONSTANTS
  Eventos = {e1, e2, e3}
  Nada = Nada
  MaxRecusas = 4
  MaxFalhas = 0
  MaxQuedas = 0
  MaxRasgos = 0
SPECIFICATION SpecVivo
PROPERTIES ImplementaEntrega TodoAceitoChega
CHECK_DEADLOCK FALSE
