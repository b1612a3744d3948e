CONSTANTS
  Eventos = {e1, e2, e3}
  Nada = Nada
  MaxRecusas = 4
  MaxFalhas = 2
  MaxQuedas = 2
  MaxRasgos = 2
SYMMETRY Simetria
SPECIFICATION Spec
INVARIANTS TypeOK NadaSePerde RasgoCustaUm OrdemPreservada
CHECK_DEADLOCK FALSE
