CONSTANTS
  Nada = Nada
  Workers = {w1}
  Slots = {s1, s2}
  Caminhos = {p1, z1}
  Docs = {d1, g1}
  Vezes <- UmaVez
  Vazios = {}
  Grandes = {g1}
  ExtInvalida = {}
  Zona = {z1}
  BaseDe <- BasesDistintas
  BaseAbsoluta = FALSE
  Sobrescreve = TRUE
  MaxConcorrentes = 2
  MaxTentativas = 2
  MaxFalhas = 1
  MaxQuedas = 1
  MaxTicks = 1
  MaxMovidos = 1
SYMMETRY Simetria
SPECIFICATION Spec
INVARIANTS TypeOK ClaimsExatos ReciboSoDepoisDeAceito OrfaoTemTratador
PROPERTY NadaSeSobrescreve
CHECK_DEADLOCK FALSE
