CONSTANTS
  Nada = Nada
  Workers = {w1}
  Slots = {s1, s2}
  Caminhos = {p1}
  Docs = {d1, v1}
  Vezes <- UmaVez
  Vazios = {v1}
  Grandes = {}
  ExtInvalida = {}
  Zona = {}
  BaseDe <- BasesDistintas
  BaseAbsoluta = TRUE
  Sobrescreve = FALSE
  MaxConcorrentes = 2
  MaxTentativas = 2
  MaxFalhas = 0
  MaxQuedas = 0
  MaxTicks = 0
  MaxMovidos = 2
SYMMETRY Simetria
SPECIFICATION Spec
INVARIANT IgnoradosSoInvalidos
CHECK_DEADLOCK FALSE
