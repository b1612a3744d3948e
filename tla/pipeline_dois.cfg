CONSTANTS
  Nada = Nada
  Workers = {w1, w2}
  Slots = {s1}
  Caminhos = {p1}
  Docs = {d1, d2}
  Vezes <- UmaVez
  Vazios = {}
  Grandes = {}
  ExtInvalida = {}
  Zona = {}
  BaseDe <- BasesDistintas
  BaseAbsoluta = TRUE
  Sobrescreve = FALSE
  MaxConcorrentes = 1
  MaxTentativas = 2
  MaxFalhas = 0
  MaxQuedas = 0
  MaxTicks = 0
  MaxMovidos = 2
  Processos = {c1}
  Permissoes = {k1}
  IdDe <- MesmoId
  MaxCopias = 1
  MaxFalhasConsumidor = 0
  MaxQuedasConsumidor = 0
SPECIFICATION SpecPipeline
INVARIANT PerdaZero
CHECK_DEADLOCK FALSE
