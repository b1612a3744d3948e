CONSTANTS
  Nada = Nada
  Workers = {w1}
  Slots = {s1, s2}
  Caminhos = {p1}
  Docs = {d1, d2}
  Vezes <- UmaVez
  Vazios = {}
  Grandes = {}
  ExtInvalida = {}
  Zona = {}
  BaseDe <- BasesDistintas
  BaseAbsoluta = TRUE
  Sobrescreve = FALSE
  MaxConcorrentes = 2
  MaxTentativas = 2
  MaxFalhas = 0
  MaxQuedas = 1
  MaxTicks = 0
  MaxMovidos = 2
  Processos = {c1}
  Permissoes = {k1}
  IdDe <- MesmoId
  MaxCopias = 2
  MaxFalhasConsumidor = 0
  MaxQuedasConsumidor = 0
SPECIFICATION SpecPipeline
INVARIANTS CapturaFiel PerdaZero NenhumCorrompido MensagemTemArquivo
PROPERTIES ImplementaWatcher
CHECK_DEADLOCK FALSE
