CONSTANTS
  Nada = Nada
  Workers = {w1}
  Slots = {s1, s2}
  Caminhos = {p1, x1}
  Docs = {d1}
  Vezes <- UmaVez
  Vazios = {}
  Grandes = {}
  ExtInvalida = {x1}
  Zona = {}
  BaseDe <- BasesDistintas
  BaseAbsoluta = TRUE
  Sobrescreve = FALSE
  MaxConcorrentes = 2
  MaxTentativas = 2
  MaxFalhas = 1
  MaxQuedas = 1
  MaxTicks = 0
  MaxMovidos = 1
  Processos = {c1}
  Permissoes = {k1}
  IdDe <- MesmoId
  MaxCopias = 1
  MaxFalhasConsumidor = 0
  MaxQuedasConsumidor = 1
SPECIFICATION SpecPipelineVivo
INVARIANT MensagemTemArquivo
 
CHECK_DEADLOCK FALSE
