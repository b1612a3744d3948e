CONSTANTS
  Processos = {c1}
  Slots = {s1}
  Mensagens = {"divergente"}
  Invalidas = {}
  Nomes = {"n1", "n2"}
  Docs = {"d1", "d2", "outro"}
  NomeDe <- NomesDasMensagens
  HashDe <- HashesAnunciados
  ConteudoDe <- ConteudosGuardados
  ReciboAoAlcance <- RecibosDeUmWorker
  Nada = Nada
  MaxFalhas = 0
  MaxQuedas = 1
SPECIFICATION SpecVivo
PROPERTY RejeitadaChegaDlq
CHECK_DEADLOCK FALSE
