CONSTANTS
  Processos = {c1, c2}
  Slots = {s1}
  Mensagens = {"original", "divergente", "invalida"}
  Invalidas = {"invalida"}
  Nomes = {"n1", "n2"}
  Docs = {"d1", "d2", "outro"}
  NomeDe <- NomesDasMensagens
  HashDe <- HashesAnunciados
  ConteudoDe <- ConteudosGuardados
  ReciboAoAlcance <- RecibosDeUmWorker
  Nada = Nada
  MaxFalhas = 1
  MaxQuedas = 1
SPECIFICATION SpecVivo
INVARIANTS TypeOK BancoNaoMente ConfirmadaSoDepois CopiaSoSaiGuardada
PROPERTIES MensagemSeResolve NadaFicaRetido
CHECK_DEADLOCK FALSE
