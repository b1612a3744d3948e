CONSTANTS
  Workers = {w1, w2, w3}
  Nada = Nada
  CicloLento = FALSE
  MaxFalhas = 1
  MaxQuedas = 2
  MaxObsoletos = 3
SPECIFICATION SpecVivo
INVARIANT ExclusivoAteVencer
PROPERTY SempreAlguemVarre
