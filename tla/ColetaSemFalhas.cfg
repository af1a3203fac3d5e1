SPECIFICATION Spec
CONSTANTS
  MaxVersao = 3
  PrazoReenvio = 3
  MaxPilha = 3
  MaxQuedas = 0
  Ambiente = {}
INVARIANTS
  TypeOK
  NadaEsquecido
PROPERTY SemRegresso
