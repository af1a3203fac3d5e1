SPECIFICATION FairSpec
CONSTANTS
  MaxVersao = 2
  PrazoReenvio = 2
  MaxPilha = 1
  MaxQuedas = 1
  Ambiente = {"erro", "timeout", "queda"}
PROPERTY
  CopiaFiel
