SPECIFICATION FairSpec
CONSTANTS
  MaxVersao = 2
  MaxQuedas = 0
  Publicaveis = {"cacic-service", "chksys"}
  Instalados = {"cacic-service", "gercols", "chksys"}
  Ambiente = {}
PROPERTY ServicoSempreVolta
CHECK_DEADLOCK FALSE
