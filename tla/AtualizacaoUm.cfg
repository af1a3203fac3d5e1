SPECIFICATION FairSpec
CONSTANTS
  MaxVersao = 3
  MaxQuedas = 0
  Publicaveis = {"cacic-service", "gercols"}
  Instalados = {"cacic-service", "gercols", "chksys"}
  Ambiente = {"download"}
INVARIANT UmVivo
PROPERTY ServicoSempreVolta TudoAtualizado
