SPECIFICATION FairSpec
CONSTANTS
  MaxConexoes = 2
  MaxTentativas = 3
  MaxPedidos = 3
  MaxQuedas = 2
INVARIANTS TypeOK NadaSemLer BotaoDevido
PROPERTIES AckDoFinalizar FinalizarChega BotaoVolta InterfaceTermina
CHECK_DEADLOCK FALSE
