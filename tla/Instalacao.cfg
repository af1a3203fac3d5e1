SPECIFICATION FairSpec
CONSTANTS
  MaxPedidos = 1
  MaxQuedas = 1
INVARIANTS
  TypeOK
  RodandoInteiro
PROPERTIES
  SaSoInstalaConferido
  SaConserta
  VigiaRepara
