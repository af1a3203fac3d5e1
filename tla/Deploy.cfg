SPECIFICATION FairSpec
CONSTANTS
  N = 2
  ComPrazo = {1}
  Adiaveis = {2}
  MaxPilha = 2
  MaxSinais = 2
  Erros = TRUE
INVARIANTS TypeOK UmPorVez TemporizadorDevido PrazoDoDono
PROPERTIES TemporizadorVolta VencidosRodam
