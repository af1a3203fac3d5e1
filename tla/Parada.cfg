SPECIFICATION FairSpec
CONSTANTS
  MaxTentativas = 1
  MaxPedidos = 2
INVARIANTS TypeOK StatusVerdadeiro DespertarGarantido RespostaDevida
PROPERTIES ParadaTermina InterfaceAcaba ChamadaVolta UmSustentaOutro CicloDosServicos
CHECK_DEADLOCK FALSE
