SPECIFICATION FairSpec
CONSTANTS
  MaxVersao = 2
  PrazoReenvio = 2
  MaxPilha = 1
  MaxQuedas = 0
  Ambiente = {"erro", "mapa"}
INVARIANT DataSoDepoisDaEntrega
PROPERTY
  EntregaEventual
