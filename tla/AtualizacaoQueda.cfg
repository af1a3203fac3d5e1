SPECIFICATION Spec
CONSTANTS
  MaxVersao = 2
  MaxQuedas = 1
  Publicaveis = {"cacic-service", "chksys"}
  Instalados = {"cacic-service"}
  Ambiente = {"download", "queda", "sobreposta"}
INVARIANT TypeOK VersaoEmExecucao
CHECK_DEADLOCK FALSE
