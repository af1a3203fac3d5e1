SPECIFICATION Spec
CONSTANTS
  Hardwares <- MCHardwares
  Softwares <- MCSoftwares
PROPERTIES
  MudancaDetectada
  DiferencaCompleta
