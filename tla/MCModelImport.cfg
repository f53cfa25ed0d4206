SPECIFICATION Spec
CONSTANTS
  MaxWord = 20479
  MaxLayers = 2
  MaxTensors = 40
  Importers = {p, q}
  Sources <- MCSources
  MaxChanges = 2
  MaxLosses = 1
CHECK_DEADLOCK FALSE
INVARIANTS
  PackageIsOneSource
PROPERTIES
  PublishedOpens
  PublishedStays
SYMMETRY Symmetry
