SPECIFICATION Spec
CONSTANTS
  NGate = 4
  NNet = 6
  TileSize = 8
  MaxLocal = 29
  MaxLines = 4
  chipdb <- MCChipdb
  Designs <- MCDesigns
INVARIANTS
  AcceptedIsLegal
  RefusedIsIllegal
