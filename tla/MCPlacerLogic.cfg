SPECIFICATION FairSpec
CONSTANTS
  NGate = 8
  NNet = 3
  TileSize = 2
  MaxLocal = 3
  chipdb <- MCChipdb
  Designs <- MCDesigns
INVARIANTS
  CheckHolds
PROPERTIES
  NoNewClash
  ImplementsPlacement
  ColdSettles
