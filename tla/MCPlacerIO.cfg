SPECIFICATION Spec
CONSTANTS
  NGate = 5
  NNet = 2
  TileSize = 8
  MaxLocal = 29
  chipdb <- MCChipdb
  Designs <- MCDesigns
PROPERTIES
  NoNewClash
  ImplementsPlacement
