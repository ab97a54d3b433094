SPECIFICATION Spec
CONSTANTS
  NGate = 6
  NNet = 8
  TileSize = 2
  MaxLocal = 6
  chipdb <- MCChipdb
  Designs <- LatchDesigns
  Placements <- MCPlacements
INVARIANTS
  NetsApart
