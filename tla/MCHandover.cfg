SPECIFICATION Spec
CONSTANTS
  NGate = 6
  NNet = 8
  TileSize = 2
  MaxLocal = 6
  chipdb <- MCChipdb
  Designs <- MCDesigns
  Placements <- MCPlacements
INVARIANTS
  BitsAgree
  NetsApart
  SourcesOpen
