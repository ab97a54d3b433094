SPECIFICATION Spec
CONSTANTS
  Height = 4
  TileSize = 8
  Designs <- MCEdges
INVARIANT OneClockEdge
