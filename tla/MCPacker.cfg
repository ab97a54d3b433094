SPECIFICATION Spec
CONSTANTS
  Height = 4
  TileSize = 2
  Designs <- MCDesigns
INVARIANTS
  TypeOK
  Asserts
  CellsOnce
  DedicatedWires
  ControlsAgree
  SameLogic
  LoopsReported
