SPECIFICATION Spec
CONSTANTS
  MaxLength = 2
  Unit = 20
  M = 3
  Moves = 4
  Hot = 9
  Low = 5
  Cold = 2
  Zero = 0
PROPERTIES
  AnnealingEnds
