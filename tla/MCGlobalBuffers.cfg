SPECIFICATION BuffersSpec
CONSTANTS
  Network <- MCNetwork
  Classes <- MCClasses
  Blocked <- MCBlocked
  do_promote = TRUE
  Designs <- MCDesigns
INVARIANTS
  TypeOK
  QuotaCounts
  InputsReached
  BuffersFit
  PromotedFit
PROPERTIES
  NoOverbooking
