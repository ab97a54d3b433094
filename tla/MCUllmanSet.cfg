SPECIFICATION Spec
CONSTANT Cap = 4
INVARIANT TypeOK
INVARIANT ContainsIsMembership
PROPERTY ImplementsSet
