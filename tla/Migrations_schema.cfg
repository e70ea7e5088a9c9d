CONSTANT MaxEvents = 1
SPECIFICATION SchemaSpec
INVARIANTS
  RefusedRevertsAreWhole
  EntitiesFit
