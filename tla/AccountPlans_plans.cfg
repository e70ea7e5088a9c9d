SPECIFICATION Spec
CONSTANTS
  SiiFiles = {"sii1", "sii2"}
  Catalogue <- MCCatalogue
  PlanFiles = {"plan1"}
  Rows <- MCRows
  Codes = {"1", "2"}
  Names = {"caja", "fondo", "Banco", "banco", "el banco"}
  Normal <- MCNormal
  Long = {"banco"}
  Includes <- MCIncludes
  Importers = {i1, i2}
  Requests = {r1, r2}
  RelationWins = TRUE
  BalanceCodes = {"2"}
  None = None
INVARIANTS
  OneCurrent
  ReadyIsWhole
  MappingCoherent
PROPERTIES
  CatalogueStays
CHECK_DEADLOCK FALSE
SYMMETRY Symmetry
