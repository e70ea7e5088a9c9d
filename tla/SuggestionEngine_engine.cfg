CONSTANTS
  Null = Null
  caja = caja
  disponible = disponible
  gastosDiferidos = gastosDiferidos
  arriendo = arriendo
  gastosArriendo = gastosArriendo
  costoDeVentas = costoDeVentas
  banco = banco
  cuentasPorPagar = cuentasPorPagar
  cuentasPorPagarVarias = cuentasPorPagarVarias
  prestamoCorriente = prestamoCorriente
  obligacionCorriente = obligacionCorriente
  Names <- MCNames
  About <- MCAbout
  Likeness <- MCLikeness
  Chapter <- MCChapter
  Catalogues <- MCCatalogues
  Knowledge <- MCKnowledge
  Curated <- MCCurated
  Concepts <- MCConcepts
  Learned <- MCLearned
  Rules <- MCRules
  PublishedRows <- MCRows
  FirstNames = {caja}
  Decidable = {1, 6}
  Orders <- MCOrders
  MaxConfirms = 2
SPECIFICATION EngineSpec
INVARIANTS WinnerIgnoresOrder HistoryKeepsItsCode ActiveFitsBalance AuditExplains
           RankedAreKept LeadIsClear
