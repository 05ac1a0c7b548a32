SPECIFICATION Spec
CONSTANTS
  ColumnsOf <- MCColumnsOf
  Catalogs <- MCCatalogs
  Aliases = {"x"}
  MaxNodes = 3
  EagerShredding = TRUE
  Expressed = {"year", "paths", "predicate"}
  History = 4
  MaxQueries = 8
  Partitions = {p1, p2}
  RowGroups = {g1, g2}
  RowSets <- MCRowSets
  Layouts <- MCLayouts
  Splits <- MCSplits
  Conjuncts <- MCConjuncts
  VariantFiles <- MCVariantFiles
  RequestLists <- MCRequestLists
  Mappings <- MCMappings
  Exercised = {"plan"}
CHECK_DEADLOCK FALSE
INVARIANT OnlyUsedViaExtract
