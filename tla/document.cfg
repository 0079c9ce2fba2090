SPECIFICATION Spec
CONSTANTS
  Floats        <- FloatRange
  Instants      <- InstantRange
  Schemas       <- TwoVersions
  EffectiveDate <- LaterVersions
  Published     = {1}
  LookupConfigs <- BothLookups
  Contents      <- ReferenceTables
  MaxTime       = 2
  Values        <- JSONValues
  Documents     <- WaferDocuments
  MaxDocuments  = 2
INVARIANTS
  TypeOK
  DefinitionOfOneVersion
  RecordsFollowDocument
  RefusedForAnError
  NeverWithoutRecord
  LookupWithinTTL
  DataErrorNotRetried
CHECK_DEADLOCK FALSE
