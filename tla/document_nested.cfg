SPECIFICATION Spec
CONSTANTS
  Floats        <- FloatRange
  Instants      <- InstantRange
  Schemas       <- NestedVersion
  EffectiveDate <- OneVersion
  Published     = {1}
  LookupConfigs = {}
  Contents      <- ReferenceTables
  MaxTime       = 1
  Values        <- JSONValues
  Documents     <- DefectDocuments
  MaxDocuments  = 1
INVARIANT OneRecordPerLeaf
CHECK_DEADLOCK FALSE
