SPECIFICATION Spec
CONSTANTS
  l1 = l1
  l2 = l2
  l3 = l3
  k1 = k1
  k2 = k2
  Loads = {l1, l2, l3}
  Keys = {k1, k2}
  Batch <- CrossedBatches
  LoadTypes = {"SCD2"}
INVARIANT OneCurrentRow
CHECK_DEADLOCK FALSE
