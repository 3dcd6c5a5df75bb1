SPECIFICATION Spec
CONSTANTS
  U32Mod = 4096
  NameLenMod = 8
  Keys <- WideKeys
  Vals <- WideVals
  EntCaps = {1, 2, 3}
  ArenaSizes = {0, 50, 96}
  HeapLimit = 200
INVARIANTS StatesTrackRecords CompactionHasRoom IndInv ErrCodeIsLastResult
PROPERTIES FailedCallsChangeNothing RecordsImmutable
