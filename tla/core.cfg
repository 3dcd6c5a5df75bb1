SPECIFICATION Spec
CONSTANTS
  U32Mod = 4096
  NameLenMod = 256
  Keys <- SmallKeys
  Vals <- SmallVals
  EntCaps = {0, 2, 3}
  ArenaSizes = {0, 62, 96}
  HeapLimit = 200
INVARIANTS TypeOK RecordsChained EntriesStayValid BufLenWithinBufSize FitInv
PROPERTIES ImplementsLog CompactTerminates
