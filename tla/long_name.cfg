SPECIFICATION Spec
CONSTANTS
  U32Mod = 4096
  NameLenMod = 8
  Keys <- LongKeys
  Vals <- OneVal
  EntCaps = {2}
  ArenaSizes = {96}
  HeapLimit = 200
INVARIANTS EntriesStayValid
