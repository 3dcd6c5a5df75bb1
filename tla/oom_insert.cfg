SPECIFICATION Spec
CONSTANTS
  U32Mod = 4096
  NameLenMod = 256
  Keys <- SmallKeys
  Vals <- SmallVals
  EntCaps = {2}
  ArenaSizes = {0}
  HeapLimit = 200
INVARIANTS NeverAborts
