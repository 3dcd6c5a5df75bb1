SPECIFICATION SpecR
CONSTANTS
  U32Mod = 4096
  NameLenMod = 256
  Keys <- OneKey
  Vals <- TwoVals
  EntCaps = {3}
  ArenaSizes = {0, 96}
  HeapLimit = 140
  Cuts = {28, 44}
INVARIANTS ReadsAll LoopMeetsAll HandlesInv
PROPERTIES ReadsInOrder WholeReaderSafe
