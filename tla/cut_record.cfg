SPECIFICATION SpecR
CONSTANTS
  U32Mod = 4096
  NameLenMod = 256
  Keys <- OneKey
  Vals <- OneVal
  EntCaps = {2}
  ArenaSizes = {60}
  HeapLimit = 140
  Cuts = {28}
PROPERTIES CutRecordIsEnd
