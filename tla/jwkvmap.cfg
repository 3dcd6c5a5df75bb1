SPECIFICATION SpecI
CONSTANTS
  k1 = k1  k2 = k2  k3 = k3
  v1 = v1  v2 = v2
  Keys = {k1, k2, k3}
  Vals = {v1, v2}
  KeyLen <- MCKeyLen
  ValLen <- MCValLen
  Hash <- MCHash
  Slots = {s1, s2, s3}
  RehashSizes = {3}
  MaxBuckets = 4
  SizeMod = 4
  U32Mod = 4096
  Free = Free
  NoVal = NoVal
  NoCall = NoCall  NoHeld = NoHeld  NoLoop = NoLoop  Start = Start  Over = Over
SYMMETRY HeapSymmetry
INVARIANTS TypeOK Placed SlotsOwned BucketsCount CountDrift SlotsFit HeldStable
PROPERTIES ImplementsMap LoopMeetsEachOnce
