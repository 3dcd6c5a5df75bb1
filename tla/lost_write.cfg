SPECIFICATION Spec
CONSTANTS
  p1 = p1  p2 = p2
  db = db  t1 = t1  t2 = t2
  Tools = {p1, p2}
  Keys = {k1}
  Vals = {v1, v2}
  TmpNames <- SameSecond
  Inodes = {i1, i2, i3}
  InitImages <- InitImagesC
  DbName = db
  NoInode = NoInode  NoImage = NoImage  NoHdr = NoHdr  Hole = Hole
  Exclusive = TRUE
  DiskMayFill = TRUE
SYMMETRY Symmetry
INVARIANTS DumpOKMeansMaps
