SPECIFICATION SpecObjects
CONSTANTS
  Fds <- MCFds
  Std <- MCStd
  Bases = {a1, a2, a3}
  Mappers = {m1, m2}
  Closed = Closed
  NULL = NULL
  Objs = {o1, o2}
  Blocks = {a1, a2, a3}
  Vals = {v1, v2}
  MaxEntries = 2
  Capacity = 4
  SizeofNode = 2
  Root = Root
  Names = {"k0", "k3", "k70", "k75"}
  NameLen <- MCNameLen
  NameLenMod = 72
  U32Mod = 4096
  HeapLimit = 512
  MaxKeys = 3
  Bytes = {1, 2}
  BufSize = 3
  Pools = {q1, q2}
  Arrays = {r1, r2}
  MaxCapacity = 3
  NULL_IDX = NULL_IDX
  Vecs = {w1, w2}
  Elems = {e1, e2}
  Addrs = {a1, a2, a3}
  MaxCap = 4
  N = 3
  Zero = Zero
SYMMETRY AddrSymmetry
CHECK_DEADLOCK FALSE
INVARIANTS ObjectTypes MappersOwn FdsAccounted OwnersSound PoolsAccounted WellLinked
PROPERTY ContentsKept
