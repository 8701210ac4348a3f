\* Two writers racing to commit against one path, with crashes and recovery.
CONSTANTS
  t1 = t1
  t2 = t2
  p1 = p1
  c1 = c1
  c2 = c2
  k1 = k1
  k2 = k2
  k3 = k3
  None = None
  Absent = Absent
  Txns <- MCTxns
  Paths <- MCPaths
  Contents <- MCContents
  RepKeys <- MCRepKeys
  MaxRev = 2

SPECIFICATION Spec

INVARIANT TypeOK
INVARIANT ChangedPathsComplete
INVARIANT YoungestOnDisk
INVARIANT MutableRepsPrivate
PROPERTY LockReleased
PROPERTY RefinesRepoHistory
