\* Two writers allocating node and copy ids, with crashes and recovery.
CONSTANTS
  t1 = t1
  t2 = t2
  p1 = p1
  p2 = p2
  None = None
  Absent = Absent
  Txns <- MCTxns
  Paths <- MCPaths
  MaxRev = 2
  MaxIds = 2

SPECIFICATION Spec

INVARIANT TypeOK
INVARIANT NodeIdsUnique
INVARIANT SuccessorLineage
INVARIANT ChangesMatchIds
PROPERTY RefinesRepoHistory
