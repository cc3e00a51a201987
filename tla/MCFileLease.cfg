SPECIFICATION FairSpec
CONSTANTS
  p1 = p1
  p2 = p2
  a1 = a1
  a2 = a2
  b1 = b1
  None = None
  Procs <- MCProcs
  Threads <- MCThreads
  ProcOf <- MCProcOf
  MaxDepth = 2
INVARIANTS
  MutualExclusion
  RecoveryEvidenceExact
  LeaseInvariant
PROPERTIES
  ImplementsLease
  CallsReturn
