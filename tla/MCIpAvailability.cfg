CONSTANTS
  Cidr <- MCCidr
  Pools <- MCPools
SPECIFICATION Spec
INVARIANTS TypeOK PoolPartition MaximalRuns
PROPERTY ImplementsPool
