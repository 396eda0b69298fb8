SPECIFICATION FairSpec
CONSTANTS
  api = api
  worker = worker
  oldApi = oldApi
  Nobody = Nobody
  Processes <- ThreeProcesses
  Embedded <- Rolling
  PoolSize = 2
  MaxFailures = 2
CHECK_DEADLOCK FALSE
INVARIANTS
  IInv
  SchemaIsPrefix
  ServingHasSchema
  OneMigratorAtATime
  NoBootIsStuck
PROPERTIES
  SchemaOnlyGrows
  BootsMakeProgress
  EveryProcessServes
