CONSTANTS
  NodeId = {1, 2, 3}
  Self = 1
  num_partitions = 3
  replication_factor = 1
  Client = {1, 2}
  max_clients = 3
  ClientCapacity = 1
  MaxGrow = 2
  MaxStrays = 1
SPECIFICATION FairSpec
INVARIANTS
  ParsedAsWritten
  TablesSound
PROPERTIES
  ParserEnds
  RebalanceEnds
CHECK_DEADLOCK FALSE
