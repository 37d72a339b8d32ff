CONSTANTS
  Thread = {1, 2}
  ConnId = {1, 2, 3}
  min_connections = 1
  max_connections = 1
  MaxQueries = 3
  Query = {1, 2, 3}
  HashOf <- QueryHash
  TablesOf <- QueryTables
  Table = {"t", "u"}
  ResultSize = {1, 2}
  RESULT_CACHE_SIZE = 2
  MaxMemory = 3
  Width = 16
  RESULT_CACHE_TTL = 0
  MaxTime = 1
  UserName = {"admin", "u"}
  Password = {"A", "B"}
  WeakPassword = {"B"}
  RoleName = {"r", "superadmin"}
  Conn = {1, 2}
  Address = {1}
  AddressOf <- OneAddress
  SECURITY_MAX_USERS = 2
  SECURITY_MAX_ROLES = 7
  SECURITY_MAX_SESSIONS = 2
  MaxUserRoles = 2
  max_failed_attempts = 1
  MAX_LOGIN_ATTEMPTS = 1
  lockout_duration = 1
  session_timeout = 0
  MAX_CLIENTS = 1
  LastTime = 1
  MaxCalls = 3
  Sizes = {0, 1, 2, 3, 4, 5}
  NET_HEADER_SIZE = 2
  InitialCapacity = 3
  NET_MAX_MESSAGE_SIZE = 7
  RecvBuffer = 5
  MaxMessages = 3
  StmtConn = {1}
  StmtName = {1, 2}
  Template <- Templates
  ParamValue <- ParamValues
  MAX_PARAMETERS = 2
  MAX_PREPARED_STMTS = 2
  CacheKey = {"k", "l"}
  STMT_CACHE_SIZE = 1
  IndexOf <- KeyIndex
  SizeOfKey <- KeySize
SPECIFICATION Spec
INVARIANTS
  
  CacheServesLastPut
  StatementsFaithful
  ConnectionsExclusive
  
  
CHECK_DEADLOCK FALSE
