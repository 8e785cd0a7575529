SPECIFICATION Spec
CONSTANTS
  Clients <- MCClients
  MaxHeaderBytes = 4
  MaxHeaderFields = 2
INVARIANTS AdmittedAsDocumented AskedOnlyForBodylessReads
PROPERTY EarlierGatesKeepPrecedence
CHECK_DEADLOCK FALSE
