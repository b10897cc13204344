SPECIFICATION FairSpec
CONSTANTS
  Width = 4
  Retries = 1
  MaxRequests = 2
  MaxConns = 2
  Protocols = {"3.3", "3.4"}
INVARIANTS
  TypeOK
  IInv
  ReplyIsOwn
  OneConnection
  HealthIsTruthful
  SessionLeavesNoConnection
PROPERTIES
  KeepsRequests
  ExchangesEnd
  DeafIsNoticed
CHECK_DEADLOCK FALSE
