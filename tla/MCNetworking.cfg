SPECIFICATION NetSpec
CONSTANTS
  Clients = {"c1", "c2"}
  Channels = {"ch"}
  Patterns = {"p*"}
  Matches <- MCMatches
  Messages <- MCMessages
  Scripts <- MCScripts
  MaxClients = {0, 1}
  IobufLen = 3
  RequestMaxSize = 4
  GlueReplyUpTo = 3
  MaxWritePerEvent = 2
  WritevThreshold = 2
  IovecCount = 2
INVARIANTS StreamsIntact CommandsAsSent SubscriptionsMatch
PROPERTIES ImplementsBroadcast RequestsAnswered
CHECK_DEADLOCK FALSE
