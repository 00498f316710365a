CONSTANTS
  h1 = h1
  h2 = h2
  Handles <- OneHandle
  OtherInterfaces = {}
  Clients <- MCClients
SPECIFICATION FairSpec
PROPERTY PollingEnds
\* The process ends after MSHUTDOWN.
CHECK_DEADLOCK FALSE
