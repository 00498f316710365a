CONSTANTS
  h1 = h1
  h2 = h2
  Handles <- MCHandles
  OtherInterfaces = {"ISteamUtils"}
  Clients <- MCClients
SPECIFICATION FairSpec
INVARIANTS TypeOK RegistryTracksCalls AnsweredOnce
PROPERTIES AnswerIsSteams PollingEndsWithUtils
\* The process ends after MSHUTDOWN.
CHECK_DEADLOCK FALSE
