CONSTANTS
  Clients <- MCClients
  Kinds <- AllQueues
  Tickets = {t1}
  Slots <- MCSlots
  OtherInterfaces = {"ISteamMatchmaking"}
  MaxEvents = 3
SPECIFICATION FairSpec
INVARIANTS
  TypeOK DeliveredInOrderOnce RegisteredExactlyOnce HeapBalanced TicketsOnceAndLatest
PROPERTIES FeedSpecs EventsReachScript
\* The process ends after MSHUTDOWN.
CHECK_DEADLOCK FALSE
