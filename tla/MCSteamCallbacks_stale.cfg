CONSTANTS
  Clients <- OneClient
  Kinds <- TicketRun
  Tickets = {t1}
  Slots <- OneSlot
  OtherInterfaces = {}
  MaxEvents = 2
SPECIFICATION Spec
PROPERTY NullUntilCallback
\* The process ends after MSHUTDOWN.
CHECK_DEADLOCK FALSE
