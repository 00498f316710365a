CONSTANTS
  Clients <- MCClients
  Handles = {h1}
  Kinds = {"LOBBY_CHAT_MSG", "WEBAPI_TICKET"}
  Tickets = {t1}
  Slots = {1}
  MaxEvents = 1
  OtherInterfaces = {"ISteamUserStats", "ISteamUtils", "ISteamMatchmaking", "ISteamUser",
                     "ISteamRemoteStorage", "ISteamTimeline", "ISteamUGC"}
SPECIFICATION Spec
INVARIANT OneLife
PROPERTIES AsyncSpec CallbackSpec
\* The process ends after MSHUTDOWN.
CHECK_DEADLOCK FALSE
