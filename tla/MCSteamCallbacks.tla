------------------------- MODULE MCSteamCallbacks -------------------------
(* Two clients that differ in ISteamMatchmaking, without which the text of *)
(* a chat message cannot be fetched.                                       *)
EXTENDS SteamCallbacks

WithLobbies == {"SteamUser023", "SteamMatchMaking009"}
WithoutLobbies == {"SteamUser023"}

MCClients == {WithLobbies, WithoutLobbies}
OneClient == {WithLobbies}

(* One kind per queue: lobby entries, lobby entries with text, connection  *)
(* changes, rich presence, and tickets; the other kinds share their code.  *)
AllQueues ==
  {"NET_CONNECTION_STATUS", "RICH_PRESENCE_JOIN", "LOBBY_DATA_UPDATE", "LOBBY_CHAT_MSG",
   "WEBAPI_TICKET"}
TicketRun == {"WEBAPI_TICKET"}

MCSlots == {1, 2}
OneSlot == {1}

=============================================================================
