------------------------- MODULE MCSteamExtension -------------------------
(* One handle and one web-api ticket.  The clients differ in the two       *)
(* interfaces that results and chat texts are fetched with.                *)
EXTENDS SteamExtension

Older ==
  {"SteamUser023", "STEAMUSERSTATS_INTERFACE_VERSION013", "SteamUtils010",
   "STEAMREMOTESTORAGE_INTERFACE_VERSION016", "STEAMTIMELINE_INTERFACE_V004",
   "STEAMUGC_INTERFACE_VERSION021"}
Current == Older \cup {"SteamUtils011", "SteamMatchMaking009"}

MCClients == {Current, Older}

=============================================================================
