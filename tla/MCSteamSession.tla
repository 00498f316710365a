--------------------------- MODULE MCSteamSession ---------------------------
(* Three clients: a current one, one from before SDK 1.65 and one older    *)
(* than every networking version in the table.                             *)
EXTENDS SteamSession

Unchanged ==
  {"SteamUser023", "SteamFriends018", "STEAMUSERSTATS_INTERFACE_VERSION013",
   "STEAMREMOTESTORAGE_INTERFACE_VERSION016", "STEAMAPPS_INTERFACE_VERSION009",
   "STEAMTIMELINE_INTERFACE_V004", "STEAMUGC_INTERFACE_VERSION021",
   "SteamNetworkingUtils004", "SteamMatchMaking009"}

CurrentClient ==
  Unchanged \cup {"SteamUtils011", "SteamUtils010",
                  "SteamNetworkingSockets013", "SteamNetworkingSockets012"}

Client164 == Unchanged \cup {"SteamUtils010", "SteamNetworkingSockets012"}

AncientClient ==
  {"SteamUtils010", "SteamNetworkingSockets011", "SteamUser023",
   "STEAMUSERSTATS_INTERFACE_VERSION013", "SteamMatchMaking009"}

MCClients == {CurrentClient, Client164, AncientClient}

=============================================================================
