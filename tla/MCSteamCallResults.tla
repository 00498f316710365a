------------------------ MODULE MCSteamCallResults ------------------------
(* Handles and clients for the registry runs.  Only ISteamUtils separates  *)
(* the two clients: a client from before SDK 1.65 still offers every       *)
(* interface an asynchronous call can be started through.                  *)
EXTENDS SteamCallResults

CONSTANTS h1, h2

MCHandles == {h1, h2}
OneHandle == {h1}

Shared ==
  {"STEAMUSERSTATS_INTERFACE_VERSION013", "STEAMREMOTESTORAGE_INTERFACE_VERSION016",
   "STEAMTIMELINE_INTERFACE_V004", "STEAMUGC_INTERFACE_VERSION021", "SteamMatchMaking009"}

CurrentClient == Shared \cup {"SteamUtils011"}
Client164 == Shared \cup {"SteamUtils010"}

MCClients == {CurrentClient, Client164}

=============================================================================
