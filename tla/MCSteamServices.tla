--------------------------- MODULE MCSteamServices ---------------------------
(* A client with every interface the services use, and one with friends    *)
(* only.  Strings are given by their length and the position of their      *)
(* first NUL byte.                                                         *)
EXTENDS SteamServices

EveryInterface ==
  { "SteamMatchMaking009", "STEAMUSERSTATS_INTERFACE_VERSION013", "SteamFriends018",
    "SteamUtils011", "STEAMAPPS_INTERFACE_VERSION009", "STEAMTIMELINE_INTERFACE_V004",
    "SteamUser023" }
MCClients == {EveryInterface, {"SteamFriends018"}}

MCScenes ==
  { "lobby", "stats", "boards", "list", "avatars", "invites", "joins", "timeline",
    "auth", "mock events", "mock data", "mock lookup" }

String(len) == [len |-> len, c |-> len]
StringWithNul(len, c) == [len |-> len, c |-> c]

MCKeys == {String(1), String(2), StringWithNul(1, 0)}
MCValues == {String(1), String(2), StringWithNul(1, 0)}
MCTexts == {String(3), StringWithNul(2, 1)}
MCRooms == {0, 2, 6}
MCConnects ==
  {String(0), String(1), String(2), String(3), StringWithNul(1, 0), StringWithNul(3, 2)}

MCAchievements == <<"first", "second">>
MCNumbers == {-1, 0, 3, 4}

MCDetailLists == {<<2>>, <<5, 2, 1>>}
MCIndices == {-1, 0, 1, 2, 8}

MCPictures ==
  {[width |-> 1, height |-> 2], [width |-> 2, height |-> 1], [width |-> 0, height |-> 1]}

MCTickets ==
  { [tag |-> "a", len |-> 2, c |-> 1], [tag |-> "b", len |-> 3, c |-> 0],
    [tag |-> "d", len |-> 4, c |-> 4] }

MCMockTexts ==
  {[len |-> 0, tag |-> ""], [len |-> 2, tag |-> "a"], [len |-> 3, tag |-> "b"]}
MCNames == {"lobby_chat_message", "net_connection_status", "rich_presence_join_requested"}

=============================================================================
