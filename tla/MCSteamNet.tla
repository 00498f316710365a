----------------------------- MODULE MCSteamNet -----------------------------
(* Two connections, one poll group, a client with the current interfaces   *)
(* (older and unsupported ones are the subject of MCSteamSession), and     *)
(* values of $max below and above the range.                               *)
EXTENDS SteamNet

CONSTANTS c1, c2

MCConns == {c1, c2}
CurrentOnly == {{"SteamNetworkingSockets013", "SteamNetworkingUtils004"}}
MCMaxima == {0, 4}

=============================================================================
