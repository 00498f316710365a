--------------------------- MODULE SteamInterfaces ---------------------------
(***************************************************************************)
(* Runtime resolution of Steam interfaces (src/steam_iface.c) and the      *)
(* Steam session it depends on.  Every other module of the extension asks  *)
(* this one for an interface pointer before it makes a Steam call, so the  *)
(* variables and operations here are EXTENDed by the other specifications; *)
(* SteamSession adds a next-state relation and checks them on their own.   *)
(*                                                                         *)
(* A pointer is represented by the version string it was found under: that *)
(* string decides the vtable layout behind it.                             *)
(***************************************************************************)
EXTENDS Integers, Sequences

CONSTANT
  Clients      (* The Steam clients a process may meet: the interface       *)
               (* versions each of them offers.                             *)

ASSUME ClientsAssumption == Clients \subseteq SUBSET STRING

VARIABLES
  user,        (* SteamAPI_GetHSteamUser(): 1 in a live session, else 0.    *)
  offered,     (* What the client of the live session offers.               *)
  notified,    (* steamworks_iface.notified, one flag per interface.        *)
  raised       (* History: the notices raised per interface, in order.      *)

ifaceVars == <<user, offered, notified, raised>>

NULL == "NULL"

-----------------------------------------------------------------------------
(* The version tables, newest first.                                       *)
user_versions        == <<"SteamUser023">>
friends_versions     == <<"SteamFriends018">>
stats_versions       == <<"STEAMUSERSTATS_INTERFACE_VERSION013">>
remote_versions      == <<"STEAMREMOTESTORAGE_INTERFACE_VERSION016">>
apps_versions        == <<"STEAMAPPS_INTERFACE_VERSION009">>
timeline_versions    == <<"STEAMTIMELINE_INTERFACE_V004">>
ugc_versions         == <<"STEAMUGC_INTERFACE_VERSION021">>
net_utils_versions   == <<"SteamNetworkingUtils004">>
matchmaking_versions == <<"SteamMatchMaking009">>
utils_versions_Fallback == <<"SteamUtils011", "SteamUtils010">>
utils_versions       == <<"SteamUtils011">>
net_versions         == <<"SteamNetworkingSockets013", "SteamNetworkingSockets012">>

versions ==
  [ ISteamUser              |-> user_versions,
    ISteamFriends           |-> friends_versions,
    ISteamUserStats         |-> stats_versions,
    ISteamRemoteStorage     |-> remote_versions,
    ISteamApps              |-> apps_versions,
    ISteamUtils             |-> utils_versions,
    ISteamTimeline          |-> timeline_versions,
    ISteamUGC               |-> ugc_versions,
    ISteamNetworkingSockets |-> net_versions,
    ISteamNetworkingUtils   |-> net_utils_versions,
    ISteamMatchmaking       |-> matchmaking_versions ]

Interfaces == DOMAIN versions

(* SteamInternal_FindOrCreateUserInterface: Steam hands out a version only *)
(* in a live session whose client offers it.                               *)
FindOrCreate(version) == user # 0 /\ version \in offered

(* The i-th version of the table is the one the scan stops at.             *)
StopsAt(f, i) ==
  /\ FindOrCreate(versions[f][i])
  /\ \A j \in 1..(i - 1) : ~FindOrCreate(versions[f][j])

Found(f) == \E i \in DOMAIN versions[f] : StopsAt(f, i)

(* What steamworks_resolve returns.                                        *)
Pointer(f) ==
  IF Found(f)
    THEN versions[f][CHOOSE i \in DOMAIN versions[f] : StopsAt(f, i)]
    ELSE NULL

(* A slip: the final E_WARNING for an unsupported client forgotten.        *)
Notice_OnlyLegacy(f) ==
  IF Found(f) /\ ~StopsAt(f, 1) THEN "E_DEPRECATED" ELSE "none"

(* A slip: the level of the legacy notice mixed up with E_NOTICE.          *)
Notice_WrongLevel(f) ==
  IF Found(f)
    THEN IF StopsAt(f, 1) THEN "none" ELSE "E_NOTICE"
    ELSE IF user # 0 THEN "E_WARNING" ELSE "none"

(* The notice a resolution calls for, before the once-per-process filter.  *)
Notice(f) ==
  IF Found(f)
    THEN IF StopsAt(f, 1) THEN "none" ELSE "E_DEPRECATED"
    ELSE IF user # 0 THEN "E_WARNING" ELSE "none"

(* A slip: the notice raised without setting the flag.                     *)
resolve_FlagNotSet(f) ==
  /\ IF Notice(f) # "none" /\ ~notified[f]
       THEN raised' = [raised EXCEPT ![f] = Append(@, Notice(f))]
       ELSE UNCHANGED raised
  /\ UNCHANGED <<user, offered, notified>>

(* One call of an accessor such as steamworks_utils().  One flag serves    *)
(* both notices.                                                           *)
steamworks_resolve(f) ==
  /\ UNCHANGED <<user, offered>>
  /\ IF Notice(f) # "none" /\ ~notified[f]
       THEN /\ notified' = [notified EXCEPT ![f] = TRUE]
            /\ raised' = [raised EXCEPT ![f] = Append(@, Notice(f))]
       ELSE UNCHANGED <<notified, raised>>

-----------------------------------------------------------------------------
(* The session, as steam_init and steam_shutdown see it.  InitFlat in a    *)
(* live session succeeds and changes nothing.                              *)

SteamAPI_InitFlat(client) ==
  /\ user' = 1
  /\ offered' = IF user = 0 THEN client ELSE offered
  /\ UNCHANGED <<notified, raised>>

SteamAPI_Shutdown ==
  /\ user' = 0
  /\ offered' = {}
  /\ UNCHANGED <<notified, raised>>

IfaceInit ==
  /\ user = 0
  /\ offered = {}
  /\ notified = [f \in Interfaces |-> FALSE]
  /\ raised = [f \in Interfaces |-> <<>>]

ListedVersions == UNION {{versions[f][i] : i \in DOMAIN versions[f]} : f \in Interfaces}

IfaceTypeOK ==
  /\ user \in {0, 1}
  /\ offered \in Clients \cup {{}}
  /\ notified \in [Interfaces -> BOOLEAN]
  /\ raised \in [Interfaces -> Seq({"E_DEPRECATED", "E_WARNING"})]

=============================================================================
