---------------------------- MODULE SteamSession ----------------------------
(***************************************************************************)
(* One PHP process that starts and stops Steam sessions and resolves       *)
(* interfaces in them, in any order.  The client behind a later session    *)
(* may differ from the one behind an earlier session: Steam updates itself *)
(* while the process stays alive.                                          *)
(***************************************************************************)
EXTENDS SteamInterfaces

VARIABLE
  last   (* The latest accessor call of the live session: the interface and *)
         (* the pointer it returned; Quiet when there was none.             *)

vars == <<user, offered, notified, raised, last>>

Quiet == [iface |-> "none", ptr |-> NULL]

Init == IfaceInit /\ last = Quiet

(* steam_init() when InitFlat reports OK (a failure changes nothing).      *)
steam_init(client) == SteamAPI_InitFlat(client) /\ last' = Quiet

steam_shutdown == SteamAPI_Shutdown /\ last' = Quiet

(* steamworks_user() ... steamworks_matchmaking().                         *)
accessor(f) ==
  /\ steamworks_resolve(f)
  /\ last' = [iface |-> f, ptr |-> Pointer(f)]

Next ==
  \/ \E client \in Clients : steam_init(client)
  \/ steam_shutdown
  \/ \E f \in Interfaces : accessor(f)

Spec == Init /\ [][Next]_vars

-----------------------------------------------------------------------------
(* The versions of each interface whose vtable matches the flat functions  *)
(* of libsteam_api 1.65: a pointer to anything else sends a flat call into *)
(* the wrong slot.                                                         *)
SameLayout ==
  [f \in Interfaces |->
     IF f = "ISteamNetworkingSockets"
       THEN {"SteamNetworkingSockets013", "SteamNetworkingSockets012"}
       ELSE {versions[f][1]}]

TypeOK ==
  /\ IfaceTypeOK
  /\ last \in [iface : Interfaces \cup {"none"}, ptr : ListedVersions \cup {NULL}]

(* A pointer that reaches a flat call belongs to the client of the session *)
(* that is live now and has the 1.65 layout; no newer version with that    *)
(* layout was passed over (steamworks_resolve's scan of the tables).       *)
PointerSafe ==
  last.ptr # NULL =>
    /\ user # 0
    /\ last.ptr \in offered \cap SameLayout[last.iface]
    /\ last.ptr = versions[last.iface][1] \/ versions[last.iface][1] \notin offered

(* An accessor runs on every Steam call, so however many sessions and      *)
(* calls there are, an interface is complained about at most once.         *)
NoticedOncePerProcess == \A f \in Interfaces : Len(raised[f]) <= 1

(* No wrapper of a live session fails on a NULL pointer, or works through  *)
(* a legacy version, without the process having been told about that       *)
(* interface.                                                              *)
NeverSilent ==
  last.iface # "none" /\ user # 0 /\ last.ptr # versions[last.iface][1] =>
    raised[last.iface] # <<>>

(* README.md says that using the legacy version of an interface raises     *)
(* E_DEPRECATED once per process.  `notified` is also set by the E_WARNING *)
(* for an unsupported client, so an earlier session can use it up.         *)
LegacyIsDeprecated ==
  last.iface # "none" /\ last.ptr \notin {NULL, versions[last.iface][1]} =>
    \E i \in DOMAIN raised[last.iface] : raised[last.iface][i] = "E_DEPRECATED"

=============================================================================
