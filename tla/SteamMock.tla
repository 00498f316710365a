------------------------------ MODULE SteamMock ------------------------------
(***************************************************************************)
(* What stands in for Steam in CI: ci/mock_sdk/steam_api_mock.c and the    *)
(* hook a test fires events with (src/modules/steam_mock_hooks.c).  There  *)
(* is no session to start; the hook registers the extension's callback     *)
(* objects, and the mock calls them from its own table.  The mock also     *)
(* keeps lobby data, and knows exactly the interface versions of one SDK.  *)
(*                                                                         *)
(* A test is a script like any other: it fires, drains, sets data, asks    *)
(* for interfaces and calls steam_shutdown(), in any order.  A text is its *)
(* length and a tag for its bytes.                                         *)
(***************************************************************************)
EXTENDS SteamInterfaces, FiniteSets, SequencesExt

CONSTANTS
  Names,       (* The callbacks a test fires.                               *)
  MockTexts,   (* The messages it fires, [len, tag].                        *)
  Lobbies, Entries, Contents, (* Lobby ids, keys and values; "" is a key.   *)
  MaxCallbacks, ChatSlots, ChatSize, KvSlots, (* Sizes of the mock's tables. *)
  MaxUndrained (* Bound: events a test leaves in a queue.                   *)

(* The objects the extension registers, in its order, by callback name;    *)
(* the mock never posts the first.                                         *)
Objects ==
  << "webapi_ticket", "net_connection_status", "rich_presence_join_requested",
     "lobby_join_requested", "lobby_data_update", "lobby_chat_update",
     "lobby_chat_message" >>

(* Assumed of the constants.                                               *)
MockAssumption ==
  /\ Names \subseteq ToSet(Tail(Objects))
  /\ MockTexts \subseteq [len : Nat, tag : STRING]
  /\ {ChatSlots, ChatSize, KvSlots} \subseteq Nat \ {0}
  /\ MaxCallbacks \in Nat /\ MaxCallbacks >= Len(Objects)
  /\ MaxUndrained \in Nat

VARIABLES
  environment,         (* The switches set for this process.                *)
  mock_callbacks,      (* The mock's table: registered objects.             *)
  callbacks_registered,(* The extension's flag.                             *)
  mock_chat,           (* Slot -> text.                                     *)
  mock_chat_next,      (* Next chat id, modulo the number of slots.         *)
  heard,               (* Queue of the extension -> events not yet drained. *)
  fired,               (* History: what was fired for them.                 *)
  mock_lobby_data,     (* The mock's table of lobby data, by slot.          *)
  mock_member_data,    (* The same for data of members.                     *)
  wrote                (* History: (table, owner, key) -> the value set.    *)

eventVars ==
  <<mock_callbacks, callbacks_registered, mock_chat, mock_chat_next, heard, fired>>
dataVars == <<mock_lobby_data, mock_member_data, wrote>>
vars == <<ifaceVars, environment, eventVars, dataVars>>

-----------------------------------------------------------------------------
(* The strict lookup.  GetHSteamUser() is 1 from the start.                *)

Switches == {"STEAMWORKS_MOCK_LEGACY_UTILS", "STEAMWORKS_MOCK_LEGACY_NET"}

(* A slip: a version string of an older SDK left in the list.              *)
mock_offered_Stale ==
  { "SteamUser022", "SteamFriends018", "STEAMUSERSTATS_INTERFACE_VERSION013",
    "STEAMREMOTESTORAGE_INTERFACE_VERSION016", "STEAMAPPS_INTERFACE_VERSION009",
    "SteamUtils011", "STEAMTIMELINE_INTERFACE_V004", "STEAMUGC_INTERFACE_VERSION021",
    "SteamNetworkingSockets013", "SteamNetworkingUtils004", "SteamMatchMaking009" }

mock_offered ==
  { "SteamUser023", "SteamFriends018", "STEAMUSERSTATS_INTERFACE_VERSION013",
    "STEAMREMOTESTORAGE_INTERFACE_VERSION016", "STEAMAPPS_INTERFACE_VERSION009",
    "SteamUtils011", "STEAMTIMELINE_INTERFACE_V004", "STEAMUGC_INTERFACE_VERSION021",
    "SteamNetworkingSockets013", "SteamNetworkingUtils004", "SteamMatchMaking009" }

mock_legacy == {"SteamUtils010", "SteamNetworkingSockets012"}

UtilsFamily == {"SteamUtils010", "SteamUtils011"}
NetFamily == {"SteamNetworkingSockets012", "SteamNetworkingSockets013"}

(* Two families follow the switches, the rest the list; a version in       *)
(* neither list is reported on stderr.                                     *)
MockFinds(version, switches) ==
  CASE version \in UtilsFamily ->
         version = IF "STEAMWORKS_MOCK_LEGACY_UTILS" \in switches
                     THEN "SteamUtils010" ELSE "SteamUtils011"
    [] version \in NetFamily ->
         version = IF "STEAMWORKS_MOCK_LEGACY_NET" \in switches
                     THEN "SteamNetworkingSockets012" ELSE "SteamNetworkingSockets013"
    [] OTHER -> version \in mock_offered

Unknown(version) ==
  version \notin UtilsFamily \cup NetFamily \cup mock_offered \cup mock_legacy

accessor(f) ==
  /\ steamworks_resolve(f)
  /\ UNCHANGED <<environment, eventVars, dataVars>>

-----------------------------------------------------------------------------
(* Registered objects and dispatch.                                        *)

SteamAPI_RegisterCallback(table, callback) ==
  IF Len(table) < MaxCallbacks THEN Append(table, callback) ELSE table

(* A slip: the last entry dropped instead of moved into the gap.           *)
SteamAPI_UnregisterCallback_NotMoved(table, callback) ==
  IF \E i \in DOMAIN table : table[i] = callback THEN Front(table) ELSE table

(* The last entry takes the place of the one removed.                      *)
SteamAPI_UnregisterCallback(table, callback) ==
  IF \E i \in DOMAIN table : table[i] = callback
    THEN Front([table EXCEPT ![Min({i \in DOMAIN table : table[i] = callback})] = Last(table)])
    ELSE table

(* steamworks_callbacks_register, in the order of the objects.             *)
Registered ==
  LET after[n \in 0..Len(Objects)] ==
        IF n = 0 THEN mock_callbacks ELSE SteamAPI_RegisterCallback(after[n - 1], Objects[n])
  IN  IF callbacks_registered THEN mock_callbacks ELSE after[Len(Objects)]

(* steamworks_callbacks_unregister.                                        *)
Unregistered ==
  LET after[n \in 0..Len(Objects)] ==
        IF n = 0 THEN mock_callbacks ELSE SteamAPI_UnregisterCallback(after[n - 1], Objects[n])
  IN  IF callbacks_registered THEN after[Len(Objects)] ELSE mock_callbacks

(* The extension's buffer has the size of a slot's.                        *)
GetLobbyChatEntry(chat, id) == chat[id % ChatSlots]

(* What the object's cb_run stores for an event; a chat message is read    *)
(* back from its slot.                                                     *)
cb_run(event, chat, id) ==
  IF event.name = "lobby_chat_message"
    THEN [event EXCEPT !.text = GetLobbyChatEntry(chat, id)] ELSE event

(* The queue an object's cb_run appends to.                                *)
Queues == {"net_events", "join_requests", "mm_events"}

Queue(name) ==
  CASE name = "net_connection_status" -> "net_events"
    [] name = "rich_presence_join_requested" -> "join_requests"
    [] OTHER -> "mm_events"

(* mock_dispatch: every entry of the table with the event's id is run.     *)
mock_dispatch(event, chat, id) ==
  LET called == {i \in DOMAIN Registered : Registered[i] = event.name}
  IN  [heard EXCEPT ![Queue(event.name)] =
         @ \o [k \in 1..Cardinality(called) |-> cb_run(event, chat, id)]]

Clamp(text) == [text EXCEPT !.len = IF @ > ChatSize THEN ChatSize ELSE @]

ChatSlot(id) == id % ChatSlots

NoText == [len |-> 0, tag |-> ""]

(* steam_mock_fire_callback, for a name the hook knows.  Of what the       *)
(* events carry, only the text of a chat message is modelled.              *)
steam_mock_fire_callback(name, text) ==
  LET isChat == name = "lobby_chat_message"
      event == [name |-> name, text |-> IF isChat THEN text ELSE NoText]
      chat == IF isChat THEN [mock_chat EXCEPT ![ChatSlot(mock_chat_next)] = Clamp(text)]
                        ELSE mock_chat
  IN /\ Len(heard[Queue(name)]) < MaxUndrained
     /\ mock_callbacks' = Registered /\ callbacks_registered' = TRUE
     /\ mock_chat' = chat
     /\ mock_chat_next' = IF isChat THEN (mock_chat_next + 1) % ChatSlots ELSE mock_chat_next
     /\ heard' = mock_dispatch(event, chat, mock_chat_next)
     /\ fired' = [fired EXCEPT ![Queue(name)] = Append(@, [event EXCEPT !.text = Clamp(@)])]
     /\ UNCHANGED <<ifaceVars, environment, dataVars>>

(* Any other name is a warning, after the objects have been registered.    *)
steam_mock_fire_unknown ==
  /\ mock_callbacks' = Registered /\ callbacks_registered' = TRUE
  /\ UNCHANGED <<ifaceVars, environment, mock_chat, mock_chat_next, heard, fired, dataVars>>

(* The session of the mock is not affected.                                *)
steam_shutdown ==
  /\ mock_callbacks' = Unregistered /\ callbacks_registered' = FALSE
  /\ UNCHANGED <<ifaceVars, environment, mock_chat, mock_chat_next, heard, fired, dataVars>>

(* The three drains.                                                       *)
Drain(queue) ==
  /\ heard' = [heard EXCEPT ![queue] = <<>>]
  /\ fired' = [fired EXCEPT ![queue] = <<>>]
  /\ UNCHANGED <<ifaceVars, environment, mock_callbacks, callbacks_registered,
                 mock_chat, mock_chat_next, dataVars>>

-----------------------------------------------------------------------------
(* Lobby and member data.  A slot is free while its key is "".             *)

Me == "me"
FreeSlot == [user |-> "none", key |-> "", value |-> ""]

Held(table, owner, key) ==
  {i \in DOMAIN table : table[i].key # "" /\ table[i].user = owner /\ table[i].key = key}
Free(table) == {i \in DOMAIN table : table[i].key = ""}

mock_kv_get(table, owner, key) ==
  LET slots == Held(table, owner, key)
  IN  IF slots = {} THEN "" ELSE table[Min(slots)].value

(* In place, else in the first free slot, else refused.                    *)
mock_kv_set(table, owner, key, value) ==
  LET slots == Held(table, owner, key) IN
  CASE slots # {} -> [table EXCEPT ![Min(slots)].value = value]
    [] slots = {} /\ Free(table) # {} ->
         [table EXCEPT ![Min(Free(table))] = [user |-> owner, key |-> key, value |-> value]]
    [] OTHER -> table

Accepted(table, owner, key) == Held(table, owner, key) \cup Free(table) # {}

Wrote(kind, table, owner, key, value) ==
  wrote' = IF Accepted(table, owner, key) /\ key # ""
             THEN [wrote EXCEPT ![<<kind, owner, key>>] = value] ELSE wrote

(* A key that starts with a NUL byte passes the extension's check and      *)
(* reaches the mock as "".                                                 *)
SetLobbyData(lobby, key, value) ==
  /\ mock_lobby_data' = mock_kv_set(mock_lobby_data, lobby, key, value)
  /\ Wrote("lobby", mock_lobby_data, lobby, key, value)
  /\ UNCHANGED <<ifaceVars, environment, eventVars, mock_member_data>>

(* Kept for the local user, whatever the lobby.                            *)
SetLobbyMemberData(key, value) ==
  /\ mock_member_data' = mock_kv_set(mock_member_data, Me, key, value)
  /\ Wrote("member", mock_member_data, Me, key, value)
  /\ UNCHANGED <<ifaceVars, environment, eventVars, mock_lobby_data>>

-----------------------------------------------------------------------------
EmptyTable == [i \in 1..KvSlots |-> FreeSlot]
Owned == ({"lobby"} \X Lobbies \X Entries) \cup ({"member"} \X {Me} \X Entries)

(* The lookup works without a session, with the switches of the process.   *)
LookupInit ==
  /\ environment \in SUBSET Switches
  /\ user = 1 /\ offered = {v \in ListedVersions : MockFinds(v, environment)}
  /\ notified = [f \in Interfaces |-> FALSE]
  /\ raised = [f \in Interfaces |-> <<>>]

MockInit ==
  /\ mock_callbacks = <<>> /\ callbacks_registered = FALSE
  /\ mock_chat = [s \in 0..(ChatSlots - 1) |-> NoText]
  /\ mock_chat_next = 0
  /\ heard = [queue \in Queues |-> <<>>] /\ fired = heard
  /\ mock_lobby_data = EmptyTable /\ mock_member_data = EmptyTable
  /\ wrote = [entry \in Owned |-> ""]

Init == LookupInit /\ MockInit

EventStep ==
  \/ \E name \in Names, text \in MockTexts : steam_mock_fire_callback(name, text)
  \/ steam_mock_fire_unknown
  \/ steam_shutdown
  \/ \E queue \in Queues : Drain(queue)

DataStep ==
  \E key \in Entries, value \in Contents :
    \/ \E lobby \in Lobbies : SetLobbyData(lobby, key, value)
    \/ SetLobbyMemberData(key, value)

LookupStep == \E f \in Interfaces : accessor(f)

Next == EventStep \/ DataStep \/ LookupStep

Spec == Init /\ [][Next]_vars

-----------------------------------------------------------------------------
(* The mock keeps up with the extension's tables (the comment on           *)
(* mock_offered asks for it): it knows every version the extension may     *)
(* request; without switches each interface resolves to its newest version *)
(* and nothing is complained about; with a switch its own interface, and   *)
(* no other, is missing or resolves to the legacy version.                 *)
LookupInSync ==
  /\ \A v \in ListedVersions : ~Unknown(v)
  /\ \A f \in Interfaces :
       CASE f = "ISteamUtils" /\ "STEAMWORKS_MOCK_LEGACY_UTILS" \in environment ->
              Pointer(f) = NULL
         [] f = "ISteamNetworkingSockets" /\ "STEAMWORKS_MOCK_LEGACY_NET" \in environment ->
              Pointer(f) = "SteamNetworkingSockets012"
         [] OTHER -> Pointer(f) = versions[f][1] /\ raised[f] = <<>>

(* What a test fires is what it drains, once and in the order of the       *)
(* queue, with the bytes of its own message, across steam_shutdown() and   *)
(* registering again and with more messages than the mock has slots.       *)
FiredOnceInOrder == heard = fired

(* A lobby's and a member's data are a map: every key reads back the value *)
(* last accepted for it, whatever was set under the same key elsewhere or  *)
(* under an empty key, and also when the table is full.                    *)
MockKeepsData ==
  \A entry \in Owned :
    entry[3] # "" =>
      mock_kv_get(IF entry[1] = "lobby" THEN mock_lobby_data ELSE mock_member_data,
                  entry[2], entry[3]) = wrote[entry]

(* A text as a slot holds it.                                              *)
Stored == [len : 0..ChatSize, tag : {text.tag : text \in MockTexts} \cup {""}]

(* The objects of the extension are in the table once each while its flag  *)
(* is set, else not at all; no slot is used twice.                         *)
MockTypeOK ==
  /\ IsInjective(mock_callbacks)
  /\ ToSet(mock_callbacks) = IF callbacks_registered THEN ToSet(Objects) ELSE {}
  /\ Len(mock_callbacks) <= MaxCallbacks
  /\ mock_chat \in [0..(ChatSlots - 1) -> Stored]
  /\ mock_chat_next \in 0..(ChatSlots - 1)
  /\ heard \in [Queues -> Seq([name : Names, text : Stored])]
  /\ \A queue \in Queues : Len(heard[queue]) <= MaxUndrained
  /\ wrote \in [Owned -> Contents \cup {""}]

=============================================================================
