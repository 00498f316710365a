----------------------------- MODULE SteamLobby -----------------------------
(***************************************************************************)
(* Lobbies (src/modules/steam_matchmaking.c).  Steam hosts the room; the   *)
(* extension passes orders on, after checking lengths Steam would enforce  *)
(* in silence, and reports what happens inside as events.  A game keeps    *)
(* its own picture of the room: it lists the members once it is inside and *)
(* from then on follows the events.                                        *)
(*                                                                         *)
(* One lobby is modelled, with the local user and others who come and go   *)
(* at any time, also between two calls of the loop that lists the members. *)
(* A PHP string is its length and the position of its first NUL byte: what *)
(* is passed to Steam as a C string ends there.  A C int is cut to a small *)
(* width.  How events get from Steam to the script is SteamCallbacks; how  *)
(* results of the two asynchronous calls do, SteamCallResults.             *)
(***************************************************************************)
EXTENDS SteamInterfaces, SequencesExt

CONSTANTS
  Others,      (* The users besides Me.                                     *)
  Keys, Values, Texts, (* The strings a script passes.                      *)
  Rooms,       (* The values it passes for $max_members.                    *)
  Types,       (* STEAM_LOBBY_TYPE_* values.                                *)
  KeyMax,      (* k_nMaxLobbyKeyLength.                                     *)
  ValueMax,    (* k_cubChatMetadataMax.                                     *)
  ChatMax,     (* STEAMWORKS_LOBBY_CHAT_MAX.                                *)
  IntMax,      (* Largest C int.                                            *)
  MaxFeed      (* Bound: lobby events waiting for the script.               *)

PhpString == [len : Nat, c : Nat]

(* Assumed of the constants.                                               *)
LobbyAssumption ==
  /\ KeyMax \in Nat \ {0} /\ ValueMax \in Nat \ {0} /\ ChatMax \in Nat \ {0}
  /\ IntMax \in Nat /\ MaxFeed \in Nat
  /\ Rooms \cup Types \subseteq Int
  /\ IsFiniteSet(Others) /\ "me" \notin Others
  /\ \A s \in Keys \cup Values \cup Texts : s \in PhpString /\ s.c <= s.len

VARIABLES
  members,     (* Steam: who is in the lobby, in its order; empty: no lobby. *)
  owner,       (* Steam: its owner.                                         *)
  settings,    (* Steam: its type, room, joinable flag and data.            *)
  ready,       (* Steam: the local user's member data.                      *)
  entering,    (* The asynchronous call under way, or its result.           *)
  feed,        (* Steam's lobby events the script has not drained.          *)
  listing,     (* The script's loop over the members, or NoListing.         *)
  view,        (* The script's picture of the lobby, or NoView.             *)
  claimed,     (* History: what the script was told about a lobby it owns.  *)
  claimedReady (* History: the member data it was told is set.              *)

lobbyVars == <<members, owner, settings, ready>>
scriptVars == <<entering, listing, view>>
vars == <<ifaceVars, lobbyVars, scriptVars, feed, claimed, claimedReady>>

Me == "me"
Users == Others \cup {Me}
Nobody == "nobody"
Unset == 0

NoCall == [fn |-> "none"]
NoListing == [num |-> -1]
NoView == [sound |-> FALSE]
NoClaim == [room |-> 0]

In(u) == \E i \in DOMAIN members : members[i] = u
Inside == In(Me)
Matchmaking == "ISteamMatchmaking"

(* Between two calls of a loop only Steam acts.                            *)
LobbyFunction == listing = NoListing /\ steamworks_resolve(Matchmaking)

ToInt(n) ==
  LET low == n % (2 * IntMax + 2) IN IF low > IntMax THEN low - (2 * IntMax + 2) ELSE low

-----------------------------------------------------------------------------
(* Events.  Steam posts them to members only.                              *)

Post(e) ==
  IF Inside
    THEN Len(feed) < MaxFeed /\ feed' = Append(feed, e)
    ELSE UNCHANGED feed

LobbyChatUpdate(changed, maker, state) ==
  [kind |-> "chat_update", m_ulSteamIDUserChanged |-> changed,
   m_ulSteamIDMakingChange |-> maker, m_rgfChatMemberStateChange |-> state,
   old |-> FALSE]
LobbyDataUpdate(member) ==
  [kind |-> "data_update", m_ulSteamIDMember |-> member, old |-> FALSE]
LobbyChatMsg(sender, text) ==
  [kind |-> "chat_message", m_ulSteamIDUser |-> sender, sent |-> text, old |-> FALSE]

(* History: events left over from a stay in the lobby that has ended.      *)
Outdated(events) == [i \in DOMAIN events |-> [events[i] EXCEPT !.old = TRUE]]

(* A slip: the user who made the change stored as the one it is about.     *)
ChatUpdateEntry_Maker(e) ==
  [user |-> e.m_ulSteamIDMakingChange, state |-> e.m_rgfChatMemberStateChange]

(* What the script finds in a chat_update.                                 *)
ChatUpdateEntry(e) ==
  [user |-> e.m_ulSteamIDUserChanged, state |-> e.m_rgfChatMemberStateChange]

Cut(text, n) ==
  [len |-> IF text.len < n THEN text.len ELSE n, c |-> IF text.c < n THEN text.c ELSE n]

(* What is copied of a message into a buffer of ChatMax bytes.             *)
ChatText(e) == Cut(e.sent, ChatMax)

-----------------------------------------------------------------------------
(* Steam and the other users.                                              *)

NewSettings(type, room) ==
  [type |-> type, room |-> room, joinable |-> TRUE, data |-> Unset]

(* With its last member the lobby is gone; an owner who leaves is          *)
(* succeeded by another member.                                            *)
Without(u) ==
  /\ members' = RemoveFirst(members, u)
  /\ owner' = IF members' = <<>> THEN Nobody
              ELSE IF owner = u THEN members'[1] ELSE owner

(* History: the membership changed while the script was listing it.        *)
Disturbed ==
  listing' = IF listing = NoListing THEN listing ELSE [listing EXCEPT !.quiet = FALSE]

OtherCreates(u) ==
  /\ user = 1 /\ members = <<>> /\ entering.fn # "create"
  /\ members' = <<u>> /\ owner' = u
  /\ \E type \in Types : settings' = NewSettings(type, Cardinality(Users))
  /\ UNCHANGED <<ifaceVars, ready, scriptVars, feed, claimed, claimedReady>>

OtherEnters(u) ==
  /\ members # <<>> /\ settings.joinable /\ Len(members) < settings.room
  /\ ~In(u)
  /\ Post(LobbyChatUpdate(u, u, "ENTERED"))
  /\ members' = Append(members, u)
  /\ Disturbed
  /\ UNCHANGED <<ifaceVars, owner, settings, ready, entering, view, claimed, claimedReady>>

(* By itself, or kicked by the owner.                                      *)
OtherLeaves(u, maker, state) ==
  /\ In(u)
  /\ Post(LobbyChatUpdate(u, maker, state))
  /\ Without(u)
  /\ Disturbed
  /\ UNCHANGED <<ifaceVars, settings, ready, entering, view, claimed, claimedReady>>

OtherSetsData(value) ==
  /\ owner \in Others
  /\ Post(LobbyDataUpdate("lobby"))
  /\ settings' = [settings EXCEPT !.data = value]
  /\ UNCHANGED <<ifaceVars, members, owner, ready, scriptVars, claimed, claimedReady>>

OtherSays(u, text) ==
  /\ text.len \in 1..ChatMax
  /\ Inside /\ In(u)
  /\ Post(LobbyChatMsg(u, text))
  /\ UNCHANGED <<ifaceVars, lobbyVars, scriptVars, claimed, claimedReady>>

(* Steam answers the call under way; whoever creates a lobby is inside.    *)
SteamCreates ==
  /\ entering.fn = "create" /\ members = <<>>
  /\ members' = <<Me>> /\ owner' = Me
  /\ settings' = NewSettings(entering.type, entering.room)
  /\ claimed' = NewSettings(entering.type, entering.asked)
  /\ ready' = Unset /\ claimedReady' = Unset
  /\ entering' = [fn |-> "entered"]
  /\ UNCHANGED <<ifaceVars, listing, view, feed>>

SteamAdmits ==
  /\ entering.fn = "join" /\ members # <<>> /\ ~Inside
  /\ settings.joinable /\ Len(members) < settings.room
  /\ members' = Append(members, Me)
  /\ ready' = Unset /\ claimedReady' = Unset
  /\ entering' = [fn |-> "entered"]
  /\ UNCHANGED <<ifaceVars, owner, settings, listing, view, feed, claimed>>

(* The lobby is full, gone or locked, or Steam does not want another one.  *)
SteamRefuses ==
  /\ entering.fn \in {"create", "join"}
  /\ entering' = NoCall
  /\ UNCHANGED <<ifaceVars, lobbyVars, listing, view, feed, claimed, claimedReady>>

-----------------------------------------------------------------------------
(* Entering and leaving.                                                   *)

(* The check sees 64 bits, Steam gets 32.                                  *)
RoomRefused(max_members) == max_members < 1

steam_matchmaking_create_lobby(type, max_members) ==
  /\ ~RoomRefused(max_members)
  /\ entering = NoCall /\ ~Inside
  /\ LobbyFunction
  /\ IF Found(Matchmaking)
       THEN /\ entering' = [fn |-> "create", type |-> type,
                            room |-> ToInt(max_members), asked |-> max_members]
            /\ view' = NoView
       ELSE UNCHANGED <<entering, view>>
  /\ UNCHANGED <<lobbyVars, listing, feed, claimed, claimedReady>>

steam_matchmaking_join_lobby ==
  /\ entering = NoCall /\ ~Inside
  /\ LobbyFunction
  /\ IF Found(Matchmaking)
       THEN entering' = [fn |-> "join"] /\ view' = NoView
       ELSE UNCHANGED <<entering, view>>
  /\ UNCHANGED <<lobbyVars, listing, feed, claimed, claimedReady>>

(* What a user's departure leaves behind.                                  *)
MeGone ==
  /\ IF Inside THEN Without(Me) /\ feed' = Outdated(feed) ELSE UNCHANGED <<members, owner, feed>>
  /\ view' = NoView /\ claimed' = NoClaim
  /\ ready' = Unset /\ claimedReady' = Unset

steam_matchmaking_leave_lobby ==
  /\ LobbyFunction
  /\ IF Found(Matchmaking)
       THEN MeGone
       ELSE UNCHANGED <<members, owner, ready, feed, view, claimed, claimedReady>>
  /\ UNCHANGED <<settings, entering, listing>>

(* The script has polled its result and asks how many members there are.   *)
(* Without the interface the answer is FALSE, outside the lobby 0.         *)
steam_matchmaking_get_num_lobby_members ==
  /\ entering.fn = "entered" /\ entering' = NoCall
  /\ LobbyFunction
  /\ listing' = [num |-> IF Found(Matchmaking) /\ Inside THEN Len(members) ELSE 0,
                 next |-> 0, got |-> {}, quiet |-> TRUE]
  /\ UNCHANGED <<lobbyVars, view, feed, claimed, claimedReady>>

(* None where the function returns FALSE.                                  *)
MemberByIndex(index) ==
  IF Found(Matchmaking) /\ Inside /\ index + 1 \in DOMAIN members
    THEN {members[index + 1]} ELSE {}

(* One round of the loop; after the last the script has its picture.       *)
steam_matchmaking_get_lobby_member_by_index ==
  /\ listing # NoListing
  /\ steamworks_resolve(Matchmaking)
  /\ IF listing.next < listing.num
       THEN /\ listing' = [listing EXCEPT !.next = @ + 1,
                                          !.got = @ \cup MemberByIndex(listing.next)]
            /\ UNCHANGED view
       ELSE /\ view' = [sound |-> listing.quiet, members |-> listing.got,
                        data |-> settings.data]
            /\ listing' = NoListing
  /\ UNCHANGED <<lobbyVars, entering, feed, claimed, claimedReady>>

-----------------------------------------------------------------------------
(* Settings, data and chat.                                                *)

(* A slip: a value as long as the limit, which counts the NUL, let pass.   *)
lobby_key_value_ok_NulForgotten(key, value) ==
  key.len \in 1..KeyMax /\ value.len <= ValueMax

lobby_key_value_ok(key, value) ==
  key.len \in 1..KeyMax /\ value.len < ValueMax

(* Steam drops what is too long, or has no key, without saying so.         *)
Held(key, value, before) ==
  IF key.c \in 1..KeyMax /\ value.c < ValueMax THEN value.c ELSE before

(* What the script was told, for strings that are the same in PHP and C.   *)
Told(key, value, before) ==
  IF key.c = key.len /\ value.c = value.len THEN value.len ELSE Held(key, value, before)

Owned == Found(Matchmaking) /\ owner = Me

steam_matchmaking_set_lobby_data(key, value) ==
  /\ lobby_key_value_ok(key, value)
  /\ LobbyFunction
  /\ IF Owned
       THEN /\ Post(LobbyDataUpdate("lobby"))
            /\ settings' = [settings EXCEPT !.data = Held(key, value, @)]
            /\ claimed' = IF claimed = NoClaim THEN claimed
                          ELSE [claimed EXCEPT !.data = Told(key, value, settings.data)]
       ELSE UNCHANGED <<feed, settings, claimed>>
  /\ UNCHANGED <<members, owner, ready, scriptVars, claimedReady>>

(* TRUE whether or not the user is in the lobby.                           *)
steam_matchmaking_set_lobby_member_data(key, value) ==
  /\ lobby_key_value_ok(key, value)
  /\ LobbyFunction
  /\ IF Found(Matchmaking) /\ Inside
       THEN /\ Post(LobbyDataUpdate(Me))
            /\ ready' = Held(key, value, ready)
            /\ claimedReady' = Told(key, value, ready)
       ELSE UNCHANGED <<feed, ready, claimedReady>>
  /\ UNCHANGED <<members, owner, settings, scriptVars, claimed>>

(* A settings call is the owner's; FALSE to everyone else.                 *)
Set(changed, told) ==
  /\ LobbyFunction
  /\ settings' = IF Owned THEN changed ELSE settings
  /\ claimed' = IF Owned /\ claimed # NoClaim THEN told ELSE claimed
  /\ UNCHANGED <<members, owner, ready, scriptVars, feed, claimedReady>>

steam_matchmaking_set_lobby_joinable(joinable) ==
  Set([settings EXCEPT !.joinable = joinable], [claimed EXCEPT !.joinable = joinable])

steam_matchmaking_set_lobby_type(type) ==
  Set([settings EXCEPT !.type = ToInt(type)], [claimed EXCEPT !.type = ToInt(type)])

steam_matchmaking_set_lobby_owner(u) ==
  /\ LobbyFunction
  /\ IF Owned /\ In(u)
       THEN owner' = u /\ claimed' = IF u = Me THEN claimed ELSE NoClaim
       ELSE UNCHANGED <<owner, claimed>>
  /\ UNCHANGED <<members, settings, ready, scriptVars, feed, claimedReady>>

(* The exact bytes go to everyone in the lobby, the sender included.       *)
steam_matchmaking_send_lobby_chat_msg(text) ==
  /\ text.len \in 1..ChatMax
  /\ LobbyFunction
  /\ IF Found(Matchmaking) /\ Inside THEN Post(LobbyChatMsg(Me, text)) ELSE UNCHANGED feed
  /\ UNCHANGED <<lobbyVars, scriptVars, claimed, claimedReady>>

(* Invitations change nothing in the lobby.                                *)
steam_matchmaking_invite_user_to_lobby ==
  LobbyFunction /\ UNCHANGED <<lobbyVars, scriptVars, feed, claimed, claimedReady>>

steam_friends_activate_overlay_invite_dialog ==
  /\ listing = NoListing /\ steamworks_resolve("ISteamFriends")
  /\ UNCHANGED <<lobbyVars, scriptVars, feed, claimed, claimedReady>>

(* Where a queue has a chat_update about a user, and where its last one.   *)
About(events, u) ==
  {i \in DOMAIN events :
     events[i].kind = "chat_update" /\ ChatUpdateEntry(events[i]).user = u}
LastAbout(events, u) == {i \in About(events, u) : \A j \in About(events, u) : j <= i}

(* History: no chat_update of an earlier stay.                             *)
OfThisStay(events) ==
  \A i \in DOMAIN events : events[i].kind = "chat_update" => ~events[i].old

(* The script follows the events in their order: of the chat_updates about *)
(* a user the last one counts; at a data_update it reads the lobby's data  *)
(* again, by steam_matchmaking_get_lobby_data.                             *)
Follow(picture, events) ==
  [ sound |-> picture.sound /\ OfThisStay(events),
    members |->
      {u \in Users :
         \/ About(events, u) = {} /\ u \in picture.members
         \/ \E i \in LastAbout(events, u) : ChatUpdateEntry(events[i]).state = "ENTERED"},
    data |->
      IF Found(Matchmaking) /\ (\E i \in DOMAIN events : events[i].kind = "data_update")
        THEN settings.data ELSE picture.data ]

steam_matchmaking_get_events ==
  /\ listing = NoListing /\ feed # <<>>
  /\ feed' = <<>>
  /\ view' = IF view = NoView THEN view ELSE Follow(view, feed)
  /\ steamworks_resolve(Matchmaking)
  /\ UNCHANGED <<lobbyVars, entering, listing, claimed, claimedReady>>

-----------------------------------------------------------------------------
(* The session.                                                            *)

steam_init(client) ==
  /\ listing = NoListing
  /\ SteamAPI_InitFlat(client)
  /\ UNCHANGED <<lobbyVars, scriptVars, feed, claimed, claimedReady>>

(* The user leaves with the session.  What was dispatched stays queued,    *)
(* what was not is forgotten.                                              *)
steam_shutdown ==
  /\ listing = NoListing
  /\ SteamAPI_Shutdown
  /\ entering' = NoCall
  /\ IF Inside THEN Without(Me) ELSE UNCHANGED <<members, owner>>
  /\ \E n \in 0..Len(feed) : feed' = Outdated(SubSeq(feed, 1, n))
  /\ view' = NoView /\ claimed' = NoClaim
  /\ ready' = Unset /\ claimedReady' = Unset
  /\ UNCHANGED <<settings, listing>>

LobbyInit ==
  /\ members = <<>> /\ owner = Nobody
  /\ settings = [type |-> 0, room |-> 0, joinable |-> FALSE, data |-> Unset]
  /\ ready = Unset
  /\ entering = NoCall /\ listing = NoListing /\ view = NoView
  /\ feed = <<>>
  /\ claimed = NoClaim /\ claimedReady = Unset

Init == IfaceInit /\ LobbyInit

OthersAct ==
  \/ \E u \in Others : OtherCreates(u)
  \/ \E u \in Others : OtherEnters(u)
  \/ \E u \in Others :
       \/ OtherLeaves(u, u, "LEFT")
       \/ OtherLeaves(u, owner, "KICKED")
  \/ \E value \in Values : value.c < ValueMax /\ OtherSetsData(value.c)
  \/ \E u \in Others, text \in Texts : OtherSays(u, text)

SteamAnswers == SteamCreates \/ SteamAdmits \/ SteamRefuses

Next ==
  \/ \E client \in Clients : steam_init(client)
  \/ steam_shutdown
  \/ OthersAct
  \/ SteamAnswers
  \/ \E type \in Types, room \in Rooms : steam_matchmaking_create_lobby(type, room)
  \/ steam_matchmaking_join_lobby
  \/ steam_matchmaking_leave_lobby
  \/ steam_matchmaking_get_num_lobby_members
  \/ steam_matchmaking_get_lobby_member_by_index
  \/ \E key \in Keys, value \in Values :
       \/ steam_matchmaking_set_lobby_data(key, value)
       \/ steam_matchmaking_set_lobby_member_data(key, value)
  \/ \E joinable \in BOOLEAN : steam_matchmaking_set_lobby_joinable(joinable)
  \/ \E type \in Types : steam_matchmaking_set_lobby_type(type)
  \/ \E u \in Users : steam_matchmaking_set_lobby_owner(u)
  \/ \E text \in Texts : steam_matchmaking_send_lobby_chat_msg(text)
  \/ steam_matchmaking_invite_user_to_lobby
  \/ steam_friends_activate_overlay_invite_dialog
  \/ steam_matchmaking_get_events

Spec == Init /\ [][Next]_vars

-----------------------------------------------------------------------------
LobbyTypeOK ==
  /\ IfaceTypeOK
  /\ members \in Seq(Users) /\ IsInjective(members)
  /\ owner \in IF members = <<>> THEN {Nobody} ELSE ToSet(members)
  /\ settings.room \in (-IntMax - 1)..IntMax \cup {Cardinality(Users)}
  /\ settings.joinable \in BOOLEAN /\ settings.data \in 0..(ValueMax - 1)
  /\ {ready, claimedReady} \subseteq 0..ValueMax
  /\ entering.fn \in {"none", "create", "join", "entered"}
  /\ Len(feed) <= MaxFeed
  /\ view # NoView => view.members \subseteq Users

(* README.md: everything that happens in the lobby arrives through         *)
(* steam_matchmaking_get_events().  A script that listed the members when  *)
(* it came in and followed every event has the members and the data Steam  *)
(* has as soon as nothing is queued, whoever came, went or was kicked      *)
(* meanwhile, before or after the listing.  Two conditions are needed:     *)
(* nobody moved during the listing loop, and no event of an earlier stay   *)
(* in the lobby was still queued when it started (the queue outlives it).  *)
MirrorAgrees ==
  view # NoView /\ view.sound /\ Inside /\ feed = <<>> =>
    view.members = ToSet(members) /\ view.data = settings.data

(* An order that returned TRUE is carried out: the owner's data, type and  *)
(* joinable flag, and the member's own data, are what the script was told, *)
(* because lobby_key_value_ok refuses whatever Steam would drop in silence *)
(* (for strings without a NUL byte, which C strings cut).                  *)
WritesHold ==
  /\ claimed # NoClaim =>
       /\ settings.data = claimed.data
       /\ settings.joinable = claimed.joinable
       /\ settings.type = claimed.type
  /\ Inside => ready = claimedReady

(* A lobby the script created has the room it asked for, at least for its  *)
(* creator, whenever the number fits a C int: steam_matchmaking.c checks   *)
(* it in 64 bits and passes 32.                                            *)
RoomAsAsked ==
  claimed # NoClaim /\ claimed.room <= IntMax =>
    settings.room = claimed.room /\ settings.room >= 1

(* Messages arrive byte for byte, at every length Steam takes and with NUL *)
(* bytes in them (stubs/steamworks.php on                                  *)
(* steam_matchmaking_send_lobby_chat_msg; the buffer in cb_run).           *)
ChatByteExact ==
  \A i \in DOMAIN feed : feed[i].kind = "chat_message" => ChatText(feed[i]) = feed[i].sent

=============================================================================
