---------------------------- MODULE SteamServices ----------------------------
(***************************************************************************)
(* The services of Steam a game uses beside its event loop: lobbies,       *)
(* statistics, leaderboards, friends, the timeline, session tickets, and   *)
(* the mock that stands in for Steam in tests.                             *)
(*                                                                         *)
(* All of them resolve interfaces and live in the same session             *)
(* (SteamInterfaces), but no function of one touches what another keeps.   *)
(* So each is explored on its own, in one of the behaviours Init chooses   *)
(* among: "scene" says whose functions are called.  Two services with      *)
(* parts that do not touch each other either (SteamFriends, SteamMock)     *)
(* have a scene per part.                                                  *)
(***************************************************************************)
EXTENDS SteamInterfaces

CONSTANTS
  Scenes,
  Others, Keys, Values, Texts, Rooms, Types, KeyMax, ValueMax, ChatMax, IntMax, MaxFeed,
  IntStats, FloatStats, Achievements, Numbers, StatMax, MaxUnlocks,
  Rivals, Scores, DetailLists, Ranks, Indices, Downloads, DetailsMax, ScoreMax, MaxRequests,
  Friends, Connects, Lines, Pictures, ConnectMax, LineMax, MaxRequested,
  EventHandles, Titles, Priorities, Durations, HalfWidth,
  Handles, Peers, Tickets, TicketMax, IdWidth,
  Names, MockTexts, Lobbies, Entries, Contents, MaxCallbacks, ChatSlots, ChatSize, KvSlots,
  MaxUndrained

VARIABLES
  scene,
  members, owner, settings, ready, entering, feed, listing, view, claimed, claimedReady,
  loaded, saved, now, meant, promised,
  board, requests, downloads,
  process, relation, lists, naming, named, avatars, presence, invited, meantPresence,
  meantInvited, line, requested, join_requests,
  events, noted,
  issued, sessions, offered_by, sent, held, admitted, answer,
  environment, mock_callbacks, callbacks_registered, mock_chat, mock_chat_next, heard,
  fired, mock_lobby_data, mock_member_data, wrote

Lobby == INSTANCE SteamLobby
Stats == INSTANCE SteamStats
Boards == INSTANCE SteamLeaderboards
Social == INSTANCE SteamFriends
Timeline == INSTANCE SteamTimeline
Auth == INSTANCE SteamAuth
Mock == INSTANCE SteamMock

ASSUME ServicesAssumption ==
  /\ Lobby!LobbyAssumption /\ Stats!StatsAssumption /\ Boards!LeaderboardsAssumption
  /\ Social!FriendsAssumption /\ Timeline!TimelineAssumption /\ Auth!AuthAssumption
  /\ Mock!MockAssumption

lobbyVars ==
  <<members, owner, settings, ready, entering, feed, listing, view, claimed, claimedReady>>
statsVars == <<loaded, saved, now, meant, promised>>
boardVars == <<board, requests, downloads>>
socialVars ==
  <<process, relation, lists, naming, named, avatars, presence, invited, meantPresence,
    meantInvited, line, requested, join_requests>>
timelineVars == <<events, noted>>
authVars == <<issued, sessions, offered_by, sent, held, admitted, answer>>
mockVars ==
  <<environment, mock_callbacks, callbacks_registered, mock_chat, mock_chat_next, heard,
    fired, mock_lobby_data, mock_member_data, wrote>>

vars ==
  <<ifaceVars, scene, lobbyVars, statsVars, boardVars, socialVars, timelineVars, authVars,
    mockVars>>

SocialScenes == {"list", "avatars", "invites", "joins"}
MockScenes == {"mock events", "mock data", "mock lookup"}

-----------------------------------------------------------------------------
Init ==
  /\ scene \in Scenes
  /\ Lobby!LobbyInit /\ Stats!StatsInit /\ Boards!LeaderboardsInit
  /\ Social!FriendsInit /\ Timeline!TimelineInit /\ Auth!AuthInit
  /\ Mock!MockInit
  /\ IF scene \in MockScenes
       THEN Mock!LookupInit /\ (scene = "mock lookup" \/ environment = {})
       ELSE IfaceInit /\ environment = {}

LobbyStep ==
  /\ scene = "lobby" /\ Lobby!Next
  /\ UNCHANGED <<scene, statsVars, boardVars, socialVars, timelineVars, authVars, mockVars>>

StatsStep ==
  /\ scene = "stats" /\ Stats!Next
  /\ UNCHANGED <<scene, lobbyVars, boardVars, socialVars, timelineVars, authVars, mockVars>>

BoardStep ==
  /\ scene = "boards" /\ Boards!Next
  /\ UNCHANGED <<scene, lobbyVars, statsVars, socialVars, timelineVars, authVars, mockVars>>

SocialStep ==
  /\ \/ scene \in SocialScenes /\ Social!SessionStep
     \/ scene = "list" /\ Social!ListStep
     \/ scene = "avatars" /\ Social!AvatarStep
     \/ scene = "invites" /\ Social!InviteStep
     \/ scene = "joins" /\ Social!JoinStep
  /\ UNCHANGED <<scene, lobbyVars, statsVars, boardVars, timelineVars, authVars, mockVars>>

TimelineStep ==
  /\ scene = "timeline" /\ Timeline!Next
  /\ UNCHANGED <<scene, lobbyVars, statsVars, boardVars, socialVars, authVars, mockVars>>

AuthStep ==
  /\ scene = "auth" /\ Auth!Next
  /\ UNCHANGED <<scene, lobbyVars, statsVars, boardVars, socialVars, timelineVars, mockVars>>

MockStep ==
  /\ \/ scene = "mock events" /\ Mock!EventStep
     \/ scene = "mock data" /\ Mock!DataStep
     \/ scene = "mock lookup" /\ Mock!LookupStep
  /\ UNCHANGED <<scene, lobbyVars, statsVars, boardVars, socialVars, timelineVars, authVars>>

Next ==
  \/ LobbyStep \/ StatsStep \/ BoardStep \/ SocialStep
  \/ TimelineStep \/ AuthStep \/ MockStep

Spec == Init /\ [][Next]_vars

-----------------------------------------------------------------------------
(* The properties of the services, each in its scenes; the modules say     *)
(* what they mean and which code they are about.  Each comes with the      *)
(* types of its service.                                                   *)

(* A script that follows every event has the lobby as Steam has it.        *)
MirrorAgrees == scene = "lobby" => Lobby!LobbyTypeOK /\ Lobby!MirrorAgrees

(* What a script was told is done in its lobby is done: settings and data  *)
(* are set, there is the room it asked for, and messages arrive byte for   *)
(* byte.                                                                   *)
LobbyAsTold ==
  scene = "lobby" => Lobby!WritesHold /\ Lobby!RoomAsAsked /\ Lobby!ChatByteExact

(* Achievements and statistics read as they were last set, and what was    *)
(* stored, and nothing else, survives session and process.                 *)
StatsAsMeant ==
  scene = "stats" => Stats!StatsTypeOK /\ Stats!StatsAsSet /\ Stats!StoredStatsSurvive

(* A downloaded entry is one upload of its player, details included; and   *)
(* no upload writes past the end of its array of details, which is part of *)
(* the types of this service.                                              *)
EntryAsUploaded == scene = "boards" => Boards!BoardTypeOK /\ Boards!EntryAsUploaded

(* Only a forced upload replaces a better score.                           *)
BestScoreKept == Boards!BestScoreKept

(* A loop over the friends by index names them all and nobody else, and an *)
(* avatar is returned whole or not at all.                                 *)
FriendsAsSteamHas ==
  /\ scene \in SocialScenes => Social!FriendsTypeOK
  /\ scene = "list" => Social!FriendsListExact
  /\ scene = "avatars" => Social!AvatarWhole

(* The connect string a script passes is what its friend gets, and what a  *)
(* friend passed is what the script gets when it joins.                    *)
ConnectStringArrives ==
  /\ scene = "invites" => Social!InvitedAsMeant
  /\ scene = "joins" => Social!JoinedAsInvited

(* A call on a timeline event reaches the event its script means.          *)
TimelineAsMeant ==
  scene = "timeline" => Timeline!TimelineTypeOK /\ Timeline!TimelineAsMeant

(* Tickets the script has are those Steam has, and Steam has a session     *)
(* with exactly the peers the script let in, for a genuine ticket.         *)
AuthAsMeant ==
  scene = "auth" =>
    Auth!AuthTypeOK /\ Auth!TicketsInHand /\ Auth!SessionsAsAdmitted

(* The mock offers what the extension's version tables ask for.            *)
LookupInSync == scene \in MockScenes => Mock!LookupInSync

(* A test drains what it fired, once and in order, and reads back the      *)
(* lobby data it set.                                                      *)
MockActsAsSteam ==
  /\ scene \in MockScenes => Mock!MockTypeOK
  /\ scene = "mock events" => Mock!FiredOnceInOrder
  /\ scene = "mock data" => Mock!MockKeepsData

=============================================================================
