----------------------------- MODULE SteamFriends -----------------------------
(***************************************************************************)
(* Friends (src/modules/steam_friends.c): the friends list, avatars, and   *)
(* invitations by rich presence, together with the two ways an accepted    *)
(* invitation reaches a game: as a join request (steam_callback.c) if it   *)
(* runs, on the command line (steam_apps.c) if it has to be started.       *)
(*                                                                         *)
(* The process may end and start again.  A PHP string is its length and    *)
(* the position of its first NUL byte; a C string is its length.  How join *)
(* requests get into their queue is SteamCallbacks; here dispatching is    *)
(* one step.                                                               *)
(***************************************************************************)
EXTENDS SteamInterfaces, SequencesExt

CONSTANTS
  Friends,     (* The users who may become friends.                         *)
  Connects,    (* The strings a script passes as a connect string.          *)
  Lines,       (* Lengths of command lines Steam may start the game with.   *)
  Pictures,    (* Avatars, [width, height] in pixels.                       *)
  ConnectMax,  (* k_cchMaxRichPresenceValueLength, its NUL included.        *)
  LineMax,     (* Size of the buffer for a command line.                    *)
  MaxRequested (* Bound: join requests posted or queued.                    *)

(* Assumed of the constants.                                               *)
FriendsAssumption ==
  /\ ConnectMax \in Nat \ {0} /\ LineMax \in Nat /\ LineMax >= ConnectMax
  /\ MaxRequested \in Nat /\ IsFiniteSet(Friends)
  /\ Lines \subseteq Nat
  /\ \A s \in Connects : s \in [len : Nat, c : Nat] /\ s.c <= s.len
  /\ Pictures \subseteq [width : Nat, height : Nat]

VARIABLES
  process,     (* Is the game running?                                      *)
  relation,    (* Steam: friend -> his relation to the local user.          *)
  lists,       (* Steam: flags -> the users they select, in its order.      *)
  naming,      (* The script's loop over its friends, or NotNaming.         *)
  named,       (* What the script got from its last loop, or NoNames.       *)
  avatars,     (* Steam: friend -> a picture, NoAvatar or Loading.          *)
  presence,    (* Steam: the local user's "connect" key; 0 when unset.      *)
  invited,     (* Steam: friend -> the connect string he was sent, or 0.    *)
  meantPresence, meantInvited, (* History: the same as the script meant it. *)
  line,        (* Steam: length of the command line of this process.        *)
  requested,   (* Steam: join requests posted and not dispatched.           *)
  join_requests(* The extension's queue.                                    *)

listVars == <<relation, lists, naming, named>>
connectVars == <<presence, invited, meantPresence, meantInvited>>
joinVars == <<requested, join_requests>>
vars == <<ifaceVars, process, listVars, avatars, connectVars, line, joinVars>>

FriendsIface == "ISteamFriends"
NotNaming == [num |-> -1]
NoNames == [got |-> {}, are |-> {}, quiet |-> FALSE]
NoAvatar == [width |-> 0, height |-> 0]
Loading == [width |-> -1, height |-> -1]
NoOne == "0"

FriendsCall == naming = NotNaming /\ steamworks_resolve(FriendsIface)

-----------------------------------------------------------------------------
(* The list.  Flags select relations; a script uses the same in both       *)
(* calls, or the default of both.                                          *)

Immediate == {"friend"}
All == {"friend", "blocked"}

(* A slip: everybody by default.                                           *)
count_flags_All(args) == IF args = <<>> THEN All ELSE args[1]

count_flags(args) == IF args = <<>> THEN Immediate ELSE args[1]

index_flags(args) == IF args = <<>> THEN Immediate ELSE args[1]

Selections == {Immediate, All}

(* The orders Steam may list in whom the flags select.                     *)
Orders(relations, flags) == SetToSeqs({f \in Friends : relations[f] \in flags})

(* History: relations changed during a loop.                               *)
Noticed == naming' = IF naming = NotNaming THEN naming ELSE [naming EXCEPT !.quiet = FALSE]

(* Friends are made and blocked, and relations end.                        *)
RelationChanges(f, to) ==
  /\ relation[f] # to
  /\ relation' = [relation EXCEPT ![f] = to]
  /\ \E immediate \in Orders(relation', Immediate), all \in Orders(relation', All) :
       lists' = [flags \in Selections |-> IF flags = Immediate THEN immediate ELSE all]
  /\ Noticed
  /\ UNCHANGED <<ifaceVars, process, named, avatars, connectVars, line, joinVars>>

steam_friends_get_friend_count(args) ==
  /\ process
  /\ FriendsCall
  /\ naming' = [num |-> IF Found(FriendsIface) THEN Len(lists[count_flags(args)]) ELSE 0,
                next |-> 0, got |-> {}, quiet |-> TRUE, args |-> args]
  /\ named' = NoNames
  /\ UNCHANGED <<process, relation, lists, avatars, connectVars, line, joinVars>>

(* An index out of range is answered with the id 0.                        *)
FriendByIndex(index, args) ==
  LET list == lists[index_flags(args)] IN
  IF index + 1 \in DOMAIN list THEN list[index + 1] ELSE NoOne

(* One round of the loop, or its end.                                      *)
steam_friends_get_friend_by_index ==
  /\ naming # NotNaming
  /\ IF naming.next < naming.num
       THEN /\ steamworks_resolve(FriendsIface)
            /\ naming' = [naming EXCEPT !.next = @ + 1,
                 !.got = @ \cup (IF Found(FriendsIface)
                                   THEN {FriendByIndex(naming.next, naming.args)} ELSE {})]
            /\ UNCHANGED named
       ELSE /\ named' = [got |-> naming.got, quiet |-> naming.quiet,
                         are |-> IF Found(FriendsIface)
                                   THEN {f \in Friends :
                                           relation[f] \in IF naming.args = <<>> THEN Immediate
                                                           ELSE naming.args[1]}
                                   ELSE {}]
            /\ naming' = NotNaming
            /\ UNCHANGED ifaceVars
  /\ UNCHANGED <<process, relation, lists, avatars, connectVars, line, joinVars>>

-----------------------------------------------------------------------------
(* Avatars.                                                                *)

AvatarSizes == {0, 1, 2, 7}

(* 0 small, 2 large, anything else medium.                                 *)
Sized(picture, size) ==
  [of |-> CASE size = 0 -> "small" [] size = 2 -> "large" [] OTHER -> "medium",
   width |-> picture.width, height |-> picture.height]

Bytes(width, height) == width * height * 4

(* Steam fills a buffer that is large enough; the rest stays as it was.    *)
(* A set, empty for null.                                                  *)
steam_friends_get_friend_avatar(f, size) ==
  LET image == Sized(avatars[f], size)
      bytes == Bytes(image.width, image.height)
      pixels == image.width * image.height * 4
  IN IF /\ Found(FriendsIface) /\ Found("ISteamUtils")
        /\ avatars[f] \notin {NoAvatar, Loading}
        /\ image.width # 0 /\ image.height # 0
        /\ bytes >= pixels
       THEN {[width |-> image.width, height |-> image.height, of |-> image.of,
              rgba |-> bytes, written |-> pixels]}
       ELSE {}

(* A reader changes only what its accessors may change; one that resolves  *)
(* two interfaces, as the avatar's, is two such steps.                     *)
friends_read ==
  /\ process
  /\ \/ FriendsCall
     \/ naming = NotNaming /\ steamworks_resolve("ISteamUtils")
     \/ naming = NotNaming /\ steamworks_resolve("ISteamApps")
  /\ UNCHANGED <<process, listVars, avatars, connectVars, line, joinVars>>

steam_friends_request_user_information(f, name_only) ==
  /\ process
  /\ FriendsCall
  /\ avatars' = IF Found(FriendsIface) /\ ~name_only /\ avatars[f] = NoAvatar
                  THEN [avatars EXCEPT ![f] = Loading] ELSE avatars
  /\ UNCHANGED <<process, listVars, connectVars, line, joinVars>>

(* An avatar arrives, or its owner changes it.                             *)
SteamHasAvatar(f) ==
  /\ avatars[f] # NoAvatar
  /\ \E picture \in Pictures \cup {NoAvatar} : avatars' = [avatars EXCEPT ![f] = picture]
  /\ UNCHANGED <<ifaceVars, process, listVars, connectVars, line, joinVars>>

-----------------------------------------------------------------------------
(* Inviting.                                                               *)

CutTo(n, size) == IF n < size THEN n ELSE size - 1

(* What a script may rely on for strings C and PHP agree on.               *)
Intent(connect, held) == IF connect.c = connect.len THEN connect.len ELSE held

(* Steam refuses a value that is too long, which is FALSE; an empty one,   *)
(* or null, deletes the key.                                               *)
steam_friends_set_rich_presence(value) ==
  /\ process
  /\ FriendsCall
  /\ IF Found(FriendsIface) /\ value.c < ConnectMax
       THEN presence' = value.c /\ meantPresence' = Intent(value, value.c)
       ELSE UNCHANGED <<presence, meantPresence>>
  /\ UNCHANGED <<process, listVars, avatars, invited, meantInvited, line, joinVars>>

(* A slip: the terminator forgotten.                                       *)
connect_ok_NoTerminator(connect) == connect.len \in 1..ConnectMax

connect_ok(connect) == connect.len \in 1..(ConnectMax - 1)

(* Steam's own message holds ConnectMax bytes.                             *)
Sends(f, connect) ==
  LET held == CutTo(connect.c, ConnectMax) IN
  /\ invited' = [invited EXCEPT ![f] = held]
  /\ meantInvited' = [meantInvited EXCEPT ![f] = Intent(connect, held)]

steam_friends_invite_user_to_game(f, connect) ==
  /\ connect_ok(connect)
  /\ process
  /\ FriendsCall
  /\ IF Found(FriendsIface) /\ connect.c > 0
       THEN Sends(f, connect) ELSE UNCHANGED <<invited, meantInvited>>
  /\ UNCHANGED <<process, listVars, avatars, presence, meantPresence, line, joinVars>>

(* The dialog sends the string to whomever the user picks.  Nothing checks *)
(* its length, so nothing is promised for one that is too long.            *)
steam_friends_activate_invite_dialog_connect_string(f, connect) ==
  /\ process
  /\ FriendsCall
  /\ IF Found(FriendsIface) /\ connect.c \in 1..(ConnectMax - 1)
       THEN Sends(f, connect) ELSE UNCHANGED <<invited, meantInvited>>
  /\ UNCHANGED <<process, listVars, avatars, presence, meantPresence, line, joinVars>>

-----------------------------------------------------------------------------
(* Being invited.                                                          *)

FreshProcess(n) ==
  /\ process' = TRUE /\ line' = n
  /\ UNCHANGED <<ifaceVars, listVars, avatars, connectVars, joinVars>>

(* Started by the user, or through a link.                                 *)
ProcessStarts(n) == ~process /\ FreshProcess(n)

(* The user accepts a friend's invitation, or joins him: a game in a       *)
(* session is told, a game that does not run is started with the string.   *)
UserAccepts(f, n) ==
  /\ n \in 1..(ConnectMax - 1)
  /\ \/ /\ process /\ user = 1
        /\ Len(requested) + Len(join_requests) < MaxRequested
        /\ requested' = Append(requested, [friend |-> f, m_rgchConnect |-> n])
        /\ UNCHANGED <<ifaceVars, process, listVars, avatars, connectVars, line,
                       join_requests>>
     \/ ~process /\ FreshProcess(n)

(* ConnectMax bytes are copied and the last one is cleared.                *)
ConnectCopied(n) == CutTo(n, ConnectMax)

(* sent is history: what the friend sent.                                  *)
steam_run_callbacks ==
  /\ process /\ naming = NotNaming
  /\ join_requests' = join_requests \o
       [i \in DOMAIN requested |->
          [friend |-> requested[i].friend,
           connect |-> ConnectCopied(requested[i].m_rgchConnect),
           sent |-> requested[i].m_rgchConnect]]
  /\ requested' = <<>>
  /\ UNCHANGED <<ifaceVars, process, listVars, avatars, connectVars, line>>

steam_friends_get_join_requests ==
  /\ process /\ naming = NotNaming
  /\ join_requests' = <<>>
  /\ UNCHANGED <<ifaceVars, process, listVars, avatars, connectVars, line, requested>>

(* A set, empty for FALSE.  Steam cuts a line that does not fit.           *)
steam_apps_get_launch_command_line ==
  IF process /\ Found("ISteamApps") THEN {CutTo(line, LineMax)} ELSE {}

-----------------------------------------------------------------------------
(* The session and the process.                                            *)

steam_init(client) ==
  /\ process /\ naming = NotNaming
  /\ SteamAPI_InitFlat(client)
  /\ UNCHANGED <<process, listVars, avatars, connectVars, line, joinVars>>

(* Presence and invitations end with the session; queued requests stay.    *)
SessionOver ==
  /\ presence' = 0 /\ meantPresence' = 0
  /\ invited' = [f \in Friends |-> 0] /\ meantInvited' = invited'
  /\ requested' = <<>>

steam_shutdown ==
  /\ process /\ naming = NotNaming
  /\ SteamAPI_Shutdown
  /\ SessionOver
  /\ UNCHANGED <<process, listVars, avatars, line, join_requests>>

(* The process ends, or crashes; nothing of the extension is left.         *)
ProcessEnds ==
  /\ process /\ process' = FALSE
  /\ user' = 0 /\ offered' = {}
  /\ notified' = [f \in Interfaces |-> FALSE] /\ raised' = [f \in Interfaces |-> <<>>]
  /\ naming' = NotNaming /\ named' = NoNames
  /\ SessionOver /\ join_requests' = <<>> /\ line' = 0
  /\ UNCHANGED <<relation, lists, avatars>>

FriendsInit ==
  /\ process = FALSE /\ line = 0
  /\ relation = [f \in Friends |-> "none"] /\ lists = [flags \in Selections |-> <<>>]
  /\ naming = NotNaming /\ named = NoNames
  /\ avatars = [f \in Friends |-> NoAvatar]
  /\ presence = 0 /\ meantPresence = 0
  /\ invited = [f \in Friends |-> 0] /\ meantInvited = [f \in Friends |-> 0]
  /\ requested = <<>> /\ join_requests = <<>>

Init == IfaceInit /\ FriendsInit

SessionStep ==
  \/ \E client \in Clients : steam_init(client)
  \/ steam_shutdown
  \/ \E n \in Lines : ProcessStarts(n)
  \/ ProcessEnds
  \/ friends_read

ListStep ==
  \/ \E f \in Friends, to \in All \cup {"none"} : RelationChanges(f, to)
  \/ \E args \in {<<>>, <<Immediate>>, <<All>>} : steam_friends_get_friend_count(args)
  \/ steam_friends_get_friend_by_index

AvatarStep ==
  \E f \in Friends :
    \/ \E name_only \in BOOLEAN : steam_friends_request_user_information(f, name_only)
    \/ SteamHasAvatar(f)

InviteStep ==
  \/ \E value \in Connects : steam_friends_set_rich_presence(value)
  \/ \E f \in Friends, connect \in Connects :
       \/ steam_friends_invite_user_to_game(f, connect)
       \/ steam_friends_activate_invite_dialog_connect_string(f, connect)

JoinStep ==
  \/ \E f \in Friends, n \in Lines : UserAccepts(f, n)
  \/ steam_run_callbacks
  \/ steam_friends_get_join_requests

Next == SessionStep \/ ListStep \/ AvatarStep \/ InviteStep \/ JoinStep

Spec == Init /\ [][Next]_vars

-----------------------------------------------------------------------------
FriendsTypeOK ==
  /\ IfaceTypeOK
  /\ user = 1 => process
  /\ relation \in [Friends -> All \cup {"none"}]
  /\ \A flags \in Selections : lists[flags] \in Orders(relation, flags)
  /\ naming # NotNaming => process /\ naming.next \in 0..naming.num
  /\ presence \in 0..(ConnectMax - 1)
  /\ invited \in [Friends -> 0..(ConnectMax - 1)]
  /\ \A i \in DOMAIN join_requests : join_requests[i].connect \in 1..(ConnectMax - 1)

(* A script that loops over its friends by index has exactly those its     *)
(* flags select, with the default flags as with any it passes, provided    *)
(* no relation changed meanwhile; only then can an id of 0 (an index that  *)
(* has gone) be among them.                                                *)
FriendsListExact == named.quiet => named.got = named.are

(* An avatar is returned whenever Steam has it and both interfaces, in the *)
(* size asked for, as width * height * 4 bytes that Steam has written all; *)
(* otherwise, while it is loading too, the answer is null.                 *)
AvatarWhole ==
  \A f \in Friends, size \in AvatarSizes :
    LET avatar == steam_friends_get_friend_avatar(f, size)
        known == /\ Found(FriendsIface) /\ Found("ISteamUtils")
                 /\ avatars[f] # Loading
                 /\ avatars[f].width * avatars[f].height > 0
    IN /\ known <=> avatar # {}
       /\ \A a \in avatar :
            /\ a.rgba = a.width * a.height * 4 /\ a.written = a.rgba
            /\ size \in 0..2 => a.of = <<"small", "medium", "large">>[size + 1]

(* README.md: the connect string (1 to 255 bytes) arrives at the friend's  *)
(* game.  Every accepted string is what friends get, at every length up to *)
(* the limit, also after others were refused or the session ended.         *)
InvitedAsMeant == presence = meantPresence /\ invited = meantInvited

(* stubs/steamworks.php on steam_friends_invite_user_to_game(): the game   *)
(* of the friend who accepts finds the connect string, whole, in its join  *)
(* requests if it runs, and else on its command line, in every session of  *)
(* the process.                                                            *)
JoinedAsInvited ==
  /\ \A i \in DOMAIN join_requests : join_requests[i].connect = join_requests[i].sent
  /\ Found("ISteamApps") /\ line < ConnectMax => steam_apps_get_launch_command_line = {line}

=============================================================================
