----------------------- MODULE SteamServices_proofs -----------------------
(***************************************************************************)
(* Proofs about the services of SteamServices, one after the other.        *)
(*                                                                         *)
(* A service is reasoned about on its own: its invariant is kept by its    *)
(* own steps, because they are the only ones that touch what it keeps.     *)
(* Each invariant says what Steam has in terms of what the script meant;   *)
(* the round trips of handles and numbers through PHP integers, and of     *)
(* strings through C, are lemmas that precede it.                          *)
(***************************************************************************)
EXTENDS SteamServices, SteamInterfaces_proofs, FiniteSetTheorems, SequenceTheorems,
        WellFoundedInduction

-----------------------------------------------------------------------------
(* Each service resolves interfaces as SteamInterfaces does.  A definition *)
(* it shares with this module has a copy under the service's name: the     *)
(* prover has to expand both to see that they are the same.                *)

LEMMA AuthInterfaces ==
  /\ Auth!Interfaces = Interfaces /\ Auth!versions = versions
  /\ UNCHANGED Auth!ifaceVars <=> UNCHANGED ifaceVars
  /\ Auth!IfaceTypeOK <=> IfaceTypeOK
  /\ Auth!SteamAPI_Shutdown <=> SteamAPI_Shutdown
  /\ \A c : Auth!SteamAPI_InitFlat(c) <=> SteamAPI_InitFlat(c)
  /\ \A f : Auth!Found(f) <=> Found(f)
  /\ \A f : Auth!steamworks_resolve(f) <=> steamworks_resolve(f)
<1>1. Auth!versions = versions
  BY DEF Auth!versions, versions, Auth!user_versions, user_versions,
         Auth!friends_versions, friends_versions, Auth!stats_versions, stats_versions,
         Auth!remote_versions, remote_versions, Auth!apps_versions, apps_versions,
         Auth!timeline_versions, timeline_versions, Auth!ugc_versions, ugc_versions,
         Auth!net_utils_versions, net_utils_versions, Auth!matchmaking_versions,
         matchmaking_versions, Auth!utils_versions, utils_versions, Auth!net_versions,
         net_versions
<1>2. Auth!Interfaces = Interfaces
  BY <1>1 DEF Auth!Interfaces, Interfaces
<1>3. \A f, i : Auth!StopsAt(f, i) <=> StopsAt(f, i)
  BY <1>1 DEF Auth!StopsAt, StopsAt, Auth!FindOrCreate, FindOrCreate
<1>4. \A f : Auth!Found(f) <=> Found(f)
  BY <1>1, <1>3 DEF Auth!Found, Found
<1>5. \A f : Auth!Notice(f) = Notice(f)
  BY <1>3, <1>4 DEF Auth!Notice, Notice
<1>6. \A f : Auth!steamworks_resolve(f) <=> steamworks_resolve(f)
  BY <1>5 DEF Auth!steamworks_resolve, steamworks_resolve
<1> QED
  BY <1>1, <1>2, <1>4, <1>6
     DEF Auth!ifaceVars, ifaceVars, Auth!IfaceTypeOK, IfaceTypeOK,
         Auth!SteamAPI_Shutdown, SteamAPI_Shutdown, Auth!SteamAPI_InitFlat,
         SteamAPI_InitFlat

LEMMA TimelineInterfaces ==
  /\ Timeline!Interfaces = Interfaces /\ Timeline!versions = versions
  /\ UNCHANGED Timeline!ifaceVars <=> UNCHANGED ifaceVars
  /\ Timeline!IfaceTypeOK <=> IfaceTypeOK
  /\ Timeline!SteamAPI_Shutdown <=> SteamAPI_Shutdown
  /\ \A c : Timeline!SteamAPI_InitFlat(c) <=> SteamAPI_InitFlat(c)
  /\ \A f : Timeline!Found(f) <=> Found(f)
  /\ \A f : Timeline!steamworks_resolve(f) <=> steamworks_resolve(f)
<1>1. Timeline!versions = versions
  BY DEF Timeline!versions, versions, Timeline!user_versions, user_versions,
         Timeline!friends_versions, friends_versions, Timeline!stats_versions,
         stats_versions, Timeline!remote_versions, remote_versions,
         Timeline!apps_versions, apps_versions, Timeline!timeline_versions,
         timeline_versions, Timeline!ugc_versions, ugc_versions,
         Timeline!net_utils_versions, net_utils_versions, Timeline!matchmaking_versions,
         matchmaking_versions, Timeline!utils_versions, utils_versions,
         Timeline!net_versions, net_versions
<1>2. Timeline!Interfaces = Interfaces
  BY <1>1 DEF Timeline!Interfaces, Interfaces
<1>3. \A f, i : Timeline!StopsAt(f, i) <=> StopsAt(f, i)
  BY <1>1 DEF Timeline!StopsAt, StopsAt, Timeline!FindOrCreate, FindOrCreate
<1>4. \A f : Timeline!Found(f) <=> Found(f)
  BY <1>1, <1>3 DEF Timeline!Found, Found
<1>5. \A f : Timeline!Notice(f) = Notice(f)
  BY <1>3, <1>4 DEF Timeline!Notice, Notice
<1>6. \A f : Timeline!steamworks_resolve(f) <=> steamworks_resolve(f)
  BY <1>5 DEF Timeline!steamworks_resolve, steamworks_resolve
<1> QED
  BY <1>1, <1>2, <1>4, <1>6
     DEF Timeline!ifaceVars, ifaceVars, Timeline!IfaceTypeOK, IfaceTypeOK,
         Timeline!SteamAPI_Shutdown, SteamAPI_Shutdown, Timeline!SteamAPI_InitFlat,
         SteamAPI_InitFlat

LEMMA StatsInterfaces ==
  /\ Stats!Interfaces = Interfaces /\ Stats!versions = versions
  /\ UNCHANGED Stats!ifaceVars <=> UNCHANGED ifaceVars
  /\ Stats!IfaceTypeOK <=> IfaceTypeOK
  /\ Stats!SteamAPI_Shutdown <=> SteamAPI_Shutdown
  /\ \A c : Stats!SteamAPI_InitFlat(c) <=> SteamAPI_InitFlat(c)
  /\ \A f : Stats!Found(f) <=> Found(f)
  /\ \A f : Stats!steamworks_resolve(f) <=> steamworks_resolve(f)
<1>1. Stats!versions = versions
  BY DEF Stats!versions, versions, Stats!user_versions, user_versions,
         Stats!friends_versions, friends_versions, Stats!stats_versions, stats_versions,
         Stats!remote_versions, remote_versions, Stats!apps_versions, apps_versions,
         Stats!timeline_versions, timeline_versions, Stats!ugc_versions, ugc_versions,
         Stats!net_utils_versions, net_utils_versions, Stats!matchmaking_versions,
         matchmaking_versions, Stats!utils_versions, utils_versions, Stats!net_versions,
         net_versions
<1>2. Stats!Interfaces = Interfaces
  BY <1>1 DEF Stats!Interfaces, Interfaces
<1>3. \A f, i : Stats!StopsAt(f, i) <=> StopsAt(f, i)
  BY <1>1 DEF Stats!StopsAt, StopsAt, Stats!FindOrCreate, FindOrCreate
<1>4. \A f : Stats!Found(f) <=> Found(f)
  BY <1>1, <1>3 DEF Stats!Found, Found
<1>5. \A f : Stats!Notice(f) = Notice(f)
  BY <1>3, <1>4 DEF Stats!Notice, Notice
<1>6. \A f : Stats!steamworks_resolve(f) <=> steamworks_resolve(f)
  BY <1>5 DEF Stats!steamworks_resolve, steamworks_resolve
<1> QED
  BY <1>1, <1>2, <1>4, <1>6
     DEF Stats!ifaceVars, ifaceVars, Stats!IfaceTypeOK, IfaceTypeOK,
         Stats!SteamAPI_Shutdown, SteamAPI_Shutdown, Stats!SteamAPI_InitFlat,
         SteamAPI_InitFlat

LEMMA BoardsInterfaces ==
  /\ Boards!Interfaces = Interfaces /\ Boards!versions = versions
  /\ UNCHANGED Boards!ifaceVars <=> UNCHANGED ifaceVars
  /\ Boards!IfaceTypeOK <=> IfaceTypeOK
  /\ Boards!SteamAPI_Shutdown <=> SteamAPI_Shutdown
  /\ \A c : Boards!SteamAPI_InitFlat(c) <=> SteamAPI_InitFlat(c)
  /\ \A f : Boards!Found(f) <=> Found(f)
  /\ \A f : Boards!steamworks_resolve(f) <=> steamworks_resolve(f)
<1>1. Boards!versions = versions
  BY DEF Boards!versions, versions, Boards!user_versions, user_versions,
         Boards!friends_versions, friends_versions, Boards!stats_versions,
         stats_versions, Boards!remote_versions, remote_versions, Boards!apps_versions,
         apps_versions, Boards!timeline_versions, timeline_versions,
         Boards!ugc_versions, ugc_versions, Boards!net_utils_versions,
         net_utils_versions, Boards!matchmaking_versions, matchmaking_versions,
         Boards!utils_versions, utils_versions, Boards!net_versions, net_versions
<1>2. Boards!Interfaces = Interfaces
  BY <1>1 DEF Boards!Interfaces, Interfaces
<1>3. \A f, i : Boards!StopsAt(f, i) <=> StopsAt(f, i)
  BY <1>1 DEF Boards!StopsAt, StopsAt, Boards!FindOrCreate, FindOrCreate
<1>4. \A f : Boards!Found(f) <=> Found(f)
  BY <1>1, <1>3 DEF Boards!Found, Found
<1>5. \A f : Boards!Notice(f) = Notice(f)
  BY <1>3, <1>4 DEF Boards!Notice, Notice
<1>6. \A f : Boards!steamworks_resolve(f) <=> steamworks_resolve(f)
  BY <1>5 DEF Boards!steamworks_resolve, steamworks_resolve
<1> QED
  BY <1>1, <1>2, <1>4, <1>6
     DEF Boards!ifaceVars, ifaceVars, Boards!IfaceTypeOK, IfaceTypeOK,
         Boards!SteamAPI_Shutdown, SteamAPI_Shutdown, Boards!SteamAPI_InitFlat,
         SteamAPI_InitFlat

LEMMA SocialInterfaces ==
  /\ Social!Interfaces = Interfaces /\ Social!versions = versions
  /\ UNCHANGED Social!ifaceVars <=> UNCHANGED ifaceVars
  /\ Social!IfaceTypeOK <=> IfaceTypeOK
  /\ Social!SteamAPI_Shutdown <=> SteamAPI_Shutdown
  /\ \A c : Social!SteamAPI_InitFlat(c) <=> SteamAPI_InitFlat(c)
  /\ \A f : Social!Found(f) <=> Found(f)
  /\ \A f : Social!steamworks_resolve(f) <=> steamworks_resolve(f)
<1>1. Social!versions = versions
  BY DEF Social!versions, versions, Social!user_versions, user_versions,
         Social!friends_versions, friends_versions, Social!stats_versions,
         stats_versions, Social!remote_versions, remote_versions, Social!apps_versions,
         apps_versions, Social!timeline_versions, timeline_versions,
         Social!ugc_versions, ugc_versions, Social!net_utils_versions,
         net_utils_versions, Social!matchmaking_versions, matchmaking_versions,
         Social!utils_versions, utils_versions, Social!net_versions, net_versions
<1>2. Social!Interfaces = Interfaces
  BY <1>1 DEF Social!Interfaces, Interfaces
<1>3. \A f, i : Social!StopsAt(f, i) <=> StopsAt(f, i)
  BY <1>1 DEF Social!StopsAt, StopsAt, Social!FindOrCreate, FindOrCreate
<1>4. \A f : Social!Found(f) <=> Found(f)
  BY <1>1, <1>3 DEF Social!Found, Found
<1>5. \A f : Social!Notice(f) = Notice(f)
  BY <1>3, <1>4 DEF Social!Notice, Notice
<1>6. \A f : Social!steamworks_resolve(f) <=> steamworks_resolve(f)
  BY <1>5 DEF Social!steamworks_resolve, steamworks_resolve
<1> QED
  BY <1>1, <1>2, <1>4, <1>6
     DEF Social!ifaceVars, ifaceVars, Social!IfaceTypeOK, IfaceTypeOK,
         Social!SteamAPI_Shutdown, SteamAPI_Shutdown, Social!SteamAPI_InitFlat,
         SteamAPI_InitFlat

LEMMA LobbyInterfaces ==
  /\ Lobby!Interfaces = Interfaces /\ Lobby!versions = versions
  /\ UNCHANGED Lobby!ifaceVars <=> UNCHANGED ifaceVars
  /\ Lobby!IfaceTypeOK <=> IfaceTypeOK
  /\ Lobby!SteamAPI_Shutdown <=> SteamAPI_Shutdown
  /\ \A c : Lobby!SteamAPI_InitFlat(c) <=> SteamAPI_InitFlat(c)
  /\ \A f : Lobby!Found(f) <=> Found(f)
  /\ \A f : Lobby!steamworks_resolve(f) <=> steamworks_resolve(f)
<1>1. Lobby!versions = versions
  BY DEF Lobby!versions, versions, Lobby!user_versions, user_versions,
         Lobby!friends_versions, friends_versions, Lobby!stats_versions, stats_versions,
         Lobby!remote_versions, remote_versions, Lobby!apps_versions, apps_versions,
         Lobby!timeline_versions, timeline_versions, Lobby!ugc_versions, ugc_versions,
         Lobby!net_utils_versions, net_utils_versions, Lobby!matchmaking_versions,
         matchmaking_versions, Lobby!utils_versions, utils_versions, Lobby!net_versions,
         net_versions
<1>2. Lobby!Interfaces = Interfaces
  BY <1>1 DEF Lobby!Interfaces, Interfaces
<1>3. \A f, i : Lobby!StopsAt(f, i) <=> StopsAt(f, i)
  BY <1>1 DEF Lobby!StopsAt, StopsAt, Lobby!FindOrCreate, FindOrCreate
<1>4. \A f : Lobby!Found(f) <=> Found(f)
  BY <1>1, <1>3 DEF Lobby!Found, Found
<1>5. \A f : Lobby!Notice(f) = Notice(f)
  BY <1>3, <1>4 DEF Lobby!Notice, Notice
<1>6. \A f : Lobby!steamworks_resolve(f) <=> steamworks_resolve(f)
  BY <1>5 DEF Lobby!steamworks_resolve, steamworks_resolve
<1> QED
  BY <1>1, <1>2, <1>4, <1>6
     DEF Lobby!ifaceVars, ifaceVars, Lobby!IfaceTypeOK, IfaceTypeOK,
         Lobby!SteamAPI_Shutdown, SteamAPI_Shutdown, Lobby!SteamAPI_InitFlat,
         SteamAPI_InitFlat

LEMMA MockInterfaces ==
  /\ Mock!Interfaces = Interfaces /\ Mock!versions = versions
  /\ UNCHANGED Mock!ifaceVars <=> UNCHANGED ifaceVars
  /\ Mock!IfaceTypeOK <=> IfaceTypeOK
  /\ Mock!SteamAPI_Shutdown <=> SteamAPI_Shutdown
  /\ \A c : Mock!SteamAPI_InitFlat(c) <=> SteamAPI_InitFlat(c)
  /\ \A f : Mock!Found(f) <=> Found(f)
  /\ \A f : Mock!steamworks_resolve(f) <=> steamworks_resolve(f)
<1>1. Mock!versions = versions
  BY DEF Mock!versions, versions, Mock!user_versions, user_versions,
         Mock!friends_versions, friends_versions, Mock!stats_versions, stats_versions,
         Mock!remote_versions, remote_versions, Mock!apps_versions, apps_versions,
         Mock!timeline_versions, timeline_versions, Mock!ugc_versions, ugc_versions,
         Mock!net_utils_versions, net_utils_versions, Mock!matchmaking_versions,
         matchmaking_versions, Mock!utils_versions, utils_versions, Mock!net_versions,
         net_versions
<1>2. Mock!Interfaces = Interfaces
  BY <1>1 DEF Mock!Interfaces, Interfaces
<1>3. \A f, i : Mock!StopsAt(f, i) <=> StopsAt(f, i)
  BY <1>1 DEF Mock!StopsAt, StopsAt, Mock!FindOrCreate, FindOrCreate
<1>4. \A f : Mock!Found(f) <=> Found(f)
  BY <1>1, <1>3 DEF Mock!Found, Found
<1>5. \A f : Mock!Notice(f) = Notice(f)
  BY <1>3, <1>4 DEF Mock!Notice, Notice
<1>6. \A f : Mock!steamworks_resolve(f) <=> steamworks_resolve(f)
  BY <1>5 DEF Mock!steamworks_resolve, steamworks_resolve
<1> QED
  BY <1>1, <1>2, <1>4, <1>6
     DEF Mock!ifaceVars, ifaceVars, Mock!IfaceTypeOK, IfaceTypeOK,
         Mock!SteamAPI_Shutdown, SteamAPI_Shutdown, Mock!SteamAPI_InitFlat,
         SteamAPI_InitFlat

-----------------------------------------------------------------------------
(* What a step may do to the interfaces, as far as their types go.         *)
InterfaceStep ==
  \/ UNCHANGED ifaceVars
  \/ \E f \in Interfaces : steamworks_resolve(f)
  \/ \E client \in Clients : SteamAPI_InitFlat(client)
  \/ SteamAPI_Shutdown

LEMMA InterfaceStepTypes ==
  ASSUME IfaceTypeOK, InterfaceStep
  PROVE  IfaceTypeOK'
<1>1. CASE UNCHANGED ifaceVars
  BY <1>1 DEF ifaceVars, IfaceTypeOK
<1> QED
  BY <1>1, ResolveTypes, InitFlatTypes, ShutdownTypes DEF InterfaceStep

LEMMA NamesOfInterfaces ==
  {"ISteamUser", "ISteamFriends", "ISteamUserStats", "ISteamApps", "ISteamUtils",
   "ISteamTimeline", "ISteamMatchmaking"} \subseteq Interfaces
BY DEF Interfaces, versions

(* Numbers that were cast to a signed type and come back unsigned.         *)
LEMMA Wraps ==
  ASSUME NEW m \in Nat, m >= 2, NEW n \in 0..(m - 1)
  PROVE  n % m = n /\ (n - m) % m = n
OBVIOUS

LEMMA Squares ==
  ASSUME NEW w \in Nat, w >= 2
  PROVE  w * w \in Nat /\ w * w >= w
OBVIOUS

-----------------------------------------------------------------------------
(* Session tickets.                                                        *)

(* A SteamID survives the way through a PHP integer, and no two meet.      *)
LEMMA SteamIdRoundTrip ==
  ASSUME Auth!AuthAssumption, NEW p \in Peers
  PROVE  /\ Auth!ToSteamId(Auth!SteamIdToLong(p)) = p
         /\ Auth!SteamIdToLong(p) \in Auth!PhpIds
<1> DEFINE w == IdWidth * IdWidth
<1>1. w \in Nat /\ w >= 2
  BY Squares DEF Auth!AuthAssumption
<1>2. p \in 0..(w - 1)
  BY <1>1 DEF Auth!AuthAssumption
<1>3. p % w = p /\ (p - w) % w = p
  <2> HIDE DEF w
  <2> QED
    BY <1>1, <1>2, Wraps
<1> QED
  BY <1>3 DEF Auth!ToSteamId, Auth!SteamIdToLong, Auth!PhpIds

LEMMA SteamIdsApart ==
  ASSUME Auth!AuthAssumption, NEW p \in Peers, NEW q \in Peers,
         Auth!SteamIdToLong(p) = Auth!SteamIdToLong(q)
  PROVE  p = q
BY SteamIdRoundTrip

(* All bytes of a ticket are the ticket.                                   *)
LEMMA WholeTicket ==
  ASSUME Auth!AuthAssumption, NEW ticket \in Tickets
  PROVE  /\ Auth!First(ticket, ticket.len) = ticket
         /\ ticket.len # 0 /\ ticket # Auth!NoTicket /\ ticket # Auth!Unnamed
<1>1. ticket \in [tag : STRING, len : Nat \ {0}, c : Nat] /\ ticket.c <= ticket.len
  BY DEF Auth!AuthAssumption
<1>2. ticket = [tag |-> ticket.tag, len |-> ticket.len, c |-> ticket.c]
  BY <1>1
<1>3. Auth!First(ticket, ticket.len) = [tag |-> ticket.tag, len |-> ticket.len, c |-> ticket.c]
  BY <1>1 DEF Auth!First
<1>4. ticket.len # 0
  BY <1>1
<1>5. Auth!NoTicket.len = 0 /\ Auth!Unnamed.len = 0
  BY DEF Auth!NoTicket, Auth!Unnamed
<1> QED
  BY <1>2, <1>3, <1>4, <1>5

(* The types, one by one.                                                  *)
AuthTypes ==
  /\ IfaceTypeOK
  /\ issued \in [Handles -> Tickets \cup {Auth!NoTicket, Auth!Unnamed}]
  /\ held \in [Handles -> Tickets \cup {Auth!NoTicket, Auth!Unnamed}]
  /\ offered_by \in [Peers -> Tickets \cup {Auth!NoTicket}]
  /\ sent \in [Peers -> Tickets \cup {Auth!NoTicket}]
  /\ sessions \subseteq Peers /\ admitted \subseteq Auth!PhpIds
  /\ answer.code \in {-1, Auth!OK, Auth!INVALID_TICKET, Auth!DUPLICATE_REQUEST}

LEMMA AuthTypesAre == AuthTypes <=> Auth!AuthTypeOK
BY AuthInterfaces DEF AuthTypes, Auth!AuthTypeOK

(* Tickets, sessions and answers are what the properties are about.        *)
AuthInv == AuthTypes /\ Auth!TicketsInHand /\ Auth!SessionsAsAdmitted

LEMMA AuthInitially ==
  ASSUME IfaceInit, Auth!AuthInit
  PROVE  AuthInv
<1>1. AuthTypes
  BY IfaceInitTypes DEF Auth!AuthInit, AuthTypes, Auth!NoAnswer
<1>2. Auth!TicketsInHand
  BY DEF Auth!AuthInit, Auth!TicketsInHand
<1>3. {Auth!SteamIdToLong(id) : id \in sessions} = admitted
  BY DEF Auth!AuthInit
<1>4. answer.code # Auth!OK /\ answer.genuine = FALSE
  BY DEF Auth!AuthInit, Auth!NoAnswer, Auth!OK
<1> QED
  BY <1>1, <1>2, <1>3, <1>4 DEF AuthInv, Auth!SessionsAsAdmitted

(* A step that answers no request for a session.                           *)
LEMMA NotAnswered ==
  ASSUME answer' = Auth!NoAnswer,
         {Auth!SteamIdToLong(id) : id \in sessions'} = admitted'
  PROVE  Auth!SessionsAsAdmitted'
<1>1. answer'.code # Auth!OK /\ answer'.genuine = FALSE
  BY DEF Auth!NoAnswer, Auth!OK
<1> QED
  BY <1>1 DEF Auth!SessionsAsAdmitted

(* A step that touches nothing but interfaces.                             *)
LEMMA AuthUntouched ==
  ASSUME AuthInv, InterfaceStep, UNCHANGED Auth!authVars
  PROVE  AuthInv'
<1>1. AuthTypes'
  BY InterfaceStepTypes DEF AuthInv, AuthTypes, Auth!authVars, Auth!PhpIds
<1>2. Auth!TicketsInHand' /\ Auth!SessionsAsAdmitted'
  BY DEF AuthInv, Auth!TicketsInHand, Auth!SessionsAsAdmitted, Auth!authVars
<1> QED
  BY <1>1, <1>2 DEF AuthInv

LEMMA AuthNext ==
  ASSUME Auth!AuthAssumption, AuthInv, Auth!Next
  PROVE  AuthInv'
<1> USE DEF AuthInv
<1>i. ASSUME Auth!UserCall PROVE InterfaceStep
  BY <1>i, AuthInterfaces, NamesOfInterfaces DEF Auth!UserCall, Auth!User, InterfaceStep
<1>n. answer' = Auth!NoAnswer => answer'.code = -1
  BY DEF Auth!NoAnswer
<1>1. CASE \E client \in Clients : Auth!steam_init(client)
  BY <1>1, AuthUntouched, AuthInterfaces DEF InterfaceStep, Auth!steam_init
<1>2. CASE Auth!steam_shutdown
  <2>1. InterfaceStep
    BY <1>2, AuthInterfaces DEF Auth!steam_shutdown, InterfaceStep
  <2>2. AuthTypes'
    BY <1>2, <1>n, <2>1, InterfaceStepTypes DEF AuthTypes, Auth!steam_shutdown
  <2>3. Auth!TicketsInHand'
    BY <1>2 DEF Auth!steam_shutdown, Auth!TicketsInHand
  <2>4. Auth!SessionsAsAdmitted'
    BY <1>2, NotAnswered DEF Auth!steam_shutdown
  <2> QED
    BY <2>2, <2>3, <2>4
<1>3. CASE Auth!user_read
  BY <1>3, <1>i, AuthUntouched DEF Auth!user_read
<1>4. CASE Auth!steam_user_get_auth_session_ticket
  <2>1. InterfaceStep
    BY <1>4, <1>i DEF Auth!steam_user_get_auth_session_ticket
  <2>2. Auth!SessionsAsAdmitted'
    BY <1>4, NotAnswered DEF Auth!steam_user_get_auth_session_ticket, Auth!SessionsAsAdmitted
  <2>3. CASE UNCHANGED <<issued, held>>
    <3>1. AuthTypes'
      BY <1>4, <1>n, <2>1, <2>3, InterfaceStepTypes
         DEF AuthTypes, Auth!steam_user_get_auth_session_ticket
    <3>2. Auth!TicketsInHand'
      BY <2>3 DEF Auth!TicketsInHand
    <3> QED
      BY <2>2, <3>1, <3>2
  <2>4. ASSUME NEW h \in Handles, NEW ticket \in Tickets \cup {Auth!Unnamed},
               issued[h] = Auth!NoTicket,
               issued' = [issued EXCEPT ![h] = ticket],
               held' = IF ticket.len = 0 THEN held
                         ELSE [held EXCEPT ![h] = Auth!ticket_bytes(ticket)]
        PROVE  AuthInv'
    <3>1. CASE ticket \in Tickets
      <4>1. held' = [held EXCEPT ![h] = ticket]
        BY <2>4, <3>1, WholeTicket DEF Auth!ticket_bytes
      <4>2. AuthTypes'
        BY <1>4, <1>n, <2>1, <2>4, <3>1, <4>1, InterfaceStepTypes
           DEF AuthTypes, Auth!steam_user_get_auth_session_ticket
      <4>3. Auth!TicketsInHand'
        BY <2>4, <4>1 DEF Auth!TicketsInHand, AuthTypes
      <4> QED
        BY <2>2, <4>2, <4>3
    <3>2. CASE ticket = Auth!Unnamed
      <4>1. held' = held
        BY <2>4, <3>2 DEF Auth!Unnamed
      <4>2. AuthTypes'
        BY <1>4, <1>n, <2>1, <2>4, <3>2, <4>1, InterfaceStepTypes
           DEF AuthTypes, Auth!steam_user_get_auth_session_ticket
      <4>3. Auth!TicketsInHand'
        BY <2>4, <3>2, <4>1 DEF Auth!TicketsInHand, AuthTypes
      <4> QED
        BY <2>2, <4>2, <4>3
    <3> QED
      BY <3>1, <3>2
  <2> QED
    BY <1>4, <2>3, <2>4 DEF Auth!steam_user_get_auth_session_ticket
<1>5. ASSUME NEW n \in Handles, Auth!steam_user_cancel_auth_ticket(n)
      PROVE  AuthInv'
  <2>1. InterfaceStep
    BY <1>5, <1>i DEF Auth!steam_user_cancel_auth_ticket
  <2>2. Auth!SessionsAsAdmitted'
    BY <1>5, NotAnswered DEF Auth!steam_user_cancel_auth_ticket, Auth!SessionsAsAdmitted
  <2>3. Auth!ToHAuthTicket(n) = n
    <3>1. IdWidth \in Nat /\ IdWidth >= 2 /\ n \in 0..(IdWidth - 1)
      BY DEF Auth!AuthAssumption
    <3> QED
      BY <3>1, Wraps DEF Auth!ToHAuthTicket
  <2>4. \/ UNCHANGED <<issued, held>>
        \/ /\ issued' = [h \in Handles |-> IF h = n THEN Auth!NoTicket ELSE issued[h]]
           /\ held' = [held EXCEPT ![n] = Auth!NoTicket]
    BY <1>5, <2>3 DEF Auth!steam_user_cancel_auth_ticket
  <2>5. AuthTypes'
    BY <1>5, <1>n, <2>1, <2>4, InterfaceStepTypes
       DEF AuthTypes, Auth!steam_user_cancel_auth_ticket
  <2>6. Auth!TicketsInHand'
    BY <2>4 DEF Auth!TicketsInHand, AuthTypes
  <2> QED
    BY <2>2, <2>5, <2>6
<1>6. ASSUME NEW p \in Peers, Auth!PeerCancels(p)
      PROVE  AuthInv'
  <2>1. InterfaceStep
    BY <1>6, AuthInterfaces DEF Auth!PeerCancels, InterfaceStep
  <2>2. AuthTypes'
    BY <1>6, <1>n, <2>1, InterfaceStepTypes DEF AuthTypes, Auth!PeerCancels
  <2>3. Auth!TicketsInHand'
    BY <1>6 DEF Auth!PeerCancels, Auth!TicketsInHand
  <2>4. Auth!SessionsAsAdmitted'
    BY <1>6, NotAnswered DEF Auth!PeerCancels, Auth!SessionsAsAdmitted
  <2> QED
    BY <2>2, <2>3, <2>4
<1>7. ASSUME NEW p \in Peers, NEW ticket \in Tickets, Auth!PeerSends(p, ticket)
      PROVE  AuthInv'
  <2>1. InterfaceStep
    BY <1>7, AuthInterfaces DEF Auth!PeerSends, InterfaceStep
  <2>2. AuthTypes'
    BY <1>7, <1>n, <2>1, InterfaceStepTypes DEF AuthTypes, Auth!PeerSends
  <2>3. Auth!TicketsInHand'
    BY <1>7 DEF Auth!PeerSends, Auth!TicketsInHand
  <2>4. Auth!SessionsAsAdmitted'
    BY <1>7, NotAnswered DEF Auth!PeerSends, Auth!SessionsAsAdmitted
  <2> QED
    BY <2>2, <2>3, <2>4
<1>8. ASSUME NEW p \in Peers, Auth!steam_user_begin_auth_session(p)
      PROVE  AuthInv'
  <2> DEFINE id == Auth!SteamIdToLong(p)
             bytes == Auth!First(sent[p], Auth!ticket_length(sent[p]))
             code == Auth!BeginAuthSession(bytes, Auth!ToSteamId(id))
  <2>1. InterfaceStep
    BY <1>8, <1>i DEF Auth!steam_user_begin_auth_session
  <2>2. Auth!ToSteamId(id) = p /\ id \in Auth!PhpIds
    BY SteamIdRoundTrip
  <2>3. sent[p] \in Tickets
    BY <1>8 DEF Auth!steam_user_begin_auth_session, AuthTypes
  <2>4. bytes = sent[p] /\ bytes # Auth!NoTicket
    BY <2>3, WholeTicket DEF Auth!ticket_length
  <2>5. p \in sessions <=> id \in admitted
    <3>1. p \in sessions => id \in admitted
      BY DEF Auth!SessionsAsAdmitted
    <3>2. ASSUME id \in admitted PROVE p \in sessions
      <4>1. PICK q \in sessions : id = Auth!SteamIdToLong(q)
        BY <3>2 DEF Auth!SessionsAsAdmitted
      <4>2. q = p
        BY <4>1, SteamIdsApart DEF AuthTypes
      <4> QED
        BY <4>1, <4>2
    <3> QED
      BY <3>1, <3>2
  <2>6. /\ code = Auth!OK <=> p \notin sessions /\ offered_by[p] = sent[p]
        /\ code \in {Auth!OK, Auth!INVALID_TICKET, Auth!DUPLICATE_REQUEST}
    BY <2>2, <2>4 DEF Auth!BeginAuthSession, Auth!OK, Auth!INVALID_TICKET,
                      Auth!DUPLICATE_REQUEST
  <2>7. CASE Auth!Found(Auth!User)
    <3>1. /\ sessions' = IF code = Auth!OK THEN sessions \cup {p} ELSE sessions
          /\ admitted' = IF code = Auth!OK THEN admitted \cup {id} ELSE admitted
          /\ answer' = [code |-> code,
                        genuine |-> sent[p] = offered_by[p] /\ id \notin admitted]
          /\ UNCHANGED <<issued, held, offered_by, sent>>
      BY <1>8, <2>2, <2>7 DEF Auth!steam_user_begin_auth_session
    <3> HIDE DEF id, bytes, code
    <3>2. AuthTypes'
      BY <2>1, <2>2, <2>6, <3>1, InterfaceStepTypes DEF AuthTypes, Auth!PhpIds
    <3>3. Auth!TicketsInHand'
      BY <3>1 DEF Auth!TicketsInHand
    <3>4. {Auth!SteamIdToLong(q) : q \in sessions'} = admitted'
      BY <3>1 DEF id, Auth!SessionsAsAdmitted
    <3>5. answer'.code = Auth!OK <=> answer'.genuine
      BY <2>5, <2>6, <3>1
    <3>6. answer'.genuine \in BOOLEAN
      BY <3>1
    <3> QED
      BY <3>2, <3>3, <3>4, <3>5, <3>6 DEF Auth!SessionsAsAdmitted
  <2>8. CASE ~Auth!Found(Auth!User)
    <3>1. /\ UNCHANGED <<sessions, admitted, issued, held, offered_by, sent>>
          /\ answer' = Auth!NoAnswer
      BY <1>8, <2>8 DEF Auth!steam_user_begin_auth_session
    <3>2. AuthTypes'
      BY <1>n, <2>1, <3>1, InterfaceStepTypes DEF AuthTypes
    <3>3. Auth!TicketsInHand'
      BY <3>1 DEF Auth!TicketsInHand
    <3>4. Auth!SessionsAsAdmitted'
      BY <3>1, NotAnswered DEF Auth!SessionsAsAdmitted
    <3> QED
      BY <3>2, <3>3, <3>4
  <2> QED
    BY <2>7, <2>8
<1>9. ASSUME NEW n \in Auth!PhpIds, Auth!steam_user_end_auth_session(n)
      PROVE  AuthInv'
  <2>1. PICK p \in Peers : n = Auth!SteamIdToLong(p)
    BY DEF Auth!PhpIds
  <2>2. InterfaceStep
    BY <1>9, <1>i DEF Auth!steam_user_end_auth_session
  <2>3. \/ UNCHANGED <<sessions, admitted>>
        \/ sessions' = sessions \ {p} /\ admitted' = admitted \ {n}
    BY <1>9, <2>1, SteamIdRoundTrip DEF Auth!steam_user_end_auth_session
  <2>4. AuthTypes'
    BY <1>9, <1>n, <2>2, <2>3, InterfaceStepTypes
       DEF AuthTypes, Auth!steam_user_end_auth_session
  <2>5. Auth!TicketsInHand'
    BY <1>9 DEF Auth!steam_user_end_auth_session, Auth!TicketsInHand
  <2>6. {Auth!SteamIdToLong(id) : id \in sessions'} = admitted'
    BY <2>1, <2>3, SteamIdsApart DEF Auth!SessionsAsAdmitted, AuthTypes
  <2>7. Auth!SessionsAsAdmitted'
    BY <1>9, <2>6, NotAnswered DEF Auth!steam_user_end_auth_session
  <2> QED
    BY <2>4, <2>5, <2>7
<1> QED
  BY <1>1, <1>2, <1>3, <1>4, <1>5, <1>6, <1>7, <1>8, <1>9 DEF Auth!Next

(* The tickets a script holds are those Steam has, and Steam has a session *)
(* with exactly the peers it let in, each for a genuine ticket, whatever   *)
(* SteamIDs and tickets there are and however sessions begin and end.      *)
THEOREM TicketsAndSessions == Spec => []AuthAsMeant
<1> DEFINE Inv == scene = "auth" => AuthInv
<1> USE ServicesAssumption DEF ServicesAssumption
<1>1. Init => Inv
  BY AuthInitially DEF Init, MockScenes
<1>2. Inv /\ [Next]_vars => Inv'
  <2> SUFFICES ASSUME scene' = "auth", Inv, [Next]_vars PROVE AuthInv'
    OBVIOUS
  <2>1. CASE AuthStep
    BY <2>1, AuthNext DEF AuthStep
  <2>2. CASE UNCHANGED vars
    <3>1. InterfaceStep /\ UNCHANGED Auth!authVars
      BY <2>2 DEF vars, authVars, Auth!authVars, InterfaceStep
    <3> QED
      BY <2>2, <3>1, AuthUntouched DEF vars
  <2> QED
    BY <2>1, <2>2 DEF Next, LobbyStep, StatsStep, BoardStep, SocialStep, TimelineStep, MockStep,
                      SocialScenes
<1>3. Inv => AuthAsMeant
  BY AuthTypesAre DEF AuthInv, AuthAsMeant
<1> QED
  BY <1>1, <1>2, <1>3, PTL DEF Spec

-----------------------------------------------------------------------------
(* Events on the timeline.                                                 *)

(* A handle survives the way through a PHP integer.                        *)
LEMMA HandleRoundTrip ==
  ASSUME Timeline!TimelineAssumption, NEW h \in EventHandles
  PROVE  /\ Timeline!ToEventHandle(Timeline!ToLong(h)) = h
         /\ Timeline!ToLong(h) \in Timeline!PhpHandles
<1>1. Timeline!Width \in Nat /\ Timeline!Width >= 2
  BY Squares DEF Timeline!TimelineAssumption, Timeline!Width
<1>2. h \in 0..(Timeline!Width - 1)
  BY <1>1 DEF Timeline!TimelineAssumption
<1>3. h % Timeline!Width = h /\ (h - Timeline!Width) % Timeline!Width = h
  BY <1>1, <1>2, Wraps
<1> QED
  BY <1>3 DEF Timeline!ToEventHandle, Timeline!ToLong, Timeline!PhpHandles

LEMMA HandlesApart ==
  ASSUME Timeline!TimelineAssumption, NEW g \in EventHandles, NEW h \in EventHandles,
         Timeline!ToLong(g) = Timeline!ToLong(h)
  PROVE  g = h
BY HandleRoundTrip

LEMMA PriorityRange ==
  ASSUME Timeline!TimelineAssumption, NEW n \in Int
  PROVE  Timeline!icon_priority(n) \in 0..(HalfWidth - 1)
BY DEF Timeline!TimelineAssumption, Timeline!icon_priority

Shapes == {"instant", "range", "open", "ended"}
EventRecords == [shape : Shapes, title : Titles, priority : Int, duration : Nat]

LEMMA NoRecord == \A event \in EventRecords : event # Timeline!NoEvent
BY DEF EventRecords, Shapes, Timeline!NoEvent

(* How Steam has an event the script means.                                *)
AsInSteam(event) ==
  IF event = Timeline!NoEvent THEN Timeline!NoEvent
  ELSE [event EXCEPT !.priority = Timeline!icon_priority(@)]

(* What a script means is an event or none; and Steam has just that.       *)
TimelineInv ==
  /\ IfaceTypeOK
  /\ noted \in [Timeline!PhpHandles -> EventRecords \cup {Timeline!NoEvent}]
  /\ events = [h \in EventHandles |-> AsInSteam(noted[Timeline!ToLong(h)])]

LEMMA TimelineInvImplies ==
  ASSUME Timeline!TimelineAssumption, TimelineInv
  PROVE  Timeline!TimelineTypeOK /\ Timeline!TimelineAsMeant
<1>1. Timeline!TimelineAsMeant
  BY DEF TimelineInv, AsInSteam, Timeline!TimelineAsMeant
<1>2. ASSUME NEW h \in EventHandles, events[h] # Timeline!NoEvent
      PROVE  /\ events[h].shape \in Shapes
             /\ events[h].priority \in 0..(HalfWidth - 1)
  <2> DEFINE event == noted[Timeline!ToLong(h)]
  <2>1. events[h] = AsInSteam(event)
    BY DEF TimelineInv
  <2>2. event \in EventRecords
    BY <1>2, <2>1, HandleRoundTrip DEF TimelineInv, AsInSteam
  <2>3. events[h] = [event EXCEPT !.priority = Timeline!icon_priority(@)]
    BY <2>1, <2>2, NoRecord DEF AsInSteam
  <2> QED
    BY <2>2, <2>3, PriorityRange DEF EventRecords
<1> QED
  BY <1>1, <1>2, TimelineInterfaces DEF TimelineInv, Timeline!TimelineTypeOK, Shapes

LEMMA TimelineUntouched ==
  ASSUME TimelineInv, InterfaceStep, UNCHANGED Timeline!timelineVars
  PROVE  TimelineInv'
BY InterfaceStepTypes DEF TimelineInv, Timeline!timelineVars, AsInSteam, Timeline!PhpHandles

(* What the script means by a handle changes, and Steam follows.           *)
LEMMA OneEventChanges ==
  ASSUME Timeline!TimelineAssumption, TimelineInv, InterfaceStep,
         NEW h \in EventHandles, NEW event \in EventRecords \cup {Timeline!NoEvent},
         noted' = [noted EXCEPT ![Timeline!ToLong(h)] = event],
         events' = [events EXCEPT ![h] = AsInSteam(event)]
  PROVE  TimelineInv'
<1>1. noted' \in [Timeline!PhpHandles -> EventRecords \cup {Timeline!NoEvent}]
  BY DEF TimelineInv
<1>2. ASSUME NEW g \in EventHandles
      PROVE  events'[g] = AsInSteam(noted'[Timeline!ToLong(g)])
  <2>1. CASE g = h
    BY <2>1, HandleRoundTrip DEF TimelineInv
  <2>2. CASE g # h
    BY <2>2, HandleRoundTrip, HandlesApart DEF TimelineInv
  <2> QED
    BY <2>1, <2>2
<1>3. events' = [g \in EventHandles |-> events'[g]]
  BY DEF TimelineInv
<1>4. events' = [g \in EventHandles |-> AsInSteam(noted'[Timeline!ToLong(g)])]
  BY <1>2, <1>3
<1> QED
  BY <1>1, <1>4, InterfaceStepTypes DEF TimelineInv, AsInSteam, Timeline!PhpHandles

LEMMA AddsKeeps ==
  ASSUME Timeline!TimelineAssumption, TimelineInv, NEW shape \in Shapes, NEW title \in Titles,
         NEW priority \in Priorities, NEW duration \in Nat,
         Timeline!Adds(shape, title, priority, duration)
  PROVE  TimelineInv'
<1>1. InterfaceStep
  BY TimelineInterfaces, NamesOfInterfaces
     DEF Timeline!Adds, Timeline!TimelineCall, Timeline!Timeline, InterfaceStep
<1>2. CASE UNCHANGED Timeline!timelineVars
  BY <1>1, <1>2, TimelineUntouched
<1>3. CASE ~UNCHANGED Timeline!timelineVars
  <2> DEFINE event == Timeline!Event(shape, title, priority, duration)
  <2>1. PICK h \in EventHandles :
          /\ events' = [events EXCEPT ![h] =
               Timeline!Event(shape, title, Timeline!icon_priority(priority), duration)]
          /\ noted' = [noted EXCEPT ![Timeline!ToLong(h)] = event]
    BY <1>3 DEF Timeline!Adds
  <2>2. event \in EventRecords
    BY DEF Timeline!Event, EventRecords, Timeline!TimelineAssumption
  <2>3. AsInSteam(event) =
          Timeline!Event(shape, title, Timeline!icon_priority(priority), duration)
    BY <2>2, NoRecord DEF AsInSteam, Timeline!Event
  <2> QED
    BY <1>1, <2>1, <2>2, <2>3, OneEventChanges
<1> QED
  BY <1>2, <1>3

(* A change is meant for one event, and reaches it in Steam, if Steam has  *)
(* it as meant afterwards.                                                 *)
LEMMA ChangesKeeps ==
  ASSUME Timeline!TimelineAssumption, TimelineInv, NEW n \in Timeline!PhpHandles,
         NEW Sh \in SUBSET Shapes, NEW inSteam, NEW asMeant,
         noted[n].shape \in Sh =>
           /\ asMeant \in EventRecords \cup {Timeline!NoEvent}
           /\ inSteam = AsInSteam(asMeant),
         Timeline!Changes(n, Sh, inSteam, asMeant)
  PROVE  TimelineInv'
<1>1. InterfaceStep
  BY TimelineInterfaces, NamesOfInterfaces
     DEF Timeline!Changes, Timeline!TimelineCall, Timeline!Timeline, InterfaceStep
<1>2. PICK h \in EventHandles : n = Timeline!ToLong(h)
  BY DEF Timeline!PhpHandles
<1>3. Timeline!ToEventHandle(n) = h
  BY <1>2, HandleRoundTrip
<1>4. events[h] = AsInSteam(noted[n])
  BY <1>2 DEF TimelineInv
<1>5. events[h].shape = noted[n].shape
  <2>1. noted[n] \in EventRecords \cup {Timeline!NoEvent}
    BY DEF TimelineInv
  <2> QED
    BY <1>4, <2>1, NoRecord DEF AsInSteam, EventRecords
<1>6. CASE UNCHANGED Timeline!timelineVars
  BY <1>1, <1>6, TimelineUntouched
<1>7. CASE ~UNCHANGED Timeline!timelineVars
  <2>1. /\ noted[n].shape \in Sh
        /\ events' = [events EXCEPT ![h] = inSteam]
        /\ noted' = [noted EXCEPT ![n] = asMeant]
    BY <1>3, <1>5, <1>7 DEF Timeline!Changes, Timeline!timelineVars
  <2> QED
    BY <1>1, <1>2, <2>1, OneEventChanges
<1> QED
  BY <1>6, <1>7

LEMMA TimelineNext ==
  ASSUME Timeline!TimelineAssumption, TimelineInv, Timeline!Next
  PROVE  TimelineInv'
<1>1. CASE \E client \in Clients : Timeline!steam_init(client)
  BY <1>1, TimelineUntouched, TimelineInterfaces DEF InterfaceStep, Timeline!steam_init
<1>2. CASE Timeline!steam_shutdown
  <2>1. IfaceTypeOK'
    BY <1>2, TimelineInterfaces, ShutdownTypes DEF Timeline!steam_shutdown, TimelineInv
  <2>2. events' = [h \in EventHandles |-> Timeline!NoEvent]
    BY <1>2 DEF Timeline!steam_shutdown
  <2>3. noted' = [n \in Timeline!PhpHandles |-> Timeline!NoEvent]
    BY <1>2 DEF Timeline!steam_shutdown
  <2>4. events' = [h \in EventHandles |-> AsInSteam(noted'[Timeline!ToLong(h)])]
    BY <2>2, <2>3, HandleRoundTrip DEF AsInSteam
  <2> QED
    BY <2>1, <2>3, <2>4 DEF TimelineInv, AsInSteam, Timeline!PhpHandles
<1>3. ASSUME NEW title \in Titles, NEW priority \in Priorities,
             Timeline!steam_timeline_add_instantaneous_event(title, priority)
      PROVE  TimelineInv'
  BY <1>3, AddsKeeps DEF Timeline!steam_timeline_add_instantaneous_event, Shapes
<1>4. ASSUME NEW title \in Titles, NEW priority \in Priorities, NEW duration \in Durations,
             Timeline!steam_timeline_add_range_event(title, priority, duration)
      PROVE  TimelineInv'
  BY <1>4, AddsKeeps
     DEF Timeline!steam_timeline_add_range_event, Shapes, Timeline!TimelineAssumption
<1>5. ASSUME NEW title \in Titles, NEW priority \in Priorities,
             Timeline!steam_timeline_start_range_event(title, priority)
      PROVE  TimelineInv'
  BY <1>5, AddsKeeps DEF Timeline!steam_timeline_start_range_event, Shapes
<1>6. ASSUME NEW title \in Titles, NEW priority \in Priorities, NEW n \in Timeline!PhpHandles,
             Timeline!steam_timeline_update_range_event(n, title, priority)
      PROVE  TimelineInv'
  <2> DEFINE Updated(event, p) == [event EXCEPT !.title = title, !.priority = p]
             inSteam == Updated(events[Timeline!ToEventHandle(n)],
                                Timeline!icon_priority(priority))
             asMeant == Updated(noted[n], priority)
  <2>1. Timeline!Changes(n, {"open"}, inSteam, asMeant)
    BY <1>6 DEF Timeline!steam_timeline_update_range_event
  <2>2. ASSUME noted[n].shape \in {"open"}
        PROVE  asMeant \in EventRecords /\ inSteam = AsInSteam(asMeant)
    <3>1. noted[n] \in EventRecords
      BY <2>2 DEF TimelineInv, Timeline!NoEvent
    <3>2. events[Timeline!ToEventHandle(n)] = AsInSteam(noted[n])
      BY HandleRoundTrip DEF TimelineInv, Timeline!PhpHandles
    <3>3. priority \in Int
      BY DEF Timeline!TimelineAssumption
    <3>4. asMeant \in EventRecords
      BY <3>1, <3>3 DEF EventRecords
    <3> QED
      BY <3>1, <3>2, <3>4, NoRecord DEF AsInSteam, EventRecords
  <2> HIDE DEF inSteam, asMeant
  <2> QED
    BY <2>1, <2>2, ChangesKeeps DEF Shapes
<1>7. ASSUME NEW n \in Timeline!PhpHandles, Timeline!steam_timeline_end_range_event(n)
      PROVE  TimelineInv'
  <2> DEFINE Ended(event) == [event EXCEPT !.shape = "ended"]
             inSteam == Ended(events[Timeline!ToEventHandle(n)])
             asMeant == Ended(noted[n])
  <2>1. Timeline!Changes(n, {"open"}, inSteam, asMeant)
    BY <1>7 DEF Timeline!steam_timeline_end_range_event
  <2>2. ASSUME noted[n].shape \in {"open"}
        PROVE  asMeant \in EventRecords /\ inSteam = AsInSteam(asMeant)
    <3>1. noted[n] \in EventRecords
      BY <2>2 DEF TimelineInv, Timeline!NoEvent
    <3>2. events[Timeline!ToEventHandle(n)] = AsInSteam(noted[n])
      BY HandleRoundTrip DEF TimelineInv, Timeline!PhpHandles
    <3>3. asMeant \in EventRecords
      BY <3>1 DEF EventRecords, Shapes
    <3> QED
      BY <3>1, <3>2, <3>3, NoRecord DEF AsInSteam, EventRecords
  <2> HIDE DEF inSteam, asMeant
  <2> QED
    BY <2>1, <2>2, ChangesKeeps DEF Shapes
<1>8. ASSUME NEW n \in Timeline!PhpHandles, Timeline!steam_timeline_remove_event(n)
      PROVE  TimelineInv'
  <2>1. Timeline!Changes(n, Shapes, Timeline!NoEvent, Timeline!NoEvent)
    BY <1>8 DEF Timeline!steam_timeline_remove_event, Shapes
  <2>2. AsInSteam(Timeline!NoEvent) = Timeline!NoEvent
    BY DEF AsInSteam
  <2> QED
    BY <2>1, <2>2, ChangesKeeps
<1>9. CASE Timeline!steam_timeline_other
  BY <1>9, TimelineUntouched, TimelineInterfaces, NamesOfInterfaces
     DEF Timeline!steam_timeline_other, Timeline!TimelineCall, Timeline!Timeline, InterfaceStep
<1> QED
  BY <1>1, <1>2, <1>3, <1>4, <1>5, <1>6, <1>7, <1>8, <1>9 DEF Timeline!Next

(* A call on a timeline event reaches the event its script means, for      *)
(* every handle Steam may give out, as a PHP integer of either sign.       *)
THEOREM TimelineIsAsMeant == Spec => []TimelineAsMeant
<1> DEFINE Inv == scene = "timeline" => TimelineInv
<1> USE ServicesAssumption DEF ServicesAssumption
<1>1. Init => Inv
  <2> SUFFICES ASSUME IfaceInit, Timeline!TimelineInit PROVE TimelineInv
    BY DEF Init, MockScenes
  <2>1. events = [h \in EventHandles |-> AsInSteam(noted[Timeline!ToLong(h)])]
    BY HandleRoundTrip DEF Timeline!TimelineInit, AsInSteam
  <2> QED
    BY <2>1, IfaceInitTypes DEF TimelineInv, Timeline!TimelineInit
<1>2. Inv /\ [Next]_vars => Inv'
  <2> SUFFICES ASSUME scene' = "timeline", Inv, [Next]_vars PROVE TimelineInv'
    OBVIOUS
  <2>1. CASE TimelineStep
    BY <2>1, TimelineNext DEF TimelineStep
  <2>2. CASE UNCHANGED vars
    <3>1. InterfaceStep /\ UNCHANGED Timeline!timelineVars
      BY <2>2 DEF vars, timelineVars, Timeline!timelineVars, InterfaceStep
    <3> QED
      BY <2>2, <3>1, TimelineUntouched DEF vars
  <2> QED
    BY <2>1, <2>2 DEF Next, LobbyStep, StatsStep, BoardStep, SocialStep, AuthStep, MockStep,
                      SocialScenes
<1>3. Inv => TimelineAsMeant
  BY TimelineInvImplies DEF TimelineAsMeant
<1> QED
  BY <1>1, <1>2, <1>3, PTL DEF Spec

-----------------------------------------------------------------------------
(* Statistics and achievements.                                            *)

(* An int32 holds every number of its range, and only those.               *)
LEMMA Int32Holds ==
  ASSUME Stats!StatsAssumption, NEW n \in Int
  PROVE  /\ Stats!ToStatInt(n) \in (-StatMax - 1)..StatMax
         /\ n \in (-StatMax - 1)..StatMax => Stats!ToStatInt(n) = n
<1> DEFINE m == 2 * StatMax + 2
           u == n % m
<1>1. StatMax \in Nat /\ m \in Nat /\ m >= 2
  BY DEF Stats!StatsAssumption
<1>2. u \in 0..(m - 1)
  <2> HIDE DEF m
  <2> QED
    BY <1>1
<1>3. n \in 0..StatMax => u = n
  BY <1>1
<1>4. n \in (-StatMax - 1)..(-1) => u = n + m
  <2> SUFFICES ASSUME n \in (-StatMax - 1)..(-1) PROVE u = n + m
    OBVIOUS
  <2>1. n + m \in 0..(m - 1)
    BY <1>1
  <2>2. ((n + m) - m) % m = n + m
    <3> HIDE DEF m
    <3> QED
      BY <1>1, <2>1, Wraps
  <2> QED
    BY <1>1, <2>2
<1>5. Stats!ToStatInt(n) = IF u > StatMax THEN u - m ELSE u
  BY DEF Stats!ToStatInt, Stats!ToUint
<1> HIDE DEF u
<1>6. Stats!ToStatInt(n) \in (-StatMax - 1)..StatMax
  BY <1>1, <1>2, <1>5
<1>7. n \in (-StatMax - 1)..StatMax => Stats!ToStatInt(n) = n
  BY <1>1, <1>3, <1>4, <1>5
<1> QED
  BY <1>6, <1>7

Copies ==
  [ stats : [Stats!StatNames -> Int],
    achieved : [Stats!AchievementNames -> BOOLEAN],
    time : [Stats!AchievementNames -> 0..MaxUnlocks] ]

(* How Steam has what a script set.                                        *)
Shown(intent) ==
  [ intent EXCEPT !.stats = [s \in Stats!StatNames |-> Stats!Stored(s, intent.stats[s])] ]

(* The session shows what was set, and the account what was stored.        *)
StatsInv ==
  /\ IfaceTypeOK
  /\ now \in 0..MaxUnlocks
  /\ meant \in Copies /\ promised \in Copies
  /\ loaded = Shown(meant) /\ saved = Shown(promised)

LEMMA ShownFields ==
  ASSUME NEW intent \in Copies
  PROVE  /\ Shown(intent) = [ stats |-> [s \in Stats!StatNames |->
                                           Stats!Stored(s, intent.stats[s])],
                              achieved |-> intent.achieved, time |-> intent.time ]
         /\ Shown(intent).achieved = intent.achieved
         /\ Shown(intent).time = intent.time
         /\ \A s \in Stats!StatNames :
              Shown(intent).stats[s] = Stats!Stored(s, intent.stats[s])
BY DEF Copies, Shown

LEMMA FreshIsShown ==
  ASSUME Stats!StatsAssumption
  PROVE  Stats!Fresh \in Copies /\ Shown(Stats!Fresh) = Stats!Fresh
<1>1. Stats!Fresh \in Copies
  BY DEF Stats!Fresh, Copies, Stats!StatsAssumption
<1>2. \A s \in Stats!StatNames : Stats!Stored(s, 0) = 0
  <2>1. 0 \in (-StatMax - 1)..StatMax
    BY DEF Stats!StatsAssumption
  <2>2. Stats!ToStatInt(0) = 0
    BY <2>1, Int32Holds
  <2>3. Stats!ToFloat(0) = 0
    BY DEF Stats!ToFloat
  <2> QED
    BY <2>2, <2>3 DEF Stats!Stored
<1> QED
  BY <1>1, <1>2, ShownFields DEF Stats!Fresh

LEMMA StatsUntouched ==
  ASSUME StatsInv, InterfaceStep, UNCHANGED Stats!statsVars
  PROVE  StatsInv'
BY InterfaceStepTypes
   DEF StatsInv, Stats!statsVars, Shown, Copies, Stats!Stored, Stats!StatNames,
       Stats!AchievementNames

(* A step gives a new meaning to what was set and stored, and Steam shows  *)
(* it.                                                                     *)
LEMMA StatsShow ==
  ASSUME IfaceTypeOK', now' \in 0..MaxUnlocks, meant' \in Copies, promised' \in Copies,
         loaded' = Shown(meant'), saved' = Shown(promised')
  PROVE  StatsInv'
BY DEF StatsInv, Shown, Copies, Stats!Stored, Stats!StatNames, Stats!AchievementNames

LEMMA SetStatShows ==
  ASSUME Stats!StatsAssumption, StatsInv, NEW stat \in Stats!StatNames, NEW value \in Numbers,
         Stats!SetStat(stat, value)
  PROVE  meant' \in Copies /\ loaded' = Shown(meant')
<1>1. CASE Stats!Found(Stats!UserStats)
  <2>1. /\ loaded' = [loaded EXCEPT !.stats[stat] = Stats!Stored(stat, value)]
        /\ meant' = [meant EXCEPT !.stats[stat] = value]
    BY <1>1 DEF Stats!SetStat
  <2>2. value \in Int
    BY DEF Stats!StatsAssumption
  <2>3. meant' \in Copies
    BY <2>1, <2>2 DEF Copies, StatsInv
  <2>4. /\ meant'.achieved = meant.achieved /\ meant'.time = meant.time
        /\ \A s \in Stats!StatNames :
             meant'.stats[s] = IF s = stat THEN value ELSE meant.stats[s]
    BY <2>1 DEF Copies, StatsInv
  <2>5. [s \in Stats!StatNames |-> Stats!Stored(s, meant'.stats[s])] =
          [loaded.stats EXCEPT ![stat] = Stats!Stored(stat, value)]
    BY <2>4, ShownFields DEF StatsInv
  <2>6. loaded = [ stats |-> loaded.stats, achieved |-> meant.achieved, time |-> meant.time ]
    BY ShownFields DEF StatsInv
  <2>7. loaded' = [ stats |-> [loaded.stats EXCEPT ![stat] = Stats!Stored(stat, value)],
                    achieved |-> meant.achieved, time |-> meant.time ]
    BY <2>1, <2>6
  <2>8. Shown(meant') =
          [ stats |-> [s \in Stats!StatNames |-> Stats!Stored(s, meant'.stats[s])],
            achieved |-> meant'.achieved, time |-> meant'.time ]
    BY <2>3, ShownFields
  <2> QED
    BY <2>3, <2>4, <2>5, <2>7, <2>8
<1>2. CASE ~Stats!Found(Stats!UserStats)
  BY <1>2 DEF Stats!SetStat, StatsInv
<1> QED
  BY <1>1, <1>2

LEMMA ShownIsCopy ==
  ASSUME Stats!StatsAssumption, NEW intent \in Copies
  PROVE  Shown(intent) \in Copies
<1>1. ASSUME NEW s \in Stats!StatNames PROVE Stats!Stored(s, intent.stats[s]) \in Int
  <2>1. intent.stats[s] \in Int
    BY DEF Copies
  <2>2. (-StatMax - 1)..StatMax \subseteq Int
    BY DEF Stats!StatsAssumption
  <2>3. Stats!ToStatInt(intent.stats[s]) \in Int
    BY <2>1, <2>2, Int32Holds
  <2>4. Stats!ToFloat(intent.stats[s]) \in Int
    BY <2>1 DEF Stats!ToFloat
  <2> QED
    BY <2>3, <2>4 DEF Stats!Stored
<1> QED
  BY <1>1, ShownFields DEF Copies

(* Changing fields of a copy.                                              *)
LEMMA OneCopy ==
  ASSUME NEW a, NEW b, NEW c, NEW r \in [stats : {a}, achieved : {b}, time : {c}]
  PROVE  r = [stats |-> a, achieved |-> b, time |-> c]
OBVIOUS

LEMMA CopyChanged ==
  ASSUME NEW copy \in Copies, NEW x, NEW y
  PROVE  /\ [copy EXCEPT !.stats = x, !.achieved = y] =
              [ stats |-> x, achieved |-> y, time |-> copy.time ]

         /\ [copy EXCEPT !.achieved = x] =
              [ stats |-> copy.stats, achieved |-> x, time |-> copy.time ]
<1>2. [copy EXCEPT !.stats = x, !.achieved = y]
        \in [stats : {x}, achieved : {y}, time : {copy.time}]
  BY DEF Copies

<1>4. [copy EXCEPT !.achieved = x]
        \in [stats : {copy.stats}, achieved : {x}, time : {copy.time}]
  BY DEF Copies
<1>5. [copy EXCEPT !.stats = x, !.achieved = y] =
        [ stats |-> x, achieved |-> y, time |-> copy.time ]
  BY <1>2, OneCopy

<1>7. [copy EXCEPT !.achieved = x] = [ stats |-> copy.stats, achieved |-> x, time |-> copy.time ]
  BY <1>4, OneCopy
<1> QED
  BY <1>5, <1>7

(* A change of the achievements only.                                      *)
LEMMA SameStats ==
  ASSUME NEW before \in Copies, NEW after \in Copies, after.stats = before.stats
  PROVE  Shown(after) = [ stats |-> Shown(before).stats, achieved |-> after.achieved,
                          time |-> after.time ]
<1>1. Shown(after) =
        [ stats |-> [s \in Stats!StatNames |-> Stats!Stored(s, after.stats[s])],
          achieved |-> after.achieved, time |-> after.time ]
  BY ShownFields
<1>2. Shown(before) =
        [ stats |-> [s \in Stats!StatNames |-> Stats!Stored(s, before.stats[s])],
          achieved |-> before.achieved, time |-> before.time ]
  BY ShownFields
<1> QED
  BY <1>1, <1>2

LEMMA ResetShows ==
  ASSUME Stats!StatsAssumption, NEW intent \in Copies, NEW too \in BOOLEAN
  PROVE  /\ Stats!ResetCopy(intent, too) \in Copies
         /\ Stats!ResetCopy(Shown(intent), too) = Shown(Stats!ResetCopy(intent, too))
<1> DEFINE reset == Stats!ResetCopy(intent, too)
<1>1. Stats!Fresh \in Copies
  BY FreshIsShown
<1>2. reset = [ stats |-> Stats!Fresh.stats, time |-> intent.time,
                achieved |-> IF too THEN Stats!Fresh.achieved ELSE intent.achieved ]
  <2> DEFINE achieved == IF too THEN Stats!Fresh.achieved ELSE intent.achieved
  <2>1. reset = [intent EXCEPT !.stats = Stats!Fresh.stats, !.achieved = achieved]
    BY DEF Stats!ResetCopy
  <2> HIDE DEF achieved, reset
  <2>2. reset = [ stats |-> Stats!Fresh.stats, achieved |-> achieved, time |-> intent.time ]
    BY <2>1, CopyChanged
  <2> QED
    BY <2>2 DEF achieved
<1>3. reset \in Copies
  BY <1>1, <1>2 DEF Copies
<1>4. [s \in Stats!StatNames |-> Stats!Stored(s, Stats!Fresh.stats[s])] = Stats!Fresh.stats
  BY FreshIsShown, ShownFields
<1>5. Shown(reset) = reset
  <2> HIDE DEF reset
  <2>1. reset.stats = Stats!Fresh.stats
    BY <1>2
  <2>2. Shown(reset) = [ stats |-> Stats!Fresh.stats, achieved |-> reset.achieved,
                         time |-> reset.time ]
    BY <1>3, <1>4, <2>1, ShownFields
  <2> QED
    BY <1>2, <2>2
<1>6. Stats!ResetCopy(Shown(intent), too) = reset
  BY <1>2, ShownFields DEF Stats!ResetCopy
<1> QED
  BY <1>3, <1>5, <1>6

LEMMA StatsNext ==
  ASSUME Stats!StatsAssumption, StatsInv, Stats!Next
  PROVE  StatsInv'
<1> USE DEF StatsInv
<1>i. ASSUME Stats!StatsCall PROVE InterfaceStep
  BY <1>i, StatsInterfaces, NamesOfInterfaces DEF Stats!StatsCall, Stats!UserStats, InterfaceStep
<1>1. CASE \E client \in Clients : Stats!steam_init(client)
  BY <1>1, StatsUntouched, StatsInterfaces DEF InterfaceStep, Stats!steam_init
<1>2. CASE Stats!SessionEnds
  BY <1>2, StatsInterfaces, ShutdownTypes, StatsShow DEF Stats!SessionEnds
<1>3. CASE Stats!steam_stats_read
  BY <1>3, <1>i, StatsUntouched DEF Stats!steam_stats_read
<1>4. ASSUME NEW stat \in Stats!StatNames, NEW value \in Numbers,
             \/ Stats!steam_stats_set_int(stat, value)
             \/ Stats!steam_stats_set_float(stat, value)
      PROVE  StatsInv'
  <2>1. InterfaceStep /\ Stats!SetStat(stat, value) /\ UNCHANGED <<saved, now, promised>>
    BY <1>4, <1>i DEF Stats!steam_stats_set_int, Stats!steam_stats_set_float
  <2> QED
    BY <2>1, SetStatShows, InterfaceStepTypes, StatsShow
<1>5. ASSUME NEW name \in Stats!AchievementNames, Stats!steam_stats_set_achievement(name)
      PROVE  StatsInv'
  <2>1. InterfaceStep
    BY <1>5, <1>i DEF Stats!steam_stats_set_achievement
  <2>2. CASE UNCHANGED <<now, loaded, meant>>
    BY <1>5, <2>1, <2>2, InterfaceStepTypes, StatsShow DEF Stats!steam_stats_set_achievement
  <2>3. CASE /\ now < MaxUnlocks /\ now' = now + 1
             /\ loaded' = [loaded EXCEPT !.achieved[name] = TRUE, !.time[name] = now + 1]
             /\ meant' = [meant EXCEPT !.achieved[name] = TRUE, !.time[name] = now + 1]
    <3>1. now' \in 0..MaxUnlocks
      BY <2>3 DEF Stats!StatsAssumption
    <3>2. meant' = [ stats |-> meant.stats, achieved |-> [meant.achieved EXCEPT ![name] = TRUE],
                     time |-> [meant.time EXCEPT ![name] = now + 1] ]
      BY <2>3 DEF Copies
    <3>3. meant' \in Copies
      <4>1. /\ [meant.achieved EXCEPT ![name] = TRUE] \in [Stats!AchievementNames -> BOOLEAN]
            /\ [meant.time EXCEPT ![name] = now + 1] \in [Stats!AchievementNames -> 0..MaxUnlocks]
        BY <2>3, <3>1 DEF Copies
      <4> QED
        BY <3>2, <4>1 DEF Copies
    <3>a. loaded \in Copies /\ loaded.achieved = meant.achieved /\ loaded.time = meant.time
      BY ShownFields, ShownIsCopy
    <3> DEFINE achieved == [loaded.achieved EXCEPT ![name] = TRUE]
               time == [loaded.time EXCEPT ![name] = now + 1]
    <3>b. loaded' = [loaded EXCEPT !.achieved = achieved, !.time = time]
      BY <2>3
    <3>c. /\ achieved = [meant.achieved EXCEPT ![name] = TRUE]
          /\ time = [meant.time EXCEPT ![name] = now + 1]
      BY <3>a
    <3> HIDE DEF achieved, time
    <3>d. loaded' = [ stats |-> loaded.stats, achieved |-> achieved, time |-> time ]
      <4>1. loaded' \in [stats : {loaded.stats}, achieved : {achieved}, time : {time}]
        BY <3>a, <3>b DEF Copies
      <4> QED
        BY <4>1, OneCopy
    <3>4. loaded' = [ stats |-> loaded.stats,
                      achieved |-> [meant.achieved EXCEPT ![name] = TRUE],
                      time |-> [meant.time EXCEPT ![name] = now + 1] ]
      BY <3>c, <3>d
    <3>5. loaded' = Shown(meant')
      BY <3>2, <3>3, <3>4, SameStats
    <3> QED
      BY <1>5, <2>1, <3>1, <3>3, <3>5, InterfaceStepTypes, StatsShow
         DEF Stats!steam_stats_set_achievement
  <2> QED
    BY <1>5, <2>2, <2>3 DEF Stats!steam_stats_set_achievement
<1>6. ASSUME NEW name \in Stats!AchievementNames, Stats!steam_stats_clear_achievement(name)
      PROVE  StatsInv'
  <2>1. InterfaceStep
    BY <1>6, <1>i DEF Stats!steam_stats_clear_achievement
  <2>2. CASE UNCHANGED <<loaded, meant>>
    BY <1>6, <2>1, <2>2, InterfaceStepTypes, StatsShow DEF Stats!steam_stats_clear_achievement
  <2>3. CASE /\ loaded' = [loaded EXCEPT !.achieved[name] = FALSE]
             /\ meant' = [meant EXCEPT !.achieved[name] = FALSE]
    <3>1. meant' = [ stats |-> meant.stats, time |-> meant.time,
                     achieved |-> [meant.achieved EXCEPT ![name] = FALSE] ]
      BY <2>3 DEF Copies
    <3>2. meant' \in Copies
      BY <3>1 DEF Copies
    <3>a. loaded \in Copies /\ loaded.achieved = meant.achieved /\ loaded.time = meant.time
      BY ShownFields, ShownIsCopy
    <3> DEFINE achieved == [loaded.achieved EXCEPT ![name] = FALSE]
    <3>b. loaded' = [loaded EXCEPT !.achieved = achieved]
      BY <2>3
    <3>e. achieved = [meant.achieved EXCEPT ![name] = FALSE]
      BY <3>a
    <3> HIDE DEF achieved
    <3>f. loaded' = [ stats |-> loaded.stats, achieved |-> achieved, time |-> loaded.time ]
      BY <3>a, <3>b, CopyChanged
    <3>3. loaded' = [ stats |-> loaded.stats,
                      achieved |-> [meant.achieved EXCEPT ![name] = FALSE],
                      time |-> meant.time ]
      BY <3>a, <3>e, <3>f
    <3>c. meant'.stats = meant.stats
      BY <3>1
    <3>d. Shown(meant') = [ stats |-> Shown(meant).stats, achieved |-> meant'.achieved,
                            time |-> meant'.time ]
      BY <3>2, <3>c, SameStats
    <3>4. loaded' = Shown(meant')
      BY <3>1, <3>3, <3>d
    <3> QED
      BY <1>6, <2>1, <3>2, <3>4, InterfaceStepTypes, StatsShow
         DEF Stats!steam_stats_clear_achievement
  <2> QED
    BY <1>6, <2>2, <2>3 DEF Stats!steam_stats_clear_achievement
<1>7. CASE Stats!steam_stats_store
  BY <1>7, <1>i, InterfaceStepTypes, StatsShow DEF Stats!steam_stats_store
<1>8. ASSUME NEW args \in {<<>>, <<FALSE>>, <<TRUE>>}, Stats!steam_stats_reset_all_stats(args)
      PROVE  StatsInv'
  <2>1. InterfaceStep
    BY <1>8, <1>i DEF Stats!steam_stats_reset_all_stats
  <2>2. CASE UNCHANGED <<loaded, saved, meant, promised>>
    BY <1>8, <2>1, <2>2, InterfaceStepTypes, StatsShow DEF Stats!steam_stats_reset_all_stats
  <2>3. CASE ~UNCHANGED <<loaded, saved, meant, promised>>
    <3>a. /\ Stats!achievements_too(<<>>) = FALSE /\ Stats!achievements_too(<<FALSE>>) = FALSE
          /\ Stats!achievements_too(<<TRUE>>) = TRUE
          /\ <<>> # <<TRUE>> /\ <<FALSE>> # <<TRUE>>
      BY DEF Stats!achievements_too
    <3>1. PICK too \in BOOLEAN : too = Stats!achievements_too(args) /\ too = (args = <<TRUE>>)
      BY <1>8, <3>a
    <3>2. /\ loaded' = Stats!ResetCopy(loaded, too) /\ saved' = loaded'
          /\ meant' = Stats!ResetCopy(meant, too) /\ promised' = meant'
      BY <1>8, <2>3, <3>1 DEF Stats!steam_stats_reset_all_stats
    <3> QED
      BY <1>8, <2>1, <3>2, ResetShows, InterfaceStepTypes, StatsShow
         DEF Stats!steam_stats_reset_all_stats
  <2> QED
    BY <2>2, <2>3
<1> QED
  BY <1>1, <1>2, <1>3, <1>4, <1>5, <1>6, <1>7, <1>8 DEF Stats!Next

(* The list of achievements, gone through by index, has them all.          *)
LEMMA EveryAchievementListed ==
  ASSUME Stats!StatsAssumption, Stats!Found(Stats!UserStats)
  PROVE  UNION {Stats!steam_stats_get_achievement_name(i) :
                  i \in 0..(Stats!steam_stats_get_num_achievements - 1)}
           = Stats!AchievementNames
<1> DEFINE n == Len(Achievements)
<1>1. Achievements \in Seq(STRING) /\ n \in Nat /\ DOMAIN Achievements = 1..n
  BY DEF Stats!StatsAssumption
<1>2. Stats!steam_stats_get_num_achievements = n
  BY DEF Stats!steam_stats_get_num_achievements
<1>3. ASSUME NEW i \in 0..(n - 1)
      PROVE  Stats!steam_stats_get_achievement_name(i) = {Achievements[i + 1]}
  <2> DEFINE m == 2 * StatMax + 2
  <2>1. m \in Nat /\ m >= 2 /\ n <= m - 1
    BY DEF Stats!StatsAssumption
  <2>2. i \in 0..(m - 1)
    BY <1>1, <2>1
  <2>3. i % m = i
    <3> HIDE DEF m
    <3> QED
      BY <2>1, <2>2, Wraps
  <2> QED
    BY <1>1, <2>3 DEF Stats!steam_stats_get_achievement_name, Stats!ToUint
<1>4. Stats!AchievementNames = {Achievements[k] : k \in 1..n}
  BY <1>1 DEF Stats!AchievementNames, Stats!ToSet
<1> HIDE DEF n
<1>5. ASSUME NEW k \in 1..n
      PROVE  \E i \in 0..(n - 1) :
               Achievements[k] \in Stats!steam_stats_get_achievement_name(i)
  <2>1. k - 1 \in 0..(n - 1) /\ (k - 1) + 1 = k
    BY <1>1
  <2> QED
    BY <1>3, <2>1
<1>6. ASSUME NEW i \in 0..(n - 1) PROVE i + 1 \in 1..n
  BY <1>1
<1> QED
  BY <1>2, <1>3, <1>4, <1>5, <1>6

LEMMA StatsInvImplies ==
  ASSUME Stats!StatsAssumption, StatsInv
  PROVE  Stats!StatsTypeOK /\ Stats!StatsAsSet /\ Stats!StoredStatsSurvive
<1> USE DEF StatsInv
<1>1. Stats!StatsTypeOK
  <2>1. ASSUME NEW intent \in Copies
        PROVE  /\ \A s \in IntStats : Shown(intent).stats[s] \in (-StatMax - 1)..StatMax
               /\ Shown(intent).achieved \in [Stats!AchievementNames -> BOOLEAN]
               /\ Shown(intent).time \in [Stats!AchievementNames -> 0..MaxUnlocks]
    <3>1. ASSUME NEW s \in IntStats
          PROVE  Shown(intent).stats[s] \in (-StatMax - 1)..StatMax
      <4>1. s \in Stats!StatNames
        BY DEF Stats!StatNames
      <4>2. Shown(intent).stats[s] = Stats!ToStatInt(intent.stats[s])
        BY <4>1, ShownFields DEF Stats!Stored
      <4>3. intent.stats[s] \in Int
        BY <4>1 DEF Copies
      <4> QED
        BY <4>2, <4>3, Int32Holds
    <3> QED
      BY <3>1, ShownFields DEF Copies
  <2> QED
    BY <2>1, StatsInterfaces DEF Stats!StatsTypeOK
<1>2. Stats!StatsAsSet
  <2> SUFFICES ASSUME Stats!Found(Stats!UserStats)
               PROVE  /\ Stats!Overview =
                           { <<name, {meant.achieved[name]},
                               IF meant.achieved[name] THEN {meant.time[name]} ELSE {}>> :
                             name \in Stats!AchievementNames }
                      /\ \A s \in IntStats :
                           Stats!steam_stats_get_int(s) = {Stats!Stored(s, meant.stats[s])}
                      /\ \A s \in FloatStats :
                           Stats!steam_stats_get_float(s) = {Stats!ToFloat(meant.stats[s])}
    BY DEF Stats!StatsAsSet
  <2>1. ASSUME NEW name \in Stats!AchievementNames
        PROVE  /\ Stats!steam_stats_get_achievement(name) = {meant.achieved[name]}
               /\ Stats!steam_stats_get_achievement_unlock_time(name) =
                    IF meant.achieved[name] THEN {meant.time[name]} ELSE {}
    BY ShownFields DEF Stats!steam_stats_get_achievement,
                       Stats!steam_stats_get_achievement_unlock_time
  <2>2. Stats!Overview =
          { <<name, Stats!steam_stats_get_achievement(name),
              Stats!steam_stats_get_achievement_unlock_time(name)>> :
            name \in Stats!AchievementNames }
    BY EveryAchievementListed DEF Stats!Overview
  <2>3. Stats!Overview =
          { <<name, {meant.achieved[name]},
              IF meant.achieved[name] THEN {meant.time[name]} ELSE {}>> :
            name \in Stats!AchievementNames }
    BY <2>1, <2>2
  <2>4. ASSUME NEW s \in IntStats
        PROVE  Stats!steam_stats_get_int(s) = {Stats!Stored(s, meant.stats[s])}
    BY ShownFields DEF Stats!steam_stats_get_int, Stats!StatNames
  <2>5. ASSUME NEW s \in FloatStats
        PROVE  Stats!steam_stats_get_float(s) = {Stats!ToFloat(meant.stats[s])}
    <3>1. s \notin IntStats
      BY DEF Stats!StatsAssumption
    <3> QED
      BY <3>1, ShownFields DEF Stats!steam_stats_get_float, Stats!StatNames, Stats!Stored
  <2> QED
    BY <2>3, <2>4, <2>5
<1>3. Stats!StoredStatsSurvive
  <2>1. ASSUME NEW s \in IntStats, promised.stats[s] \in (-StatMax - 1)..StatMax
        PROVE  saved.stats[s] = promised.stats[s]
    <3>1. s \in Stats!StatNames
      BY DEF Stats!StatNames
    <3>2. saved.stats[s] = Stats!ToStatInt(promised.stats[s])
      BY <3>1, ShownFields DEF Stats!Stored
    <3>3. promised.stats[s] \in Int
      BY <3>1 DEF Copies
    <3> QED
      BY <2>1, <3>2, <3>3, Int32Holds
  <2> QED
    BY <2>1, ShownFields DEF Stats!StoredStatsSurvive, Stats!Represents
<1> QED
  BY <1>1, <1>2, <1>3

(* Statistics and achievements read as they were last set, and what was    *)
(* stored, and nothing else, survives session and process, for every set   *)
(* of statistics and every list of achievements.                           *)
THEOREM StatsAreAsMeant == Spec => []StatsAsMeant
<1> DEFINE Inv == scene = "stats" => StatsInv
<1> USE ServicesAssumption DEF ServicesAssumption
<1>1. Init => Inv
  <2> SUFFICES ASSUME IfaceInit, Stats!StatsInit PROVE StatsInv
    BY DEF Init, MockScenes
  <2>1. 0 \in 0..MaxUnlocks
    BY DEF Stats!StatsAssumption
  <2> QED
    BY <2>1, IfaceInitTypes, FreshIsShown DEF StatsInv, Stats!StatsInit
<1>2. Inv /\ [Next]_vars => Inv'
  <2> SUFFICES ASSUME scene' = "stats", Inv, [Next]_vars PROVE StatsInv'
    OBVIOUS
  <2>1. CASE StatsStep
    BY <2>1, StatsNext DEF StatsStep
  <2>2. CASE UNCHANGED vars
    <3>1. InterfaceStep /\ UNCHANGED Stats!statsVars
      BY <2>2 DEF vars, statsVars, Stats!statsVars, InterfaceStep
    <3> QED
      BY <2>2, <3>1, StatsUntouched DEF vars
  <2> QED
    BY <2>1, <2>2 DEF Next, LobbyStep, TimelineStep, BoardStep, SocialStep, AuthStep, MockStep,
                      SocialScenes
<1>3. Inv => StatsAsMeant
  BY StatsInvImplies DEF StatsAsMeant
<1> QED
  BY <1>1, <1>2, <1>3, PTL DEF Spec

-----------------------------------------------------------------------------
(* Leaderboards: what is uploaded, ranked, downloaded and read.            *)

BoardsInt32 == Boards!Int32
Asked == [score : Int, details : Seq(Int)]

(* An entry, or a request for one, holds what its script asked for.        *)
AsAsked(r) ==
  /\ r.score = Boards!ToScore(r.asked.score)
  /\ r.details = Boards!details(r.asked.details)

BoardEntries ==
  {e \in [player : Boards!Players, score : BoardsInt32, m_cDetails : Nat,
          details : Seq(BoardsInt32), asked : Asked, ugc : BOOLEAN] :
     AsAsked(e) /\ e.m_cDetails = Len(e.details)}

Uploads ==
  {r \in [fn : {"upload"}, method : {"KEEP_BEST", "FORCE_UPDATE"}, score : BoardsInt32,
          details : Seq(BoardsInt32), asked : Asked, forced : BOOLEAN] :
     AsAsked(r) /\ (r.method = "FORCE_UPDATE" => r.forced)}

BoardRequests ==
  Uploads \cup [fn : {"attach"}]
          \cup [fn : {"download"}, first : BoardsInt32, last : BoardsInt32]

BoardInv ==
  /\ board \in [Boards!Players -> BoardEntries \cup {Boards!NoEntry}]
  /\ requests \in Seq(BoardRequests) /\ Len(requests) <= MaxRequests
  /\ downloads \in [Downloads -> Seq(BoardEntries) \cup {Boards!NoEntries}]

LEMMA ScoresFit ==
  ASSUME Boards!LeaderboardsAssumption
  PROVE  /\ \A n \in Int : Boards!ToScore(n) \in BoardsInt32
         /\ \A n \in BoardsInt32 : Boards!ToScore(n) = n
         /\ 0 \in BoardsInt32 /\ BoardsInt32 \subseteq Int
<1> DEFINE m == 2 * ScoreMax + 2
<1>1. m \in Nat /\ m >= 2 /\ ScoreMax \in Nat
  BY DEF Boards!LeaderboardsAssumption
<1>2. ASSUME NEW n \in Int PROVE Boards!ToScore(n) \in BoardsInt32
  <2>1. n % m \in 0..(m - 1)
    BY <1>1
  <2> QED
    BY <1>1, <2>1 DEF Boards!ToScore, BoardsInt32, Boards!Int32
<1>3. ASSUME NEW n \in BoardsInt32 PROVE Boards!ToScore(n) = n
  <2>1. CASE n >= 0
    <3>1. n \in 0..(m - 1)
      BY <1>1, <2>1 DEF BoardsInt32, Boards!Int32
    <3>2. n % m = n
      BY <1>1, <3>1, Wraps
    <3> QED
      BY <1>1, <3>2 DEF Boards!ToScore, BoardsInt32, Boards!Int32
  <2>2. CASE n < 0
    <3>1. n + m \in 0..(m - 1) /\ (n + m) - m = n
      BY <1>1, <2>2 DEF BoardsInt32, Boards!Int32
    <3>2. n % m = n + m
      <4> DEFINE k == n + m
      <4>1. k \in 0..(m - 1) /\ k - m = n
        BY <3>1
      <4> HIDE DEF k, m
      <4>2. (k - m) % m = k
        BY <1>1, <4>1, Wraps
      <4> QED
        BY <4>1, <4>2 DEF k
    <3> QED
      BY <1>1, <2>2, <3>2 DEF Boards!ToScore, BoardsInt32, Boards!Int32
  <2> QED
    BY <2>1, <2>2 DEF BoardsInt32, Boards!Int32
<1> QED
  BY <1>1, <1>2, <1>3 DEF BoardsInt32, Boards!Int32

(* The array of details is a cut of what was passed.                       *)
LEMMA DetailsFit ==
  ASSUME Boards!LeaderboardsAssumption, NEW list \in Seq(Int)
  PROVE  LET d == Boards!details(list)
             n == IF Len(list) <= DetailsMax THEN Len(list) ELSE DetailsMax
         IN /\ d \in Seq(BoardsInt32) /\ Len(d) = n /\ n \in 0..DetailsMax
            /\ DOMAIN d = 1..n /\ 1..n \subseteq DOMAIN list
            /\ \A i \in 1..n : d[i] = Boards!ToScore(list[i])
<1> DEFINE n == IF Len(list) <= DetailsMax THEN Len(list) ELSE DetailsMax
           d == Boards!details(list)
<1>1. n \in 0..DetailsMax /\ n \in Nat /\ 1..n \subseteq DOMAIN list
  BY DEF Boards!LeaderboardsAssumption
<1>2. d = [i \in 1..n |-> Boards!ToScore(list[i])]
  BY DEF Boards!details
<1>3. \A i \in 1..n : Boards!ToScore(list[i]) \in BoardsInt32
  BY <1>1, ScoresFit
<1> HIDE DEF n, d
<1>4. d \in [1..n -> BoardsInt32]
  BY <1>2, <1>3
<1>5. d \in Seq(BoardsInt32) /\ Len(d) = n
  BY <1>1, <1>4
<1> QED
  BY <1>1, <1>2, <1>5 DEF n, d

LEMMA BoardUntouched ==
  ASSUME BoardInv, UNCHANGED boardVars
  PROVE  BoardInv'
BY DEF BoardInv, boardVars

(* An accepted call.                                                       *)
LEMMA RequestKeeps ==
  ASSUME Boards!LeaderboardsAssumption, BoardInv, NEW r \in BoardRequests, Boards!Request(r)
  PROVE  BoardInv' /\ InterfaceStep /\ UNCHANGED board
<1>1. InterfaceStep
  BY BoardsInterfaces, NamesOfInterfaces
     DEF Boards!Request, Boards!BoardCall, Boards!Board, InterfaceStep
<1>2. requests' = requests \/ (Len(requests) < MaxRequests /\ requests' = Append(requests, r))
  BY DEF Boards!Request
<1>3. UNCHANGED <<board, downloads>>
  BY DEF Boards!Request
<1>4. requests' \in Seq(BoardRequests) /\ Len(requests') <= MaxRequests
  BY <1>2 DEF BoardInv, Boards!LeaderboardsAssumption
<1> QED
  BY <1>1, <1>3, <1>4 DEF BoardInv

LEMMA UploadRequested ==
  ASSUME Boards!LeaderboardsAssumption, NEW score \in Scores, NEW list \in DetailLists,
         NEW args \in {<<>>, <<"KEEP_BEST">>, <<"FORCE_UPDATE">>}
  PROVE  [fn |-> "upload", method |-> Boards!method(args), score |-> Boards!ToScore(score),
          details |-> Boards!details(list), asked |-> [score |-> score, details |-> list],
          forced |-> args = <<"FORCE_UPDATE">>] \in Uploads
<1> DEFINE m == Boards!method(args)
           s == Boards!ToScore(score)
           d == Boards!details(list)
           forced == args = <<"FORCE_UPDATE">>
<1>1. score \in Int /\ list \in Seq(Int)
  BY DEF Boards!LeaderboardsAssumption
<1>2. s \in BoardsInt32 /\ d \in Seq(BoardsInt32)
  BY <1>1, ScoresFit, DetailsFit
<1>3. m \in {"KEEP_BEST", "FORCE_UPDATE"}
  BY DEF Boards!method
<1>4. m = "FORCE_UPDATE" => forced = TRUE
  BY DEF Boards!method
<1>5. forced \in BOOLEAN
  OBVIOUS
<1>6. [score |-> score, details |-> list] \in Asked
  BY <1>1 DEF Asked
<1>7. AsAsked([fn |-> "upload", method |-> m, score |-> s, details |-> d,
               asked |-> [score |-> score, details |-> list], forced |-> forced])
  BY DEF AsAsked
<1> HIDE DEF m, s, d, forced
<1>8. [fn |-> "upload", method |-> m, score |-> s, details |-> d,
       asked |-> [score |-> score, details |-> list], forced |-> forced] \in Uploads
  BY <1>2, <1>3, <1>4, <1>5, <1>6, <1>7 DEF Uploads
<1> QED
  BY <1>8 DEF m, s, d, forced

LEMMA EntryOfUpload ==
  ASSUME Boards!LeaderboardsAssumption, NEW p \in Boards!Players,
         NEW r, r.score \in BoardsInt32, r.details \in Seq(BoardsInt32), r.asked \in Asked,
         AsAsked(r)
  PROVE  /\ Boards!Entry(p, r) \in BoardEntries
         /\ Boards!Entry(p, r).score = r.score
<1> DEFINE e == Boards!Entry(p, r)
<1>1. e = [player |-> p, score |-> r.score, m_cDetails |-> Len(r.details),
           details |-> r.details, asked |-> r.asked, ugc |-> FALSE]
  BY DEF Boards!Entry
<1>2. Len(r.details) \in Nat
  OBVIOUS
<1> HIDE DEF e
<1>3. /\ e.score = r.score /\ e.details = r.details /\ e.asked = r.asked
      /\ e.m_cDetails = Len(e.details)
  BY <1>1
<1>4. AsAsked(e)
  BY <1>3 DEF AsAsked
<1>5. e \in [player : Boards!Players, score : BoardsInt32, m_cDetails : Nat,
             details : Seq(BoardsInt32), asked : Asked, ugc : BOOLEAN]
  BY <1>1, <1>2
<1> QED
  BY <1>3, <1>4, <1>5 DEF BoardEntries, e

(* A ranking names players that have an entry.                             *)
LEMMA RankingNamesPlayers ==
  ASSUME Boards!LeaderboardsAssumption, NEW ranking \in Boards!Rankings
  PROVE  \E n \in Nat : /\ DOMAIN ranking = 1..n /\ Len(ranking) = n
                        /\ \A i \in 1..n : /\ ranking[i] \in Boards!Players
                                           /\ board[ranking[i]] # Boards!NoEntry
<1> DEFINE S == {p \in Boards!Players : board[p] # Boards!NoEntry}
<1>1. IsFiniteSet(Boards!Players)
  <2>1. IsFiniteSet(Rivals)
    BY DEF Boards!LeaderboardsAssumption, Boards!IsFiniteSet, IsFiniteSet
  <2> QED
    BY <2>1, FS_AddElement DEF Boards!Players
<1>2. Cardinality(S) \in Nat
  BY <1>1, FS_Subset, FS_CardinalityType
<1>3. ranking \in [1..Cardinality(S) -> S]
  BY DEF Boards!Rankings, Boards!SetToSeqs, Boards!Cardinality, Cardinality
<1> DEFINE n == Cardinality(S)
<1>4. n \in Nat /\ DOMAIN ranking = 1..n /\ Len(ranking) = n
  <2> HIDE DEF S
  <2> QED
    BY <1>2, <1>3
<1>5. \A i \in 1..n : /\ ranking[i] \in Boards!Players
                      /\ board[ranking[i]] # Boards!NoEntry
  BY <1>3
<1> HIDE DEF n
<1> QED
  BY <1>4, <1>5

(* Steam works off a request.                                              *)
LEMMA UploadKeeps ==
  ASSUME Boards!LeaderboardsAssumption, BoardInv, NEW r \in BoardRequests,
         Boards!SteamUploads(r)
  PROVE  /\ board' \in [Boards!Players -> BoardEntries \cup {Boards!NoEntry}]
         /\ board[Boards!Me] # Boards!NoEntry /\ board'[Boards!Me].score < board[Boards!Me].score
              => r.forced
<1> DEFINE me == Boards!Me
<1>1. r \in Uploads
  BY DEF Boards!SteamUploads, BoardRequests
<1>2. /\ Boards!Entry(me, r) \in BoardEntries
      /\ Boards!Entry(me, r).score = r.score
  <2>1. me \in Boards!Players
    BY DEF Boards!Players
  <2> QED
    BY <1>1, <2>1, EntryOfUpload DEF Uploads
<1>3. board \in [Boards!Players -> BoardEntries \cup {Boards!NoEntry}] /\ me \in Boards!Players
  BY DEF BoardInv, Boards!Players
<1>4. \/ board' = board
      \/ /\ board' = [board EXCEPT ![me] = Boards!Entry(me, r)]
         /\ board[me] = Boards!NoEntry \/ r.method = "FORCE_UPDATE" \/ r.score > board[me].score
  BY DEF Boards!SteamUploads
<1>5. board[me] # Boards!NoEntry => board[me].score \in Int /\ r.score \in Int
  BY <1>1, <1>3, ScoresFit DEF BoardEntries, Uploads
<1>6. r.method = "FORCE_UPDATE" => r.forced
  BY <1>1 DEF Uploads
<1> HIDE DEF me
<1>7. CASE board' = board
  <2>1. board[me] # Boards!NoEntry => ~(board'[me].score < board[me].score)
    BY <1>5, <1>7
  <2> QED
    BY <1>3, <1>7, <2>1 DEF me
<1>8. CASE /\ board' = [board EXCEPT ![me] = Boards!Entry(me, r)]
           /\ board[me] = Boards!NoEntry \/ r.method = "FORCE_UPDATE"
                \/ r.score > board[me].score
  <2>1. board'[me] = Boards!Entry(me, r)
        /\ board' \in [Boards!Players -> BoardEntries \cup {Boards!NoEntry}]
    BY <1>2, <1>3, <1>8
  <2>2. board'[me].score = r.score
    BY <1>2, <2>1
  <2>3. board[me] # Boards!NoEntry /\ board'[me].score < board[me].score => r.forced
    BY <1>5, <1>6, <1>8, <2>2
  <2> QED
    BY <2>1, <2>3 DEF me
<1> QED
  BY <1>4, <1>7, <1>8

LEMMA AttachKeeps ==
  ASSUME Boards!LeaderboardsAssumption, BoardInv, NEW r, Boards!SteamAttaches(r)
  PROVE  /\ board' \in [Boards!Players -> BoardEntries \cup {Boards!NoEntry}]
         /\ board[Boards!Me] # Boards!NoEntry =>
              ~(board'[Boards!Me].score < board[Boards!Me].score)
<1> DEFINE me == Boards!Me
           e == board[me]
<1>1. board \in [Boards!Players -> BoardEntries \cup {Boards!NoEntry}] /\ me \in Boards!Players
  BY DEF BoardInv, Boards!Players
<1>2. e # Boards!NoEntry => e \in BoardEntries /\ e.score \in Int
  BY <1>1, ScoresFit DEF BoardEntries
<1>3. CASE e = Boards!NoEntry
  BY <1>1, <1>3 DEF Boards!SteamAttaches
<1>4. CASE e # Boards!NoEntry
  <2> DEFINE new == [e EXCEPT !.ugc = TRUE]
  <2>1. new \in BoardEntries /\ new.score = e.score
    <3> HIDE DEF e
    <3>1. e \in [player : Boards!Players, score : BoardsInt32, m_cDetails : Nat,
                 details : Seq(BoardsInt32), asked : Asked, ugc : BOOLEAN]
      BY <1>2, <1>4 DEF BoardEntries
    <3>2. new \in [player : Boards!Players, score : BoardsInt32, m_cDetails : Nat,
                   details : Seq(BoardsInt32), asked : Asked, ugc : BOOLEAN]
          /\ new.score = e.score /\ new.m_cDetails = e.m_cDetails /\ new.details = e.details
          /\ new.asked = e.asked
      BY <3>1
    <3> QED
      BY <1>2, <1>4, <3>2 DEF BoardEntries, AsAsked
  <2>2. board' = [board EXCEPT ![me] = new]
    BY <1>4 DEF Boards!SteamAttaches
  <2> HIDE DEF new, me
  <2>3. board'[me] = new /\ board' \in [Boards!Players -> BoardEntries \cup {Boards!NoEntry}]
    BY <1>1, <2>1, <2>2
  <2>4. ~(board'[me].score < e.score)
    BY <1>2, <1>4, <2>1, <2>3
  <2> QED
    BY <2>3, <2>4 DEF me
<1> QED
  BY <1>3, <1>4

LEMMA DownloadKeeps ==
  ASSUME Boards!LeaderboardsAssumption, BoardInv, NEW r \in BoardRequests,
         Boards!SteamDownloads(r)
  PROVE  downloads' \in [Downloads -> Seq(BoardEntries) \cup {Boards!NoEntries}]
<1>1. downloads \in [Downloads -> Seq(BoardEntries) \cup {Boards!NoEntries}]
  BY DEF BoardInv
<1>2. r.first \in Int /\ r.last \in Int
  BY ScoresFit DEF Boards!SteamDownloads, BoardRequests, Uploads
<1>3. ASSUME NEW h \in Downloads, NEW ranking \in Boards!Rankings,
             downloads' = [downloads EXCEPT ![h] =
               SubSeq([i \in DOMAIN ranking |-> board[ranking[i]]],
                      IF r.first < 1 THEN 1 ELSE r.first,
                      IF r.last > Len(ranking) THEN Len(ranking) ELSE r.last)]
      PROVE  downloads' \in [Downloads -> Seq(BoardEntries) \cup {Boards!NoEntries}]
  <2>1. PICK n \in Nat : /\ DOMAIN ranking = 1..n /\ Len(ranking) = n
                         /\ \A i \in 1..n : /\ ranking[i] \in Boards!Players
                                            /\ board[ranking[i]] # Boards!NoEntry
    BY RankingNamesPlayers
  <2> DEFINE s == [i \in DOMAIN ranking |-> board[ranking[i]]]
             a == IF r.first < 1 THEN 1 ELSE r.first
             b == IF r.last > Len(ranking) THEN Len(ranking) ELSE r.last
  <2>2. a \in Int /\ b \in Int /\ a..b \subseteq 1..n
    BY <1>2, <2>1
  <2>3. \A i \in 1..n : s[i] \in BoardEntries
    BY <2>1 DEF BoardInv
  <2>4. downloads' = [downloads EXCEPT ![h] = SubSeq(s, a, b)]
    BY <1>3
  <2> HIDE DEF s, a, b
  <2>5. SubSeq(s, a, b) \in Seq(BoardEntries)
    BY <2>2, <2>3, SubSeqProperties
  <2> QED
    BY <1>1, <2>4, <2>5
<1> QED
  BY <1>1, <1>3 DEF Boards!SteamDownloads

LEMMA WorksKeeps ==
  ASSUME Boards!LeaderboardsAssumption, BoardInv, Boards!SteamWorks
  PROVE  /\ BoardInv'
         /\ board[Boards!Me] # Boards!NoEntry /\ board'[Boards!Me].score < board[Boards!Me].score
              => Head(requests).forced
<1> DEFINE r == Head(requests)
<1>1. /\ requests \in Seq(BoardRequests) /\ requests # <<>> /\ requests' = Tail(requests)
      /\ Len(requests) <= MaxRequests /\ MaxRequests \in Nat
  BY DEF Boards!SteamWorks, BoardInv, Boards!LeaderboardsAssumption
<1>2. r \in BoardRequests /\ requests' \in Seq(BoardRequests) /\ Len(requests') <= MaxRequests
  BY <1>1, HeadTailProperties
<1>3. /\ board \in [Boards!Players -> BoardEntries \cup {Boards!NoEntry}]
      /\ downloads \in [Downloads -> Seq(BoardEntries) \cup {Boards!NoEntries}]
  BY DEF BoardInv
<1>4. Boards!SteamUploads(r) \/ Boards!SteamAttaches(r) \/ Boards!SteamDownloads(r)
  BY DEF Boards!SteamWorks
<1> HIDE DEF r
<1>5. CASE Boards!SteamUploads(r)
  <2>1. UNCHANGED downloads
    BY <1>5 DEF Boards!SteamUploads
  <2> QED
    BY <1>2, <1>3, <1>5, <2>1, UploadKeeps DEF BoardInv, r
<1>6. CASE Boards!SteamAttaches(r)
  <2>1. UNCHANGED downloads
    BY <1>6 DEF Boards!SteamAttaches
  <2> QED
    BY <1>2, <1>3, <1>6, <2>1, AttachKeeps DEF BoardInv
<1>7. CASE Boards!SteamDownloads(r)
  <2>1. UNCHANGED board
    BY <1>7 DEF Boards!SteamDownloads
  <2>2. BoardInv'
    BY <1>2, <1>3, <1>7, <2>1, DownloadKeeps DEF BoardInv
  <2>3. board[Boards!Me] # Boards!NoEntry => board[Boards!Me].score \in Int
    BY <1>3, ScoresFit DEF BoardEntries, Boards!Players
  <2> QED
    BY <2>1, <2>2, <2>3
<1> QED
  BY <1>4, <1>5, <1>6, <1>7

LEMMA RivalKeeps ==
  ASSUME Boards!LeaderboardsAssumption, BoardInv, NEW rival \in Rivals, NEW score \in Scores,
         Boards!RivalUploads(rival, score)
  PROVE  /\ BoardInv' /\ InterfaceStep
         /\ board'[Boards!Me] = board[Boards!Me]
<1> DEFINE r == [score |-> Boards!ToScore(score), details |-> <<>>,
                 asked |-> [score |-> score, details |-> <<>>]]
<1>1. /\ r.score \in BoardsInt32 /\ r.details \in Seq(BoardsInt32) /\ r.asked \in Asked
  BY ScoresFit DEF Boards!LeaderboardsAssumption, Asked
<1>2. AsAsked(r)
  <2>1. Boards!details(<<>>) = <<>>
    <3>1. Boards!details(<<>>) \in Seq(BoardsInt32) /\ Len(Boards!details(<<>>)) = 0
      <4>1. <<>> \in Seq(Int) /\ Len(<<>>) = 0 /\ 0 <= DetailsMax
        BY EmptySeq DEF Boards!LeaderboardsAssumption
      <4> QED
        BY <4>1, DetailsFit
    <3> QED
      BY <3>1, EmptySeq
  <2> QED
    BY <2>1 DEF AsAsked
<1>3. board' = [board EXCEPT ![rival] = Boards!Entry(rival, r)]
  BY DEF Boards!RivalUploads
<1>4. UNCHANGED <<requests, downloads>> /\ InterfaceStep
  BY BoardsInterfaces DEF Boards!RivalUploads, InterfaceStep
<1> HIDE DEF r
<1>5. Boards!Entry(rival, r) \in BoardEntries
  BY <1>1, <1>2, EntryOfUpload DEF Boards!Players
<1>6. rival # Boards!Me /\ board \in [Boards!Players -> BoardEntries \cup {Boards!NoEntry}]
     /\ rival \in Boards!Players /\ Boards!Me \in Boards!Players
  BY DEF BoardInv, Boards!LeaderboardsAssumption, Boards!Me, Boards!Players
<1>7. /\ board' \in [Boards!Players -> BoardEntries \cup {Boards!NoEntry}]
      /\ board'[Boards!Me] = board[Boards!Me]
  BY <1>3, <1>5, <1>6
<1> QED
  BY <1>4, <1>7 DEF BoardInv

(* What one step of the service does: it keeps the invariant, and only     *)
(* Steam at work on a forced upload lowers the script's score.             *)
LEMMA BoardsNext ==
  ASSUME Boards!LeaderboardsAssumption, BoardInv, Boards!Next
  PROVE  /\ BoardInv' /\ InterfaceStep
         /\ board[Boards!Me] # Boards!NoEntry /\ board'[Boards!Me].score < board[Boards!Me].score
              => Head(requests).forced
<1> DEFINE Kept == board[Boards!Me] # Boards!NoEntry
                     /\ board'[Boards!Me].score < board[Boards!Me].score
                   => Head(requests).forced
<1>1. board[Boards!Me] # Boards!NoEntry => board[Boards!Me].score \in Int
  BY ScoresFit DEF BoardInv, BoardEntries, Boards!Players
<1>2. board'[Boards!Me] = board[Boards!Me] => Kept
  BY <1>1
<1>3. ASSUME UNCHANGED Boards!boardVars, InterfaceStep
      PROVE  BoardInv' /\ InterfaceStep /\ Kept
  BY <1>2, <1>3, BoardUntouched DEF Boards!boardVars, boardVars
<1> HIDE DEF Kept
<1>4. ASSUME NEW client \in Clients, Boards!steam_init(client)
      PROVE  BoardInv' /\ InterfaceStep /\ Kept
  BY <1>3, <1>4, BoardsInterfaces DEF Boards!steam_init, InterfaceStep
<1>5. CASE Boards!steam_shutdown
  <2>1. InterfaceStep /\ UNCHANGED board
    BY <1>5, BoardsInterfaces DEF Boards!steam_shutdown, InterfaceStep
  <2>2. requests' \in Seq(BoardRequests) /\ Len(requests') <= MaxRequests
    BY <1>5 DEF Boards!steam_shutdown, Boards!LeaderboardsAssumption
  <2>3. downloads' \in [Downloads -> Seq(BoardEntries) \cup {Boards!NoEntries}]
    BY <1>5 DEF Boards!steam_shutdown
  <2> QED
    BY <1>2, <2>1, <2>2, <2>3 DEF BoardInv, Kept
<1>6. CASE Boards!SteamWorks
  <2>1. InterfaceStep
    BY <1>6, BoardsInterfaces DEF Boards!SteamWorks, InterfaceStep
  <2> QED
    BY <1>6, <2>1, WorksKeeps DEF Kept
<1>7. ASSUME NEW rival \in Rivals, NEW score \in Scores, Boards!RivalUploads(rival, score)
      PROVE  BoardInv' /\ InterfaceStep /\ Kept
  BY <1>2, <1>7, RivalKeeps
<1>8. ASSUME NEW r \in BoardRequests, Boards!Request(r)
      PROVE  BoardInv' /\ InterfaceStep /\ Kept
  BY <1>2, <1>8, RequestKeeps
<1>9. ASSUME NEW score \in Scores, NEW list \in DetailLists,
             NEW args \in {<<>>, <<"KEEP_BEST">>, <<"FORCE_UPDATE">>},
             Boards!steam_stats_upload_score(score, args, list)
      PROVE  BoardInv' /\ InterfaceStep /\ Kept
  BY <1>8, <1>9, UploadRequested DEF Boards!steam_stats_upload_score, BoardRequests
<1>10. CASE Boards!steam_stats_attach_leaderboard_ugc
  <2>1. [fn |-> "attach"] \in BoardRequests
    BY DEF BoardRequests
  <2> QED
    BY <1>8, <1>10, <2>1 DEF Boards!steam_stats_attach_leaderboard_ugc, Kept
<1>11. ASSUME NEW first \in Ranks, NEW last \in Ranks,
              Boards!steam_stats_download_leaderboard_entries(first, last)
       PROVE  BoardInv' /\ InterfaceStep /\ Kept
  <2>1. Boards!ToScore(first) \in BoardsInt32 /\ Boards!ToScore(last) \in BoardsInt32
    BY ScoresFit DEF Boards!LeaderboardsAssumption
  <2>2. [fn |-> "download", first |-> Boards!ToScore(first), last |-> Boards!ToScore(last)]
          \in BoardRequests
    BY <2>1 DEF BoardRequests
  <2> QED
    BY <1>8, <1>11, <2>2 DEF Boards!steam_stats_download_leaderboard_entries
<1>12. CASE Boards!steam_stats_board_read
  <2>1. InterfaceStep
    BY <1>12, BoardsInterfaces, NamesOfInterfaces
       DEF Boards!steam_stats_board_read, Boards!BoardCall, Boards!Board, InterfaceStep
  <2> QED
    BY <1>3, <1>12, <2>1 DEF Boards!steam_stats_board_read, Kept
<1> QED
  BY <1>4, <1>5, <1>6, <1>7, <1>9, <1>10, <1>11, <1>12 DEF Boards!Next, Kept

LEMMA BoardsInitially ==
  ASSUME Boards!LeaderboardsAssumption, Boards!LeaderboardsInit
  PROVE  BoardInv
BY DEF Boards!LeaderboardsInit, BoardInv, Boards!LeaderboardsAssumption

LEMMA BoardTypesAre ==
  ASSUME Boards!LeaderboardsAssumption, BoardInv, IfaceTypeOK
  PROVE  Boards!BoardTypeOK
<1>1. \A p \in Boards!Players : board[p].score \in Boards!Int32
  BY ScoresFit DEF BoardInv, BoardEntries, BoardsInt32, Boards!NoEntry
<1>2. ASSUME NEW i \in DOMAIN requests, requests[i].fn = "upload"
      PROVE  /\ requests[i].score \in Boards!Int32
             /\ requests[i].details \in Seq(Boards!Int32)
             /\ Len(requests[i].details) <= DetailsMax
  <2> DEFINE r == requests[i]
  <2>1. r \in BoardRequests
    BY DEF BoardInv
  <2>2. r \in Uploads
    BY <1>2, <2>1 DEF BoardRequests
  <2>3. r.details = Boards!details(r.asked.details) /\ r.asked.details \in Seq(Int)
    BY <2>2 DEF Uploads, AsAsked, Asked
  <2>4. Len(r.details) <= DetailsMax
    BY <2>3, DetailsFit DEF Boards!LeaderboardsAssumption
  <2> QED
    BY <2>2, <2>4 DEF Uploads, BoardsInt32
<1> QED
  BY <1>1, <1>2, BoardsInterfaces DEF Boards!BoardTypeOK, BoardInv

(* What is read of an entry is what Steam has of it.                       *)
LEMMA DetailsRead ==
  ASSUME Boards!LeaderboardsAssumption, NEW e \in BoardEntries
  PROVE  Boards!ReadDetails(e) = e.details
<1> DEFINE n == e.m_cDetails
<1>1. /\ e.details = Boards!details(e.asked.details) /\ e.asked.details \in Seq(Int)
      /\ n = Len(e.details) /\ e.details \in Seq(BoardsInt32)
  BY DEF BoardEntries, AsAsked, Asked
<1>2. n \in 0..DetailsMax /\ DOMAIN e.details = 1..n /\ DetailsMax \in Nat
  BY <1>1, DetailsFit DEF Boards!LeaderboardsAssumption
<1>3. Boards!ReadDetails(e) = SubSeq(Boards!Buffer(e), 1, n)
  BY <1>2 DEF Boards!ReadDetails
<1>4. \A i \in 1..n : Boards!Buffer(e)[i] = e.details[i]
  BY <1>2 DEF Boards!Buffer
<1> HIDE DEF n
<1>5. \A i \in 1..n : Boards!Buffer(e)[i] \in BoardsInt32
  BY <1>1, <1>2, <1>4
<1>6. /\ SubSeq(Boards!Buffer(e), 1, n) \in Seq(BoardsInt32)
      /\ Len(SubSeq(Boards!Buffer(e), 1, n)) = n
      /\ \A i \in 1..n : SubSeq(Boards!Buffer(e), 1, n)[i] = e.details[i]
  BY <1>2, <1>4, <1>5, SubSeqProperties
<1> QED
  BY <1>1, <1>3, <1>6, SeqEqual DEF n

LEMMA ReadAsUploaded ==
  ASSUME Boards!LeaderboardsAssumption, BoardInv
  PROVE  Boards!EntryAsUploaded
<1> SUFFICES ASSUME Boards!Found(Boards!Board), NEW h \in Downloads,
                    NEW index \in Indices \cap Boards!Int32
             PROVE  LET read == Boards!steam_stats_get_downloaded_entry(h, index) IN
                    IF downloads[h] # Boards!NoEntries /\ index + 1 \in DOMAIN downloads[h]
                      THEN LET asked == downloads[h][index + 1].asked IN
                           \E e \in read :
                             /\ e.score = Boards!ToScore(asked.score)
                             /\ Boards!IsPrefix(e.details,
                                  [i \in DOMAIN asked.details |->
                                     Boards!ToScore(asked.details[i])])
                             /\ Len(e.details) < Len(asked.details) =>
                                  Len(e.details) = DetailsMax
                      ELSE read = {}
  BY DEF Boards!EntryAsUploaded
<1>1. Boards!ToScore(index) = index
  BY ScoresFit DEF BoardsInt32
<1>2. CASE ~(downloads[h] # Boards!NoEntries /\ index + 1 \in DOMAIN downloads[h])
  BY <1>1, <1>2 DEF Boards!steam_stats_get_downloaded_entry
<1>3. CASE downloads[h] # Boards!NoEntries /\ index + 1 \in DOMAIN downloads[h]
  <2> DEFINE entry == downloads[h][index + 1]
             list == entry.asked.details
             told == [i \in DOMAIN list |-> Boards!ToScore(list[i])]
             e == [player |-> entry.player, score |-> entry.score,
                   details |-> Boards!ReadDetails(entry)]
  <2>1. Boards!steam_stats_get_downloaded_entry(h, index) = {e}
    BY <1>1, <1>3 DEF Boards!steam_stats_get_downloaded_entry
  <2>2. entry \in BoardEntries
    BY <1>3 DEF BoardInv
  <2>3. /\ entry.score = Boards!ToScore(entry.asked.score)
        /\ entry.details = Boards!details(list) /\ list \in Seq(Int)
    BY <2>2 DEF BoardEntries, AsAsked, Asked
  <2>4. e.score = entry.score /\ e.details = entry.details
    BY <2>2, DetailsRead
  <2> HIDE DEF e, entry
  <2> DEFINE n == Len(e.details)
  <2>5. /\ e.details \in Seq(BoardsInt32) /\ n \in Nat
        /\ n = IF Len(list) <= DetailsMax THEN Len(list) ELSE DetailsMax
        /\ DOMAIN e.details = 1..n /\ 1..n \subseteq DOMAIN list
        /\ \A i \in 1..n : e.details[i] = Boards!ToScore(list[i])
    BY <2>3, <2>4, DetailsFit
  <2>6. Len(list) \in Nat /\ DOMAIN list = 1..Len(list) /\ DetailsMax \in Nat
    BY <2>3 DEF Boards!LeaderboardsAssumption
  <2>7. n <= Len(list) /\ (n < Len(list) => n = DetailsMax)
    BY <2>5, <2>6
  <2>8. told \in Seq(BoardsInt32) /\ Len(told) = Len(list)
    <3>1. \A i \in 1..Len(list) : Boards!ToScore(list[i]) \in BoardsInt32
      BY <2>3, ScoresFit
    <3>2. told \in [1..Len(list) -> BoardsInt32]
      BY <2>6, <3>1
    <3> HIDE DEF told
    <3> QED
      BY <2>6, <3>2
  <2>9. \A i \in 1..n : told[i] = e.details[i]
    BY <2>5
  <2> HIDE DEF told, n, list
  <2>10. SubSeq(e.details, 1, n) = SubSeq(told, 1, n)
    <3>1. \A i \in 1..n : e.details[i] \in BoardsInt32 /\ told[i] \in BoardsInt32
      BY <2>5, <2>9
    <3>2. /\ SubSeq(e.details, 1, n) \in Seq(BoardsInt32)
          /\ SubSeq(told, 1, n) \in Seq(BoardsInt32)
          /\ Len(SubSeq(e.details, 1, n)) = n /\ Len(SubSeq(told, 1, n)) = n
          /\ \A i \in 1..n : /\ SubSeq(e.details, 1, n)[i] = e.details[i]
                             /\ SubSeq(told, 1, n)[i] = told[i]
      BY <2>5, <3>1, SubSeqProperties
    <3> QED
      BY <2>9, <3>2, SeqEqual
  <2>11. Boards!IsPrefix(e.details, told)
    BY <2>7, <2>8, <2>10 DEF Boards!IsPrefix, n
  <2> QED
    BY <1>3, <2>1, <2>3, <2>4, <2>7, <2>11 DEF entry, list, told, n
<1> QED
  BY <1>2, <1>3

LEMMA BoardInvHolds == Spec => [](BoardInv /\ (scene = "boards" => IfaceTypeOK))
<1> DEFINE Inv == BoardInv /\ (scene = "boards" => IfaceTypeOK)
<1> USE ServicesAssumption DEF ServicesAssumption
<1>1. Init => Inv
  BY BoardsInitially, IfaceInitTypes DEF Init, MockScenes
<1>2. Inv /\ [Next]_vars => Inv'
  <2> SUFFICES ASSUME Inv, [Next]_vars PROVE Inv'
    OBVIOUS
  <2>1. CASE BoardStep
    BY <2>1, BoardsNext, InterfaceStepTypes DEF BoardStep
  <2>2. CASE ~BoardStep
    <3>1. UNCHANGED boardVars /\ UNCHANGED scene
      BY <2>2 DEF Next, LobbyStep, StatsStep, SocialStep, TimelineStep, AuthStep, MockStep, vars
    <3>2. scene' = "boards" => InterfaceStep
      BY <2>2, <3>1 DEF Next, LobbyStep, StatsStep, SocialStep, TimelineStep, AuthStep, MockStep,
                        vars, SocialScenes, InterfaceStep
    <3> QED
      BY <3>1, <3>2, BoardUntouched, InterfaceStepTypes
  <2> QED
    BY <2>1, <2>2
<1> QED
  BY <1>1, <1>2, PTL DEF Spec

(* An entry read back is one upload of its player, with its details up to  *)
(* the limit, whatever was uploaded, ranked and downloaded in between.     *)
THEOREM EntriesReadAsUploaded == Spec => []EntryAsUploaded
<1>1. BoardInv /\ (scene = "boards" => IfaceTypeOK) => EntryAsUploaded
  BY ServicesAssumption, BoardTypesAre, ReadAsUploaded DEF ServicesAssumption, EntryAsUploaded
<1> QED
  BY <1>1, BoardInvHolds, PTL

(* Only a forced upload replaces a better score of the local user.         *)
THEOREM BestScoresStay == Spec => BestScoreKept
<1> DEFINE Kept == board[Boards!Me] # Boards!NoEntry
                     /\ board'[Boards!Me].score < board[Boards!Me].score
                   => Head(requests).forced
           Inv == BoardInv /\ (scene = "boards" => IfaceTypeOK)
<1>1. Inv /\ [Next]_vars => [Kept]_(Boards!vars)
  <2> SUFFICES ASSUME BoardInv, [Next]_vars PROVE Kept
    OBVIOUS
  <2> USE ServicesAssumption DEF ServicesAssumption
  <2>1. CASE BoardStep
    BY <2>1, BoardsNext DEF BoardStep
  <2>2. CASE ~BoardStep
    <3>1. board' = board
      BY <2>2 DEF Next, LobbyStep, StatsStep, SocialStep, TimelineStep, AuthStep, MockStep, vars,
                  boardVars
    <3>2. board[Boards!Me] # Boards!NoEntry => board[Boards!Me].score \in Int
      BY ScoresFit DEF BoardInv, BoardEntries, Boards!Players
    <3> QED
      BY <3>1, <3>2
  <2> QED
    BY <2>1, <2>2
<1> HIDE DEF Inv
<1>2. Spec => []Inv
  BY BoardInvHolds DEF Inv
<1> QED
  BY <1>1, <1>2, PTL DEF Spec, BestScoreKept, Boards!BestScoreKept
-----------------------------------------------------------------------------
(* Friends: the list, avatars, invitations and join requests.              *)

(* FiniteSets comes to the service under a name of its own.                *)
LEMMA SocialFiniteSets ==
  /\ \A S : Social!Cardinality(S) = Cardinality(S)
  /\ \A S : Social!IsFiniteSet(S) <=> IsFiniteSet(S)
BY DEF Social!Cardinality, Cardinality, Social!IsFiniteSet, IsFiniteSet

(* A list that Steam gives out is a sequence of all it selects, each once. *)
LEMMA OrderIsSequence ==
  ASSUME NEW S, IsFiniteSet(S), NEW list \in Social!SetToSeqs(S)
  PROVE  /\ list \in Seq(S) /\ Len(list) = Cardinality(S)
         /\ Len(list) \in Nat /\ DOMAIN list = 1..Len(list)
         /\ {list[i] : i \in 1..Len(list)} = S
<1> DEFINE n == Cardinality(S)
<1>1. n \in Nat
  BY FS_CardinalityType
<1>2. list \in [1..n -> S] /\ \A i, j \in 1..n : i # j => list[i] # list[j]
  BY SocialFiniteSets DEF Social!SetToSeqs
<1>3. IsFiniteSet(1..n) /\ Cardinality(1..n) = n
  <2> HIDE DEF n
  <2> QED
    BY <1>1, FS_Interval
<1>4. list \in Injection(1..n, S)
  BY <1>2 DEF Injection, IsInjective
<1>5. list \in Surjection(1..n, S)
  BY <1>3, <1>4, FS_Injection
<1>6. {list[i] : i \in 1..n} = S
  BY <1>2, <1>5 DEF Surjection
<1> HIDE DEF n
<1>7. list \in Seq(S) /\ Len(list) = n
  BY <1>1, <1>2
<1> QED
  BY <1>1, <1>2, <1>6, <1>7 DEF n

Selects(flags) == {f \in Friends : relation[f] \in flags}
Args == {<<>>, <<Social!Immediate>>, <<Social!All>>}

LEMMA FlagsOf ==
  ASSUME NEW args \in Args
  PROVE  /\ Social!index_flags(args) \in Social!Selections
         /\ Social!count_flags(args) = Social!index_flags(args)
         /\ Social!index_flags(args) = IF args = <<>> THEN Social!Immediate ELSE args[1]
BY DEF Args, Social!index_flags, Social!count_flags, Social!Selections

(* Each list Steam gives out.                                              *)
LEMMA ListIsSelection ==
  ASSUME Social!FriendsAssumption, NEW flags \in Social!Selections,
         lists[flags] \in Social!Orders(relation, flags)
  PROVE  /\ Len(lists[flags]) \in Nat
         /\ DOMAIN lists[flags] = 1..Len(lists[flags])
         /\ {lists[flags][i] : i \in 1..Len(lists[flags])} = Selects(flags)
<1>1. IsFiniteSet(Selects(flags))
  BY FS_Subset, SocialFiniteSets DEF Social!FriendsAssumption, Selects
<1>2. lists[flags] \in Social!SetToSeqs(Selects(flags))
  BY DEF Social!Orders, Selects
<1> QED
  BY <1>1, <1>2, OrderIsSequence

(* The loop: as long as no relation changes, the number is that of the     *)
(* list, and the script has what stands before its index.                  *)
Loop == [num : Nat, next : Nat, got : SUBSET (Friends \cup {Social!NoOne}), quiet : BOOLEAN,
         args : Args]

LoopInv ==
  naming # Social!NotNaming =>
    LET list == lists[Social!index_flags(naming.args)]
        found == Social!Found(Social!FriendsIface)
    IN /\ naming \in Loop
       /\ naming.next \in 0..naming.num
       /\ naming.quiet =>
            /\ naming.num = IF found THEN Len(list) ELSE 0
            /\ naming.got = {list[i] : i \in 1..naming.next}

ListInv ==
  /\ relation \in [Friends -> Social!All \cup {"none"}]
  /\ lists = [flags \in Social!Selections |-> lists[flags]]
  /\ \A flags \in Social!Selections : lists[flags] \in Social!Orders(relation, flags)
  /\ LoopInv
  /\ named \in [got : SUBSET (Friends \cup {Social!NoOne}), quiet : BOOLEAN,
                are : SUBSET Friends]
  /\ Social!FriendsListExact

(* What is invited and requested arrives as it was meant, each at a length *)
(* that fits.                                                              *)
ConnectLengths == 0..(ConnectMax - 1)
Request == [friend : Friends, m_rgchConnect : 1..(ConnectMax - 1)]
Joined == [friend : Friends, connect : Nat, sent : Nat]

ConnectInv ==
  /\ presence \in ConnectLengths /\ meantPresence = presence
  /\ invited \in [Friends -> ConnectLengths] /\ meantInvited = invited
  /\ line \in Nat
  /\ requested \in Seq(Request)
  /\ join_requests \in Seq(Joined)
  /\ \A i \in DOMAIN join_requests :
       /\ join_requests[i].connect = join_requests[i].sent
       /\ join_requests[i].sent \in 1..(ConnectMax - 1)

SocialInv ==
  /\ IfaceTypeOK
  /\ process \in BOOLEAN /\ (user = 1 => process)
  /\ naming # Social!NotNaming => process
  /\ avatars \in [Friends -> Pictures \cup {Social!NoAvatar, Social!Loading}]
  /\ ListInv
  /\ ConnectInv

LEMMA FriendsFoundKept ==
  ASSUME UNCHANGED <<user, offered>>
  PROVE  \A f : Social!Found(f)' <=> Social!Found(f)
BY DEF Social!Found, Social!StopsAt, Social!FindOrCreate

LEMMA ListUntouched ==
  ASSUME ListInv, UNCHANGED Social!listVars,
         naming = Social!NotNaming \/ UNCHANGED <<user, offered>>
  PROVE  ListInv'
<1>1. LoopInv'
  BY FriendsFoundKept DEF ListInv, LoopInv, Social!listVars
<1> QED
  BY <1>1 DEF ListInv, Social!listVars, Social!FriendsListExact, Social!Orders

LEMMA ConnectUntouched ==
  ASSUME ConnectInv, UNCHANGED <<Social!connectVars, Social!joinVars, line>>
  PROVE  ConnectInv'
BY DEF ConnectInv, Social!connectVars, Social!joinVars, ConnectLengths

(* A function of the extension that changes nothing.                       *)
LEMMA SocialUntouched ==
  ASSUME SocialInv, InterfaceStep, user' = 1 => process,
         naming = Social!NotNaming \/ UNCHANGED <<user, offered>>,
         UNCHANGED <<process, Social!listVars, avatars, Social!connectVars, line,
                     Social!joinVars>>
  PROVE  SocialInv'
BY InterfaceStepTypes, ListUntouched, ConnectUntouched DEF SocialInv, Social!listVars

(* What every function of the extension does to the interfaces.            *)
LEMMA FriendsCalls ==
  ASSUME NEW f \in Interfaces, Social!steamworks_resolve(f)
  PROVE  InterfaceStep /\ UNCHANGED <<user, offered>>
BY SocialInterfaces DEF InterfaceStep, Social!steamworks_resolve

LEMMA SessionOverTypes ==
  ASSUME Social!FriendsAssumption, Social!SessionOver
  PROVE  /\ presence' \in ConnectLengths /\ meantPresence' = presence'
         /\ invited' \in [Friends -> ConnectLengths] /\ meantInvited' = invited'
         /\ requested' \in Seq(Request)
<1>1. 0 \in ConnectLengths
  BY DEF Social!FriendsAssumption, ConnectLengths
<1> QED
  BY <1>1 DEF Social!SessionOver

LEMMA SocialSession ==
  ASSUME Social!FriendsAssumption, SocialInv, Social!SessionStep
  PROVE  SocialInv'
<1> USE DEF SocialInv
<1>1. CASE \E client \in Clients : Social!steam_init(client)
  <2>1. InterfaceStep
    BY <1>1, SocialInterfaces DEF Social!steam_init, InterfaceStep
  <2> QED
    BY <1>1, <2>1, SocialUntouched DEF Social!steam_init
<1>2. CASE Social!steam_shutdown
  <2>1. IfaceTypeOK' /\ user' = 0
    BY <1>2, SocialInterfaces, ShutdownTypes DEF Social!steam_shutdown, SteamAPI_Shutdown
  <2>2. ListInv'
    BY <1>2, ListUntouched DEF Social!steam_shutdown
  <2>3. ConnectInv'
    BY <1>2, SessionOverTypes DEF Social!steam_shutdown, ConnectInv, ConnectLengths
  <2> QED
    BY <1>2, <2>1, <2>2, <2>3 DEF Social!steam_shutdown, Social!listVars
<1>3. ASSUME NEW n \in Lines, Social!ProcessStarts(n)
      PROVE  SocialInv'
  <2>1. n \in Nat
    BY DEF Social!FriendsAssumption
  <2>2. InterfaceStep /\ UNCHANGED ifaceVars
    BY <1>3, SocialInterfaces DEF Social!ProcessStarts, Social!FreshProcess, InterfaceStep
  <2>3. ListInv'
    BY <1>3, ListUntouched DEF Social!ProcessStarts, Social!FreshProcess
  <2>4. ConnectInv'
    BY <1>3, <2>1 DEF Social!ProcessStarts, Social!FreshProcess, ConnectInv, ConnectLengths,
                      Social!connectVars, Social!joinVars
  <2> QED
    BY <1>3, <2>2, <2>3, <2>4, InterfaceStepTypes
       DEF Social!ProcessStarts, Social!FreshProcess, Social!listVars
<1>4. CASE Social!ProcessEnds
  <2>1. IfaceTypeOK' /\ user' = 0
    BY <1>4, SocialInterfaces DEF Social!ProcessEnds, IfaceTypeOK
  <2>2. LoopInv' /\ Social!FriendsListExact'
    BY <1>4 DEF Social!ProcessEnds, LoopInv, Social!FriendsListExact, Social!NoNames
  <2>3. ListInv'
    BY <1>4, <2>2 DEF Social!ProcessEnds, ListInv, Social!NoNames, Social!Orders
  <2>4. ConnectInv'
    BY <1>4, SessionOverTypes DEF Social!ProcessEnds, ConnectInv, ConnectLengths
  <2>5. process' = FALSE /\ naming' = Social!NotNaming /\ UNCHANGED avatars
    BY <1>4 DEF Social!ProcessEnds
  <2>6. ~(user' = 1)
    BY <2>1
  <2> QED
    BY <2>1, <2>3, <2>4, <2>5, <2>6
<1>5. CASE Social!friends_read
  <2>1. InterfaceStep /\ UNCHANGED <<user, offered>>
    BY <1>5, FriendsCalls, NamesOfInterfaces
       DEF Social!friends_read, Social!FriendsCall, Social!FriendsIface
  <2> QED
    BY <1>5, <2>1, SocialUntouched DEF Social!friends_read
<1> QED
  BY <1>1, <1>2, <1>3, <1>4, <1>5 DEF Social!SessionStep

LEMMA SocialAvatars ==
  ASSUME Social!FriendsAssumption, SocialInv, Social!AvatarStep
  PROVE  SocialInv'
<1> USE DEF SocialInv
<1>1. ASSUME NEW f \in Friends, NEW name_only \in BOOLEAN,
             Social!steam_friends_request_user_information(f, name_only)
      PROVE  SocialInv'
  <2> USE DEF Social!steam_friends_request_user_information
  <2>1. InterfaceStep /\ UNCHANGED <<user, offered>>
    BY <1>1, FriendsCalls, NamesOfInterfaces DEF Social!FriendsCall, Social!FriendsIface
  <2>2. avatars' \in [Friends -> Pictures \cup {Social!NoAvatar, Social!Loading}]
    BY <1>1
  <2> QED
    BY <1>1, <2>1, <2>2, InterfaceStepTypes, ListUntouched, ConnectUntouched DEF Social!listVars
<1>2. ASSUME NEW f \in Friends, Social!SteamHasAvatar(f)
      PROVE  SocialInv'
  <2> USE DEF Social!SteamHasAvatar
  <2>1. InterfaceStep /\ UNCHANGED <<user, offered>>
    BY <1>2, SocialInterfaces DEF InterfaceStep, ifaceVars
  <2>2. avatars' \in [Friends -> Pictures \cup {Social!NoAvatar, Social!Loading}]
    BY <1>2
  <2> QED
    BY <1>2, <2>1, <2>2, InterfaceStepTypes, ListUntouched, ConnectUntouched DEF Social!listVars
<1> QED
  BY <1>1, <1>2 DEF Social!AvatarStep

-----------------------------------------------------------------------------
(* The loop over the friends.                                              *)

LEMMA RelationChangesKeeps ==
  ASSUME Social!FriendsAssumption, SocialInv, NEW f \in Friends,
         NEW to \in Social!All \cup {"none"}, Social!RelationChanges(f, to)
  PROVE  SocialInv'
<1> USE DEF SocialInv
<1>1. PICK immediate \in Social!Orders(relation', Social!Immediate),
           all \in Social!Orders(relation', Social!All) :
        lists' = [flags \in Social!Selections |->
                    IF flags = Social!Immediate THEN immediate ELSE all]
  BY DEF Social!RelationChanges
<1>2. InterfaceStep /\ UNCHANGED <<user, offered>>
  BY SocialInterfaces DEF Social!RelationChanges, InterfaceStep, ifaceVars
<1>3. relation' \in [Friends -> Social!All \cup {"none"}]
  BY DEF Social!RelationChanges, ListInv
<1>4. \A flags \in Social!Selections : lists'[flags] \in Social!Orders(relation', flags)
  BY <1>1 DEF Social!Selections
<1>5. LoopInv'
  <2>1. CASE naming = Social!NotNaming
    BY <2>1 DEF Social!RelationChanges, Social!Noticed, LoopInv
  <2>2. CASE naming # Social!NotNaming
    <3>1. naming' = [naming EXCEPT !.quiet = FALSE] /\ naming \in Loop
      BY <2>2 DEF Social!RelationChanges, Social!Noticed, ListInv, LoopInv
    <3>2. /\ naming' \in Loop /\ naming'.next = naming.next /\ naming'.num = naming.num
          /\ naming'.quiet = FALSE
      BY <3>1 DEF Loop
    <3> QED
      BY <2>2, <3>2 DEF ListInv, LoopInv
  <2> QED
    BY <2>1, <2>2
<1>6. ListInv'
  BY <1>1, <1>3, <1>4, <1>5 DEF Social!RelationChanges, ListInv, Social!FriendsListExact
<1>7. process' = process /\ avatars' = avatars
      /\ (naming' # Social!NotNaming => naming # Social!NotNaming)
  BY DEF Social!RelationChanges, Social!Noticed
<1> QED
  BY <1>2, <1>6, <1>7, InterfaceStepTypes, ConnectUntouched DEF Social!RelationChanges

LEMMA LoopBegins ==
  ASSUME Social!FriendsAssumption, SocialInv, NEW args \in Args,
         Social!steam_friends_get_friend_count(args)
  PROVE  SocialInv'
<1> USE DEF SocialInv, Social!steam_friends_get_friend_count
<1> DEFINE list == lists[Social!index_flags(args)]
           num == IF Social!Found(Social!FriendsIface) THEN Len(list) ELSE 0
<1>1. InterfaceStep /\ UNCHANGED <<user, offered>>
  BY FriendsCalls, NamesOfInterfaces DEF Social!FriendsCall, Social!FriendsIface
<1>2. num \in Nat
  BY FlagsOf, ListIsSelection DEF ListInv
<1>3. naming' = [num |-> num, next |-> 0, got |-> {}, quiet |-> TRUE, args |-> args]
  BY FlagsOf
<1>4. LoopInv'
  <2>1. naming' \in Loop /\ naming'.args = args /\ naming'.next = 0 /\ naming'.num = num
        /\ naming'.got = {}
    BY <1>2, <1>3 DEF Loop
  <2>2. Social!Found(Social!FriendsIface)' <=> Social!Found(Social!FriendsIface)
    BY <1>1, FriendsFoundKept
  <2>3. num = IF Social!Found(Social!FriendsIface)'
                THEN Len(lists'[Social!index_flags(naming'.args)]) ELSE 0
    BY <2>1, <2>2 DEF Social!index_flags
  <2> HIDE DEF num
  <2>4. naming'.next \in 0..naming'.num
    BY <1>2, <2>1
  <2>5. {lists'[Social!index_flags(naming'.args)][i] : i \in 1..naming'.next} = {}
    BY <2>1
  <2> QED
    BY <2>1, <2>3, <2>4, <2>5 DEF LoopInv
<1>5. ListInv'
  BY <1>4 DEF ListInv, Social!Orders, Social!FriendsListExact, Social!NoNames
<1> QED
  BY <1>1, <1>5, InterfaceStepTypes, ConnectUntouched

(* One round of the loop: the script gets who stands at its index.         *)
LEMMA LoopRound ==
  ASSUME Social!FriendsAssumption, SocialInv, Social!steam_friends_get_friend_by_index,
         naming.next < naming.num
  PROVE  SocialInv'
<1> USE DEF SocialInv
<1> DEFINE list == lists[Social!index_flags(naming.args)]
           found == Social!Found(Social!FriendsIface)
           more == IF found THEN {Social!FriendByIndex(naming.next, naming.args)} ELSE {}
<1>1. naming # Social!NotNaming /\ naming \in Loop /\ naming.next \in 0..naming.num
  BY DEF Social!steam_friends_get_friend_by_index, ListInv, LoopInv
<1>2. /\ naming' = [naming EXCEPT !.next = @ + 1, !.got = @ \cup more]
      /\ Social!steamworks_resolve(Social!FriendsIface)
      /\ UNCHANGED <<named, process, relation, lists, avatars, Social!connectVars, line,
                     Social!joinVars>>
  BY DEF Social!steam_friends_get_friend_by_index
<1>3. InterfaceStep /\ UNCHANGED <<user, offered>>
  BY <1>2, FriendsCalls, NamesOfInterfaces DEF Social!FriendsIface
<1>4. found' <=> found
  BY <1>3, FriendsFoundKept
<1>5. Social!index_flags(naming.args) \in Social!Selections
  BY <1>1, FlagsOf DEF Loop
<1>6. /\ Len(list) \in Nat /\ DOMAIN list = 1..Len(list)
      /\ {list[i] : i \in 1..Len(list)} \subseteq Friends
  BY <1>5, ListIsSelection DEF ListInv, Selects
<1>7. more \subseteq Friends \cup {Social!NoOne}
  BY <1>6 DEF Social!FriendByIndex
<1>8. /\ naming' \in Loop
      /\ naming'.next = naming.next + 1 /\ naming'.num = naming.num
      /\ naming'.got = naming.got \cup more
      /\ naming'.quiet = naming.quiet /\ naming'.args = naming.args
  <2> HIDE DEF more
  <2> DEFINE next == naming.next + 1
             got == naming.got \cup more
  <2>1. naming' \in [num : {naming.num}, next : {next}, got : {got}, quiet : {naming.quiet},
                     args : {naming.args}]
    BY <1>1, <1>2 DEF Loop
  <2>2. next \in Nat /\ got \in SUBSET (Friends \cup {Social!NoOne})
    BY <1>1, <1>7 DEF Loop
  <2> HIDE DEF next, got
  <2>3. /\ naming'.num = naming.num /\ naming'.next = next /\ naming'.got = got
        /\ naming'.quiet = naming.quiet /\ naming'.args = naming.args
    BY <2>1
  <2>4. naming' \in Loop
    BY <1>1, <2>1, <2>2 DEF Loop
  <2> QED
    BY <2>3, <2>4 DEF next, got
<1>9. naming'.next \in 0..naming'.num
  BY <1>1, <1>8 DEF Loop
<1>10. ASSUME naming.quiet
       PROVE  /\ naming.num = IF found THEN Len(list) ELSE 0
              /\ naming.got \cup more = {list[i] : i \in 1..(naming.next + 1)}
  <2>1. /\ naming.num = IF found THEN Len(list) ELSE 0
        /\ naming.got = {list[i] : i \in 1..naming.next}
    BY <1>1, <1>10 DEF ListInv, LoopInv
  <2>2. found
    BY <1>1, <2>1 DEF Loop
  <2>3. more = {list[naming.next + 1]}
    <3>1. naming.next + 1 \in DOMAIN list
      BY <1>1, <1>6, <2>1, <2>2 DEF Loop
    <3> QED
      BY <2>2, <3>1 DEF Social!FriendByIndex
  <2>4. 1..(naming.next + 1) = 1..naming.next \cup {naming.next + 1}
    BY <1>1 DEF Loop
  <2> HIDE DEF list, more
  <2> QED
    BY <2>1, <2>3, <2>4
<1>11. LoopInv'
  <2> DEFINE newlist == lists'[Social!index_flags(naming'.args)]
  <2>1. newlist = list
    BY <1>2, <1>8 DEF Social!index_flags
  <2>2. naming'.quiet =>
          /\ naming'.num = IF found' THEN Len(newlist) ELSE 0
          /\ naming'.got = {newlist[i] : i \in 1..naming'.next}
    <3> HIDE DEF more, newlist, found, list
    <3>1. (IF found' THEN Len(newlist) ELSE 0) = IF found THEN Len(list) ELSE 0
      BY <1>4, <2>1
    <3> QED
      BY <1>8, <1>10, <2>1, <3>1
  <2> QED
    BY <1>8, <1>9, <2>2 DEF LoopInv
<1>12. ListInv'
  BY <1>2, <1>11 DEF ListInv, Social!Orders, Social!FriendsListExact
<1> QED
  BY <1>1, <1>2, <1>3, <1>12, InterfaceStepTypes, ConnectUntouched

(* The end of the loop: the script has its picture.                        *)
LEMMA LoopEnds ==
  ASSUME Social!FriendsAssumption, SocialInv, Social!steam_friends_get_friend_by_index,
         ~(naming.next < naming.num)
  PROVE  SocialInv'
<1> USE DEF SocialInv
<1> DEFINE flags == Social!index_flags(naming.args)
           list == lists[flags]
           found == Social!Found(Social!FriendsIface)
           are == IF found THEN Selects(flags) ELSE {}
<1>1. naming # Social!NotNaming /\ naming \in Loop /\ naming.next \in 0..naming.num
  BY DEF Social!steam_friends_get_friend_by_index, ListInv, LoopInv
<1>2. flags \in Social!Selections
      /\ flags = IF naming.args = <<>> THEN Social!Immediate ELSE naming.args[1]
  BY <1>1, FlagsOf DEF Loop
<1>3. /\ naming' = Social!NotNaming
      /\ UNCHANGED <<process, relation, lists, avatars, Social!connectVars, line,
                     Social!joinVars>>
  BY DEF Social!steam_friends_get_friend_by_index
<1>4. named' = [got |-> naming.got, quiet |-> naming.quiet, are |-> are]
  BY <1>2 DEF Social!steam_friends_get_friend_by_index, Selects
<1>5. InterfaceStep /\ UNCHANGED <<user, offered>>
  BY SocialInterfaces
     DEF Social!steam_friends_get_friend_by_index, InterfaceStep, ifaceVars
<1>6. are \subseteq Friends
  BY DEF Selects
<1>7. ASSUME naming.quiet PROVE naming.got = are
  <2>1. /\ naming.num = IF found THEN Len(list) ELSE 0
        /\ naming.got = {list[i] : i \in 1..naming.next}
    BY <1>1, <1>7 DEF ListInv, LoopInv
  <2>2. naming.next = naming.num
    BY <1>1 DEF Loop
  <2>3. Selects(flags) = {list[i] : i \in 1..Len(list)}
    BY <1>2, ListIsSelection DEF ListInv
  <2> QED
    BY <2>1, <2>2, <2>3
<1> HIDE DEF are
<1>8. named' \in [got : SUBSET (Friends \cup {Social!NoOne}), quiet : BOOLEAN,
                  are : SUBSET Friends]
  BY <1>1, <1>4, <1>6 DEF Loop
<1>9. Social!FriendsListExact'
  BY <1>1, <1>4, <1>7 DEF Social!FriendsListExact, Loop
<1>10. ListInv'
  BY <1>3, <1>8, <1>9 DEF ListInv, LoopInv, Social!Orders
<1> QED
  BY <1>3, <1>5, <1>10, InterfaceStepTypes, ConnectUntouched

LEMMA SocialList ==
  ASSUME Social!FriendsAssumption, SocialInv, Social!ListStep
  PROVE  SocialInv'
BY RelationChangesKeeps, LoopBegins, LoopRound, LoopEnds DEF Social!ListStep, Args

-----------------------------------------------------------------------------
(* Inviting and being invited.                                             *)

(* What a friend is sent fits, and is what the script meant.               *)
LEMMA CutFits ==
  ASSUME Social!FriendsAssumption, NEW connect \in Connects
  PROVE  LET cut == Social!CutTo(connect.c, ConnectMax)
         IN /\ cut \in ConnectLengths
            /\ connect.c < ConnectMax => Social!Intent(connect, cut) = cut
<1>1. /\ connect.c \in Nat /\ connect.len \in Nat /\ ConnectMax \in Nat \ {0}
  BY DEF Social!FriendsAssumption
<1> QED
  BY <1>1 DEF Social!CutTo, Social!Intent, ConnectLengths

LEMMA SendsKeeps ==
  ASSUME Social!FriendsAssumption, ConnectInv, NEW f \in Friends, NEW connect \in Connects,
         connect.c < ConnectMax, Social!Sends(f, connect)
  PROVE  invited' \in [Friends -> ConnectLengths] /\ meantInvited' = invited'
<1> DEFINE cut == Social!CutTo(connect.c, ConnectMax)
<1>1. cut \in ConnectLengths /\ Social!Intent(connect, cut) = cut
  BY CutFits
<1>2. /\ invited' = [invited EXCEPT ![f] = cut]
      /\ meantInvited' = [meantInvited EXCEPT ![f] = Social!Intent(connect, cut)]
  BY DEF Social!Sends
<1> HIDE DEF cut
<1> QED
  BY <1>1, <1>2 DEF ConnectInv

LEMMA SocialInvites ==
  ASSUME Social!FriendsAssumption, SocialInv, Social!InviteStep
  PROVE  SocialInv'
<1> USE DEF SocialInv
<1>1. ASSUME NEW value \in Connects, Social!steam_friends_set_rich_presence(value)
      PROVE  SocialInv'
  <2> USE DEF Social!steam_friends_set_rich_presence
  <2>1. InterfaceStep /\ UNCHANGED <<user, offered>>
    BY <1>1, FriendsCalls, NamesOfInterfaces DEF Social!FriendsCall, Social!FriendsIface
  <2>2. presence' \in ConnectLengths /\ meantPresence' = presence'
    BY <1>1 DEF ConnectInv, ConnectLengths, Social!FriendsAssumption, Social!Intent
  <2>3. ConnectInv'
    BY <1>1, <2>2 DEF ConnectInv, ConnectLengths, Social!joinVars
  <2> QED
    BY <1>1, <2>1, <2>3, InterfaceStepTypes, ListUntouched DEF Social!listVars
<1>2. ASSUME NEW f \in Friends, NEW connect \in Connects,
             \/ Social!steam_friends_invite_user_to_game(f, connect)
             \/ Social!steam_friends_activate_invite_dialog_connect_string(f, connect)
      PROVE  SocialInv'
  <2> USE DEF Social!steam_friends_invite_user_to_game,
              Social!steam_friends_activate_invite_dialog_connect_string
  <2>1. InterfaceStep /\ UNCHANGED <<user, offered>>
    BY <1>2, FriendsCalls, NamesOfInterfaces DEF Social!FriendsCall, Social!FriendsIface
  <2>2. connect.c < ConnectMax \/ UNCHANGED <<invited, meantInvited>>
    BY <1>2 DEF Social!connect_ok, Social!FriendsAssumption
  <2>3. Social!Sends(f, connect) \/ UNCHANGED <<invited, meantInvited>>
    BY <1>2
  <2>4. invited' \in [Friends -> ConnectLengths] /\ meantInvited' = invited'
    BY <1>2, <2>2, <2>3, SendsKeeps DEF ConnectInv
  <2>5. ConnectInv'
    BY <1>2, <2>4 DEF ConnectInv, ConnectLengths, Social!joinVars
  <2> QED
    BY <1>2, <2>1, <2>5, InterfaceStepTypes, ListUntouched DEF Social!listVars
<1> QED
  BY <1>1, <1>2 DEF Social!InviteStep

LEMMA SocialJoins ==
  ASSUME Social!FriendsAssumption, SocialInv, Social!JoinStep
  PROVE  SocialInv'
<1> USE DEF SocialInv
<1>1. ASSUME NEW f \in Friends, NEW n \in Lines, Social!UserAccepts(f, n)
      PROVE  SocialInv'
  <2> USE DEF Social!UserAccepts, Social!FreshProcess
  <2>1. InterfaceStep /\ UNCHANGED <<user, offered>>
    BY <1>1, SocialInterfaces DEF InterfaceStep, ifaceVars
  <2>2. n \in 1..(ConnectMax - 1) /\ n \in Nat
    BY <1>1 DEF Social!FriendsAssumption
  <2>3. requested' \in Seq(Request) /\ line' \in Nat /\ join_requests' = join_requests
    <3>1. [friend |-> f, m_rgchConnect |-> n] \in Request
      BY <2>2 DEF Request
    <3>2. requested \in Seq(Request) /\ line \in Nat
      BY DEF ConnectInv
    <3>3. \/ UNCHANGED requested
          \/ requested' = Append(requested, [friend |-> f, m_rgchConnect |-> n])
      BY <1>1 DEF Social!joinVars
    <3>4. line' \in {n, line} /\ join_requests' = join_requests
      BY <1>1 DEF Social!joinVars
    <3>5. requested' \in Seq(Request)
      BY <3>1, <3>2, <3>3
    <3> QED
      BY <2>2, <3>2, <3>4, <3>5
  <2>4. ConnectInv'
    BY <1>1, <2>3 DEF ConnectInv, ConnectLengths, Social!connectVars
  <2>5. ListInv' /\ avatars' = avatars /\ naming' = naming
    BY <1>1, <2>1, ListUntouched DEF Social!listVars
  <2>6. process' = process \/ process' = TRUE
    BY <1>1
  <2> QED
    BY <2>1, <2>4, <2>5, <2>6, InterfaceStepTypes
<1>2. CASE Social!steam_run_callbacks
  <2> USE DEF Social!steam_run_callbacks
  <2>1. InterfaceStep /\ UNCHANGED <<user, offered>>
    BY <1>2, SocialInterfaces DEF InterfaceStep, ifaceVars
  <2> DEFINE new == [i \in DOMAIN requested |->
                       [friend |-> requested[i].friend,
                        connect |-> Social!ConnectCopied(requested[i].m_rgchConnect),
                        sent |-> requested[i].m_rgchConnect]]
  <2>2. requested \in Seq(Request) /\ join_requests \in Seq(Joined)
    BY DEF ConnectInv
  <2>3. \A i \in DOMAIN requested :
          /\ requested[i].friend \in Friends
          /\ requested[i].m_rgchConnect \in 1..(ConnectMax - 1)
    <3>1. \A i \in DOMAIN requested : requested[i] \in Request
      BY <2>2
    <3> QED
      BY <3>1 DEF Request
  <2>4. \A i \in DOMAIN requested : new[i] \in Joined
          /\ new[i].connect = new[i].sent /\ new[i].sent \in 1..(ConnectMax - 1)
    BY <2>3 DEF Social!FriendsAssumption, Social!ConnectCopied, Social!CutTo, Joined
  <2>5. new \in Seq(Joined) /\ DOMAIN new = DOMAIN requested
    <3>1. DOMAIN requested = 1..Len(requested) /\ Len(requested) \in Nat
      BY <2>2
    <3>2. new = [i \in 1..Len(requested) |-> new[i]]
      BY <3>1
    <3> HIDE DEF new
    <3> QED
      BY <2>4, <3>1, <3>2
  <2>6. join_requests' = join_requests \o new /\ requested' = <<>>
    BY <1>2
  <2> HIDE DEF new
  <2>7. join_requests' \in Seq(Joined)
    BY <2>2, <2>5, <2>6
  <2>8. \A i \in DOMAIN join_requests' :
          \/ i \in DOMAIN join_requests /\ join_requests'[i] = join_requests[i]
          \/ \E j \in DOMAIN requested : join_requests'[i] = new[j]
    BY <2>2, <2>5, <2>6
  <2>9. \A i \in DOMAIN join_requests' :
          /\ join_requests'[i].connect = join_requests'[i].sent
          /\ join_requests'[i].sent \in 1..(ConnectMax - 1)
    BY <2>4, <2>8 DEF ConnectInv
  <2>10. requested' \in Seq(Request)
    BY <2>6
  <2>11. UNCHANGED <<presence, invited, meantPresence, meantInvited, line>>
    BY <1>2 DEF Social!connectVars
  <2>12. ConnectInv'
    BY <2>7, <2>9, <2>10, <2>11 DEF ConnectInv, ConnectLengths
  <2> QED
    BY <1>2, <2>1, <2>12, InterfaceStepTypes, ListUntouched DEF Social!listVars
<1>3. CASE Social!steam_friends_get_join_requests
  <2> USE DEF Social!steam_friends_get_join_requests
  <2>1. InterfaceStep /\ UNCHANGED <<user, offered>>
    BY <1>3, SocialInterfaces DEF InterfaceStep, ifaceVars
  <2>2. ConnectInv'
    BY <1>3 DEF ConnectInv, ConnectLengths, Social!connectVars
  <2> QED
    BY <1>3, <2>1, <2>2, InterfaceStepTypes, ListUntouched DEF Social!listVars
<1> QED
  BY <1>1, <1>2, <1>3 DEF Social!JoinStep

-----------------------------------------------------------------------------
(* What the invariant means.                                               *)

LEMMA SocialInitially ==
  ASSUME Social!FriendsAssumption, IfaceInit, Social!FriendsInit
  PROVE  SocialInv
<1> USE DEF Social!FriendsInit
<1>1. \A flags \in Social!Selections : lists[flags] \in Social!Orders(relation, flags)
  <2>1. ASSUME NEW flags \in Social!Selections
        PROVE  lists[flags] \in Social!Orders(relation, flags)
    <3>1. {f \in Friends : relation[f] \in flags} = {} /\ lists[flags] = <<>>
      BY <2>1 DEF Social!Selections, Social!Immediate, Social!All
    <3>2. Social!Cardinality({}) = 0
      BY SocialFiniteSets, FS_EmptySet
    <3>3. Social!SetToSeqs({}) = {f \in [1..0 -> {}] : TRUE}
      BY <3>2 DEF Social!SetToSeqs
    <3>4. <<>> \in [1..0 -> {}]
      OBVIOUS
    <3> QED
      BY <3>1, <3>3, <3>4 DEF Social!Orders
  <2> QED
    BY <2>1
<1>2. ListInv
  BY <1>1 DEF ListInv, LoopInv, Social!FriendsListExact, Social!NoNames, Social!All
<1>3. ConnectInv
  BY DEF ConnectInv, ConnectLengths, Social!FriendsAssumption
<1>4. IfaceTypeOK /\ ~(user = 1)
  BY IfaceInitTypes DEF IfaceInit
<1> QED
  BY <1>2, <1>3, <1>4 DEF SocialInv

LEMMA SocialTypesAre ==
  ASSUME Social!FriendsAssumption, SocialInv
  PROVE  Social!FriendsTypeOK
<1>1. naming # Social!NotNaming => process /\ naming.next \in 0..naming.num
  BY DEF SocialInv, ListInv, LoopInv
<1>2. \A i \in DOMAIN join_requests : join_requests[i].connect \in 1..(ConnectMax - 1)
  BY DEF SocialInv, ConnectInv
<1> QED
  BY <1>1, <1>2, SocialInterfaces
     DEF SocialInv, ListInv, ConnectInv, ConnectLengths, Social!FriendsTypeOK

(* The product of two sizes is above zero if neither is zero.              *)
LEMMA SizesAboveZero ==
  ASSUME NEW w \in Nat, NEW h \in Nat
  PROVE  w * h > 0 <=> w # 0 /\ h # 0
OBVIOUS

LEMMA AvatarsAreWhole ==
  ASSUME Social!FriendsAssumption, SocialInv
  PROVE  Social!AvatarWhole
<1> SUFFICES ASSUME NEW f \in Friends, NEW size \in Social!AvatarSizes
             PROVE  LET avatar == Social!steam_friends_get_friend_avatar(f, size)
                        known == /\ Social!Found(Social!FriendsIface)
                                 /\ Social!Found("ISteamUtils")
                                 /\ avatars[f] # Social!Loading
                                 /\ avatars[f].width * avatars[f].height > 0
                    IN /\ known <=> avatar # {}
                       /\ \A a \in avatar :
                            /\ a.rgba = a.width * a.height * 4 /\ a.written = a.rgba
                            /\ size \in 0..2 =>
                                 a.of = <<"small", "medium", "large">>[size + 1]
  BY DEF Social!AvatarWhole
<1> DEFINE w == avatars[f].width
           h == avatars[f].height
           kind == CASE size = 0 -> "small" [] size = 2 -> "large" [] OTHER -> "medium"
           avatar == Social!steam_friends_get_friend_avatar(f, size)
           both == Social!Found(Social!FriendsIface) /\ Social!Found("ISteamUtils")
<1>1. avatars[f] \in Pictures \cup {Social!NoAvatar, Social!Loading}
  BY DEF SocialInv
<1>2. avatars[f] # Social!Loading => w \in Nat /\ h \in Nat
  BY <1>1 DEF Social!FriendsAssumption, Social!NoAvatar
<1>3. avatars[f] = Social!NoAvatar => w = 0
  BY DEF Social!NoAvatar
<1>4. Social!Sized(avatars[f], size) = [of |-> kind, width |-> w, height |-> h]
  BY DEF Social!Sized
<1>5. avatar = IF /\ both /\ avatars[f] \notin {Social!NoAvatar, Social!Loading}
                  /\ w # 0 /\ h # 0 /\ w * h * 4 >= w * h * 4
                 THEN {[width |-> w, height |-> h, of |-> kind, rgba |-> w * h * 4,
                        written |-> w * h * 4]}
                 ELSE {}
  BY <1>4 DEF Social!steam_friends_get_friend_avatar, Social!Bytes
<1>6. size \in 0..2 => kind = <<"small", "medium", "large">>[size + 1]
  BY DEF Social!AvatarSizes
<1>7. avatars[f] # Social!Loading =>
        /\ w * h \in Nat /\ w * h * 4 >= w * h * 4
        /\ w * h > 0 <=> w # 0 /\ h # 0
  <2> HIDE DEF w, h
  <2> QED
    BY <1>2, SizesAboveZero
<1> HIDE DEF w, h, kind, both
<1>8. (both /\ avatars[f] # Social!Loading /\ w * h > 0) <=> avatar # {}
  BY <1>3, <1>5, <1>7
<1>9. \A a \in avatar :
        /\ a.rgba = a.width * a.height * 4 /\ a.written = a.rgba /\ a.of = kind
  BY <1>5
<1> HIDE DEF avatar
<1> QED
  BY <1>6, <1>8, <1>9 DEF w, h, kind, both, avatar

LEMMA JoinedAreInvited ==
  ASSUME Social!FriendsAssumption, SocialInv
  PROVE  Social!JoinedAsInvited
<1>1. Social!Found("ISteamApps") => process
  <2>1. Social!Found("ISteamApps") => user # 0
    BY DEF Social!Found, Social!StopsAt, Social!FindOrCreate
  <2> QED
    BY <2>1 DEF SocialInv, IfaceTypeOK
<1>2. line < ConnectMax => Social!CutTo(line, LineMax) = line
  BY DEF SocialInv, ConnectInv, Social!FriendsAssumption, Social!CutTo
<1> QED
  BY <1>1, <1>2 DEF SocialInv, ConnectInv, Social!JoinedAsInvited,
                    Social!steam_apps_get_launch_command_line

LEMMA SocialKept ==
  ASSUME Social!FriendsAssumption, SocialInv, SocialStep \/ UNCHANGED vars
  PROVE  SocialInv'
<1>1. CASE SocialStep
  BY <1>1, SocialSession, SocialList, SocialAvatars, SocialInvites, SocialJoins DEF SocialStep
<1>2. CASE UNCHANGED vars
  <2>1. /\ InterfaceStep /\ UNCHANGED <<user, offered>> /\ UNCHANGED process
        /\ UNCHANGED <<Social!listVars, avatars, Social!connectVars, line, Social!joinVars>>
    BY <1>2 DEF vars, socialVars, ifaceVars, Social!listVars, Social!connectVars,
                Social!joinVars, InterfaceStep
  <2> QED
    BY <2>1, SocialUntouched DEF SocialInv
<1> QED
  BY <1>1, <1>2

LEMMA SocialInvHolds == Spec => [](scene \in SocialScenes => SocialInv)
<1> DEFINE Inv == scene \in SocialScenes => SocialInv
<1> USE ServicesAssumption DEF ServicesAssumption
<1>1. Init => Inv
  BY SocialInitially DEF Init, MockScenes, SocialScenes
<1>2. Inv /\ [Next]_vars => Inv'
  <2> SUFFICES ASSUME scene' \in SocialScenes, Inv, [Next]_vars PROVE SocialInv'
    OBVIOUS
  <2>1. scene' = scene
    BY DEF Next, LobbyStep, StatsStep, BoardStep, SocialStep, TimelineStep, AuthStep, MockStep,
           vars
  <2>2. SocialStep \/ UNCHANGED vars
    BY <2>1 DEF Next, LobbyStep, StatsStep, BoardStep, TimelineStep, AuthStep, MockStep,
                SocialScenes
  <2> QED
    BY <2>1, <2>2, SocialKept
<1> QED
  BY <1>1, <1>2, PTL DEF Spec

(* A loop over the friends by index names exactly those its flags select,  *)
(* whatever the friends and however relations change, and an avatar is     *)
(* returned whole or not at all.                                           *)
THEOREM FriendsAreAsSteamHas == Spec => []FriendsAsSteamHas
<1>1. (scene \in SocialScenes => SocialInv) => FriendsAsSteamHas
  BY ServicesAssumption, SocialTypesAre, AvatarsAreWhole
     DEF ServicesAssumption, FriendsAsSteamHas, SocialScenes, SocialInv, ListInv
<1> QED
  BY <1>1, SocialInvHolds, PTL

(* A connect string arrives as it was passed, at every length that fits    *)
(* and whatever sessions and processes begin and end between.              *)
THEOREM ConnectStringsArrive == Spec => []ConnectStringArrives
<1>1. (scene \in SocialScenes => SocialInv) => ConnectStringArrives
  BY ServicesAssumption, JoinedAreInvited
     DEF ServicesAssumption, ConnectStringArrives, SocialScenes, SocialInv, ConnectInv,
         Social!InvitedAsMeant
<1> QED
  BY <1>1, SocialInvHolds, PTL

-----------------------------------------------------------------------------
(* Lobbies: what a script was told is done in its lobby is done.           *)

LobbyMe == Lobby!Me
LobbySettings == [type : Int, room : Int, joinable : BOOLEAN, data : Nat]

(* The asynchronous call under way.  Only the room is cast before Steam    *)
(* gets it.                                                                *)
Creating ==
  {e \in [fn : {"create"}, type : Int, room : Int, asked : Int] :
     e.room = Lobby!ToInt(e.asked) /\ e.asked >= 1}
LobbyCalls == Creating \cup [fn : {"none", "join", "entered"}]

(* A text that Steam takes as a message.                                   *)
ChatTexts == {s \in Lobby!PhpString : s.c <= s.len /\ s.len <= ChatMax}
LobbyOwners == Lobby!Users \cup {Lobby!Nobody}
LobbyEvents ==
  [kind : {"chat_update"}, m_ulSteamIDUserChanged : Lobby!Users,
   m_ulSteamIDMakingChange : LobbyOwners,
   m_rgfChatMemberStateChange : {"ENTERED", "LEFT", "KICKED"}, old : BOOLEAN]
  \cup [kind : {"data_update"}, m_ulSteamIDMember : {"lobby", LobbyMe}, old : BOOLEAN]
  \cup [kind : {"chat_message"}, m_ulSteamIDUser : Lobby!Users, sent : ChatTexts,
        old : BOOLEAN]

LobbyClaim ==
  claimed # Lobby!NoClaim =>
    /\ owner = LobbyMe /\ Lobby!Inside
    /\ settings.data = claimed.data /\ settings.joinable = claimed.joinable
    /\ settings.type = claimed.type
    /\ claimed.room >= 1 /\ settings.room = Lobby!ToInt(claimed.room)

LobbyInv ==
  /\ members \in Seq(Lobby!Users) /\ owner \in LobbyOwners
  /\ settings \in LobbySettings /\ claimed \in LobbySettings \cup {Lobby!NoClaim}
  /\ entering \in LobbyCalls
  /\ ready \in Nat /\ claimedReady = ready
  /\ feed \in Seq(LobbyEvents)
  /\ LobbyClaim

LEMMA RoomsFit ==
  ASSUME Lobby!LobbyAssumption
  PROVE  /\ \A n \in Int : Lobby!ToInt(n) \in Int
         /\ \A n \in 0..IntMax : Lobby!ToInt(n) = n
<1> DEFINE m == 2 * IntMax + 2
<1>1. m \in Nat /\ m >= 2 /\ IntMax \in Nat
  BY DEF Lobby!LobbyAssumption
<1>2. ASSUME NEW n \in Int PROVE Lobby!ToInt(n) \in Int
  <2>1. n % m \in 0..(m - 1)
    BY <1>1
  <2> QED
    BY <1>1, <2>1 DEF Lobby!ToInt
<1>3. ASSUME NEW n \in 0..IntMax PROVE Lobby!ToInt(n) = n
  <2>1. n \in 0..(m - 1)
    BY <1>1
  <2>2. n % m = n
    BY <1>1, <2>1, Wraps
  <2> QED
    BY <1>1, <2>2 DEF Lobby!ToInt
<1> QED
  BY <1>2, <1>3

(* What lobby_key_value_ok lets pass, Steam holds as the script was told.  *)
LEMMA HeldAsTold ==
  ASSUME Lobby!LobbyAssumption, NEW key \in Keys, NEW value \in Values, NEW before \in Nat,
         Lobby!lobby_key_value_ok(key, value)
  PROVE  /\ Lobby!Held(key, value, before) = Lobby!Told(key, value, before)
         /\ Lobby!Held(key, value, before) \in Nat
<1>1. /\ key.len \in Nat /\ key.c \in Nat /\ value.len \in Nat /\ value.c \in Nat
      /\ key.c <= key.len /\ value.c <= value.len
      /\ key.len \in 1..KeyMax /\ value.len < ValueMax
  BY DEF Lobby!LobbyAssumption, Lobby!PhpString, Lobby!lobby_key_value_ok
<1> QED
  BY <1>1 DEF Lobby!Held, Lobby!Told

-----------------------------------------------------------------------------
(* Members come and go.                                                    *)

LEMMA LeastOf ==
  ASSUME NEW S \in SUBSET Nat, S # {}
  PROVE  \E x \in S : \A y \in S : x <= y
<1>1. IsWellFoundedOn({ss \in Nat \X Nat : ss[1] < ss[2]}, Nat)
  BY NatLessThanWellFounded DEF OpToRel
<1>2. PICK x \in S : \A y \in S : ~ (<<y, x>> \in {ss \in Nat \X Nat : ss[1] < ss[2]})
  BY <1>1, WFMin
<1>3. ASSUME NEW y \in S PROVE x <= y
  <2>1. <<y, x>> \in Nat \X Nat /\ <<y, x>>[1] = y /\ <<y, x>>[2] = x
    OBVIOUS
  <2>2. ~(y < x)
    BY <1>2, <2>1
  <2>3. x \in Nat /\ y \in Nat
    OBVIOUS
  <2> QED
    BY <2>2, <2>3
<1> QED
  BY <1>3

(* RemoveFirst leaves out one element and moves up what follows.           *)
LEMMA FirstRemoved ==
  ASSUME NEW s \in Seq(Lobby!Users), NEW u, \E i \in 1..Len(s) : s[i] = u
  PROVE  LET t == Lobby!RemoveFirst(s, u)
         IN /\ t \in Seq(Lobby!Users) /\ Len(t) = Len(s) - 1
            /\ \E k \in 1..Len(s) :
                 /\ s[k] = u
                 /\ \A i \in 1..(Len(s) - 1) : t[i] = IF i < k THEN s[i] ELSE s[i + 1]
<1> DEFINE t == Lobby!RemoveFirst(s, u)
           n == Len(s)
           I == {i \in 1..n : s[i] = u}
           k == Lobby!Min(I)
           a == SubSeq(s, 1, k - 1)
           b == SubSeq(s, k + 1, n)
<1>0. n \in Nat /\ DOMAIN s = 1..n /\ \A i \in 1..n : s[i] \in Lobby!Users
  OBVIOUS
<1>1. t = a \o b
  BY DEF Lobby!RemoveFirst, Lobby!RemoveAt, Lobby!SelectInSeq
<1>2. k \in I
  <2>1. I \in SUBSET Nat /\ I # {}
    BY <1>0
  <2> HIDE DEF I
  <2>2. \E x \in I : \A y \in I : x <= y
    BY <2>1, LeastOf
  <2> QED
    BY <2>2 DEF Lobby!Min
<1>3. k \in 1..n /\ s[k] = u
  BY <1>2
<1> HIDE DEF k
<1>4. /\ a \in Seq(Lobby!Users) /\ Len(a) = k - 1
      /\ \A i \in 1..(k - 1) : a[i] = s[i]
  <2>1. \A i \in 1..(k - 1) : s[i] \in Lobby!Users
    BY <1>0, <1>3
  <2> QED
    BY <1>3, <2>1, SubSeqProperties
<1>5. /\ b \in Seq(Lobby!Users) /\ Len(b) = n - k
      /\ \A i \in 1..(n - k) : b[i] = s[k + i]
  <2>1. \A i \in (k + 1)..n : s[i] \in Lobby!Users
    BY <1>0, <1>3
  <2>2. /\ b \in Seq(Lobby!Users)
        /\ Len(b) = IF k + 1 <= n THEN n - (k + 1) + 1 ELSE 0
        /\ \A i \in 1..(n - (k + 1) + 1) : b[i] = s[(k + 1) + i - 1]
    BY <1>0, <1>3, <2>1, SubSeqProperties
  <2> HIDE DEF b, n
  <2>3. n - (k + 1) + 1 = n - k /\ (IF k + 1 <= n THEN n - (k + 1) + 1 ELSE 0) = n - k
    BY <1>0, <1>3
  <2>4. \A i \in 1..(n - k) : (k + 1) + i - 1 = k + i
    BY <1>0, <1>3
  <2> QED
    BY <2>2, <2>3, <2>4
<1> HIDE DEF a, b
<1>6. /\ t \in Seq(Lobby!Users) /\ Len(t) = n - 1
      /\ \A i \in 1..(n - 1) : t[i] = IF i <= k - 1 THEN a[i] ELSE b[i - (k - 1)]
  <2>1. /\ a \o b \in Seq(Lobby!Users) /\ Len(a \o b) = Len(a) + Len(b)
        /\ \A i \in 1..(Len(a) + Len(b)) :
             (a \o b)[i] = IF i <= Len(a) THEN a[i] ELSE b[i - Len(a)]
    BY <1>4, <1>5, ConcatProperties
  <2>2. Len(a) = k - 1 /\ Len(a) + Len(b) = n - 1
    BY <1>0, <1>3, <1>4, <1>5
  <2> HIDE DEF t
  <2> QED
    BY <1>1, <2>1, <2>2
<1>7. ASSUME NEW i \in 1..(n - 1) PROVE t[i] = IF i < k THEN s[i] ELSE s[i + 1]
  <2> HIDE DEF t
  <2>1. CASE i < k
    <3>1. i \in 1..(k - 1)
      BY <1>0, <1>3, <2>1
    <3> QED
      BY <1>0, <1>3, <1>4, <1>6, <2>1, <3>1
  <2>2. CASE ~(i < k)
    <3>1. i - (k - 1) \in 1..(n - k) /\ k + (i - (k - 1)) = i + 1 /\ ~(i <= k - 1)
      BY <1>0, <1>3, <2>2
    <3>2. b[i - (k - 1)] = s[i + 1]
      BY <1>5, <3>1
    <3> QED
      BY <1>6, <2>2, <3>1, <3>2
  <2> QED
    BY <2>1, <2>2
<1> QED
  BY <1>3, <1>6, <1>7

(* Who leaves is the only one who does.                                    *)
LEMMA OthersStay ==
  ASSUME NEW s \in Seq(Lobby!Users), NEW u
  PROVE  LET t == Lobby!RemoveFirst(s, u)
         IN /\ t \in Seq(Lobby!Users)
            /\ \A v : v # u /\ (\E i \in 1..Len(s) : s[i] = v) => \E i \in 1..Len(t) : t[i] = v
            /\ \A v : (\E i \in 1..Len(t) : t[i] = v) => \E i \in 1..Len(s) : s[i] = v
            /\ (\A i, j \in 1..Len(s) : s[i] = s[j] => i = j) =>
                 /\ \A i, j \in 1..Len(t) : t[i] = t[j] => i = j
                 /\ \A i \in 1..Len(t) : t[i] # u
<1> DEFINE t == Lobby!RemoveFirst(s, u)
           n == Len(s)
<1>1. CASE ~ \E i \in 1..n : s[i] = u
  <2>1. t = s
    BY <1>1 DEF Lobby!RemoveFirst
  <2> HIDE DEF t
  <2> QED
    BY <1>1, <2>1 DEF t
<1>2. CASE \E i \in 1..n : s[i] = u
  <2>1. t \in Seq(Lobby!Users) /\ Len(t) = n - 1 /\ n \in Nat
    BY <1>2, FirstRemoved
  <2>2. \E k \in 1..n :
          s[k] = u /\ \A i \in 1..(n - 1) : t[i] = IF i < k THEN s[i] ELSE s[i + 1]
    BY <1>2, FirstRemoved
  <2>3. PICK k \in 1..n :
          s[k] = u /\ \A i \in 1..(n - 1) : t[i] = IF i < k THEN s[i] ELSE s[i + 1]
    BY <2>2
  <2> HIDE DEF t, n
  <2>4. ASSUME NEW i \in 1..n, i # k
        PROVE  \E j \in 1..Len(t) : t[j] = s[i]
    <3>1. CASE i < k
      <4>1. i \in 1..(n - 1)
        BY <2>1, <2>3, <3>1
      <4> QED
        BY <2>1, <2>3, <3>1, <4>1
    <3>2. CASE i > k
      <4>1. i - 1 \in 1..(n - 1) /\ ~(i - 1 < k) /\ (i - 1) + 1 = i
        BY <2>1, <2>3, <3>2
      <4>2. t[i - 1] = s[i]
        BY <2>3, <4>1
      <4> QED
        BY <2>1, <4>1, <4>2
    <3> QED
      BY <2>1, <2>3, <2>4, <3>1, <3>2
  <2>5. \A i \in 1..Len(t) : \E j \in 1..n :
          t[i] = s[j] /\ j # k /\ (i < k => j = i) /\ (~(i < k) => j = i + 1)
    <3> SUFFICES ASSUME NEW i \in 1..Len(t)
                 PROVE  \E j \in 1..n : t[i] = s[j] /\ j # k /\ (i < k => j = i)
                                        /\ (~(i < k) => j = i + 1)
      OBVIOUS
    <3>1. i \in 1..(n - 1) /\ i \in 1..n /\ i + 1 \in 1..n
      BY <2>1
    <3>2. i < k => i # k
      BY <2>3, <3>1
    <3>3. ~(i < k) => i + 1 # k
      BY <2>3, <3>1
    <3> QED
      BY <2>3, <3>1, <3>2, <3>3
  <2>6. ASSUME \A i, j \in 1..n : s[i] = s[j] => i = j
        PROVE  /\ \A i, j \in 1..Len(t) : t[i] = t[j] => i = j
               /\ \A i \in 1..Len(t) : t[i] # u
    <3>1. ASSUME NEW i \in 1..Len(t), NEW j \in 1..Len(t), t[i] = t[j] PROVE i = j
      <4>1. PICK x \in 1..n : t[i] = s[x] /\ (i < k => x = i) /\ (~(i < k) => x = i + 1)
        BY <2>5
      <4>2. PICK y \in 1..n : t[j] = s[y] /\ (j < k => y = j) /\ (~(j < k) => y = j + 1)
        BY <2>5
      <4>3. x = y
        BY <2>6, <3>1, <4>1, <4>2
      <4> QED
        BY <2>1, <2>3, <4>1, <4>2, <4>3
    <3>2. ASSUME NEW i \in 1..Len(t) PROVE t[i] # u
      <4>1. PICK x \in 1..n : t[i] = s[x] /\ x # k
        BY <2>5
      <4> QED
        BY <2>3, <2>6, <4>1
    <3> QED
      BY <3>1, <3>2
  <2>7. ASSUME NEW v, v # u, \E i \in 1..n : s[i] = v
        PROVE  \E i \in 1..Len(t) : t[i] = v
    <3>1. PICK i \in 1..n : s[i] = v
      BY <2>7
    <3>2. i # k
      BY <2>3, <2>7, <3>1
    <3> QED
      BY <2>4, <3>1, <3>2
  <2>8. ASSUME NEW v, \E i \in 1..Len(t) : t[i] = v
        PROVE  \E i \in 1..n : s[i] = v
    BY <2>5, <2>8
  <2> QED
    BY <2>1, <2>6, <2>7, <2>8 DEF t, n
<1> QED
  BY <1>1, <1>2

LEMMA JoinsTheOthers ==
  ASSUME NEW s \in Seq(Lobby!Users), NEW u \in Lobby!Users
  PROVE  LET t == Append(s, u)
         IN /\ t \in Seq(Lobby!Users)
            /\ \A v : (\E i \in DOMAIN s : s[i] = v) => \E i \in DOMAIN t : t[i] = v
OBVIOUS

-----------------------------------------------------------------------------
(* Events.                                                                 *)

LEMMA PostKeeps ==
  ASSUME feed \in Seq(LobbyEvents), NEW e \in LobbyEvents, Lobby!Post(e)
  PROVE  feed' \in Seq(LobbyEvents)
BY DEF Lobby!Post

LEMMA EventsPosted ==
  ASSUME NEW u \in Lobby!Users, NEW maker \in LobbyOwners,
         NEW state \in {"ENTERED", "LEFT", "KICKED"}
  PROVE  /\ Lobby!LobbyChatUpdate(u, maker, state) \in LobbyEvents
         /\ Lobby!LobbyDataUpdate("lobby") \in LobbyEvents
         /\ Lobby!LobbyDataUpdate(LobbyMe) \in LobbyEvents
         /\ \A text \in ChatTexts : Lobby!LobbyChatMsg(u, text) \in LobbyEvents
BY DEF Lobby!LobbyChatUpdate, Lobby!LobbyDataUpdate, Lobby!LobbyChatMsg, LobbyEvents

LEMMA TextsTaken ==
  ASSUME Lobby!LobbyAssumption, NEW text \in Texts, text.len \in 1..ChatMax
  PROVE  text \in ChatTexts
BY DEF Lobby!LobbyAssumption, ChatTexts, Lobby!PhpString

LEMMA OutdatedKeeps ==
  ASSUME NEW s \in Seq(LobbyEvents)
  PROVE  Lobby!Outdated(s) \in Seq(LobbyEvents)
<1>1. ASSUME NEW e \in LobbyEvents PROVE [e EXCEPT !.old = TRUE] \in LobbyEvents
  BY <1>1 DEF LobbyEvents
<1> DEFINE t == [i \in DOMAIN s |-> [s[i] EXCEPT !.old = TRUE]]
<1>2. DOMAIN s = 1..Len(s) /\ Len(s) \in Nat /\ \A i \in 1..Len(s) : s[i] \in LobbyEvents
  OBVIOUS
<1>3. t \in [1..Len(s) -> LobbyEvents]
  BY <1>1, <1>2
<1> HIDE DEF t
<1>4. t \in Seq(LobbyEvents)
  BY <1>2, <1>3
<1> QED
  BY <1>4 DEF t, Lobby!Outdated

LEMMA LobbyUntouched ==
  ASSUME LobbyInv,
         UNCHANGED <<Lobby!lobbyVars, entering, feed, claimed, claimedReady>>
  PROVE  LobbyInv'
BY DEF LobbyInv, Lobby!lobbyVars, LobbyClaim, Lobby!Inside, Lobby!In

(* What is left when somebody leaves.                                      *)
LEMMA WithoutKeeps ==
  ASSUME LobbyInv, NEW u, Lobby!Without(u)
  PROVE  /\ members' \in Seq(Lobby!Users) /\ owner' \in LobbyOwners
         /\ u # LobbyMe /\ owner = LobbyMe /\ Lobby!Inside =>
              owner' = LobbyMe /\ Lobby!Inside'
<1>1. members' = Lobby!RemoveFirst(members, u) /\ members \in Seq(Lobby!Users)
      /\ owner \in LobbyOwners
  BY DEF Lobby!Without, LobbyInv
<1>2. members' \in Seq(Lobby!Users)
  BY <1>1, OthersStay
<1>3. u # LobbyMe /\ Lobby!Inside => Lobby!Inside'
  <2> DEFINE t == Lobby!RemoveFirst(members, u)
  <2>0. \A v : v # u /\ (\E i \in 1..Len(members) : members[i] = v)
          => \E i \in 1..Len(t) : t[i] = v
    BY <1>1, OthersStay
  <2>1. u # LobbyMe /\ (\E i \in DOMAIN members : members[i] = LobbyMe)
          => \E i \in DOMAIN members' : members'[i] = LobbyMe
    <3>1. members' = t /\ DOMAIN members = 1..Len(members) /\ DOMAIN members' = 1..Len(members')
      BY <1>1, <1>2
    <3> HIDE DEF t
    <3> QED
      BY <2>0, <3>1
  <2>2. Lobby!Inside <=> \E i \in DOMAIN members : members[i] = LobbyMe
    BY DEF Lobby!Inside, Lobby!In, LobbyMe
  <2>3. Lobby!Inside' <=> \E i \in DOMAIN members' : members'[i] = LobbyMe
    BY DEF Lobby!Inside, Lobby!In, LobbyMe
  <2> QED
    BY <2>1, <2>2, <2>3
<1>4. owner' = IF members' = <<>> THEN Lobby!Nobody
               ELSE IF owner = u THEN members'[1] ELSE owner
  BY DEF Lobby!Without
<1>5. Lobby!Inside' => members' # <<>>
  BY DEF Lobby!Inside, Lobby!In
<1>6. members' # <<>> => members'[1] \in Lobby!Users
  BY <1>2
<1>7. owner' \in LobbyOwners
  BY <1>1, <1>4, <1>6 DEF LobbyOwners
<1> QED
  BY <1>2, <1>3, <1>4, <1>5, <1>7

-----------------------------------------------------------------------------
(* Steam and the other users.                                              *)

LEMMA OtherCreatesKeeps ==
  ASSUME Lobby!LobbyAssumption, LobbyInv, NEW u \in Others, Lobby!OtherCreates(u)
  PROVE  LobbyInv'
<1>1. members = <<>> /\ members' = <<u>> /\ owner' = u
      /\ UNCHANGED <<ready, entering, feed, claimed, claimedReady>>
  BY DEF Lobby!OtherCreates, Lobby!scriptVars
<1>2. claimed = Lobby!NoClaim
  BY <1>1 DEF LobbyInv, LobbyClaim, Lobby!Inside, Lobby!In
<1>3. Lobby!Cardinality(Lobby!Users) \in Nat
  <2>1. IsFiniteSet(Others)
    BY DEF Lobby!LobbyAssumption, Lobby!IsFiniteSet, IsFiniteSet
  <2>2. IsFiniteSet(Lobby!Users)
    BY <2>1, FS_AddElement DEF Lobby!Users
  <2> QED
    BY <2>2, FS_CardinalityType DEF Lobby!Cardinality, Cardinality
<1>4. settings' \in LobbySettings
  BY <1>3 DEF Lobby!OtherCreates, Lobby!NewSettings, LobbySettings, Lobby!Unset,
              Lobby!LobbyAssumption
<1>5. members' \in Seq(Lobby!Users) /\ owner' \in LobbyOwners
  BY <1>1 DEF Lobby!Users, LobbyOwners
<1> QED
  BY <1>1, <1>2, <1>4, <1>5 DEF LobbyInv, LobbyClaim

LEMMA OtherEntersKeeps ==
  ASSUME Lobby!LobbyAssumption, LobbyInv, NEW u \in Others, Lobby!OtherEnters(u)
  PROVE  LobbyInv'
<1>1. u \in Lobby!Users /\ u \in LobbyOwners
  BY DEF Lobby!Users, LobbyOwners
<1>2. feed' \in Seq(LobbyEvents)
  BY <1>1, PostKeeps, EventsPosted DEF Lobby!OtherEnters, LobbyInv
<1>3. members' = Append(members, u) /\ members \in Seq(Lobby!Users)
  BY DEF Lobby!OtherEnters, LobbyInv
<1>4. members' \in Seq(Lobby!Users) /\ (Lobby!Inside => Lobby!Inside')
  BY <1>1, <1>3, JoinsTheOthers DEF Lobby!Inside, Lobby!In
<1> QED
  BY <1>2, <1>4 DEF Lobby!OtherEnters, LobbyInv, LobbyClaim

LEMMA OtherLeavesKeeps ==
  ASSUME Lobby!LobbyAssumption, LobbyInv, NEW u \in Others, NEW maker \in LobbyOwners,
         NEW state \in {"LEFT", "KICKED"}, Lobby!OtherLeaves(u, maker, state)
  PROVE  LobbyInv'
<1>1. u \in Lobby!Users /\ u # LobbyMe
  BY DEF Lobby!Users, Lobby!LobbyAssumption, LobbyMe, Lobby!Me
<1>2. feed' \in Seq(LobbyEvents)
  BY <1>1, PostKeeps, EventsPosted DEF Lobby!OtherLeaves, LobbyInv
<1>3. /\ members' \in Seq(Lobby!Users) /\ owner' \in LobbyOwners
      /\ owner = LobbyMe /\ Lobby!Inside => owner' = LobbyMe /\ Lobby!Inside'
  BY <1>1, WithoutKeeps DEF Lobby!OtherLeaves
<1> QED
  BY <1>2, <1>3 DEF Lobby!OtherLeaves, LobbyInv, LobbyClaim

LEMMA OtherSetsDataKeeps ==
  ASSUME Lobby!LobbyAssumption, LobbyInv, NEW value \in Values, Lobby!OtherSetsData(value.c)
  PROVE  LobbyInv'
<1>1. owner # LobbyMe
  BY DEF Lobby!OtherSetsData, Lobby!LobbyAssumption, LobbyMe, Lobby!Me
<1>2. claimed = Lobby!NoClaim
  BY <1>1 DEF LobbyInv, LobbyClaim
<1>3. feed' \in Seq(LobbyEvents)
  <2>1. LobbyMe \in Lobby!Users /\ LobbyMe \in LobbyOwners
    BY DEF LobbyMe, Lobby!Users, LobbyOwners
  <2> QED
    BY <2>1, PostKeeps, EventsPosted DEF Lobby!OtherSetsData, LobbyInv
<1>4. settings' \in LobbySettings
  <2>1. value.c \in Nat
    BY DEF Lobby!LobbyAssumption, Lobby!PhpString
  <2> QED
    BY <2>1 DEF Lobby!OtherSetsData, LobbyInv, LobbySettings
<1> QED
  BY <1>2, <1>3, <1>4 DEF Lobby!OtherSetsData, LobbyInv, LobbyClaim, Lobby!scriptVars

LEMMA OtherSaysKeeps ==
  ASSUME Lobby!LobbyAssumption, LobbyInv, NEW u \in Others, NEW text \in Texts,
         Lobby!OtherSays(u, text)
  PROVE  LobbyInv'
<1>1. u \in Lobby!Users /\ u \in LobbyOwners /\ text \in ChatTexts
  BY TextsTaken DEF Lobby!Users, LobbyOwners, Lobby!OtherSays
<1>2. feed' \in Seq(LobbyEvents)
  BY <1>1, PostKeeps, EventsPosted DEF Lobby!OtherSays, LobbyInv
<1> QED
  BY <1>2 DEF Lobby!OtherSays, LobbyInv, LobbyClaim, Lobby!lobbyVars, Lobby!scriptVars,
              Lobby!Inside, Lobby!In

LEMMA SteamCreatesKeeps ==
  ASSUME Lobby!LobbyAssumption, LobbyInv, Lobby!SteamCreates
  PROVE  LobbyInv'
<1>1. entering \in Creating
  BY DEF Lobby!SteamCreates, LobbyInv, LobbyCalls, Creating
<1>2. /\ members' = <<LobbyMe>> /\ owner' = LobbyMe
      /\ settings' = Lobby!NewSettings(entering.type, entering.room)
      /\ claimed' = Lobby!NewSettings(entering.type, entering.asked)
      /\ ready' = 0 /\ claimedReady' = 0
      /\ entering' = [fn |-> "entered"] /\ UNCHANGED feed
  BY DEF Lobby!SteamCreates, LobbyMe, Lobby!Unset
<1>3. members' \in Seq(Lobby!Users) /\ Lobby!Inside' /\ owner' \in LobbyOwners
  BY <1>2 DEF Lobby!Inside, Lobby!In, Lobby!Users, LobbyMe, LobbyOwners
<1>4. /\ settings' \in LobbySettings /\ claimed' \in LobbySettings
      /\ settings'.data = claimed'.data /\ settings'.joinable = claimed'.joinable
      /\ settings'.type = claimed'.type
      /\ claimed'.room >= 1 /\ settings'.room = Lobby!ToInt(claimed'.room)
  BY <1>1, <1>2 DEF Creating, Lobby!NewSettings, LobbySettings, Lobby!Unset
<1>5. entering' \in LobbyCalls
  BY <1>2 DEF LobbyCalls
<1> QED
  BY <1>2, <1>3, <1>4, <1>5 DEF LobbyInv, LobbyClaim

LEMMA SteamAdmitsKeeps ==
  ASSUME Lobby!LobbyAssumption, LobbyInv, Lobby!SteamAdmits
  PROVE  LobbyInv'
<1>1. /\ members' = Append(members, LobbyMe) /\ ~Lobby!Inside
      /\ ready' = 0 /\ claimedReady' = 0 /\ entering' = [fn |-> "entered"]
      /\ UNCHANGED <<owner, settings, feed, claimed>>
  BY DEF Lobby!SteamAdmits, LobbyMe, Lobby!Unset
<1>2. claimed = Lobby!NoClaim
  BY <1>1 DEF LobbyInv, LobbyClaim
<1>3. members' \in Seq(Lobby!Users)
  BY <1>1 DEF LobbyInv, Lobby!Users, LobbyMe
<1>4. entering' \in LobbyCalls
  BY <1>1 DEF LobbyCalls
<1> QED
  BY <1>1, <1>2, <1>3, <1>4 DEF LobbyInv, LobbyClaim

LEMMA SteamRefusesKeeps ==
  ASSUME LobbyInv, Lobby!SteamRefuses
  PROVE  LobbyInv'
<1>1. entering' \in LobbyCalls
  BY DEF Lobby!SteamRefuses, Lobby!NoCall, LobbyCalls
<1> QED
  BY <1>1 DEF Lobby!SteamRefuses, LobbyInv, LobbyClaim, Lobby!lobbyVars, Lobby!Inside, Lobby!In

-----------------------------------------------------------------------------
(* Entering and leaving.                                                   *)

LEMMA CreateAsked ==
  ASSUME Lobby!LobbyAssumption, LobbyInv, NEW type \in Types, NEW room \in Rooms,
         Lobby!steam_matchmaking_create_lobby(type, room)
  PROVE  LobbyInv'
<1>1. /\ room \in Int /\ type \in Int /\ room >= 1
      /\ UNCHANGED <<Lobby!lobbyVars, feed, claimed, claimedReady>>
  BY DEF Lobby!steam_matchmaking_create_lobby, Lobby!RoomRefused, Lobby!LobbyAssumption
<1>2. [fn |-> "create", type |-> type, room |-> Lobby!ToInt(room), asked |-> room] \in Creating
  BY <1>1, RoomsFit DEF Creating
<1>3. entering' \in LobbyCalls
  BY <1>2 DEF Lobby!steam_matchmaking_create_lobby, LobbyInv, LobbyCalls
<1> QED
  BY <1>1, <1>3 DEF LobbyInv, LobbyClaim, Lobby!lobbyVars, Lobby!Inside, Lobby!In

LEMMA JoinAsked ==
  ASSUME LobbyInv,
         \/ Lobby!steam_matchmaking_join_lobby
         \/ Lobby!steam_matchmaking_get_num_lobby_members
  PROVE  LobbyInv'
<1>1. entering' \in LobbyCalls
  BY DEF Lobby!steam_matchmaking_join_lobby, Lobby!steam_matchmaking_get_num_lobby_members,
         LobbyInv, LobbyCalls, Lobby!NoCall
<1>2. UNCHANGED <<members, owner, settings, ready, feed, claimed, claimedReady>>
  BY DEF Lobby!steam_matchmaking_join_lobby, Lobby!steam_matchmaking_get_num_lobby_members,
         Lobby!lobbyVars
<1> QED
  BY <1>1, <1>2 DEF LobbyInv, LobbyClaim, Lobby!Inside, Lobby!In

LEMMA LeaveKeeps ==
  ASSUME LobbyInv, Lobby!steam_matchmaking_leave_lobby
  PROVE  LobbyInv'
<1> USE DEF Lobby!steam_matchmaking_leave_lobby
<1>1. CASE Lobby!Found(Lobby!Matchmaking)
  <2>1. Lobby!MeGone /\ UNCHANGED <<settings, entering>>
    BY <1>1
  <2>2. claimed' = Lobby!NoClaim /\ ready' = 0 /\ claimedReady' = 0
    BY <2>1 DEF Lobby!MeGone, Lobby!Unset
  <2>3. \/ Lobby!Without(LobbyMe) /\ feed' = Lobby!Outdated(feed)
        \/ UNCHANGED <<members, owner, feed>>
    BY <2>1 DEF Lobby!MeGone, LobbyMe
  <2>4. members' \in Seq(Lobby!Users) /\ owner' \in LobbyOwners
    BY <2>3, WithoutKeeps DEF LobbyInv
  <2>5. feed' \in Seq(LobbyEvents)
    BY <2>3, OutdatedKeeps DEF LobbyInv
  <2> QED
    BY <2>1, <2>2, <2>4, <2>5 DEF LobbyInv, LobbyClaim
<1>2. CASE ~Lobby!Found(Lobby!Matchmaking)
  BY <1>2, LobbyUntouched DEF Lobby!lobbyVars
<1> QED
  BY <1>1, <1>2

LEMMA LobbyShutdown ==
  ASSUME LobbyInv, Lobby!steam_shutdown
  PROVE  LobbyInv'
<1> USE DEF Lobby!steam_shutdown
<1>1. /\ claimed' = Lobby!NoClaim /\ ready' = 0 /\ claimedReady' = 0
      /\ entering' = Lobby!NoCall /\ UNCHANGED settings
  BY DEF Lobby!Unset
<1>2. Lobby!Without(LobbyMe) \/ UNCHANGED <<members, owner>>
  BY DEF LobbyMe
<1>3. members' \in Seq(Lobby!Users) /\ owner' \in LobbyOwners
  BY <1>2, WithoutKeeps DEF LobbyInv
<1>4. PICK n \in 0..Len(feed) : feed' = Lobby!Outdated(SubSeq(feed, 1, n))
  OBVIOUS
<1>5. feed' \in Seq(LobbyEvents)
  <2>1. n \in Int /\ \A i \in 1..n : feed[i] \in LobbyEvents
    BY <1>4 DEF LobbyInv
  <2>2. SubSeq(feed, 1, n) \in Seq(LobbyEvents)
    BY <2>1, SubSeqProperties
  <2> QED
    BY <1>4, <2>2, OutdatedKeeps
<1>6. entering' \in LobbyCalls
  BY <1>1 DEF Lobby!NoCall, LobbyCalls
<1> QED
  BY <1>1, <1>3, <1>5, <1>6 DEF LobbyInv, LobbyClaim

-----------------------------------------------------------------------------
(* Settings, data and chat.                                                *)

LEMMA SetDataKeeps ==
  ASSUME Lobby!LobbyAssumption, LobbyInv, NEW key \in Keys, NEW value \in Values,
         Lobby!steam_matchmaking_set_lobby_data(key, value)
  PROVE  LobbyInv'
<1> USE DEF Lobby!steam_matchmaking_set_lobby_data
<1>1. CASE Lobby!Owned
  <2> DEFINE stored == Lobby!Held(key, value, settings.data)
  <2>1. settings \in LobbySettings /\ claimed \in LobbySettings \cup {Lobby!NoClaim}
    BY DEF LobbyInv
  <2>2. stored \in Nat /\ Lobby!Told(key, value, settings.data) = stored
    BY <2>1, HeldAsTold DEF LobbySettings
  <2>3. /\ settings' = [settings EXCEPT !.data = stored]
        /\ claimed' = IF claimed = Lobby!NoClaim THEN claimed
                      ELSE [claimed EXCEPT !.data = stored]
    BY <1>1, <2>2
  <2> HIDE DEF stored
  <2>4. /\ settings' \in LobbySettings /\ settings'.data = stored
        /\ settings'.type = settings.type /\ settings'.room = settings.room
        /\ settings'.joinable = settings.joinable
    BY <2>1, <2>2, <2>3 DEF LobbySettings
  <2>5. \/ claimed = Lobby!NoClaim /\ claimed' = claimed
        \/ /\ claimed # Lobby!NoClaim
           /\ claimed' \in LobbySettings /\ claimed'.data = stored
           /\ claimed'.type = claimed.type /\ claimed'.room = claimed.room
           /\ claimed'.joinable = claimed.joinable
    BY <2>1, <2>2, <2>3 DEF LobbySettings
  <2>6. feed' \in Seq(LobbyEvents)
    <3>1. LobbyMe \in Lobby!Users /\ LobbyMe \in LobbyOwners
      BY DEF LobbyMe, Lobby!Users, LobbyOwners
    <3> QED
      BY <1>1, <3>1, PostKeeps, EventsPosted DEF LobbyInv
  <2>7. UNCHANGED <<members, owner, ready, entering, claimedReady>>
    BY DEF Lobby!scriptVars
  <2> QED
    BY <2>4, <2>5, <2>6, <2>7 DEF LobbyInv, LobbyClaim, Lobby!Inside, Lobby!In
<1>2. CASE ~Lobby!Owned
  BY <1>2, LobbyUntouched DEF Lobby!lobbyVars, Lobby!scriptVars
<1> QED
  BY <1>1, <1>2

LEMMA SetMemberDataKeeps ==
  ASSUME Lobby!LobbyAssumption, LobbyInv, NEW key \in Keys, NEW value \in Values,
         Lobby!steam_matchmaking_set_lobby_member_data(key, value)
  PROVE  LobbyInv'
<1> USE DEF Lobby!steam_matchmaking_set_lobby_member_data
<1>1. Lobby!Held(key, value, ready) \in Nat
      /\ Lobby!Told(key, value, ready) = Lobby!Held(key, value, ready)
  BY HeldAsTold DEF LobbyInv
<1>2. ready' \in Nat /\ claimedReady' = ready'
  BY <1>1 DEF LobbyInv
<1>3. feed' \in Seq(LobbyEvents)
  <2>1. LobbyMe \in Lobby!Users /\ LobbyMe \in LobbyOwners
    BY DEF LobbyMe, Lobby!Users, LobbyOwners
  <2>2. Lobby!LobbyDataUpdate(LobbyMe) \in LobbyEvents
    BY <2>1, EventsPosted
  <2> QED
    BY <2>2, PostKeeps DEF LobbyInv, LobbyMe
<1> QED
  BY <1>2, <1>3 DEF LobbyInv, LobbyClaim, Lobby!Inside, Lobby!In, Lobby!scriptVars

LEMMA SetJoinableKeeps ==
  ASSUME LobbyInv, NEW joinable \in BOOLEAN, Lobby!steam_matchmaking_set_lobby_joinable(joinable)
  PROVE  LobbyInv'
<1>1. settings \in LobbySettings /\ claimed \in LobbySettings \cup {Lobby!NoClaim}
  BY DEF LobbyInv
<1>2. /\ settings' = IF Lobby!Owned THEN [settings EXCEPT !.joinable = joinable] ELSE settings
      /\ claimed' = IF Lobby!Owned /\ claimed # Lobby!NoClaim
                      THEN [claimed EXCEPT !.joinable = joinable] ELSE claimed
      /\ UNCHANGED <<members, owner, ready, entering, feed, claimedReady>>
  BY DEF Lobby!steam_matchmaking_set_lobby_joinable, Lobby!Set, Lobby!scriptVars
<1>3. CASE Lobby!Owned
  <2>1. /\ settings' \in LobbySettings /\ settings'.joinable = joinable
        /\ settings'.type = settings.type /\ settings'.room = settings.room
        /\ settings'.data = settings.data
    BY <1>1, <1>2, <1>3 DEF LobbySettings
  <2>2. \/ claimed = Lobby!NoClaim /\ claimed' = claimed
        \/ /\ claimed # Lobby!NoClaim
           /\ claimed' \in LobbySettings /\ claimed'.joinable = joinable
           /\ claimed'.type = claimed.type /\ claimed'.room = claimed.room
           /\ claimed'.data = claimed.data
    BY <1>1, <1>2, <1>3 DEF LobbySettings
  <2> QED
    BY <1>2, <2>1, <2>2 DEF LobbyInv, LobbyClaim, Lobby!Inside, Lobby!In
<1>4. CASE ~Lobby!Owned
  BY <1>2, <1>4, LobbyUntouched DEF Lobby!lobbyVars
<1> QED
  BY <1>3, <1>4

LEMMA SetTypeKeeps ==
  ASSUME Lobby!LobbyAssumption, LobbyInv, NEW type \in Types,
         Lobby!steam_matchmaking_set_lobby_type(type)
  PROVE  LobbyInv'
<1> DEFINE t == Lobby!ToInt(type)
<1>1. settings \in LobbySettings /\ claimed \in LobbySettings \cup {Lobby!NoClaim} /\ t \in Int
  BY RoomsFit DEF LobbyInv, Lobby!LobbyAssumption
<1>2. /\ settings' = IF Lobby!Owned THEN [settings EXCEPT !.type = t] ELSE settings
      /\ claimed' = IF Lobby!Owned /\ claimed # Lobby!NoClaim
                      THEN [claimed EXCEPT !.type = t] ELSE claimed
      /\ UNCHANGED <<members, owner, ready, entering, feed, claimedReady>>
  BY DEF Lobby!steam_matchmaking_set_lobby_type, Lobby!Set, Lobby!scriptVars
<1> HIDE DEF t
<1>3. CASE Lobby!Owned
  <2>1. /\ settings' \in LobbySettings /\ settings'.type = t
        /\ settings'.joinable = settings.joinable /\ settings'.room = settings.room
        /\ settings'.data = settings.data
    BY <1>1, <1>2, <1>3 DEF LobbySettings
  <2>2. \/ claimed = Lobby!NoClaim /\ claimed' = claimed
        \/ /\ claimed # Lobby!NoClaim
           /\ claimed' \in LobbySettings /\ claimed'.type = t
           /\ claimed'.joinable = claimed.joinable /\ claimed'.room = claimed.room
           /\ claimed'.data = claimed.data
    BY <1>1, <1>2, <1>3 DEF LobbySettings
  <2> QED
    BY <1>2, <2>1, <2>2 DEF LobbyInv, LobbyClaim, Lobby!Inside, Lobby!In
<1>4. CASE ~Lobby!Owned
  BY <1>2, <1>4, LobbyUntouched DEF Lobby!lobbyVars
<1> QED
  BY <1>3, <1>4

LEMMA SetOwnerKeeps ==
  ASSUME LobbyInv, NEW u \in Lobby!Users, Lobby!steam_matchmaking_set_lobby_owner(u)
  PROVE  LobbyInv'
<1>1. \/ UNCHANGED <<owner, claimed>>
      \/ owner' = u /\ claimed' = IF u = LobbyMe THEN claimed ELSE Lobby!NoClaim
  BY DEF Lobby!steam_matchmaking_set_lobby_owner, LobbyMe
<1>2. UNCHANGED <<members, settings, ready, entering, feed, claimedReady>>
  BY DEF Lobby!steam_matchmaking_set_lobby_owner, Lobby!scriptVars
<1> QED
  BY <1>1, <1>2 DEF LobbyInv, LobbyClaim, LobbyOwners, Lobby!Inside, Lobby!In

LEMMA SendKeeps ==
  ASSUME Lobby!LobbyAssumption, LobbyInv, NEW text \in Texts,
         Lobby!steam_matchmaking_send_lobby_chat_msg(text)
  PROVE  LobbyInv'
<1>1. LobbyMe \in Lobby!Users /\ LobbyMe \in LobbyOwners /\ text \in ChatTexts
  BY TextsTaken DEF LobbyMe, Lobby!Users, LobbyOwners, Lobby!steam_matchmaking_send_lobby_chat_msg
<1>2. Lobby!LobbyChatMsg(LobbyMe, text) \in LobbyEvents
  BY <1>1, EventsPosted
<1>3. feed' \in Seq(LobbyEvents)
  BY <1>2, PostKeeps DEF Lobby!steam_matchmaking_send_lobby_chat_msg, LobbyInv, LobbyMe
<1>4. UNCHANGED <<members, owner, settings, ready, entering, claimed, claimedReady>>
  BY DEF Lobby!steam_matchmaking_send_lobby_chat_msg, Lobby!lobbyVars, Lobby!scriptVars
<1> QED
  BY <1>3, <1>4 DEF LobbyInv, LobbyClaim, Lobby!Inside, Lobby!In

(* What changes nothing the invariant is about, or only empties the feed.  *)
LEMMA LobbyReads ==
  ASSUME LobbyInv,
         \/ \E client \in Clients : Lobby!steam_init(client)
         \/ Lobby!steam_matchmaking_get_lobby_member_by_index
         \/ Lobby!steam_matchmaking_invite_user_to_lobby
         \/ Lobby!steam_friends_activate_overlay_invite_dialog
         \/ Lobby!steam_matchmaking_get_events
  PROVE  LobbyInv'
<1>1. /\ UNCHANGED <<members, owner, settings, ready, entering, claimed, claimedReady>>
      /\ feed' \in {feed, <<>>}
  BY DEF Lobby!steam_init, Lobby!steam_matchmaking_get_lobby_member_by_index,
         Lobby!steam_matchmaking_invite_user_to_lobby,
         Lobby!steam_friends_activate_overlay_invite_dialog,
         Lobby!steam_matchmaking_get_events, Lobby!lobbyVars, Lobby!scriptVars
<1>2. feed' \in Seq(LobbyEvents)
  <2>1. feed \in Seq(LobbyEvents) /\ <<>> \in Seq(LobbyEvents)
    BY EmptySeq DEF LobbyInv
  <2> QED
    BY <1>1, <2>1
<1> QED
  BY <1>1, <1>2 DEF LobbyInv, LobbyClaim, Lobby!Inside, Lobby!In

LEMMA LobbyNext ==
  ASSUME Lobby!LobbyAssumption, LobbyInv, Lobby!Next
  PROVE  LobbyInv'
<1>1. ASSUME Lobby!OthersAct PROVE LobbyInv'
  <2>1. Others \subseteq LobbyOwners /\ owner \in LobbyOwners
    BY DEF LobbyOwners, Lobby!Users, LobbyInv
  <2> QED
    BY <1>1, <2>1, OtherCreatesKeeps, OtherEntersKeeps, OtherLeavesKeeps, OtherSetsDataKeeps,
       OtherSaysKeeps DEF Lobby!OthersAct
<1>2. ASSUME Lobby!SteamAnswers PROVE LobbyInv'
  BY <1>2, SteamCreatesKeeps, SteamAdmitsKeeps, SteamRefusesKeeps DEF Lobby!SteamAnswers
<1> QED
  BY <1>1, <1>2, LobbyShutdown, CreateAsked, JoinAsked, LeaveKeeps, SetDataKeeps,
     SetMemberDataKeeps, SetJoinableKeeps, SetTypeKeeps, SetOwnerKeeps, SendKeeps, LobbyReads
     DEF Lobby!Next

LEMMA LobbyInitially ==
  ASSUME Lobby!LobbyInit
  PROVE  LobbyInv
<1>1. settings \in LobbySettings /\ ready = 0 /\ claimedReady = 0
  BY DEF Lobby!LobbyInit, LobbySettings, Lobby!Unset
<1> QED
  BY <1>1 DEF Lobby!LobbyInit, LobbyInv, LobbyClaim, LobbyOwners, Lobby!NoCall, LobbyCalls

LEMMA ToldIsDone ==
  ASSUME Lobby!LobbyAssumption, LobbyInv
  PROVE  Lobby!WritesHold /\ Lobby!RoomAsAsked /\ Lobby!ChatByteExact
<1>1. Lobby!WritesHold
  BY DEF LobbyInv, LobbyClaim, Lobby!WritesHold
<1>2. Lobby!RoomAsAsked
  <2>1. claimed # Lobby!NoClaim => claimed.room \in Int
    BY DEF LobbyInv, LobbySettings
  <2>2. claimed # Lobby!NoClaim /\ claimed.room <= IntMax =>
          Lobby!ToInt(claimed.room) = claimed.room
    BY <2>1, RoomsFit DEF LobbyInv, LobbyClaim, Lobby!LobbyAssumption
  <2> QED
    BY <2>2 DEF LobbyInv, LobbyClaim, Lobby!RoomAsAsked
<1>3. Lobby!ChatByteExact
  <2> SUFFICES ASSUME NEW i \in DOMAIN feed, feed[i].kind = "chat_message"
               PROVE  Lobby!ChatText(feed[i]) = feed[i].sent
    BY DEF Lobby!ChatByteExact
  <2>1. feed[i] \in LobbyEvents
    BY DEF LobbyInv
  <2>2. feed[i].sent \in ChatTexts
    BY <2>1 DEF LobbyEvents
  <2> DEFINE s == feed[i].sent
  <2>3. /\ s.len \in Nat /\ s.c \in Nat /\ s.c <= s.len /\ s.len <= ChatMax
        /\ s = [len |-> s.len, c |-> s.c]
    BY <2>2 DEF ChatTexts, Lobby!PhpString
  <2>4. ChatMax \in Nat
    BY DEF Lobby!LobbyAssumption
  <2>5. (IF s.len < ChatMax THEN s.len ELSE ChatMax) = s.len
        /\ (IF s.c < ChatMax THEN s.c ELSE ChatMax) = s.c
    BY <2>3, <2>4
  <2> QED
    BY <2>3, <2>5 DEF Lobby!ChatText, Lobby!Cut
<1> QED
  BY <1>1, <1>2, <1>3

(* What a script is told is done in its lobby is done, whoever comes and   *)
(* goes and whatever it passes: settings and data are as it was told, the  *)
(* room is what it asked for, and messages arrive byte for byte.           *)
THEOREM LobbiesAreAsTold == Spec => []LobbyAsTold
<1> USE ServicesAssumption DEF ServicesAssumption
<1>1. Init => LobbyInv
  BY LobbyInitially DEF Init
<1>2. LobbyInv /\ [Next]_vars => LobbyInv'
  <2> SUFFICES ASSUME LobbyInv, [Next]_vars PROVE LobbyInv'
    OBVIOUS
  <2>1. CASE LobbyStep
    BY <2>1, LobbyNext DEF LobbyStep
  <2>2. CASE ~LobbyStep
    <3>1. UNCHANGED lobbyVars
      BY <2>2 DEF Next, StatsStep, BoardStep, SocialStep, TimelineStep, AuthStep, MockStep, vars
    <3> QED
      BY <3>1, LobbyUntouched DEF lobbyVars, Lobby!lobbyVars
  <2> QED
    BY <2>1, <2>2
<1>3. LobbyInv => LobbyAsTold
  BY ToldIsDone DEF LobbyAsTold
<1> QED
  BY <1>1, <1>2, <1>3, PTL DEF Spec

-----------------------------------------------------------------------------
(* Lobbies: the picture of a script that follows the events.               *)

(* What Steam casts a room to, and the room of a lobby somebody else made. *)
CastRooms == (-IntMax - 1)..IntMax
LobbyRooms == CastRooms \cup {Lobby!Cardinality(Lobby!Users)}

(* What a script keeps: its picture, and its loop over the members.        *)
Views == [sound : BOOLEAN, members : SUBSET Lobby!Users, data : Nat]
Loops == [num : Nat, next : Nat, got : SUBSET Lobby!Users, quiet : BOOLEAN]

(* Members are different, the owner is one of them.                        *)
MembersInv ==
  /\ \A i, j \in 1..Len(members) : members[i] = members[j] => i = j
  /\ IF members = <<>> THEN owner = Lobby!Nobody
     ELSE \E i \in 1..Len(members) : members[i] = owner

(* What LobbyTypeOK says beyond that and LobbyInv, with the shapes of what *)
(* the script keeps.                                                       *)
MirrorTypes ==
  /\ settings.room \in LobbyRooms
  /\ entering.fn = "create" => entering.room \in CastRooms
  /\ settings.data < ValueMax /\ ready <= ValueMax
  /\ Len(feed) <= MaxFeed
  /\ view \in {Lobby!NoView} \cup Views
  /\ listing \in {Lobby!NoListing} \cup Loops

(* How far the script is with a stay in the lobby.  Steam tells nobody     *)
(* about itself, and outside the lobby nothing.                            *)
StayInv ==
  /\ entering.fn # "none" \/ Lobby!Inside => Lobby!Found(Lobby!Matchmaking)
  /\ entering.fn # "none" => view = Lobby!NoView /\ listing = Lobby!NoListing
  /\ listing # Lobby!NoListing => view = Lobby!NoView
  /\ Lobby!About(feed, LobbyMe) = {}
  /\ ~Lobby!Inside => \A i \in 1..Len(feed) : feed[i].old

(* As long as nothing changes, the loop has the first so many members.     *)
CountInv ==
  listing # Lobby!NoListing /\ Lobby!Inside =>
    /\ listing.next <= listing.num
    /\ listing.quiet => /\ listing.num = Len(members)
                        /\ listing.got = {members[i] : i \in 1..listing.next}

(* Of the events of this stay, the last about a user says whether it is in.*)
FeedTells ==
  Lobby!Inside /\ Lobby!OfThisStay(feed) =>
    \A u \in Lobby!Users : \A i \in Lobby!LastAbout(feed, u) :
      feed[i].m_rgfChatMemberStateChange = "ENTERED" <=> Lobby!In(u)

(* What is not as the picture has it, an event in the queue is about.      *)
MembersFollow ==
  view # Lobby!NoView /\ Lobby!Inside /\ view.sound /\ Lobby!OfThisStay(feed) =>
    \A u \in Lobby!Users :
      Lobby!About(feed, u) = {} => (u \in view.members <=> Lobby!In(u))
DataFollows ==
  view # Lobby!NoView /\ Lobby!Inside =>
    \/ view.data = settings.data
    \/ \E i \in 1..Len(feed) : feed[i].kind = "data_update"

Follows == StayInv /\ CountInv /\ FeedTells /\ MembersFollow /\ DataFollows
MirrorInv == IfaceTypeOK /\ LobbyInv /\ MembersInv /\ MirrorTypes /\ Follows

-----------------------------------------------------------------------------
(* What the queue says after one more event.                               *)

LEMMA EventShapes ==
  ASSUME NEW e \in LobbyEvents
  PROVE  /\ e.old \in BOOLEAN
         /\ Lobby!ChatUpdateEntry(e).user = e.m_ulSteamIDUserChanged
         /\ Lobby!ChatUpdateEntry(e).state = e.m_rgfChatMemberStateChange
BY DEF LobbyEvents, Lobby!ChatUpdateEntry

(* An event that is not about the coming and going of a user.              *)
LEMMA OtherwisePosted ==
  ASSUME NEW s \in Seq(LobbyEvents), NEW e \in LobbyEvents, e.kind # "chat_update"
  PROVE  LET t == Append(s, e)
         IN /\ Len(t) = Len(s) + 1 /\ \A i \in 1..Len(s) : t[i] = s[i]
            /\ t[Len(s) + 1] = e
            /\ \A u : Lobby!About(t, u) = Lobby!About(s, u)
            /\ \A u : Lobby!LastAbout(t, u) = Lobby!LastAbout(s, u)
            /\ Lobby!OfThisStay(t) <=> Lobby!OfThisStay(s)
<1> DEFINE t == Append(s, e)
           n == Len(s)
<1>1. /\ n \in Nat /\ DOMAIN s = 1..n /\ Len(t) = n + 1 /\ DOMAIN t = 1..(n + 1)
      /\ t[n + 1] = e /\ \A i \in 1..n : t[i] = s[i]
  OBVIOUS
<1> HIDE DEF t, n
<1>2. ASSUME NEW u PROVE Lobby!About(t, u) = Lobby!About(s, u)
  BY <1>1 DEF Lobby!About
<1>3. ASSUME NEW u PROVE Lobby!LastAbout(t, u) = Lobby!LastAbout(s, u)
  BY <1>2 DEF Lobby!LastAbout
<1>4. Lobby!OfThisStay(t) <=> Lobby!OfThisStay(s)
  BY <1>1 DEF Lobby!OfThisStay
<1> QED
  BY <1>1, <1>2, <1>3, <1>4 DEF t, n

(* An event about the coming or going of a user.                           *)
LEMMA ChangePosted ==
  ASSUME NEW s \in Seq(LobbyEvents), NEW e \in LobbyEvents,
         e.kind = "chat_update", ~e.old
  PROVE  LET t == Append(s, e)
             u0 == e.m_ulSteamIDUserChanged
         IN /\ Len(t) = Len(s) + 1 /\ \A i \in 1..Len(s) : t[i] = s[i]
            /\ t[Len(s) + 1] = e
            /\ \A u : u # u0 => /\ Lobby!About(t, u) = Lobby!About(s, u)
                                /\ Lobby!LastAbout(t, u) = Lobby!LastAbout(s, u)
            /\ Lobby!About(t, u0) # {} /\ Lobby!LastAbout(t, u0) = {Len(s) + 1}
            /\ Lobby!OfThisStay(t) <=> Lobby!OfThisStay(s)
<1> DEFINE t == Append(s, e)
           n == Len(s)
           u0 == e.m_ulSteamIDUserChanged
<1>1. /\ n \in Nat /\ DOMAIN s = 1..n /\ Len(t) = n + 1 /\ DOMAIN t = 1..(n + 1)
      /\ t[n + 1] = e /\ \A i \in 1..n : t[i] = s[i]
  OBVIOUS
<1>2. Lobby!ChatUpdateEntry(e).user = u0
  BY EventShapes
<1> HIDE DEF t, n, u0
<1>3. ASSUME NEW u, u # u0
      PROVE  Lobby!About(t, u) = Lobby!About(s, u)
             /\ Lobby!LastAbout(t, u) = Lobby!LastAbout(s, u)
  <2>1. Lobby!About(t, u) = Lobby!About(s, u)
    BY <1>1, <1>2, <1>3 DEF Lobby!About
  <2> QED
    BY <2>1 DEF Lobby!LastAbout
<1>4. Lobby!About(t, u0) \subseteq 1..(n + 1) /\ n + 1 \in Lobby!About(t, u0)
  BY <1>1, <1>2 DEF Lobby!About
<1>5. Lobby!LastAbout(t, u0) = {n + 1}
  <2>1. ASSUME NEW i \in Lobby!LastAbout(t, u0) PROVE i = n + 1
    <3>1. i \in 1..(n + 1) /\ n + 1 <= i
      BY <1>4 DEF Lobby!LastAbout
    <3> QED
      BY <1>1, <3>1
  <2>2. n + 1 \in Lobby!LastAbout(t, u0)
    <3>1. \A j \in Lobby!About(t, u0) : j <= n + 1
      BY <1>1, <1>4
    <3> QED
      BY <1>4, <3>1 DEF Lobby!LastAbout
  <2> QED
    BY <2>1, <2>2
<1>6. Lobby!OfThisStay(t) <=> Lobby!OfThisStay(s)
  BY <1>1 DEF Lobby!OfThisStay
<1> QED
  BY <1>1, <1>3, <1>4, <1>5, <1>6 DEF t, n, u0

(* Where there is an event about a user, there is a last one.              *)
LEMMA LastExists ==
  ASSUME NEW s \in Seq(LobbyEvents), NEW u, Lobby!About(s, u) # {}
  PROVE  \E i \in Lobby!LastAbout(s, u) : TRUE
<1> DEFINE n == Len(s)
           A == Lobby!About(s, u)
           R == {n - i : i \in A}
<1>1. n \in Nat /\ A \subseteq 1..n
  BY DEF Lobby!About
<1>2. A # {}
  OBVIOUS
<1> HIDE DEF A, n
<1>3. R \in SUBSET Nat /\ R # {}
  <2>1. \A i \in A : n - i \in Nat
    BY <1>1
  <2> QED
    BY <1>2, <2>1
<1> HIDE DEF R
<1>4. \E x \in R : \A y \in R : x <= y
  BY <1>3, LeastOf
<1>5. PICK x \in R : \A y \in R : x <= y
  BY <1>4
<1>6. PICK i \in A : x = n - i
  BY DEF R
<1>7. ASSUME NEW j \in A PROVE j <= i
  <2>1. n - j \in R
    BY DEF R
  <2> QED
    BY <1>1, <1>5, <1>6, <2>1
<1> QED
  BY <1>6, <1>7 DEF A, Lobby!LastAbout

(* Old events are about no one of this stay.                               *)
LEMMA OldTellNothing ==
  ASSUME NEW s \in Seq(LobbyEvents), \A i \in 1..Len(s) : s[i].old, Lobby!OfThisStay(s)
  PROVE  \A u : Lobby!About(s, u) = {} /\ Lobby!LastAbout(s, u) = {}
<1>1. DOMAIN s = 1..Len(s)
  OBVIOUS
<1> QED
  BY <1>1 DEF Lobby!OfThisStay, Lobby!About, Lobby!LastAbout

LEMMA OutdatedAreOld ==
  ASSUME NEW s \in Seq(LobbyEvents)
  PROVE  LET t == Lobby!Outdated(s)
         IN /\ Len(t) = Len(s) /\ \A i \in 1..Len(t) : t[i].old
            /\ \A u : Lobby!About(s, u) = {} => Lobby!About(t, u) = {}
<1> DEFINE n == Len(s)
           t == [i \in 1..n |-> [s[i] EXCEPT !.old = TRUE]]
<1>1. n \in Nat /\ DOMAIN s = 1..n /\ \A i \in 1..n : s[i] \in LobbyEvents
  OBVIOUS
<1>2. ASSUME NEW e \in LobbyEvents
      PROVE  LET d == [e EXCEPT !.old = TRUE]
             IN /\ d.old /\ d.kind = e.kind
                /\ e.kind = "chat_update" =>
                     Lobby!ChatUpdateEntry(d).user = Lobby!ChatUpdateEntry(e).user
  BY DEF LobbyEvents, Lobby!ChatUpdateEntry
<1>3. Lobby!Outdated(s) = t
  BY <1>1 DEF Lobby!Outdated
<1> HIDE DEF n
<1>4. Len(t) = n /\ DOMAIN t = 1..n /\ \A i \in 1..n : t[i] = [s[i] EXCEPT !.old = TRUE]
  BY <1>1
<1> HIDE DEF t
<1>5. ASSUME NEW i \in 1..n
      PROVE  /\ t[i].old /\ t[i].kind = s[i].kind
             /\ s[i].kind = "chat_update" =>
                  Lobby!ChatUpdateEntry(t[i]).user = Lobby!ChatUpdateEntry(s[i]).user
  <2>1. s[i] \in LobbyEvents /\ t[i] = [s[i] EXCEPT !.old = TRUE]
    BY <1>1, <1>4
  <2> QED
    BY <1>2, <2>1
<1>6. ASSUME NEW u, Lobby!About(s, u) = {}
      PROVE  Lobby!About(t, u) = {}
  <2>1. ASSUME NEW i \in 1..n, t[i].kind = "chat_update"
        PROVE  Lobby!ChatUpdateEntry(t[i]).user # u
    <3>1. s[i].kind = "chat_update"
          /\ Lobby!ChatUpdateEntry(t[i]).user = Lobby!ChatUpdateEntry(s[i]).user
      BY <1>5, <2>1
    <3> QED
      BY <1>1, <1>6, <3>1 DEF Lobby!About
  <2> QED
    BY <1>4, <2>1 DEF Lobby!About
<1> QED
  BY <1>1, <1>3, <1>4, <1>5, <1>6 DEF n

-----------------------------------------------------------------------------
(* Members of a sequence of users.                                         *)

LEMMA InMembers ==
  ASSUME NEW u
  PROVE  /\ members \in Seq(Lobby!Users) =>
              (Lobby!In(u) <=> \E i \in 1..Len(members) : members[i] = u)
         /\ (members \in Seq(Lobby!Users))' =>
              (Lobby!In(u)' <=> \E i \in 1..Len(members') : members'[i] = u)
BY DEF Lobby!In

LEMMA InsideIs == (Lobby!Inside <=> Lobby!In(LobbyMe)) /\ (Lobby!Inside' <=> Lobby!In(LobbyMe)')
BY DEF Lobby!Inside, LobbyMe

(* Whoever leaves is out, and everybody else where they were.              *)
LEMMA WithoutTells ==
  ASSUME LobbyInv, MembersInv, NEW u, Lobby!Without(u)
  PROVE  /\ \A v : Lobby!In(v)' <=> Lobby!In(v) /\ v # u
         /\ MembersInv'
<1> DEFINE t == Lobby!RemoveFirst(members, u)
<1>1. members \in Seq(Lobby!Users) /\ members' = t
  BY DEF Lobby!Without, LobbyInv
<1>2. /\ t \in Seq(Lobby!Users)
      /\ \A v : v # u /\ (\E i \in 1..Len(members) : members[i] = v)
           => \E i \in 1..Len(t) : t[i] = v
      /\ \A v : (\E i \in 1..Len(t) : t[i] = v) => \E i \in 1..Len(members) : members[i] = v
      /\ (\A i, j \in 1..Len(members) : members[i] = members[j] => i = j) =>
           /\ \A i, j \in 1..Len(t) : t[i] = t[j] => i = j
           /\ \A i \in 1..Len(t) : t[i] # u
  BY <1>1, OthersStay
<1>3. \A i, j \in 1..Len(members) : members[i] = members[j] => i = j
  BY DEF MembersInv
<1> HIDE DEF t
<1>4. ASSUME NEW v PROVE Lobby!In(v)' <=> Lobby!In(v) /\ v # u
  BY <1>1, <1>2, <1>3, InMembers
<1>5. owner' = IF t = <<>> THEN Lobby!Nobody ELSE IF owner = u THEN t[1] ELSE owner
  BY <1>1 DEF Lobby!Without
<1>6. \A i, j \in 1..Len(members') : members'[i] = members'[j] => i = j
  BY <1>1, <1>2, <1>3
<1>7. CASE t = <<>>
  <2>1. members' = <<>> /\ owner' = Lobby!Nobody
    BY <1>1, <1>5, <1>7
  <2> QED
    BY <1>4, <1>6, <2>1 DEF MembersInv
<1>8. CASE t # <<>>
  <2>1. 1 \in 1..Len(t)
    BY <1>2, <1>8
  <2>2. owner # u => \E i \in 1..Len(t) : t[i] = owner
    <3>1. members # <<>>
      BY <1>1, <1>2, <2>1
    <3> QED
      BY <1>2, <3>1 DEF MembersInv
  <2> QED
    BY <1>1, <1>2, <1>3, <1>4, <1>5, <1>6, <1>8, <2>1, <2>2 DEF MembersInv
<1> QED
  BY <1>4, <1>7, <1>8

(* Whoever comes in is in, and everybody else where they were.             *)
LEMMA WithTells ==
  ASSUME LobbyInv, MembersInv, NEW u \in Lobby!Users, ~Lobby!In(u),
         members # <<>>, members' = Append(members, u), owner' = owner
  PROVE  /\ \A v : Lobby!In(v)' <=> Lobby!In(v) \/ v = u
         /\ MembersInv'
<1> DEFINE t == Append(members, u)
           n == Len(members)
<1>1. /\ members \in Seq(Lobby!Users) /\ members' = t /\ n \in Nat
      /\ t \in Seq(Lobby!Users) /\ Len(t) = n + 1 /\ t # <<>>
      /\ t[n + 1] = u /\ \A i \in 1..n : t[i] = members[i]
  BY DEF LobbyInv
<1>2. \A i \in 1..n : members[i] # u
  BY <1>1, InMembers
<1> HIDE DEF t, n
<1>3. ASSUME NEW v PROVE Lobby!In(v)' <=> Lobby!In(v) \/ v = u
  <2>1. Lobby!In(v) <=> \E i \in 1..n : members[i] = v
    BY <1>1, InMembers DEF n
  <2>2. Lobby!In(v)' <=> \E i \in 1..(n + 1) : t[i] = v
    BY <1>1, InMembers
  <2>3. n + 1 \in 1..(n + 1) /\ \A i \in 1..n : i \in 1..(n + 1)
    BY <1>1
  <2>4. \A i \in 1..(n + 1) : i = n + 1 \/ i \in 1..n
    BY <1>1
  <2> QED
    BY <1>1, <2>1, <2>2, <2>3, <2>4
<1>4. MembersInv'
  <2>1. \A i, j \in 1..n : members[i] = members[j] => i = j
    BY DEF MembersInv, n
  <2>2. \A i \in 1..(n + 1) : i = n + 1 \/ i \in 1..n
    BY <1>1
  <2>3. \A i, j \in 1..(n + 1) : t[i] = t[j] => i = j
    BY <1>1, <1>2, <2>1, <2>2
  <2>4. \E i \in 1..n : members[i] = owner
    BY DEF MembersInv, n
  <2>5. \E i \in 1..(n + 1) : t[i] = owner
    BY <1>1, <2>4
  <2> QED
    BY <1>1, <2>3, <2>5 DEF MembersInv
<1> QED
  BY <1>3, <1>4

-----------------------------------------------------------------------------
(* Steps that leave the members alone.                                     *)

MatchmakingFound == Lobby!Found(Lobby!Matchmaking)

(* An interface stays found until the session ends.                        *)
LEMMA StaysFound ==
  ASSUME IfaceTypeOK,
         \/ UNCHANGED ifaceVars
         \/ \E f : Lobby!steamworks_resolve(f)
         \/ \E client \in Clients : Lobby!SteamAPI_InitFlat(client)
  PROVE  MatchmakingFound => MatchmakingFound'
<1>1. MatchmakingFound => user = 1
  BY DEF MatchmakingFound, Lobby!Found, Lobby!StopsAt, Lobby!FindOrCreate, IfaceTypeOK
<1>2. MatchmakingFound => UNCHANGED <<user, offered>>
  BY <1>1 DEF ifaceVars, Lobby!steamworks_resolve, Lobby!SteamAPI_InitFlat
<1>3. UNCHANGED <<user, offered>> => MatchmakingFound' = MatchmakingFound
  BY DEF MatchmakingFound, Lobby!Found, Lobby!StopsAt, Lobby!FindOrCreate
<1> QED
  BY <1>2, <1>3

LEMMA IfaceStays ==
  ASSUME IfaceTypeOK,
         \/ UNCHANGED ifaceVars
         \/ \E f \in Interfaces : Lobby!steamworks_resolve(f)
         \/ \E client \in Clients : Lobby!SteamAPI_InitFlat(client)
         \/ Lobby!SteamAPI_Shutdown
  PROVE  IfaceTypeOK'
BY LobbyInterfaces, ResolveTypes, InitFlatTypes, ShutdownTypes DEF IfaceTypeOK, ifaceVars

(* What is posted is of this stay, and that the data has changed stays to  *)
(* be read.                                                                *)
LEMMA QuietStep ==
  ASSUME LobbyInv, Follows, MatchmakingFound => MatchmakingFound',
         UNCHANGED <<members, view, listing>>,
         entering' = entering \/ entering'.fn = "none",
         \/ /\ feed' = feed
            /\ settings'.data = settings.data \/ ~Lobby!Inside
         \/ \E e \in LobbyEvents :
              /\ Lobby!Inside /\ e.kind # "chat_update" /\ ~e.old
              /\ feed' = Append(feed, e)
              /\ settings'.data = settings.data \/ e.kind = "data_update"
  PROVE  Follows'
<1> USE DEF Follows
<1>1. /\ \A u : Lobby!In(u)' <=> Lobby!In(u)
      /\ Lobby!Inside' <=> Lobby!Inside
  BY DEF Lobby!In, Lobby!Inside
<1>2. feed \in Seq(LobbyEvents)
  BY DEF LobbyInv
<1>3. CASE feed' = feed /\ (settings'.data = settings.data \/ ~Lobby!Inside)
  <2>1. StayInv'
    BY <1>1, <1>3 DEF StayInv, MatchmakingFound
  <2>2. CountInv'
    BY <1>1 DEF CountInv
  <2>3. FeedTells' /\ MembersFollow' /\ DataFollows'
    BY <1>1, <1>3 DEF FeedTells, MembersFollow, DataFollows
  <2> QED
    BY <2>1, <2>2, <2>3
<1>4. ASSUME NEW e \in LobbyEvents, Lobby!Inside, e.kind # "chat_update", ~e.old,
             feed' = Append(feed, e),
             settings'.data = settings.data \/ e.kind = "data_update"
      PROVE  Follows'
  <2> DEFINE n == Len(feed)
  <2>1. /\ Len(feed') = n + 1 /\ \A i \in 1..n : feed'[i] = feed[i]
        /\ feed'[n + 1] = e
        /\ \A u : Lobby!About(feed', u) = Lobby!About(feed, u)
        /\ \A u : Lobby!LastAbout(feed', u) = Lobby!LastAbout(feed, u)
        /\ Lobby!OfThisStay(feed') <=> Lobby!OfThisStay(feed)
    BY <1>2, <1>4, OtherwisePosted
  <2>2. n \in Nat /\ Lobby!LastAbout(feed, LobbyMe) \subseteq 1..n
        /\ \A u : Lobby!LastAbout(feed, u) \subseteq 1..n
    BY <1>2 DEF Lobby!LastAbout, Lobby!About
  <2> HIDE DEF n
  <2>3. StayInv'
    BY <1>1, <1>4, <2>1 DEF StayInv, MatchmakingFound
  <2>4. CountInv'
    BY <1>1 DEF CountInv
  <2>5. FeedTells'
    BY <1>1, <1>4, <2>1, <2>2 DEF FeedTells
  <2>6. MembersFollow'
    BY <1>1, <1>4, <2>1 DEF MembersFollow
  <2>7. DataFollows'
    <3>1. \A i \in 1..n : i \in 1..(n + 1)
      BY <2>2
    <3>2. n + 1 \in 1..(n + 1)
      BY <2>2
    <3>3. CASE e.kind = "data_update"
      BY <2>1, <3>2, <3>3 DEF DataFollows
    <3>4. CASE settings'.data = settings.data
      <4>1. SUFFICES ASSUME view # Lobby!NoView, Lobby!Inside, view.data # settings.data
                     PROVE  \E i \in 1..(n + 1) : feed'[i].kind = "data_update"
        BY <1>1, <2>1, <3>4 DEF DataFollows
      <4>2. PICK i \in 1..n : feed[i].kind = "data_update"
        BY <4>1 DEF DataFollows, n
      <4> QED
        BY <2>1, <3>1, <4>2
    <3> QED
      BY <1>4, <3>3, <3>4
  <2> QED
    BY <2>3, <2>4, <2>5, <2>6, <2>7
<1> QED
  BY <1>3, <1>4

-----------------------------------------------------------------------------
(* Steps that do not.                                                      *)

(* Outside the lobby there is nothing to agree about.                      *)
LEMMA OutsideFollows ==
  ASSUME StayInv', ~Lobby!Inside'
  PROVE  Follows'
BY DEF Follows, CountInv, FeedTells, MembersFollow, DataFollows

(* Another user comes or goes: the last event about it says which.         *)
LEMMA ChangeStep ==
  ASSUME LobbyInv, MirrorTypes, Follows, NEW u \in Lobby!Users, u # LobbyMe,
         NEW e \in LobbyEvents, e.kind = "chat_update", ~e.old,
         e.m_ulSteamIDUserChanged = u,
         e.m_rgfChatMemberStateChange = "ENTERED" <=> Lobby!In(u)',
         \A v : v # u => (Lobby!In(v)' <=> Lobby!In(v)),
         feed' = IF Lobby!Inside THEN Append(feed, e) ELSE feed,
         Lobby!Disturbed, MatchmakingFound => MatchmakingFound',
         UNCHANGED <<settings, entering, view>>
  PROVE  Follows'
<1> USE DEF Follows
<1>1. Lobby!Inside' <=> Lobby!Inside
  BY InsideIs
<1>2. feed \in Seq(LobbyEvents)
  BY DEF LobbyInv
<1>3. /\ listing = Lobby!NoListing <=> listing' = Lobby!NoListing
      /\ listing # Lobby!NoListing =>
           listing'.next = listing.next /\ listing'.num = listing.num /\ ~listing'.quiet
  <2>1. CASE listing = Lobby!NoListing
    BY <2>1 DEF Lobby!Disturbed
  <2>2. CASE listing # Lobby!NoListing
    <3>1. listing \in Loops /\ listing' = [listing EXCEPT !.quiet = FALSE]
      BY <2>2 DEF Lobby!Disturbed, MirrorTypes
    <3>2. listing'.num = listing.num /\ listing'.next = listing.next /\ ~listing'.quiet
      BY <3>1 DEF Loops
    <3>3. listing.num \in Nat
      BY <3>1 DEF Loops
    <3>4. listing'.num # -1
      BY <3>2, <3>3
    <3> QED
      BY <2>2, <3>2, <3>4 DEF Lobby!NoListing
  <2> QED
    BY <2>1, <2>2
<1>4. CASE ~Lobby!Inside
  <2>1. StayInv'
    BY <1>1, <1>3, <1>4 DEF StayInv, MatchmakingFound
  <2> QED
    BY <1>1, <1>4, <2>1, OutsideFollows
<1>5. CASE Lobby!Inside
  <2> DEFINE n == Len(feed)
  <2>1. /\ n \in Nat /\ Len(feed') = n + 1 /\ \A i \in 1..n : feed'[i] = feed[i]
        /\ feed'[n + 1] = e
        /\ \A v : v # u => /\ Lobby!About(feed', v) = Lobby!About(feed, v)
                           /\ Lobby!LastAbout(feed', v) = Lobby!LastAbout(feed, v)
        /\ Lobby!About(feed', u) # {} /\ Lobby!LastAbout(feed', u) = {n + 1}
        /\ Lobby!OfThisStay(feed') <=> Lobby!OfThisStay(feed)
    <3> DEFINE t == Append(feed, e)
               c == e.m_ulSteamIDUserChanged
    <3>1. /\ Len(t) = n + 1 /\ \A i \in 1..n : t[i] = feed[i]
          /\ t[n + 1] = e
          /\ \A v : v # c => /\ Lobby!About(t, v) = Lobby!About(feed, v)
                             /\ Lobby!LastAbout(t, v) = Lobby!LastAbout(feed, v)
          /\ Lobby!About(t, c) # {} /\ Lobby!LastAbout(t, c) = {n + 1}
          /\ Lobby!OfThisStay(t) <=> Lobby!OfThisStay(feed)
      BY <1>2, ChangePosted
    <3>2. feed' = t /\ c = u /\ n \in Nat
      BY <1>2, <1>5
    <3> HIDE DEF t, c, n
    <3> QED
      BY <3>1, <3>2
  <2>2. \A v : Lobby!LastAbout(feed, v) \subseteq 1..n
    BY <1>2 DEF Lobby!LastAbout, Lobby!About
  <2> HIDE DEF n
  <2>3. StayInv'
    BY <1>1, <1>3, <1>5, <2>1 DEF StayInv, MatchmakingFound
  <2>4. CountInv'
    BY <1>1, <1>3 DEF CountInv
  <2>5. FeedTells'
    <3> SUFFICES ASSUME Lobby!OfThisStay(feed), NEW v \in Lobby!Users,
                        NEW i \in Lobby!LastAbout(feed', v)
                 PROVE  feed'[i].m_rgfChatMemberStateChange = "ENTERED" <=> Lobby!In(v)'
      BY <2>1 DEF FeedTells
    <3>1. CASE v = u
      <4>1. i = n + 1
        BY <2>1, <3>1
      <4> QED
        BY <2>1, <3>1, <4>1
    <3>2. CASE v # u
      <4>1. i \in Lobby!LastAbout(feed, v) /\ i \in 1..n
        BY <2>1, <2>2, <3>2
      <4>2. feed[i].m_rgfChatMemberStateChange = "ENTERED" <=> Lobby!In(v)
        BY <1>5, <4>1 DEF FeedTells
      <4> QED
        BY <2>1, <3>2, <4>1, <4>2
    <3> QED
      BY <3>1, <3>2
  <2>6. MembersFollow'
    <3> SUFFICES ASSUME view # Lobby!NoView, view.sound, Lobby!OfThisStay(feed),
                        NEW v \in Lobby!Users, Lobby!About(feed', v) = {}
                 PROVE  v \in view.members <=> Lobby!In(v)'
      BY <2>1 DEF MembersFollow
    <3>1. v # u
      BY <2>1
    <3> QED
      BY <1>5, <2>1, <3>1 DEF MembersFollow
  <2>7. DataFollows'
    <3>1. \A i \in 1..n : i \in 1..(n + 1)
      BY <2>1
    <3> QED
      BY <1>5, <2>1, <3>1 DEF DataFollows, n
  <2> QED
    BY <2>3, <2>4, <2>5, <2>6, <2>7
<1> QED
  BY <1>4, <1>5

(* The user comes in.  What is still queued is of an earlier stay.         *)
LEMMA AdmittedFollows ==
  ASSUME LobbyInv, Follows, ~Lobby!Inside, Lobby!Inside', entering.fn # "none",
         MatchmakingFound => MatchmakingFound', UNCHANGED <<view, listing, feed>>
  PROVE  Follows'
<1> USE DEF Follows
<1>1. /\ MatchmakingFound /\ view = Lobby!NoView /\ listing = Lobby!NoListing
      /\ \A i \in 1..Len(feed) : feed[i].old
  BY DEF StayInv, MatchmakingFound
<1>2. StayInv'
  BY <1>1 DEF StayInv, MatchmakingFound
<1>3. FeedTells'
  <2>1. Lobby!OfThisStay(feed) => \A u : Lobby!LastAbout(feed, u) = {}
    BY <1>1, OldTellNothing DEF LobbyInv
  <2> QED
    BY <2>1 DEF FeedTells
<1> QED
  BY <1>1, <1>2, <1>3 DEF CountInv, MembersFollow, DataFollows

(* The user goes, by itself or with the session.                           *)
LEMMA GoneFollows ==
  ASSUME LobbyInv, MembersInv, Follows, listing = Lobby!NoListing,
         UNCHANGED listing, view' = Lobby!NoView,
         \/ entering'.fn = "none"
         \/ entering' = entering /\ (MatchmakingFound => MatchmakingFound'),
         IF Lobby!Inside THEN Lobby!Without(LobbyMe) ELSE UNCHANGED members,
         \/ ~Lobby!Inside /\ UNCHANGED feed
         \/ feed' = Lobby!Outdated(feed)
         \/ \E n \in 0..Len(feed) : feed' = Lobby!Outdated(SubSeq(feed, 1, n))
  PROVE  Follows'
<1> USE DEF Follows
<1>1. ~Lobby!Inside'
  <2>1. CASE Lobby!Inside
    BY <2>1, WithoutTells, InsideIs
  <2>2. CASE ~Lobby!Inside
    BY <2>2 DEF Lobby!Inside, Lobby!In
  <2> QED
    BY <2>1, <2>2
<1>2. feed \in Seq(LobbyEvents) /\ Lobby!About(feed, LobbyMe) = {}
  BY DEF LobbyInv, StayInv
<1>3. Lobby!About(feed', LobbyMe) = {} /\ \A i \in 1..Len(feed') : feed'[i].old
  <2>1. CASE ~Lobby!Inside /\ UNCHANGED feed
    BY <1>2, <2>1 DEF StayInv
  <2>2. CASE feed' = Lobby!Outdated(feed)
    BY <1>2, <2>2, OutdatedAreOld
  <2>3. ASSUME NEW n \in 0..Len(feed), feed' = Lobby!Outdated(SubSeq(feed, 1, n))
        PROVE  Lobby!About(feed', LobbyMe) = {} /\ \A i \in 1..Len(feed') : feed'[i].old
    <3> DEFINE s == SubSeq(feed, 1, n)
    <3>1. n \in Nat /\ n <= Len(feed) /\ DOMAIN feed = 1..Len(feed)
          /\ \A i \in 1..n : feed[i] \in LobbyEvents
      BY <1>2
    <3>2. s \in Seq(LobbyEvents) /\ Len(s) = n /\ \A i \in 1..n : s[i] = feed[i]
      BY <3>1, SubSeqProperties
    <3> HIDE DEF s
    <3>3. Lobby!About(s, LobbyMe) = {}
      <4>1. DOMAIN s = 1..n /\ \A i \in 1..n : i \in DOMAIN feed
        BY <3>1, <3>2
      <4> QED
        BY <1>2, <3>2, <4>1 DEF Lobby!About
    <3> QED
      BY <2>3, <3>2, <3>3, OutdatedAreOld DEF s
  <2> QED
    BY <2>1, <2>2, <2>3
<1>4. StayInv'
  BY <1>1, <1>3 DEF StayInv, MatchmakingFound
<1> QED
  BY <1>1, <1>4, OutsideFollows

-----------------------------------------------------------------------------
(* The loop over the members, and the script's picture.                    *)

LEMMA ListingStarts ==
  ASSUME LobbyInv, Follows, Lobby!steam_matchmaking_get_num_lobby_members
  PROVE  Follows' /\ listing' \in Loops
<1> USE DEF Follows, Lobby!steam_matchmaking_get_num_lobby_members
<1>1. /\ entering.fn = "entered" /\ entering' = Lobby!NoCall
      /\ Lobby!steamworks_resolve(Lobby!Matchmaking)
      /\ UNCHANGED <<members, owner, settings, view, feed>>
  BY DEF Lobby!LobbyFunction, Lobby!lobbyVars
<1>2. /\ MatchmakingFound /\ view = Lobby!NoView /\ listing = Lobby!NoListing
  BY <1>1 DEF StayInv, MatchmakingFound
<1>3. listing' = [num |-> IF Lobby!Inside THEN Len(members) ELSE 0,
                  next |-> 0, got |-> {}, quiet |-> TRUE]
  BY <1>2 DEF MatchmakingFound
<1>4. /\ listing'.num = (IF Lobby!Inside THEN Len(members) ELSE 0)
      /\ listing'.next = 0 /\ listing'.got = {} /\ Len(members) \in Nat
      /\ listing' \in Loops
  <2>1. Len(members) \in Nat
    BY DEF LobbyInv
  <2> QED
    BY <1>3, <2>1 DEF Loops
<1>5. Lobby!Inside' = Lobby!Inside /\ \A u : Lobby!In(u)' = Lobby!In(u)
  BY <1>1 DEF Lobby!Inside, Lobby!In
<1>6. MatchmakingFound'
  BY <1>1, <1>2 DEF MatchmakingFound, Lobby!Found, Lobby!StopsAt, Lobby!FindOrCreate,
                    Lobby!steamworks_resolve
<1>7. StayInv'
  BY <1>1, <1>2, <1>5, <1>6 DEF StayInv, MatchmakingFound, Lobby!NoCall
<1>8. CountInv'
  <2>1. {members[i] : i \in 1..0} = {}
    OBVIOUS
  <2> QED
    BY <1>1, <1>4, <1>5, <2>1 DEF CountInv
<1>9. FeedTells' /\ MembersFollow' /\ DataFollows'
  BY <1>1, <1>2, <1>5 DEF FeedTells, MembersFollow, DataFollows
<1> QED
  BY <1>4, <1>7, <1>8, <1>9

LEMMA ListingGoesOn ==
  ASSUME LobbyInv, MirrorTypes, Follows, listing # Lobby!NoListing,
         listing.next < listing.num,
         Lobby!steam_matchmaking_get_lobby_member_by_index
  PROVE  Follows' /\ listing' \in Loops /\ view' = view
<1> USE DEF Follows, Lobby!steam_matchmaking_get_lobby_member_by_index
<1> DEFINE more == Lobby!MemberByIndex(listing.next)
           k == listing.next
<1>1. /\ listing' = [listing EXCEPT !.next = @ + 1, !.got = @ \cup more]
      /\ Lobby!steamworks_resolve(Lobby!Matchmaking)
      /\ UNCHANGED <<members, owner, settings, view, feed, entering>>
  BY DEF Lobby!lobbyVars
<1>2. listing \in Loops /\ members \in Seq(Lobby!Users)
  BY DEF MirrorTypes, LobbyInv
<1>3. more \subseteq Lobby!Users
  <2>1. \A i \in DOMAIN members : members[i] \in Lobby!Users
    BY <1>2
  <2> QED
    BY <2>1 DEF Lobby!MemberByIndex
<1>4. Lobby!Inside' = Lobby!Inside /\ \A u : Lobby!In(u)' = Lobby!In(u)
  BY <1>1 DEF Lobby!Inside, Lobby!In
<1>5. MatchmakingFound' = MatchmakingFound
  BY <1>1 DEF MatchmakingFound, Lobby!Found, Lobby!StopsAt, Lobby!FindOrCreate,
              Lobby!steamworks_resolve
<1>6. ASSUME Lobby!Inside, listing.quiet, listing.num = Len(members)
      PROVE  more = {members[k + 1]}
  <2>1. k + 1 \in DOMAIN members
    BY <1>2, <1>6 DEF Loops
  <2> QED
    BY <1>6, <2>1 DEF Lobby!MemberByIndex, StayInv
<1>7. /\ k \in Nat /\ listing.num \in Nat /\ k < listing.num
      /\ listing.got \subseteq Lobby!Users /\ listing.quiet \in BOOLEAN
  BY <1>2 DEF Loops
<1> HIDE DEF more
<1>8. /\ listing' \in Loops /\ listing'.next = k + 1 /\ listing'.num = listing.num
      /\ listing'.got = listing.got \cup more /\ listing'.quiet = listing.quiet
  <2>1. listing' = [num |-> listing.num, next |-> k + 1, got |-> listing.got \cup more,
                    quiet |-> listing.quiet]
    BY <1>1, <1>2 DEF Loops
  <2>2. k + 1 \in Nat /\ listing.got \cup more \subseteq Lobby!Users
    BY <1>3, <1>7
  <2> QED
    BY <1>7, <2>1, <2>2 DEF Loops
<1>9. StayInv'
  BY <1>1, <1>4, <1>5 DEF StayInv, MatchmakingFound
<1>10. CountInv'
  <2> SUFFICES ASSUME Lobby!Inside
               PROVE  /\ k + 1 <= listing.num
                      /\ listing.quiet =>
                           /\ listing.num = Len(members)
                           /\ listing.got \cup more = {members[i] : i \in 1..(k + 1)}
    BY <1>1, <1>4, <1>8 DEF CountInv
  <2>1. k + 1 <= listing.num
    BY <1>7
  <2>2. listing.quiet => listing.num = Len(members)
                         /\ listing.got = {members[i] : i \in 1..k}
    BY DEF CountInv
  <2>3. {members[i] : i \in 1..(k + 1)} = {members[i] : i \in 1..k} \cup {members[k + 1]}
    <3>1. \A i : i \in 1..(k + 1) <=> i \in 1..k \/ i = k + 1
      BY <1>7
    <3> HIDE DEF k
    <3> QED
      BY <3>1
  <2> QED
    BY <1>6, <2>1, <2>2, <2>3
<1>11. FeedTells' /\ MembersFollow' /\ DataFollows'
  BY <1>1, <1>4 DEF FeedTells, MembersFollow, DataFollows
<1> QED
  BY <1>1, <1>8, <1>9, <1>10, <1>11

LEMMA ListingEnds ==
  ASSUME LobbyInv, MirrorTypes, Follows, listing # Lobby!NoListing,
         listing.next >= listing.num,
         Lobby!steam_matchmaking_get_lobby_member_by_index
  PROVE  Follows' /\ listing' = Lobby!NoListing /\ view' \in Views
<1>0. ~(listing.next < listing.num)
  BY DEF MirrorTypes, Loops
<1>1. /\ view' = [sound |-> listing.quiet, members |-> listing.got, data |-> settings.data]
      /\ listing' = Lobby!NoListing
      /\ Lobby!steamworks_resolve(Lobby!Matchmaking)
      /\ UNCHANGED <<members, owner, settings, feed, entering>>
  BY <1>0 DEF Lobby!steam_matchmaking_get_lobby_member_by_index, Lobby!lobbyVars
<1>2. listing \in Loops /\ members \in Seq(Lobby!Users) /\ settings.data \in Nat
  BY DEF MirrorTypes, LobbyInv, LobbySettings
<1>3. /\ view' \in Views /\ view'.sound = listing.quiet /\ view'.members = listing.got
      /\ view'.data = settings.data
  BY <1>1, <1>2 DEF Loops, Views
<1>4. Lobby!Inside' = Lobby!Inside /\ \A u : Lobby!In(u)' = Lobby!In(u)
  BY <1>1 DEF Lobby!Inside, Lobby!In
<1>5. MatchmakingFound' = MatchmakingFound
  BY <1>1 DEF MatchmakingFound, Lobby!Found, Lobby!StopsAt, Lobby!FindOrCreate,
              Lobby!steamworks_resolve
<1>6. entering.fn = "none"
  BY DEF Follows, StayInv
<1>7. StayInv'
  BY <1>1, <1>4, <1>5, <1>6 DEF Follows, StayInv, MatchmakingFound
<1>8. MembersFollow'
  <2> SUFFICES ASSUME Lobby!Inside, listing.quiet, NEW u \in Lobby!Users
               PROVE  u \in listing.got <=> Lobby!In(u)
    BY <1>1, <1>3, <1>4 DEF MembersFollow
  <2>1. /\ listing.next <= listing.num /\ listing.num = Len(members)
        /\ listing.got = {members[i] : i \in 1..listing.next}
    BY DEF Follows, CountInv
  <2>2. listing.next = Len(members)
    BY <1>2, <2>1 DEF Loops
  <2> QED
    BY <1>2, <2>1, <2>2, InMembers
<1>9. FeedTells' /\ CountInv' /\ DataFollows'
  BY <1>1, <1>3, <1>4 DEF Follows, FeedTells, CountInv, DataFollows
<1> QED
  BY <1>1, <1>3, <1>7, <1>8, <1>9 DEF Follows

(* The script has drained the queue: its picture is the lobby.             *)
LEMMA DrainFollows ==
  ASSUME LobbyInv, MirrorTypes, Follows, Lobby!steam_matchmaking_get_events
  PROVE  Follows' /\ view' \in {Lobby!NoView} \cup Views
<1> USE DEF Follows, Lobby!steam_matchmaking_get_events
<1>1. /\ listing = Lobby!NoListing /\ feed' = <<>>
      /\ view' = IF view = Lobby!NoView THEN view ELSE Lobby!Follow(view, feed)
      /\ Lobby!steamworks_resolve(Lobby!Matchmaking)
      /\ UNCHANGED <<members, owner, settings, listing, entering>>
  BY DEF Lobby!lobbyVars
<1>2. /\ view \in {Lobby!NoView} \cup Views /\ feed \in Seq(LobbyEvents)
      /\ settings.data \in Nat
  BY DEF MirrorTypes, LobbyInv, LobbySettings
<1>3. Lobby!Inside' = Lobby!Inside /\ \A u : Lobby!In(u)' = Lobby!In(u)
  BY <1>1 DEF Lobby!Inside, Lobby!In
<1>4. MatchmakingFound' = MatchmakingFound
  BY <1>1 DEF MatchmakingFound, Lobby!Found, Lobby!StopsAt, Lobby!FindOrCreate,
              Lobby!steamworks_resolve
<1>5. \A u : Lobby!About(<<>>, u) = {} /\ Lobby!LastAbout(<<>>, u) = {}
  BY DEF Lobby!About, Lobby!LastAbout
<1>6. StayInv'
  BY <1>1, <1>3, <1>4, <1>5 DEF StayInv, MatchmakingFound
<1>7. FeedTells' /\ CountInv'
  BY <1>1, <1>3, <1>5 DEF FeedTells, CountInv
<1>8. CASE view = Lobby!NoView
  BY <1>1, <1>6, <1>7, <1>8 DEF MembersFollow, DataFollows
<1>9. CASE view # Lobby!NoView
  <2> DEFINE told == {u \in Lobby!Users :
                 \/ Lobby!About(feed, u) = {} /\ u \in view.members
                 \/ \E i \in Lobby!LastAbout(feed, u) :
                      Lobby!ChatUpdateEntry(feed[i]).state = "ENTERED"}
             read == MatchmakingFound /\ \E i \in DOMAIN feed : feed[i].kind = "data_update"
             data == IF read THEN settings.data ELSE view.data
             sound == view.sound /\ Lobby!OfThisStay(feed)
  <2>1. view' = [sound |-> sound, members |-> told, data |-> data]
    BY <1>1, <1>9 DEF Lobby!Follow, MatchmakingFound
  <2>2. view \in Views
    BY <1>2, <1>9
  <2>3. told \subseteq Lobby!Users /\ sound \in BOOLEAN /\ data \in Nat
    BY <1>2, <2>2 DEF Views, Lobby!OfThisStay
  <2> HIDE DEF told, read, data, sound
  <2>4. /\ view' \in Views /\ view'.sound = sound /\ view'.members = told
        /\ view'.data = data
    BY <2>1, <2>3 DEF Views
  <2>5. MembersFollow'
    <3> SUFFICES ASSUME Lobby!Inside, view.sound, Lobby!OfThisStay(feed), NEW u \in Lobby!Users
                 PROVE  u \in told <=> Lobby!In(u)
      BY <1>3, <2>4 DEF MembersFollow, sound
    <3>1. CASE Lobby!About(feed, u) = {}
      <4>1. Lobby!LastAbout(feed, u) = {}
        BY <3>1 DEF Lobby!LastAbout
      <4> QED
        BY <1>9, <3>1, <4>1 DEF told, MembersFollow
    <3>2. CASE Lobby!About(feed, u) # {}
      <4>1. \E i \in Lobby!LastAbout(feed, u) : TRUE
        BY <1>2, <3>2, LastExists
      <4>2. \A i \in Lobby!LastAbout(feed, u) :
              Lobby!ChatUpdateEntry(feed[i]).state = "ENTERED" <=> Lobby!In(u)
        BY DEF FeedTells, Lobby!ChatUpdateEntry
      <4> QED
        BY <3>2, <4>1, <4>2 DEF told
    <3> QED
      BY <3>1, <3>2
  <2>6. DataFollows'
    <3> SUFFICES ASSUME Lobby!Inside PROVE view'.data = settings.data
      BY <1>1, <1>3 DEF DataFollows
    <3>1. MatchmakingFound
      BY DEF StayInv, MatchmakingFound
    <3>2. view.data = settings.data \/ \E i \in DOMAIN feed : feed[i].kind = "data_update"
      BY <1>2, <1>9 DEF DataFollows
    <3> QED
      BY <2>4, <3>1, <3>2 DEF read, data
  <2> QED
    BY <1>6, <1>7, <2>4, <2>5, <2>6
<1> QED
  BY <1>8, <1>9

-----------------------------------------------------------------------------
(* Every step keeps the invariant: first the types and the members.        *)

LEMMA Posted ==
  ASSUME Lobby!LobbyAssumption, LobbyInv, MirrorTypes, NEW e \in LobbyEvents, Lobby!Post(e)
  PROVE  /\ Len(feed') <= MaxFeed
         /\ feed' = IF Lobby!Inside THEN Append(feed, e) ELSE feed
<1>1. CASE Lobby!Inside
  <2>1. feed' = Append(feed, e) /\ Len(feed) < MaxFeed
    BY <1>1 DEF Lobby!Post
  <2>2. Len(feed) \in Nat /\ Len(Append(feed, e)) = Len(feed) + 1
    BY DEF LobbyInv
  <2>3. MaxFeed \in Int
    BY DEF Lobby!LobbyAssumption
  <2> QED
    BY <1>1, <2>1, <2>2, <2>3
<1>2. CASE ~Lobby!Inside
  BY <1>2 DEF Lobby!Post, MirrorTypes
<1> QED
  BY <1>1, <1>2

LEMMA TypesStay ==
  ASSUME MirrorTypes, UNCHANGED <<view, listing>>, settings'.room = settings.room,
         entering' = entering \/ entering'.fn = "none",
         settings'.data < ValueMax, ready' <= ValueMax, Len(feed') <= MaxFeed
  PROVE  MirrorTypes'
BY DEF MirrorTypes

LEMMA MembersStay ==
  ASSUME MembersInv, UNCHANGED <<members, owner>>
  PROVE  MembersInv'
BY DEF MembersInv

(* What Steam holds fits its limit.                                        *)
LEMMA HeldFits ==
  ASSUME NEW key, NEW value, NEW before
  PROVE  \/ Lobby!Held(key, value, before) < ValueMax
         \/ Lobby!Held(key, value, before) = before
BY DEF Lobby!Held

LEMMA RoomsCast ==
  ASSUME Lobby!LobbyAssumption, NEW n \in Int
  PROVE  Lobby!ToInt(n) \in CastRooms
<1> DEFINE m == 2 * IntMax + 2
           low == n % m
<1>1. m \in Nat /\ m >= 2 /\ IntMax \in Nat
  BY DEF Lobby!LobbyAssumption
<1>2. low \in 0..(m - 1)
  BY <1>1
<1>3. Lobby!ToInt(n) = IF low > IntMax THEN low - m ELSE low
  BY DEF Lobby!ToInt
<1> HIDE DEF low
<1> QED
  BY <1>1, <1>2, <1>3 DEF CastRooms

(* Then the steps that leave the members alone.                            *)
LEMMA OtherActsAgree ==
  ASSUME Lobby!LobbyAssumption, MirrorInv,
         \/ \E value \in Values : value.c < ValueMax /\ Lobby!OtherSetsData(value.c)
         \/ \E u \in Others, text \in Texts : Lobby!OtherSays(u, text)
  PROVE  MembersInv' /\ MirrorTypes' /\ Follows'
<1> USE DEF MirrorInv
<1>1. UNCHANGED <<ifaceVars, members, owner, ready, entering, listing, view>>
  BY LobbyInterfaces DEF Lobby!OtherSetsData, Lobby!OtherSays, Lobby!lobbyVars, Lobby!scriptVars
<1>2. MatchmakingFound => MatchmakingFound'
  BY <1>1, StaysFound
<1>3. ASSUME NEW value \in Values, value.c < ValueMax, Lobby!OtherSetsData(value.c)
      PROVE  Follows' /\ MirrorTypes'
  <2> DEFINE e == Lobby!LobbyDataUpdate("lobby")
  <2>1. e \in LobbyEvents /\ e.kind = "data_update" /\ ~e.old
    BY DEF Lobby!LobbyDataUpdate, LobbyEvents
  <2>2. Lobby!Post(e) /\ settings' = [settings EXCEPT !.data = value.c]
    BY <1>3 DEF Lobby!OtherSetsData
  <2> HIDE DEF e
  <2>3. Len(feed') <= MaxFeed /\ feed' = IF Lobby!Inside THEN Append(feed, e) ELSE feed
    BY <2>1, <2>2, Posted
  <2>4. settings'.data = value.c /\ settings'.room = settings.room
    BY <2>2 DEF LobbyInv, LobbySettings
  <2>5. Follows'
    BY <1>1, <1>2, <2>1, <2>3, QuietStep
  <2>6. MirrorTypes'
    BY <1>1, <1>3, <2>3, <2>4, TypesStay DEF MirrorTypes
  <2> QED
    BY <2>5, <2>6
<1>4. ASSUME NEW u \in Others, NEW text \in Texts, Lobby!OtherSays(u, text)
      PROVE  Follows' /\ MirrorTypes'
  <2> DEFINE e == Lobby!LobbyChatMsg(u, text)
  <2>1. u \in Lobby!Users /\ text \in ChatTexts
    BY <1>4, TextsTaken DEF Lobby!Users, Lobby!OtherSays
  <2>2. e \in LobbyEvents /\ e.kind = "chat_message" /\ ~e.old
    BY <2>1 DEF Lobby!LobbyChatMsg, LobbyEvents
  <2>3. Lobby!Post(e) /\ UNCHANGED settings
    BY <1>4 DEF Lobby!OtherSays, Lobby!lobbyVars
  <2> HIDE DEF e
  <2>4. Len(feed') <= MaxFeed /\ feed' = IF Lobby!Inside THEN Append(feed, e) ELSE feed
    BY <2>2, <2>3, Posted
  <2>5. Follows'
    BY <1>1, <1>2, <2>2, <2>3, <2>4, QuietStep
  <2>6. MirrorTypes'
    BY <1>1, <2>3, <2>4, TypesStay DEF MirrorTypes
  <2> QED
    BY <2>5, <2>6
<1> QED
  BY <1>1, <1>3, <1>4, MembersStay

LEMMA SetDataAgrees ==
  ASSUME Lobby!LobbyAssumption, MirrorInv, NEW key \in Keys, NEW value \in Values,
         Lobby!steam_matchmaking_set_lobby_data(key, value)
  PROVE  MembersInv' /\ MirrorTypes' /\ Follows'
<1> USE DEF MirrorInv, Lobby!steam_matchmaking_set_lobby_data
<1> DEFINE e == Lobby!LobbyDataUpdate("lobby")
           kept == Lobby!Held(key, value, settings.data)
<1>1. /\ UNCHANGED <<members, owner, ready, entering, listing, view>>
      /\ Lobby!steamworks_resolve(Lobby!Matchmaking)
  BY DEF Lobby!scriptVars, Lobby!LobbyFunction
<1>2. MatchmakingFound => MatchmakingFound'
  BY <1>1, StaysFound
<1>3. e \in LobbyEvents /\ e.kind = "data_update" /\ ~e.old
  BY DEF Lobby!LobbyDataUpdate, LobbyEvents
<1>4. kept < ValueMax
  BY HeldFits DEF MirrorTypes
<1>5. \/ UNCHANGED <<feed, settings>>
      \/ Lobby!Post(e) /\ settings' = [settings EXCEPT !.data = kept]
  OBVIOUS
<1> HIDE DEF e, kept
<1>6. CASE UNCHANGED <<feed, settings>>
  <2>1. Follows'
    BY <1>1, <1>2, <1>6, QuietStep
  <2>2. MirrorTypes'
    BY <1>1, <1>6, TypesStay DEF MirrorTypes
  <2> QED
    BY <1>1, <2>1, <2>2, MembersStay
<1>7. CASE Lobby!Post(e) /\ settings' = [settings EXCEPT !.data = kept]
  <2>1. Len(feed') <= MaxFeed /\ feed' = IF Lobby!Inside THEN Append(feed, e) ELSE feed
    BY <1>3, <1>7, Posted
  <2>2. settings'.data = kept /\ settings'.room = settings.room
    BY <1>7 DEF LobbyInv, LobbySettings
  <2>3. Follows'
    BY <1>1, <1>2, <1>3, <2>1, QuietStep
  <2>4. MirrorTypes'
    BY <1>1, <1>4, <2>1, <2>2, TypesStay DEF MirrorTypes
  <2> QED
    BY <1>1, <2>3, <2>4, MembersStay
<1> QED
  BY <1>5, <1>6, <1>7

LEMMA SetMemberDataAgrees ==
  ASSUME Lobby!LobbyAssumption, MirrorInv, NEW key \in Keys, NEW value \in Values,
         Lobby!steam_matchmaking_set_lobby_member_data(key, value)
  PROVE  MembersInv' /\ MirrorTypes' /\ Follows'
<1> USE DEF MirrorInv, Lobby!steam_matchmaking_set_lobby_member_data
<1> DEFINE e == Lobby!LobbyDataUpdate(LobbyMe)
           kept == Lobby!Held(key, value, ready)
<1>1. /\ UNCHANGED <<members, owner, settings, entering, listing, view>>
      /\ Lobby!steamworks_resolve(Lobby!Matchmaking)
  BY DEF Lobby!scriptVars, Lobby!LobbyFunction
<1>2. MatchmakingFound => MatchmakingFound'
  BY <1>1, StaysFound
<1>3. e \in LobbyEvents /\ e.kind = "data_update" /\ ~e.old
  BY DEF Lobby!LobbyDataUpdate, LobbyEvents
<1>4. kept <= ValueMax
  <2>1. ready \in Int /\ ready <= ValueMax /\ ValueMax \in Int
    BY DEF MirrorTypes, LobbyInv, Lobby!LobbyAssumption
  <2>2. kept < ValueMax => kept \in Int
    <3>1. value.c \in Nat
      BY DEF Lobby!LobbyAssumption, Lobby!PhpString
    <3> QED
      BY <2>1, <3>1 DEF Lobby!Held
  <2>3. kept < ValueMax \/ kept = ready
    BY HeldFits
  <2> HIDE DEF kept
  <2> QED
    BY <2>1, <2>2, <2>3
<1>5. UNCHANGED <<feed, ready>> \/ (Lobby!Post(e) /\ ready' = kept)
  BY DEF LobbyMe
<1> HIDE DEF e, kept
<1>6. CASE UNCHANGED <<feed, ready>>
  <2>1. Follows'
    BY <1>1, <1>2, <1>6, QuietStep
  <2>2. MirrorTypes'
    BY <1>1, <1>6, TypesStay DEF MirrorTypes
  <2> QED
    BY <1>1, <2>1, <2>2, MembersStay
<1>7. CASE Lobby!Post(e) /\ ready' = kept
  <2>1. Len(feed') <= MaxFeed /\ feed' = IF Lobby!Inside THEN Append(feed, e) ELSE feed
    BY <1>3, <1>7, Posted
  <2>2. Follows'
    BY <1>1, <1>2, <1>3, <2>1, QuietStep
  <2>3. MirrorTypes'
    BY <1>1, <1>4, <1>7, <2>1, TypesStay DEF MirrorTypes
  <2> QED
    BY <1>1, <2>2, <2>3, MembersStay
<1> QED
  BY <1>5, <1>6, <1>7

LEMMA SendAgrees ==
  ASSUME Lobby!LobbyAssumption, MirrorInv, NEW text \in Texts,
         Lobby!steam_matchmaking_send_lobby_chat_msg(text)
  PROVE  MembersInv' /\ MirrorTypes' /\ Follows'
<1> USE DEF MirrorInv, Lobby!steam_matchmaking_send_lobby_chat_msg
<1> DEFINE e == Lobby!LobbyChatMsg(LobbyMe, text)
<1>1. /\ UNCHANGED <<members, owner, settings, ready, entering, listing, view>>
      /\ Lobby!steamworks_resolve(Lobby!Matchmaking)
  BY DEF Lobby!scriptVars, Lobby!lobbyVars, Lobby!LobbyFunction
<1>2. MatchmakingFound => MatchmakingFound'
  BY <1>1, StaysFound
<1>3. e \in LobbyEvents /\ e.kind = "chat_message" /\ ~e.old
  <2>1. LobbyMe \in Lobby!Users /\ text \in ChatTexts
    BY TextsTaken DEF Lobby!Users, LobbyMe
  <2> QED
    BY <2>1 DEF Lobby!LobbyChatMsg, LobbyEvents
<1>4. UNCHANGED feed \/ Lobby!Post(e)
  BY DEF LobbyMe
<1> HIDE DEF e
<1>5. /\ Len(feed') <= MaxFeed
      /\ feed' = feed \/ (Lobby!Inside /\ feed' = Append(feed, e))
  BY <1>3, <1>4, Posted DEF MirrorTypes
<1>6. Follows'
  BY <1>1, <1>2, <1>3, <1>5, QuietStep
<1>7. MirrorTypes'
  BY <1>1, <1>5, TypesStay DEF MirrorTypes
<1> QED
  BY <1>1, <1>6, <1>7, MembersStay

(* Neither members nor data nor the queue change.                          *)
LEMMA SettingsAgree ==
  ASSUME MirrorInv,
         \/ \E joinable \in BOOLEAN : Lobby!steam_matchmaking_set_lobby_joinable(joinable)
         \/ \E type \in Types : Lobby!steam_matchmaking_set_lobby_type(type)
  PROVE  MembersInv' /\ MirrorTypes' /\ Follows'
<1> USE DEF MirrorInv
<1>1. /\ UNCHANGED <<members, owner, ready, entering, listing, view, feed>>
      /\ Lobby!steamworks_resolve(Lobby!Matchmaking)
  BY DEF Lobby!steam_matchmaking_set_lobby_joinable, Lobby!steam_matchmaking_set_lobby_type,
         Lobby!Set, Lobby!scriptVars, Lobby!LobbyFunction
<1>2. MatchmakingFound => MatchmakingFound'
  BY <1>1, StaysFound
<1>3. settings'.data = settings.data /\ settings'.room = settings.room
  <2>1. settings \in LobbySettings
    BY DEF LobbyInv
  <2>2. \/ settings' = settings
        \/ \E joinable : settings' = [settings EXCEPT !.joinable = joinable]
        \/ \E type : settings' = [settings EXCEPT !.type = type]
    BY DEF Lobby!steam_matchmaking_set_lobby_joinable, Lobby!steam_matchmaking_set_lobby_type,
           Lobby!Set
  <2> QED
    BY <2>1, <2>2 DEF LobbySettings
<1>4. Follows'
  BY <1>1, <1>2, <1>3, QuietStep
<1>5. MirrorTypes'
  BY <1>1, <1>3, TypesStay DEF MirrorTypes
<1> QED
  BY <1>1, <1>4, <1>5, MembersStay

LEMMA OwnerAgrees ==
  ASSUME MirrorInv, NEW u \in Lobby!Users, Lobby!steam_matchmaking_set_lobby_owner(u)
  PROVE  MembersInv' /\ MirrorTypes' /\ Follows'
<1> USE DEF MirrorInv, Lobby!steam_matchmaking_set_lobby_owner
<1>1. /\ UNCHANGED <<members, settings, ready, entering, listing, view, feed>>
      /\ Lobby!steamworks_resolve(Lobby!Matchmaking)
  BY DEF Lobby!scriptVars, Lobby!LobbyFunction
<1>2. MatchmakingFound => MatchmakingFound'
  BY <1>1, StaysFound
<1>3. UNCHANGED owner \/ (owner' = u /\ Lobby!In(u))
  OBVIOUS
<1>4. MembersInv'
  <2>1. CASE owner' = u /\ Lobby!In(u)
    <3>1. PICK i \in 1..Len(members) : members[i] = u
      BY <2>1, InMembers DEF LobbyInv
    <3>2. members # <<>>
      BY <3>1
    <3> QED
      BY <1>1, <2>1, <3>1, <3>2 DEF MembersInv
  <2> QED
    BY <1>1, <1>3, <2>1, MembersStay
<1>5. Follows'
  BY <1>1, <1>2, QuietStep
<1>6. MirrorTypes'
  BY <1>1, TypesStay DEF MirrorTypes
<1> QED
  BY <1>4, <1>5, <1>6

LEMMA NothingMoves ==
  ASSUME MirrorInv,
         \/ \E client \in Clients : Lobby!steam_init(client)
         \/ Lobby!SteamRefuses
         \/ Lobby!steam_matchmaking_invite_user_to_lobby
         \/ Lobby!steam_friends_activate_overlay_invite_dialog
  PROVE  MembersInv' /\ MirrorTypes' /\ Follows'
<1> USE DEF MirrorInv
<1>1. /\ UNCHANGED <<members, owner, settings, ready, listing, view, feed>>
      /\ entering' = entering \/ entering' = Lobby!NoCall
  BY DEF Lobby!steam_init, Lobby!SteamRefuses, Lobby!steam_matchmaking_invite_user_to_lobby,
         Lobby!steam_friends_activate_overlay_invite_dialog, Lobby!lobbyVars, Lobby!scriptVars
<1>2. entering' = entering \/ entering'.fn = "none"
  BY <1>1 DEF Lobby!NoCall
<1>3. MatchmakingFound => MatchmakingFound'
  BY StaysFound, LobbyInterfaces
     DEF Lobby!steam_init, Lobby!SteamRefuses, Lobby!steam_matchmaking_invite_user_to_lobby,
         Lobby!steam_friends_activate_overlay_invite_dialog, Lobby!LobbyFunction
<1>4. Follows'
  BY <1>1, <1>2, <1>3, QuietStep
<1>5. MirrorTypes'
  BY <1>1, <1>2, TypesStay DEF MirrorTypes
<1> QED
  BY <1>1, <1>4, <1>5, MembersStay

(* Members come and go.                                                    *)
LEMMA CreationAgrees ==
  ASSUME Lobby!LobbyAssumption, MirrorInv, NEW u \in Others, Lobby!OtherCreates(u)
  PROVE  MembersInv' /\ MirrorTypes' /\ Follows'
<1> USE DEF MirrorInv
<1>1. /\ members = <<>> /\ members' = <<u>> /\ owner' = u
      /\ UNCHANGED <<ifaceVars, ready, entering, listing, view, feed>>
  BY LobbyInterfaces DEF Lobby!OtherCreates, Lobby!scriptVars
<1>2. settings'.data = 0 /\ settings'.room = Lobby!Cardinality(Lobby!Users)
  BY DEF Lobby!OtherCreates, Lobby!NewSettings, Lobby!Unset
<1>3. u # LobbyMe
  BY DEF Lobby!LobbyAssumption, LobbyMe, Lobby!Me
<1>4. ~Lobby!Inside /\ ~Lobby!Inside'
  BY <1>1, <1>3 DEF Lobby!Inside, Lobby!In, LobbyMe
<1>5. MatchmakingFound => MatchmakingFound'
  BY <1>1, StaysFound
<1>6. StayInv'
  BY <1>1, <1>4, <1>5 DEF Follows, StayInv, MatchmakingFound
<1>7. MirrorTypes'
  BY <1>1, <1>2 DEF MirrorTypes, LobbyRooms, Lobby!LobbyAssumption
<1>8. MembersInv'
  <2>1. Len(<<u>>) = 1 /\ <<u>> # <<>> /\ <<u>>[1] = u /\ 1..1 = {1}
    OBVIOUS
  <2> QED
    BY <1>1, <2>1 DEF MembersInv
<1> QED
  BY <1>4, <1>6, <1>7, <1>8, OutsideFollows

(* A change disturbs a listing, and nothing else of what the script has.   *)
LEMMA TypesDisturbed ==
  ASSUME MirrorTypes, Lobby!Disturbed, UNCHANGED <<settings, ready, entering, view>>,
         Len(feed') <= MaxFeed
  PROVE  MirrorTypes'
<1>1. listing' \in {Lobby!NoListing} \cup Loops
  <2>1. CASE listing = Lobby!NoListing
    BY <2>1 DEF Lobby!Disturbed
  <2>2. CASE listing # Lobby!NoListing
    BY <2>2 DEF Lobby!Disturbed, MirrorTypes, Loops
  <2> QED
    BY <2>1, <2>2
<1> QED
  BY <1>1 DEF MirrorTypes

LEMMA EntryAgrees ==
  ASSUME Lobby!LobbyAssumption, MirrorInv, NEW u \in Others, Lobby!OtherEnters(u)
  PROVE  MembersInv' /\ MirrorTypes' /\ Follows'
<1> USE DEF MirrorInv
<1> DEFINE e == Lobby!LobbyChatUpdate(u, u, "ENTERED")
<1>1. /\ members # <<>> /\ ~Lobby!In(u) /\ members' = Append(members, u)
      /\ Lobby!Post(e) /\ Lobby!Disturbed
      /\ UNCHANGED <<ifaceVars, owner, settings, ready, entering, view>>
  BY LobbyInterfaces DEF Lobby!OtherEnters
<1>2. u \in Lobby!Users /\ u # LobbyMe
  BY DEF Lobby!Users, Lobby!LobbyAssumption, LobbyMe, Lobby!Me
<1>3. /\ e \in LobbyEvents /\ e.kind = "chat_update" /\ ~e.old
      /\ e.m_ulSteamIDUserChanged = u /\ e.m_rgfChatMemberStateChange = "ENTERED"
  BY <1>2 DEF Lobby!LobbyChatUpdate, LobbyEvents, LobbyOwners
<1> HIDE DEF e
<1>4. MembersInv' /\ \A v : Lobby!In(v)' <=> Lobby!In(v) \/ v = u
  BY <1>1, <1>2, WithTells
<1>5. Len(feed') <= MaxFeed /\ feed' = IF Lobby!Inside THEN Append(feed, e) ELSE feed
  BY <1>1, <1>3, Posted
<1>6. MatchmakingFound => MatchmakingFound'
  BY <1>1, StaysFound
<1>7. Follows'
  BY <1>1, <1>2, <1>3, <1>4, <1>5, <1>6, ChangeStep
<1>8. MirrorTypes'
  BY <1>1, <1>5, TypesDisturbed
<1> QED
  BY <1>4, <1>7, <1>8

LEMMA ExitAgrees ==
  ASSUME Lobby!LobbyAssumption, MirrorInv, NEW u \in Others, NEW maker \in LobbyOwners,
         NEW state \in {"LEFT", "KICKED"}, Lobby!OtherLeaves(u, maker, state)
  PROVE  MembersInv' /\ MirrorTypes' /\ Follows'
<1> USE DEF MirrorInv
<1> DEFINE e == Lobby!LobbyChatUpdate(u, maker, state)
<1>1. /\ Lobby!Post(e) /\ Lobby!Without(u) /\ Lobby!Disturbed
      /\ UNCHANGED <<ifaceVars, settings, ready, entering, view>>
  BY LobbyInterfaces DEF Lobby!OtherLeaves
<1>2. u \in Lobby!Users /\ u # LobbyMe
  BY DEF Lobby!Users, Lobby!LobbyAssumption, LobbyMe, Lobby!Me
<1>3. /\ e \in LobbyEvents /\ e.kind = "chat_update" /\ ~e.old
      /\ e.m_ulSteamIDUserChanged = u /\ e.m_rgfChatMemberStateChange # "ENTERED"
  BY <1>2 DEF Lobby!LobbyChatUpdate, LobbyEvents
<1> HIDE DEF e
<1>4. MembersInv' /\ \A v : Lobby!In(v)' <=> Lobby!In(v) /\ v # u
  BY <1>1, WithoutTells
<1>5. Len(feed') <= MaxFeed /\ feed' = IF Lobby!Inside THEN Append(feed, e) ELSE feed
  BY <1>1, <1>3, Posted
<1>6. MatchmakingFound => MatchmakingFound'
  BY <1>1, StaysFound
<1>7. Follows'
  BY <1>1, <1>2, <1>3, <1>4, <1>5, <1>6, ChangeStep
<1>8. MirrorTypes'
  BY <1>1, <1>5, TypesDisturbed
<1> QED
  BY <1>4, <1>7, <1>8

LEMMA AdmissionAgrees ==
  ASSUME Lobby!LobbyAssumption, MirrorInv, Lobby!SteamCreates \/ Lobby!SteamAdmits
  PROVE  MembersInv' /\ MirrorTypes' /\ Follows'
<1> USE DEF MirrorInv
<1>1. /\ UNCHANGED <<ifaceVars, view, listing, feed>> /\ entering.fn # "none"
      /\ ready' = 0 /\ entering' = [fn |-> "entered"]
  BY LobbyInterfaces DEF Lobby!SteamCreates, Lobby!SteamAdmits, Lobby!Unset
<1>2. MatchmakingFound => MatchmakingFound'
  BY <1>1, StaysFound
<1>3. 0 < ValueMax /\ 0 <= ValueMax
  BY DEF Lobby!LobbyAssumption
<1>4. CASE Lobby!SteamCreates
  <2>1. /\ members = <<>> /\ members' = <<LobbyMe>> /\ owner' = LobbyMe
        /\ entering.fn = "create"
    BY <1>4 DEF Lobby!SteamCreates, LobbyMe
  <2>2. settings'.data = 0 /\ settings'.room = entering.room
    BY <1>4 DEF Lobby!SteamCreates, Lobby!NewSettings, Lobby!Unset
  <2>3. ~Lobby!Inside /\ Lobby!Inside'
    BY <2>1 DEF Lobby!Inside, Lobby!In, LobbyMe
  <2>4. MembersInv'
    <3>1. Len(<<LobbyMe>>) = 1 /\ <<LobbyMe>> # <<>> /\ <<LobbyMe>>[1] = LobbyMe /\ 1..1 = {1}
      OBVIOUS
    <3> QED
      BY <2>1, <3>1 DEF MembersInv
  <2>5. MirrorTypes'
    BY <1>1, <1>3, <2>1, <2>2 DEF MirrorTypes, LobbyRooms
  <2> QED
    BY <1>1, <1>2, <2>3, <2>4, <2>5, AdmittedFollows
<1>5. CASE Lobby!SteamAdmits
  <2>1. /\ members # <<>> /\ ~Lobby!Inside /\ members' = Append(members, LobbyMe)
        /\ UNCHANGED <<owner, settings>>
    BY <1>5 DEF Lobby!SteamAdmits, LobbyMe
  <2>2. LobbyMe \in Lobby!Users
    BY DEF LobbyMe, Lobby!Users
  <2>3. MembersInv' /\ Lobby!Inside'
    BY <2>1, <2>2, WithTells, InsideIs
  <2>4. MirrorTypes'
    BY <1>1, <1>3, <2>1 DEF MirrorTypes
  <2> QED
    BY <1>1, <1>2, <2>1, <2>3, <2>4, AdmittedFollows
<1> QED
  BY <1>4, <1>5

LEMMA AskingAgrees ==
  ASSUME Lobby!LobbyAssumption, MirrorInv,
         \/ \E type \in Types, room \in Rooms :
              Lobby!steam_matchmaking_create_lobby(type, room)
         \/ Lobby!steam_matchmaking_join_lobby
  PROVE  MembersInv' /\ MirrorTypes' /\ Follows'
<1> USE DEF MirrorInv
<1>1. /\ UNCHANGED <<members, owner, settings, ready, listing, feed>>
      /\ ~Lobby!Inside /\ listing = Lobby!NoListing
      /\ Lobby!steamworks_resolve(Lobby!Matchmaking)
  BY DEF Lobby!steam_matchmaking_create_lobby, Lobby!steam_matchmaking_join_lobby,
         Lobby!lobbyVars, Lobby!LobbyFunction
<1>2. MatchmakingFound => MatchmakingFound'
  BY <1>1, StaysFound
<1>3. /\ UNCHANGED <<entering, view>> \/ (MatchmakingFound /\ view' = Lobby!NoView)
      /\ \/ entering' = entering
         \/ \E type \in Types, room \in Rooms :
              entering' = [fn |-> "create", type |-> type, room |-> Lobby!ToInt(room),
                           asked |-> room]
         \/ entering' = [fn |-> "join"]
  BY DEF Lobby!steam_matchmaking_create_lobby, Lobby!steam_matchmaking_join_lobby,
         MatchmakingFound
<1>4. entering'.fn = "create" => entering'.room \in CastRooms
  <2>1. \A room \in Rooms : Lobby!ToInt(room) \in CastRooms
    BY RoomsCast DEF Lobby!LobbyAssumption
  <2> QED
    BY <1>3, <2>1 DEF MirrorTypes
<1>5. view' \in {Lobby!NoView, view}
  BY <1>3
<1>6. MirrorTypes'
  BY <1>1, <1>4, <1>5 DEF MirrorTypes
<1>7. ~Lobby!Inside'
  BY <1>1 DEF Lobby!Inside, Lobby!In
<1>8. StayInv'
  BY <1>1, <1>2, <1>3, <1>7 DEF Follows, StayInv, MatchmakingFound
<1> QED
  BY <1>1, <1>6, <1>7, <1>8, OutsideFollows, MembersStay

LEMMA LeavingAgrees ==
  ASSUME Lobby!LobbyAssumption, MirrorInv, Lobby!steam_matchmaking_leave_lobby
  PROVE  MembersInv' /\ MirrorTypes' /\ Follows'
<1> USE DEF MirrorInv, Lobby!steam_matchmaking_leave_lobby
<1>1. /\ UNCHANGED <<settings, entering, listing>> /\ listing = Lobby!NoListing
      /\ Lobby!steamworks_resolve(Lobby!Matchmaking)
  BY DEF Lobby!LobbyFunction
<1>2. MatchmakingFound => MatchmakingFound'
  BY <1>1, StaysFound
<1>3. CASE ~MatchmakingFound
  <2>1. UNCHANGED <<members, owner, ready, feed, view>>
    BY <1>3 DEF MatchmakingFound
  <2>2. Follows'
    BY <1>1, <1>2, <2>1, QuietStep
  <2>3. MirrorTypes'
    BY <1>1, <2>1, TypesStay DEF MirrorTypes
  <2> QED
    BY <2>1, <2>2, <2>3, MembersStay
<1>4. CASE MatchmakingFound
  <2>1. /\ view' = Lobby!NoView /\ ready' = 0
        /\ \/ Lobby!Inside /\ Lobby!Without(LobbyMe) /\ feed' = Lobby!Outdated(feed)
           \/ ~Lobby!Inside /\ UNCHANGED <<members, owner, feed>>
    BY <1>4 DEF Lobby!MeGone, MatchmakingFound, LobbyMe, Lobby!Unset
  <2>2. MembersInv'
    BY <2>1, WithoutTells, MembersStay
  <2>3. Len(feed') <= MaxFeed
    BY <2>1, OutdatedAreOld DEF LobbyInv, MirrorTypes
  <2>4. MirrorTypes'
    BY <1>1, <2>1, <2>3 DEF MirrorTypes, Lobby!LobbyAssumption
  <2>5. Follows'
    BY <1>1, <1>2, <2>1, GoneFollows
  <2> QED
    BY <2>2, <2>4, <2>5
<1> QED
  BY <1>3, <1>4

LEMMA ShutdownAgrees ==
  ASSUME Lobby!LobbyAssumption, MirrorInv, Lobby!steam_shutdown
  PROVE  MembersInv' /\ MirrorTypes' /\ Follows'
<1> USE DEF MirrorInv, Lobby!steam_shutdown
<1>1. /\ UNCHANGED <<settings, listing>> /\ listing = Lobby!NoListing
      /\ entering'.fn = "none" /\ view' = Lobby!NoView /\ ready' = 0
      /\ \/ Lobby!Inside /\ Lobby!Without(LobbyMe)
         \/ ~Lobby!Inside /\ UNCHANGED <<members, owner>>
  BY DEF Lobby!NoCall, LobbyMe, Lobby!Unset
<1>2. PICK n \in 0..Len(feed) : feed' = Lobby!Outdated(SubSeq(feed, 1, n))
  OBVIOUS
<1>3. MembersInv'
  BY <1>1, WithoutTells, MembersStay
<1>4. Len(feed') <= MaxFeed
  <2> DEFINE s == SubSeq(feed, 1, n)
  <2>1. n \in Nat /\ n <= Len(feed) /\ Len(feed) \in Nat /\ MaxFeed \in Int
        /\ \A i \in 1..n : feed[i] \in LobbyEvents
    BY DEF LobbyInv, Lobby!LobbyAssumption
  <2>2. s \in Seq(LobbyEvents) /\ Len(s) = n
    BY <2>1, SubSeqProperties
  <2>3. feed' = Lobby!Outdated(s)
    BY <1>2
  <2> HIDE DEF s
  <2>4. Len(feed') = n
    BY <2>2, <2>3, OutdatedAreOld
  <2> QED
    BY <2>1, <2>4 DEF MirrorTypes
<1>5. MirrorTypes'
  BY <1>1, <1>4 DEF MirrorTypes, Lobby!LobbyAssumption
<1>6. Follows'
  BY <1>1, <1>2, GoneFollows
<1> QED
  BY <1>3, <1>5, <1>6

LEMMA ListingAgrees ==
  ASSUME MirrorInv,
         \/ Lobby!steam_matchmaking_get_num_lobby_members
         \/ Lobby!steam_matchmaking_get_lobby_member_by_index
         \/ Lobby!steam_matchmaking_get_events
  PROVE  MembersInv' /\ MirrorTypes' /\ Follows'
<1> USE DEF MirrorInv
<1>1. /\ UNCHANGED <<members, owner, settings, ready>>
      /\ feed' \in {feed, <<>>}
      /\ entering' = entering \/ entering' = Lobby!NoCall
  BY DEF Lobby!steam_matchmaking_get_num_lobby_members,
         Lobby!steam_matchmaking_get_lobby_member_by_index,
         Lobby!steam_matchmaking_get_events, Lobby!lobbyVars
<1>2. Follows' /\ listing' \in {Lobby!NoListing} \cup Loops
      /\ view' \in {Lobby!NoView} \cup Views
  <2>1. CASE Lobby!steam_matchmaking_get_num_lobby_members
    BY <2>1, ListingStarts DEF Lobby!steam_matchmaking_get_num_lobby_members, MirrorTypes
  <2>2. CASE Lobby!steam_matchmaking_get_lobby_member_by_index
    <3>1. listing # Lobby!NoListing
      BY <2>2 DEF Lobby!steam_matchmaking_get_lobby_member_by_index
    <3>2. listing.next < listing.num \/ listing.next >= listing.num
      BY <3>1 DEF MirrorTypes, Loops
    <3> QED
      BY <2>2, <3>1, <3>2, ListingGoesOn, ListingEnds DEF MirrorTypes
  <2>3. CASE Lobby!steam_matchmaking_get_events
    BY <2>3, DrainFollows DEF Lobby!steam_matchmaking_get_events, MirrorTypes
  <2> QED
    BY <1>1, <2>1, <2>2, <2>3
<1>3. Len(feed') <= MaxFeed
  BY <1>1, ServicesAssumption
     DEF MirrorTypes, ServicesAssumption, Lobby!LobbyAssumption
<1>4. MirrorTypes'
  BY <1>1, <1>2, <1>3 DEF MirrorTypes, Lobby!NoCall
<1> QED
  BY <1>1, <1>2, <1>4, MembersStay

LEMMA LobbyResolves ==
  ASSUME IfaceTypeOK, Lobby!Next
  PROVE  IfaceTypeOK'
<1>1. Lobby!Matchmaking \in Interfaces /\ "ISteamFriends" \in Interfaces
  BY DEF Lobby!Matchmaking, Interfaces, versions
<1>2. \/ UNCHANGED ifaceVars
      \/ Lobby!steamworks_resolve(Lobby!Matchmaking)
      \/ Lobby!steamworks_resolve("ISteamFriends")
      \/ \E client \in Clients : Lobby!SteamAPI_InitFlat(client)
      \/ Lobby!SteamAPI_Shutdown
  BY LobbyInterfaces
     DEF Lobby!Next, Lobby!OthersAct, Lobby!SteamAnswers, Lobby!OtherCreates,
         Lobby!OtherEnters, Lobby!OtherLeaves, Lobby!OtherSetsData, Lobby!OtherSays,
         Lobby!SteamCreates, Lobby!SteamAdmits, Lobby!SteamRefuses, Lobby!LobbyFunction,
         Lobby!Set, Lobby!steam_init, Lobby!steam_shutdown,
         Lobby!steam_matchmaking_create_lobby, Lobby!steam_matchmaking_join_lobby,
         Lobby!steam_matchmaking_leave_lobby, Lobby!steam_matchmaking_get_num_lobby_members,
         Lobby!steam_matchmaking_get_lobby_member_by_index,
         Lobby!steam_matchmaking_set_lobby_data,
         Lobby!steam_matchmaking_set_lobby_member_data,
         Lobby!steam_matchmaking_set_lobby_joinable, Lobby!steam_matchmaking_set_lobby_type,
         Lobby!steam_matchmaking_set_lobby_owner,
         Lobby!steam_matchmaking_send_lobby_chat_msg,
         Lobby!steam_matchmaking_invite_user_to_lobby,
         Lobby!steam_friends_activate_overlay_invite_dialog,
         Lobby!steam_matchmaking_get_events
<1> QED
  BY <1>1, <1>2, IfaceStays

LEMMA MirrorNext ==
  ASSUME Lobby!LobbyAssumption, MirrorInv, Lobby!Next
  PROVE  MirrorInv'
<1> USE DEF MirrorInv
<1>1. LobbyInv' /\ IfaceTypeOK'
  BY LobbyNext, LobbyResolves
<1>2. ASSUME Lobby!OthersAct PROVE MembersInv' /\ MirrorTypes' /\ Follows'
  <2>1. Others \subseteq LobbyOwners /\ owner \in LobbyOwners
    BY DEF LobbyOwners, Lobby!Users, LobbyInv
  <2> QED
    BY <1>2, <2>1, CreationAgrees, EntryAgrees, ExitAgrees, OtherActsAgree
       DEF Lobby!OthersAct
<1>3. ASSUME Lobby!SteamAnswers PROVE MembersInv' /\ MirrorTypes' /\ Follows'
  BY <1>3, AdmissionAgrees, NothingMoves DEF Lobby!SteamAnswers
<1>4. MembersInv' /\ MirrorTypes' /\ Follows'
  BY <1>2, <1>3, ShutdownAgrees, AskingAgrees, LeavingAgrees, ListingAgrees, SetDataAgrees,
     SetMemberDataAgrees, SettingsAgree, OwnerAgrees, SendAgrees, NothingMoves
     DEF Lobby!Next
<1> QED
  BY <1>1, <1>4

LEMMA MirrorInitially ==
  ASSUME Lobby!LobbyAssumption, Lobby!LobbyInit, IfaceInit
  PROVE  MirrorInv
<1>1. LobbyInv /\ IfaceTypeOK
  BY LobbyInitially, IfaceInitTypes
<1>2. /\ members = <<>> /\ owner = Lobby!Nobody /\ entering.fn = "none" /\ feed = <<>>
      /\ settings.room = 0 /\ settings.data = 0 /\ ready = 0
      /\ view = Lobby!NoView /\ listing = Lobby!NoListing
  BY DEF Lobby!LobbyInit, Lobby!NoCall, Lobby!Unset
<1>3. ~Lobby!Inside /\ Lobby!About(feed, LobbyMe) = {}
  BY <1>2 DEF Lobby!Inside, Lobby!In, Lobby!About
<1>4. MembersInv
  BY <1>2 DEF MembersInv
<1>5. MirrorTypes
  BY <1>2 DEF MirrorTypes, LobbyRooms, CastRooms, Lobby!LobbyAssumption
<1>6. Follows
  BY <1>2, <1>3 DEF Follows, StayInv, CountInv, FeedTells, MembersFollow, DataFollows
<1> QED
  BY <1>1, <1>4, <1>5, <1>6 DEF MirrorInv

LEMMA LobbyTypesAre ==
  ASSUME Lobby!LobbyAssumption, MirrorInv
  PROVE  Lobby!LobbyTypeOK
<1> USE DEF MirrorInv
<1>1. Lobby!IfaceTypeOK
  BY LobbyInterfaces
<1>2. members \in Seq(Lobby!Users) /\ DOMAIN members = 1..Len(members)
  BY DEF LobbyInv
<1>3. Lobby!IsInjective(members)
  BY <1>2 DEF MembersInv, Lobby!IsInjective
<1>4. owner \in IF members = <<>> THEN {Lobby!Nobody} ELSE Lobby!ToSet(members)
  BY <1>2 DEF MembersInv, Lobby!ToSet
<1>5. settings.room \in (-IntMax - 1)..IntMax \cup {Lobby!Cardinality(Lobby!Users)}
  BY DEF MirrorTypes, LobbyRooms, CastRooms
<1>6. settings.joinable \in BOOLEAN /\ settings.data \in 0..(ValueMax - 1)
  BY DEF MirrorTypes, LobbyInv, LobbySettings, Lobby!LobbyAssumption
<1>7. {ready, claimedReady} \subseteq 0..ValueMax
  BY DEF MirrorTypes, LobbyInv, Lobby!LobbyAssumption
<1>8. entering.fn \in {"none", "create", "join", "entered"}
  BY DEF LobbyInv, LobbyCalls, Creating
<1>9. Len(feed) <= MaxFeed /\ (view # Lobby!NoView => view.members \subseteq Lobby!Users)
  BY DEF MirrorTypes, Views
<1> QED
  BY <1>1, <1>2, <1>3, <1>4, <1>5, <1>6, <1>7, <1>8, <1>9 DEF Lobby!LobbyTypeOK

(* The picture of a script that followed every event is the lobby.         *)
LEMMA PictureIsTheLobby ==
  ASSUME MirrorInv
  PROVE  Lobby!MirrorAgrees
<1> USE DEF MirrorInv, Follows
<1> SUFFICES ASSUME view # Lobby!NoView, view.sound, Lobby!Inside, feed = <<>>
             PROVE  view.members = Lobby!ToSet(members) /\ view.data = settings.data
  BY DEF Lobby!MirrorAgrees
<1>1. members \in Seq(Lobby!Users) /\ DOMAIN members = 1..Len(members) /\ view \in Views
  BY DEF LobbyInv, MirrorTypes
<1>2. Lobby!OfThisStay(feed) /\ \A u : Lobby!About(feed, u) = {}
  BY DEF Lobby!OfThisStay, Lobby!About
<1>3. \A u \in Lobby!Users : u \in view.members <=> Lobby!In(u)
  BY <1>2 DEF MembersFollow
<1>4. view.members \subseteq Lobby!Users
      /\ \A u : u \in Lobby!ToSet(members) => u \in Lobby!Users
  BY <1>1 DEF Views, Lobby!ToSet
<1>5. \A u : Lobby!In(u) <=> u \in Lobby!ToSet(members)
  BY DEF Lobby!In, Lobby!ToSet
<1>6. view.data = settings.data
  BY DEF DataFollows
<1> QED
  BY <1>3, <1>4, <1>5, <1>6

(* A script that listed the members when it came in, undisturbed, and      *)
(* followed every event since has the members and the data Steam has       *)
(* whenever nothing is queued.                                             *)
THEOREM MirrorsAgree == Spec => []MirrorAgrees
<1> DEFINE Inv == scene = "lobby" => MirrorInv
<1> USE ServicesAssumption DEF ServicesAssumption
<1>1. Init => Inv
  BY MirrorInitially DEF Init, MockScenes
<1>2. Inv /\ [Next]_vars => Inv'
  <2> SUFFICES ASSUME scene' = "lobby", Inv, [Next]_vars PROVE MirrorInv'
    OBVIOUS
  <2>1. scene' = scene
    BY DEF Next, LobbyStep, StatsStep, BoardStep, SocialStep, TimelineStep, AuthStep, MockStep,
           vars
  <2>2. LobbyStep \/ UNCHANGED vars
    BY <2>1 DEF Next, StatsStep, BoardStep, SocialStep, TimelineStep, AuthStep, MockStep,
                SocialScenes
  <2>3. CASE LobbyStep
    BY <2>1, <2>3, MirrorNext DEF LobbyStep
  <2>4. CASE UNCHANGED vars
    <3>1. UNCHANGED <<ifaceVars, lobbyVars>>
      BY <2>4 DEF vars
    <3> QED
      BY <2>1, <3>1 DEF lobbyVars, ifaceVars, MirrorInv, IfaceTypeOK, LobbyInv, LobbyClaim,
         MembersInv, MirrorTypes, Follows, StayInv, CountInv, FeedTells, MembersFollow,
         DataFollows, Lobby!Inside, Lobby!In, Lobby!Found, Lobby!StopsAt, Lobby!FindOrCreate
  <2> QED
    BY <2>2, <2>3, <2>4
<1>3. Inv => MirrorAgrees
  BY LobbyTypesAre, PictureIsTheLobby DEF MirrorAgrees
<1> QED
  BY <1>1, <1>2, <1>3, PTL DEF Spec

-----------------------------------------------------------------------------
(* The mock's lookup: the switches are set before the process starts, and  *)
(* nothing but resolutions, which only raise notices, happens to it.       *)

Utils == "ISteamUtils"
Sockets == "ISteamNetworkingSockets"

(* The interfaces a switch is about.                                       *)
Switched ==
  {f \in Interfaces :
     \/ f = Utils /\ "STEAMWORKS_MOCK_LEGACY_UTILS" \in environment
     \/ f = Sockets /\ "STEAMWORKS_MOCK_LEGACY_NET" \in environment}

LookupInv ==
  /\ user = 1
  /\ offered = {v \in ListedVersions : Mock!MockFinds(v, environment)}
  /\ raised \in [Interfaces -> Seq({"E_DEPRECATED", "E_WARNING"})]
  /\ \A f \in Interfaces \ Switched : raised[f] = <<>>

LEMMA MockPointers ==
  /\ Mock!ListedVersions = ListedVersions
  /\ \A f \in Interfaces : Mock!Pointer(f) = Pointer(f)
<1>1. Mock!versions = versions /\ Mock!Interfaces = Interfaces
  BY MockInterfaces
<1>2. \A f, i : Mock!StopsAt(f, i) <=> StopsAt(f, i)
  BY <1>1 DEF Mock!StopsAt, StopsAt, Mock!FindOrCreate, FindOrCreate
<1>3. ASSUME NEW f \in Interfaces PROVE Mock!Pointer(f) = Pointer(f)
  <2> DEFINE i == CHOOSE j \in DOMAIN versions[f] : StopsAt(f, j)
             k == CHOOSE j \in DOMAIN Mock!versions[f] : Mock!StopsAt(f, j)
  <2>1. CASE Found(f)
    <3>1. i \in DOMAIN versions[f] /\ StopsAt(f, i) /\ Pointer(f) = versions[f][i]
      BY <2>1 DEF Found, Pointer
    <3>2. /\ k \in DOMAIN Mock!versions[f] /\ Mock!StopsAt(f, k)
          /\ Mock!Pointer(f) = Mock!versions[f][k]
      BY <2>1, MockInterfaces DEF Mock!Found, Mock!Pointer
    <3>3. i \in {1, 2} /\ k \in {1, 2} /\ StopsAt(f, k)
      BY <1>1, <1>2, <3>1, <3>2, VersionTables
    <3> HIDE DEF i, k
    <3>4. i = k
      BY <3>1, <3>3 DEF StopsAt
    <3> QED
      BY <1>1, <3>1, <3>2, <3>4
  <2>2. CASE ~Found(f)
    BY <2>2, MockInterfaces DEF Mock!Pointer, Pointer, Mock!NULL, NULL
  <2> QED
    BY <2>1, <2>2
<1> QED
  BY <1>1, <1>3 DEF Mock!ListedVersions, ListedVersions

LEMMA Newest == \A f \in Interfaces : versions[f][1] \in ListedVersions
BY VersionTables DEF ListedVersions

(* The list of the mock and the tables of the extension agree.             *)
LEMMA MockFindsNewest ==
  ASSUME NEW f \in Interfaces \ Switched
  PROVE  Mock!MockFinds(versions[f][1], environment)
BY DEF Switched, Utils, Sockets, Interfaces, versions, user_versions, friends_versions,
       stats_versions, remote_versions, apps_versions, timeline_versions, ugc_versions,
       net_utils_versions, matchmaking_versions, utils_versions, net_versions,
       Mock!MockFinds, Mock!UtilsFamily, Mock!NetFamily, Mock!mock_offered

LEMMA MockKnows ==
  ASSUME NEW f \in Interfaces, NEW i \in DOMAIN versions[f]
  PROVE  ~Mock!Unknown(versions[f][i])
<1>1. DOMAIN versions[f] \in {{1}, {1, 2}}
  BY VersionTables
<1> QED
  BY <1>1 DEF Interfaces, versions, user_versions, friends_versions,
       stats_versions, remote_versions, apps_versions, timeline_versions, ugc_versions,
       net_utils_versions, matchmaking_versions, utils_versions, net_versions,
       Mock!Unknown, Mock!UtilsFamily, Mock!NetFamily, Mock!mock_offered

(* Without a switch an interface resolves to its newest version.           *)
LEMMA NewestFound ==
  ASSUME LookupInv, NEW f \in Interfaces \ Switched
  PROVE  Pointer(f) = versions[f][1] /\ Notice(f) = "none"
<1>1. FindOrCreate(versions[f][1])
  BY Newest, MockFindsNewest DEF LookupInv, FindOrCreate
<1>2. 1 \in DOMAIN versions[f] /\ StopsAt(f, 1)
  BY <1>1, VersionTables DEF StopsAt
<1>3. Found(f)
  BY <1>2 DEF Found
<1>4. Pointer(f) = versions[f][1]
  BY <1>1, <1>3, ScanFindsNewest
<1> QED
  BY <1>2, <1>3, <1>4 DEF Notice

(* With its switch the utils are missing, and the sockets are old.         *)
LEMMA SwitchedUtils ==
  ASSUME LookupInv, "STEAMWORKS_MOCK_LEGACY_UTILS" \in environment
  PROVE  Pointer(Utils) = NULL
<1>1. versions[Utils] = <<"SteamUtils011">>
  BY DEF versions, Utils, utils_versions
<1>2. ~Mock!MockFinds("SteamUtils011", environment)
  BY DEF Mock!MockFinds, Mock!UtilsFamily
<1>3. ~Found(Utils)
  BY <1>1, <1>2 DEF Found, StopsAt, FindOrCreate, LookupInv
<1> QED
  BY <1>3 DEF Pointer

LEMMA SwitchedSockets ==
  ASSUME LookupInv, "STEAMWORKS_MOCK_LEGACY_NET" \in environment
  PROVE  Pointer(Sockets) = "SteamNetworkingSockets012"
<1>1. Sockets \in Interfaces
      /\ versions[Sockets] = <<"SteamNetworkingSockets013", "SteamNetworkingSockets012">>
  BY DEF Interfaces, versions, Sockets, net_versions
<1>2. /\ ~Mock!MockFinds("SteamNetworkingSockets013", environment)
      /\ Mock!MockFinds("SteamNetworkingSockets012", environment)
  BY DEF Mock!MockFinds, Mock!UtilsFamily, Mock!NetFamily
<1>3. "SteamNetworkingSockets012" \in ListedVersions
  BY <1>1 DEF ListedVersions
<1>4. /\ ~FindOrCreate(versions[Sockets][1]) /\ FindOrCreate(versions[Sockets][2])
  BY <1>1, <1>2, <1>3 DEF FindOrCreate, LookupInv
<1>5. 2 \in DOMAIN versions[Sockets] /\ StopsAt(Sockets, 2)
  BY <1>1, <1>4 DEF StopsAt
<1>6. Found(Sockets)
  BY <1>5 DEF Found
<1>7. FindOrCreate(Pointer(Sockets))
      /\ \E i \in DOMAIN versions[Sockets] : Pointer(Sockets) = versions[Sockets][i]
  BY <1>1, <1>6, ScanFindsNewest
<1> QED
  BY <1>1, <1>4, <1>7

LEMMA LookupInvImplies == LookupInv => Mock!LookupInSync
<1> SUFFICES ASSUME LookupInv PROVE Mock!LookupInSync
  OBVIOUS
<1>1. \A v \in ListedVersions : ~Mock!Unknown(v)
  BY MockKnows DEF ListedVersions
<1>2. ASSUME NEW f \in Interfaces \ Switched
      PROVE  Pointer(f) = versions[f][1] /\ raised[f] = <<>>
  BY <1>2, NewestFound DEF LookupInv
<1>3. \A f \in Interfaces :
        CASE f = "ISteamUtils" /\ "STEAMWORKS_MOCK_LEGACY_UTILS" \in environment ->
               Pointer(f) = NULL
          [] f = "ISteamNetworkingSockets" /\ "STEAMWORKS_MOCK_LEGACY_NET" \in environment ->
               Pointer(f) = "SteamNetworkingSockets012"
          [] OTHER -> Pointer(f) = versions[f][1] /\ raised[f] = <<>>
  BY <1>2, SwitchedUtils, SwitchedSockets DEF Switched, Utils, Sockets
<1> QED
  BY <1>1, <1>3, MockPointers, MockInterfaces DEF Mock!LookupInSync, Mock!NULL, NULL

LEMMA AccessorKeeps ==
  ASSUME LookupInv, NEW f \in Interfaces, Mock!accessor(f)
  PROVE  LookupInv'
<1>1. steamworks_resolve(f) /\ UNCHANGED environment
  BY MockInterfaces DEF Mock!accessor
<1>2. UNCHANGED <<user, offered>> /\ Switched' = Switched
  BY <1>1 DEF steamworks_resolve, Switched
<1>3. \/ UNCHANGED raised
      \/ /\ Notice(f) \in {"E_DEPRECATED", "E_WARNING"}
         /\ raised' = [raised EXCEPT ![f] = Append(@, Notice(f))]
  BY <1>1 DEF steamworks_resolve, Notice
<1>4. raised' \in [Interfaces -> Seq({"E_DEPRECATED", "E_WARNING"})]
  <2>1. raised[f] \in Seq({"E_DEPRECATED", "E_WARNING"})
    BY DEF LookupInv
  <2> QED
    BY <1>3, <2>1 DEF LookupInv
<1>5. f \notin Switched => Notice(f) = "none"
  BY NewestFound
<1>6. \A g \in Interfaces \ Switched : raised'[g] = <<>>
  BY <1>3, <1>5 DEF LookupInv
<1> QED
  BY <1>1, <1>2, <1>4, <1>6 DEF LookupInv

(* The mock keeps up with the version tables: whatever switches a test     *)
(* sets and whatever it asks for, every version the extension may request  *)
(* is known, and only a switched interface is missing or old.              *)
THEOREM MockKeepsUp == Spec => []LookupInSync
<1> DEFINE Inv == scene \in MockScenes => LookupInv
<1>1. Init => Inv
  <2> SUFFICES ASSUME Init, scene \in MockScenes PROVE LookupInv
    OBVIOUS
  <2>1. /\ user = 1 /\ offered = {v \in Mock!ListedVersions : Mock!MockFinds(v, environment)}
        /\ raised = [f \in Mock!Interfaces |-> <<>>]
    BY DEF Init, Mock!LookupInit
  <2>2. offered = {v \in ListedVersions : Mock!MockFinds(v, environment)}
    BY <2>1, MockPointers
  <2>3. raised = [f \in Interfaces |-> <<>>]
    BY <2>1, MockInterfaces
  <2> QED
    BY <2>1, <2>2, <2>3 DEF LookupInv
<1>2. Inv /\ [Next]_vars => Inv'
  <2> SUFFICES ASSUME scene' \in MockScenes, Inv, [Next]_vars PROVE LookupInv'
    OBVIOUS
  <2>1. ASSUME UNCHANGED <<ifaceVars, environment, scene>> PROVE LookupInv'
    BY <2>1 DEF LookupInv, ifaceVars, Switched
  <2>2. CASE MockStep
    <3>1. scene \in MockScenes /\ UNCHANGED scene
      BY <2>2 DEF MockStep, MockScenes
    <3>2. CASE Mock!EventStep \/ Mock!DataStep
      <4>1. UNCHANGED <<ifaceVars, environment>>
        BY <3>2, MockInterfaces
           DEF Mock!EventStep, Mock!DataStep, Mock!steam_mock_fire_callback,
               Mock!steam_mock_fire_unknown, Mock!steam_shutdown, Mock!Drain,
               Mock!SetLobbyData, Mock!SetLobbyMemberData
      <4> QED
        BY <2>1, <3>1, <4>1
    <3>3. CASE Mock!LookupStep
      BY <3>1, <3>3, AccessorKeeps, MockInterfaces DEF Mock!LookupStep
    <3> QED
      BY <2>2, <3>2, <3>3 DEF MockStep
  <2>3. CASE UNCHANGED vars
    BY <2>1, <2>3 DEF vars, mockVars
  <2> QED
    BY <2>2, <2>3 DEF Next, LobbyStep, StatsStep, BoardStep, SocialStep, TimelineStep, AuthStep,
                      MockScenes, SocialScenes
<1>3. Inv => LookupInSync
  BY LookupInvImplies DEF LookupInSync
<1> QED
  BY <1>1, <1>2, <1>3, PTL DEF Spec

-----------------------------------------------------------------------------
(* The mock's table of callback objects.                                   *)

LEMMA MockMin ==
  ASSUME NEW S \in SUBSET Nat, S # {}
  PROVE  Mock!Min(S) \in S
BY LeastOf DEF Mock!Min

LEMMA ObjectsApart ==
  /\ DOMAIN Mock!Objects = 1..7 /\ Len(Mock!Objects) = 7
  /\ Mock!Objects = [i \in 1..7 |-> Mock!Objects[i]]
  /\ \A i, j \in 1..7 : Mock!Objects[i] = Mock!Objects[j] => i = j
<1>1. Len(Mock!Objects) = 7 /\ DOMAIN Mock!Objects = 1..7
  BY DEF Mock!Objects
<1>2. ASSUME NEW i \in 1..7, NEW j \in 1..7, Mock!Objects[i] = Mock!Objects[j]
      PROVE  i = j
  BY <1>2 DEF Mock!Objects
<1>3. Mock!Objects = [i \in DOMAIN Mock!Objects |-> Mock!Objects[i]]
  BY DEF Mock!Objects
<1> QED
  BY <1>1, <1>2, <1>3

(* Registering fills an empty table in the order of the objects.           *)
LEMMA RegisteredFromEmpty ==
  ASSUME Mock!MockAssumption, mock_callbacks = <<>>, callbacks_registered = FALSE
  PROVE  Mock!Registered = Mock!Objects
<1> DEFINE o == Mock!Objects
           Body(f, n) ==
             IF n = 0 THEN mock_callbacks ELSE Mock!SteamAPI_RegisterCallback(f[n - 1], o[n])
           after == CHOOSE f : f = [n \in 0..Len(o) |-> Body(f, n)]
           filled == [n \in 0..7 |-> [i \in 1..n |-> o[i]]]
<1>1. Mock!Registered = after[Len(o)]
  BY DEF Mock!Registered
<1>2. /\ o = [i \in 1..7 |-> o[i]] /\ Len(o) = 7
      /\ MaxCallbacks \in Nat /\ MaxCallbacks >= 7
  BY ObjectsApart DEF Mock!MockAssumption
<1>3. o = filled[7]
  BY <1>2
<1> HIDE DEF o
<1>4. ASSUME NEW n \in 1..7
      PROVE  Mock!SteamAPI_RegisterCallback(filled[n - 1], o[n]) = filled[n]
  <2> DEFINE S == {o[i] : i \in 1..7}
             table == [i \in 1..(n - 1) |-> o[i]]
  <2>1. table \in Seq(S) /\ Len(table) = n - 1 /\ o[n] \in S
    OBVIOUS
  <2>2. Append(table, o[n]) = [i \in 1..n |-> o[i]]
    BY <2>1
  <2>3. filled[n - 1] = table /\ filled[n] = [i \in 1..n |-> o[i]]
    OBVIOUS
  <2>4. Len(table) < MaxCallbacks
    BY <1>2, <2>1
  <2> HIDE DEF table, filled
  <2> QED
    BY <2>2, <2>3, <2>4 DEF Mock!SteamAPI_RegisterCallback
<1>5. \A n \in 0..7 : filled[n] = Body(filled, n)
  <2>1. filled[0] = <<>>
    OBVIOUS
  <2> HIDE DEF filled
  <2> QED
    BY <1>4, <2>1
<1>6. filled = [n \in 0..Len(o) |-> Body(filled, n)]
  BY <1>2, <1>5
<1>7. after = [n \in 0..Len(o) |-> Body(after, n)]
  BY <1>6
<1> HIDE DEF after
<1>8. after[0] = filled[0] /\ \A n \in 1..7 : after[n] = Body(after, n)
  BY <1>2, <1>7
<1>9. \A n \in 1..7 : after[n - 1] = filled[n - 1] => after[n] = filled[n]
  BY <1>4, <1>8
<1> HIDE DEF filled
<1>10. after[7] = filled[7]
  BY <1>8, <1>9
<1> QED
  BY <1>1, <1>2, <1>3, <1>10 DEF o

(* Unregistering empties it again: the last entry moves into each gap.     *)
LEMMA UnregisteredFromFull ==
  ASSUME mock_callbacks = Mock!Objects, callbacks_registered = TRUE
  PROVE  Mock!Unregistered = <<>>
<1> DEFINE o == Mock!Objects
           Body(f, n) ==
             IF n = 0 THEN mock_callbacks ELSE Mock!SteamAPI_UnregisterCallback(f[n - 1], o[n])
           after == CHOOSE f : f = [n \in 0..Len(o) |-> Body(f, n)]
           left == [n \in 0..7 |-> [i \in 1..(7 - n) |-> IF i <= n THEN o[8 - i] ELSE o[i]]]
<1>1. Mock!Unregistered = after[Len(o)]
  BY DEF Mock!Unregistered
<1>2. /\ o = [i \in 1..7 |-> o[i]] /\ Len(o) = 7
      /\ \A i, j \in 1..7 : o[i] = o[j] => i = j
  BY ObjectsApart
<1>3. o = left[0] /\ mock_callbacks = o
  BY <1>2
<1> HIDE DEF o
<1>4. ASSUME NEW n \in 1..7
      PROVE  Mock!SteamAPI_UnregisterCallback(left[n - 1], o[n]) = left[n]
  <2> DEFINE S == {o[i] : i \in 1..7}
             table == left[n - 1]
             m == 8 - n
             p == IF n <= 4 THEN n ELSE m
             moved == [table EXCEPT ![p] = table[m]]
  <2>1. /\ m \in 1..7 /\ p \in 1..m /\ DOMAIN table = 1..m
        /\ \A i \in 1..m : table[i] = IF i < n THEN o[8 - i] ELSE o[i]
    OBVIOUS
  <2>2. table = [i \in 1..m |-> table[i]]
    <3>1. left[n - 1] = [i \in 1..(7 - (n - 1)) |->
                           IF i <= n - 1 THEN o[8 - i] ELSE o[i]]
      OBVIOUS
    <3> HIDE DEF left
    <3>2. table = [i \in DOMAIN table |-> table[i]]
      BY <3>1
    <3> HIDE DEF table
    <3> QED
      BY <2>1, <3>2
  <2>10. p \in Nat /\ (n <= 4 => p = n) /\ (n > 4 => p = m) /\ m = 8 - n /\ m \in Nat
    BY <2>1
  <2>11. ASSUME NEW i \in 1..m PROVE table[i] \in S
    <3>1. \A k \in 1..7 : o[k] \in S
      OBVIOUS
    <3>2. i \in 1..7 /\ 8 - i \in 1..7
      BY <2>1
    <3> QED
      BY <2>1, <3>1, <3>2
  <2> HIDE DEF S, p, m
  <2>3. \A i \in 1..m : table[i] = o[n] <=> i = p
    <3>1. ASSUME NEW i \in 1..m, i < n PROVE table[i] = o[n] <=> i = 8 - n
      BY <1>2, <2>1, <2>10, <3>1
    <3>2. ASSUME NEW i \in 1..m, i >= n PROVE table[i] = o[n] <=> i = n
      BY <1>2, <2>1, <2>10, <3>2
    <3>3. ASSUME NEW i \in 1..m PROVE table[i] = o[n] <=> i = p
      <4>1. CASE i < n
        <5>1. table[i] = o[n] <=> i = 8 - n
          BY <3>1, <4>1
        <5>2. i = 8 - n <=> i = p
          BY <2>1, <2>10, <4>1
        <5> QED
          BY <5>1, <5>2
      <4>2. CASE i >= n
        <5>1. table[i] = o[n] <=> i = n
          BY <3>2, <4>2
        <5>2. i = n <=> i = p
          BY <2>1, <2>10, <4>2
        <5> QED
          BY <5>1, <5>2
      <4> QED
        BY <2>10, <4>1, <4>2
    <3> QED
      BY <3>3
  <2> HIDE DEF table
  <2>4. table \in Seq(S) /\ Len(table) = m
    BY <2>2, <2>10, <2>11
  <2>5. moved \in Seq(S) /\ Len(moved) = m
        /\ \A i \in 1..m : moved[i] = IF i = p THEN table[m] ELSE table[i]
    BY <2>1, <2>2, <2>4, <2>11
  <2>6. Mock!SteamAPI_UnregisterCallback(table, o[n]) = SubSeq(moved, 1, m - 1)
    <3>1. {i \in DOMAIN table : table[i] = o[n]} = {p}
      BY <2>1, <2>3
    <3>2. Mock!Min({p}) = p
      BY <2>10, MockMin
    <3>3. Mock!Last(table) = table[m] /\ Mock!Front(moved) = SubSeq(moved, 1, m - 1)
      BY <2>4, <2>5 DEF Mock!Last, Mock!Front
    <3>4. \E i \in DOMAIN table : table[i] = o[n]
      BY <2>1, <2>3
    <3> HIDE DEF moved
    <3>5. Mock!SteamAPI_UnregisterCallback(table, o[n])
          = Mock!Front([table EXCEPT ![Mock!Min({i \in DOMAIN table : table[i] = o[n]})]
                          = Mock!Last(table)])
      BY <3>4 DEF Mock!SteamAPI_UnregisterCallback
    <3>6. Mock!Min({i \in DOMAIN table : table[i] = o[n]}) = p
      BY <3>1, <3>2
    <3>7. [table EXCEPT ![Mock!Min({i \in DOMAIN table : table[i] = o[n]})]
             = Mock!Last(table)] = moved
      BY <3>3, <3>6 DEF moved
    <3> QED
      BY <3>3, <3>5, <3>7
  <2> HIDE DEF moved
  <2>7. SubSeq(moved, 1, m - 1) = [i \in 1..(m - 1) |-> moved[i]]
    BY <2>1, <2>5, <2>10
  <2>8. \A i \in 1..(m - 1) : moved[i] = IF i <= n THEN o[8 - i] ELSE o[i]
    BY <2>1, <2>5, <2>10
  <2>9. left[n] = [i \in 1..(m - 1) |-> IF i <= n THEN o[8 - i] ELSE o[i]]
    BY <2>10
  <2> HIDE DEF left
  <2> QED
    BY <2>6, <2>7, <2>8, <2>9 DEF table
<1>5. \A n \in 0..7 : left[n] = Body(left, n)
  <2> HIDE DEF left
  <2> QED
    BY <1>3, <1>4
<1>6. left = [n \in 0..Len(o) |-> Body(left, n)]
  BY <1>2, <1>5
<1>7. after = [n \in 0..Len(o) |-> Body(after, n)]
  BY <1>6
<1> HIDE DEF after
<1>8. after[0] = left[0] /\ \A n \in 1..7 : after[n] = Body(after, n)
  BY <1>2, <1>3, <1>7
<1>9. \A n \in 1..7 : after[n - 1] = left[n - 1] => after[n] = left[n]
  BY <1>4, <1>8
<1>10. left[7] = <<>>
  OBVIOUS
<1> HIDE DEF left
<1>11. after[7] = left[7]
  BY <1>8, <1>9
<1> QED
  BY <1>1, <1>2, <1>10, <1>11

-----------------------------------------------------------------------------
(* The mock's tables of data are maps from owners and keys to values.      *)

MockOwners == Lobbies \cup {Mock!Me, "none"}
MockKeys == Entries \cup {""}
MockValues == Contents \cup {""}
MockTables == [1..KvSlots -> [user : MockOwners, key : MockKeys, value : MockValues]]

LEMMA MockHeld ==
  ASSUME KvSlots \in Nat, NEW table \in MockTables, NEW o, NEW k
  PROVE  LET slots == Mock!Held(table, o, k)
         IN /\ slots \subseteq 1..KvSlots
            /\ slots # {} => /\ Mock!Min(slots) \in slots
                             /\ Mock!mock_kv_get(table, o, k) = table[Mock!Min(slots)].value
            /\ slots = {} => Mock!mock_kv_get(table, o, k) = ""
<1>1. DOMAIN table = 1..KvSlots
  BY DEF MockTables
<1>2. Mock!Held(table, o, k) \subseteq 1..KvSlots
  BY <1>1 DEF Mock!Held
<1>3. Mock!Held(table, o, k) \in SUBSET Nat
  BY <1>2
<1> QED
  BY <1>2, <1>3, MockMin DEF Mock!mock_kv_get

(* Setting changes what one owner and key read back, and nothing else.     *)
LEMMA MockKvSet ==
  ASSUME KvSlots \in Nat, NEW table \in MockTables,
         NEW owner_ \in MockOwners, NEW key \in MockKeys, NEW value \in MockValues
  PROVE  LET t == Mock!mock_kv_set(table, owner_, key, value)
         IN /\ t \in MockTables
            /\ \A o, k : k # "" =>
                 Mock!mock_kv_get(t, o, k) =
                   IF o = owner_ /\ k = key /\ Mock!Accepted(table, owner_, key)
                     THEN value ELSE Mock!mock_kv_get(table, o, k)
<1> DEFINE t == Mock!mock_kv_set(table, owner_, key, value)
           slots == Mock!Held(table, owner_, key)
           free == Mock!Free(table)
<1>1. DOMAIN table = 1..KvSlots
  BY DEF MockTables
<1>2. CASE slots # {}
  <2> DEFINE m == Mock!Min(slots)
  <2>1. t = [table EXCEPT ![m].value = value]
    BY <1>2 DEF Mock!mock_kv_set
  <2>2. m \in slots /\ m \in 1..KvSlots
    BY <1>2, MockHeld
  <2>3. table[m].user = owner_ /\ table[m].key = key /\ key # ""
    BY <2>2 DEF Mock!Held
  <2> HIDE DEF t, m
  <2>4. /\ t \in MockTables
        /\ t[m].value = value
        /\ \A i \in 1..KvSlots :
             /\ t[i].user = table[i].user /\ t[i].key = table[i].key
             /\ i # m => t[i].value = table[i].value
    BY <2>1, <2>2 DEF MockTables
  <2>5. DOMAIN t = 1..KvSlots
    BY <2>4 DEF MockTables
  <2>6. \A o, k : Mock!Held(t, o, k) = Mock!Held(table, o, k)
    BY <1>1, <2>4, <2>5 DEF Mock!Held
  <2>7. ASSUME NEW o, NEW k, ~(o = owner_ /\ k = key)
        PROVE  Mock!mock_kv_get(t, o, k) = Mock!mock_kv_get(table, o, k)
    <3> DEFINE s == Mock!Held(table, o, k)
    <3>1. s \subseteq 1..KvSlots /\ m \notin s
      BY <2>3, <2>7, MockHeld DEF Mock!Held
    <3>2. s # {} => Mock!Min(s) \in s
      BY MockHeld
    <3> HIDE DEF s
    <3>3. s # {} => t[Mock!Min(s)].value = table[Mock!Min(s)].value
      BY <2>4, <3>1, <3>2
    <3> QED
      BY <2>6, <3>3 DEF Mock!mock_kv_get, s
  <2>8. Mock!mock_kv_get(t, owner_, key) = value
    BY <1>2, <2>4, <2>6 DEF Mock!mock_kv_get, m
  <2>9. Mock!Accepted(table, owner_, key)
    BY <1>2 DEF Mock!Accepted
  <2> QED
    BY <2>4, <2>7, <2>8, <2>9 DEF t
<1>3. CASE slots = {} /\ free # {}
  <2> DEFINE m == Mock!Min(free)
             new == [user |-> owner_, key |-> key, value |-> value]
  <2>1. t = [table EXCEPT ![m] = new]
    BY <1>3 DEF Mock!mock_kv_set
  <2>12. free \subseteq 1..KvSlots /\ free \in SUBSET Nat
    <3>1. free \subseteq 1..KvSlots
      BY <1>1 DEF Mock!Free
    <3> QED
      BY <3>1
  <2>13. m \in free
    BY <1>3, <2>12, MockMin
  <2>2. m \in Nat /\ m \in 1..KvSlots
    <3> HIDE DEF m, free
    <3> QED
      BY <2>12, <2>13
  <2>11. table[m].key = ""
    <3>1. \A i \in free : table[i].key = ""
      BY DEF Mock!Free
    <3> HIDE DEF m, free
    <3> QED
      BY <2>13, <3>1
  <2> HIDE DEF t, m
  <2>3. /\ t \in MockTables /\ t[m] = new
        /\ \A i \in 1..KvSlots : i # m => t[i] = table[i]
    BY <2>1, <2>2 DEF MockTables
  <2>4. DOMAIN t = 1..KvSlots
    BY <2>3 DEF MockTables
  <2>10. t[m].user = owner_ /\ t[m].key = key
    BY <2>3
  <2>5. ASSUME NEW o, NEW k, k # "", ~(o = owner_ /\ k = key)
        PROVE  Mock!mock_kv_get(t, o, k) = Mock!mock_kv_get(table, o, k)
    <3> DEFINE s == Mock!Held(table, o, k)
    <3>1. s \subseteq 1..KvSlots /\ m \notin s
      BY <2>11, MockHeld DEF Mock!Held
    <3>2. s # {} => Mock!Min(s) \in s
      BY MockHeld
    <3>3. Mock!Held(t, o, k) = s
      <4>1. m \notin Mock!Held(t, o, k)
        BY <2>3, <2>5, <2>10 DEF Mock!Held
      <4>2. \A i \in 1..KvSlots \ {m} : i \in Mock!Held(t, o, k) <=> i \in s
        BY <1>1, <2>3, <2>4 DEF Mock!Held
      <4>3. Mock!Held(t, o, k) \subseteq 1..KvSlots
        BY <2>4 DEF Mock!Held
      <4> HIDE DEF s
      <4>4. \A i : i \in Mock!Held(t, o, k) <=> i \in s
        BY <3>1, <4>1, <4>2, <4>3
      <4> QED
        BY <4>4
    <3> HIDE DEF s
    <3>4. s # {} => t[Mock!Min(s)].value = table[Mock!Min(s)].value
      BY <2>3, <3>1, <3>2
    <3> QED
      BY <3>3, <3>4 DEF Mock!mock_kv_get, s
  <2>6. ASSUME key # "" PROVE Mock!mock_kv_get(t, owner_, key) = value
    <3>1. Mock!Held(t, owner_, key) = {m}
      <4>1. m \in Mock!Held(t, owner_, key)
        BY <2>2, <2>4, <2>6, <2>10 DEF Mock!Held
      <4>2. \A i \in 1..KvSlots \ {m} : i \notin Mock!Held(t, owner_, key)
        BY <1>1, <1>3, <2>3, <2>4 DEF Mock!Held
      <4>3. Mock!Held(t, owner_, key) \subseteq 1..KvSlots
        BY <2>4 DEF Mock!Held
      <4> QED
        BY <4>1, <4>2, <4>3
    <3>3. Mock!Min({m}) = m
      BY <2>2, MockMin
    <3>4. t[m].value = value
      BY <2>3
    <3>5. Mock!mock_kv_get(t, owner_, key) = t[Mock!Min(Mock!Held(t, owner_, key))].value
      BY <3>1 DEF Mock!mock_kv_get
    <3> QED
      BY <3>1, <3>3, <3>4, <3>5
  <2>7. Mock!Accepted(table, owner_, key)
    BY <1>3 DEF Mock!Accepted
  <2> QED
    BY <2>3, <2>5, <2>6, <2>7 DEF t
<1>4. CASE slots = {} /\ free = {}
  <2>1. t = table /\ ~Mock!Accepted(table, owner_, key)
    BY <1>4 DEF Mock!mock_kv_set, Mock!Accepted
  <2> QED
    BY <2>1
<1> QED
  BY <1>2, <1>3, <1>4

(* One kind of data reads back as the history has it.                      *)
MockReads(kind, table, history) ==
  \A o, k : <<kind, o, k>> \in Mock!Owned /\ k # "" =>
    Mock!mock_kv_get(table, o, k) = history[<<kind, o, k>>]

LEMMA MockKeeps ==
  Mock!MockKeepsData <=> /\ MockReads("lobby", mock_lobby_data, wrote)
                         /\ MockReads("member", mock_member_data, wrote)
<1>1. ASSUME Mock!MockKeepsData
      PROVE  /\ MockReads("lobby", mock_lobby_data, wrote)
             /\ MockReads("member", mock_member_data, wrote)
  <2>1. ASSUME NEW o, NEW k, <<"lobby", o, k>> \in Mock!Owned, k # ""
        PROVE  Mock!mock_kv_get(mock_lobby_data, o, k) = wrote[<<"lobby", o, k>>]
    BY <1>1, <2>1 DEF Mock!MockKeepsData
  <2>2. ASSUME NEW o, NEW k, <<"member", o, k>> \in Mock!Owned, k # ""
        PROVE  Mock!mock_kv_get(mock_member_data, o, k) = wrote[<<"member", o, k>>]
    BY <1>1, <2>2 DEF Mock!MockKeepsData
  <2> QED
    BY <2>1, <2>2 DEF MockReads
<1>2. ASSUME MockReads("lobby", mock_lobby_data, wrote),
             MockReads("member", mock_member_data, wrote),
             NEW e \in Mock!Owned, e[3] # ""
      PROVE  Mock!mock_kv_get(IF e[1] = "lobby" THEN mock_lobby_data ELSE mock_member_data,
                              e[2], e[3]) = wrote[e]
  <2>1. e = <<e[1], e[2], e[3]>> /\ e[1] \in {"lobby", "member"}
    BY DEF Mock!Owned
  <2>2. CASE e[1] = "lobby"
    <3>1. e = <<"lobby", e[2], e[3]>>
      BY <2>1, <2>2
    <3>2. Mock!mock_kv_get(mock_lobby_data, e[2], e[3]) = wrote[<<"lobby", e[2], e[3]>>]
      BY <1>2, <3>1 DEF MockReads
    <3> QED
      BY <2>2, <3>1, <3>2
  <2>3. CASE e[1] = "member"
    <3>1. e = <<"member", e[2], e[3]>>
      BY <2>1, <2>3
    <3>2. Mock!mock_kv_get(mock_member_data, e[2], e[3]) = wrote[<<"member", e[2], e[3]>>]
      BY <1>2, <3>1 DEF MockReads
    <3> QED
      BY <2>3, <3>1, <3>2
  <2> QED
    BY <2>1, <2>2, <2>3
<1> QED
  BY <1>1, <1>2 DEF Mock!MockKeepsData

(* The history after a key is set.                                         *)
MockNoted(kind, table, o, key, value, before) ==
  IF Mock!Accepted(table, o, key) /\ key # ""
    THEN [before EXCEPT ![<<kind, o, key>>] = value] ELSE before

LEMMA MockWritten ==
  ASSUME KvSlots \in Nat, NEW table \in MockTables, NEW kind,
         NEW o \in MockOwners, NEW key \in MockKeys, NEW value \in MockValues,
         <<kind, o, key>> \in Mock!Owned,
         NEW before \in [Mock!Owned -> MockValues], MockReads(kind, table, before)
  PROVE  LET after == MockNoted(kind, table, o, key, value, before) IN
         /\ Mock!mock_kv_set(table, o, key, value) \in MockTables
         /\ after \in [Mock!Owned -> MockValues]
         /\ MockReads(kind, Mock!mock_kv_set(table, o, key, value), after)
         /\ \A other, t :
              other # kind /\ MockReads(other, t, before) => MockReads(other, t, after)
<1> DEFINE t == Mock!mock_kv_set(table, o, key, value)
           after == MockNoted(kind, table, o, key, value, before)
           entry == <<kind, o, key>>
           taken == Mock!Accepted(table, o, key)
<1>1. /\ t \in MockTables
      /\ \A p, k : k # "" =>
           Mock!mock_kv_get(t, p, k) =
             IF p = o /\ k = key /\ taken THEN value ELSE Mock!mock_kv_get(table, p, k)
  BY MockKvSet
<1>2. /\ after \in [Mock!Owned -> MockValues]
      /\ \A e \in Mock!Owned :
           after[e] = IF e = entry /\ taken /\ key # "" THEN value ELSE before[e]
  <2>1. after = IF taken /\ key # "" THEN [before EXCEPT ![entry] = value] ELSE before
    BY DEF MockNoted
  <2> HIDE DEF entry, taken, after
  <2> QED
    BY <2>1 DEF entry
<1> HIDE DEF t, taken, after
<1>3. ASSUME NEW p, NEW k, <<kind, p, k>> \in Mock!Owned, k # ""
      PROVE  Mock!mock_kv_get(t, p, k) = after[<<kind, p, k>>]
  <2>1. Mock!mock_kv_get(table, p, k) = before[<<kind, p, k>>]
    BY <1>3 DEF MockReads
  <2>2. <<kind, p, k>> = entry <=> p = o /\ k = key
    OBVIOUS
  <2> HIDE DEF entry
  <2>3. CASE p = o /\ k = key /\ taken
    BY <1>1, <1>2, <1>3, <2>2, <2>3
  <2>4. CASE ~(p = o /\ k = key /\ taken)
    <3>1. Mock!mock_kv_get(t, p, k) = Mock!mock_kv_get(table, p, k)
      BY <1>1, <1>3, <2>4
    <3>2. after[<<kind, p, k>>] = before[<<kind, p, k>>]
      BY <1>2, <1>3, <2>2, <2>4
    <3> QED
      BY <2>1, <3>1, <3>2
  <2> QED
    BY <2>3, <2>4
<1>4. ASSUME NEW other, other # kind, NEW p, NEW k, <<other, p, k>> \in Mock!Owned
      PROVE  after[<<other, p, k>>] = before[<<other, p, k>>]
  <2>1. <<other, p, k>> # entry
    BY <1>4
  <2> QED
    BY <1>2, <1>4, <2>1
<1> QED
  BY <1>1, <1>2, <1>3, <1>4 DEF MockReads, t, after

MockDataInv ==
  /\ mock_lobby_data \in MockTables /\ mock_member_data \in MockTables
  /\ wrote \in [Mock!Owned -> MockValues]
  /\ MockReads("lobby", mock_lobby_data, wrote)
  /\ MockReads("member", mock_member_data, wrote)

LEMMA MockDataKept ==
  ASSUME Mock!MockAssumption, MockDataInv, Mock!DataStep
  PROVE  MockDataInv'
<1>1. PICK key \in Entries, value \in Contents :
        \/ \E lobby \in Lobbies : Mock!SetLobbyData(lobby, key, value)
        \/ Mock!SetLobbyMemberData(key, value)
  BY DEF Mock!DataStep
<1>2. /\ KvSlots \in Nat /\ Mock!Me \in MockOwners /\ key \in MockKeys /\ value \in MockValues
      /\ \A lobby \in Lobbies : lobby \in MockOwners
  BY DEF Mock!MockAssumption, MockOwners, MockKeys, MockValues
<1>3. ASSUME NEW lobby \in Lobbies, Mock!SetLobbyData(lobby, key, value) PROVE MockDataInv'
  <2>1. <<"lobby", lobby, key>> \in Mock!Owned
    BY DEF Mock!Owned
  <2>2. /\ mock_lobby_data' = Mock!mock_kv_set(mock_lobby_data, lobby, key, value)
        /\ wrote' = MockNoted("lobby", mock_lobby_data, lobby, key, value, wrote)
        /\ mock_member_data' = mock_member_data
    BY <1>3 DEF Mock!SetLobbyData, Mock!Wrote, MockNoted
  <2>3. /\ mock_lobby_data \in MockTables /\ wrote \in [Mock!Owned -> MockValues]
        /\ MockReads("lobby", mock_lobby_data, wrote)
        /\ MockReads("member", mock_member_data, wrote)
    BY DEF MockDataInv
  <2>4. /\ Mock!mock_kv_set(mock_lobby_data, lobby, key, value) \in MockTables
        /\ wrote' \in [Mock!Owned -> MockValues]
        /\ MockReads("lobby", Mock!mock_kv_set(mock_lobby_data, lobby, key, value), wrote')
        /\ \A other, t : other # "lobby" /\ MockReads(other, t, wrote)
                          => MockReads(other, t, wrote')
    BY <1>2, <2>1, <2>2, <2>3, MockWritten
  <2>5. MockReads("member", mock_member_data, wrote')
    BY <2>3, <2>4
  <2> QED
    BY <2>2, <2>3, <2>4, <2>5 DEF MockDataInv, MockReads
<1>4. ASSUME Mock!SetLobbyMemberData(key, value) PROVE MockDataInv'
  <2>1. <<"member", Mock!Me, key>> \in Mock!Owned
    BY DEF Mock!Owned
  <2>2. /\ mock_member_data' = Mock!mock_kv_set(mock_member_data, Mock!Me, key, value)
        /\ wrote' = MockNoted("member", mock_member_data, Mock!Me, key, value, wrote)
        /\ mock_lobby_data' = mock_lobby_data
    BY <1>4 DEF Mock!SetLobbyMemberData, Mock!Wrote, MockNoted
  <2>3. /\ mock_member_data \in MockTables /\ wrote \in [Mock!Owned -> MockValues]
        /\ MockReads("member", mock_member_data, wrote)
        /\ MockReads("lobby", mock_lobby_data, wrote)
    BY DEF MockDataInv
  <2>4. /\ Mock!mock_kv_set(mock_member_data, Mock!Me, key, value) \in MockTables
        /\ wrote' \in [Mock!Owned -> MockValues]
        /\ MockReads("member", Mock!mock_kv_set(mock_member_data, Mock!Me, key, value), wrote')
        /\ \A other, t : other # "member" /\ MockReads(other, t, wrote)
                          => MockReads(other, t, wrote')
    BY <1>2, <2>1, <2>2, <2>3, MockWritten
  <2>5. MockReads("lobby", mock_lobby_data, wrote')
    BY <2>3, <2>4
  <2> QED
    BY <2>2, <2>3, <2>4, <2>5 DEF MockDataInv, MockReads
<1> QED
  BY <1>1, <1>3, <1>4

-----------------------------------------------------------------------------
(* What a test fires it drains.                                            *)

MockSlots == 0..(ChatSlots - 1)
MockEvent == [name : Names, text : Mock!Stored]

MockEventInv ==
  /\ callbacks_registered \in BOOLEAN
  /\ mock_callbacks = IF callbacks_registered THEN Mock!Objects ELSE <<>>
  /\ mock_chat \in [MockSlots -> Mock!Stored]
  /\ mock_chat_next \in MockSlots
  /\ heard \in [Mock!Queues -> Seq(MockEvent)]
  /\ \A queue \in Mock!Queues : Len(heard[queue]) <= MaxUndrained
  /\ fired = heard

LEMMA MockRegistered ==
  ASSUME Mock!MockAssumption, MockEventInv
  PROVE  Mock!Registered = Mock!Objects
<1>1. CASE callbacks_registered
  BY <1>1 DEF Mock!Registered, MockEventInv
<1>2. CASE ~callbacks_registered
  BY <1>2, RegisteredFromEmpty DEF MockEventInv
<1> QED
  BY <1>1, <1>2

LEMMA MockUnregistered ==
  ASSUME MockEventInv
  PROVE  Mock!Unregistered = <<>>
<1>1. CASE callbacks_registered
  BY <1>1, UnregisteredFromFull DEF MockEventInv
<1>2. CASE ~callbacks_registered
  BY <1>2 DEF Mock!Unregistered, MockEventInv
<1> QED
  BY <1>1, <1>2

(* An event runs one object: the one registered for it.                    *)
LEMMA MockDispatches ==
  ASSUME Mock!MockAssumption, MockEventInv, NEW event, event.name \in Names, NEW stored \in MockEvent,
         NEW chat, NEW id, Mock!cb_run(event, chat, id) = stored
  PROVE  Mock!mock_dispatch(event, chat, id)
         = [heard EXCEPT ![Mock!Queue(event.name)] = Append(@, stored)]
<1> DEFINE called == {i \in DOMAIN Mock!Registered : Mock!Registered[i] = event.name}
           queue == heard[Mock!Queue(event.name)]
<1>1. \E i \in 1..7 : Mock!Objects[i] = event.name
  <2>1. event.name \in {"net_connection_status", "rich_presence_join_requested",
                        "lobby_join_requested", "lobby_data_update", "lobby_chat_update",
                        "lobby_chat_message"}
    BY DEF Mock!MockAssumption, Mock!ToSet, Mock!Objects
  <2> QED
    BY <2>1 DEF Mock!Objects
<1>2. \E i : called = {i}
  <2>1. PICK j \in 1..7 : Mock!Objects[j] = event.name
    BY <1>1
  <2>2. called = {i \in 1..7 : Mock!Objects[i] = Mock!Objects[j]}
    BY <2>1, MockRegistered, ObjectsApart
  <2>3. \A i \in 1..7 : Mock!Objects[i] = Mock!Objects[j] => i = j
    BY ObjectsApart
  <2> HIDE DEF called
  <2> QED
    BY <2>2, <2>3
<1>3. Mock!Cardinality(called) = 1
  <2>1. \A x : Cardinality({x}) = 1
    BY FS_Singleton
  <2>2. Mock!Cardinality(called) = Cardinality(called)
    BY DEF Mock!Cardinality, Cardinality
  <2> QED
    BY <1>2, <2>1, <2>2
<1>4. Mock!Queue(event.name) \in Mock!Queues /\ queue \in Seq(MockEvent)
  BY DEF Mock!Queue, Mock!Queues, MockEventInv
<1>5. queue \o [k \in 1..1 |-> stored] = Append(queue, stored)
  <2>1. [k \in 1..1 |-> stored] = <<stored>>
    OBVIOUS
  <2> QED
    BY <1>4, <2>1
<1>6. Mock!mock_dispatch(event, chat, id)
      = [heard EXCEPT ![Mock!Queue(event.name)] = @ \o [k \in 1..1 |-> stored]]
  BY <1>3 DEF Mock!mock_dispatch
<1> QED
  BY <1>5, <1>6

LEMMA MockClamps ==
  ASSUME Mock!MockAssumption, NEW text \in MockTexts
  PROVE  Mock!Clamp(text) \in Mock!Stored
<1>1. text \in [len : Nat, tag : STRING] /\ ChatSize \in Nat
  BY DEF Mock!MockAssumption
<1> QED
  <2> DEFINE n == IF text.len > ChatSize THEN ChatSize ELSE text.len
             T == {t.tag : t \in MockTexts} \cup {""}
  <2>1. n \in 0..ChatSize
    BY <1>1
  <2>2. Mock!Clamp(text) = [text EXCEPT !.len = n]
    BY DEF Mock!Clamp
  <2>3. text.tag \in T
    OBVIOUS
  <2> HIDE DEF n, T
  <2>4. [text EXCEPT !.len = n] \in [len : 0..ChatSize, tag : T]
    BY <1>1, <2>1, <2>3
  <2> QED
    BY <2>2, <2>4 DEF Mock!Stored, T

LEMMA MockNoText ==
  ASSUME Mock!MockAssumption
  PROVE  Mock!NoText \in Mock!Stored /\ Mock!Clamp(Mock!NoText) = Mock!NoText
<1>1. ChatSize \in Nat /\ 0 \in 0..ChatSize /\ ~(0 > ChatSize)
  BY DEF Mock!MockAssumption
<1>2. Mock!NoText \in Mock!Stored
  BY <1>1, Zenon DEF Mock!NoText, Mock!Stored
<1>3. Mock!NoText.len = 0
  BY DEF Mock!NoText
<1>4. Mock!Clamp(Mock!NoText) = [Mock!NoText EXCEPT !.len = 0]
  BY <1>1, <1>3 DEF Mock!Clamp
<1>5. [Mock!NoText EXCEPT !.len = 0] = Mock!NoText
  <2>1. ASSUME NEW s PROVE [[len |-> 0, tag |-> s] EXCEPT !.len = 0] = [len |-> 0, tag |-> s]
    OBVIOUS
  <2> QED
    BY <2>1 DEF Mock!NoText
<1> QED
  BY <1>2, <1>4, <1>5

LEMMA MockFired ==
  ASSUME Mock!MockAssumption, MockEventInv, NEW name \in Names, NEW text \in MockTexts,
         Mock!steam_mock_fire_callback(name, text)
  PROVE  MockEventInv'
<1> DEFINE isChat == name = "lobby_chat_message"
           event == [name |-> name, text |-> IF isChat THEN text ELSE Mock!NoText]
           stored == [name |-> name, text |-> IF isChat THEN Mock!Clamp(text) ELSE Mock!NoText]
           slot == mock_chat_next % ChatSlots
           queue == Mock!Queue(name)
<1>1. Mock!NoText \in Mock!Stored /\ Mock!Clamp(text) \in Mock!Stored
      /\ Mock!Clamp(Mock!NoText) = Mock!NoText
  BY MockNoText, MockClamps
<1>2. ChatSlots \in Nat /\ ChatSlots > 0 /\ slot \in MockSlots
      /\ (mock_chat_next + 1) % ChatSlots \in MockSlots
  BY DEF Mock!MockAssumption, MockEventInv, MockSlots
<1>3. stored \in MockEvent /\ [event EXCEPT !.text = Mock!Clamp(@)] = stored
  BY <1>1 DEF MockEvent
<1>4. mock_chat' \in [MockSlots -> Mock!Stored] /\ mock_chat_next' \in MockSlots
      /\ (isChat => mock_chat'[slot] = Mock!Clamp(text))
  BY <1>1, <1>2 DEF Mock!steam_mock_fire_callback, Mock!ChatSlot, MockEventInv
<1>5. Mock!cb_run(event, mock_chat', mock_chat_next) = stored
  BY <1>4 DEF Mock!cb_run, Mock!GetLobbyChatEntry
<1>6. event.name = name /\ stored.name = name
  OBVIOUS
<1> HIDE DEF event, stored
<1>7. /\ heard' = [heard EXCEPT ![queue] = Append(@, stored)]
      /\ fired' = [fired EXCEPT ![queue] = Append(@, stored)]
      /\ Len(heard[queue]) < MaxUndrained
      /\ mock_callbacks' = Mock!Objects /\ callbacks_registered' = TRUE
  <2>1. /\ heard' = Mock!mock_dispatch(event, mock_chat', mock_chat_next)
        /\ fired' = [fired EXCEPT ![queue] = Append(@, [event EXCEPT !.text = Mock!Clamp(@)])]
        /\ Len(heard[queue]) < MaxUndrained
        /\ mock_callbacks' = Mock!Registered /\ callbacks_registered' = TRUE
    BY DEF Mock!steam_mock_fire_callback, event
  <2>2. Mock!mock_dispatch(event, mock_chat', mock_chat_next)
        = [heard EXCEPT ![Mock!Queue(event.name)] = Append(@, stored)]
    BY <1>3, <1>5, <1>6, MockDispatches
  <2> QED
    BY <1>3, <1>6, <2>1, <2>2, MockRegistered
<1>8. queue \in Mock!Queues
  BY DEF Mock!Queue, Mock!Queues
<1> HIDE DEF queue
<1>9. /\ heard' \in [Mock!Queues -> Seq(MockEvent)] /\ fired' = heard'
      /\ \A q \in Mock!Queues : Len(heard'[q]) <= MaxUndrained
  <2>1. MaxUndrained \in Nat
    BY DEF Mock!MockAssumption
  <2>2. /\ heard[queue] \in Seq(MockEvent) /\ Append(heard[queue], stored) \in Seq(MockEvent)
        /\ Len(Append(heard[queue], stored)) = Len(heard[queue]) + 1
        /\ Len(heard[queue]) \in Nat
    BY <1>3, <1>8 DEF MockEventInv
  <2>3. heard' \in [Mock!Queues -> Seq(MockEvent)] /\ fired' = heard'
    BY <1>7, <1>8, <2>2 DEF MockEventInv
  <2>4. \A q \in Mock!Queues :
          heard'[q] = IF q = queue THEN Append(heard[queue], stored) ELSE heard[q]
    BY <1>7, <1>8 DEF MockEventInv
  <2> QED
    BY <1>7, <2>1, <2>2, <2>3, <2>4 DEF MockEventInv
<1> QED
  BY <1>4, <1>7, <1>9 DEF MockEventInv

LEMMA MockEventKept ==
  ASSUME Mock!MockAssumption, MockEventInv, Mock!EventStep
  PROVE  MockEventInv'
<1>1. ASSUME NEW name \in Names, NEW text \in MockTexts,
             Mock!steam_mock_fire_callback(name, text)
      PROVE  MockEventInv'
  BY <1>1, MockFired
<1>2. ASSUME Mock!steam_mock_fire_unknown PROVE MockEventInv'
  BY <1>2, MockRegistered DEF Mock!steam_mock_fire_unknown, MockEventInv
<1>3. ASSUME Mock!steam_shutdown PROVE MockEventInv'
  BY <1>3, MockUnregistered DEF Mock!steam_shutdown, MockEventInv
<1>4. ASSUME NEW queue \in Mock!Queues, Mock!Drain(queue) PROVE MockEventInv'
  <2>1. /\ heard' = [heard EXCEPT ![queue] = <<>>] /\ fired' = [fired EXCEPT ![queue] = <<>>]
        /\ UNCHANGED <<mock_callbacks, callbacks_registered, mock_chat, mock_chat_next>>
    BY <1>4 DEF Mock!Drain
  <2>2. /\ heard' \in [Mock!Queues -> Seq(MockEvent)] /\ fired' = heard'
        /\ \A q \in Mock!Queues : heard'[q] = IF q = queue THEN <<>> ELSE heard[q]
    BY <2>1 DEF MockEventInv
  <2>3. MaxUndrained \in Nat /\ Len(<<>>) = 0
    BY DEF Mock!MockAssumption
  <2>4. \A q \in Mock!Queues : Len(heard'[q]) <= MaxUndrained
    BY <2>2, <2>3 DEF MockEventInv
  <2> QED
    BY <2>1, <2>2, <2>4 DEF MockEventInv
<1> QED
  BY <1>1, <1>2, <1>3, <1>4 DEF Mock!EventStep

(* A test drains what it fired and reads back the lobby data it set,       *)
(* whatever it does in between and however long it runs.                   *)
THEOREM MockIsFaithful == Spec => []MockActsAsSteam
<1> DEFINE Inv == MockEventInv /\ MockDataInv
<1> USE ServicesAssumption DEF ServicesAssumption
<1>1. Init => Inv
  <2> SUFFICES ASSUME Init PROVE Inv
    OBVIOUS
  <2>1. Mock!MockInit
    BY DEF Init
  <2>2. MockEventInv
    <3>1. Mock!NoText \in Mock!Stored /\ 0 \in MockSlots /\ MaxUndrained \in Nat
      BY MockNoText DEF Mock!MockAssumption, MockSlots
    <3>2. heard \in [Mock!Queues -> Seq(MockEvent)]
          /\ \A q \in Mock!Queues : Len(heard[q]) = 0
      <4>1. heard = [queue \in Mock!Queues |-> <<>>]
        BY <2>1 DEF Mock!MockInit
      <4>2. <<>> \in Seq(MockEvent) /\ Len(<<>>) = 0
        BY EmptySeq
      <4> QED
        BY <4>1, <4>2
    <3> QED
      <4>1. /\ mock_callbacks = <<>> /\ callbacks_registered = FALSE
            /\ mock_chat = [s \in MockSlots |-> Mock!NoText] /\ mock_chat_next = 0
            /\ fired = heard
        BY <2>1 DEF Mock!MockInit, MockSlots
      <4>2. \A q \in Mock!Queues : Len(heard[q]) <= MaxUndrained
        BY <3>1, <3>2
      <4>3. mock_chat \in [MockSlots -> Mock!Stored]
        BY <3>1, <4>1
      <4> QED
        BY <3>1, <3>2, <4>1, <4>2, <4>3 DEF MockEventInv
  <2>3. MockDataInv
    <3>1. /\ mock_lobby_data = Mock!EmptyTable /\ mock_member_data = Mock!EmptyTable
          /\ wrote = [entry \in Mock!Owned |-> ""]
      BY <2>1 DEF Mock!MockInit
    <3>2. Mock!EmptyTable \in MockTables
      BY DEF Mock!EmptyTable, Mock!FreeSlot, MockTables, MockOwners, MockKeys, MockValues
    <3>3. \A o, k : Mock!mock_kv_get(Mock!EmptyTable, o, k) = ""
      BY DEF Mock!EmptyTable, Mock!FreeSlot, Mock!mock_kv_get, Mock!Held
    <3> QED
      BY <3>1, <3>2, <3>3 DEF MockDataInv, MockReads, MockValues
  <2> QED
    BY <2>2, <2>3
<1>2. Inv /\ [Next]_vars => Inv'
  <2> SUFFICES ASSUME Inv, [Next]_vars PROVE Inv'
    OBVIOUS
  <2>1. ASSUME UNCHANGED mockVars PROVE Inv'
    BY <2>1 DEF mockVars, MockEventInv, MockDataInv, MockReads
  <2>2. CASE Mock!EventStep
    <3>1. UNCHANGED <<mock_lobby_data, mock_member_data, wrote>>
      BY <2>2 DEF Mock!EventStep, Mock!steam_mock_fire_callback, Mock!steam_mock_fire_unknown,
                  Mock!steam_shutdown, Mock!Drain, Mock!dataVars
    <3> QED
      BY <2>2, <3>1, MockEventKept DEF MockDataInv, MockReads
  <2>3. CASE Mock!DataStep
    <3>1. UNCHANGED <<mock_callbacks, callbacks_registered, mock_chat, mock_chat_next, heard,
                      fired>>
      BY <2>3 DEF Mock!DataStep, Mock!SetLobbyData, Mock!SetLobbyMemberData, Mock!eventVars
    <3> QED
      BY <2>3, <3>1, MockDataKept DEF MockEventInv
  <2>4. CASE Mock!LookupStep
    BY <2>1, <2>4 DEF Mock!LookupStep, Mock!accessor, Mock!eventVars, Mock!dataVars, mockVars
  <2> QED
    BY <2>1, <2>2, <2>3, <2>4
       DEF Next, LobbyStep, StatsStep, BoardStep, SocialStep, TimelineStep, AuthStep, MockStep,
           vars
<1>3. Inv => MockActsAsSteam
  <2> SUFFICES ASSUME Inv PROVE MockActsAsSteam
    OBVIOUS
  <2>1. Mock!MockTypeOK
    <3>1. /\ Mock!IsInjective(mock_callbacks) /\ Len(mock_callbacks) <= MaxCallbacks
          /\ Mock!ToSet(mock_callbacks)
             = IF callbacks_registered THEN Mock!ToSet(Mock!Objects) ELSE {}
      <4>1. MaxCallbacks \in Nat /\ MaxCallbacks >= 7
        BY ObjectsApart DEF Mock!MockAssumption
      <4>2. CASE callbacks_registered
        BY <4>1, <4>2, ObjectsApart DEF Mock!IsInjective, MockEventInv
      <4>3. CASE ~callbacks_registered
        BY <4>1, <4>3 DEF Mock!IsInjective, Mock!ToSet, MockEventInv
      <4> QED
        BY <4>2, <4>3
    <3>2. /\ mock_chat \in [0..(ChatSlots - 1) -> Mock!Stored]
          /\ mock_chat_next \in 0..(ChatSlots - 1)
      BY DEF MockEventInv, MockSlots
    <3>3. heard \in [Mock!Queues -> Seq([name : Names, text : Mock!Stored])]
          /\ \A queue \in Mock!Queues : Len(heard[queue]) <= MaxUndrained
      BY DEF MockEventInv, MockEvent
    <3>4. wrote \in [Mock!Owned -> Contents \cup {""}]
      BY DEF MockDataInv, MockValues
    <3> QED
      BY <3>1, <3>2, <3>3, <3>4 DEF Mock!MockTypeOK
  <2> QED
    BY <2>1, MockKeeps DEF MockActsAsSteam, Mock!FiredOnceInOrder, MockEventInv, MockDataInv
<1> QED
  BY <1>1, <1>2, <1>3, PTL DEF Spec

=============================================================================
