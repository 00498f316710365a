----------------------- MODULE SteamExtension_proofs -----------------------
(***************************************************************************)
(* Proofs about SteamExtension, for every set of clients, handles, tickets *)
(* and slots: each step of the process is a step of the registry of calls  *)
(* and a step of the callback subsystem, or leaves it alone.  So what is   *)
(* proved of the two parts holds of the process; their theorems are cited, *)
(* not proved again.                                                       *)
(*                                                                         *)
(* The theorems of a part come with its proof module, instantiated here    *)
(* under a name of its own.  A first section says that this instance of    *)
(* the part and the one in SteamExtension are the same.                    *)
(***************************************************************************)
EXTENDS SteamExtension, TLAPS

AsyncProofs == INSTANCE SteamCallResults_proofs
CallbackProofs == INSTANCE SteamCallbacks_proofs

-----------------------------------------------------------------------------
(* Both instances substitute the process's own constants and variables, so *)
(* each definition of one equals its namesake of the other: the prover has *)
(* to expand both to see it.                                               *)

LEMMA SameCallback ==
  /\ Callback!Init <=> CallbackProofs!Init
  /\ [Callback!Next]_(Callback!vars) <=> [CallbackProofs!Next]_(CallbackProofs!vars)
BY DEF Callback!Init, CallbackProofs!Init, Callback!MINIT, CallbackProofs!MINIT,
       Callback!MSHUTDOWN, CallbackProofs!MSHUTDOWN, Callback!steam_init,
       CallbackProofs!steam_init, Callback!steam_shutdown,
       CallbackProofs!steam_shutdown, Callback!steam_run_callbacks,
       CallbackProofs!steam_run_callbacks, Callback!SteamDispatches,
       CallbackProofs!SteamDispatches, Callback!SteamPosts, CallbackProofs!SteamPosts,
       Callback!steam_matchmaking_get_events,
       CallbackProofs!steam_matchmaking_get_events,
       Callback!steam_friends_get_join_requests,
       CallbackProofs!steam_friends_get_join_requests,
       Callback!steam_net_get_connection_events,
       CallbackProofs!steam_net_get_connection_events,
       Callback!steam_user_get_auth_ticket_for_web_api,
       CallbackProofs!steam_user_get_auth_ticket_for_web_api,
       Callback!steam_user_get_web_api_ticket_result,
       CallbackProofs!steam_user_get_web_api_ticket_result, Callback!other_function,
       CallbackProofs!other_function, Callback!Next, CallbackProofs!Next,
       Callback!LobbyKinds, CallbackProofs!LobbyKinds, Callback!AllKinds,
       CallbackProofs!AllKinds, Callback!storage, CallbackProofs!storage,
       Callback!steamSide, CallbackProofs!steamSide, Callback!history,
       CallbackProofs!history, Callback!vars, CallbackProofs!vars, Callback!NoTicket,
       CallbackProofs!NoTicket, Callback!Queues, CallbackProofs!Queues, Callback!Blocks,
       CallbackProofs!Blocks, Callback!Post, CallbackProofs!Post, Callback!PostEvent,
       CallbackProofs!PostEvent, Callback!PostChatMessage,
       CallbackProofs!PostChatMessage, Callback!PostTicket, CallbackProofs!PostTicket,
       Callback!steam_run_callbacks, CallbackProofs!steam_run_callbacks,
       Callback!Dispatch, CallbackProofs!Dispatch, Callback!PerObject,
       CallbackProofs!PerObject, Callback!TicketBlocks, CallbackProofs!TicketBlocks,
       Callback!EventBlocks, CallbackProofs!EventBlocks, Callback!LobbyBlocks,
       CallbackProofs!LobbyBlocks, Callback!net_event_dtor,
       CallbackProofs!net_event_dtor, Callback!mm_event_dtor,
       CallbackProofs!mm_event_dtor, Callback!Count, CallbackProofs!Count,
       Callback!Cardinality, CallbackProofs!Cardinality, Callback!Allocate,
       CallbackProofs!Allocate, Callback!Free, CallbackProofs!Free,
       Callback!cb_run_webapi_ticket, CallbackProofs!cb_run_webapi_ticket,
       Callback!cb_run_net_connection_status,
       CallbackProofs!cb_run_net_connection_status, Callback!cb_run_rich_presence_join,
       CallbackProofs!cb_run_rich_presence_join, Callback!GetLobbyChatEntry,
       CallbackProofs!GetLobbyChatEntry, Callback!LobbyEntry, CallbackProofs!LobbyEntry,
       Callback!TrueEntry, CallbackProofs!TrueEntry, Callback!cb_run_lobby,
       CallbackProofs!cb_run_lobby, Callback!Registered, CallbackProofs!Registered,
       Callback!Unregistered, CallbackProofs!Unregistered,
       Callback!steamworks_callbacks_register,
       CallbackProofs!steamworks_callbacks_register,
       Callback!steamworks_callbacks_unregister,
       CallbackProofs!steamworks_callbacks_unregister,
       Callback!steamworks_callbacks_minit, CallbackProofs!steamworks_callbacks_minit,
       Callback!FreedByDestructors, CallbackProofs!FreedByDestructors,
       Callback!EmptyStorage, CallbackProofs!EmptyStorage,
       Callback!steamworks_callbacks_mshutdown,
       CallbackProofs!steamworks_callbacks_mshutdown, Callback!PhpFunction,
       CallbackProofs!PhpFunction, Callback!NULL, CallbackProofs!NULL,
       Callback!versions, CallbackProofs!versions, Callback!user_versions,
       CallbackProofs!user_versions, Callback!friends_versions,
       CallbackProofs!friends_versions, Callback!stats_versions,
       CallbackProofs!stats_versions, Callback!remote_versions,
       CallbackProofs!remote_versions, Callback!apps_versions,
       CallbackProofs!apps_versions, Callback!timeline_versions,
       CallbackProofs!timeline_versions, Callback!ugc_versions,
       CallbackProofs!ugc_versions, Callback!net_utils_versions,
       CallbackProofs!net_utils_versions, Callback!matchmaking_versions,
       CallbackProofs!matchmaking_versions, Callback!utils_versions,
       CallbackProofs!utils_versions, Callback!net_versions,
       CallbackProofs!net_versions, Callback!Interfaces, CallbackProofs!Interfaces,
       Callback!FindOrCreate, CallbackProofs!FindOrCreate, Callback!StopsAt,
       CallbackProofs!StopsAt, Callback!Found, CallbackProofs!Found, Callback!Notice,
       CallbackProofs!Notice, Callback!steamworks_resolve,
       CallbackProofs!steamworks_resolve, Callback!SteamAPI_InitFlat,
       CallbackProofs!SteamAPI_InitFlat, Callback!SteamAPI_Shutdown,
       CallbackProofs!SteamAPI_Shutdown, Callback!IfaceInit, CallbackProofs!IfaceInit,
       Callback!ifaceVars, CallbackProofs!ifaceVars

LEMMA SameAsync ==
  /\ Async!Init <=> AsyncProofs!Init
  /\ [Async!Next]_(Async!vars) <=> [AsyncProofs!Next]_(AsyncProofs!vars)
BY DEF Async!None, AsyncProofs!None, Async!Failed, AsyncProofs!Failed, Async!callVars,
       AsyncProofs!callVars, Async!vars, AsyncProofs!vars, Async!ResultStruct,
       AsyncProofs!ResultStruct, Async!Calls, AsyncProofs!Calls, Async!Idle,
       AsyncProofs!Idle, Async!IsAPICallCompleted, AsyncProofs!IsAPICallCompleted,
       Async!GetAPICallResult, AsyncProofs!GetAPICallResult, Async!Fresh,
       AsyncProofs!Fresh, Async!SteamCompletes, AsyncProofs!SteamCompletes,
       Async!decode_leaderboards, AsyncProofs!decode_leaderboards,
       Async!decode_timeline, AsyncProofs!decode_timeline, Async!decode_ugc,
       AsyncProofs!decode_ugc, Async!decode_remote, AsyncProofs!decode_remote,
       Async!decode_lobby, AsyncProofs!decode_lobby, Async!decode, AsyncProofs!decode,
       Async!NoCalls, AsyncProofs!NoCalls, Async!steamworks_async_minit,
       AsyncProofs!steamworks_async_minit, Async!steamworks_async_mshutdown,
       AsyncProofs!steamworks_async_mshutdown, Async!steamworks_register_call,
       AsyncProofs!steamworks_register_call, Async!MINIT, AsyncProofs!MINIT,
       Async!MSHUTDOWN, AsyncProofs!MSHUTDOWN, Async!steam_init, AsyncProofs!steam_init,
       Async!steam_shutdown, AsyncProofs!steam_shutdown, Async!Issue, AsyncProofs!Issue,
       Async!AsyncFunction, AsyncProofs!AsyncFunction, Async!Answer, AsyncProofs!Answer,
       Async!steam_get_call_result, AsyncProofs!steam_get_call_result,
       Async!other_function, AsyncProofs!other_function, Async!Init, AsyncProofs!Init,
       Async!Next, AsyncProofs!Next, Async!steam_stats_find_leaderboard,
       AsyncProofs!steam_stats_find_leaderboard,
       Async!steam_stats_find_or_create_leaderboard,
       AsyncProofs!steam_stats_find_or_create_leaderboard,
       Async!steam_stats_upload_score, AsyncProofs!steam_stats_upload_score,
       Async!steam_stats_download_leaderboard_entries,
       AsyncProofs!steam_stats_download_leaderboard_entries,
       Async!steam_stats_attach_leaderboard_ugc,
       AsyncProofs!steam_stats_attach_leaderboard_ugc, Async!steam_remote_file_share,
       AsyncProofs!steam_remote_file_share, Async!steam_remote_ugc_download,
       AsyncProofs!steam_remote_ugc_download,
       Async!steam_timeline_does_event_recording_exist,
       AsyncProofs!steam_timeline_does_event_recording_exist,
       Async!steam_timeline_does_game_phase_recording_exist,
       AsyncProofs!steam_timeline_does_game_phase_recording_exist,
       Async!steam_ugc_subscribe_item, AsyncProofs!steam_ugc_subscribe_item,
       Async!steam_ugc_unsubscribe_item, AsyncProofs!steam_ugc_unsubscribe_item,
       Async!steam_ugc_create_item, AsyncProofs!steam_ugc_create_item,
       Async!steam_ugc_submit_item_update, AsyncProofs!steam_ugc_submit_item_update,
       Async!steam_ugc_delete_item, AsyncProofs!steam_ugc_delete_item,
       Async!steam_matchmaking_create_lobby, AsyncProofs!steam_matchmaking_create_lobby,
       Async!steam_matchmaking_join_lobby, AsyncProofs!steam_matchmaking_join_lobby,
       Async!NULL, AsyncProofs!NULL, Async!versions, AsyncProofs!versions,
       Async!user_versions, AsyncProofs!user_versions, Async!friends_versions,
       AsyncProofs!friends_versions, Async!stats_versions, AsyncProofs!stats_versions,
       Async!remote_versions, AsyncProofs!remote_versions, Async!apps_versions,
       AsyncProofs!apps_versions, Async!timeline_versions,
       AsyncProofs!timeline_versions, Async!ugc_versions, AsyncProofs!ugc_versions,
       Async!net_utils_versions, AsyncProofs!net_utils_versions,
       Async!matchmaking_versions, AsyncProofs!matchmaking_versions,
       Async!utils_versions, AsyncProofs!utils_versions, Async!net_versions,
       AsyncProofs!net_versions, Async!Interfaces, AsyncProofs!Interfaces,
       Async!FindOrCreate, AsyncProofs!FindOrCreate, Async!StopsAt, AsyncProofs!StopsAt,
       Async!Found, AsyncProofs!Found, Async!Notice, AsyncProofs!Notice,
       Async!steamworks_resolve, AsyncProofs!steamworks_resolve,
       Async!SteamAPI_InitFlat, AsyncProofs!SteamAPI_InitFlat, Async!SteamAPI_Shutdown,
       AsyncProofs!SteamAPI_Shutdown, Async!IfaceInit, AsyncProofs!IfaceInit,
       Async!ifaceVars, AsyncProofs!ifaceVars

(* What the parts assume of their constants.                               *)
LEMMA AsyncConstants == OtherInterfaces \subseteq AsyncProofs!Interfaces
BY ExtensionAssumption
   DEF Interfaces, AsyncProofs!Interfaces, versions, AsyncProofs!versions,
       user_versions, AsyncProofs!user_versions,
       friends_versions, AsyncProofs!friends_versions, stats_versions,
       AsyncProofs!stats_versions, remote_versions, AsyncProofs!remote_versions,
       apps_versions, AsyncProofs!apps_versions, timeline_versions,
       AsyncProofs!timeline_versions, ugc_versions, AsyncProofs!ugc_versions,
       net_utils_versions, AsyncProofs!net_utils_versions, matchmaking_versions,
       AsyncProofs!matchmaking_versions, utils_versions, AsyncProofs!utils_versions,
       net_versions, AsyncProofs!net_versions

LEMMA CallbackConstants ==
  /\ Kinds \subseteq CallbackProofs!AllKinds
  /\ MaxEvents \in Nat
  /\ Slots # {}
  /\ CallbackProofs!IsFiniteSet(Tickets)
  /\ OtherInterfaces \subseteq CallbackProofs!Interfaces
BY ExtensionAssumption
   DEF Interfaces, CallbackProofs!Interfaces, Callback!AllKinds, CallbackProofs!AllKinds,
       Callback!LobbyKinds, CallbackProofs!LobbyKinds, IsFiniteSet,
       CallbackProofs!IsFiniteSet, versions, CallbackProofs!versions, user_versions,
       CallbackProofs!user_versions,
       friends_versions, CallbackProofs!friends_versions, stats_versions,
       CallbackProofs!stats_versions, remote_versions, CallbackProofs!remote_versions,
       apps_versions, CallbackProofs!apps_versions, timeline_versions,
       CallbackProofs!timeline_versions, ugc_versions, CallbackProofs!ugc_versions,
       net_utils_versions, CallbackProofs!net_utils_versions, matchmaking_versions,
       CallbackProofs!matchmaking_versions, utils_versions,
       CallbackProofs!utils_versions, net_versions, CallbackProofs!net_versions

-----------------------------------------------------------------------------
(* The parts see the same session and resolve the same way.                *)
LEMMA PartsResolveAlike ==
  /\ Async!Interfaces = Callback!Interfaces
  /\ Async!ifaceVars = Callback!ifaceVars
  /\ Async!IfaceInit <=> Callback!IfaceInit
  /\ Async!SteamAPI_Shutdown <=> Callback!SteamAPI_Shutdown
  /\ \A c : Async!SteamAPI_InitFlat(c) <=> Callback!SteamAPI_InitFlat(c)
  /\ \A f : Async!Found(f) <=> Callback!Found(f)
  /\ \A f : Async!steamworks_resolve(f) <=> Callback!steamworks_resolve(f)
<1>1. Async!versions = Callback!versions
  BY DEF Async!versions, Callback!versions, Async!user_versions, Callback!user_versions,
         Async!friends_versions, Callback!friends_versions, Async!stats_versions,
         Callback!stats_versions, Async!remote_versions, Callback!remote_versions,
         Async!apps_versions, Callback!apps_versions, Async!timeline_versions,
         Callback!timeline_versions, Async!ugc_versions, Callback!ugc_versions,
         Async!net_utils_versions, Callback!net_utils_versions,
         Async!matchmaking_versions, Callback!matchmaking_versions,
         Async!utils_versions, Callback!utils_versions, Async!net_versions,
         Callback!net_versions
<1>2. Async!Interfaces = Callback!Interfaces
  BY <1>1 DEF Async!Interfaces, Callback!Interfaces
<1>3. \A f, i : Async!StopsAt(f, i) <=> Callback!StopsAt(f, i)
  BY <1>1 DEF Async!StopsAt, Callback!StopsAt, Async!FindOrCreate, Callback!FindOrCreate
<1>4. \A f : Async!Found(f) <=> Callback!Found(f)
  BY <1>1, <1>3 DEF Async!Found, Callback!Found
<1>5. \A f : Async!Notice(f) = Callback!Notice(f)
  BY <1>3, <1>4 DEF Async!Notice, Callback!Notice
<1>6. \A f : Async!steamworks_resolve(f) <=> Callback!steamworks_resolve(f)
  BY <1>5 DEF Async!steamworks_resolve, Callback!steamworks_resolve
<1> QED
  BY <1>2, <1>4, <1>6
     DEF Async!ifaceVars, Callback!ifaceVars, Async!IfaceInit, Callback!IfaceInit,
         Async!SteamAPI_Shutdown, Callback!SteamAPI_Shutdown, Async!SteamAPI_InitFlat,
         Callback!SteamAPI_InitFlat

(* A function of the registry resolves one interface.                      *)
LEMMA AsyncFunctionResolves ==
  ASSUME \/ Async!AsyncFunction
         \/ \E h \in Handles : Async!steam_get_call_result(h)
  PROVE  /\ phase = "running" /\ phase' = phase
         /\ \E f \in AsyncInterfaces : Async!steamworks_resolve(f)
BY DEF Async!AsyncFunction, Async!Issue, Async!steam_get_call_result, AsyncInterfaces,
       Async!steam_stats_find_leaderboard, Async!steam_stats_find_or_create_leaderboard,
       Async!steam_stats_upload_score, Async!steam_stats_download_leaderboard_entries,
       Async!steam_stats_attach_leaderboard_ugc, Async!steam_remote_file_share,
       Async!steam_remote_ugc_download, Async!steam_timeline_does_event_recording_exist,
       Async!steam_timeline_does_game_phase_recording_exist,
       Async!steam_ugc_subscribe_item, Async!steam_ugc_unsubscribe_item,
       Async!steam_ugc_create_item, Async!steam_ugc_submit_item_update,
       Async!steam_ugc_delete_item, Async!steam_matchmaking_create_lobby,
       Async!steam_matchmaking_join_lobby

(* A function of the callback subsystem, RunCallbacks included, resolves   *)
(* one interface or none.                                                  *)
LEMMA CallbackFunctionResolves ==
  ASSUME CallbackFunction
  PROVE  /\ phase' = phase
         /\ \/ UNCHANGED ifaceVars
            \/ /\ phase = "running"
               /\ \E f \in CallbackInterfaces : Callback!steamworks_resolve(f)
<1>1. CASE \/ Callback!steam_matchmaking_get_events
           \/ Callback!steam_friends_get_join_requests
           \/ Callback!steam_net_get_connection_events
           \/ Callback!steam_run_callbacks
           \/ \E t \in Tickets : Callback!steam_user_get_web_api_ticket_result(t)
  BY <1>1 DEF Callback!steam_matchmaking_get_events, Callback!steam_friends_get_join_requests,
              Callback!steam_net_get_connection_events, Callback!steam_run_callbacks,
              Callback!steam_user_get_web_api_ticket_result, Callback!ifaceVars, ifaceVars
<1>2. CASE Callback!steam_user_get_auth_ticket_for_web_api
  BY <1>2 DEF Callback!steam_user_get_auth_ticket_for_web_api, Callback!PhpFunction,
              CallbackInterfaces
<1>3. CASE Callback!SteamDispatches
  BY <1>3 DEF Callback!SteamDispatches, Callback!cb_run_webapi_ticket,
              Callback!cb_run_net_connection_status, Callback!cb_run_rich_presence_join,
              Callback!cb_run_lobby, Callback!Dispatch, Callback!ifaceVars, ifaceVars,
              CallbackInterfaces
<1> QED
  BY <1>1, <1>2, <1>3 DEF CallbackFunction

-----------------------------------------------------------------------------
(* Every step of the process is a step of each part.                       *)

LEMMA StepsOfAsync ==
  ASSUME [Next]_vars
  PROVE  [Async!Next]_(Async!vars)
<1>1. CASE MINIT \/ MSHUTDOWN \/ steam_shutdown
  BY <1>1 DEF MINIT, MSHUTDOWN, steam_shutdown, Async!Next
<1>2. ASSUME NEW client \in Clients, steam_init(client) PROVE Async!Next
  BY <1>2 DEF steam_init, Async!Next
<1>3. CASE AsyncStep
  BY <1>3 DEF AsyncStep, Async!Next
<1>4. CASE CallbackFunction
  <2>1. UNCHANGED Async!callVars
    BY <1>4 DEF CallbackFunction, asyncVars, Async!callVars
  <2>2. CASE UNCHANGED ifaceVars
    BY <1>4, <2>1, <2>2, CallbackFunctionResolves DEF Async!vars, Async!ifaceVars, ifaceVars
  <2>3. CASE phase = "running" /\ \E f \in CallbackInterfaces : Callback!steamworks_resolve(f)
    <3>1. PICK f \in CallbackInterfaces : Async!steamworks_resolve(f)
      BY <2>3, PartsResolveAlike
    <3>2. Async!other_function(f)
      BY <1>4, <2>1, <2>3, <3>1, CallbackFunctionResolves DEF Async!other_function
    <3> QED
      BY <3>2, ExtensionAssumption DEF Async!Next
  <2> QED
    BY <1>4, <2>2, <2>3, CallbackFunctionResolves
<1>5. CASE SteamStep
  <2>1. CASE \E h \in Handles : Async!SteamCompletes(h)
    BY <2>1 DEF Async!Next
  <2>2. CASE Callback!SteamPosts /\ UNCHANGED asyncVars
    BY <2>2 DEF Callback!SteamPosts, Callback!PostEvent, Callback!PostChatMessage,
                Callback!PostTicket, Callback!Post, asyncVars, Callback!ifaceVars,
                Async!ifaceVars, Async!callVars, Async!vars
  <2> QED
    BY <1>5, <2>1, <2>2 DEF SteamStep
<1>6. CASE UNCHANGED vars
  BY <1>6 DEF vars, ifaceVars, asyncVars, Async!vars, Async!ifaceVars, Async!callVars
<1> QED
  BY <1>1, <1>2, <1>3, <1>4, <1>5, <1>6 DEF Next

LEMMA StepsOfCallback ==
  ASSUME [Next]_vars
  PROVE  [Callback!Next]_(Callback!vars)
<1>1. CASE MINIT \/ MSHUTDOWN \/ steam_shutdown
  BY <1>1 DEF MINIT, MSHUTDOWN, steam_shutdown, Callback!Next
<1>2. ASSUME NEW client \in Clients, steam_init(client) PROVE Callback!Next
  BY <1>2 DEF steam_init, Callback!Next
<1>3. CASE AsyncStep
  <2>1. PICK f \in AsyncInterfaces : Callback!steamworks_resolve(f)
    BY <1>3, AsyncFunctionResolves, PartsResolveAlike DEF AsyncStep
  <2>2. Callback!other_function(f)
    BY <1>3, <2>1, AsyncFunctionResolves
       DEF AsyncStep, Callback!other_function, Callback!PhpFunction, callbackVars,
           Callback!storage, Callback!steamSide, Callback!history
  <2> QED
    BY <2>2, ExtensionAssumption DEF Callback!Next
<1>4. CASE CallbackFunction
  BY <1>4 DEF CallbackFunction, Callback!Next
<1>5. CASE SteamStep
  <2>1. CASE (\E h \in Handles : Async!SteamCompletes(h)) /\ UNCHANGED callbackVars
    BY <2>1 DEF Async!SteamCompletes, callbackVars, Async!ifaceVars, Callback!ifaceVars,
                Callback!vars, Callback!storage, Callback!steamSide, Callback!history
  <2>2. CASE Callback!SteamPosts
    BY <2>2 DEF Callback!Next
  <2> QED
    BY <1>5, <2>1, <2>2 DEF SteamStep
<1>6. CASE UNCHANGED vars
  BY <1>6 DEF vars, ifaceVars, callbackVars, Callback!vars, Callback!ifaceVars,
              Callback!storage, Callback!steamSide, Callback!history
<1> QED
  BY <1>1, <1>2, <1>3, <1>4, <1>5, <1>6 DEF Next

(* The process is the registry of calls, seen without the callbacks: none  *)
(* of the other functions disturbs a pending call.                         *)
THEOREM ProcessImplementsRegistry == Spec => AsyncSpec
BY StepsOfAsync, PTL DEF Spec, Init, AsyncSpec, Async!Spec

(* The process is the callback subsystem, seen without the calls: none of  *)
(* the wrappers or polls touches an event, a response or a block.          *)
THEOREM ProcessImplementsCallbacks == Spec => CallbackSpec
BY StepsOfCallback, PTL DEF Spec, Init, CallbackSpec, Callback!Spec

-----------------------------------------------------------------------------
(* What is proved of the parts holds of the process.                       *)

LEMMA RegistryOfProcess == Spec => AsyncProofs!Spec
BY ProcessImplementsRegistry, SameAsync, PTL
   DEF AsyncSpec, Async!Spec, AsyncProofs!Spec

LEMMA CallbacksOfProcess == Spec => CallbackProofs!Spec
BY ProcessImplementsCallbacks, SameCallback, PTL
   DEF CallbackSpec, Callback!Spec, CallbackProofs!Spec

(* In one process with both parts: the registry lists exactly the calls    *)
(* the script still waits for, and no call is answered twice.              *)
THEOREM CallsInTheProcess ==
  Spec => [](AsyncProofs!RegistryTracksCalls /\ AsyncProofs!AnsweredOnce)
BY RegistryOfProcess, AsyncProofs!RegistryIsExact, AsyncProofs!OneAnswerPerCall,
   AsyncConstants, ClientsAssumption, PTL

(* In one process with both parts: no queue loses, doubles or reorders an  *)
(* event, no ticket response is lost, and no block leaks.                  *)
THEOREM CallbacksInTheProcess ==
  Spec => []/\ CallbackProofs!DeliveredInOrderOnce
            /\ CallbackProofs!TicketsOnceAndLatest
            /\ CallbackProofs!HeapBalanced
BY CallbacksOfProcess, CallbackProofs!EventsDeliveredInOrderOnce,
   CallbackProofs!TicketsInOrder, CallbackProofs!HeapIsBalanced,
   CallbackConstants, ClientsAssumption, PTL

(* In one process with both parts the three queues are still event feeds:  *)
(* refinement composes, and the calls change no feed.                      *)
THEOREM FeedsInTheProcess == Spec => CallbackProofs!FeedSpecs
BY CallbacksOfProcess, CallbackProofs!QueuesAreFeeds, CallbackConstants, ClientsAssumption, PTL

-----------------------------------------------------------------------------
(* One life.                                                               *)

(* The registry exists while the module runs and is empty after its end:   *)
(* the part of OneLife that no invariant of the parts says.                *)
RegistryEnds ==
  /\ steamworks_registry_initialized \in BOOLEAN
  /\ steamworks_registry_initialized <=> phase = "running"
  /\ phase = "exited" => steamworks_pending_calls = Async!NoCalls

LEMMA RegistryEndsInductive ==
  ASSUME RegistryEnds, [Async!Next]_(Async!vars)
  PROVE  RegistryEnds'
<1>1. CASE Async!MINIT
  BY <1>1 DEF Async!MINIT, Async!steamworks_async_minit, RegistryEnds
<1>2. CASE Async!MSHUTDOWN
  BY <1>2 DEF Async!MSHUTDOWN, Async!steamworks_async_mshutdown, RegistryEnds, Async!NoCalls
<1>3. CASE \/ Async!AsyncFunction
           \/ \E h \in Handles : Async!steam_get_call_result(h)
  <2>1. phase' = "running" /\ UNCHANGED steamworks_registry_initialized
    BY <1>3 DEF Async!AsyncFunction, Async!Issue, Async!steam_get_call_result,
                Async!callVars,
                Async!steam_stats_find_leaderboard,
                Async!steam_stats_find_or_create_leaderboard,
                Async!steam_stats_upload_score,
                Async!steam_stats_download_leaderboard_entries,
                Async!steam_stats_attach_leaderboard_ugc, Async!steam_remote_file_share,
                Async!steam_remote_ugc_download,
                Async!steam_timeline_does_event_recording_exist,
                Async!steam_timeline_does_game_phase_recording_exist,
                Async!steam_ugc_subscribe_item, Async!steam_ugc_unsubscribe_item,
                Async!steam_ugc_create_item, Async!steam_ugc_submit_item_update,
                Async!steam_ugc_delete_item, Async!steam_matchmaking_create_lobby,
                Async!steam_matchmaking_join_lobby
  <2>2. phase = "running"
    BY <1>3, AsyncFunctionResolves
  <2> QED
    BY <2>1, <2>2 DEF RegistryEnds
<1>4. CASE \/ \E client \in Clients : Async!steam_init(client)
           \/ Async!steam_shutdown
           \/ \E h \in Handles : Async!SteamCompletes(h)
           \/ \E f \in OtherInterfaces : Async!other_function(f)
           \/ UNCHANGED Async!vars
  <2>1. UNCHANGED <<phase, steamworks_registry_initialized, steamworks_pending_calls>>
    BY <1>4 DEF Async!steam_init, Async!steam_shutdown, Async!SteamCompletes,
                Async!other_function, Async!callVars, Async!vars
  <2> QED
    BY <2>1 DEF RegistryEnds, Async!NoCalls
<1> QED
  BY <1>1, <1>2, <1>3, <1>4 DEF Async!Next

(* The halves of the extension agree about their life, and the process     *)
(* ends without a call or a block: from the invariants of both parts.      *)
THEOREM HalvesLiveTogether == Spec => []OneLife
<1>1. Init => RegistryEnds
  BY DEF Init, Async!Init, RegistryEnds
<1>2. Spec => []RegistryEnds
  BY <1>1, StepsOfAsync, RegistryEndsInductive, PTL DEF Spec
<1>3. Spec => []CallbackProofs!QueueInv
  BY CallbacksOfProcess, CallbackProofs!InitHasEmptyQueues,
     CallbackProofs!QueuesInductive, CallbackConstants, ClientsAssumption, PTL
     DEF CallbackProofs!Spec
<1>4. RegistryEnds /\ CallbackProofs!QueueInv /\ CallbackProofs!HeapBalanced => OneLife
  BY DEF RegistryEnds, CallbackProofs!QueueInv, CallbackProofs!StorageLives,
         CallbackProofs!RegistrationInv, CallbackProofs!RegisteredExactlyOnce,
         CallbackProofs!HeapBalanced, CallbackProofs!Blocks, Callback!Blocks, OneLife
<1> QED
  BY <1>2, <1>3, <1>4, CallbacksInTheProcess, PTL

=============================================================================
