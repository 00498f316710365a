-------------------------- MODULE SteamCallResults --------------------------
(***************************************************************************)
(* The handle-and-poll model of asynchronous Steam calls                   *)
(* (src/modules/steam_async.c and the wrappers that feed it).              *)
(*                                                                         *)
(* A wrapper starts a Steam call, records under its handle which kind of   *)
(* result will come back, and returns the handle.  The script polls the    *)
(* handle with steam_get_call_result(), which fetches and decodes the      *)
(* result once Steam has completed the call.  The result struct Steam      *)
(* expects is chosen by the recorded kind alone, so the registry must name *)
(* the right kind for as long as Steam owes an answer.                     *)
(***************************************************************************)
EXTENDS SteamInterfaces, FiniteSets

CONSTANTS
  Handles,     (* The SteamAPICall_t values Steam hands out (never 0).      *)
  OtherInterfaces  (* Interfaces that functions modelled elsewhere resolve. *)

ASSUME CallsAssumption == OtherInterfaces \subseteq Interfaces

VARIABLES
  phase,       (* The module's life: "startup", "running", "exited".        *)
  steamworks_registry_initialized,
  steamworks_pending_calls,
               (* handle -> the kind recorded for it, or None.              *)
  steam,       (* Steam's own table: which call a handle stands for and how *)
               (* far it got.                                               *)
  issued,      (* History: the call a script last got this handle from.     *)
  answer       (* History: the answers other than null that polling the     *)
               (* handle has given since then.                              *)

callVars ==
  <<steamworks_registry_initialized, steamworks_pending_calls, steam, issued, answer>>

vars == <<ifaceVars, phase, callVars>>

None == "none"
Failed == "false"      (* PHP's false, as opposed to an array's type. *)

-----------------------------------------------------------------------------
(* Steam's side.  The struct in which Steam delivers each call's result.   *)
ResultStruct ==
  [ FindLeaderboard              |-> "LeaderboardFindResult",
    FindOrCreateLeaderboard      |-> "LeaderboardFindResult",
    UploadLeaderboardScore       |-> "LeaderboardScoreUploaded",
    DownloadLeaderboardEntries   |-> "LeaderboardScoresDownloaded",
    AttachLeaderboardUGC         |-> "LeaderboardUGCSet",
    FileShare                    |-> "RemoteStorageFileShareResult",
    UGCDownload                  |-> "RemoteStorageDownloadUGCResult",
    DoesEventRecordingExist      |-> "SteamTimelineEventRecordingExists",
    DoesGamePhaseRecordingExist  |-> "SteamTimelineGamePhaseRecordingExists",
    SubscribeItem                |-> "RemoteStorageSubscribePublishedFileResult",
    UnsubscribeItem              |-> "RemoteStorageUnsubscribePublishedFileResult",
    CreateItem                   |-> "CreateItemResult",
    SubmitItemUpdate             |-> "SubmitItemUpdateResult",
    DeleteItem                   |-> "DeleteItemResult",
    CreateLobby                  |-> "LobbyCreated",
    JoinLobby                    |-> "LobbyEnter" ]

Calls == DOMAIN ResultStruct

(* "ready": a result is waiting.  "failed": the call failed.  "garbled":   *)
(* completed, but fetching the result reports an I/O failure.              *)
Idle == [call |-> None, state |-> None]

(* What ISteamUtils::IsAPICallCompleted may report: not completed,         *)
(* completed, or completed with the failed flag.  For a handle Steam does  *)
(* not know, any answer is possible.                                       *)
IsAPICallCompleted(h) ==
  CASE steam[h].state = "pending"             -> {"pending"}
    [] steam[h].state \in {"ready", "garbled"} -> {"completed"}
    [] steam[h].state = "failed"              -> {"failed"}
    [] OTHER -> {"pending", "completed", "failed"}

(* ISteamUtils::GetAPICallResult returns true, without io_failed, only for *)
(* the struct the call really produced.                                    *)
GetAPICallResult(h, expected) ==
  steam[h].state = "ready" /\ ResultStruct[steam[h].call] = expected

(* Steam keeps a handle apart from its other calls until the call behind   *)
(* it has been answered; SteamAPI_Shutdown forgets them all.               *)
Fresh(h) == steam[h] = Idle \/ answer[h] # <<>>

SteamCompletes(h) ==
  /\ steam[h].state = "pending"
  /\ \E outcome \in {"ready", "failed", "garbled"} :
       steam' = [steam EXCEPT ![h].state = outcome]
  /\ UNCHANGED <<ifaceVars, phase, steamworks_registry_initialized,
                 steamworks_pending_calls, issued, answer>>

-----------------------------------------------------------------------------
(* The decoder: per kind the struct it asks for and the 'type' of the      *)
(* array it builds.                                                        *)

decode_leaderboards ==
  [ LEADERBOARD_FIND  |-> <<"LeaderboardFindResult", "leaderboard_found">>,
    SCORE_UPLOADED    |-> <<"LeaderboardScoreUploaded", "score_uploaded">>,
    SCORES_DOWNLOADED |-> <<"LeaderboardScoresDownloaded", "scores_downloaded">>,
    LEADERBOARD_UGC_SET |-> <<"LeaderboardUGCSet", "leaderboard_ugc_set">> ]

decode_timeline ==
  [ TIMELINE_EVENT_RECORDING |->
      <<"SteamTimelineEventRecordingExists", "timeline_event_recording_exists">>,
    TIMELINE_PHASE_RECORDING |->
      <<"SteamTimelineGamePhaseRecordingExists", "timeline_game_phase_recording_exists">> ]

decode_ugc ==
  [ UGC_SUBSCRIBE |->
      <<"RemoteStorageSubscribePublishedFileResult", "ugc_subscribed">>,
    UGC_UNSUBSCRIBE |->
      <<"RemoteStorageUnsubscribePublishedFileResult", "ugc_unsubscribed">>,
    UGC_CREATE_ITEM        |-> <<"CreateItemResult", "ugc_item_created">>,
    UGC_SUBMIT_ITEM_UPDATE |-> <<"SubmitItemUpdateResult", "ugc_item_submitted">>,
    UGC_DELETE_ITEM        |-> <<"DeleteItemResult", "ugc_item_deleted">> ]

decode_remote ==
  [ REMOTE_FILE_SHARE   |-> <<"RemoteStorageFileShareResult", "remote_file_shared">>,
    REMOTE_UGC_DOWNLOAD |-> <<"RemoteStorageDownloadUGCResult", "remote_ugc_downloaded">> ]

(* A slip: no case for the CallResult of JoinLobby.                        *)
decode_lobby_NoEntered == [LOBBY_CREATED |-> <<"LobbyCreated", "lobby_created">>]

decode_lobby ==
  [ LOBBY_CREATED |-> <<"LobbyCreated", "lobby_created">>,
    LOBBY_ENTERED |-> <<"LobbyEnter", "lobby_entered">> ]

steamworks_call_kind ==
  DOMAIN decode_leaderboards \cup DOMAIN decode_timeline \cup DOMAIN decode_ugc
    \cup DOMAIN decode_remote \cup DOMAIN decode_lobby

decode(kind) ==
  CASE kind \in DOMAIN decode_leaderboards -> decode_leaderboards[kind]
    [] kind \in DOMAIN decode_timeline     -> decode_timeline[kind]
    [] kind \in DOMAIN decode_ugc          -> decode_ugc[kind]
    [] kind \in DOMAIN decode_remote       -> decode_remote[kind]
    [] kind \in DOMAIN decode_lobby        -> decode_lobby[kind]
    [] OTHER                               -> <<None, Failed>>

-----------------------------------------------------------------------------
(* The registry and the session.                                           *)

NoCalls == [h \in Handles |-> None]

steamworks_async_minit ==
  /\ steamworks_pending_calls' = NoCalls
  /\ steamworks_registry_initialized' = TRUE

steamworks_async_mshutdown ==
  /\ steamworks_registry_initialized' = FALSE
  /\ steamworks_pending_calls' =
       IF steamworks_registry_initialized THEN NoCalls ELSE steamworks_pending_calls

(* A slip: zend_hash_index_add_ptr, which keeps an existing entry.         *)
register_call_Add(h, kind) ==
  steamworks_pending_calls' =
    IF steamworks_registry_initialized /\ steamworks_pending_calls[h] = None
      THEN [steamworks_pending_calls EXCEPT ![h] = kind]
      ELSE steamworks_pending_calls

steamworks_register_call(h, kind) ==
  steamworks_pending_calls' =
    IF steamworks_registry_initialized
      THEN [steamworks_pending_calls EXCEPT ![h] = kind]
      ELSE steamworks_pending_calls

MINIT ==
  /\ phase = "startup" /\ phase' = "running"
  /\ steamworks_async_minit
  /\ UNCHANGED <<ifaceVars, steam, issued, answer>>

MSHUTDOWN ==
  /\ phase = "running" /\ phase' = "exited"
  /\ steamworks_async_mshutdown
  /\ UNCHANGED <<ifaceVars, steam, issued, answer>>

steam_init(client) ==
  /\ phase = "running"
  /\ SteamAPI_InitFlat(client)
  /\ UNCHANGED <<phase, callVars>>

(* SteamAPI_Shutdown drops Steam's table; the registry is left as it is.   *)
steam_shutdown ==
  /\ phase = "running"
  /\ SteamAPI_Shutdown
  /\ steam' = [h \in Handles |-> Idle]
  /\ UNCHANGED <<phase, steamworks_registry_initialized,
                 steamworks_pending_calls, issued, answer>>

-----------------------------------------------------------------------------
(* The wrappers.  Each resolves its interface, makes its flat call and     *)
(* registers the handle under its kind; FALSE when there is no interface   *)
(* or Steam returns handle 0.                                              *)
Issue(call, iface, kind) ==
  /\ phase = "running"
  /\ steamworks_resolve(iface)
  /\ \/ UNCHANGED <<phase, callVars>>                \* FALSE
     \/ /\ Found(iface)
        /\ \E h \in Handles :
             /\ Fresh(h)
             /\ steam' = [steam EXCEPT ![h] = [call |-> call, state |-> "pending"]]
             /\ steamworks_register_call(h, kind)
             /\ issued' = [issued EXCEPT ![h] = call]
             /\ answer' = [answer EXCEPT ![h] = <<>>]
        /\ UNCHANGED <<phase, steamworks_registry_initialized>>

steam_stats_find_leaderboard ==
  Issue("FindLeaderboard", "ISteamUserStats", "LEADERBOARD_FIND")

steam_stats_find_or_create_leaderboard ==
  Issue("FindOrCreateLeaderboard", "ISteamUserStats", "LEADERBOARD_FIND")

steam_stats_upload_score ==
  Issue("UploadLeaderboardScore", "ISteamUserStats", "SCORE_UPLOADED")

steam_stats_download_leaderboard_entries ==
  Issue("DownloadLeaderboardEntries", "ISteamUserStats", "SCORES_DOWNLOADED")

steam_stats_attach_leaderboard_ugc ==
  Issue("AttachLeaderboardUGC", "ISteamUserStats", "LEADERBOARD_UGC_SET")

steam_remote_file_share ==
  Issue("FileShare", "ISteamRemoteStorage", "REMOTE_FILE_SHARE")

(* A negative priority is refused before the interface is resolved.        *)
steam_remote_ugc_download(priority) ==
  /\ priority >= 0
  /\ Issue("UGCDownload", "ISteamRemoteStorage", "REMOTE_UGC_DOWNLOAD")

steam_timeline_does_event_recording_exist ==
  Issue("DoesEventRecordingExist", "ISteamTimeline", "TIMELINE_EVENT_RECORDING")

steam_timeline_does_game_phase_recording_exist ==
  Issue("DoesGamePhaseRecordingExist", "ISteamTimeline", "TIMELINE_PHASE_RECORDING")

steam_ugc_subscribe_item ==
  Issue("SubscribeItem", "ISteamUGC", "UGC_SUBSCRIBE")

steam_ugc_unsubscribe_item ==
  Issue("UnsubscribeItem", "ISteamUGC", "UGC_UNSUBSCRIBE")

steam_ugc_create_item ==
  Issue("CreateItem", "ISteamUGC", "UGC_CREATE_ITEM")

steam_ugc_submit_item_update ==
  Issue("SubmitItemUpdate", "ISteamUGC", "UGC_SUBMIT_ITEM_UPDATE")

steam_ugc_delete_item ==
  Issue("DeleteItem", "ISteamUGC", "UGC_DELETE_ITEM")

(* A lobby for fewer than one member is refused first.                     *)
steam_matchmaking_create_lobby(max_members) ==
  /\ max_members >= 1
  /\ Issue("CreateLobby", "ISteamMatchmaking", "LOBBY_CREATED")

steam_matchmaking_join_lobby ==
  Issue("JoinLobby", "ISteamMatchmaking", "LOBBY_ENTERED")

AsyncFunction ==
  \/ steam_stats_find_leaderboard
  \/ steam_stats_find_or_create_leaderboard
  \/ steam_stats_upload_score
  \/ steam_stats_download_leaderboard_entries
  \/ steam_stats_attach_leaderboard_ugc
  \/ steam_remote_file_share
  \/ \E priority \in {-1, 0} : steam_remote_ugc_download(priority)
  \/ steam_timeline_does_event_recording_exist
  \/ steam_timeline_does_game_phase_recording_exist
  \/ steam_ugc_subscribe_item
  \/ steam_ugc_unsubscribe_item
  \/ steam_ugc_create_item
  \/ steam_ugc_submit_item_update
  \/ steam_ugc_delete_item
  \/ \E max_members \in {0, 1} : steam_matchmaking_create_lobby(max_members)
  \/ steam_matchmaking_join_lobby

-----------------------------------------------------------------------------
(* What a completed call is answered with: the type of the array, or false *)
(* when the call failed or its result cannot be read.                      *)
Answer(h, reply) ==
  LET expected == decode(steamworks_pending_calls[h]) IN
    IF reply # "failed" /\ GetAPICallResult(h, expected[1]) THEN expected[2] ELSE Failed

(* A slip: polling before asking Steam whether the call has completed.     *)
get_call_result_Eager(h) ==
  /\ phase = "running"
  /\ steamworks_registry_initialized /\ steamworks_pending_calls[h] # None
  /\ steamworks_resolve("ISteamUtils")
  /\ \/ UNCHANGED <<phase, callVars>>
     \/ /\ Found("ISteamUtils")
        /\ steamworks_pending_calls' = [steamworks_pending_calls EXCEPT ![h] = None]
        /\ answer' = [answer EXCEPT ![h] = Append(@, Answer(h, "completed"))]
        /\ UNCHANGED <<phase, steamworks_registry_initialized, steam, issued>>

(* A slip: the entry left in the registry after the answer.                *)
get_call_result_NotConsumed(h) ==
  /\ phase = "running"
  /\ steamworks_registry_initialized /\ steamworks_pending_calls[h] # None
  /\ steamworks_resolve("ISteamUtils")
  /\ Found("ISteamUtils")
  /\ \E reply \in IsAPICallCompleted(h) :
       /\ reply # "pending"
       /\ answer' = [answer EXCEPT ![h] = Append(@, Answer(h, reply))]
  /\ UNCHANGED <<phase, steamworks_registry_initialized,
                 steamworks_pending_calls, steam, issued>>

(* A slip: a failed call taken for one that is still pending.              *)
get_call_result_FailedIsPending(h) ==
  /\ phase = "running"
  /\ steamworks_registry_initialized /\ steamworks_pending_calls[h] # None
  /\ steamworks_resolve("ISteamUtils")
  /\ Found("ISteamUtils")
  /\ "completed" \in IsAPICallCompleted(h)
  /\ steamworks_pending_calls' = [steamworks_pending_calls EXCEPT ![h] = None]
  /\ answer' = [answer EXCEPT ![h] = Append(@, Answer(h, "completed"))]
  /\ UNCHANGED <<phase, steamworks_registry_initialized, steam, issued>>

(* Completed calls are consumed before they are decoded, failures too.     *)
(* Every other path returns null: unknown handle, no ISteamUtils, pending. *)
steam_get_call_result(h) ==
  /\ phase = "running"
  /\ steamworks_registry_initialized /\ steamworks_pending_calls[h] # None
  /\ steamworks_resolve("ISteamUtils")
  /\ IF Found("ISteamUtils")
       THEN \E reply \in IsAPICallCompleted(h) :
              IF reply # "pending"
                THEN /\ steamworks_pending_calls' =
                          [steamworks_pending_calls EXCEPT ![h] = None]
                     /\ answer' = [answer EXCEPT ![h] = Append(@, Answer(h, reply))]
                     /\ UNCHANGED <<phase, steamworks_registry_initialized, steam, issued>>
                ELSE UNCHANGED <<phase, callVars>>
       ELSE UNCHANGED <<phase, callVars>>

(* Any other function of the extension: it resolves its interface.         *)
other_function(f) ==
  /\ phase = "running"
  /\ steamworks_resolve(f)
  /\ UNCHANGED <<phase, callVars>>

-----------------------------------------------------------------------------
Init ==
  /\ IfaceInit
  /\ phase = "startup"
  /\ steamworks_registry_initialized = FALSE
  /\ steamworks_pending_calls = NoCalls
  /\ steam = [h \in Handles |-> Idle]
  /\ issued = NoCalls
  /\ answer = [h \in Handles |-> <<>>]

Next ==
  \/ MINIT
  \/ MSHUTDOWN
  \/ \E client \in Clients : steam_init(client)
  \/ steam_shutdown
  \/ AsyncFunction
  \/ \E h \in Handles : steam_get_call_result(h)
  \/ \E h \in Handles : SteamCompletes(h)
  \/ \E f \in OtherInterfaces : other_function(f)

Spec == Init /\ [][Next]_vars

(* The game loop polls every handle it holds, and Steam completes every    *)
(* call it has accepted, one way or the other.                             *)
Fairness ==
  /\ \A h \in Handles : WF_vars(steam_get_call_result(h))
  /\ \A h \in Handles : WF_vars(SteamCompletes(h))

FairSpec == Spec /\ Fairness

-----------------------------------------------------------------------------
Unanswered(h) == issued[h] # None /\ answer[h] = <<>>

TypeOK ==
  /\ IfaceTypeOK
  /\ phase \in {"startup", "running", "exited"}
  /\ steamworks_registry_initialized \in BOOLEAN
  /\ steamworks_pending_calls \in [Handles -> steamworks_call_kind \cup {None}]
  /\ steam \in [Handles -> {Idle} \cup
                  [call : Calls, state : {"pending", "ready", "failed", "garbled"}]]
  /\ issued \in [Handles -> Calls \cup {None}]
  /\ answer \in [Handles -> Seq({Failed} \cup {decode(k)[2] : k \in steamworks_call_kind})]

(* The type README.md and the stubs announce for each call's result.       *)
DocumentedType ==
  [ FindLeaderboard              |-> "leaderboard_found",
    FindOrCreateLeaderboard      |-> "leaderboard_found",
    UploadLeaderboardScore       |-> "score_uploaded",
    DownloadLeaderboardEntries   |-> "scores_downloaded",
    AttachLeaderboardUGC         |-> "leaderboard_ugc_set",
    FileShare                    |-> "remote_file_shared",
    UGCDownload                  |-> "remote_ugc_downloaded",
    DoesEventRecordingExist      |-> "timeline_event_recording_exists",
    DoesGamePhaseRecordingExist  |-> "timeline_game_phase_recording_exists",
    SubscribeItem                |-> "ugc_subscribed",
    UnsubscribeItem              |-> "ugc_unsubscribed",
    CreateItem                   |-> "ugc_item_created",
    SubmitItemUpdate             |-> "ugc_item_submitted",
    DeleteItem                   |-> "ugc_item_deleted",
    CreateLobby                  |-> "lobby_created",
    JoinLobby                    |-> "lobby_entered" ]

(* While the module runs, the registry lists exactly the handles the       *)
(* script still holds without an answer, across sessions and reissued      *)
(* handles, and the kind it lists decodes the struct of the call the       *)
(* handle was last issued for (register_call, the delete in the poll).     *)
RegistryTracksCalls ==
  steamworks_registry_initialized =>
    \A h \in Handles :
      /\ steamworks_pending_calls[h] # None <=> Unanswered(h)
      /\ Unanswered(h) =>
           decode(steamworks_pending_calls[h]) =
             <<ResultStruct[issued[h]], DocumentedType[issued[h]]>>

(* However often a handle is polled, one issue of it is answered at most   *)
(* once: the poll that answers consumes the entry.                         *)
AnsweredOnce == \A h \in Handles : Len(answer[h]) <= 1

(* The poll that answers tells the script what Steam holds for this handle *)
(* at that moment: never before completion, the result under the type      *)
(* documented for the call when it can be read, false only otherwise.  The *)
(* entry is gone after the poll, so a wrong false would lose the result.   *)
AnswerIsSteams ==
  [][\A h \in Handles :
       Unanswered(h) /\ answer'[h] # <<>> =>
         /\ steam[h].state # "pending"
         /\ answer'[h] = IF steam[h].state = "ready"
                           THEN <<DocumentedType[steam[h].call]>>
                           ELSE <<Failed>>]_vars

(* What the game loop in README.md relies on: a call of the live session   *)
(* that is polled every frame stops returning null.                        *)
PollingEnds ==
  \A h \in Handles :
    (user = 1 /\ Unanswered(h) /\ steam[h] # Idle)
      ~> (answer[h] # <<>> \/ user = 0 \/ phase = "exited")

(* The same with a client that offers ISteamUtils: whatever becomes of the *)
(* call, the answer reaches the script, an I/O failure included.           *)
PollingEndsWithUtils ==
  \A h \in Handles :
    (user = 1 /\ Found("ISteamUtils") /\ Unanswered(h) /\ steam[h] # Idle)
      ~> (answer[h] # <<>> \/ user = 0 \/ phase = "exited")

=============================================================================
