---------------------- MODULE SteamCallResults_proofs ----------------------
(***************************************************************************)
(* Proofs about SteamCallResults, for every set of handles and clients:    *)
(* any number of calls, sessions and reissued handles.                     *)
(***************************************************************************)
EXTENDS SteamCallResults, SteamInterfaces_proofs

-----------------------------------------------------------------------------
(* The sixteen wrappers.                                                   *)

(* The wrapper of a call registers a kind under which the poll asks for    *)
(* the struct of that call and builds the documented array.                *)
WellPaired(call, iface, kind) ==
  /\ call \in Calls
  /\ iface \in Interfaces
  /\ kind \in steamworks_call_kind \ {None}
  /\ decode(kind) = <<ResultStruct[call], DocumentedType[call]>>

LEMMA DecoderDomains ==
  /\ DOMAIN decode_leaderboards =
       {"LEADERBOARD_FIND", "SCORE_UPLOADED", "SCORES_DOWNLOADED", "LEADERBOARD_UGC_SET"}
  /\ DOMAIN decode_timeline = {"TIMELINE_EVENT_RECORDING", "TIMELINE_PHASE_RECORDING"}
  /\ DOMAIN decode_ugc =
       {"UGC_SUBSCRIBE", "UGC_UNSUBSCRIBE", "UGC_CREATE_ITEM", "UGC_SUBMIT_ITEM_UPDATE",
        "UGC_DELETE_ITEM"}
  /\ DOMAIN decode_remote = {"REMOTE_FILE_SHARE", "REMOTE_UGC_DOWNLOAD"}
  /\ DOMAIN decode_lobby = {"LOBBY_CREATED", "LOBBY_ENTERED"}
BY DEF decode_leaderboards, decode_timeline, decode_ugc, decode_remote, decode_lobby

(* Each kind is decoded by the group of cases it belongs to.               *)
LEMMA DecoderCases ==
  /\ \A k \in DOMAIN decode_leaderboards : decode(k) = decode_leaderboards[k]
  /\ \A k \in DOMAIN decode_timeline : decode(k) = decode_timeline[k]
  /\ \A k \in DOMAIN decode_ugc : decode(k) = decode_ugc[k]
  /\ \A k \in DOMAIN decode_remote : decode(k) = decode_remote[k]
  /\ \A k \in DOMAIN decode_lobby : decode(k) = decode_lobby[k]
BY DecoderDomains DEF decode

LEMMA NoneIsNoKind == None \notin steamworks_call_kind
BY DecoderDomains DEF None, steamworks_call_kind

LEMMA CallInterfaces ==
  {"ISteamUserStats", "ISteamRemoteStorage", "ISteamTimeline", "ISteamUGC",
   "ISteamMatchmaking", "ISteamUtils"} \subseteq Interfaces
BY DEF Interfaces, versions

LEMMA LeaderboardWrappers ==
  /\ WellPaired("FindLeaderboard", "ISteamUserStats", "LEADERBOARD_FIND")
  /\ WellPaired("FindOrCreateLeaderboard", "ISteamUserStats", "LEADERBOARD_FIND")
  /\ WellPaired("UploadLeaderboardScore", "ISteamUserStats", "SCORE_UPLOADED")
  /\ WellPaired("DownloadLeaderboardEntries", "ISteamUserStats", "SCORES_DOWNLOADED")
  /\ WellPaired("AttachLeaderboardUGC", "ISteamUserStats", "LEADERBOARD_UGC_SET")
BY CallInterfaces, NoneIsNoKind, DecoderDomains, DecoderCases
   DEF WellPaired, Calls, steamworks_call_kind, decode_leaderboards, ResultStruct, DocumentedType

LEMMA RemoteWrappers ==
  /\ WellPaired("FileShare", "ISteamRemoteStorage", "REMOTE_FILE_SHARE")
  /\ WellPaired("UGCDownload", "ISteamRemoteStorage", "REMOTE_UGC_DOWNLOAD")
BY CallInterfaces, NoneIsNoKind, DecoderDomains, DecoderCases
   DEF WellPaired, Calls, steamworks_call_kind, decode_remote, ResultStruct, DocumentedType

LEMMA TimelineWrappers ==
  /\ WellPaired("DoesEventRecordingExist", "ISteamTimeline", "TIMELINE_EVENT_RECORDING")
  /\ WellPaired("DoesGamePhaseRecordingExist", "ISteamTimeline", "TIMELINE_PHASE_RECORDING")
BY CallInterfaces, NoneIsNoKind, DecoderDomains, DecoderCases
   DEF WellPaired, Calls, steamworks_call_kind, decode_timeline, ResultStruct, DocumentedType

LEMMA UgcWrappers ==
  /\ WellPaired("SubscribeItem", "ISteamUGC", "UGC_SUBSCRIBE")
  /\ WellPaired("UnsubscribeItem", "ISteamUGC", "UGC_UNSUBSCRIBE")
  /\ WellPaired("CreateItem", "ISteamUGC", "UGC_CREATE_ITEM")
  /\ WellPaired("SubmitItemUpdate", "ISteamUGC", "UGC_SUBMIT_ITEM_UPDATE")
  /\ WellPaired("DeleteItem", "ISteamUGC", "UGC_DELETE_ITEM")
BY CallInterfaces, NoneIsNoKind, DecoderDomains, DecoderCases
   DEF WellPaired, Calls, steamworks_call_kind, decode_ugc, ResultStruct, DocumentedType

LEMMA LobbyWrappers ==
  /\ WellPaired("CreateLobby", "ISteamMatchmaking", "LOBBY_CREATED")
  /\ WellPaired("JoinLobby", "ISteamMatchmaking", "LOBBY_ENTERED")
BY CallInterfaces, NoneIsNoKind, DecoderDomains, DecoderCases
   DEF WellPaired, Calls, steamworks_call_kind, decode_lobby, ResultStruct, DocumentedType

LEMMA EveryWrapperIsWellPaired ==
  ASSUME AsyncFunction
  PROVE  \E call \in Calls : \E iface, kind :
           WellPaired(call, iface, kind) /\ Issue(call, iface, kind)
BY LeaderboardWrappers, RemoteWrappers, TimelineWrappers, UgcWrappers, LobbyWrappers
   DEF AsyncFunction, WellPaired,
       steam_stats_find_leaderboard, steam_stats_find_or_create_leaderboard,
       steam_stats_upload_score, steam_stats_download_leaderboard_entries,
       steam_stats_attach_leaderboard_ugc, steam_remote_file_share,
       steam_remote_ugc_download, steam_timeline_does_event_recording_exist,
       steam_timeline_does_game_phase_recording_exist, steam_ugc_subscribe_item,
       steam_ugc_unsubscribe_item, steam_ugc_create_item, steam_ugc_submit_item_update,
       steam_ugc_delete_item, steam_matchmaking_create_lobby, steam_matchmaking_join_lobby

-----------------------------------------------------------------------------
(* The inductive invariant.                                                *)

(* A call that Steam still knows under an unanswered handle is the one the *)
(* handle was last issued for.                                             *)
SteamAgrees ==
  \A h \in Handles : Unanswered(h) /\ steam[h] # Idle => steam[h].call = issued[h]

(* The registry exists while the module runs, and no call precedes it.     *)
RegistryLives ==
  /\ steamworks_registry_initialized <=> phase = "running"
  /\ phase = "startup" => issued = NoCalls

IInv == TypeOK /\ RegistryTracksCalls /\ AnsweredOnce /\ SteamAgrees /\ RegistryLives

LEMMA InitEstablishes == Init => IInv
<1> SUFFICES ASSUME Init PROVE IInv
  OBVIOUS
<1>1. IfaceTypeOK
  BY IfaceInitTypes DEF Init
<1>2. TypeOK
  <2>1. answer \in [Handles -> Seq({Failed} \cup {decode(k)[2] : k \in steamworks_call_kind})]
    BY DEF Init
  <2>2. /\ steamworks_pending_calls \in [Handles -> steamworks_call_kind \cup {None}]
        /\ issued \in [Handles -> Calls \cup {None}]
    BY DEF Init, NoCalls
  <2> QED
    BY <1>1, <2>1, <2>2 DEF Init, TypeOK
<1>3. RegistryTracksCalls /\ SteamAgrees /\ RegistryLives
  BY DEF Init, RegistryTracksCalls, SteamAgrees, RegistryLives, Unanswered, NoCalls
<1>4. AnsweredOnce
  BY DEF Init, AnsweredOnce
<1> QED
  BY <1>2, <1>3, <1>4 DEF IInv

(* A step that leaves calls, answers and the module's life alone.          *)
LEMMA CallsUntouched ==
  ASSUME IInv, IfaceTypeOK', UNCHANGED <<phase, callVars>>
  PROVE  IInv'
BY DEF IInv, TypeOK, RegistryTracksCalls, AnsweredOnce, SteamAgrees, RegistryLives,
       Unanswered, callVars

(* Starting a call under a fresh handle.                                   *)
LEMMA IssuePreserves ==
  ASSUME IInv, NEW call \in Calls, NEW iface, NEW kind,
         WellPaired(call, iface, kind), Issue(call, iface, kind)
  PROVE  IInv'
<1>1. IfaceTypeOK'
  BY ResolveTypes DEF WellPaired, Issue, IInv, TypeOK
<1>2. CASE UNCHANGED <<phase, callVars>>
  BY <1>1, <1>2, CallsUntouched
<1>3. ASSUME NEW h \in Handles,
             steam' = [steam EXCEPT ![h] = [call |-> call, state |-> "pending"]],
             steamworks_register_call(h, kind),
             issued' = [issued EXCEPT ![h] = call],
             answer' = [answer EXCEPT ![h] = <<>>],
             UNCHANGED <<phase, steamworks_registry_initialized>>
      PROVE  IInv'
  <2>1. phase = "running" /\ steamworks_registry_initialized
    BY DEF Issue, IInv, RegistryLives
  <2>2. steamworks_pending_calls' = [steamworks_pending_calls EXCEPT ![h] = kind]
    BY <1>3, <2>1 DEF steamworks_register_call
  <2>3. TypeOK'
    BY <1>1, <1>3, <2>2 DEF IInv, TypeOK, WellPaired
  <2>4. \A g \in Handles \ {h} :
          /\ steamworks_pending_calls'[g] = steamworks_pending_calls[g]
          /\ issued'[g] = issued[g] /\ answer'[g] = answer[g] /\ steam'[g] = steam[g]
    BY <1>3, <2>2 DEF IInv, TypeOK
  <2>5. /\ steamworks_pending_calls'[h] = kind
        /\ issued'[h] = call /\ answer'[h] = <<>> /\ steam'[h].call = call
    BY <1>3, <2>2 DEF IInv, TypeOK
  <2>6. call # None /\ kind # None
    BY DEF WellPaired, Calls, ResultStruct, None
  <2>7. RegistryTracksCalls'
    BY <2>1, <2>4, <2>5, <2>6 DEF IInv, RegistryTracksCalls, Unanswered, WellPaired
  <2>8. SteamAgrees' /\ RegistryLives'
    BY <1>3, <2>1, <2>4, <2>5 DEF IInv, SteamAgrees, RegistryLives, Unanswered
  <2>9. AnsweredOnce'
    <3>1. Len(<<>>) <= 1
      OBVIOUS
    <3> QED
      BY <2>4, <2>5, <3>1 DEF IInv, AnsweredOnce
  <2> QED
    BY <2>3, <2>7, <2>8, <2>9 DEF IInv
<1> QED
  BY <1>2, <1>3 DEF Issue

(* The poll that finds the call completed: the entry is consumed and one   *)
(* answer recorded.                                                        *)
Consumes(h, reply) ==
  /\ steamworks_pending_calls' = [steamworks_pending_calls EXCEPT ![h] = None]
  /\ answer' = [answer EXCEPT ![h] = Append(@, Answer(h, reply))]
  /\ UNCHANGED <<phase, steamworks_registry_initialized, steam, issued>>

LEMMA PollCases ==
  ASSUME NEW h \in Handles, steam_get_call_result(h)
  PROVE  /\ phase = "running" /\ steamworks_registry_initialized
         /\ steamworks_pending_calls[h] # None
         /\ steamworks_resolve("ISteamUtils")
         /\ \/ UNCHANGED <<phase, callVars>>
            \/ \E reply \in IsAPICallCompleted(h) : reply # "pending" /\ Consumes(h, reply)
BY DEF steam_get_call_result, Consumes

LEMMA PollPreserves ==
  ASSUME IInv, NEW h \in Handles, steam_get_call_result(h)
  PROVE  IInv'
<1>1. IfaceTypeOK'
  BY PollCases, ResolveTypes, CallInterfaces DEF IInv, TypeOK
<1>2. CASE UNCHANGED <<phase, callVars>>
  BY <1>1, <1>2, CallsUntouched
<1>3. ASSUME NEW reply \in IsAPICallCompleted(h), Consumes(h, reply)
      PROVE  IInv'
  <2>1. /\ steamworks_registry_initialized /\ steamworks_pending_calls[h] # None
        /\ issued[h] # None /\ answer[h] = <<>>
    BY PollCases DEF IInv, RegistryTracksCalls, Unanswered
  <2>2. Answer(h, reply) \in {Failed} \cup {decode(k)[2] : k \in steamworks_call_kind}
    BY <2>1 DEF Answer, IInv, TypeOK
  <2>3. answer' = [answer EXCEPT ![h] = <<Answer(h, reply)>>]
    BY <1>3, <2>1 DEF Consumes
  <2>4. TypeOK'
    BY <1>1, <1>3, <2>2, <2>3 DEF IInv, TypeOK, Consumes
  <2>5. \A g \in Handles \ {h} :
          steamworks_pending_calls'[g] = steamworks_pending_calls[g] /\ answer'[g] = answer[g]
    BY <1>3 DEF IInv, TypeOK, Consumes
  <2>6. steamworks_pending_calls'[h] = None /\ Len(answer'[h]) = 1 /\ answer'[h] # <<>>
    <3>1. answer'[h] = <<Answer(h, reply)>>
      BY <2>3 DEF IInv, TypeOK
    <3>2. steamworks_pending_calls'[h] = None
      BY <1>3 DEF IInv, TypeOK, Consumes
    <3> QED
      BY <3>1, <3>2
  <2>7. RegistryTracksCalls'
    BY <1>3, <2>5, <2>6 DEF IInv, RegistryTracksCalls, Unanswered, Consumes
  <2>8. AnsweredOnce' /\ SteamAgrees' /\ RegistryLives'
    BY <1>3, <2>5, <2>6 DEF IInv, AnsweredOnce, SteamAgrees, RegistryLives, Unanswered, Consumes
  <2> QED
    BY <2>4, <2>7, <2>8 DEF IInv
<1> QED
  BY <1>2, <1>3, PollCases

LEMMA NextPreserves == IInv /\ [Next]_vars => IInv'
<1> SUFFICES ASSUME IInv, [Next]_vars PROVE IInv'
  OBVIOUS
<1>1. ASSUME MINIT PROVE IInv'
  <2>1. issued' = NoCalls /\ answer' = answer /\ steam' = steam
        /\ steamworks_pending_calls' = NoCalls /\ phase' = "running"
        /\ steamworks_registry_initialized' = TRUE /\ UNCHANGED ifaceVars
    BY <1>1 DEF MINIT, steamworks_async_minit, IInv, RegistryLives
  <2> QED
    BY <2>1 DEF IInv, TypeOK, IfaceTypeOK, ifaceVars, RegistryTracksCalls, AnsweredOnce,
                SteamAgrees, RegistryLives, Unanswered, NoCalls
<1>2. ASSUME MSHUTDOWN PROVE IInv'
  <2>1. /\ phase' = "exited" /\ steamworks_registry_initialized' = FALSE
        /\ steamworks_pending_calls' \in {NoCalls, steamworks_pending_calls}
        /\ UNCHANGED <<ifaceVars, steam, issued, answer>>
    BY <1>2 DEF MSHUTDOWN, steamworks_async_mshutdown
  <2> QED
    BY <2>1 DEF IInv, TypeOK, IfaceTypeOK, ifaceVars, RegistryTracksCalls, AnsweredOnce,
                SteamAgrees, RegistryLives, Unanswered, NoCalls
<1>3. ASSUME NEW client \in Clients, steam_init(client) PROVE IInv'
  BY <1>3, InitFlatTypes, CallsUntouched DEF IInv, TypeOK, steam_init
<1>4. ASSUME steam_shutdown PROVE IInv'
  BY <1>4, ShutdownTypes DEF IInv, TypeOK, steam_shutdown, RegistryTracksCalls, AnsweredOnce,
                             SteamAgrees, RegistryLives, Unanswered
<1>5. ASSUME AsyncFunction PROVE IInv'
  BY <1>5, EveryWrapperIsWellPaired, IssuePreserves
<1>6. ASSUME NEW h \in Handles, steam_get_call_result(h) PROVE IInv'
  BY <1>6, PollPreserves
<1>7. ASSUME NEW h \in Handles, SteamCompletes(h) PROVE IInv'
  <2>1. PICK outcome \in {"ready", "failed", "garbled"} :
          steam' = [steam EXCEPT ![h].state = outcome]
    BY <1>7 DEF SteamCompletes
  <2>2. steam[h] \in [call : Calls, state : {"pending", "ready", "failed", "garbled"}]
    BY <1>7 DEF IInv, TypeOK, SteamCompletes, Idle, None
  <2>3. /\ steam' \in [Handles -> {Idle} \cup
                 [call : Calls, state : {"pending", "ready", "failed", "garbled"}]]
        /\ \A g \in Handles :
             /\ steam'[g].call = steam[g].call
             /\ steam'[g] # Idle => steam[g] # Idle
    BY <2>1, <2>2 DEF IInv, TypeOK, Idle, None
  <2>4. UNCHANGED <<ifaceVars, phase, steamworks_registry_initialized,
                    steamworks_pending_calls, issued, answer>>
    BY <1>7 DEF SteamCompletes
  <2> QED
    BY <2>3, <2>4 DEF IInv, TypeOK, IfaceTypeOK, ifaceVars, RegistryTracksCalls,
                      AnsweredOnce, SteamAgrees, RegistryLives, Unanswered
<1>8. ASSUME NEW f \in OtherInterfaces, other_function(f) PROVE IInv'
  BY <1>8, CallsAssumption, ResolveTypes, CallsUntouched DEF IInv, TypeOK, other_function
<1>9. CASE UNCHANGED vars
  BY <1>9, CallsUntouched DEF vars, IInv, TypeOK, IfaceTypeOK, ifaceVars
<1> QED
  BY <1>1, <1>2, <1>3, <1>4, <1>5, <1>6, <1>7, <1>8, <1>9 DEF Next

(* IInv is inductive, so it holds in every reachable state.                *)
THEOREM InvariantHolds == Spec => []IInv
BY InitEstablishes, NextPreserves, PTL DEF Spec

-----------------------------------------------------------------------------
(* Type correctness of the registry and of the answers.                    *)
THEOREM TypesCorrect == Spec => []TypeOK
<1>1. IInv => TypeOK
  BY DEF IInv
<1> QED
  BY <1>1, InvariantHolds, PTL

(* For any handles, clients, number of sessions and reissued handles the   *)
(* registry lists exactly the unanswered handles, each under a kind that   *)
(* decodes the call it was last issued for.                                *)
THEOREM RegistryIsExact == Spec => []RegistryTracksCalls
<1>1. IInv => RegistryTracksCalls
  BY DEF IInv
<1> QED
  BY <1>1, InvariantHolds, PTL

(* No handle is answered twice for one call, however it is polled.         *)
THEOREM OneAnswerPerCall == Spec => []AnsweredOnce
<1>1. IInv => AnsweredOnce
  BY DEF IInv
<1> QED
  BY <1>1, InvariantHolds, PTL

-----------------------------------------------------------------------------
(* The poll that answers.                                                  *)

(* A step gives an unanswered handle an answer only by polling it.         *)
LEMMA OnlyPollsAnswer ==
  ASSUME IInv, [Next]_vars, NEW h \in Handles, Unanswered(h), answer'[h] # <<>>
  PROVE  /\ steamworks_pending_calls[h] # None
         /\ steamworks_registry_initialized
         /\ \E reply \in IsAPICallCompleted(h) : reply # "pending" /\ Consumes(h, reply)
<1>1. answer[h] = <<>>
  BY DEF Unanswered
<1>2. ASSUME UNCHANGED answer PROVE FALSE
  BY <1>1, <1>2
<1>3. CASE MINIT \/ MSHUTDOWN \/ steam_shutdown
  BY <1>2, <1>3 DEF MINIT, MSHUTDOWN, steam_shutdown
<1>4. CASE \E client \in Clients : steam_init(client)
  BY <1>2, <1>4 DEF steam_init, callVars
<1>5. CASE AsyncFunction
  <2>1. PICK call, iface, kind : Issue(call, iface, kind)
    BY <1>5, EveryWrapperIsWellPaired
  <2>2. CASE UNCHANGED <<phase, callVars>>
    BY <1>2, <2>2 DEF callVars
  <2>3. ASSUME NEW g \in Handles, answer' = [answer EXCEPT ![g] = <<>>] PROVE FALSE
    BY <1>1, <2>3 DEF IInv, TypeOK
  <2> QED
    BY <2>1, <2>2, <2>3 DEF Issue
<1>6. ASSUME NEW g \in Handles, steam_get_call_result(g)
      PROVE  /\ steamworks_pending_calls[h] # None
             /\ steamworks_registry_initialized
             /\ \E reply \in IsAPICallCompleted(h) : reply # "pending" /\ Consumes(h, reply)
  <2>1. PICK reply \in IsAPICallCompleted(g) : reply # "pending" /\ Consumes(g, reply)
    BY <1>2, <1>6, PollCases DEF callVars
  <2>2. g = h
    BY <1>1, <2>1 DEF Consumes, IInv, TypeOK
  <2> QED
    BY <1>6, <2>1, <2>2, PollCases
<1>7. CASE \E g \in Handles : SteamCompletes(g)
  BY <1>2, <1>7 DEF SteamCompletes
<1>8. CASE \E f \in OtherInterfaces : other_function(f)
  BY <1>2, <1>8 DEF other_function, callVars
<1>9. CASE UNCHANGED vars
  BY <1>2, <1>9 DEF vars, callVars
<1> QED
  BY <1>3, <1>4, <1>5, <1>6, <1>7, <1>8, <1>9 DEF Next

LEMMA AnswersAreSteams ==
  ASSUME IInv, [Next]_vars, NEW h \in Handles, Unanswered(h), answer'[h] # <<>>
  PROVE  /\ steam[h].state # "pending"
         /\ answer'[h] = IF steam[h].state = "ready"
                           THEN <<DocumentedType[steam[h].call]>>
                           ELSE <<Failed>>
<1>1. /\ steamworks_pending_calls[h] # None
      /\ steamworks_registry_initialized
      /\ \E reply \in IsAPICallCompleted(h) : reply # "pending" /\ Consumes(h, reply)
  BY OnlyPollsAnswer
<1>2. PICK reply \in IsAPICallCompleted(h) : reply # "pending" /\ Consumes(h, reply)
  BY <1>1
<1>3. answer'[h] = <<Answer(h, reply)>>
  BY <1>2 DEF Consumes, Unanswered, IInv, TypeOK
<1>4. decode(steamworks_pending_calls[h]) =
        <<ResultStruct[issued[h]], DocumentedType[issued[h]]>>
  BY <1>1 DEF IInv, RegistryTracksCalls
<1>5. steam[h].state # "pending"
  BY <1>2 DEF IsAPICallCompleted
<1>6. CASE steam[h].state = "ready"
  <2>1. reply = "completed"
    BY <1>2, <1>6 DEF IsAPICallCompleted
  <2>2. steam[h].call = issued[h]
    BY <1>6 DEF IInv, SteamAgrees, Idle, None
  <2>3. GetAPICallResult(h, decode(steamworks_pending_calls[h])[1])
    BY <1>4, <1>6, <2>2 DEF GetAPICallResult
  <2>4. Answer(h, reply) = decode(steamworks_pending_calls[h])[2]
    BY <2>1, <2>3 DEF Answer
  <2> QED
    BY <1>3, <1>4, <1>5, <1>6, <2>2, <2>4
<1>7. CASE steam[h].state # "ready"
  <2>1. Answer(h, reply) = Failed
    BY <1>7 DEF Answer, GetAPICallResult
  <2> QED
    BY <1>3, <1>5, <1>7, <2>1
<1> QED
  BY <1>6, <1>7

(* Every answer a poll gives is what Steam holds for the handle at that    *)
(* moment, under the type documented for the call the handle stands for.   *)
THEOREM AnswersMatchSteam == Spec => AnswerIsSteams
<1>1. ASSUME IInv, [Next]_vars
      PROVE  [\A h \in Handles :
                Unanswered(h) /\ answer'[h] # <<>> =>
                  /\ steam[h].state # "pending"
                  /\ answer'[h] = IF steam[h].state = "ready"
                                    THEN <<DocumentedType[steam[h].call]>>
                                    ELSE <<Failed>>]_vars
  BY <1>1, AnswersAreSteams
<1> QED
  BY <1>1, InvariantHolds, PTL DEF Spec, AnswerIsSteams

=============================================================================
