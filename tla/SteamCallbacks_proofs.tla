----------------------- MODULE SteamCallbacks_proofs -----------------------
(***************************************************************************)
(* Proofs about SteamCallbacks, for every set of clients, tickets and      *)
(* slots and any number of events: callbacks are registered exactly once,  *)
(* no queue loses, doubles or reorders an event, the lobby queue is an     *)
(* EventFeed, every persistent block is freed once, and a ticket response  *)
(* is fetched once and the latest.                                         *)
(***************************************************************************)
EXTENDS SteamCallbacks, SteamInterfaces_proofs, SequenceTheorems,
        FiniteSetTheorems

-----------------------------------------------------------------------------
(* Registration.                                                           *)

RegistrationInv == IfaceTypeOK /\ callbacks_registered \in BOOLEAN /\ RegisteredExactlyOnce

LEMMA InterfacesUsed == {"ISteamMatchmaking", "ISteamUser"} \subseteq Interfaces
BY DEF Interfaces, versions

(* Everything but registering and unregistering leaves registration alone, *)
(* and at most resolves an interface.                                      *)
LEMMA OnlyResolves ==
  ASSUME RegistrationInv, UNCHANGED <<registrations, callbacks_registered>>,
         \/ UNCHANGED ifaceVars
         \/ \E f \in Interfaces : steamworks_resolve(f)
  PROVE  RegistrationInv'
<1>1. user' = user
  BY DEF steamworks_resolve, ifaceVars
<1>2. IfaceTypeOK'
  BY ResolveTypes DEF RegistrationInv, ifaceVars, IfaceTypeOK
<1> QED
  BY <1>1, <1>2 DEF RegistrationInv, RegisteredExactlyOnce

LEMMA InitRegisters ==
  ASSUME RegistrationInv, NEW client \in Clients, steam_init(client)
  PROVE  RegistrationInv'
<1>1. IfaceTypeOK' /\ user' = 1
  BY InitFlatTypes DEF RegistrationInv, steam_init, SteamAPI_InitFlat
<1>2. callbacks_registered' = TRUE
  BY DEF steam_init, steamworks_callbacks_register
<1>3. \A k \in AllKinds : registrations'[k] = 1
  BY DEF RegistrationInv, RegisteredExactlyOnce, steam_init,
         steamworks_callbacks_register, Registered
<1> QED
  BY <1>1, <1>2, <1>3 DEF RegistrationInv, RegisteredExactlyOnce

LEMMA ShutdownUnregisters ==
  ASSUME RegistrationInv, steam_shutdown
  PROVE  RegistrationInv'
<1>1. IfaceTypeOK' /\ user' = 0
  BY ShutdownTypes DEF RegistrationInv, steam_shutdown, SteamAPI_Shutdown
<1>2. callbacks_registered' = FALSE
  BY DEF steam_shutdown, steamworks_callbacks_unregister
<1>3. \A k \in AllKinds : registrations'[k] = 0
  BY DEF RegistrationInv, RegisteredExactlyOnce, steam_shutdown,
         steamworks_callbacks_unregister, Unregistered
<1>4. RegisteredExactlyOnce'
  <2>1. ~callbacks_registered' /\ user' # 1
    BY <1>1, <1>2
  <2> QED
    BY <1>3, <2>1 DEF RegisteredExactlyOnce
<1> QED
  BY <1>1, <1>2, <1>4 DEF RegistrationInv

LEMMA RegistrationInductive == RegistrationInv /\ [Next]_vars => RegistrationInv'
<1> SUFFICES ASSUME RegistrationInv, [Next]_vars PROVE RegistrationInv'
  OBVIOUS
<1>1. CASE MINIT \/ MSHUTDOWN
  BY <1>1, OnlyResolves DEF MINIT, MSHUTDOWN, steamSide
<1>2. ASSUME NEW client \in Clients, steam_init(client) PROVE RegistrationInv'
  BY <1>2, InitRegisters
<1>3. CASE steam_shutdown
  BY <1>3, ShutdownUnregisters
<1>4. CASE steam_run_callbacks
  BY <1>4, OnlyResolves DEF steam_run_callbacks
<1>5. CASE SteamDispatches
  BY <1>5, OnlyResolves, InterfacesUsed
     DEF SteamDispatches, Dispatch, cb_run_webapi_ticket, cb_run_net_connection_status,
         cb_run_rich_presence_join, cb_run_lobby
<1>6. CASE SteamPosts
  BY <1>6, OnlyResolves DEF SteamPosts, PostEvent, PostChatMessage, PostTicket, Post
<1>7. CASE \/ steam_matchmaking_get_events
           \/ steam_friends_get_join_requests
           \/ steam_net_get_connection_events
  BY <1>7, OnlyResolves
     DEF steam_matchmaking_get_events, steam_friends_get_join_requests,
         steam_net_get_connection_events, steamSide
<1>8. CASE steam_user_get_auth_ticket_for_web_api
  BY <1>8, OnlyResolves, InterfacesUsed DEF steam_user_get_auth_ticket_for_web_api
<1>9. ASSUME NEW t \in Tickets, steam_user_get_web_api_ticket_result(t) PROVE RegistrationInv'
  BY <1>9, OnlyResolves DEF steam_user_get_web_api_ticket_result, steamSide
<1>10. ASSUME NEW f \in OtherInterfaces, other_function(f) PROVE RegistrationInv'
  BY <1>10, OnlyResolves, CallbacksAssumption DEF other_function, steamSide
<1>11. CASE UNCHANGED vars
  BY <1>11, OnlyResolves DEF vars, steamSide
<1> QED
  BY <1>1, <1>2, <1>3, <1>4, <1>5, <1>6, <1>7, <1>8, <1>9, <1>10, <1>11 DEF Next

LEMMA InitRegistration == Init => RegistrationInv
<1> SUFFICES ASSUME Init PROVE RegistrationInv
  OBVIOUS
<1>1. IfaceTypeOK /\ user # 1
  BY IfaceInitTypes DEF Init, IfaceInit
<1>2. callbacks_registered = FALSE /\ \A k \in AllKinds : registrations[k] = 0
  BY DEF Init
<1>3. ~callbacks_registered
  BY <1>2
<1>4. RegisteredExactlyOnce
  BY <1>1, <1>2, <1>3 DEF RegisteredExactlyOnce
<1> QED
  BY <1>1, <1>2, <1>4 DEF RegistrationInv

(* However often steam_init() and steam_shutdown() are called, every       *)
(* callback object is registered once in a live session and not at all     *)
(* outside one.                                                            *)
THEOREM CallbacksRegisteredOnce == Spec => []RegisteredExactlyOnce
<1>1. RegistrationInv => RegisteredExactlyOnce
  BY DEF RegistrationInv
<1> QED
  BY <1>1, InitRegistration, RegistrationInductive, PTL DEF Spec

-----------------------------------------------------------------------------
(* The queues.                                                             *)

Entries == Ids \cup MMEntries

QueueTypes ==
  /\ storage_initialized \in BOOLEAN
  /\ net_events \in Seq(Entries) /\ join_requests \in Seq(Entries)
  /\ mm_events \in Seq(Entries)
  /\ delivered \in [Queues -> Seq(Entries)] /\ drained \in [Queues -> Seq(Entries)]
  /\ posted \in Seq(PostedEvents)
  /\ count \in 0..MaxEvents
  /\ chat_buffer \in [Slots -> 0..MaxEvents]

(* The storage exists while the module runs, nothing precedes it and no    *)
(* event outlives it.                                                      *)
StorageLives ==
  /\ storage_initialized <=> phase = "running"
  /\ phase = "startup" => \A q \in Queues : drained[q] = <<>> /\ delivered[q] = <<>>
  /\ ~storage_initialized => net_events = <<>> /\ join_requests = <<>> /\ mm_events = <<>>

(* Steam has nothing to dispatch outside a session, and the slot of every  *)
(* chat message it has still to dispatch holds that message.               *)
IsChat(e) == e.kind = "LOBBY_CHAT_MSG"

SteamKeepsPosted ==
  /\ user # 1 => posted = <<>>
  /\ \A i \in 1..Len(posted) : IsChat(posted[i]) =>
       /\ chat_buffer[posted[i].slot] = posted[i].id
       /\ \A j \in 1..Len(posted) :
            IsChat(posted[j]) /\ posted[j].slot = posted[i].slot => j = i

QueueInv ==
  /\ RegistrationInv /\ QueueTypes /\ StorageLives /\ SteamKeepsPosted
  /\ DeliveredInOrderOnce

LEMMA EntryJoinsQueue ==
  ASSUME NEW S, NEW read \in Seq(S), NEW queue \in Seq(S), NEW e \in S
  PROVE  /\ queue \o <<e>> \in Seq(S)
         /\ read \o (queue \o <<e>>) = Append(read \o queue, e)
<1>1. <<e>> \in Seq(S) /\ queue \o <<e>> \in Seq(S)
  OBVIOUS
<1>2. read \o (queue \o <<e>>) = (read \o queue) \o <<e>>
  BY <1>1, ConcatAssociative
<1>3. read \o queue \in Seq(S)
  BY ConcatProperties
<1> QED
  BY <1>1, <1>2, <1>3, AppendIsConcat

(* An event has an id, and the fields of its kind.                         *)
LEMMA EventFields ==
  ASSUME NEW e \in PostedEvents
  PROVE  /\ e.kind \in AllKinds /\ e.id \in Ids
BY CallbacksAssumption DEF PostedEvents, AllKinds, LobbyKinds

(* In a live session there is one object per kind to hand an event to.     *)
LEMMA OneCopy ==
  ASSUME RegistrationInv, user = 1, storage_initialized,
         NEW kind \in AllKinds, NEW entry
  PROVE  PerObject(kind, entry) = <<entry>>
<1>1. registrations[kind] = 1
  BY DEF RegistrationInv, RegisteredExactlyOnce
<1> QED
  BY <1>1 DEF PerObject

(* The text of a chat message is looked up by its slot, and found whenever *)
(* the client offers ISteamMatchmaking.                                    *)
LEMMA MatchmakingFound ==
  ASSUME user = 1
  PROVE  Found("ISteamMatchmaking") <=> "SteamMatchMaking009" \in offered
BY DEF Found, StopsAt, FindOrCreate, versions, matchmaking_versions

LEMMA TextIsRight ==
  ASSUME user = 1, NEW e, IsChat(e) => chat_buffer[e.slot] = e.id
  PROVE  LobbyEntry(e) = TrueEntry(e)
BY MatchmakingFound DEF LobbyEntry, TrueEntry, GetLobbyChatEntry, IsChat

LEMMA LobbyEntryTypes ==
  ASSUME NEW e \in PostedEvents, e.kind \in LobbyKinds
  PROVE  TrueEntry(e) \in MMEntries
BY EventFields, CallbacksAssumption DEF TrueEntry, MMEntries, Ids

-----------------------------------------------------------------------------
(* One step at a time.                                                     *)

queueVars == <<phase, storage_initialized, net_events, join_requests, mm_events,
               delivered, drained, posted, count, chat_buffer>>

LEMMA QuietSteps ==
  ASSUME QueueInv, RegistrationInv', UNCHANGED queueVars, user' = user
  PROVE  QueueInv'
<1>1. QueueTypes'
  BY DEF QueueInv, queueVars, QueueTypes
<1>2. StorageLives'
  BY DEF QueueInv, queueVars, StorageLives
<1>3. SteamKeepsPosted'
  BY DEF QueueInv, queueVars, SteamKeepsPosted
<1>4. DeliveredInOrderOnce'
  BY DEF QueueInv, queueVars, DeliveredInOrderOnce, Queue
<1> QED
  BY <1>1, <1>2, <1>3, <1>4 DEF QueueInv

LEMMA ModuleStartsAndEnds ==
  ASSUME QueueInv, RegistrationInv', MINIT \/ MSHUTDOWN
  PROVE  QueueInv'
<1>1. CASE MINIT
  <2>1. /\ phase = "startup" /\ phase' = "running" /\ storage_initialized' = TRUE
        /\ net_events' = <<>> /\ join_requests' = <<>> /\ mm_events' = <<>>
        /\ UNCHANGED <<user, delivered, drained, posted, count, chat_buffer>>
    BY <1>1 DEF MINIT, steamworks_callbacks_minit, steamSide, history, ifaceVars
  <2>2. \A q \in Queues : drained'[q] = <<>> /\ delivered'[q] = <<>>
    BY <2>1 DEF QueueInv, StorageLives
  <2>3. <<>> \o <<>> = <<>>
    OBVIOUS
  <2>4. DeliveredInOrderOnce'
    BY <2>1, <2>2, <2>3 DEF DeliveredInOrderOnce, Queues, Queue
  <2>5. QueueTypes'
    BY <2>1 DEF QueueInv, QueueTypes
  <2> QED
    BY <2>1, <2>4, <2>5 DEF QueueInv, StorageLives, SteamKeepsPosted
<1>2. CASE MSHUTDOWN
  <2>1. /\ phase = "running" /\ phase' = "exited"
        /\ UNCHANGED <<user, delivered, drained, posted, count, chat_buffer>>
    BY <1>2 DEF MSHUTDOWN, steamSide, history, ifaceVars
  <2>2. /\ storage_initialized' = FALSE
        /\ net_events' = <<>> /\ join_requests' = <<>> /\ mm_events' = <<>>
    BY <1>2, <2>1 DEF MSHUTDOWN, steamworks_callbacks_mshutdown, EmptyStorage,
                      QueueInv, StorageLives
  <2>3. QueueTypes'
    <3>1. storage_initialized' \in BOOLEAN
      BY <2>2
    <3> QED
      BY <2>1, <2>2, <3>1 DEF QueueInv, QueueTypes
  <2>4. StorageLives' /\ DeliveredInOrderOnce' /\ SteamKeepsPosted'
    BY <2>1, <2>2 DEF QueueInv, StorageLives, DeliveredInOrderOnce, SteamKeepsPosted
  <2> QED
    BY <2>3, <2>4 DEF QueueInv
<1> QED
  BY <1>1, <1>2

LEMMA SessionStartsAndEnds ==
  ASSUME QueueInv, RegistrationInv',
         steam_shutdown \/ \E client \in Clients : steam_init(client)
  PROVE  QueueInv'
<1>1. UNCHANGED <<phase, storage_initialized, net_events, join_requests, mm_events,
                  delivered, drained, count>>
  BY DEF steam_init, steam_shutdown, storage, history
<1>2. StorageLives' /\ DeliveredInOrderOnce'
  BY <1>1 DEF QueueInv, StorageLives, DeliveredInOrderOnce, Queue
<1>3. CASE steam_shutdown
  <2>1. posted' = <<>> /\ chat_buffer' = [s \in Slots |-> 0]
    BY <1>3 DEF steam_shutdown
  <2>2. SteamKeepsPosted'
    BY <2>1 DEF SteamKeepsPosted
  <2>3. chat_buffer' \in [Slots -> 0..MaxEvents]
    BY <2>1, CallbacksAssumption
  <2>4. posted' \in Seq(PostedEvents)
    BY <2>1
  <2>5. QueueTypes'
    BY <1>1, <2>3, <2>4 DEF QueueInv, QueueTypes
  <2> QED
    BY <1>2, <2>2, <2>5 DEF QueueInv
<1>4. ASSUME NEW client \in Clients, steam_init(client) PROVE QueueInv'
  <2>1. UNCHANGED <<posted, chat_buffer>> /\ user' = 1
    BY <1>4 DEF steam_init, SteamAPI_InitFlat
  <2>2. QueueTypes' /\ SteamKeepsPosted'
    BY <1>1, <2>1 DEF QueueInv, QueueTypes, SteamKeepsPosted
  <2> QED
    BY <1>2, <2>2 DEF QueueInv
<1> QED
  BY <1>3, <1>4

(* What Steam posts is an event with the next id, and a chat message goes  *)
(* into a slot that no message waiting for its callback uses.              *)
PostsEvent(e) ==
  /\ Post(e) /\ e \in PostedEvents /\ e.id = count + 1
  /\ \/ UNCHANGED chat_buffer /\ ~IsChat(e)
     \/ /\ IsChat(e)
        /\ chat_buffer' = [chat_buffer EXCEPT ![e.slot] = count + 1]
        /\ \A i \in 1..Len(posted) : IsChat(posted[i]) => posted[i].slot # e.slot
        /\ e.slot \in Slots

LEMMA SteamPostsEvents ==
  ASSUME QueueInv, SteamPosts
  PROVE  \E e : PostsEvent(e)
<1>1. count < MaxEvents => count + 1 \in Ids
  BY CallbacksAssumption DEF QueueInv, QueueTypes, Ids
<1>2. ASSUME NEW kind \in Kinds, PostEvent(kind) PROVE \E e : PostsEvent(e)
  <2> DEFINE e == [kind |-> kind, id |-> count + 1]
  <2>1. /\ Post(e) /\ UNCHANGED chat_buffer
        /\ kind \in Kinds \ {"WEBAPI_TICKET", "LOBBY_CHAT_MSG"}
    BY <1>2 DEF PostEvent
  <2>2. e \in PostedEvents
    BY <1>1, <2>1 DEF Post, PostedEvents
  <2> QED
    BY <2>1, <2>2 DEF PostsEvent, IsChat
<1>3. ASSUME NEW slot \in Slots, PostChatMessage(slot) PROVE \E e : PostsEvent(e)
  <2> DEFINE e == [kind |-> "LOBBY_CHAT_MSG", id |-> count + 1, slot |-> slot]
  <2>1. Post(e) /\ chat_buffer' = [chat_buffer EXCEPT ![slot] = count + 1]
    BY <1>3 DEF PostChatMessage
  <2>2. \A i \in 1..Len(posted) : IsChat(posted[i]) => posted[i].slot # slot
    BY <1>3 DEF PostChatMessage, IsChat
  <2>3. e \in PostedEvents
    BY <1>1, <2>1 DEF Post, PostedEvents
  <2> HIDE DEF e
  <2>4. IsChat(e) /\ e.id = count + 1 /\ e.slot = slot
    BY DEF e, IsChat
  <2>5. PostsEvent(e)
    BY <2>1, <2>2, <2>3, <2>4 DEF PostsEvent, e
  <2> QED
    BY <2>5
<1>4. ASSUME NEW t \in Tickets, NEW bytes \in {0, 1}, PostTicket(t, bytes)
      PROVE  \E e : PostsEvent(e)
  <2> DEFINE e == [kind |-> "WEBAPI_TICKET", id |-> count + 1, ticket |-> t, bytes |-> bytes]
  <2>1. Post(e) /\ UNCHANGED chat_buffer
    BY <1>4 DEF PostTicket
  <2>2. e \in PostedEvents
    BY <1>1, <2>1 DEF Post, PostedEvents
  <2> QED
    BY <2>1, <2>2 DEF PostsEvent, IsChat
<1> QED
  BY <1>2, <1>3, <1>4 DEF SteamPosts

LEMMA PostKeepsQueues ==
  ASSUME QueueInv, RegistrationInv', SteamPosts
  PROVE  QueueInv'
<1>2. PICK e : PostsEvent(e)
  BY SteamPostsEvents
<1>3. /\ user = 1 /\ user' = 1 /\ count' = count + 1 /\ count < MaxEvents
      /\ posted' = Append(posted, e)
      /\ UNCHANGED <<phase, storage_initialized, net_events, join_requests, mm_events,
                     delivered, drained>>
  BY <1>2 DEF PostsEvent, Post, ifaceVars, storage, history
<1>4. StorageLives' /\ DeliveredInOrderOnce'
  BY <1>3 DEF QueueInv, StorageLives, DeliveredInOrderOnce, Queue
<1>5. /\ posted' \in Seq(PostedEvents) /\ Len(posted') = Len(posted) + 1
      /\ posted'[Len(posted) + 1] = e
      /\ \A i \in 1..Len(posted) : posted'[i] = posted[i]
  BY <1>2, <1>3, AppendProperties DEF PostsEvent, QueueInv, QueueTypes
<1>6. SteamKeepsPosted'
  <2>1. CASE ~IsChat(e)
    <3>1. chat_buffer' = chat_buffer
      BY <1>2, <2>1 DEF PostsEvent
    <3> QED
      BY <1>3, <1>5, <2>1, <3>1 DEF QueueInv, QueueTypes, SteamKeepsPosted
  <2>2. CASE IsChat(e)
    <3>1. /\ chat_buffer' = [chat_buffer EXCEPT ![e.slot] = e.id]
          /\ \A i \in 1..Len(posted) : IsChat(posted[i]) => posted[i].slot # e.slot
          /\ e.slot \in Slots
      BY <1>2, <2>2 DEF PostsEvent
    <3>2. chat_buffer'[e.slot] = e.id
      BY <3>1 DEF QueueInv, QueueTypes
    <3>3. \A i \in 1..Len(posted) : IsChat(posted[i]) =>
            chat_buffer'[posted[i].slot] = posted[i].id
      BY <3>1 DEF QueueInv, QueueTypes, SteamKeepsPosted
    <3> QED
      BY <1>3, <1>5, <3>1, <3>2, <3>3 DEF QueueInv, QueueTypes, SteamKeepsPosted
  <2> QED
    BY <2>1, <2>2
<1>7. count' \in 0..MaxEvents /\ chat_buffer' \in [Slots -> 0..MaxEvents]
  <2>1. count + 1 \in 0..MaxEvents
    BY <1>3, CallbacksAssumption DEF QueueInv, QueueTypes
  <2>2. \/ chat_buffer' = chat_buffer
        \/ chat_buffer' = [chat_buffer EXCEPT ![e.slot] = count + 1]
    BY <1>2 DEF PostsEvent
  <2> QED
    BY <1>3, <2>1, <2>2 DEF QueueInv, QueueTypes
<1>8. QueueTypes'
  BY <1>3, <1>5, <1>7 DEF QueueInv, QueueTypes
<1> QED
  BY <1>4, <1>6, <1>8 DEF QueueInv

(* Whatever its kind, an event is dispatched in a live session while the   *)
(* storage exists, and a chat message while its slot still holds it.       *)
LEMMA DispatchBasics ==
  ASSUME QueueInv, posted # <<>>, Dispatch(Head(posted)), user' = user
  PROVE  /\ Head(posted) \in PostedEvents
         /\ user = 1 /\ storage_initialized
         /\ IsChat(Head(posted)) => chat_buffer[Head(posted).slot] = Head(posted).id
         /\ posted' \in Seq(PostedEvents)
         /\ UNCHANGED <<phase, storage_initialized, count, chat_buffer, drained>>
         /\ StorageLives' /\ SteamKeepsPosted'
<1>1. /\ Head(posted) \in PostedEvents /\ Head(posted) = posted[1] /\ 1 \in 1..Len(posted)
      /\ Tail(posted) \in Seq(PostedEvents)
      /\ Len(Tail(posted)) = Len(posted) - 1
      /\ \A i \in 1..Len(Tail(posted)) : Tail(posted)[i] = posted[i + 1]
  BY HeadTailProperties DEF QueueInv, QueueTypes
<1>2. /\ phase = "running" /\ posted' = Tail(posted)
      /\ UNCHANGED <<phase, storage_initialized, count, chat_buffer, drained>>
  BY DEF Dispatch
<1>3. user = 1 /\ storage_initialized
  BY <1>2 DEF QueueInv, SteamKeepsPosted, StorageLives
<1>4. IsChat(Head(posted)) => chat_buffer[Head(posted).slot] = Head(posted).id
  BY <1>1 DEF QueueInv, SteamKeepsPosted
<1>5. StorageLives'
  BY <1>2 DEF QueueInv, StorageLives
<1>6. SteamKeepsPosted'
  <2>1. \A i \in 1..Len(posted') : i + 1 \in 1..Len(posted) /\ posted'[i] = posted[i + 1]
    BY <1>1, <1>2 DEF QueueInv, QueueTypes
  <2>2. ASSUME NEW i \in 1..Len(posted'), IsChat(posted'[i])
        PROVE  /\ chat_buffer'[posted'[i].slot] = posted'[i].id
               /\ \A j \in 1..Len(posted') :
                    IsChat(posted'[j]) /\ posted'[j].slot = posted'[i].slot => j = i
    <3>1. IsChat(posted[i + 1])
      BY <2>1, <2>2
    <3>2. chat_buffer[posted[i + 1].slot] = posted[i + 1].id
      BY <2>1, <3>1 DEF QueueInv, SteamKeepsPosted
    <3>3. ASSUME NEW j \in 1..Len(posted'),
                 IsChat(posted'[j]), posted'[j].slot = posted'[i].slot
          PROVE  j = i
      <4>1. i \in Int /\ j \in Int
        OBVIOUS
      <4>2. j + 1 = i + 1
        BY <2>1, <3>1, <3>3 DEF QueueInv, SteamKeepsPosted
      <4> QED
        BY <4>1, <4>2
    <3> QED
      BY <1>2, <2>1, <3>2, <3>3
  <2> QED
    BY <1>3, <2>2 DEF SteamKeepsPosted
<1> QED
  BY <1>1, <1>2, <1>3, <1>4, <1>5, <1>6

(* A queue that received one entry, in step with the history.              *)
LEMMA DispatchedToQueue ==
  ASSUME QueueInv, RegistrationInv', posted # <<>>, Dispatch(Head(posted)), user' = user,
         NEW q \in Queues, NEW entry \in Entries,
         Queue(q)' = Queue(q) \o <<entry>>,
         \A other \in Queues \ {q} : Queue(other)' = Queue(other),
         delivered' = [delivered EXCEPT ![q] = Append(@, entry)]
  PROVE  QueueInv'
<1>1. /\ posted' \in Seq(PostedEvents) /\ storage_initialized
      /\ UNCHANGED <<storage_initialized, count, chat_buffer, drained>>
      /\ StorageLives' /\ SteamKeepsPosted'
  BY DispatchBasics
<1>2. \A r \in Queues : Queue(r) \in Seq(Entries) /\ drained[r] \in Seq(Entries)
                        /\ delivered[r] \in Seq(Entries) /\ drained[r] \o Queue(r) = delivered[r]
  BY <1>1 DEF QueueInv, QueueTypes, Queue, Queues, DeliveredInOrderOnce
<1>3. \A r \in Queues : Queue(r)' \in Seq(Entries) /\ drained[r] \o Queue(r)' = delivered'[r]
  <2> TAKE r \in Queues
  <2>1. CASE r = q
    <3>1. /\ Queue(q) \o <<entry>> \in Seq(Entries)
          /\ drained[q] \o (Queue(q) \o <<entry>>) = Append(drained[q] \o Queue(q), entry)
      <4>1. Queue(q) \in Seq(Entries) /\ drained[q] \in Seq(Entries)
        BY <1>2
      <4>2. \A read, queue \in Seq(Entries) :
              /\ queue \o <<entry>> \in Seq(Entries)
              /\ read \o (queue \o <<entry>>) = Append(read \o queue, entry)
        BY EntryJoinsQueue
      <4> QED
        BY <4>1, <4>2
    <3>2. delivered'[q] = Append(delivered[q], entry)
      BY DEF QueueInv, QueueTypes
    <3> QED
      BY <1>2, <2>1, <3>1, <3>2
  <2>2. CASE r # q
    <3>1. Queue(r)' = Queue(r) /\ delivered'[r] = delivered[r]
      BY <2>2 DEF QueueInv, QueueTypes
    <3> QED
      BY <1>2, <3>1
  <2> QED
    BY <2>1, <2>2
<1>4. DeliveredInOrderOnce'
  BY <1>1, <1>3 DEF DeliveredInOrderOnce
<1>5. net_events' \in Seq(Entries) /\ join_requests' \in Seq(Entries) /\ mm_events' \in Seq(Entries)
  <2>1. Queue("net")' = net_events' /\ Queue("join")' = join_requests' /\ Queue("mm")' = mm_events'
    BY DEF Queue
  <2> QED
    BY <1>3, <2>1 DEF Queues
<1>6. delivered' \in [Queues -> Seq(Entries)]
  <2>1. Append(delivered[q], entry) \in Seq(Entries)
    BY <1>2, AppendProperties
  <2> QED
    BY <2>1 DEF QueueInv, QueueTypes
<1>7. QueueTypes'
  BY <1>1, <1>5, <1>6 DEF QueueInv, QueueTypes
<1> QED
  BY <1>1, <1>4, <1>7 DEF QueueInv

LEMMA DispatchKeepsQueues ==
  ASSUME QueueInv, RegistrationInv', SteamDispatches
  PROVE  QueueInv'
<1> DEFINE e == Head(posted)
<1>1. posted # <<>> /\ Dispatch(e) /\ user' = user
  BY DEF SteamDispatches, cb_run_webapi_ticket, cb_run_net_connection_status,
         cb_run_rich_presence_join, cb_run_lobby, ifaceVars, steamworks_resolve
<1>2. /\ e \in PostedEvents /\ user = 1 /\ storage_initialized
      /\ IsChat(e) => chat_buffer[e.slot] = e.id
  BY <1>1, DispatchBasics
<1>3. e.kind \in AllKinds /\ e.id \in Ids
  BY <1>2, EventFields
<1>4. \A entry : PerObject(e.kind, entry) = <<entry>>
  BY <1>2, <1>3, OneCopy DEF QueueInv
<1> HIDE DEF e
<1>5. CASE cb_run_webapi_ticket(e)
  <2>1. /\ posted' \in Seq(PostedEvents) /\ StorageLives' /\ SteamKeepsPosted'
        /\ UNCHANGED <<storage_initialized, count, chat_buffer, drained>>
    BY <1>1, DispatchBasics DEF e
  <2>2. UNCHANGED <<net_events, join_requests, mm_events, delivered>>
    BY <1>5 DEF cb_run_webapi_ticket
  <2>3. QueueTypes'
    BY <2>1, <2>2 DEF QueueInv, QueueTypes
  <2>4. DeliveredInOrderOnce'
    BY <2>1, <2>2 DEF QueueInv, DeliveredInOrderOnce, Queue
  <2> QED
    BY <2>1, <2>3, <2>4 DEF QueueInv
<1>6. CASE cb_run_net_connection_status(e)
  <2>1. /\ net_events' = net_events \o <<e.id>>
        /\ UNCHANGED <<join_requests, mm_events>>
        /\ delivered' = [delivered EXCEPT !["net"] = Append(@, e.id)]
    BY <1>4, <1>6 DEF cb_run_net_connection_status
  <2>2. "net" \in Queues /\ e.id \in Entries
    BY <1>3 DEF Queues, Entries
  <2>3. /\ Queue("net")' = Queue("net") \o <<e.id>>
        /\ \A other \in Queues \ {"net"} : Queue(other)' = Queue(other)
    BY <2>1 DEF Queue, Queues
  <2> QED
    BY <1>1, <2>1, <2>2, <2>3, DispatchedToQueue DEF e
<1>7. CASE cb_run_rich_presence_join(e)
  <2>1. /\ join_requests' = join_requests \o <<e.id>>
        /\ UNCHANGED <<net_events, mm_events>>
        /\ delivered' = [delivered EXCEPT !["join"] = Append(@, e.id)]
    BY <1>4, <1>7 DEF cb_run_rich_presence_join
  <2>2. "join" \in Queues /\ e.id \in Entries
    BY <1>3 DEF Queues, Entries
  <2>3. /\ Queue("join")' = Queue("join") \o <<e.id>>
        /\ \A other \in Queues \ {"join"} : Queue(other)' = Queue(other)
    BY <2>1 DEF Queue, Queues
  <2> QED
    BY <1>1, <2>1, <2>2, <2>3, DispatchedToQueue DEF e
<1>8. CASE cb_run_lobby(e)
  <2>1. LobbyEntry(e) = TrueEntry(e) /\ TrueEntry(e) \in MMEntries
    BY <1>2, <1>8, TextIsRight, LobbyEntryTypes DEF cb_run_lobby
  <2>2. /\ mm_events' = mm_events \o <<TrueEntry(e)>>
        /\ UNCHANGED <<net_events, join_requests>>
        /\ delivered' = [delivered EXCEPT !["mm"] = Append(@, TrueEntry(e))]
    BY <1>4, <1>8, <2>1 DEF cb_run_lobby
  <2>3. "mm" \in Queues /\ TrueEntry(e) \in Entries
    BY <2>1 DEF Queues, Entries
  <2>4. /\ Queue("mm")' = Queue("mm") \o <<TrueEntry(e)>>
        /\ \A other \in Queues \ {"mm"} : Queue(other)' = Queue(other)
    BY <2>2 DEF Queue, Queues
  <2> QED
    BY <1>1, <2>2, <2>3, <2>4, DispatchedToQueue DEF e
<1> QED
  BY <1>5, <1>6, <1>7, <1>8 DEF SteamDispatches, e

(* A queue that was read and cleaned, in step with the history.            *)
LEMMA QueueDrained ==
  ASSUME QueueInv, RegistrationInv', storage_initialized, user' = user,
         NEW q \in Queues, Queue(q)' = <<>>,
         \A other \in Queues \ {q} : Queue(other)' = Queue(other),
         drained' = [drained EXCEPT ![q] = @ \o Queue(q)],
         UNCHANGED <<phase, storage_initialized, delivered, posted, count, chat_buffer>>
  PROVE  QueueInv'
<1>1. \A r \in Queues : Queue(r) \in Seq(Entries) /\ drained[r] \in Seq(Entries)
                        /\ drained[r] \o Queue(r) = delivered[r]
  BY DEF QueueInv, QueueTypes, Queue, Queues, DeliveredInOrderOnce
<1>2. \A r \in Queues : Queue(r)' \in Seq(Entries) /\ drained'[r] \in Seq(Entries)
                        /\ drained'[r] \o Queue(r)' = delivered[r]
  <2> TAKE r \in Queues
  <2>1. CASE r = q
    <3>1. drained'[q] = drained[q] \o Queue(q)
      BY DEF QueueInv, QueueTypes
    <3>2. drained'[q] \in Seq(Entries)
      BY <1>1, <3>1, ConcatProperties
    <3>3. drained'[q] \o <<>> = drained'[q]
      BY <3>2, ConcatEmptySeq
    <3> QED
      BY <1>1, <2>1, <3>1, <3>2, <3>3
  <2>2. CASE r # q
    <3>1. Queue(r)' = Queue(r) /\ drained'[r] = drained[r]
      BY <2>2 DEF QueueInv, QueueTypes
    <3> QED
      BY <1>1, <3>1
  <2> QED
    BY <2>1, <2>2
<1>3. DeliveredInOrderOnce'
  BY <1>2 DEF DeliveredInOrderOnce
<1>4. net_events' \in Seq(Entries) /\ join_requests' \in Seq(Entries) /\ mm_events' \in Seq(Entries)
  <2>1. Queue("net")' = net_events' /\ Queue("join")' = join_requests' /\ Queue("mm")' = mm_events'
    BY DEF Queue
  <2> QED
    BY <1>2, <2>1 DEF Queues
<1>5. drained' \in [Queues -> Seq(Entries)]
  BY <1>2 DEF QueueInv, QueueTypes
<1>6. QueueTypes'
  BY <1>4, <1>5 DEF QueueInv, QueueTypes
<1>7. StorageLives' /\ SteamKeepsPosted'
  BY DEF QueueInv, StorageLives, SteamKeepsPosted
<1> QED
  BY <1>3, <1>6, <1>7 DEF QueueInv

LEMMA DrainKeepsQueues ==
  ASSUME QueueInv, RegistrationInv',
         \/ steam_matchmaking_get_events
         \/ steam_friends_get_join_requests
         \/ steam_net_get_connection_events
  PROVE  QueueInv'
<1>1. /\ storage_initialized /\ user' = user
      /\ UNCHANGED <<phase, storage_initialized, delivered, posted, count, chat_buffer>>
  BY DEF steam_matchmaking_get_events, steam_friends_get_join_requests,
         steam_net_get_connection_events, steamSide, ifaceVars
<1>2. {"net", "join", "mm"} = Queues
  BY DEF Queues
<1>3. CASE steam_matchmaking_get_events
  <2>1. /\ Queue("mm")' = <<>> /\ drained' = [drained EXCEPT !["mm"] = @ \o Queue("mm")]
        /\ \A other \in Queues \ {"mm"} : Queue(other)' = Queue(other)
    BY <1>3 DEF steam_matchmaking_get_events, Queue, Queues
  <2> QED
    BY <1>1, <1>2, <2>1, QueueDrained
<1>4. CASE steam_friends_get_join_requests
  <2>1. /\ Queue("join")' = <<>> /\ drained' = [drained EXCEPT !["join"] = @ \o Queue("join")]
        /\ \A other \in Queues \ {"join"} : Queue(other)' = Queue(other)
    BY <1>4 DEF steam_friends_get_join_requests, Queue, Queues
  <2> QED
    BY <1>1, <1>2, <2>1, QueueDrained
<1>5. CASE steam_net_get_connection_events
  <2>1. /\ Queue("net")' = <<>> /\ drained' = [drained EXCEPT !["net"] = @ \o Queue("net")]
        /\ \A other \in Queues \ {"net"} : Queue(other)' = Queue(other)
    BY <1>5 DEF steam_net_get_connection_events, Queue, Queues
  <2> QED
    BY <1>1, <1>2, <2>1, QueueDrained
<1> QED
  BY <1>3, <1>4, <1>5

LEMMA InitHasEmptyQueues == Init => QueueInv
<1> SUFFICES ASSUME Init PROVE QueueInv
  OBVIOUS
<1>1. RegistrationInv
  BY InitRegistration
<1>2. QueueTypes
  <2>1. storage_initialized \in BOOLEAN
    BY DEF Init
  <2>2. /\ net_events \in Seq(Entries) /\ join_requests \in Seq(Entries)
        /\ mm_events \in Seq(Entries) /\ posted \in Seq(PostedEvents)
    BY DEF Init
  <2>3. delivered \in [Queues -> Seq(Entries)] /\ drained \in [Queues -> Seq(Entries)]
    BY DEF Init
  <2>4. count \in 0..MaxEvents /\ chat_buffer \in [Slots -> 0..MaxEvents]
    BY CallbacksAssumption DEF Init
  <2> QED
    BY <2>1, <2>2, <2>3, <2>4 DEF QueueTypes
<1>3. ~storage_initialized
  BY DEF Init
<1>4. StorageLives /\ DeliveredInOrderOnce /\ SteamKeepsPosted
  BY <1>3 DEF Init, StorageLives, DeliveredInOrderOnce, SteamKeepsPosted
<1> QED
  BY <1>1, <1>2, <1>4 DEF QueueInv

LEMMA QueuesInductive == QueueInv /\ [Next]_vars => QueueInv'
<1> SUFFICES ASSUME QueueInv, [Next]_vars PROVE QueueInv'
  OBVIOUS
<1>1. RegistrationInv'
  BY RegistrationInductive DEF QueueInv
<1>2. CASE \/ steam_run_callbacks
           \/ steam_user_get_auth_ticket_for_web_api
           \/ \E t \in Tickets : steam_user_get_web_api_ticket_result(t)
           \/ \E f \in OtherInterfaces : other_function(f)
           \/ UNCHANGED vars
  <2>1. UNCHANGED queueVars /\ user' = user
    BY <1>2 DEF steam_run_callbacks, steam_user_get_auth_ticket_for_web_api,
                steam_user_get_web_api_ticket_result, other_function, steamworks_resolve,
                queueVars, vars, storage, steamSide, history, ifaceVars
  <2> QED
    BY <1>1, <2>1, QuietSteps
<1> QED
  BY <1>1, <1>2, ModuleStartsAndEnds, SessionStartsAndEnds, PostKeepsQueues,
     DispatchKeepsQueues, DrainKeepsQueues DEF Next

(* Nothing of what Steam dispatched for a queue is lost, doubled or        *)
(* reordered, over any number of sessions and drains, and every chat       *)
(* message comes with its own text.                                        *)
THEOREM EventsDeliveredInOrderOnce == Spec => []DeliveredInOrderOnce
<1>1. QueueInv => DeliveredInOrderOnce
  BY DEF QueueInv
<1> QED
  BY <1>1, InitHasEmptyQueues, QueuesInductive, PTL DEF Spec

-----------------------------------------------------------------------------
(* Each queue implements the event feed.                                   *)

(* The events of a queue.                                                  *)
EventsOf(q) == IF q = "mm" THEN MMEntries ELSE Ids

(* The four steps of a feed, of queue q.                                   *)
Opens(q) ==
  /\ ~storage_initialized /\ storage_initialized' = TRUE
  /\ Sent(q) = <<>> /\ Sent(q)' = <<>> /\ drained'[q] = drained[q]

Delivers(q) ==
  /\ storage_initialized /\ UNCHANGED storage_initialized
  /\ \E e \in EventsOf(q) : Sent(q)' = Append(Sent(q), e)
  /\ drained'[q] = drained[q]

Drains(q) ==
  /\ storage_initialized /\ UNCHANGED storage_initialized
  /\ Sent(q)' = Sent(q) /\ drained'[q] = Sent(q)

Closes(q) ==
  /\ storage_initialized /\ storage_initialized' = FALSE
  /\ Sent(q)' = drained[q] /\ SubSeq(Sent(q), 1, Len(drained[q])) = drained[q]
  /\ drained'[q] = drained[q]

Rests(q) ==
  UNCHANGED storage_initialized /\ Sent(q)' = Sent(q) /\ drained'[q] = drained[q]

LEMMA QueueTyped ==
  ASSUME QueueInv, NEW q \in Queues
  PROVE  Queue(q) \in Seq(Entries) /\ drained[q] \in Seq(Entries)
BY DEF QueueInv, QueueTypes, Queue, Queues

(* The module's life opens and closes every feed.                          *)
LEMMA FeedsOpenAndClose ==
  ASSUME QueueInv, MINIT \/ MSHUTDOWN, NEW q \in Queues
  PROVE  Opens(q) \/ Closes(q)
<1>1. drained[q] \in Seq(Entries) /\ Queue(q) \in Seq(Entries)
  BY QueueTyped
<1>2. drained' = drained
  BY DEF MINIT, MSHUTDOWN, history
<1>3. CASE MINIT
  <2>1. /\ ~storage_initialized /\ storage_initialized' = TRUE
        /\ drained[q] = <<>> /\ Queue(q) = <<>> /\ Queue(q)' = <<>>
    <3>1. q = "net" \/ q = "join" \/ q = "mm"
      BY DEF Queues
    <3>2. /\ ~storage_initialized /\ storage_initialized' = TRUE /\ drained[q] = <<>>
          /\ net_events = <<>> /\ join_requests = <<>> /\ mm_events = <<>>
          /\ net_events' = <<>> /\ join_requests' = <<>> /\ mm_events' = <<>>
      BY <1>3 DEF MINIT, steamworks_callbacks_minit, QueueInv, StorageLives
    <3> QED
      BY <3>1, <3>2 DEF Queue
  <2>2. Sent(q) = <<>> /\ Sent(q)' = <<>>
    BY <1>1, <1>2, <2>1, ConcatEmptySeq DEF Sent
  <2> QED
    BY <1>2, <2>1, <2>2 DEF Opens
<1>4. CASE MSHUTDOWN
  <2>1. storage_initialized /\ storage_initialized' = FALSE /\ Queue(q)' = <<>>
    BY <1>4 DEF MSHUTDOWN, steamworks_callbacks_mshutdown, EmptyStorage, QueueInv, StorageLives,
                Queue, Queues
  <2>2. Sent(q)' = drained[q]
    BY <1>1, <1>2, <2>1, ConcatEmptySeq DEF Sent
  <2>3. SubSeq(Sent(q), 1, Len(drained[q])) = drained[q]
    BY <1>1, SubSeqOfConcat1, SubSeqFull DEF Sent
  <2> QED
    BY <1>2, <2>1, <2>2, <2>3 DEF Closes
<1> QED
  BY <1>3, <1>4

(* An event that its object's cb_run appends is delivered, and rests in    *)
(* the other feeds.                                                        *)
LEMMA AppendedIsDelivered ==
  ASSUME QueueInv, storage_initialized, UNCHANGED <<drained, storage_initialized>>,
         NEW p \in Queues, NEW entry \in EventsOf(p), entry \in Entries,
         Queue(p)' = Queue(p) \o <<entry>>,
         \A other \in Queues \ {p} : Queue(other)' = Queue(other),
         NEW q \in Queues
  PROVE  Delivers(q) \/ Rests(q)
<1>1. CASE q = p
  <2>1. drained[q] \in Seq(Entries) /\ Queue(q) \in Seq(Entries)
    BY QueueTyped
  <2>2. \A read, queue \in Seq(Entries) :
          read \o (queue \o <<entry>>) = Append(read \o queue, entry)
    BY EntryJoinsQueue
  <2>3. Sent(q)' = Append(Sent(q), entry)
    BY <1>1, <2>1, <2>2 DEF Sent
  <2> QED
    BY <1>1, <2>3 DEF Delivers
<1>2. CASE q # p
  BY <1>2 DEF Rests, Sent
<1> QED
  BY <1>1, <1>2

LEMMA DispatchDelivers ==
  ASSUME QueueInv, SteamDispatches, NEW q \in Queues
  PROVE  Delivers(q) \/ Rests(q)
<1> DEFINE e == Head(posted)
<1>1. posted # <<>> /\ Dispatch(e) /\ user' = user
  BY DEF SteamDispatches, cb_run_webapi_ticket, cb_run_net_connection_status,
         cb_run_rich_presence_join, cb_run_lobby, ifaceVars, steamworks_resolve
<1>2. /\ e \in PostedEvents /\ user = 1 /\ storage_initialized
      /\ IsChat(e) => chat_buffer[e.slot] = e.id
      /\ UNCHANGED <<drained, storage_initialized>>
  BY <1>1, DispatchBasics
<1>3. e.kind \in AllKinds /\ e.id \in Ids
  BY <1>2, EventFields
<1>4. \A entry : PerObject(e.kind, entry) = <<entry>>
  BY <1>2, <1>3, OneCopy DEF QueueInv
<1>5. {"net", "join", "mm"} = Queues
  BY DEF Queues
<1> HIDE DEF e
<1>6. CASE cb_run_webapi_ticket(e)
  BY <1>2, <1>6 DEF cb_run_webapi_ticket, Rests, Sent, Queue
<1>7. CASE cb_run_net_connection_status(e)
  <2>1. /\ Queue("net")' = Queue("net") \o <<e.id>>
        /\ \A other \in Queues \ {"net"} : Queue(other)' = Queue(other)
    BY <1>4, <1>7 DEF cb_run_net_connection_status, Queue, Queues
  <2>2. e.id \in EventsOf("net") /\ e.id \in Entries
    BY <1>3 DEF EventsOf, Entries
  <2> QED
    BY <1>2, <1>5, <2>1, <2>2, AppendedIsDelivered
<1>8. CASE cb_run_rich_presence_join(e)
  <2>1. /\ Queue("join")' = Queue("join") \o <<e.id>>
        /\ \A other \in Queues \ {"join"} : Queue(other)' = Queue(other)
    BY <1>4, <1>8 DEF cb_run_rich_presence_join, Queue, Queues
  <2>2. e.id \in EventsOf("join") /\ e.id \in Entries
    BY <1>3 DEF EventsOf, Entries
  <2> QED
    BY <1>2, <1>5, <2>1, <2>2, AppendedIsDelivered
<1>9. CASE cb_run_lobby(e)
  <2>1. LobbyEntry(e) = TrueEntry(e) /\ TrueEntry(e) \in MMEntries
    BY <1>2, <1>9, TextIsRight, LobbyEntryTypes DEF cb_run_lobby
  <2>2. /\ Queue("mm")' = Queue("mm") \o <<TrueEntry(e)>>
        /\ \A other \in Queues \ {"mm"} : Queue(other)' = Queue(other)
    BY <1>4, <1>9, <2>1 DEF cb_run_lobby, Queue, Queues
  <2>3. TrueEntry(e) \in EventsOf("mm") /\ TrueEntry(e) \in Entries
    BY <2>1 DEF EventsOf, Entries
  <2> QED
    BY <1>2, <1>5, <2>2, <2>3, AppendedIsDelivered
<1> QED
  BY <1>6, <1>7, <1>8, <1>9 DEF SteamDispatches, e

(* A queue that is read and cleaned is drained; the other feeds rest.      *)
LEMMA CleanedIsDrained ==
  ASSUME QueueInv, storage_initialized, UNCHANGED storage_initialized,
         NEW p \in Queues, Queue(p)' = <<>>,
         \A other \in Queues \ {p} : Queue(other)' = Queue(other),
         drained' = [drained EXCEPT ![p] = @ \o Queue(p)],
         NEW q \in Queues
  PROVE  Drains(q) \/ Rests(q)
<1>1. drained \in [Queues -> Seq(Entries)]
  BY DEF QueueInv, QueueTypes
<1>2. CASE q = p
  <2>1. drained[q] \in Seq(Entries) /\ Queue(q) \in Seq(Entries)
    BY QueueTyped
  <2>2. drained'[q] = Sent(q)
    BY <1>1, <1>2 DEF Sent
  <2>3. drained'[q] \in Seq(Entries)
    BY <2>1, <2>2, ConcatProperties DEF Sent
  <2>4. Sent(q)' = Sent(q)
    BY <1>2, <2>2, <2>3, ConcatEmptySeq DEF Sent
  <2> QED
    BY <2>2, <2>4 DEF Drains
<1>3. CASE q # p
  BY <1>1, <1>3 DEF Rests, Sent
<1> QED
  BY <1>2, <1>3

LEMMA ReadingDrains ==
  ASSUME QueueInv, NEW q \in Queues,
         \/ steam_matchmaking_get_events
         \/ steam_friends_get_join_requests
         \/ steam_net_get_connection_events
  PROVE  Drains(q) \/ Rests(q)
<1>1. storage_initialized /\ UNCHANGED storage_initialized /\ {"net", "join", "mm"} = Queues
  BY DEF steam_matchmaking_get_events, steam_friends_get_join_requests,
         steam_net_get_connection_events, Queues
<1>2. CASE steam_matchmaking_get_events
  <2>1. /\ Queue("mm")' = <<>> /\ drained' = [drained EXCEPT !["mm"] = @ \o Queue("mm")]
        /\ \A other \in Queues \ {"mm"} : Queue(other)' = Queue(other)
    BY <1>2 DEF steam_matchmaking_get_events, Queue, Queues
  <2> QED
    BY <1>1, <2>1, CleanedIsDrained
<1>3. CASE steam_friends_get_join_requests
  <2>1. /\ Queue("join")' = <<>> /\ drained' = [drained EXCEPT !["join"] = @ \o Queue("join")]
        /\ \A other \in Queues \ {"join"} : Queue(other)' = Queue(other)
    BY <1>3 DEF steam_friends_get_join_requests, Queue, Queues
  <2> QED
    BY <1>1, <2>1, CleanedIsDrained
<1>4. CASE steam_net_get_connection_events
  <2>1. /\ Queue("net")' = <<>> /\ drained' = [drained EXCEPT !["net"] = @ \o Queue("net")]
        /\ \A other \in Queues \ {"net"} : Queue(other)' = Queue(other)
    BY <1>4 DEF steam_net_get_connection_events, Queue, Queues
  <2> QED
    BY <1>1, <2>1, CleanedIsDrained
<1> QED
  BY <1>2, <1>3, <1>4

(* Every step of the component is, for each queue, a step of its feed or   *)
(* leaves it alone.                                                        *)
LEMMA StepOfFeed ==
  ASSUME QueueInv, [Next]_vars, NEW q \in Queues
  PROVE  Opens(q) \/ Delivers(q) \/ Drains(q) \/ Closes(q) \/ Rests(q)
<1>1. CASE \/ steam_run_callbacks
           \/ SteamPosts
           \/ steam_shutdown
           \/ \E client \in Clients : steam_init(client)
           \/ steam_user_get_auth_ticket_for_web_api
           \/ \E t \in Tickets : steam_user_get_web_api_ticket_result(t)
           \/ \E f \in OtherInterfaces : other_function(f)
           \/ UNCHANGED vars
  <2>1. UNCHANGED <<net_events, join_requests, mm_events, drained, storage_initialized>>
    BY <1>1 DEF steam_run_callbacks, SteamPosts, PostEvent, PostChatMessage, PostTicket, Post,
                steam_shutdown, steam_init, steam_user_get_auth_ticket_for_web_api,
                steam_user_get_web_api_ticket_result, other_function,
                vars, storage, history
  <2> QED
    BY <2>1 DEF Rests, Sent, Queue
<1> QED
  BY <1>1, FeedsOpenAndClose, DispatchDelivers, ReadingDrains DEF Next

LEMMA FeedsStartEmpty ==
  ASSUME Init, NEW q \in Queues
  PROVE  Sent(q) = <<>> /\ Len(drained[q]) = 0 /\ storage_initialized = FALSE
<1>1. drained[q] = <<>> /\ Queue(q) = <<>> /\ storage_initialized = FALSE
  BY DEF Init, Queue, Queues
<1>2. <<>> \o <<>> = <<>> /\ Len(<<>>) = 0
  OBVIOUS
<1> QED
  BY <1>1, <1>2 DEF Sent

(* Through steam_matchmaking_get_events(), steam_friends_get_join_requests *)
(* and steam_net_get_connection_events() a game sees three event feeds:    *)
(* each read returns what it has not read yet, in the order of arrival.    *)
THEOREM QueuesAreFeeds == Spec => FeedSpecs
<1> DEFINE feedVars(q) == <<Sent(q), Len(drained[q]), storage_initialized>>
<1>1. {"net", "join", "mm"} = Queues
  BY DEF Queues
<1>2. Init => LobbyFeed!Init /\ JoinFeed!Init /\ ConnectionFeed!Init
  BY <1>1, FeedsStartEmpty DEF LobbyFeed!Init, JoinFeed!Init, ConnectionFeed!Init
<1>3. QueueInv /\ [Next]_vars => [LobbyFeed!Next]_(feedVars("mm"))
  <2> SUFFICES ASSUME QueueInv, [Next]_vars PROVE [LobbyFeed!Next]_(feedVars("mm"))
    OBVIOUS
  <2>1. Opens("mm") \/ Delivers("mm") \/ Drains("mm") \/ Closes("mm") \/ Rests("mm")
    BY <1>1, StepOfFeed
  <2> QED
    BY <2>1 DEF Opens, Delivers, Drains, Closes, Rests, EventsOf,
                LobbyFeed!Next, LobbyFeed!Open, LobbyFeed!Deliver, LobbyFeed!Drain, LobbyFeed!Close
<1>4. QueueInv /\ [Next]_vars => [JoinFeed!Next]_(feedVars("join"))
  <2> SUFFICES ASSUME QueueInv, [Next]_vars PROVE [JoinFeed!Next]_(feedVars("join"))
    OBVIOUS
  <2>1. Opens("join") \/ Delivers("join") \/ Drains("join") \/ Closes("join") \/ Rests("join")
    BY <1>1, StepOfFeed
  <2> QED
    BY <2>1 DEF Opens, Delivers, Drains, Closes, Rests, EventsOf,
                JoinFeed!Next, JoinFeed!Open, JoinFeed!Deliver, JoinFeed!Drain, JoinFeed!Close
<1>5. QueueInv /\ [Next]_vars => [ConnectionFeed!Next]_(feedVars("net"))
  <2> SUFFICES ASSUME QueueInv, [Next]_vars PROVE [ConnectionFeed!Next]_(feedVars("net"))
    OBVIOUS
  <2>1. Opens("net") \/ Delivers("net") \/ Drains("net") \/ Closes("net") \/ Rests("net")
    BY <1>1, StepOfFeed
  <2> QED
    BY <2>1 DEF Opens, Delivers, Drains, Closes, Rests, EventsOf, ConnectionFeed!Next,
                ConnectionFeed!Open, ConnectionFeed!Deliver, ConnectionFeed!Drain,
                ConnectionFeed!Close
<1> QED
  BY <1>2, <1>3, <1>4, <1>5, InitHasEmptyQueues, QueuesInductive, PTL
     DEF Spec, FeedSpecs, LobbyFeed!Spec, JoinFeed!Spec, ConnectionFeed!Spec

-----------------------------------------------------------------------------
(* Types, and the order of ids.                                            *)

(* The latest event that Steam no longer holds: events are numbered as     *)
(* they are posted, so what is dispatched next is newer than all stored.   *)
Newest == count - Len(posted)

PostedInOrder ==
  /\ Len(posted) <= count
  /\ \A i \in 1..Len(posted) : posted[i].id = Newest + i

StoredTypes ==
  /\ webapi_tickets \in [Tickets -> {NoTicket} \cup [id : Ids, bytes : {0, 1}]]
  /\ net_events \in Seq(Ids) /\ join_requests \in Seq(Ids) /\ mm_events \in Seq(MMEntries)

HistoryTypes ==
  /\ \A q \in {"net", "join"} : delivered[q] \in Seq(Ids) /\ drained[q] \in Seq(Ids)
  /\ delivered["mm"] \in Seq(MMEntries) /\ drained["mm"] \in Seq(MMEntries)
  /\ arrived \in [Tickets -> 0..MaxEvents]
  /\ got \in [Tickets -> Seq(Ids)]
  /\ asked \in [Tickets -> 0..MaxEvents]

SteamTypes ==
  /\ phase \in {"startup", "running", "exited"}
  /\ registrations \in [AllKinds -> Nat]
  /\ dispatching \in 0..Len(posted)
  /\ requested \subseteq Tickets

TypeInv == QueueInv /\ PostedInOrder /\ StoredTypes /\ HistoryTypes /\ SteamTypes

(* What every handler of cb_run() can count on: a new event of its kind,   *)
(* and one object that it is handed to.                                    *)
Handed(e) ==
  /\ e \in PostedEvents /\ e.id \in Ids /\ e.kind \in AllKinds
  /\ e.id = Newest + 1 /\ Newest' = Newest + 1 /\ PostedInOrder'
  /\ dispatching' \in 0..Len(posted') /\ posted' \in Seq(PostedEvents)
  /\ storage_initialized /\ registrations[e.kind] = 1 /\ user' = user
  /\ LobbyEntry(e) = TrueEntry(e)
  /\ \A entry : PerObject(e.kind, entry) = <<entry>>
  /\ UNCHANGED <<phase, callbacks_registered, storage_initialized, registrations,
                 chat_buffer, requested, count, drained, got, asked>>
  /\ \/ cb_run_webapi_ticket(e)
     \/ cb_run_net_connection_status(e)
     \/ cb_run_rich_presence_join(e)
     \/ cb_run_lobby(e)

LEMMA DispatchHandsOver ==
  ASSUME QueueInv, PostedInOrder, dispatching \in 0..Len(posted), SteamDispatches
  PROVE  \E e : Handed(e)
<1> DEFINE e == Head(posted)
<1>1. posted # <<>> /\ Dispatch(e) /\ user' = user
  BY DEF SteamDispatches, cb_run_webapi_ticket, cb_run_net_connection_status,
         cb_run_rich_presence_join, cb_run_lobby, ifaceVars, steamworks_resolve
<1>2. /\ e \in PostedEvents /\ user = 1 /\ storage_initialized
      /\ IsChat(e) => chat_buffer[e.slot] = e.id
      /\ posted' \in Seq(PostedEvents)
  BY <1>1, DispatchBasics
<1>3. e.kind \in AllKinds /\ e.id \in Ids
  BY <1>2, EventFields
<1>4. \A entry : PerObject(e.kind, entry) = <<entry>>
  BY <1>2, <1>3, OneCopy DEF QueueInv
<1>5. registrations[e.kind] = 1
  BY <1>2, <1>3 DEF QueueInv, RegistrationInv, RegisteredExactlyOnce
<1>6. LobbyEntry(e) = TrueEntry(e)
  BY <1>2, TextIsRight
<1>7. /\ e = posted[1] /\ Len(posted) \in Nat /\ Len(posted) > 0
      /\ Len(posted') = Len(posted) - 1
      /\ \A i \in 1..Len(posted') : posted'[i] = posted[i + 1]
  BY <1>1, HeadTailProperties DEF Dispatch, QueueInv, QueueTypes
<1>8. count \in Int /\ count' = count /\ dispatching > 0 /\ dispatching' = dispatching - 1
  BY <1>1 DEF Dispatch, QueueInv, QueueTypes
<1>9. e.id = Newest + 1 /\ Newest' = Newest + 1 /\ dispatching' \in 0..Len(posted')
  BY <1>7, <1>8 DEF PostedInOrder, Newest
<1>10. PostedInOrder'
  <2>1. ASSUME NEW i \in 1..Len(posted') PROVE posted'[i].id = Newest' + i
    <3>1. i + 1 \in 1..Len(posted)
      BY <1>7
    <3> QED
      BY <1>7, <1>8, <1>9, <3>1 DEF PostedInOrder, Newest
  <2> QED
    BY <1>7, <1>8, <2>1 DEF PostedInOrder
<1>11. Handed(e)
  BY <1>1, <1>2, <1>3, <1>4, <1>5, <1>6, <1>9, <1>10
     DEF Handed, Dispatch, SteamDispatches
<1> QED
  BY <1>11

(* A dispatched event is stored and remembered under its own type.         *)
LEMMA DispatchTypes ==
  ASSUME TypeInv, NEW e, Handed(e)
  PROVE  StoredTypes' /\ HistoryTypes' /\ SteamTypes'
<1>1. SteamTypes'
  BY DEF TypeInv, SteamTypes, Handed
<1>2. CASE cb_run_webapi_ticket(e)
  <2>1. e.ticket \in Tickets /\ e.bytes \in {0, 1} /\ e.id \in 0..MaxEvents
    BY <1>2 DEF Handed, cb_run_webapi_ticket, PostedEvents, Ids
  <2>2. StoredTypes'
    <3>1. [id |-> e.id, bytes |-> e.bytes] \in [id : Ids, bytes : {0, 1}]
      BY <2>1 DEF Handed
    <3>2. /\ UNCHANGED <<net_events, join_requests, mm_events>>
          /\ webapi_tickets' =
               [webapi_tickets EXCEPT ![e.ticket] = [id |-> e.id, bytes |-> e.bytes]]
      BY <1>2 DEF Handed, cb_run_webapi_ticket
    <3> HIDE DEF NoTicket
    <3> QED
      BY <2>1, <3>1, <3>2 DEF TypeInv, StoredTypes
  <2>3. HistoryTypes'
    BY <1>2, <2>1 DEF Handed, cb_run_webapi_ticket, TypeInv, HistoryTypes
  <2> QED
    BY <1>1, <2>2, <2>3
<1>3. CASE cb_run_net_connection_status(e)
  <2>1. /\ net_events' = net_events \o <<e.id>>
        /\ delivered' = [delivered EXCEPT !["net"] = Append(@, e.id)]
        /\ UNCHANGED <<webapi_tickets, join_requests, mm_events, arrived>>
    BY <1>3 DEF Handed, cb_run_net_connection_status
  <2>2. StoredTypes'
    BY <2>1 DEF Handed, TypeInv, StoredTypes
  <2>3. delivered'["net"] = Append(delivered["net"], e.id)
    BY <2>1 DEF TypeInv, QueueInv, QueueTypes, Queues
  <2>4. HistoryTypes'
    BY <2>1, <2>3 DEF Handed, TypeInv, HistoryTypes
  <2> QED
    BY <1>1, <2>2, <2>4
<1>4. CASE cb_run_rich_presence_join(e)
  <2>1. /\ join_requests' = join_requests \o <<e.id>>
        /\ delivered' = [delivered EXCEPT !["join"] = Append(@, e.id)]
        /\ UNCHANGED <<webapi_tickets, net_events, mm_events, arrived>>
    BY <1>4 DEF Handed, cb_run_rich_presence_join
  <2>2. StoredTypes'
    BY <2>1 DEF Handed, TypeInv, StoredTypes
  <2>3. delivered'["join"] = Append(delivered["join"], e.id)
    BY <2>1 DEF TypeInv, QueueInv, QueueTypes, Queues
  <2>4. HistoryTypes'
    BY <2>1, <2>3 DEF Handed, TypeInv, HistoryTypes
  <2> QED
    BY <1>1, <2>2, <2>4
<1>5. CASE cb_run_lobby(e)
  <2>1. /\ mm_events' = mm_events \o <<TrueEntry(e)>>
        /\ delivered' = [delivered EXCEPT !["mm"] = Append(@, TrueEntry(e))]
        /\ UNCHANGED <<webapi_tickets, net_events, join_requests, arrived>>
    BY <1>5 DEF Handed, cb_run_lobby
  <2>2. TrueEntry(e) \in MMEntries
    BY <1>5, LobbyEntryTypes DEF Handed, cb_run_lobby
  <2>3. StoredTypes'
    BY <2>1, <2>2 DEF Handed, TypeInv, StoredTypes
  <2>4. delivered'["mm"] = Append(delivered["mm"], TrueEntry(e))
    BY <2>1 DEF TypeInv, QueueInv, QueueTypes, Queues
  <2>5. HistoryTypes'
    BY <2>1, <2>2, <2>4 DEF Handed, TypeInv, HistoryTypes
  <2> QED
    BY <1>1, <2>3, <2>5
<1> QED
  BY <1>2, <1>3, <1>4, <1>5 DEF Handed

LEMMA PostTypes ==
  ASSUME TypeInv, SteamPosts
  PROVE  StoredTypes' /\ HistoryTypes' /\ SteamTypes' /\ PostedInOrder'
<1>1. PICK e : PostsEvent(e)
  BY SteamPostsEvents DEF TypeInv
<1>2. /\ count' = count + 1 /\ posted' = Append(posted, e) /\ e.id = count + 1
      /\ UNCHANGED <<phase, storage, registrations, dispatching, history>>
  BY <1>1 DEF PostsEvent, Post
<1>3. requested' = requested
  BY DEF SteamPosts, PostEvent, PostChatMessage, PostTicket
<1>4. /\ Len(posted') = Len(posted) + 1 /\ posted'[Len(posted) + 1] = e
      /\ \A i \in 1..Len(posted) : posted'[i] = posted[i]
      /\ Len(posted) \in Nat /\ count \in Int
  BY <1>1, <1>2, AppendProperties DEF PostsEvent, TypeInv, QueueInv, QueueTypes
<1>5. Newest' = Newest
  BY <1>2, <1>4 DEF Newest
<1>6. PostedInOrder'
  <2>1. e.id = Newest + (Len(posted) + 1)
    BY <1>2, <1>4 DEF Newest
  <2>2. ASSUME NEW i \in 1..Len(posted') PROVE posted'[i].id = Newest + i
    BY <1>4, <2>1 DEF TypeInv, PostedInOrder
  <2> QED
    BY <1>2, <1>4, <1>5, <2>2 DEF TypeInv, PostedInOrder
<1>7. StoredTypes' /\ HistoryTypes'
  BY <1>2 DEF TypeInv, StoredTypes, HistoryTypes, storage, history
<1>8. SteamTypes'
  BY <1>2, <1>3, <1>4 DEF TypeInv, SteamTypes
<1> QED
  BY <1>6, <1>7, <1>8

LEMMA DrainTypes ==
  ASSUME TypeInv,
         \/ steam_matchmaking_get_events
         \/ steam_friends_get_join_requests
         \/ steam_net_get_connection_events
  PROVE  StoredTypes' /\ HistoryTypes' /\ SteamTypes' /\ PostedInOrder'
<1>1. UNCHANGED <<phase, webapi_tickets, steamSide, delivered, arrived, got, asked>>
  BY DEF steam_matchmaking_get_events, steam_friends_get_join_requests,
         steam_net_get_connection_events
<1>2. SteamTypes' /\ PostedInOrder'
  BY <1>1 DEF TypeInv, SteamTypes, PostedInOrder, Newest, steamSide
<1>3. drained \in [Queues -> Seq(Entries)]
  BY DEF TypeInv, QueueInv, QueueTypes
<1>4. CASE steam_matchmaking_get_events
  <2>1. /\ drained' = [drained EXCEPT !["mm"] = drained["mm"] \o mm_events]
        /\ mm_events' = <<>> /\ UNCHANGED <<net_events, join_requests>>
    BY <1>4 DEF steam_matchmaking_get_events
  <2>2. drained["mm"] \o mm_events \in Seq(MMEntries)
    BY DEF TypeInv, StoredTypes, HistoryTypes
  <2>3. drained' = [drained EXCEPT !["mm"] = drained["mm"] \o mm_events] /\ "mm" \in Queues
    BY <2>1 DEF Queues
  <2>4. /\ drained'["mm"] \in Seq(MMEntries)
        /\ \A q \in {"net", "join"} : drained'[q] = drained[q]
    BY <1>3, <2>2, <2>3 DEF Queues
  <2>5. HistoryTypes'
    BY <1>1, <2>4 DEF TypeInv, HistoryTypes
  <2> QED
    BY <1>1, <1>2, <2>1, <2>5 DEF TypeInv, StoredTypes
<1>5. CASE steam_friends_get_join_requests
  <2>1. /\ drained' = [drained EXCEPT !["join"] = drained["join"] \o join_requests]
        /\ join_requests' = <<>> /\ UNCHANGED <<net_events, mm_events>>
    BY <1>5 DEF steam_friends_get_join_requests
  <2>2. drained["join"] \o join_requests \in Seq(Ids)
    BY DEF TypeInv, StoredTypes, HistoryTypes
  <2>3. /\ drained'["join"] \in Seq(Ids)
        /\ drained'["net"] = drained["net"] /\ drained'["mm"] = drained["mm"]
    BY <1>3, <2>1, <2>2 DEF Queues
  <2>4. HistoryTypes'
    BY <1>1, <2>3 DEF TypeInv, HistoryTypes
  <2> QED
    BY <1>1, <1>2, <2>1, <2>4 DEF TypeInv, StoredTypes
<1>6. CASE steam_net_get_connection_events
  <2>1. /\ drained' = [drained EXCEPT !["net"] = drained["net"] \o net_events]
        /\ net_events' = <<>> /\ UNCHANGED <<join_requests, mm_events>>
    BY <1>6 DEF steam_net_get_connection_events
  <2>2. drained["net"] \o net_events \in Seq(Ids)
    BY DEF TypeInv, StoredTypes, HistoryTypes
  <2>3. /\ drained'["net"] \in Seq(Ids)
        /\ drained'["join"] = drained["join"] /\ drained'["mm"] = drained["mm"]
    BY <1>3, <2>1, <2>2 DEF Queues
  <2>4. HistoryTypes'
    BY <1>1, <2>3 DEF TypeInv, HistoryTypes
  <2> QED
    BY <1>1, <1>2, <2>1, <2>4 DEF TypeInv, StoredTypes
<1> QED
  BY <1>4, <1>5, <1>6

LEMMA LifeTypes ==
  ASSUME TypeInv, RegistrationInv',
         \/ MINIT \/ MSHUTDOWN \/ steam_shutdown
         \/ \E client \in Clients : steam_init(client)
  PROVE  StoredTypes' /\ HistoryTypes' /\ SteamTypes' /\ PostedInOrder'
<1>1. UNCHANGED history
  BY DEF MINIT, MSHUTDOWN, steam_init, steam_shutdown
<1>2. HistoryTypes'
  BY <1>1 DEF TypeInv, HistoryTypes, history
<1>3. CASE MINIT \/ MSHUTDOWN
  <2>1. UNCHANGED steamSide /\ phase' \in {"startup", "running", "exited"}
    BY <1>3 DEF MINIT, MSHUTDOWN
  <2>2. \/ UNCHANGED <<webapi_tickets, net_events, join_requests, mm_events>>
        \/ /\ webapi_tickets' = [t \in Tickets |-> NoTicket]
           /\ net_events' = <<>> /\ join_requests' = <<>> /\ mm_events' = <<>>
    BY <1>3 DEF MINIT, MSHUTDOWN, steamworks_callbacks_minit, steamworks_callbacks_mshutdown,
                EmptyStorage, storage
  <2>3. StoredTypes'
    <3>1. [t \in Tickets |-> NoTicket] \in [Tickets -> {NoTicket} \cup [id : Ids, bytes : {0, 1}]]
      OBVIOUS
    <3>2. <<>> \in Seq(Ids) /\ <<>> \in Seq(MMEntries)
      OBVIOUS
    <3>3. CASE UNCHANGED <<webapi_tickets, net_events, join_requests, mm_events>>
      BY <3>3 DEF TypeInv, StoredTypes
    <3>4. CASE /\ webapi_tickets' = [t \in Tickets |-> NoTicket]
               /\ net_events' = <<>> /\ join_requests' = <<>> /\ mm_events' = <<>>
      BY <3>1, <3>2, <3>4 DEF StoredTypes
    <3> QED
      BY <2>2, <3>3, <3>4
  <2>4. SteamTypes' /\ PostedInOrder'
    BY <2>1 DEF TypeInv, SteamTypes, PostedInOrder, Newest, steamSide
  <2> QED
    BY <1>2, <2>3, <2>4
<1>4. CASE steam_shutdown \/ \E client \in Clients : steam_init(client)
  <2>1. UNCHANGED <<phase, storage, dispatching, count>> /\ dispatching = 0
    BY <1>4 DEF steam_init, steam_shutdown
  <2>2. StoredTypes'
    BY <2>1 DEF TypeInv, StoredTypes, storage
  <2>3. registrations' \in [AllKinds -> Nat]
    <3>1. /\ DOMAIN registrations' = AllKinds
          /\ registrations' = [k \in AllKinds |-> registrations'[k]]
      BY <1>4 DEF steam_init, steam_shutdown, steamworks_callbacks_register, Registered,
                  steamworks_callbacks_unregister, Unregistered, TypeInv, SteamTypes
    <3>2. \A k \in AllKinds : registrations'[k] \in Nat
      BY DEF RegistrationInv, RegisteredExactlyOnce
    <3> QED
      BY <3>1, <3>2
  <2>4. \/ posted' = <<>> /\ requested' = {}
        \/ posted' = posted /\ requested' = requested
    BY <1>4 DEF steam_init, steam_shutdown
  <2>5. SteamTypes' /\ PostedInOrder'
    BY <2>1, <2>3, <2>4
       DEF TypeInv, QueueInv, QueueTypes, SteamTypes, PostedInOrder, Newest
  <2> QED
    BY <1>2, <2>2, <2>5
<1> QED
  BY <1>3, <1>4

LEMMA TicketCallTypes ==
  ASSUME TypeInv,
         \/ steam_user_get_auth_ticket_for_web_api
         \/ \E t \in Tickets : steam_user_get_web_api_ticket_result(t)
  PROVE  StoredTypes' /\ HistoryTypes' /\ SteamTypes' /\ PostedInOrder'
<1>1. UNCHANGED <<phase, registrations, posted, dispatching, count, delivered, drained, arrived>>
  BY DEF steam_user_get_auth_ticket_for_web_api, steam_user_get_web_api_ticket_result, steamSide
<1>2. PostedInOrder'
  BY <1>1 DEF TypeInv, PostedInOrder, Newest
<1>3. CASE steam_user_get_auth_ticket_for_web_api
  <2>1. UNCHANGED <<storage, got>>
    BY <1>3 DEF steam_user_get_auth_ticket_for_web_api
  <2>2. requested' \subseteq Tickets /\ asked' \in [Tickets -> 0..MaxEvents]
    BY <1>3 DEF steam_user_get_auth_ticket_for_web_api, TypeInv, HistoryTypes, SteamTypes,
                QueueInv, QueueTypes
  <2> QED
    BY <1>1, <1>2, <2>1, <2>2 DEF TypeInv, StoredTypes, HistoryTypes, SteamTypes, storage
<1>4. ASSUME NEW t \in Tickets, steam_user_get_web_api_ticket_result(t)
      PROVE  StoredTypes' /\ HistoryTypes' /\ SteamTypes'
  <2>1. /\ webapi_tickets[t] # NoTicket
        /\ webapi_tickets' = [webapi_tickets EXCEPT ![t] = NoTicket]
        /\ got' = [got EXCEPT ![t] = Append(got[t], webapi_tickets[t].id)]
        /\ UNCHANGED <<net_events, join_requests, mm_events, asked, requested>>
    BY <1>4 DEF steam_user_get_web_api_ticket_result, steamSide
  <2>2. webapi_tickets[t].id \in Ids
    BY <2>1 DEF TypeInv, StoredTypes
  <2>3. got' \in [Tickets -> Seq(Ids)]
    BY <2>1, <2>2 DEF TypeInv, HistoryTypes
  <2> QED
    BY <1>1, <2>1, <2>3 DEF TypeInv, StoredTypes, HistoryTypes, SteamTypes
<1> QED
  BY <1>2, <1>3, <1>4

LEMMA QuietTypes ==
  ASSUME TypeInv,
         \/ steam_run_callbacks
         \/ \E f \in OtherInterfaces : other_function(f)
         \/ UNCHANGED vars
  PROVE  StoredTypes' /\ HistoryTypes' /\ SteamTypes' /\ PostedInOrder'
<1>1. /\ UNCHANGED <<phase, storage, registrations, posted, requested, count, history>>
      /\ dispatching' \in {dispatching, Len(posted)}
  BY DEF steam_run_callbacks, other_function, vars, steamSide
<1>2. Len(posted) \in Nat
  BY DEF TypeInv, QueueInv, QueueTypes
<1>3. StoredTypes' /\ HistoryTypes'
  BY <1>1 DEF TypeInv, StoredTypes, HistoryTypes, storage, history
<1>4. SteamTypes'
  BY <1>1, <1>2 DEF TypeInv, SteamTypes
<1>5. PostedInOrder'
  BY <1>1 DEF TypeInv, PostedInOrder, Newest
<1> QED
  BY <1>3, <1>4, <1>5

LEMMA TypesInductive == TypeInv /\ [Next]_vars => TypeInv'
<1> SUFFICES ASSUME TypeInv, [Next]_vars PROVE TypeInv'
  OBVIOUS
<1>1. QueueInv'
  BY QueuesInductive DEF TypeInv
<1>2. RegistrationInv'
  BY <1>1 DEF QueueInv
<1>3. CASE SteamDispatches
  <2>1. PICK e : Handed(e)
    BY <1>3, DispatchHandsOver DEF TypeInv, SteamTypes
  <2> QED
    BY <1>1, <2>1, DispatchTypes DEF TypeInv, Handed
<1> QED
  BY <1>1, <1>2, <1>3, PostTypes, DrainTypes, LifeTypes, TicketCallTypes, QuietTypes
     DEF Next, TypeInv

LEMMA InitTypes == Init => TypeInv
<1> SUFFICES ASSUME Init PROVE TypeInv
  OBVIOUS
<1>1. QueueInv
  BY InitHasEmptyQueues
<1>2. StoredTypes
  BY DEF Init, StoredTypes
<1>3. HistoryTypes
  <2>1. \A q \in Queues : delivered[q] = <<>> /\ drained[q] = <<>>
    BY DEF Init
  <2>2. arrived \in [Tickets -> 0..MaxEvents] /\ asked \in [Tickets -> 0..MaxEvents]
    BY CallbacksAssumption DEF Init
  <2>3. got \in [Tickets -> Seq(Ids)]
    BY DEF Init
  <2> QED
    <3>1. \A q \in {"net", "join", "mm"} : delivered[q] = <<>> /\ drained[q] = <<>>
      BY <2>1 DEF Queues
    <3>2. <<>> \in Seq(Ids) /\ <<>> \in Seq(MMEntries)
      OBVIOUS
    <3> QED
      BY <2>2, <2>3, <3>1, <3>2 DEF HistoryTypes
<1>4. SteamTypes /\ PostedInOrder
  BY DEF Init, SteamTypes, PostedInOrder, Newest
<1> QED
  BY <1>1, <1>2, <1>3, <1>4 DEF TypeInv

-----------------------------------------------------------------------------
(* The persistent heap.                                                    *)

(* How many queued events and stored responses use a block.                *)
EventCount(queue, b) == Count(EventBlocks, queue, b)
LobbyCount(queue, b) == Count(LobbyBlocks, queue, b)
TicketCount(tickets, b) == Count(TicketBlocks, tickets, b)

Uses(b) ==
  EventCount(net_events, b) + EventCount(join_requests, b) + LobbyCount(mm_events, b)
    + TicketCount(webapi_tickets, b)

One(b, blocks) == IF b \in blocks THEN 1 ELSE 0

(* No block is used twice: an event is stored under an id that Steam gave  *)
(* out once, and none that Steam still holds is stored yet.                *)
HeapInv ==
  /\ heap \in [Blocks -> Nat]
  /\ \A b \in Blocks : heap[b] = Uses(b) /\ heap[b] <= 1
  /\ \A b \in Blocks : b[1] > Newest \/ ~storage_initialized => heap[b] = 0

(* Two finite sets that agree but for one element.                         *)
LEMMA AsideFromOne ==
  ASSUME NEW T, IsFiniteSet(T), NEW I \in SUBSET T, NEW J \in SUBSET T, NEW t \in T,
         I \ {t} = J \ {t}
  PROVE  /\ Cardinality(I) \in Nat /\ Cardinality(J) \in Nat
         /\ Cardinality(J) = Cardinality(I) + One(t, J) - One(t, I)
<1> DEFINE K == I \ {t}
<1>1. IsFiniteSet(I) /\ IsFiniteSet(J) /\ IsFiniteSet(K)
  BY FS_Subset
<1>2. Cardinality(I) \in Nat /\ Cardinality(J) \in Nat /\ Cardinality(K) \in Nat
  BY <1>1, FS_CardinalityType
<1>3. t \notin K /\ (t \in I => I = K \cup {t}) /\ (t \notin I => I = K)
      /\ (t \in J => J = K \cup {t}) /\ (t \notin J => J = K)
  OBVIOUS
<1>4. Cardinality(K \cup {t}) = Cardinality(K) + 1
  BY <1>1, <1>3, FS_AddElement
<1> HIDE DEF K
<1> QED
  BY <1>2, <1>3, <1>4 DEF One

(* An entry more in a queue is one use more of its blocks.                 *)
LEMMA EventCounts ==
  ASSUME NEW queue \in Seq(Ids), NEW id, NEW b
  PROVE  /\ EventCount(queue, b) \in Nat
         /\ EventCount(queue \o <<id>>, b) = EventCount(queue, b) + One(b, EventBlocks(id))
         /\ EventCount(<<>>, b) = 0
         /\ Count(EventBlocks, <<id>>, b) = One(b, EventBlocks(id))
         /\ EventCount(queue, b) # 0 <=> \E i \in DOMAIN queue : b \in EventBlocks(queue[i])
<1> DEFINE n == Len(queue)
           longer == queue \o <<id>>
           I == {i \in DOMAIN queue : b \in EventBlocks(queue[i])}
           J == {i \in DOMAIN longer : b \in EventBlocks(longer[i])}
           T == 1..(n + 1)
<1>1. /\ n \in Nat /\ DOMAIN queue = 1..n /\ DOMAIN longer = T /\ longer[n + 1] = id
      /\ \A i \in 1..n : longer[i] = queue[i]
  OBVIOUS
<1>2. I \in SUBSET T /\ J \in SUBSET T /\ n + 1 \in T /\ I \ {n + 1} = J \ {n + 1}
  BY <1>1
<1>3. n + 1 \notin I /\ (n + 1 \in J <=> b \in EventBlocks(id))
  BY <1>1
<1>4. IsFiniteSet(T) /\ IsFiniteSet(I)
  <2>1. IsFiniteSet(T)
    BY <1>1, FS_Interval
  <2> HIDE DEF T, I
  <2> QED
    BY <1>2, <2>1, FS_Subset
<1>5. EventCount(queue, b) = Cardinality(I) /\ EventCount(longer, b) = Cardinality(J)
  BY DEF EventCount, Count
<1>6. /\ Cardinality(I) \in Nat
      /\ Cardinality(J) = Cardinality(I) + One(n + 1, J) - One(n + 1, I)
  <2> HIDE DEF I, J, T
  <2> QED
    BY <1>2, <1>4, AsideFromOne
<1>7. Cardinality(I) = 0 <=> I = {}
  BY <1>4, FS_EmptySet
<1>8. EventCount(<<>>, b) = 0
  <2>1. {i \in DOMAIN <<>> : b \in EventBlocks(<<>>[i])} = {}
    OBVIOUS
  <2> QED
    BY <2>1, FS_EmptySet DEF EventCount, Count
<1>9. Count(EventBlocks, <<id>>, b) = One(b, EventBlocks(id))
  <2>1. {i \in DOMAIN <<id>> : b \in EventBlocks(<<id>>[i])} =
          IF b \in EventBlocks(id) THEN {1} ELSE {}
    OBVIOUS
  <2>2. Cardinality({1}) = 1 /\ Cardinality({}) = 0
    BY FS_EmptySet, FS_Singleton
  <2> QED
    BY <2>1, <2>2 DEF Count, One
<1>10. EventCount(queue, b) # 0 <=> \E i \in DOMAIN queue : b \in EventBlocks(queue[i])
  BY <1>5, <1>7
<1>11. EventCount(longer, b) = EventCount(queue, b) + One(b, EventBlocks(id))
  <2> HIDE DEF I, J
  <2> QED
    BY <1>3, <1>5, <1>6 DEF One
<1> QED
  BY <1>5, <1>6, <1>8, <1>9, <1>10, <1>11

LEMMA LobbyCounts ==
  ASSUME NEW queue \in Seq(MMEntries), NEW entry, NEW b
  PROVE  /\ LobbyCount(queue, b) \in Nat
         /\ LobbyCount(queue \o <<entry>>, b) = LobbyCount(queue, b) + One(b, LobbyBlocks(entry))
         /\ LobbyCount(<<>>, b) = 0
         /\ Count(LobbyBlocks, <<entry>>, b) = One(b, LobbyBlocks(entry))
         /\ LobbyCount(queue, b) # 0 <=> \E i \in DOMAIN queue : b \in LobbyBlocks(queue[i])
<1> DEFINE n == Len(queue)
           longer == queue \o <<entry>>
           I == {i \in DOMAIN queue : b \in LobbyBlocks(queue[i])}
           J == {i \in DOMAIN longer : b \in LobbyBlocks(longer[i])}
           T == 1..(n + 1)
<1>1. /\ n \in Nat /\ DOMAIN queue = 1..n /\ DOMAIN longer = T /\ longer[n + 1] = entry
      /\ \A i \in 1..n : longer[i] = queue[i]
  OBVIOUS
<1>2. I \in SUBSET T /\ J \in SUBSET T /\ n + 1 \in T /\ I \ {n + 1} = J \ {n + 1}
  BY <1>1
<1>3. n + 1 \notin I /\ (n + 1 \in J <=> b \in LobbyBlocks(entry))
  BY <1>1
<1>4. IsFiniteSet(T) /\ IsFiniteSet(I)
  <2>1. IsFiniteSet(T)
    BY <1>1, FS_Interval
  <2> HIDE DEF T, I
  <2> QED
    BY <1>2, <2>1, FS_Subset
<1>5. LobbyCount(queue, b) = Cardinality(I) /\ LobbyCount(longer, b) = Cardinality(J)
  BY DEF LobbyCount, Count
<1>6. /\ Cardinality(I) \in Nat
      /\ Cardinality(J) = Cardinality(I) + One(n + 1, J) - One(n + 1, I)
  <2> HIDE DEF I, J, T
  <2> QED
    BY <1>2, <1>4, AsideFromOne
<1>7. Cardinality(I) = 0 <=> I = {}
  BY <1>4, FS_EmptySet
<1>8. LobbyCount(<<>>, b) = 0
  <2>1. {i \in DOMAIN <<>> : b \in LobbyBlocks(<<>>[i])} = {}
    OBVIOUS
  <2> QED
    BY <2>1, FS_EmptySet DEF LobbyCount, Count
<1>9. Count(LobbyBlocks, <<entry>>, b) = One(b, LobbyBlocks(entry))
  <2>1. {i \in DOMAIN <<entry>> : b \in LobbyBlocks(<<entry>>[i])} =
          IF b \in LobbyBlocks(entry) THEN {1} ELSE {}
    OBVIOUS
  <2>2. Cardinality({1}) = 1 /\ Cardinality({}) = 0
    BY FS_EmptySet, FS_Singleton
  <2> QED
    BY <2>1, <2>2 DEF Count, One
<1>10. LobbyCount(queue, b) # 0 <=> \E i \in DOMAIN queue : b \in LobbyBlocks(queue[i])
  BY <1>5, <1>7
<1>11. LobbyCount(longer, b) = LobbyCount(queue, b) + One(b, LobbyBlocks(entry))
  <2> HIDE DEF I, J
  <2> QED
    BY <1>3, <1>5, <1>6 DEF One
<1> QED
  BY <1>5, <1>6, <1>8, <1>9, <1>10, <1>11

LEMMA TicketUses ==
  ASSUME NEW R, NEW tickets \in [Tickets -> R], NEW b
  PROVE  /\ TicketCount(tickets, b) \in Nat
         /\ TicketCount(tickets, b) # 0 <=> \E t \in Tickets : b \in TicketBlocks(tickets[t])
<1> DEFINE I == {t \in DOMAIN tickets : b \in TicketBlocks(tickets[t])}
<1>1. I \in SUBSET Tickets /\ TicketCount(tickets, b) = Cardinality(I)
  BY DEF TicketCount, Count
<1>2. I = {} <=> ~ \E t \in Tickets : b \in TicketBlocks(tickets[t])
  OBVIOUS
<1> HIDE DEF I
<1>3. IsFiniteSet(I)
  BY <1>1, CallbacksAssumption, FS_Subset
<1>4. Cardinality(I) \in Nat /\ (Cardinality(I) = 0 <=> I = {})
  BY <1>3, FS_CardinalityType, FS_EmptySet
<1> QED
  BY <1>1, <1>2, <1>4

(* Replacing what is stored under a handle releases the blocks of the old  *)
(* response and uses those of the new one.                                 *)
LEMMA TicketCounts ==
  ASSUME NEW R, NEW tickets \in [Tickets -> R], NEW t \in Tickets, NEW new, NEW b
  PROVE  TicketCount([tickets EXCEPT ![t] = new], b) =
           TicketCount(tickets, b) + One(b, TicketBlocks(new))
             - One(b, TicketBlocks(tickets[t]))
<1> DEFINE changed == [tickets EXCEPT ![t] = new]
           I == {u \in DOMAIN tickets : b \in TicketBlocks(tickets[u])}
           J == {u \in DOMAIN changed : b \in TicketBlocks(changed[u])}
<1>1. I \in SUBSET Tickets /\ J \in SUBSET Tickets /\ I \ {t} = J \ {t}
  OBVIOUS
<1>2. (t \in I <=> b \in TicketBlocks(tickets[t])) /\ (t \in J <=> b \in TicketBlocks(new))
  OBVIOUS
<1>3. TicketCount(tickets, b) = Cardinality(I) /\ TicketCount(changed, b) = Cardinality(J)
  BY DEF TicketCount, Count
<1> HIDE DEF I, J
<1>4. Cardinality(J) = Cardinality(I) + One(t, J) - One(t, I)
  BY <1>1, AsideFromOne, CallbacksAssumption
<1> QED
  BY <1>2, <1>3, <1>4 DEF One

LEMMA OneTicket ==
  ASSUME NEW stored, NEW b
  PROVE  Count(TicketBlocks, <<stored>>, b) = One(b, TicketBlocks(stored))
<1>1. {i \in DOMAIN <<stored>> : b \in TicketBlocks(<<stored>>[i])} =
        IF b \in TicketBlocks(stored) THEN {1} ELSE {}
  OBVIOUS
<1>2. Cardinality({1}) = 1 /\ Cardinality({}) = 0
  BY FS_EmptySet, FS_Singleton
<1> QED
  BY <1>1, <1>2 DEF Count, One

LEMMA NoTicketsStored ==
  ASSUME NEW b
  PROVE  TicketCount([t \in Tickets |-> NoTicket], b) = 0
<1>1. {t \in DOMAIN [t \in Tickets |-> NoTicket] :
         b \in TicketBlocks([u \in Tickets |-> NoTicket][t])} = {}
  BY DEF TicketBlocks
<1> QED
  BY <1>1, FS_EmptySet DEF TicketCount, Count

LEMMA UsesAreNatural ==
  StoredTypes => \A b :
    /\ EventCount(net_events, b) \in Nat /\ EventCount(join_requests, b) \in Nat
    /\ LobbyCount(mm_events, b) \in Nat /\ TicketCount(webapi_tickets, b) \in Nat
    /\ Uses(b) \in Nat
<1> SUFFICES ASSUME StoredTypes, NEW b
             PROVE  /\ EventCount(net_events, b) \in Nat /\ EventCount(join_requests, b) \in Nat
                    /\ LobbyCount(mm_events, b) \in Nat /\ TicketCount(webapi_tickets, b) \in Nat
                    /\ Uses(b) \in Nat
  OBVIOUS
<1>1. net_events \in Seq(Ids) /\ join_requests \in Seq(Ids) /\ mm_events \in Seq(MMEntries)
  BY DEF StoredTypes
<1>2. TicketCount(webapi_tickets, b) \in Nat
  BY TicketUses DEF StoredTypes
<1>3. EventCount(net_events, b) \in Nat /\ EventCount(join_requests, b) \in Nat
  BY <1>1, EventCounts
<1>4. LobbyCount(mm_events, b) \in Nat
  BY <1>1, LobbyCounts
<1> QED
  BY <1>2, <1>3, <1>4 DEF Uses

LEMMA UsesStayNatural == (StoredTypes => \A b : Uses(b) \in Nat)'
<1>1. StoredTypes => \A b : Uses(b) \in Nat
  BY UsesAreNatural
<1> QED
  BY <1>1, PTL

(* What a step must do to the heap: keep the tally, and allocate no block  *)
(* but those of the event that Steam hands over in it.                     *)
LEMMA TallyKept ==
  ASSUME TypeInv, HeapInv, StoredTypes', NEW new,
         storage_initialized, UNCHANGED storage_initialized,
         heap' = [b \in Blocks |-> Uses(b)'],
         \A b \in Blocks : heap'[b] <= heap[b] + One(b, new),
         Newest' >= Newest, Newest' \in Int,
         \A b \in Blocks \cap new : b[1] = Newest + 1 /\ Newest' = Newest + 1
  PROVE  HeapInv'
<1>1. Newest \in Int
  BY DEF TypeInv, QueueInv, QueueTypes, Newest
<1>2. \A b \in Blocks : b[1] \in Int
  BY CallbacksAssumption DEF Blocks
<1>3. \A b \in Blocks : Uses(b)' \in Nat
  BY UsesStayNatural
<1>4. ASSUME NEW b \in Blocks
      PROVE  heap'[b] <= 1 /\ (b[1] > Newest' => heap'[b] = 0)
  <2>1. heap'[b] \in Nat /\ heap[b] \in Nat /\ heap[b] <= 1
    BY <1>3 DEF HeapInv
  <2>2. b[1] > Newest => heap[b] = 0
    BY DEF HeapInv
  <2>3. CASE b \in new
    BY <1>1, <1>2, <2>1, <2>2, <2>3 DEF One
  <2>4. CASE b \notin new
    <3>1. heap'[b] <= heap[b]
      BY <2>1, <2>4 DEF One
    <3> QED
      BY <1>1, <1>2, <2>1, <2>2, <3>1
  <2> QED
    BY <2>3, <2>4
<1>5. heap' \in [Blocks -> Nat]
  BY <1>3
<1> QED
  BY <1>3, <1>4, <1>5 DEF HeapInv

LEMMA EmptyCounts ==
  ASSUME NEW b
  PROVE  EventCount(<<>>, b) = 0 /\ LobbyCount(<<>>, b) = 0
<1>1. <<>> \in Seq(Ids) /\ <<>> \in Seq(MMEntries)
  OBVIOUS
<1> QED
  BY <1>1, EventCounts, LobbyCounts

(* Reading a queue frees what its entries use.                             *)
LEMMA DrainFrees ==
  ASSUME TypeInv, HeapInv, StoredTypes',
         \/ steam_matchmaking_get_events
         \/ steam_friends_get_join_requests
         \/ steam_net_get_connection_events
  PROVE  HeapInv'
<1>1. UNCHANGED <<webapi_tickets, posted, count, storage_initialized>> /\ storage_initialized
  BY DEF steam_matchmaking_get_events, steam_friends_get_join_requests,
         steam_net_get_connection_events, steamSide
<1>2. Newest' = Newest /\ Newest \in Int
  BY <1>1 DEF Newest, TypeInv, QueueInv, QueueTypes
<1>3. \A b \in Blocks :
        /\ EventCount(net_events, b) \in Nat /\ EventCount(join_requests, b) \in Nat
        /\ LobbyCount(mm_events, b) \in Nat /\ TicketCount(webapi_tickets, b) \in Nat
        /\ heap[b] = Uses(b)
        /\ EventCount(<<>>, b) = 0 /\ LobbyCount(<<>>, b) = 0
  BY UsesAreNatural, EmptyCounts DEF TypeInv, HeapInv
<1>4. \/ /\ mm_events' = <<>> /\ UNCHANGED <<net_events, join_requests>>
         /\ heap' = [b \in Blocks |-> heap[b] - LobbyCount(mm_events, b)]
      \/ /\ join_requests' = <<>> /\ UNCHANGED <<net_events, mm_events>>
         /\ heap' = [b \in Blocks |-> heap[b] - EventCount(join_requests, b)]
      \/ /\ net_events' = <<>> /\ UNCHANGED <<join_requests, mm_events>>
         /\ heap' = [b \in Blocks |-> heap[b] - EventCount(net_events, b)]
  BY DEF steam_matchmaking_get_events, steam_friends_get_join_requests,
         steam_net_get_connection_events, Free, Count, EventCount, LobbyCount,
         net_event_dtor, mm_event_dtor
<1>5. \A b \in Blocks : heap'[b] = Uses(b)' /\ heap'[b] <= heap[b]
  BY <1>1, <1>3, <1>4 DEF Uses
<1>6. heap' = [b \in Blocks |-> Uses(b)']
  BY <1>4, <1>5
<1>7. \A b \in Blocks : heap'[b] <= heap[b] + One(b, {})
  BY <1>3, <1>5 DEF One, HeapInv
<1> QED
  BY <1>1, <1>2, <1>6, <1>7, TallyKept

(* Fetching a response frees it.                                           *)
LEMMA FetchFrees ==
  ASSUME TypeInv, HeapInv, StoredTypes',
         NEW t \in Tickets, steam_user_get_web_api_ticket_result(t)
  PROVE  HeapInv'
<1>1. /\ UNCHANGED <<net_events, join_requests, mm_events, posted, count, storage_initialized>>
      /\ storage_initialized
      /\ webapi_tickets' = [webapi_tickets EXCEPT ![t] = NoTicket]
  BY DEF steam_user_get_web_api_ticket_result, steamSide
<1>2. Newest' = Newest /\ Newest \in Int
  BY <1>1 DEF Newest, TypeInv, QueueInv, QueueTypes
<1>3. heap' = [b \in Blocks |-> heap[b] - One(b, TicketBlocks(webapi_tickets[t]))]
  <2>1. heap' = [b \in Blocks |-> heap[b] - Count(TicketBlocks, <<webapi_tickets[t]>>, b)]
    BY DEF steam_user_get_web_api_ticket_result, Free
  <2> QED
    BY <2>1, OneTicket
<1>4. ASSUME NEW b \in Blocks
      PROVE  heap'[b] = Uses(b)' /\ heap'[b] <= heap[b]
  <2>1. TicketCount(webapi_tickets', b) =
          TicketCount(webapi_tickets, b) + One(b, TicketBlocks(NoTicket))
            - One(b, TicketBlocks(webapi_tickets[t]))
    BY <1>1, TicketCounts DEF TypeInv, StoredTypes
  <2>2. One(b, TicketBlocks(NoTicket)) = 0
    BY DEF One, TicketBlocks
  <2>3. One(b, TicketBlocks(webapi_tickets[t])) \in {0, 1}
    BY DEF One
  <2>4. /\ EventCount(net_events, b) \in Nat /\ EventCount(join_requests, b) \in Nat
        /\ LobbyCount(mm_events, b) \in Nat /\ TicketCount(webapi_tickets, b) \in Nat
        /\ heap[b] = Uses(b)
    BY UsesAreNatural DEF TypeInv, HeapInv
  <2>5. heap'[b] = heap[b] - One(b, TicketBlocks(webapi_tickets[t]))
    BY <1>3
  <2> QED
    BY <1>1, <2>1, <2>2, <2>3, <2>4, <2>5 DEF Uses
<1>5. heap' = [b \in Blocks |-> Uses(b)']
  BY <1>3, <1>4
<1>6. \A b \in Blocks : heap'[b] <= heap[b] + One(b, {})
  BY <1>4 DEF One, HeapInv
<1> QED
  BY <1>1, <1>2, <1>5, <1>6, TallyKept

LEMMA OneEntry ==
  ASSUME NEW entry, NEW b
  PROVE  /\ Count(EventBlocks, <<entry>>, b) = One(b, EventBlocks(entry))
         /\ Count(LobbyBlocks, <<entry>>, b) = One(b, LobbyBlocks(entry))
<1>1. <<>> \in Seq(Ids) /\ <<>> \in Seq(MMEntries)
  OBVIOUS
<1> QED
  BY <1>1, EventCounts, LobbyCounts

(* A dispatched event allocates its own blocks, and frees those of a       *)
(* response that it replaces.                                              *)
LEMMA DispatchAllocates ==
  ASSUME TypeInv, HeapInv, StoredTypes', NEW e, Handed(e)
  PROVE  HeapInv'
<1>1. /\ storage_initialized /\ UNCHANGED storage_initialized
      /\ e.id = Newest + 1 /\ Newest' = Newest + 1 /\ e.id \in Ids
  BY DEF Handed
<1>2. Newest \in Int /\ Newest' >= Newest /\ Newest' \in Int
  <2>1. Newest \in Int
    BY DEF Newest, TypeInv, QueueInv, QueueTypes
  <2> QED
    BY <1>1, <2>1
<1>3. \A b \in Blocks :
        /\ EventCount(net_events, b) \in Nat /\ EventCount(join_requests, b) \in Nat
        /\ LobbyCount(mm_events, b) \in Nat /\ TicketCount(webapi_tickets, b) \in Nat
        /\ heap[b] = Uses(b)
  BY UsesAreNatural DEF TypeInv, HeapInv
<1>4. /\ net_events \in Seq(Ids) /\ join_requests \in Seq(Ids) /\ mm_events \in Seq(MMEntries)
      /\ webapi_tickets \in [Tickets -> {NoTicket} \cup [id : Ids, bytes : {0, 1}]]
  BY DEF TypeInv, StoredTypes
<1>5. ASSUME NEW new, \A b \in new : b[1] = e.id,
             NEW released \in [Blocks -> {0, 1}],
             heap' = [b \in Blocks |-> heap[b] + One(b, new) - released[b]],
             \A b \in Blocks : Uses(b)' = Uses(b) + One(b, new) - released[b]
      PROVE  HeapInv'
  <2>1. \A b \in Blocks : One(b, new) \in {0, 1} /\ Uses(b) \in Nat /\ released[b] \in {0, 1}
    BY <1>3 DEF One, HeapInv, Uses
  <2>2. heap' = [b \in Blocks |-> Uses(b)']
    BY <1>3, <1>5, <2>1
  <2>3. \A b \in Blocks : heap'[b] <= heap[b] + One(b, new)
    BY <1>3, <1>5, <2>1
  <2>4. \A b \in Blocks \cap new : b[1] = Newest + 1 /\ Newest' = Newest + 1
    BY <1>1, <1>5
  <2> QED
    BY <1>1, <1>2, <2>2, <2>3, <2>4, TallyKept
<1> DEFINE nothing == [b \in Blocks |-> 0]
<1>6. \A b : One(b, EventBlocks(e.id)) \in {0, 1} /\ One(b, LobbyBlocks(TrueEntry(e))) \in {0, 1}
  BY DEF One
<1>7. CASE cb_run_net_connection_status(e)
  <2>1. /\ net_events' = net_events \o <<e.id>>
        /\ UNCHANGED <<webapi_tickets, join_requests, mm_events>>
        /\ heap' = [b \in Blocks |-> heap[b] + Count(EventBlocks, <<e.id>>, b)]
    BY <1>7 DEF Handed, cb_run_net_connection_status, Allocate
  <2>2. \A b \in Blocks : EventCount(net_events', b)
                            = EventCount(net_events, b) + One(b, EventBlocks(e.id))
    BY <1>4, <2>1, EventCounts
  <2>3. \A b \in Blocks : Uses(b)' = Uses(b) + One(b, EventBlocks(e.id)) - nothing[b]
    BY <1>3, <1>6, <2>1, <2>2 DEF Uses
  <2>4. heap' = [b \in Blocks |-> heap[b] + One(b, EventBlocks(e.id)) - nothing[b]]
    <3>1. heap' = [b \in Blocks |-> heap[b] + One(b, EventBlocks(e.id))]
      BY <2>1, OneEntry
    <3>2. \A b \in Blocks : heap[b] + One(b, EventBlocks(e.id))
                              = heap[b] + One(b, EventBlocks(e.id)) - nothing[b]
      BY <1>6 DEF HeapInv
    <3> QED
      BY <3>1, <3>2
  <2>5. \A b \in EventBlocks(e.id) : b[1] = e.id
    BY DEF EventBlocks
  <2> HIDE DEF nothing
  <2>6. nothing \in [Blocks -> {0, 1}]
    BY DEF nothing
  <2> QED
    BY <1>5, <2>3, <2>4, <2>5, <2>6
<1>8. CASE cb_run_rich_presence_join(e)
  <2>1. /\ join_requests' = join_requests \o <<e.id>>
        /\ UNCHANGED <<webapi_tickets, net_events, mm_events>>
        /\ heap' = [b \in Blocks |-> heap[b] + Count(EventBlocks, <<e.id>>, b)]
    BY <1>8 DEF Handed, cb_run_rich_presence_join, Allocate
  <2>2. \A b \in Blocks : EventCount(join_requests', b)
                            = EventCount(join_requests, b) + One(b, EventBlocks(e.id))
    BY <1>4, <2>1, EventCounts
  <2>3. \A b \in Blocks : Uses(b)' = Uses(b) + One(b, EventBlocks(e.id)) - nothing[b]
    BY <1>3, <1>6, <2>1, <2>2 DEF Uses
  <2>4. heap' = [b \in Blocks |-> heap[b] + One(b, EventBlocks(e.id)) - nothing[b]]
    <3>1. heap' = [b \in Blocks |-> heap[b] + One(b, EventBlocks(e.id))]
      BY <2>1, OneEntry
    <3>2. \A b \in Blocks : heap[b] + One(b, EventBlocks(e.id))
                              = heap[b] + One(b, EventBlocks(e.id)) - nothing[b]
      BY <1>6 DEF HeapInv
    <3> QED
      BY <3>1, <3>2
  <2>5. \A b \in EventBlocks(e.id) : b[1] = e.id
    BY DEF EventBlocks
  <2> HIDE DEF nothing
  <2>6. nothing \in [Blocks -> {0, 1}]
    BY DEF nothing
  <2> QED
    BY <1>5, <2>3, <2>4, <2>5, <2>6
<1>9. CASE cb_run_lobby(e)
  <2> DEFINE entry == TrueEntry(e)
  <2>1. /\ mm_events' = mm_events \o <<entry>>
        /\ UNCHANGED <<webapi_tickets, net_events, join_requests>>
        /\ heap' = [b \in Blocks |-> heap[b] + Count(LobbyBlocks, <<entry>>, b)]
    BY <1>9 DEF Handed, cb_run_lobby, Allocate
  <2>0. \A b : One(b, LobbyBlocks(entry)) \in {0, 1}
    BY DEF One
  <2> HIDE DEF entry
  <2>2. \A b \in Blocks : LobbyCount(mm_events', b)
                            = LobbyCount(mm_events, b) + One(b, LobbyBlocks(entry))
    BY <1>4, <2>1, LobbyCounts
  <2>3. \A b \in Blocks : Uses(b)' = Uses(b) + One(b, LobbyBlocks(entry)) - nothing[b]
    <3> TAKE b \in Blocks
    <3>1. Uses(b)' = EventCount(net_events, b) + EventCount(join_requests, b)
                       + LobbyCount(mm_events', b) + TicketCount(webapi_tickets, b)
      BY <2>1 DEF Uses
    <3>2. One(b, LobbyBlocks(entry)) \in {0, 1} /\ nothing[b] = 0
      BY <2>0
    <3> QED
      BY <1>3, <2>2, <3>1, <3>2 DEF Uses
  <2>4. heap' = [b \in Blocks |-> heap[b] + One(b, LobbyBlocks(entry)) - nothing[b]]
    <3>1. heap' = [b \in Blocks |-> heap[b] + One(b, LobbyBlocks(entry))]
      BY <2>1, OneEntry
    <3>2. \A b \in Blocks : heap[b] + One(b, LobbyBlocks(entry))
                              = heap[b] + One(b, LobbyBlocks(entry)) - nothing[b]
      BY <2>0 DEF HeapInv
    <3> QED
      BY <3>1, <3>2
  <2>5. \A b \in LobbyBlocks(entry) : b[1] = e.id
    BY DEF LobbyBlocks, EventBlocks, TrueEntry, entry
  <2> HIDE DEF nothing
  <2>6. nothing \in [Blocks -> {0, 1}]
    BY DEF nothing
  <2> QED
    BY <1>5, <2>3, <2>4, <2>5, <2>6
<1>10. CASE cb_run_webapi_ticket(e)
  <2> DEFINE new == [id |-> e.id, bytes |-> e.bytes]
             old == webapi_tickets[e.ticket]
             released == [b \in Blocks |-> One(b, TicketBlocks(old))]
  <2>1. e.ticket \in Tickets /\ e.bytes \in {0, 1}
    BY <1>10 DEF Handed, cb_run_webapi_ticket, PostedEvents
  <2>2. /\ webapi_tickets' = [webapi_tickets EXCEPT ![e.ticket] = new]
        /\ UNCHANGED <<net_events, join_requests, mm_events>>
        /\ heap' = [b \in Blocks |-> heap[b] + Count(TicketBlocks, <<new>>, b)
                                             - Count(TicketBlocks, <<old>>, b)]
    BY <1>10 DEF Handed, cb_run_webapi_ticket
  <2>3. \A b \in TicketBlocks(new) : b[1] = e.id
    BY DEF TicketBlocks
  <2>4. \A b : One(b, TicketBlocks(new)) \in {0, 1} /\ One(b, TicketBlocks(old)) \in {0, 1}
    BY DEF One
  <2> HIDE DEF new, old
  <2>5. ASSUME NEW b \in Blocks
        PROVE  Uses(b)' = Uses(b) + One(b, TicketBlocks(new)) - One(b, TicketBlocks(old))
    <3>1. TicketCount(webapi_tickets', b) =
            TicketCount(webapi_tickets, b) + One(b, TicketBlocks(new))
              - One(b, TicketBlocks(webapi_tickets[e.ticket]))
      <4> DEFINE R == {NoTicket} \cup [id : Ids, bytes : {0, 1}]
      <4>1. webapi_tickets \in [Tickets -> R]
        BY <1>4
      <4> HIDE DEF R
      <4> QED
        BY <2>1, <2>2, <4>1, TicketCounts
    <3> QED
      BY <1>3, <2>2, <2>4, <3>1 DEF Uses, old
  <2>6. \A b \in Blocks : Uses(b)' = Uses(b) + One(b, TicketBlocks(new)) - released[b]
    BY <2>5
  <2>7. heap' = [b \in Blocks |-> heap[b] + One(b, TicketBlocks(new)) - released[b]]
    <3>1. heap' = [b \in Blocks |-> heap[b] + One(b, TicketBlocks(new))
                                            - One(b, TicketBlocks(old))]
      BY <2>2, OneTicket
    <3> QED
      BY <3>1
  <2>8. released \in [Blocks -> {0, 1}]
    BY <2>4
  <2> HIDE DEF released
  <2> QED
    BY <1>5, <2>3, <2>6, <2>7, <2>8
<1> QED
  BY <1>7, <1>8, <1>9, <1>10 DEF Handed

(* Steam never takes back what it gave out: a session that ends only skips *)
(* events.                                                                 *)
LEMMA NewestGrows ==
  ASSUME TypeInv, TypeInv', [Next]_vars
  PROVE  Newest \in Int /\ Newest' \in Int /\ Newest' >= Newest
<1>2. /\ Len(posted) \in Nat /\ Len(posted') \in Nat /\ count \in Int /\ count' \in Int
      /\ Len(posted) <= count
  BY DEF TypeInv, QueueInv, QueueTypes, PostedInOrder
<1>3. Newest' >= Newest
  <2>1. CASE steam_shutdown
    <3>1. posted' = <<>> /\ count' = count
      BY <2>1 DEF steam_shutdown
    <3> QED
      BY <1>2, <3>1 DEF Newest
  <2>2. CASE SteamPosts
    <3>1. PICK e : PostsEvent(e)
      BY <2>2, SteamPostsEvents DEF TypeInv
    <3>2. count' = count + 1 /\ posted' = Append(posted, e) /\ posted \in Seq(PostedEvents)
      BY <3>1 DEF PostsEvent, Post, TypeInv, QueueInv, QueueTypes
    <3>3. Len(posted') = Len(posted) + 1
      BY <3>1, <3>2, AppendProperties DEF PostsEvent
    <3> QED
      BY <1>2, <3>2, <3>3 DEF Newest
  <2>3. CASE \/ \E client \in Clients : steam_init(client)
             \/ steam_run_callbacks
             \/ steam_user_get_auth_ticket_for_web_api
             \/ \E f \in OtherInterfaces : other_function(f)
             \/ UNCHANGED vars
             \/ MINIT \/ MSHUTDOWN
             \/ steam_matchmaking_get_events
             \/ steam_friends_get_join_requests
             \/ steam_net_get_connection_events
             \/ \E t \in Tickets : steam_user_get_web_api_ticket_result(t)
    <3>1. UNCHANGED <<posted, count>>
      BY <2>3 DEF steam_init, steam_run_callbacks, steam_user_get_auth_ticket_for_web_api,
                  other_function, vars, steamSide, MINIT, MSHUTDOWN,
                  steam_matchmaking_get_events, steam_friends_get_join_requests,
                  steam_net_get_connection_events, steam_user_get_web_api_ticket_result
    <3> QED
      BY <1>2, <3>1 DEF Newest
  <2>4. CASE SteamDispatches
    <3>1. PICK e : Handed(e)
      BY <2>4, DispatchHandsOver DEF TypeInv, SteamTypes
    <3>2. Newest' = Newest + 1
      BY <3>1 DEF Handed
    <3> QED
      BY <1>2, <3>2 DEF Newest
  <2> QED
    BY <2>1, <2>2, <2>3, <2>4 DEF Next
<1> QED
  BY <1>2, <1>3 DEF Newest

LEMMA HeapLeftAlone ==
  ASSUME TypeInv, TypeInv', HeapInv,
         \/ steam_shutdown \/ \E client \in Clients : steam_init(client)
         \/ SteamPosts
         \/ steam_run_callbacks
         \/ steam_user_get_auth_ticket_for_web_api
         \/ \E f \in OtherInterfaces : other_function(f)
         \/ UNCHANGED vars
  PROVE  HeapInv'
<1>1. UNCHANGED storage
  BY DEF steam_shutdown, steam_init, SteamPosts, PostEvent, PostChatMessage, PostTicket, Post,
         steam_run_callbacks, steam_user_get_auth_ticket_for_web_api, other_function, vars
<1>3. Newest' >= Newest /\ Newest \in Int /\ Newest' \in Int
  BY NewestGrows DEF Next
<1>4. \A b \in Blocks : b[1] \in Int
  BY CallbacksAssumption DEF Blocks
<1>5. \A b \in Blocks : Uses(b)' = Uses(b)
  BY <1>1 DEF storage, Uses
<1>6. heap' = heap /\ storage_initialized' = storage_initialized
  BY <1>1 DEF storage
<1> QED
  BY <1>3, <1>4, <1>5, <1>6 DEF HeapInv

(* Nothing is allocated before the module starts, and MSHUTDOWN frees the  *)
(* rest.                                                                   *)
LEMMA HeapStartsAndEnds ==
  ASSUME TypeInv, HeapInv, MINIT \/ MSHUTDOWN
  PROVE  HeapInv'
<1>1. Newest' = Newest
  BY DEF MINIT, MSHUTDOWN, steamSide, Newest
<1>2. EmptyStorage
  BY DEF MINIT, MSHUTDOWN, steamworks_callbacks_minit, steamworks_callbacks_mshutdown,
         EmptyStorage, TypeInv, QueueInv, StorageLives
<1>3. \A b \in Blocks : Uses(b)' = 0
  BY <1>2, EmptyCounts, NoTicketsStored DEF EmptyStorage, Uses
<1>4. heap' \in [Blocks -> Nat] /\ \A b \in Blocks : heap'[b] = 0
  <2>1. CASE MINIT
    <3>1. heap' = heap /\ ~storage_initialized
      BY <2>1 DEF MINIT, steamworks_callbacks_minit, TypeInv, QueueInv, StorageLives
    <3> QED
      BY <3>1 DEF HeapInv
  <2>2. CASE MSHUTDOWN
    <3>1. storage_initialized
      BY <2>2 DEF MSHUTDOWN, TypeInv, QueueInv, StorageLives
    <3>2. heap' = [b \in Blocks |-> heap[b]
                     - (EventCount(net_events, b) + EventCount(join_requests, b)
                          + LobbyCount(mm_events, b))
                     - TicketCount(webapi_tickets, b)]
      BY <2>2, <3>1 DEF MSHUTDOWN, steamworks_callbacks_mshutdown, FreedByDestructors, Count,
                        EventCount, LobbyCount, TicketCount, net_event_dtor, mm_event_dtor
    <3>3. ASSUME NEW b \in Blocks PROVE heap'[b] = 0
      <4>1. /\ EventCount(net_events, b) \in Nat /\ EventCount(join_requests, b) \in Nat
            /\ LobbyCount(mm_events, b) \in Nat /\ TicketCount(webapi_tickets, b) \in Nat
            /\ heap[b] = Uses(b)
        BY UsesAreNatural DEF TypeInv, HeapInv
      <4> QED
        BY <3>2, <4>1 DEF Uses
    <3> QED
      BY <3>2, <3>3
  <2> QED
    BY <2>1, <2>2
<1> QED
  BY <1>1, <1>3, <1>4 DEF HeapInv

LEMMA HeapInductive == TypeInv /\ HeapInv /\ [Next]_vars => HeapInv'
<1> SUFFICES ASSUME TypeInv, HeapInv, [Next]_vars PROVE HeapInv'
  OBVIOUS
<1>1. TypeInv'
  BY TypesInductive
<1>2. StoredTypes'
  BY <1>1 DEF TypeInv
<1>3. CASE SteamDispatches
  <2>1. PICK e : Handed(e)
    BY <1>3, DispatchHandsOver DEF TypeInv, SteamTypes
  <2> QED
    BY <1>2, <2>1, DispatchAllocates
<1> QED
  BY <1>1, <1>2, <1>3, DrainFrees, FetchFrees, HeapLeftAlone, HeapStartsAndEnds DEF Next

LEMMA InitHeap == Init => HeapInv
<1> SUFFICES ASSUME Init PROVE HeapInv
  OBVIOUS
<1>1. \A b \in Blocks : Uses(b) = 0
  BY EmptyCounts, NoTicketsStored DEF Init, Uses
<1> QED
  BY <1>1 DEF Init, HeapInv

LEMMA HeapInvIsBalance ==
  ASSUME TypeInv, HeapInv
  PROVE  HeapBalanced
<1>1. ASSUME NEW b \in Blocks PROVE heap[b] = IF InUse(b) THEN 1 ELSE 0
  <2>1. /\ EventCount(net_events, b) # 0 <=>
             \E i \in DOMAIN net_events : b \in EventBlocks(net_events[i])
        /\ EventCount(join_requests, b) # 0 <=>
             \E i \in DOMAIN join_requests : b \in EventBlocks(join_requests[i])
    BY EventCounts DEF TypeInv, StoredTypes
  <2>2. LobbyCount(mm_events, b) # 0 <=>
          \E i \in DOMAIN mm_events : b \in LobbyBlocks(mm_events[i])
    BY LobbyCounts DEF TypeInv, StoredTypes
  <2>3. TicketCount(webapi_tickets, b) # 0 <=>
          \E t \in Tickets : b \in TicketBlocks(webapi_tickets[t])
    BY TicketUses DEF TypeInv, StoredTypes
  <2>4. InUse(b) <=> \/ EventCount(net_events, b) # 0 \/ EventCount(join_requests, b) # 0
                     \/ LobbyCount(mm_events, b) # 0 \/ TicketCount(webapi_tickets, b) # 0
    BY <2>1, <2>2, <2>3 DEF InUse
  <2>5. /\ EventCount(net_events, b) \in Nat /\ EventCount(join_requests, b) \in Nat
        /\ LobbyCount(mm_events, b) \in Nat /\ TicketCount(webapi_tickets, b) \in Nat
        /\ heap[b] = Uses(b) /\ heap[b] <= 1
    BY UsesAreNatural DEF TypeInv, HeapInv
  <2> QED
    BY <2>4, <2>5 DEF Uses
<1>2. phase = "exited" => ~storage_initialized
  BY DEF TypeInv, QueueInv, StorageLives
<1> QED
  BY <1>1, <1>2 DEF HeapBalanced, HeapInv

(* Whatever the order of events, drains, fetches, sessions and the end of  *)
(* the process, no persistent block leaks and none is freed twice.         *)
THEOREM HeapIsBalanced == Spec => []HeapBalanced
<1>1. TypeInv /\ HeapInv => HeapBalanced
  BY HeapInvIsBalance
<1> QED
  BY <1>1, InitTypes, InitHeap, TypesInductive, HeapInductive, PTL DEF Spec

(* Every variable of the callback subsystem keeps its type: in particular  *)
(* no allocation count goes below zero and RunCallbacks never has more     *)
(* events left than Steam holds.                                           *)
THEOREM CallbackTypes == Spec => []TypeOK
<1>1. TypeInv /\ HeapInv => TypeOK
  BY DEF TypeInv, HeapInv, QueueInv, QueueTypes, RegistrationInv, StoredTypes, HistoryTypes,
         SteamTypes, TypeOK
<1> QED
  BY <1>1, InitTypes, InitHeap, TypesInductive, HeapInductive, PTL DEF Spec

-----------------------------------------------------------------------------
(* Web-api tickets.                                                        *)

(* The latest response to a ticket request is newer than every one that    *)
(* was fetched before it and older than all that Steam still holds.        *)
FetchedInOrder(t) ==
  /\ \A i, j \in 1..Len(got[t]) : i < j => got[t][i] < got[t][j]
  /\ \A i \in 1..Len(got[t]) : got[t][i] <= arrived[t]

LatestIsKept(t) ==
  /\ webapi_tickets[t] # NoTicket =>
       /\ webapi_tickets[t].id = arrived[t]
       /\ \A i \in 1..Len(got[t]) : got[t][i] < arrived[t]
  /\ storage_initialized /\ arrived[t] # 0 /\ webapi_tickets[t] = NoTicket =>
       got[t] # <<>> /\ got[t][Len(got[t])] = arrived[t]

TicketInv ==
  \A t \in Tickets :
    /\ arrived[t] <= Newest
    /\ phase = "startup" => arrived[t] = 0
    /\ FetchedInOrder(t) /\ LatestIsKept(t)

LEMMA TicketArrives ==
  ASSUME TypeInv, TypeInv', TicketInv, NEW e, Handed(e)
  PROVE  TicketInv'
<1>1. Newest \in Int /\ Newest' = Newest + 1 /\ e.id = Newest + 1
  BY DEF Handed, TypeInv, QueueInv, QueueTypes, Newest
<1>2. UNCHANGED <<phase, storage_initialized, got>>
  BY DEF Handed
<1>3. \A t \in Tickets : arrived[t] \in Int /\ got[t] \in Seq(Ids)
  BY CallbacksAssumption DEF TypeInv, HistoryTypes
<1>4. \A t \in Tickets, i \in Nat : i \in 1..Len(got[t]) => got[t][i] \in Int
  BY <1>3, CallbacksAssumption DEF Ids
<1>5. CASE cb_run_webapi_ticket(e)
  <2> DEFINE new == [id |-> e.id, bytes |-> e.bytes]
  <2>1. /\ webapi_tickets' = [webapi_tickets EXCEPT ![e.ticket] = new]
        /\ arrived' = [arrived EXCEPT ![e.ticket] = e.id]
        /\ e.ticket \in Tickets /\ phase # "startup"
    BY <1>5 DEF Handed, cb_run_webapi_ticket, PostedEvents, TypeInv, QueueInv, StorageLives
  <2>2. new.id = e.id /\ new # NoTicket
    <3>1. e.id # 0
      BY CallbacksAssumption DEF Handed, Ids
    <3> QED
      BY <3>1 DEF NoTicket
  <2> HIDE DEF new
  <2>3. ASSUME NEW t \in Tickets, t = e.ticket
        PROVE  arrived'[t] <= Newest' /\ FetchedInOrder(t)' /\ LatestIsKept(t)'
    <3>1. webapi_tickets'[t] = new /\ arrived'[t] = e.id
      BY <2>1, <2>3 DEF TypeInv, StoredTypes, HistoryTypes
    <3>2. \A i \in 1..Len(got[t]) : got[t][i] < e.id
      BY <1>1, <1>3, <1>4 DEF TicketInv, FetchedInOrder
    <3>3. \A i \in 1..Len(got[t]) : got[t][i] <= e.id
      BY <1>1, <1>3, <1>4, <3>2
    <3> QED
      BY <1>1, <1>2, <2>2, <3>1, <3>2, <3>3 DEF TicketInv, FetchedInOrder, LatestIsKept
  <2>4. ASSUME NEW t \in Tickets, t # e.ticket
        PROVE  arrived'[t] <= Newest' /\ FetchedInOrder(t)' /\ LatestIsKept(t)'
    <3>1. webapi_tickets'[t] = webapi_tickets[t] /\ arrived'[t] = arrived[t]
      BY <2>1, <2>4 DEF TypeInv, StoredTypes, HistoryTypes
    <3>2. arrived[t] <= Newest'
      BY <1>1, <1>3 DEF TicketInv
    <3> QED
      BY <1>2, <3>1, <3>2 DEF TicketInv, FetchedInOrder, LatestIsKept
  <2> QED
    BY <1>2, <2>1, <2>3, <2>4 DEF TicketInv
<1>6. CASE UNCHANGED <<webapi_tickets, arrived>>
  <2>1. \A t \in Tickets : arrived[t] <= Newest'
    BY <1>1, <1>3 DEF TicketInv
  <2> QED
    BY <1>2, <1>6, <2>1 DEF TicketInv, FetchedInOrder, LatestIsKept
<1> QED
  BY <1>5, <1>6 DEF Handed, cb_run_net_connection_status, cb_run_rich_presence_join, cb_run_lobby

LEMMA TicketFetched ==
  ASSUME TypeInv, TicketInv, NEW u \in Tickets, steam_user_get_web_api_ticket_result(u)
  PROVE  TicketInv'
<1>1. /\ webapi_tickets[u] # NoTicket
      /\ webapi_tickets' = [webapi_tickets EXCEPT ![u] = NoTicket]
      /\ got' = [got EXCEPT ![u] = Append(got[u], webapi_tickets[u].id)]
      /\ UNCHANGED <<phase, arrived, storage_initialized, posted, count>>
  BY DEF steam_user_get_web_api_ticket_result, steamSide
<1>2. Newest' = Newest
  BY <1>1 DEF Newest
<1>3. \A t \in Tickets : arrived[t] \in Int /\ got[t] \in Seq(Ids)
  BY CallbacksAssumption DEF TypeInv, HistoryTypes
<1>4. ASSUME NEW t \in Tickets, t = u
      PROVE  FetchedInOrder(t)' /\ LatestIsKept(t)'
  <2> DEFINE n == Len(got[u])
  <2>1. /\ got'[u] = Append(got[u], arrived[u]) /\ webapi_tickets'[u] = NoTicket
        /\ arrived[u] \in Ids
        /\ \A i \in 1..n : got[u][i] < arrived[u]
    BY <1>1 DEF TicketInv, LatestIsKept, TypeInv, StoredTypes, HistoryTypes
  <2>2. /\ n \in Nat /\ Len(got'[u]) = n + 1 /\ got'[u][n + 1] = arrived[u]
        /\ \A i \in 1..n : got'[u][i] = got[u][i]
        /\ got'[u] # <<>>
    BY <1>3, <2>1, AppendProperties
  <2> HIDE DEF n
  <2>3. \A i \in 1..(n + 1) : i \in 1..n \/ i = n + 1
    BY <2>2
  <2>4. ASSUME NEW i \in 1..(n + 1), NEW j \in 1..(n + 1), i < j
        PROVE  got'[u][i] < got'[u][j]
    <3>1. i \in 1..n
      BY <2>2, <2>4
    <3> QED
      BY <2>1, <2>2, <2>3, <2>4, <3>1 DEF TicketInv, FetchedInOrder, n
  <2>5. \A i \in 1..(n + 1) : got'[u][i] <= arrived[u]
    BY <1>3, <2>1, <2>2, <2>3 DEF TicketInv, FetchedInOrder, n
  <2>6. FetchedInOrder(u)'
    BY <1>1, <2>2, <2>4, <2>5 DEF FetchedInOrder
  <2>7. LatestIsKept(u)'
    BY <1>1, <2>1, <2>2 DEF LatestIsKept
  <2> QED
    BY <1>4, <2>6, <2>7
<1>5. ASSUME NEW t \in Tickets, t # u
      PROVE  FetchedInOrder(t)' /\ LatestIsKept(t)'
  <2>1. webapi_tickets'[t] = webapi_tickets[t] /\ got'[t] = got[t]
    BY <1>1, <1>5 DEF TypeInv, StoredTypes, HistoryTypes
  <2> QED
    BY <1>1, <2>1 DEF TicketInv, FetchedInOrder, LatestIsKept
<1> QED
  BY <1>1, <1>2, <1>4, <1>5 DEF TicketInv

LEMMA TicketsLeftAlone ==
  ASSUME TypeInv, TypeInv', TicketInv, [Next]_vars,
         UNCHANGED <<webapi_tickets, arrived, got, storage_initialized, phase>>
  PROVE  TicketInv'
<1>1. \A t \in Tickets : arrived[t] \in Int
  BY CallbacksAssumption DEF TypeInv, HistoryTypes
<1>2. \A t \in Tickets : arrived[t] <= Newest'
  BY <1>1, NewestGrows DEF TicketInv
<1> QED
  BY <1>2 DEF TicketInv, FetchedInOrder, LatestIsKept

LEMMA TicketsInductive == TypeInv /\ TicketInv /\ [Next]_vars => TicketInv'
<1> SUFFICES ASSUME TypeInv, TicketInv, [Next]_vars PROVE TicketInv'
  OBVIOUS
<1>1. TypeInv'
  BY TypesInductive
<1>2. CASE SteamDispatches
  <2>1. PICK e : Handed(e)
    BY <1>2, DispatchHandsOver DEF TypeInv, SteamTypes
  <2> QED
    BY <1>1, <2>1, TicketArrives
<1>3. CASE MINIT
  <2>1. /\ phase = "startup" /\ phase' = "running"
        /\ webapi_tickets' = [t \in Tickets |-> NoTicket]
        /\ UNCHANGED <<arrived, got, posted, count>>
    BY <1>3 DEF MINIT, steamworks_callbacks_minit, history, steamSide
  <2> QED
    BY <2>1 DEF TicketInv, FetchedInOrder, LatestIsKept, Newest
<1>4. CASE MSHUTDOWN
  <2>1. /\ phase' = "exited" /\ storage_initialized' = FALSE
        /\ webapi_tickets' = [t \in Tickets |-> NoTicket]
        /\ UNCHANGED <<arrived, got, posted, count>>
    BY <1>4 DEF MSHUTDOWN, steamworks_callbacks_mshutdown, EmptyStorage, history, steamSide,
                TypeInv, QueueInv, StorageLives
  <2> QED
    BY <2>1 DEF TicketInv, FetchedInOrder, LatestIsKept, Newest
<1>5. CASE \/ steam_shutdown
           \/ \E client \in Clients : steam_init(client)
           \/ SteamPosts
           \/ steam_run_callbacks
           \/ steam_matchmaking_get_events
           \/ steam_friends_get_join_requests
           \/ steam_net_get_connection_events
           \/ steam_user_get_auth_ticket_for_web_api
           \/ \E f \in OtherInterfaces : other_function(f)
           \/ UNCHANGED vars
  <2>1. UNCHANGED <<webapi_tickets, arrived, got, storage_initialized, phase>>
    BY <1>5 DEF steam_shutdown, steam_init, SteamPosts, PostEvent, PostChatMessage, PostTicket,
                Post, steam_run_callbacks, steam_matchmaking_get_events,
                steam_friends_get_join_requests, steam_net_get_connection_events,
                steam_user_get_auth_ticket_for_web_api, other_function, vars, storage, history
  <2> QED
    BY <1>1, <2>1, TicketsLeftAlone
<1> QED
  BY <1>2, <1>3, <1>4, <1>5, TicketFetched DEF Next

(* Per ticket the script sees the responses in the order they arrived,     *)
(* each at most once, and the latest is stored or was fetched: also when a *)
(* later session gives the handle out again and the response is replaced.  *)
THEOREM TicketsInOrder == Spec => []TicketsOnceAndLatest
<1>1. Init => TicketInv
  BY CallbacksAssumption DEF Init, TicketInv, FetchedInOrder, LatestIsKept, Newest
<1>2. TicketInv => TicketsOnceAndLatest
  BY DEF TicketInv, FetchedInOrder, LatestIsKept, TicketsOnceAndLatest, Last
<1> QED
  BY <1>1, <1>2, InitTypes, TypesInductive, TicketsInductive, PTL DEF Spec

=============================================================================
