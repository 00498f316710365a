--------------------------- MODULE SteamCallbacks ---------------------------
(***************************************************************************)
(* The general callback subsystem (src/modules/steam_callback.c): seven    *)
(* fabricated CCallback objects, registered with Steam from steam_init()   *)
(* to steam_shutdown(), copy what Steam dispatches during                  *)
(* steam_run_callbacks() into persistent storage, from which the script    *)
(* drains three queues and fetches web-api tickets by handle.              *)
(*                                                                         *)
(* PHP is single-threaded: no PHP function runs while Steam dispatches.    *)
(* Steam itself goes on posting events at any time.                        *)
(***************************************************************************)
EXTENDS SteamInterfaces, SequencesExt, FiniteSets

CONSTANTS
  Kinds,       (* The callback kinds that occur.                            *)
  Tickets,     (* The HAuthTicket values Steam hands out (32-bit).          *)
  Slots,       (* Steam's buffer of lobby chat entries.                     *)
  MaxEvents,   (* Bound: how many events Steam posts.                       *)
  OtherInterfaces  (* Interfaces that functions modelled elsewhere resolve. *)

LobbyKinds ==
  {"LOBBY_JOIN_REQUESTED", "LOBBY_DATA_UPDATE", "LOBBY_CHAT_UPDATE", "LOBBY_CHAT_MSG"}

AllKinds ==
  {"WEBAPI_TICKET", "NET_CONNECTION_STATUS", "RICH_PRESENCE_JOIN"} \cup LobbyKinds

ASSUME CallbacksAssumption ==
  /\ Kinds \subseteq AllKinds
  /\ MaxEvents \in Nat
  /\ Slots # {} /\ IsFiniteSet(Tickets)
  /\ OtherInterfaces \subseteq Interfaces

VARIABLES
  phase,                (* The module's life: "startup", "running", "exited". *)
  storage_initialized,
  callbacks_registered,
  webapi_tickets,       (* handle -> stored response, or NoTicket.            *)
  net_events, join_requests, mm_events,
  heap,                 (* How often a persistent block is allocated and not *)
                        (* freed: 1 while it is in use, else 0.              *)
  registrations,        (* Steam: how often each object is registered.        *)
  posted,               (* Steam: events not dispatched yet, oldest first.    *)
  dispatching,          (* Events the running RunCallbacks has left, else 0.  *)
  chat_buffer,          (* Steam: slot -> the message it holds now.           *)
  requested,            (* Steam: web-api tickets requested in this session.  *)
  count,                (* Events posted so far; the next one's id.           *)
  delivered,            (* History: what each queue should have received.     *)
  drained,              (* History: what the script got out of each queue.    *)
  arrived, got, asked   (* History per ticket: responses dispatched,          *)
                        (* responses fetched, count at the latest request.    *)

storage == <<storage_initialized, webapi_tickets, net_events, join_requests,
             mm_events, heap>>
steamSide == <<registrations, posted, dispatching, chat_buffer, requested, count>>
history == <<delivered, drained, arrived, got, asked>>

vars == <<ifaceVars, phase, callbacks_registered, storage, steamSide, history>>

NoTicket == [id |-> 0, bytes |-> 0]
Queues == {"net", "join", "mm"}

(* An event is stored in one block, and its text or its ticket bytes in    *)
(* another: both are named for the event.                                  *)
Blocks == (1..MaxEvents) \X {"event", "data"}

-----------------------------------------------------------------------------
(* Steam posts events.  A chat entry keeps its slot until its callback has *)
(* been dispatched; after that the slot may be reused at any time.         *)

Post(e) ==
  /\ user = 1 /\ count < MaxEvents
  /\ count' = count + 1
  /\ posted' = Append(posted, e)
  /\ UNCHANGED <<ifaceVars, phase, callbacks_registered, storage,
                 registrations, dispatching, history>>

PostEvent(kind) ==
  /\ kind \in Kinds \ {"WEBAPI_TICKET", "LOBBY_CHAT_MSG"}
  /\ Post([kind |-> kind, id |-> count + 1])
  /\ UNCHANGED <<chat_buffer, requested>>

PostChatMessage(slot) ==
  /\ "LOBBY_CHAT_MSG" \in Kinds
  /\ \A i \in 1..Len(posted) :
       posted[i].kind = "LOBBY_CHAT_MSG" => posted[i].slot # slot
  /\ chat_buffer' = [chat_buffer EXCEPT ![slot] = count + 1]
  /\ Post([kind |-> "LOBBY_CHAT_MSG", id |-> count + 1, slot |-> slot])
  /\ UNCHANGED requested

(* A refused request is answered too, without ticket bytes.                *)
PostTicket(t, bytes) ==
  /\ "WEBAPI_TICKET" \in Kinds
  /\ t \in requested
  /\ Post([kind |-> "WEBAPI_TICKET", id |-> count + 1, ticket |-> t, bytes |-> bytes])
  /\ UNCHANGED <<chat_buffer, requested>>

-----------------------------------------------------------------------------
(* Dispatching.  RunCallbacks works through what was posted when it was    *)
(* called; each step below hands one event to every object registered for  *)
(* its kind, that is to cb_run().                                          *)

steam_run_callbacks ==
  /\ phase = "running" /\ dispatching = 0
  /\ dispatching' = Len(posted)
  /\ UNCHANGED <<ifaceVars, phase, callbacks_registered, storage, registrations,
                 posted, chat_buffer, requested, count, history>>

Dispatch(e) ==
  /\ phase = "running" /\ dispatching > 0 /\ e = Head(posted)
  /\ posted' = Tail(posted)
  /\ dispatching' = dispatching - 1
  /\ UNCHANGED <<phase, callbacks_registered, storage_initialized, registrations,
                 chat_buffer, requested, count, drained, got, asked>>

(* One copy of an entry per object that is registered for the kind.        *)
PerObject(kind, entry) ==
  IF storage_initialized THEN [i \in 1..registrations[kind] |-> entry] ELSE <<>>

(* The blocks of a stored response; nothing is stored under the others.    *)
TicketBlocks(stored) ==
  IF stored = NoTicket
    THEN {}
    ELSE {<<stored.id, "event">>} \cup {<<stored.id, "data">> : n \in 1..stored.bytes}

(* The blocks of a queued event; only a chat message with text has two.    *)
EventBlocks(id) == {<<id, "event">>}
LobbyBlocks(entry) ==
  EventBlocks(entry.id) \cup (IF entry.message # 0 THEN {<<entry.id, "data">>} ELSE {})

(* What the destructors of the queues' tables free of an entry.            *)
net_event_dtor(id) == EventBlocks(id)

(* A slip: the plain destructor of the other two queues used for lobbies.  *)
mm_event_dtor_Plain(entry) == EventBlocks(entry.id)

(* A slip: the text freed even of an entry that has none.                  *)
mm_event_dtor_Unguarded(entry) == {<<entry.id, "event">>, <<entry.id, "data">>}

mm_event_dtor(entry) == LobbyBlocks(entry)

(* How many of the entries have the block among those Of tells of them.    *)
Count(Of(_), entries, b) == Cardinality({i \in DOMAIN entries : b \in Of(entries[i])})

Allocate(Of(_), entries) ==
  heap' = [b \in Blocks |-> heap[b] + Count(Of, entries, b)]

Free(Of(_), entries) ==
  heap' = [b \in Blocks |-> heap[b] - Count(Of, entries, b)]

(* A slip: a response that is already stored for the handle kept.          *)
cb_run_webapi_ticket_KeepsOld(e) ==
  /\ e.kind = "WEBAPI_TICKET" /\ Dispatch(e)
  /\ IF webapi_tickets[e.ticket] = NoTicket
       THEN /\ webapi_tickets' =
                 [webapi_tickets EXCEPT ![e.ticket] = [id |-> e.id, bytes |-> e.bytes]]
            /\ Allocate(TicketBlocks, <<[id |-> e.id, bytes |-> e.bytes]>>)
       ELSE UNCHANGED <<webapi_tickets, heap>>
  /\ arrived' = [arrived EXCEPT ![e.ticket] = e.id]
  /\ UNCHANGED <<ifaceVars, net_events, join_requests, mm_events, delivered>>

(* The response is copied; one stored earlier under the handle is freed.   *)
cb_run_webapi_ticket(e) ==
  /\ e.kind = "WEBAPI_TICKET" /\ Dispatch(e)
  /\ IF storage_initialized /\ registrations[e.kind] > 0
       THEN /\ webapi_tickets' =
                 [webapi_tickets EXCEPT ![e.ticket] = [id |-> e.id, bytes |-> e.bytes]]
            /\ heap' = [b \in Blocks |->
                 heap[b] + Count(TicketBlocks, <<[id |-> e.id, bytes |-> e.bytes]>>, b)
                   - Count(TicketBlocks, <<webapi_tickets[e.ticket]>>, b)]
       ELSE UNCHANGED <<webapi_tickets, heap>>
  /\ arrived' = [arrived EXCEPT ![e.ticket] = e.id]
  /\ UNCHANGED <<ifaceVars, net_events, join_requests, mm_events, delivered>>

cb_run_net_connection_status(e) ==
  /\ e.kind = "NET_CONNECTION_STATUS" /\ Dispatch(e)
  /\ LET new == PerObject(e.kind, e.id) IN
       /\ net_events' = net_events \o new
       /\ Allocate(EventBlocks, new)
  /\ delivered' = [delivered EXCEPT !["net"] = Append(@, e.id)]
  /\ UNCHANGED <<ifaceVars, webapi_tickets, join_requests, mm_events, arrived>>

cb_run_rich_presence_join(e) ==
  /\ e.kind = "RICH_PRESENCE_JOIN" /\ Dispatch(e)
  /\ LET new == PerObject(e.kind, e.id) IN
       /\ join_requests' = join_requests \o new
       /\ Allocate(EventBlocks, new)
  /\ delivered' = [delivered EXCEPT !["join"] = Append(@, e.id)]
  /\ UNCHANGED <<ifaceVars, webapi_tickets, net_events, mm_events, arrived>>

(* A slip: the entry looked up by position, as if Steam kept a log.        *)
GetLobbyChatEntry_Last(e) ==
  IF Found("ISteamMatchmaking")
    THEN CHOOSE m \in {chat_buffer[s] : s \in Slots} :
           \A s \in Slots : chat_buffer[s] <= m
    ELSE 0

(* The chat id in the callback is an index into Steam's buffer, read at    *)
(* once; 0 when there is no ISteamMatchmaking to read it with.             *)
GetLobbyChatEntry(e) ==
  IF Found("ISteamMatchmaking") THEN chat_buffer[e.slot] ELSE 0

LobbyEntry(e) ==
  [ id |-> e.id, kind |-> e.kind,
    message |-> IF e.kind = "LOBBY_CHAT_MSG" THEN GetLobbyChatEntry(e) ELSE 0 ]

(* What really happened, for the history: a chat message arrives with the  *)
(* text it was posted with whenever the client lets it be read.            *)
TrueEntry(e) ==
  [ id |-> e.id, kind |-> e.kind,
    message |-> IF e.kind = "LOBBY_CHAT_MSG" /\ "SteamMatchMaking009" \in offered
                  THEN e.id ELSE 0 ]

cb_run_lobby(e) ==
  /\ e.kind \in LobbyKinds /\ Dispatch(e)
  /\ LET new == PerObject(e.kind, LobbyEntry(e)) IN
       /\ mm_events' = mm_events \o new
       /\ Allocate(LobbyBlocks, new)
       /\ IF new # <<>> /\ e.kind = "LOBBY_CHAT_MSG"
            THEN steamworks_resolve("ISteamMatchmaking")
            ELSE UNCHANGED ifaceVars
  /\ delivered' = [delivered EXCEPT !["mm"] = Append(@, TrueEntry(e))]
  /\ UNCHANGED <<webapi_tickets, net_events, join_requests, arrived>>

-----------------------------------------------------------------------------
(* Registration with Steam and the module's life.                          *)

Registered == [k \in AllKinds |-> registrations[k] + 1]
Unregistered == [k \in AllKinds |-> IF registrations[k] = 0 THEN 0 ELSE registrations[k] - 1]

(* A slip: registering again on every steam_init().                        *)
callbacks_register_Always ==
  /\ registrations' = Registered
  /\ callbacks_registered' = TRUE

steamworks_callbacks_register ==
  /\ registrations' = IF callbacks_registered THEN registrations ELSE Registered
  /\ callbacks_registered' = TRUE

(* A slip: the flag left set, so that the next session registers nothing.  *)
callbacks_unregister_FlagKept ==
  /\ registrations' = IF callbacks_registered THEN Unregistered ELSE registrations
  /\ UNCHANGED callbacks_registered

steamworks_callbacks_unregister ==
  /\ registrations' = IF callbacks_registered THEN Unregistered ELSE registrations
  /\ callbacks_registered' = FALSE

steamworks_callbacks_minit ==
  /\ storage_initialized' = TRUE
  /\ webapi_tickets' = [t \in Tickets |-> NoTicket]
  /\ net_events' = <<>> /\ join_requests' = <<>> /\ mm_events' = <<>>
  /\ UNCHANGED heap

FreedByDestructors(b) ==
  Count(net_event_dtor, net_events, b) + Count(net_event_dtor, join_requests, b)
    + Count(mm_event_dtor, mm_events, b)

EmptyStorage ==
  /\ webapi_tickets' = [t \in Tickets |-> NoTicket]
  /\ net_events' = <<>> /\ join_requests' = <<>> /\ mm_events' = <<>>

(* A slip: the ticket table, which has no destructor, just destroyed.      *)
callbacks_mshutdown_NoFree ==
  /\ EmptyStorage
  /\ heap' = [b \in Blocks |-> heap[b] - FreedByDestructors(b)]
  /\ storage_initialized' = FALSE

(* Tickets are freed one by one, queue entries by the tables' destructors. *)
steamworks_callbacks_mshutdown ==
  IF storage_initialized
    THEN /\ EmptyStorage
         /\ heap' = [b \in Blocks |->
              heap[b] - FreedByDestructors(b) - Count(TicketBlocks, webapi_tickets, b)]
         /\ storage_initialized' = FALSE
    ELSE UNCHANGED storage

MINIT ==
  /\ phase = "startup" /\ phase' = "running"
  /\ steamworks_callbacks_minit
  /\ UNCHANGED <<ifaceVars, callbacks_registered, steamSide, history>>

(* The callbacks stay registered with Steam when the script did not call   *)
(* steam_shutdown(); nothing dispatches to them any more.                  *)
MSHUTDOWN ==
  /\ phase = "running" /\ dispatching = 0 /\ phase' = "exited"
  /\ steamworks_callbacks_mshutdown
  /\ UNCHANGED <<ifaceVars, callbacks_registered, steamSide, history>>

steam_init(client) ==
  /\ phase = "running" /\ dispatching = 0
  /\ SteamAPI_InitFlat(client)
  /\ steamworks_callbacks_register
  /\ UNCHANGED <<phase, storage, posted, dispatching, chat_buffer, requested,
                 count, history>>

(* Steam forgets what it has not dispatched; the storage is left as it is. *)
steam_shutdown ==
  /\ phase = "running" /\ dispatching = 0
  /\ steamworks_callbacks_unregister
  /\ SteamAPI_Shutdown
  /\ posted' = <<>>
  /\ chat_buffer' = [s \in Slots |-> 0]
  /\ requested' = {}
  /\ UNCHANGED <<phase, storage, dispatching, count, history>>

-----------------------------------------------------------------------------
(* The PHP functions that use the storage.                                 *)

PhpFunction == phase = "running" /\ dispatching = 0

(* A slip: the queue returned but not cleaned.                             *)
get_events_NotCleaned ==
  /\ PhpFunction /\ mm_events # <<>>
  /\ drained' = [drained EXCEPT !["mm"] = @ \o mm_events]
  /\ UNCHANGED <<ifaceVars, phase, callbacks_registered, storage, steamSide,
                 delivered, arrived, got, asked>>

steam_matchmaking_get_events ==
  /\ PhpFunction /\ storage_initialized
  /\ drained' = [drained EXCEPT !["mm"] = @ \o mm_events]
  /\ mm_events' = <<>>
  /\ Free(mm_event_dtor, mm_events)
  /\ UNCHANGED <<ifaceVars, phase, callbacks_registered, storage_initialized,
                 webapi_tickets, net_events, join_requests, steamSide,
                 delivered, arrived, got, asked>>

steam_friends_get_join_requests ==
  /\ PhpFunction /\ storage_initialized
  /\ drained' = [drained EXCEPT !["join"] = @ \o join_requests]
  /\ join_requests' = <<>>
  /\ Free(net_event_dtor, join_requests)
  /\ UNCHANGED <<ifaceVars, phase, callbacks_registered, storage_initialized,
                 webapi_tickets, net_events, mm_events, steamSide,
                 delivered, arrived, got, asked>>

steam_net_get_connection_events ==
  /\ PhpFunction /\ storage_initialized
  /\ drained' = [drained EXCEPT !["net"] = @ \o net_events]
  /\ net_events' = <<>>
  /\ Free(net_event_dtor, net_events)
  /\ UNCHANGED <<ifaceVars, phase, callbacks_registered, storage_initialized,
                 webapi_tickets, join_requests, mm_events, steamSide,
                 delivered, arrived, got, asked>>

(* FALSE without ISteamUser or for handle 0.  Steam numbers the tickets of *)
(* a session, so a later session may give a handle out again.              *)
steam_user_get_auth_ticket_for_web_api ==
  /\ PhpFunction
  /\ steamworks_resolve("ISteamUser")
  /\ \/ UNCHANGED <<requested, asked>>
     \/ /\ Found("ISteamUser")
        /\ \E t \in Tickets \ requested :
             /\ requested' = requested \cup {t}
             /\ asked' = [asked EXCEPT ![t] = count]
  /\ UNCHANGED <<phase, callbacks_registered, storage, registrations, posted,
                 dispatching, chat_buffer, count, delivered, drained, arrived, got>>

(* null while nothing is stored under the handle; else the response, which *)
(* is freed and forgotten.                                                 *)
steam_user_get_web_api_ticket_result(t) ==
  /\ PhpFunction /\ storage_initialized
  /\ webapi_tickets[t] # NoTicket
  /\ got' = [got EXCEPT ![t] = Append(@, webapi_tickets[t].id)]
  /\ Free(TicketBlocks, <<webapi_tickets[t]>>)
  /\ webapi_tickets' = [webapi_tickets EXCEPT ![t] = NoTicket]
  /\ UNCHANGED <<ifaceVars, phase, callbacks_registered, storage_initialized,
                 net_events, join_requests, mm_events, steamSide,
                 delivered, drained, arrived, asked>>

(* Any other function of the extension: it resolves its interface.         *)
other_function(f) ==
  /\ PhpFunction
  /\ steamworks_resolve(f)
  /\ UNCHANGED <<phase, callbacks_registered, storage, steamSide, history>>

-----------------------------------------------------------------------------
Init ==
  /\ IfaceInit
  /\ phase = "startup"
  /\ storage_initialized = FALSE /\ callbacks_registered = FALSE
  /\ webapi_tickets = [t \in Tickets |-> NoTicket]
  /\ net_events = <<>> /\ join_requests = <<>> /\ mm_events = <<>>
  /\ heap = [b \in Blocks |-> 0]
  /\ registrations = [k \in AllKinds |-> 0]
  /\ posted = <<>> /\ dispatching = 0 /\ count = 0
  /\ chat_buffer = [s \in Slots |-> 0]
  /\ requested = {}
  /\ delivered = [q \in Queues |-> <<>>] /\ drained = [q \in Queues |-> <<>>]
  /\ arrived = [t \in Tickets |-> 0]
  /\ got = [t \in Tickets |-> <<>>]
  /\ asked = [t \in Tickets |-> 0]

SteamPosts ==
  \/ \E kind \in Kinds : PostEvent(kind)
  \/ \E slot \in Slots : PostChatMessage(slot)
  \/ \E t \in Tickets, bytes \in {0, 1} : PostTicket(t, bytes)

SteamDispatches ==
  /\ posted # <<>>
  /\ LET e == Head(posted) IN
       \/ cb_run_webapi_ticket(e)
       \/ cb_run_net_connection_status(e)
       \/ cb_run_rich_presence_join(e)
       \/ cb_run_lobby(e)

Next ==
  \/ MINIT
  \/ MSHUTDOWN
  \/ \E client \in Clients : steam_init(client)
  \/ steam_shutdown
  \/ steam_run_callbacks
  \/ SteamDispatches
  \/ SteamPosts
  \/ steam_matchmaking_get_events
  \/ steam_friends_get_join_requests
  \/ steam_net_get_connection_events
  \/ steam_user_get_auth_ticket_for_web_api
  \/ \E t \in Tickets : steam_user_get_web_api_ticket_result(t)
  \/ \E f \in OtherInterfaces : other_function(f)

Spec == Init /\ [][Next]_vars

(* The game loop calls each of these every frame, and RunCallbacks returns *)
(* only after its last event.                                              *)
Fairness ==
  /\ WF_vars(steam_run_callbacks)
  /\ WF_vars(SteamDispatches)
  /\ WF_vars(steam_matchmaking_get_events)
  /\ WF_vars(steam_friends_get_join_requests)
  /\ WF_vars(steam_net_get_connection_events)

FairSpec == Spec /\ Fairness

-----------------------------------------------------------------------------
Ids == 1..MaxEvents
MMEntries == [id : Ids, kind : LobbyKinds, message : 0..MaxEvents]
PostedEvents ==
  [kind : Kinds \ {"WEBAPI_TICKET", "LOBBY_CHAT_MSG"}, id : Ids]
    \cup [kind : {"LOBBY_CHAT_MSG"}, id : Ids, slot : Slots]
    \cup [kind : {"WEBAPI_TICKET"}, id : Ids, ticket : Tickets, bytes : {0, 1}]

Queue(q) ==
  CASE q = "net" -> net_events [] q = "join" -> join_requests [] q = "mm" -> mm_events

TypeOK ==
  /\ IfaceTypeOK
  /\ phase \in {"startup", "running", "exited"}
  /\ storage_initialized \in BOOLEAN /\ callbacks_registered \in BOOLEAN
  /\ webapi_tickets \in [Tickets -> {NoTicket} \cup [id : Ids, bytes : {0, 1}]]
  /\ net_events \in Seq(Ids) /\ join_requests \in Seq(Ids) /\ mm_events \in Seq(MMEntries)
  /\ heap \in [Blocks -> Nat]
  /\ registrations \in [AllKinds -> Nat]
  /\ posted \in Seq(PostedEvents)
  /\ dispatching \in 0..Len(posted)
  /\ count \in 0..MaxEvents
  /\ chat_buffer \in [Slots -> 0..MaxEvents]
  /\ requested \subseteq Tickets
  /\ \A q \in {"net", "join"} : delivered[q] \in Seq(Ids) /\ drained[q] \in Seq(Ids)
  /\ delivered["mm"] \in Seq(MMEntries) /\ drained["mm"] \in Seq(MMEntries)
  /\ arrived \in [Tickets -> 0..MaxEvents]
  /\ got \in [Tickets -> Seq(Ids)]
  /\ asked \in [Tickets -> 0..MaxEvents]

(* What a script has read from a queue, followed by what is still queued,  *)
(* is what Steam dispatched for it: nothing lost, doubled or reordered,    *)
(* over any number of sessions, lobby events of all four kinds in one      *)
(* order, and every chat message with its own text although Steam reuses   *)
(* the buffer slot as soon as the callback has returned.                   *)
DeliveredInOrderOnce ==
  storage_initialized =>
    \A q \in Queues : drained[q] \o Queue(q) = delivered[q]

(* A live session has each callback object registered exactly once however *)
(* often steam_init() was called, and a closed one has none registered     *)
(* (callbacks_registered guards both directions).                          *)
RegisteredExactlyOnce ==
  /\ \A k \in AllKinds : registrations[k] = IF callbacks_registered THEN 1 ELSE 0
  /\ callbacks_registered <=> user = 1

(* A persistent block is allocated exactly while a queued event or a       *)
(* stored response uses it: no path through replacing, draining, fetching  *)
(* or module shutdown leaks a block or frees one twice, and at exit none   *)
(* is left.                                                                *)
InUse(b) ==
  \/ \E i \in DOMAIN net_events : b \in EventBlocks(net_events[i])
  \/ \E i \in DOMAIN join_requests : b \in EventBlocks(join_requests[i])
  \/ \E i \in DOMAIN mm_events : b \in LobbyBlocks(mm_events[i])
  \/ \E t \in Tickets : b \in TicketBlocks(webapi_tickets[t])

HeapBalanced ==
  /\ \A b \in Blocks : heap[b] = IF InUse(b) THEN 1 ELSE 0
  /\ phase = "exited" => \A b \in Blocks : heap[b] = 0

(* Per ticket the script sees responses in the order they arrived, each at *)
(* most once, and the latest is never lost: it is stored or was fetched.   *)
TicketsOnceAndLatest ==
  \A t \in Tickets :
    /\ \A i, j \in 1..Len(got[t]) : i < j => got[t][i] < got[t][j]
    /\ storage_initialized /\ arrived[t] # 0 =>
         IF webapi_tickets[t] # NoTicket
           THEN /\ webapi_tickets[t].id = arrived[t]
                /\ \A i \in 1..Len(got[t]) : got[t][i] < arrived[t]
           ELSE got[t] # <<>> /\ Last(got[t]) = arrived[t]

(* README.md says of steam_user_get_web_api_ticket_result(): null until    *)
(* the callback arrived.  A response left over from an earlier session is  *)
(* returned at once when Steam gives the handle out again.                 *)
NullUntilCallback ==
  [][\A t \in Tickets : got'[t] # got[t] => Last(got'[t]) > asked[t]]_vars

(* An event posted for a queue reaches the script, unless the session or   *)
(* the process ends first.                                                 *)
EventsReachScript ==
  \A n \in Ids :
    (\E i \in 1..Len(posted) : posted[i].id = n /\ posted[i].kind # "WEBAPI_TICKET")
      ~> \/ user = 0 \/ phase = "exited"
         \/ \E q \in {"net", "join"} : \E i \in 1..Len(drained[q]) : drained[q][i] = n
         \/ \E i \in 1..Len(drained["mm"]) : drained["mm"][i].id = n

(* Each of the three queues implements an event feed: sent is what was     *)
(* read plus what waits, and the feed is open while the storage exists.    *)
Sent(q) == drained[q] \o Queue(q)

LobbyFeed ==
  INSTANCE EventFeed WITH
    Events <- MMEntries, sent <- Sent("mm"), read <- Len(drained["mm"]),
    open <- storage_initialized

JoinFeed ==
  INSTANCE EventFeed WITH
    Events <- Ids, sent <- Sent("join"), read <- Len(drained["join"]),
    open <- storage_initialized

ConnectionFeed ==
  INSTANCE EventFeed WITH
    Events <- Ids, sent <- Sent("net"), read <- Len(drained["net"]),
    open <- storage_initialized

FeedSpecs == LobbyFeed!Spec /\ JoinFeed!Spec /\ ConnectionFeed!Spec

=============================================================================
