--------------------------- MODULE SteamExtension ---------------------------
(***************************************************************************)
(* The extension as one process: the call-result registry and the callback *)
(* subsystem share the module's life (php_steamworks.c), the Steam session *)
(* (steam_init.c) and the interface resolution with its notices.           *)
(*                                                                         *)
(* Each of the life-cycle operations is one PHP or Zend call that acts on  *)
(* both parts; every other operation belongs to one of them and leaves the *)
(* other's state alone.  The properties say that the whole still behaves   *)
(* as each part was specified to, so what is checked and proved of a part  *)
(* holds of the process.                                                   *)
(***************************************************************************)
EXTENDS SteamInterfaces, FiniteSets

CONSTANTS Handles, Kinds, Tickets, Slots, MaxEvents, OtherInterfaces

VARIABLES
  phase,
  steamworks_registry_initialized, steamworks_pending_calls, steam, issued, answer,
  storage_initialized, callbacks_registered, webapi_tickets, net_events,
  join_requests, mm_events, heap, registrations, posted, dispatching,
  chat_buffer, requested, count, delivered, drained, arrived, got, asked

Async == INSTANCE SteamCallResults
Callback == INSTANCE SteamCallbacks

(* What the functions of each part resolve: seen from the other part, a    *)
(* function that resolves one of these and does nothing else.              *)
AsyncInterfaces ==
  {"ISteamUserStats", "ISteamRemoteStorage", "ISteamTimeline", "ISteamUGC",
   "ISteamMatchmaking", "ISteamUtils"}
CallbackInterfaces == {"ISteamUser", "ISteamMatchmaking"}

ASSUME ExtensionAssumption ==
  /\ Kinds \subseteq Callback!AllKinds
  /\ MaxEvents \in Nat
  /\ Slots # {} /\ IsFiniteSet(Tickets)
  /\ AsyncInterfaces \cup CallbackInterfaces \subseteq OtherInterfaces
  /\ OtherInterfaces \subseteq Interfaces

asyncVars ==
  <<steamworks_registry_initialized, steamworks_pending_calls, steam, issued, answer>>
callbackVars ==
  <<storage_initialized, callbacks_registered, webapi_tickets, net_events, join_requests,
    mm_events, heap, registrations, posted, dispatching, chat_buffer, requested, count,
    delivered, drained, arrived, got, asked>>

vars == <<ifaceVars, phase, asyncVars, callbackVars>>

Init == Async!Init /\ Callback!Init

(* PHP_MINIT_FUNCTION: both storages are set up before any script runs.    *)
MINIT == Async!MINIT /\ Callback!MINIT

(* A slip: the registry of asynchronous calls not destroyed.               *)
MSHUTDOWN_CallbacksOnly ==
  Callback!MSHUTDOWN /\ UNCHANGED asyncVars

(* PHP_MSHUTDOWN_FUNCTION: neither unregisters the callbacks nor shuts     *)
(* Steam down if the script has not.                                       *)
MSHUTDOWN == Async!MSHUTDOWN /\ Callback!MSHUTDOWN

steam_init(client) == Async!steam_init(client) /\ Callback!steam_init(client)

(* A slip: steam_shutdown() without steamworks_callbacks_unregister().     *)
steam_shutdown_NoUnregister ==
  /\ dispatching = 0
  /\ Async!steam_shutdown
  /\ posted' = <<>>
  /\ UNCHANGED <<storage_initialized, callbacks_registered, webapi_tickets, net_events,
                 join_requests, mm_events, heap, registrations, dispatching, chat_buffer,
                 requested, count, delivered, drained, arrived, got, asked>>

(* Callbacks are unregistered while Steam is still up.  Pending calls and  *)
(* stored events survive into the next session.                            *)
steam_shutdown == Async!steam_shutdown /\ Callback!steam_shutdown

(* PHP functions of the two parts; none runs during RunCallbacks.          *)
AsyncStep ==
  /\ dispatching = 0
  /\ \/ Async!AsyncFunction
     \/ \E h \in Handles : Async!steam_get_call_result(h)
  /\ UNCHANGED callbackVars

CallbackFunction ==
  /\ \/ Callback!steam_matchmaking_get_events
     \/ Callback!steam_friends_get_join_requests
     \/ Callback!steam_net_get_connection_events
     \/ Callback!steam_user_get_auth_ticket_for_web_api
     \/ \E t \in Tickets : Callback!steam_user_get_web_api_ticket_result(t)
     \/ Callback!steam_run_callbacks
     \/ Callback!SteamDispatches
  /\ UNCHANGED asyncVars

SteamStep ==
  \/ (\E h \in Handles : Async!SteamCompletes(h)) /\ UNCHANGED callbackVars
  \/ Callback!SteamPosts /\ UNCHANGED asyncVars

Next ==
  \/ MINIT
  \/ MSHUTDOWN
  \/ \E client \in Clients : steam_init(client)
  \/ steam_shutdown
  \/ AsyncStep
  \/ CallbackFunction
  \/ SteamStep

Spec == Init /\ [][Next]_vars

-----------------------------------------------------------------------------
(* The process implements the specification of the call-result registry,   *)
(* the other part being functions that resolve other interfaces.           *)
AsyncSpec == Async!Spec

(* The process implements the specification of the callback subsystem.     *)
CallbackSpec == Callback!Spec

(* The two halves of the extension never disagree about their life: the    *)
(* registry and the event storage are both usable or both not, callbacks   *)
(* are registered exactly while Steam is up, and a process that has ended  *)
(* holds no call and no persistent block.                                  *)
OneLife ==
  /\ steamworks_registry_initialized <=> storage_initialized
  /\ storage_initialized <=> phase = "running"
  /\ callbacks_registered <=> user = 1
  /\ phase = "exited" =>
       steamworks_pending_calls = Async!NoCalls /\ \A b \in Callback!Blocks : heap[b] = 0

=============================================================================
