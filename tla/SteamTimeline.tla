---------------------------- MODULE SteamTimeline ----------------------------
(***************************************************************************)
(* Events on the recording timeline (src/modules/steam_timeline.c).  Most  *)
(* functions return TRUE whatever Steam does with the call, so nothing but *)
(* the handle ties an update, an end or a removal to the event a script    *)
(* means.  A handle is an unsigned 64-bit number, which PHP shows as a     *)
(* signed one.                                                             *)
(*                                                                         *)
(* Several events may be open at once.  The two asynchronous queries are   *)
(* in SteamCallResults.  Widths are reduced: a uint32 has half the bits of *)
(* a handle.                                                               *)
(***************************************************************************)
EXTENDS SteamInterfaces

CONSTANTS
  EventHandles, (* The handles Steam may issue.                             *)
  Titles,       (* Titles, with their descriptions and icons.               *)
  Priorities,   (* The integers a script passes as icon priority.           *)
  Durations,    (* What it passes as a duration.                            *)
  HalfWidth     (* 2^32: values of a uint32; its square: of a handle.       *)

Width == HalfWidth * HalfWidth

(* Assumed of the constants.                                               *)
TimelineAssumption ==
  /\ HalfWidth \in Nat /\ HalfWidth >= 2 /\ HalfWidth % 2 = 0
  /\ EventHandles \subseteq 1..(Width - 1)
  /\ Priorities \subseteq Int
  /\ Durations \subseteq Nat

VARIABLES
  events,      (* Steam: handle -> event of the session, or NoEvent.        *)
  noted        (* History: PHP handle -> the event the script means.        *)

timelineVars == <<events, noted>>
vars == <<ifaceVars, timelineVars>>

Timeline == "ISteamTimeline"
NoEvent == [shape |-> "none"]

(* The casts of a handle to zend_long and back.                            *)
ToLong(h) == IF h >= Width \div 2 THEN h - Width ELSE h

(* A slip: the handle passed on as a uint32.                               *)
ToEventHandle_Uint32(n) == n % HalfWidth

ToEventHandle(n) == n % Width

icon_priority(n) == n % HalfWidth

PhpHandles == {ToLong(h) : h \in EventHandles}

Event(shape, title, priority, duration) ==
  [shape |-> shape, title |-> title, priority |-> priority, duration |-> duration]

TimelineCall == steamworks_resolve(Timeline)

-----------------------------------------------------------------------------
(* Adding.  Steam may refuse, with the handle 0, which the script gets.    *)

Adds(shape, title, priority, duration) ==
  /\ TimelineCall
  /\ \/ UNCHANGED timelineVars
     \/ /\ Found(Timeline)
        /\ \E h \in EventHandles :
             /\ events[h] = NoEvent
             /\ events' = [events EXCEPT ![h] =
                             Event(shape, title, icon_priority(priority), duration)]
             /\ noted' = [noted EXCEPT ![ToLong(h)] = Event(shape, title, priority, duration)]

steam_timeline_add_instantaneous_event(title, priority) ==
  Adds("instant", title, priority, 0)

steam_timeline_add_range_event(title, priority, duration) ==
  Adds("range", title, priority, duration)

steam_timeline_start_range_event(title, priority) ==
  Adds("open", title, priority, 0)

-----------------------------------------------------------------------------
(* Changing.  The script means the event it got the PHP handle for; Steam  *)
(* ignores a handle of no event, or of one that cannot be changed so.      *)
Changes(n, Shapes, inSteam, asMeant) ==
  /\ TimelineCall
  /\ IF Found(Timeline)
       THEN LET h == ToEventHandle(n) IN
            /\ events' = IF h \in EventHandles /\ events[h].shape \in Shapes
                           THEN [events EXCEPT ![h] = inSteam] ELSE events
            /\ noted' = IF noted[n].shape \in Shapes
                          THEN [noted EXCEPT ![n] = asMeant] ELSE noted
       ELSE UNCHANGED timelineVars

steam_timeline_update_range_event(n, title, priority) ==
  LET Updated(event, p) == [event EXCEPT !.title = title, !.priority = p]
  IN Changes(n, {"open"}, Updated(events[ToEventHandle(n)], icon_priority(priority)),
             Updated(noted[n], priority))

(* The offset in time at which it ends is not modelled.                    *)
steam_timeline_end_range_event(n) ==
  LET Ended(event) == [event EXCEPT !.shape = "ended"]
  IN Changes(n, {"open"}, Ended(events[ToEventHandle(n)]), Ended(noted[n]))

steam_timeline_remove_event(n) ==
  Changes(n, {"instant", "range", "open", "ended"}, NoEvent, NoEvent)

(* Mode, tooltip, game phases and the overlay change no event.             *)
steam_timeline_other ==
  TimelineCall /\ UNCHANGED timelineVars

-----------------------------------------------------------------------------
steam_init(client) ==
  /\ SteamAPI_InitFlat(client)
  /\ UNCHANGED timelineVars

(* Handles of a session mean nothing in the next, which may reuse them.    *)
steam_shutdown ==
  /\ SteamAPI_Shutdown
  /\ events' = [h \in EventHandles |-> NoEvent]
  /\ noted' = [n \in PhpHandles |-> NoEvent]

TimelineInit ==
  /\ events = [h \in EventHandles |-> NoEvent]
  /\ noted = [n \in PhpHandles |-> NoEvent]

Init == IfaceInit /\ TimelineInit

Next ==
  \/ \E client \in Clients : steam_init(client)
  \/ steam_shutdown
  \/ \E title \in Titles, priority \in Priorities :
       \/ steam_timeline_add_instantaneous_event(title, priority)
       \/ \E duration \in Durations :
            steam_timeline_add_range_event(title, priority, duration)
       \/ steam_timeline_start_range_event(title, priority)
       \/ \E n \in PhpHandles : steam_timeline_update_range_event(n, title, priority)
  \/ \E n \in PhpHandles :
       \/ steam_timeline_end_range_event(n)
       \/ steam_timeline_remove_event(n)
  \/ steam_timeline_other

Spec == Init /\ [][Next]_vars

-----------------------------------------------------------------------------
TimelineTypeOK ==
  /\ IfaceTypeOK
  /\ \A h \in EventHandles :
       events[h] # NoEvent =>
         /\ events[h].shape \in {"instant", "range", "open", "ended"}
         /\ events[h].priority \in 0..(HalfWidth - 1)

(* With several events on the timeline, started, updated, ended and        *)
(* removed in any order and also by handles above 2^63, each is as the     *)
(* script that holds its handle means it (up to the 32 bits of a           *)
(* priority), and no call has touched another.                             *)
TimelineAsMeant ==
  \A h \in EventHandles :
    LET meaning == noted[ToLong(h)] IN
    events[h] = IF meaning = NoEvent THEN NoEvent
                ELSE [meaning EXCEPT !.priority = icon_priority(@)]

=============================================================================
