------------------------------ MODULE SteamAuth ------------------------------
(***************************************************************************)
(* Session tickets (src/modules/steam_user.c).  A game asks Steam for a    *)
(* ticket and sends its bytes to a peer, whose Steam recognises them; and  *)
(* it passes the bytes a peer sent to its own Steam, which opens a session *)
(* with that peer or says why not, with 0 for success.  Nothing but the    *)
(* handle of a ticket and the SteamID of a peer says what to cancel or end *)
(* later.                                                                  *)
(*                                                                         *)
(* A ticket is binary: it is given by a tag, its length and the position   *)
(* of its first NUL byte.  Widths are reduced: a uint32 has half the bits  *)
(* of a SteamID.  GetAuthSessionTicketResponse_t, which says that Steam's  *)
(* servers know a ticket, is not dispatched to a script; here they know it *)
(* at once.  Tickets for the web are in SteamCallbacks.                    *)
(***************************************************************************)
EXTENDS SteamInterfaces

CONSTANTS
  Handles,     (* The HAuthTickets Steam may issue.                         *)
  Peers,       (* SteamIDs of the others, as Steam has them.                *)
  Tickets,     (* The bytes a ticket may have.                              *)
  TicketMax,   (* 1024: the bytes of the buffer for a ticket.               *)
  IdWidth      (* 2^32; its square is the number of SteamIDs.               *)

(* Assumed of the constants.                                               *)
AuthAssumption ==
  /\ IdWidth \in Nat /\ IdWidth >= 2 /\ IdWidth % 2 = 0 /\ TicketMax \in Nat
  /\ Handles \subseteq 1..(IdWidth - 1)
  /\ Peers \subseteq 1..(IdWidth * IdWidth - 1)
  /\ \A t \in Tickets : t \in [tag : STRING, len : Nat \ {0}, c : Nat] /\ t.c <= t.len

VARIABLES
  issued,      (* Steam: handle -> active ticket, or NoTicket.              *)
  sessions,    (* Steam: the peers there is a session with.                 *)
  offered_by,  (* Steam's servers: peer -> its active ticket for us.        *)
  sent,        (* The network: peer -> the bytes the script has from it.    *)
  held,        (* History: PHP handle -> ticket the script has.          *)
  admitted,    (* History: peers the script let in, as PHP integers.        *)
  answer       (* History: what the last steam_user_begin_auth_session was  *)
               (* asked and answered.                                       *)

authVars == <<issued, sessions, offered_by, sent, held, admitted, answer>>
vars == <<ifaceVars, authVars>>

User == "ISteamUser"
NoTicket == [tag |-> "none", len |-> 0, c |-> 0]
Unnamed == [tag |-> "without bytes", len |-> 0, c |-> 0]
NoAnswer == [genuine |-> FALSE, code |-> -1]

(* Steam's EBeginAuthSessionResult, as far as it is told apart.            *)
OK == 0
INVALID_TICKET == 1
DUPLICATE_REQUEST == 2

SteamIdToLong(id) == IF id >= (IdWidth * IdWidth) \div 2 THEN id - IdWidth * IdWidth ELSE id

ToSteamId(n) == n % (IdWidth * IdWidth)
ToHAuthTicket(n) == n % IdWidth

(* The first n of the bytes.                                               *)
First(ticket, n) ==
  [tag |-> ticket.tag, len |-> IF ticket.len < n THEN ticket.len ELSE n,
   c |-> IF ticket.c < n THEN ticket.c ELSE n]

PhpIds == {SteamIdToLong(p) : p \in Peers}
UserCall == steamworks_resolve(User)

-----------------------------------------------------------------------------
(* Our tickets.                                                            *)

(* The bytes handed to the script.                                         *)
ticket_bytes(ticket) == First(ticket, ticket.len)

(* Steam refuses, fills in a ticket that fits, or has no bytes for it.  In *)
(* the last case the script is not told of the handle.                     *)
steam_user_get_auth_session_ticket ==
  /\ UserCall
  /\ \/ UNCHANGED <<issued, held>>
     \/ /\ Found(User)
        /\ \E h \in Handles, ticket \in Tickets \cup {Unnamed} :
             /\ issued[h] = NoTicket /\ ticket.len <= TicketMax
             /\ issued' = [issued EXCEPT ![h] = ticket]
             /\ held' = IF ticket.len = 0 THEN held
                          ELSE [held EXCEPT ![h] = ticket_bytes(ticket)]
  /\ answer' = NoAnswer
  /\ UNCHANGED <<sessions, offered_by, sent, admitted>>

steam_user_cancel_auth_ticket(n) ==
  /\ UserCall
  /\ IF Found(User)
       THEN /\ issued' = [h \in Handles |->
                            IF h = ToHAuthTicket(n) THEN NoTicket ELSE issued[h]]
            /\ held' = [held EXCEPT ![n] = NoTicket]
       ELSE UNCHANGED <<issued, held>>
  /\ answer' = NoAnswer
  /\ UNCHANGED <<sessions, offered_by, sent, admitted>>

-----------------------------------------------------------------------------
(* The peers, and the network between.                                     *)

PeerSends(p, ticket) ==
  /\ offered_by[p] = NoTicket /\ ticket.len <= TicketMax
  /\ offered_by' = [offered_by EXCEPT ![p] = ticket]
  /\ sent' = [sent EXCEPT ![p] = ticket]
  /\ answer' = NoAnswer
  /\ UNCHANGED <<ifaceVars, issued, held, sessions, admitted>>

PeerCancels(p) ==
  /\ offered_by[p] # NoTicket
  /\ offered_by' = [offered_by EXCEPT ![p] = NoTicket]
  /\ answer' = NoAnswer
  /\ UNCHANGED <<ifaceVars, issued, held, sessions, sent, admitted>>

-----------------------------------------------------------------------------
(* Sessions with peers.                                                    *)

(* Steam's answer to the bytes and the SteamID it is passed.               *)
BeginAuthSession(bytes, id) ==
  IF id \in sessions THEN DUPLICATE_REQUEST
  ELSE IF id \in Peers /\ bytes # NoTicket /\ offered_by[id] = bytes THEN OK
  ELSE INVALID_TICKET

(* A slip: the length of the C string for that of the PHP string.          *)
ticket_length_CString(ticket) == ticket.c

ticket_length(ticket) == ticket.len

(* A script lets the peer in on 0, and on nothing else.                    *)
steam_user_begin_auth_session(p) ==
  LET steam_id == SteamIdToLong(p)
      code == BeginAuthSession(First(sent[p], ticket_length(sent[p])), ToSteamId(steam_id))
  IN
  /\ sent[p] # NoTicket
  /\ UserCall
  /\ IF Found(User)
       THEN /\ sessions' = IF code = OK THEN sessions \cup {ToSteamId(steam_id)} ELSE sessions
            /\ admitted' = IF code = OK THEN admitted \cup {steam_id} ELSE admitted
            /\ answer' = [code |-> code, genuine |->
                            sent[p] = offered_by[p] /\ steam_id \notin admitted]
       ELSE UNCHANGED <<sessions, admitted>> /\ answer' = NoAnswer
  /\ UNCHANGED <<issued, held, offered_by, sent>>

(* Steam ignores an id without a session.                                  *)
steam_user_end_auth_session(steam_id) ==
  /\ UserCall
  /\ IF Found(User)
       THEN /\ sessions' = sessions \ {ToSteamId(steam_id)}
            /\ admitted' = admitted \ {steam_id}
       ELSE UNCHANGED <<sessions, admitted>>
  /\ answer' = NoAnswer
  /\ UNCHANGED <<issued, held, offered_by, sent>>

(* steam_user_get_steam_id, _is_logged_on, _get_player_steam_level.        *)
user_read == UserCall /\ UNCHANGED authVars

-----------------------------------------------------------------------------
steam_init(client) ==
  /\ SteamAPI_InitFlat(client)
  /\ UNCHANGED authVars

(* Our tickets and sessions end with ours; a peer's ticket does not.       *)
steam_shutdown ==
  /\ SteamAPI_Shutdown
  /\ issued' = [h \in Handles |-> NoTicket] /\ held' = [h \in Handles |-> NoTicket]
  /\ sessions' = {} /\ admitted' = {}
  /\ answer' = NoAnswer
  /\ UNCHANGED <<offered_by, sent>>

AuthInit ==
  /\ issued = [h \in Handles |-> NoTicket] /\ held = [h \in Handles |-> NoTicket]
  /\ sessions = {} /\ admitted = {}
  /\ offered_by = [p \in Peers |-> NoTicket] /\ sent = [p \in Peers |-> NoTicket]
  /\ answer = NoAnswer

Init == IfaceInit /\ AuthInit

Next ==
  \/ \E client \in Clients : steam_init(client)
  \/ steam_shutdown \/ user_read
  \/ steam_user_get_auth_session_ticket
  \/ \E n \in Handles : steam_user_cancel_auth_ticket(n)
  \/ \E p \in Peers :
       \/ PeerCancels(p)
       \/ \E ticket \in Tickets : PeerSends(p, ticket)
       \/ steam_user_begin_auth_session(p)
  \/ \E n \in PhpIds : steam_user_end_auth_session(n)

Spec == Init /\ [][Next]_vars

-----------------------------------------------------------------------------
AuthTypeOK ==
  /\ IfaceTypeOK
  /\ \A table \in {issued, held} : table \in [Handles -> Tickets \cup {NoTicket, Unnamed}]
  /\ \A table \in {offered_by, sent} : table \in [Peers -> Tickets \cup {NoTicket}]
  /\ sessions \subseteq Peers /\ admitted \subseteq PhpIds
  /\ answer.code \in {-1, OK, INVALID_TICKET, DUPLICATE_REQUEST}

(* A script can cancel each ticket whose bytes are about, by the handle it *)
(* has, and while it does not, a peer that gets the bytes finds them to be *)
(* those Steam issued (steam_user_get_auth_session_ticket and              *)
(* steam_user_cancel_auth_ticket).                                         *)
TicketsInHand ==
  \A h \in Handles : issued[h] # Unnamed => issued[h] = held[h]

(* However peers offer, cancel and offer again, Steam has a session with   *)
(* exactly the peers the script let in and has not turned out, so a peer   *)
(* is never counted twice or left behind; and a peer is let in if and only *)
(* if its bytes are those of its present ticket, NUL bytes included        *)
(* (steam_user_begin_auth_session, steam_user_end_auth_session).           *)
SessionsAsAdmitted ==
  /\ {SteamIdToLong(id) : id \in sessions} = admitted
  /\ (answer.code = OK) = answer.genuine

=============================================================================
