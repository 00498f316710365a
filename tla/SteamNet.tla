------------------------------ MODULE SteamNet ------------------------------
(***************************************************************************)
(* Peer-to-peer messaging (src/modules/steam_net.c).  The extension keeps  *)
(* no state here: listen sockets, connections, poll groups and messages    *)
(* live in Steam.  What it must get right is the traffic across the        *)
(* border: every message Steam hands out is copied, attributed to its      *)
(* connection and released, whichever of two functions received it, and    *)
(* every message the script sends carries the delivery it asked for.       *)
(*                                                                         *)
(* Connection events are part of SteamCallbacks.                           *)
(***************************************************************************)
EXTENDS SteamInterfaces, SequencesExt

CONSTANTS
  Conns,       (* HSteamNetConnection values, each given out once.          *)
  Groups,      (* HSteamNetPollGroup values.                                *)
  BatchLimit,  (* The 256 of the receive functions.                         *)
  Maxima,      (* The values a script passes for $max.                      *)
  MaxIn,       (* Bound: messages the peers send, on all connections.       *)
  MaxOut       (* Bound: messages the script sends, on all connections.     *)

ASSUME NetAssumption ==
  /\ IsFiniteSet(Conns)
  /\ BatchLimit \in Nat \ {0} /\ Maxima \subseteq Int
  /\ MaxIn \in Nat /\ MaxOut \in Nat

VARIABLES
  listening,   (* Steam: is a listen socket open.                           *)
  state,       (* Steam: connection -> state.                               *)
  groups,      (* Steam: the poll groups that exist.                        *)
  pollGroup,   (* Steam: connection -> its poll group or NULL.              *)
  inbox,       (* Steam: connection -> messages waiting, oldest first.      *)
  outstanding, (* Messages handed out by Steam and not released.            *)
  arrived,     (* History: connection -> messages the peer got through.     *)
  received,    (* History: connection -> messages the script got.           *)
  wire,        (* Steam: connection -> sent messages on their way.          *)
  asked,       (* History: connection -> sends that reported OK.            *)
  peerGot      (* History: connection -> messages the peer received.        *)

inVars == <<inbox, outstanding, arrived, received>>
outVars == <<wire, asked, peerGot>>
handleVars == <<listening, state, groups, pollGroup>>
vars == <<ifaceVars, handleVars, inVars, outVars>>

Sockets == "ISteamNetworkingSockets"
States == {"unused", "incoming", "connecting", "connected", "closed_by_peer", "closed"}

(* Steam knows the handle, with or without a peer behind it.               *)
Open(c) == state[c] \notin {"unused", "closed"}

-----------------------------------------------------------------------------
(* Steam and the peers.                                                    *)

PeerConnects(c) ==
  /\ listening /\ state[c] = "unused"
  /\ state' = [state EXCEPT ![c] = "incoming"]
  /\ UNCHANGED <<ifaceVars, listening, groups, pollGroup, inVars, outVars>>

ConnectionEstablished(c) ==
  /\ state[c] = "connecting"
  /\ state' = [state EXCEPT ![c] = "connected"]
  /\ UNCHANGED <<ifaceVars, listening, groups, pollGroup, inVars, outVars>>

(* What the peer got through before it left can still be received.         *)
PeerCloses(c) ==
  /\ state[c] \in {"incoming", "connecting", "connected"}
  /\ state' = [state EXCEPT ![c] = "closed_by_peer"]
  /\ UNCHANGED <<ifaceVars, listening, groups, pollGroup, inVars, outVars>>

Total(box) == MapThenSumSet(LAMBDA c : Len(box[c]), Conns)

MessageArrives(c) ==
  /\ state[c] = "connected" /\ Total(arrived) < MaxIn
  /\ LET m == [conn |-> c, num |-> Len(arrived[c]) + 1] IN
       /\ inbox' = [inbox EXCEPT ![c] = Append(@, m)]
       /\ arrived' = [arrived EXCEPT ![c] = Append(@, m)]
  /\ UNCHANGED <<ifaceVars, handleVars, outstanding, received, outVars>>

PeerReceives(c) ==
  /\ state[c] = "connected" /\ wire[c] # <<>>
  /\ peerGot' = [peerGot EXCEPT ![c] = Append(@, Head(wire[c]).num)]
  /\ wire' = [wire EXCEPT ![c] = Tail(@)]
  /\ UNCHANGED <<ifaceVars, handleVars, inVars, asked>>

(* Only a message that was not sent as reliable may be lost.               *)
MessageLost(c, i) ==
  /\ i \in DOMAIN wire[c] /\ wire[c][i].flags # "RELIABLE"
  /\ wire' = [wire EXCEPT ![c] = RemoveAt(@, i)]
  /\ UNCHANGED <<ifaceVars, handleVars, inVars, asked, peerGot>>

-----------------------------------------------------------------------------
(* Connections and listen sockets.  Every function resolves its interface  *)
(* first and returns FALSE without it; Steam may refuse a new handle.      *)
(* Relay access only makes the first connection faster.                    *)

NetCall == steamworks_resolve(Sockets)

steam_net_init_relay_network_access ==
  /\ steamworks_resolve("ISteamNetworkingUtils")
  /\ UNCHANGED <<handleVars, inVars, outVars>>

steam_net_create_listen_socket_p2p ==
  /\ NetCall
  /\ listening' \in IF Found(Sockets) THEN {listening, TRUE} ELSE {listening}
  /\ UNCHANGED <<state, groups, pollGroup, inVars, outVars>>

(* Connections that came in through the socket stay open.                  *)
steam_net_close_listen_socket ==
  /\ NetCall
  /\ listening' = (listening /\ ~Found(Sockets))
  /\ UNCHANGED <<state, groups, pollGroup, inVars, outVars>>

steam_net_connect_p2p ==
  /\ NetCall
  /\ \/ UNCHANGED state
     \/ /\ Found(Sockets)
        /\ \E c \in Conns :
             state[c] = "unused" /\ state' = [state EXCEPT ![c] = "connecting"]
  /\ UNCHANGED <<listening, groups, pollGroup, inVars, outVars>>

(* The EResult is not OK when the peer is gone or was accepted before.     *)
steam_net_accept_connection(c) ==
  /\ NetCall
  /\ state' = IF Found(Sockets) /\ state[c] = "incoming"
                THEN [state EXCEPT ![c] = "connected"] ELSE state
  /\ UNCHANGED <<listening, groups, pollGroup, inVars, outVars>>

(* What the connection had waiting in either direction is dropped; whether *)
(* Steam still delivers what was sent is up to `linger` and not modelled.  *)
steam_net_close_connection(c) ==
  /\ NetCall
  /\ IF Found(Sockets) /\ Open(c)
       THEN /\ state' = [state EXCEPT ![c] = "closed"]
            /\ pollGroup' = [pollGroup EXCEPT ![c] = NULL]
            /\ inbox' = [inbox EXCEPT ![c] = <<>>]
            /\ wire' = [wire EXCEPT ![c] = <<>>]
       ELSE UNCHANGED <<state, pollGroup, inbox, wire>>
  /\ UNCHANGED <<listening, groups, outstanding, arrived, received, asked, peerGot>>

(* Reads Steam's figures; FALSE when Steam does not know the handle.       *)
steam_net_get_connection_status ==
  /\ NetCall
  /\ UNCHANGED <<handleVars, inVars, outVars>>

-----------------------------------------------------------------------------
(* Sending.                                                                *)

(* A slip: the argument not passed on.                                     *)
SendFlags_Default(reliable) == "UNRELIABLE"

SendFlags(reliable) == IF reliable THEN "RELIABLE" ELSE "UNRELIABLE"

steam_net_send_message(c, reliable) ==
  /\ Total(asked) < MaxOut
  /\ NetCall
  /\ \/ UNCHANGED <<wire, asked>>
     \/ /\ Found(Sockets) /\ state[c] = "connected"
        /\ LET num == Len(asked[c]) + 1 IN
             /\ wire' = [wire EXCEPT ![c] =
                           Append(@, [num |-> num, flags |-> SendFlags(reliable)])]
             /\ asked' = [asked EXCEPT ![c] = Append(@, reliable)]
  /\ UNCHANGED <<handleVars, inVars, peerGot>>

-----------------------------------------------------------------------------
(* Receiving.                                                              *)

(* A slip: only the upper end of the range enforced.                       *)
Clamped_UpperOnly(max) == IF max > BatchLimit THEN BatchLimit ELSE max

Clamped(max) ==
  IF max < 1 THEN 1 ELSE IF max > BatchLimit THEN BatchLimit ELSE max

(* Those of the messages that belong to one connection.                    *)
From(seq, c) == SelectSeq(seq, LAMBDA m : m.conn = c)

(* The batches Steam may hand out for a set of connections: as many        *)
(* messages as there are, up to max, and of each connection the oldest, in *)
(* order.  None (a count of 0 or -1) for an unknown handle or a max below  *)
(* 1.                                                                      *)
Batches(cs, max) ==
  LET waiting == UNION {ToSet(inbox[c]) : c \in cs}
      n == IF max < 1 THEN 0
           ELSE IF Cardinality(waiting) < max THEN Cardinality(waiting) ELSE max
  IN {b \in [1..n -> waiting] :
        \A c \in Conns :
          From(b, c) \in Prefixes(IF c \in cs THEN inbox[c] ELSE <<>>)}

(* A slip: the header of the message read once, in front of the loop.      *)
net_messages_to_array_OneHeader(batch) ==
  [ entries |-> [i \in DOMAIN batch |-> [batch[i] EXCEPT !.conn = batch[1].conn]],
    released |-> Len(batch) ]

(* A slip: the loop stops one message early.                               *)
net_messages_to_array_LastDropped(batch) ==
  IF batch = <<>>
    THEN [entries |-> <<>>, released |-> 0]
    ELSE [entries |-> Front(batch), released |-> Len(batch) - 1]

(* One entry per message, tagged with its own connection, and the number   *)
(* of messages released.                                                   *)
net_messages_to_array(batch) ==
  [ entries |-> [i \in DOMAIN batch |-> [conn |-> batch[i].conn, num |-> batch[i].num]],
    released |-> Len(batch) ]

Receive(cs, max) ==
  \E batch \in Batches(cs, max) :
    LET result == net_messages_to_array(batch) IN
      /\ inbox' = [c \in Conns |->
                     SubSeq(inbox[c], Len(From(batch, c)) + 1, Len(inbox[c]))]
      /\ received' = [c \in Conns |-> received[c] \o From(result.entries, c)]
      /\ outstanding' = outstanding + Len(batch) - result.released

steam_net_receive_messages(c, max) ==
  /\ NetCall
  /\ IF Found(Sockets)
       THEN Receive({c}, Clamped(max))
       ELSE UNCHANGED <<inbox, received, outstanding>>
  /\ UNCHANGED <<handleVars, arrived, outVars>>

steam_net_receive_messages_on_poll_group(g, max) ==
  /\ NetCall
  /\ IF Found(Sockets)
       THEN Receive({c \in Conns : pollGroup[c] = g}, Clamped(max))
       ELSE UNCHANGED <<inbox, received, outstanding>>
  /\ UNCHANGED <<handleVars, arrived, outVars>>

-----------------------------------------------------------------------------
(* Poll groups.                                                            *)

steam_net_create_poll_group(g) ==
  /\ NetCall
  /\ g \notin groups
  /\ groups' \in IF Found(Sockets) THEN {groups, groups \cup {g}} ELSE {groups}
  /\ UNCHANGED <<listening, state, pollGroup, inVars, outVars>>

(* Connections in the group are removed from it, not closed.               *)
steam_net_destroy_poll_group(g) ==
  /\ NetCall
  /\ IF Found(Sockets)
       THEN /\ groups' = groups \ {g}
            /\ pollGroup' = [c \in Conns |-> IF pollGroup[c] = g THEN NULL ELSE pollGroup[c]]
       ELSE UNCHANGED <<groups, pollGroup>>
  /\ UNCHANGED <<listening, state, inVars, outVars>>

(* Group 0 (NULL) takes the connection out of its group.                   *)
steam_net_set_connection_poll_group(c, g) ==
  /\ NetCall
  /\ pollGroup' = IF Found(Sockets) /\ Open(c) /\ g \in groups \cup {NULL}
                    THEN [pollGroup EXCEPT ![c] = g] ELSE pollGroup
  /\ UNCHANGED <<listening, state, groups, inVars, outVars>>

-----------------------------------------------------------------------------
(* The session.  At its end Steam closes everything in it.                 *)

steam_init(client) ==
  /\ SteamAPI_InitFlat(client)
  /\ UNCHANGED <<handleVars, inVars, outVars>>

steam_shutdown ==
  /\ SteamAPI_Shutdown
  /\ listening' = FALSE /\ groups' = {}
  /\ state' = [c \in Conns |-> IF Open(c) THEN "closed" ELSE state[c]]
  /\ pollGroup' = [c \in Conns |-> NULL]
  /\ inbox' = [c \in Conns |-> <<>>] /\ wire' = [c \in Conns |-> <<>>]
  /\ UNCHANGED <<outstanding, arrived, received, asked, peerGot>>

Nothing == [c \in Conns |-> <<>>]

Init ==
  /\ IfaceInit
  /\ listening = FALSE /\ groups = {}
  /\ state = [c \in Conns |-> "unused"]
  /\ pollGroup = [c \in Conns |-> NULL]
  /\ inbox = Nothing /\ arrived = Nothing /\ received = Nothing
  /\ outstanding = 0
  /\ wire = Nothing /\ asked = Nothing /\ peerGot = Nothing

PeersAct(c) ==
  \/ PeerConnects(c)
  \/ ConnectionEstablished(c)
  \/ PeerCloses(c)
  \/ MessageArrives(c)
  \/ PeerReceives(c)
  \/ \E i \in 1..MaxOut : MessageLost(c, i)

Next ==
  \/ \E client \in Clients : steam_init(client)
  \/ steam_shutdown
  \/ steam_net_init_relay_network_access
  \/ steam_net_create_listen_socket_p2p
  \/ steam_net_close_listen_socket
  \/ steam_net_connect_p2p
  \/ steam_net_get_connection_status
  \/ \E g \in Groups :
       \/ steam_net_create_poll_group(g)
       \/ steam_net_destroy_poll_group(g)
       \/ \E max \in Maxima : steam_net_receive_messages_on_poll_group(g, max)
  \/ \E c \in Conns :
       \/ PeersAct(c)
       \/ steam_net_accept_connection(c)
       \/ steam_net_close_connection(c)
       \/ \E reliable \in BOOLEAN : steam_net_send_message(c, reliable)
       \/ \E max \in Maxima : steam_net_receive_messages(c, max)
       \/ \E g \in Groups \cup {NULL} : steam_net_set_connection_poll_group(c, g)

Spec == Init /\ [][Next]_vars

(* The game reads every connection each frame, and passes the worst $max.  *)
LeastMax == CHOOSE max \in Maxima : \A other \in Maxima : max <= other

FairSpec == Spec /\ \A c \in Conns : WF_vars(steam_net_receive_messages(c, LeastMax))

-----------------------------------------------------------------------------
Messages == [conn : Conns, num : Nat \ {0}]

TypeOK ==
  /\ IfaceTypeOK
  /\ listening \in BOOLEAN
  /\ state \in [Conns -> States]
  /\ groups \subseteq Groups /\ pollGroup \in [Conns -> groups \cup {NULL}]
  /\ \A box \in {inbox, arrived, received} : box \in [Conns -> Seq(Messages)]
  /\ outstanding \in Nat
  /\ wire \in [Conns -> Seq([num : Nat \ {0}, flags : {"RELIABLE", "UNRELIABLE"}])]
  /\ asked \in [Conns -> Seq(BOOLEAN)]
  /\ peerGot \in [Conns -> Seq(Nat \ {0})]

(* However a script mixes the two receive functions, groups and limits, it *)
(* gets the messages of a connection under that connection, in the order   *)
(* of arrival, none twice and none skipped, with what waits being the      *)
(* rest (net_messages_to_array and the two functions that share it).       *)
ReceivedInOrderOnce ==
  \A c \in Conns :
    /\ IsPrefix(received[c], arrived[c])
    /\ Open(c) => received[c] \o inbox[c] = arrived[c]

(* The types hold, and between two PHP functions no message of Steam's is  *)
(* left unreleased, and none was released twice (net_messages_to_array).   *)
NothingHeld == TypeOK /\ outstanding = 0

(* On a connection that is up, what the script sent as reliable and was    *)
(* told OK for has reached the peer in order, or still will: losing any of *)
(* it means the wrong send flag was passed (steam_net_send_message).       *)
ReliableArrives ==
  \A c \in Conns :
    state[c] = "connected" =>
      LET reached == peerGot[c] \o [i \in DOMAIN wire[c] |-> wire[c][i].num]
          reliable == {num \in DOMAIN asked[c] : asked[c][num]}
      IN /\ reliable \subseteq ToSet(reached)
         /\ \A i, j \in DOMAIN reached :
              i < j /\ {reached[i], reached[j]} \subseteq reliable => reached[i] < reached[j]

(* A script that goes on reading gets every message that arrived, even     *)
(* with a $max of 0 or below, unless the connection or session ends        *)
(* first: the clamp makes every call take at least one message.            *)
MessagesReachScript ==
  \A c \in Conns, n \in 1..MaxIn :
    Len(arrived[c]) >= n ~> Len(received[c]) >= n \/ ~Open(c)

=============================================================================
