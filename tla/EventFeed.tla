------------------------------ MODULE EventFeed ------------------------------
(***************************************************************************)
(* What a drained event queue promises a game: while the feed is open,     *)
(* events arrive one at a time, and a reader who drains it takes every     *)
(* event it has not seen yet, in the order of arrival.  Closing the feed   *)
(* discards what nobody read.                                              *)
(***************************************************************************)
EXTENDS Naturals, Sequences

CONSTANT Events

VARIABLES
  sent,    (* Every event of the feed so far, in order of arrival. *)
  read,    (* How many of them the reader has taken.               *)
  open

Init == sent = <<>> /\ read = 0 /\ open = FALSE

Open == ~open /\ sent = <<>> /\ open' = TRUE /\ UNCHANGED <<sent, read>>

Deliver ==
  /\ open
  /\ \E e \in Events : sent' = Append(sent, e)
  /\ UNCHANGED <<read, open>>

Drain == open /\ read' = Len(sent) /\ UNCHANGED <<sent, open>>

Close ==
  /\ open /\ open' = FALSE
  /\ sent' = SubSeq(sent, 1, read)
  /\ UNCHANGED read

Next == Open \/ Deliver \/ Drain \/ Close

Spec == Init /\ [][Next]_<<sent, read, open>>

=============================================================================
