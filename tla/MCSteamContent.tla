--------------------------- MODULE MCSteamContent ---------------------------
(* int32 goes up to 2 and uint32 up to 5, so that the lengths reach past   *)
(* both: 3 and 6 are the first value beyond, 7 is a uint32 of 1.  The      *)
(* shared file has 2 bytes, read at once or in two pieces.  PHP integers   *)
(* are 5 bits wide and enumerators 3: the handle 21 is negative as a PHP   *)
(* integer and agrees with the handle 5 in all bits but the highest; the   *)
(* visibility 8 is cut to 0.  Interfaces are missing outside a session     *)
(* only.                                                                   *)
EXTENDS SteamContent, TLC

CONSTANTS i1, i2

MCClients ==
  {{"STEAMREMOTESTORAGE_INTERFACE_VERSION016", "STEAMUGC_INTERFACE_VERSION021"}}
MCSharedFiles == (1 :> 2)
MCLengths == {-1, 0, 1, 2, 3, 6, 7}

MCItems == {i1, i2}
MCUpdateHandles == {5, 21}
MCVisibilities == {3, 8}
MCTexts == {<<"a">>, <<"a", "b">>}
MCTagArrays == {<<>>, <<NoString, <<"a">>>>}

=============================================================================
