------------------------ MODULE SteamSession_proofs ------------------------
(***************************************************************************)
(* Proofs about SteamSession, for every set of clients: whatever versions  *)
(* the clients of successive sessions offer.                               *)
(***************************************************************************)
EXTENDS SteamSession, SteamInterfaces_proofs

-----------------------------------------------------------------------------
(* Every listed version has the vtable layout of SDK 1.65.                 *)
LEMMA TablesKeepLayout ==
  \A f \in Interfaces : \A i \in DOMAIN versions[f] : versions[f][i] \in SameLayout[f]
<1>1. ASSUME NEW f \in Interfaces, f # "ISteamNetworkingSockets", NEW i \in DOMAIN versions[f]
      PROVE  i = 1
  BY <1>1 DEF Interfaces, versions, user_versions, friends_versions, stats_versions,
       remote_versions, apps_versions, timeline_versions, ugc_versions,
       net_utils_versions, matchmaking_versions, utils_versions
<1>2. ASSUME NEW i \in DOMAIN versions["ISteamNetworkingSockets"]
      PROVE  versions["ISteamNetworkingSockets"][i] \in
               {"SteamNetworkingSockets013", "SteamNetworkingSockets012"}
  BY DEF versions, net_versions
<1> QED
  BY <1>1, <1>2 DEF SameLayout

LEMMA NoneIsNoInterface == "none" \notin Interfaces
BY DEF Interfaces, versions

(* A pointer that was found is a listed version of the right layout.       *)
LEMMA FoundIsListed ==
  ASSUME NEW f \in Interfaces, Found(f)
  PROVE  Pointer(f) \in ListedVersions \cap SameLayout[f]
<1>1. PICK i \in DOMAIN versions[f] : Pointer(f) = versions[f][i]
  BY ScanFindsNewest
<1>2. versions[f][i] \in {versions[f][j] : j \in DOMAIN versions[f]}
  BY <1>1
<1> QED
  BY <1>1, <1>2, TablesKeepLayout DEF ListedVersions

-----------------------------------------------------------------------------
(* The inductive invariant: nothing is offered outside a session, and the  *)
(* notices follow the flags.                                               *)
IInv ==
  /\ TypeOK
  /\ user = 0 => offered = {}
  /\ FlagTellsNotice
  /\ PointerSafe
  /\ NeverSilent

LEMMA InitEstablishes == Init => IInv
<1> SUFFICES ASSUME Init PROVE IInv
  OBVIOUS
<1>1. IfaceTypeOK /\ FlagTellsNotice
  BY IfaceInitTypes DEF Init, IfaceInit, FlagTellsNotice
<1>2. last = Quiet /\ offered = {}
  BY DEF Init, IfaceInit
<1> QED
  BY <1>1, <1>2 DEF IInv, TypeOK, PointerSafe, NeverSilent, Quiet

LEMMA NextPreserves == IInv /\ [Next]_vars => IInv'
<1> SUFFICES ASSUME IInv, [Next]_vars PROVE IInv'
  OBVIOUS
<1>1. ASSUME NEW client \in Clients, steam_init(client) PROVE IInv'
  <2>1. last' = Quiet /\ notified' = notified /\ raised' = raised /\ user' = 1
    BY <1>1 DEF steam_init, SteamAPI_InitFlat
  <2>2. offered' \in Clients \cup {{}}
    BY <1>1 DEF IInv, TypeOK, IfaceTypeOK, steam_init, SteamAPI_InitFlat
  <2> QED
    BY <2>1, <2>2 DEF IInv, TypeOK, IfaceTypeOK, FlagTellsNotice, PointerSafe, NeverSilent, Quiet
<1>2. ASSUME steam_shutdown PROVE IInv'
  BY <1>2 DEF IInv, TypeOK, IfaceTypeOK, FlagTellsNotice, PointerSafe, NeverSilent, Quiet,
              steam_shutdown, SteamAPI_Shutdown
<1>3. ASSUME NEW f \in Interfaces, accessor(f) PROVE IInv'
  <2>1. steamworks_resolve(f) /\ last' = [iface |-> f, ptr |-> Pointer(f)]
    BY <1>3 DEF accessor
  <2>2. user' = user /\ offered' = offered
    BY <2>1 DEF steamworks_resolve
  <2>3. IfaceTypeOK' /\ FlagTellsNotice' /\ (Notice(f) # "none" => raised'[f] # <<>>)
    BY <2>1, ResolveNotices, ResolveTypes DEF IInv, TypeOK
  <2>4. Pointer(f) \in ListedVersions \cup {NULL}
    BY FoundIsListed DEF Pointer
  <2>5. TypeOK'
    BY <2>1, <2>3, <2>4 DEF TypeOK
  <2>6. PointerSafe'
    <3> SUFFICES ASSUME Pointer(f) # NULL
                 PROVE  /\ user # 0
                        /\ Pointer(f) \in offered \cap SameLayout[f]
                        /\ Pointer(f) = versions[f][1] \/ versions[f][1] \notin offered
      BY <2>1, <2>2 DEF PointerSafe
    <3>1. Found(f)
      BY DEF Pointer
    <3> QED
      BY <3>1, ScanFindsNewest, FoundIsListed DEF FindOrCreate
  <2>7. NeverSilent'
    <3> SUFFICES ASSUME user # 0, Pointer(f) # versions[f][1] PROVE Notice(f) # "none"
      BY <2>1, <2>2, <2>3 DEF NeverSilent
    <3>1. CASE Found(f)
      BY <3>1, ScanFindsNewest DEF Notice
    <3>2. CASE ~Found(f)
      BY <3>2 DEF Notice
    <3> QED
      BY <3>1, <3>2
  <2> QED
    BY <2>2, <2>3, <2>5, <2>6, <2>7 DEF IInv
<1>4. CASE UNCHANGED vars
  BY <1>4 DEF vars, IInv, TypeOK, IfaceTypeOK, FlagTellsNotice, PointerSafe, NeverSilent
<1> QED
  BY <1>1, <1>2, <1>3, <1>4 DEF Next

(* IInv is inductive, so it holds in every reachable state.                *)
THEOREM InvariantHolds == Spec => []IInv
BY InitEstablishes, NextPreserves, PTL DEF Spec

-----------------------------------------------------------------------------
(* Type correctness of sessions and interface resolution.                  *)
THEOREM TypesCorrect == Spec => []TypeOK
<1>1. IInv => TypeOK
  BY DEF IInv
<1> QED
  BY <1>1, InvariantHolds, PTL

(* Whatever clients a process meets, no pointer of another session and no  *)
(* pointer to a vtable of another layout reaches a flat call.              *)
THEOREM PointersAreSafe == Spec => []PointerSafe
<1>1. IInv => PointerSafe
  BY DEF IInv
<1> QED
  BY <1>1, InvariantHolds, PTL

(* Over any number of sessions and calls, one notice per interface.        *)
THEOREM OneNoticePerProcess == Spec => []NoticedOncePerProcess
<1>1. IInv => NoticedOncePerProcess
  <2> SUFFICES ASSUME IInv, NEW f \in Interfaces PROVE Len(raised[f]) <= 1
    BY DEF NoticedOncePerProcess
  <2>1. raised[f] = <<>> \/ Len(raised[f]) = 1
    BY DEF IInv, FlagTellsNotice
  <2>2. Len(<<>>) <= 1
    OBVIOUS
  <2>3. CASE raised[f] = <<>>
    BY <2>3, <2>2
  <2>4. CASE Len(raised[f]) = 1
    BY <2>4
  <2> QED
    BY <2>1, <2>3, <2>4
<1> QED
  BY <1>1, InvariantHolds, PTL

(* No call of a live session fails, or goes through a legacy version,      *)
(* before the process was told about the interface.                        *)
THEOREM NoSilentFallback == Spec => []NeverSilent
<1>1. IInv => NeverSilent
  BY DEF IInv
<1> QED
  BY <1>1, InvariantHolds, PTL

=============================================================================
