----------------------- MODULE SteamInterfaces_proofs -----------------------
(***************************************************************************)
(* Facts about interface resolution that the proofs of the specifications  *)
(* built on SteamInterfaces share.                                         *)
(***************************************************************************)
EXTENDS SteamInterfaces, TLAPS

(* A version table lists one version, that of the networking sockets two.  *)
LEMMA VersionTables == \A f \in Interfaces : DOMAIN versions[f] \in {{1}, {1, 2}}
BY DEF Interfaces, versions, user_versions, friends_versions, stats_versions,
       remote_versions, apps_versions, timeline_versions, ugc_versions,
       net_utils_versions, matchmaking_versions, utils_versions, net_versions

(* What the scan returns when it finds something: a listed version that is *)
(* offered in a live session, and the newest such.                         *)
LEMMA ScanFindsNewest ==
  ASSUME NEW f \in Interfaces, Found(f)
  PROVE  /\ FindOrCreate(Pointer(f))
         /\ \E i \in DOMAIN versions[f] : Pointer(f) = versions[f][i]
         /\ StopsAt(f, 1) => Pointer(f) = versions[f][1]
         /\ Pointer(f) = versions[f][1] \/ ~FindOrCreate(versions[f][1])
<1> DEFINE i == CHOOSE j \in DOMAIN versions[f] : StopsAt(f, j)
<1>1. i \in DOMAIN versions[f] /\ StopsAt(f, i) /\ Pointer(f) = versions[f][i]
  BY DEF Found, Pointer
<1>2. i \in {1, 2}
  BY <1>1, VersionTables
<1>3. i # 1 => ~FindOrCreate(versions[f][1])
  BY <1>1, <1>2 DEF StopsAt
<1> QED
  BY <1>1, <1>3 DEF StopsAt

-----------------------------------------------------------------------------
(* Type correctness of the operations.                                     *)

LEMMA IfaceInitTypes == IfaceInit => IfaceTypeOK
BY DEF IfaceInit, IfaceTypeOK

LEMMA ResolveTypes ==
  ASSUME IfaceTypeOK, NEW f \in Interfaces, steamworks_resolve(f)
  PROVE  IfaceTypeOK'
<1> DEFINE Notices == {"E_DEPRECATED", "E_WARNING"}
<1>1. user' = user /\ offered' = offered
  BY DEF steamworks_resolve
<1>2. CASE Notice(f) # "none" /\ ~notified[f]
  <2>1. /\ notified' = [notified EXCEPT ![f] = TRUE]
        /\ raised' = [raised EXCEPT ![f] = Append(@, Notice(f))]
    BY <1>2 DEF steamworks_resolve
  <2>2. Append(raised[f], Notice(f)) \in Seq(Notices)
    BY <1>2 DEF Notice, IfaceTypeOK
  <2> QED
    BY <1>1, <2>1, <2>2 DEF IfaceTypeOK
<1>3. CASE ~(Notice(f) # "none" /\ ~notified[f])
  BY <1>1, <1>3 DEF steamworks_resolve, IfaceTypeOK
<1> QED
  BY <1>2, <1>3

LEMMA InitFlatTypes ==
  ASSUME IfaceTypeOK, NEW client \in Clients, SteamAPI_InitFlat(client)
  PROVE  IfaceTypeOK'
BY DEF IfaceTypeOK, SteamAPI_InitFlat

LEMMA ShutdownTypes ==
  ASSUME IfaceTypeOK, SteamAPI_Shutdown
  PROVE  IfaceTypeOK'
BY DEF IfaceTypeOK, SteamAPI_Shutdown

-----------------------------------------------------------------------------
(* The flag of an interface says exactly whether its one notice has been   *)
(* raised.                                                                 *)
FlagTellsNotice ==
  \A f \in Interfaces :
    /\ ~notified[f] => raised[f] = <<>>
    /\ notified[f] => Len(raised[f]) = 1

(* One resolution keeps flags and notices in step, and a notice that is    *)
(* due has been raised afterwards.                                         *)
LEMMA ResolveNotices ==
  ASSUME IfaceTypeOK, FlagTellsNotice, NEW f \in Interfaces, steamworks_resolve(f)
  PROVE  /\ FlagTellsNotice'
         /\ Notice(f) # "none" => raised'[f] # <<>>
<1>1. CASE Notice(f) # "none" /\ ~notified[f]
  <2>1. /\ notified' = [notified EXCEPT ![f] = TRUE]
        /\ raised' = [raised EXCEPT ![f] = Append(@, Notice(f))]
    BY <1>1 DEF steamworks_resolve
  <2>2. raised[f] = <<>> /\ Notice(f) \in {"E_DEPRECATED", "E_WARNING"}
    BY <1>1 DEF FlagTellsNotice, Notice
  <2>3. Len(Append(raised[f], Notice(f))) = 1 /\ Append(raised[f], Notice(f)) # <<>>
    BY <2>2
  <2> QED
    BY <2>1, <2>3 DEF FlagTellsNotice, IfaceTypeOK
<1>2. CASE ~(Notice(f) # "none" /\ ~notified[f])
  <2>1. notified' = notified /\ raised' = raised
    BY <1>2 DEF steamworks_resolve
  <2>2. Notice(f) # "none" => raised[f] # <<>>
    <3> SUFFICES ASSUME notified[f] PROVE raised[f] # <<>>
      BY <1>2
    <3>1. Len(raised[f]) = 1
      BY DEF FlagTellsNotice
    <3> QED
      BY <3>1
  <2> QED
    BY <2>1, <2>2 DEF FlagTellsNotice
<1> QED
  BY <1>1, <1>2

=============================================================================
