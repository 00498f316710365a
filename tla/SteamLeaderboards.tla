-------------------------- MODULE SteamLeaderboards --------------------------
(***************************************************************************)
(* Leaderboards (the second half of src/modules/steam_stats.c): a score    *)
(* with details is uploaded, ranked by Steam among those of other players, *)
(* downloaded as part of a range and read entry by entry.                  *)
(*                                                                         *)
(* Uploading, attaching a file and downloading are asynchronous calls that *)
(* Steam works off in order; how the script learns of their results is     *)
(* SteamCallResults.  One board is modelled.  A C int is cut to a small    *)
(* width.                                                                  *)
(***************************************************************************)
EXTENDS SteamInterfaces, SequencesExt

CONSTANTS
  Rivals,      (* The other players.                                        *)
  Scores,      (* The integers a script passes as a score.                  *)
  DetailLists, (* The arrays it passes as details; empty for none.          *)
  Ranks,       (* The integers it passes as the ends of a range.            *)
  Indices,     (* The integers it passes as an index.                       *)
  Downloads,   (* SteamLeaderboardEntries_t values.                         *)
  DetailsMax,  (* k_cLeaderboardDetailsMax.                                 *)
  ScoreMax,    (* Largest int32.                                            *)
  MaxRequests  (* Bound: calls under way.                                   *)

(* Assumed of the constants.                                               *)
LeaderboardsAssumption ==
  /\ DetailsMax \in Nat \ {0} /\ ScoreMax \in Nat /\ MaxRequests \in Nat
  /\ Scores \cup Ranks \cup Indices \subseteq Int
  /\ DetailLists \subseteq Seq(Int)
  /\ IsFiniteSet(Rivals) /\ "me" \notin Rivals

VARIABLES
  board,       (* Steam: player -> entry or NoEntry.                        *)
  requests,    (* Steam: the calls under way, oldest first.                 *)
  downloads    (* Steam: handle -> the entries downloaded, or NoEntries.    *)

boardVars == <<board, requests, downloads>>
vars == <<ifaceVars, boardVars>>

Me == "me"
Players == Rivals \cup {Me}
NoEntry == [score |-> 0]
NoEntries == <<NoEntry>>
Board == "ISteamUserStats"

ToScore(n) ==
  LET low == n % (2 * ScoreMax + 2)
  IN IF low > ScoreMax THEN low - (2 * ScoreMax + 2) ELSE low

BoardCall == steamworks_resolve(Board)

(* An accepted call gets a handle; Steam may refuse, which is FALSE.       *)
Request(r) ==
  /\ BoardCall
  /\ \/ UNCHANGED requests
     \/ /\ Found(Board) /\ Len(requests) < MaxRequests
        /\ requests' = Append(requests, r)
  /\ UNCHANGED <<board, downloads>>

-----------------------------------------------------------------------------
(* Uploading.                                                              *)

(* The int32 array: values beyond its end are dropped with a warning.      *)
details(list) ==
  [i \in 1..(IF Len(list) <= DetailsMax THEN Len(list) ELSE DetailsMax) |->
     ToScore(list[i])]

(* A slip: the default method that overwrites a better score.              *)
method_ForceByDefault(args) == IF args = <<>> THEN "FORCE_UPDATE" ELSE args[1]

method(args) == IF args = <<>> THEN "KEEP_BEST" ELSE args[1]

(* asked and forced are history: the arguments as the script gave them.    *)
steam_stats_upload_score(score, args, list) ==
  Request([fn |-> "upload", method |-> method(args), score |-> ToScore(score),
           details |-> details(list),
           asked |-> [score |-> score, details |-> list],
           forced |-> args = <<"FORCE_UPDATE">>])

(* The file handle is passed on; needs an entry when Steam comes to it.    *)
steam_stats_attach_leaderboard_ugc ==
  Request([fn |-> "attach"])

steam_stats_download_leaderboard_entries(first, last) ==
  Request([fn |-> "download", first |-> ToScore(first), last |-> ToScore(last)])

(* Finding a board, counting its entries and reading them change only what *)
(* the accessor may change.                                                *)
steam_stats_board_read ==
  BoardCall /\ UNCHANGED boardVars

-----------------------------------------------------------------------------
(* Steam works off the requests.  Scores rank from high to low.            *)

Entry(player, r) ==
  [player |-> player, score |-> r.score, m_cDetails |-> Len(r.details),
   details |-> r.details, asked |-> r.asked, ugc |-> FALSE]

SteamUploads(r) ==
  /\ r.fn = "upload"
  /\ board' = IF board[Me] = NoEntry \/ r.method = "FORCE_UPDATE" \/ r.score > board[Me].score
                THEN [board EXCEPT ![Me] = Entry(Me, r)] ELSE board
  /\ UNCHANGED downloads

SteamAttaches(r) ==
  /\ r.fn = "attach"
  /\ board' = IF board[Me] = NoEntry THEN board ELSE [board EXCEPT ![Me].ugc = TRUE]
  /\ UNCHANGED downloads

(* Who is equal may be ranked either way.                                  *)
Rankings ==
  { r \in SetToSeqs({p \in Players : board[p] # NoEntry}) :
      \A i, j \in DOMAIN r : i < j => board[r[i]].score >= board[r[j]].score }

(* A range of ranks, from 1, as far as it exists; or the call fails.       *)
SteamDownloads(r) ==
  /\ r.fn = "download"
  /\ \/ UNCHANGED downloads
     \/ \E h \in Downloads, ranking \in Rankings :
          /\ downloads[h] = NoEntries
          /\ downloads' = [downloads EXCEPT ![h] =
               SubSeq([i \in DOMAIN ranking |-> board[ranking[i]]],
                      IF r.first < 1 THEN 1 ELSE r.first,
                      IF r.last > Len(ranking) THEN Len(ranking) ELSE r.last)]
  /\ UNCHANGED board

SteamWorks ==
  /\ requests # <<>> /\ requests' = Tail(requests)
  /\ LET r == Head(requests) IN SteamUploads(r) \/ SteamAttaches(r) \/ SteamDownloads(r)
  /\ UNCHANGED ifaceVars

RivalUploads(rival, score) ==
  /\ user = 1
  /\ board' = [board EXCEPT ![rival] =
       Entry(rival, [score |-> ToScore(score), details |-> <<>>,
                     asked |-> [score |-> score, details |-> <<>>]])]
  /\ UNCHANGED <<ifaceVars, requests, downloads>>

-----------------------------------------------------------------------------
(* Reading a downloaded entry.  The details buffer is not initialised: it  *)
(* holds Garbage beyond what Steam writes, m_cDetails values at most.      *)

Garbage == ScoreMax + 1

Buffer(entry) ==
  [i \in 1..DetailsMax |-> IF i <= entry.m_cDetails THEN entry.details[i] ELSE Garbage]

(* A slip: the whole buffer returned.                                      *)
ReadDetails_Whole(entry) == Buffer(entry)

(* As many as Steam reports, but not more than the buffer has.             *)
ReadDetails(entry) ==
  SubSeq(Buffer(entry), 1,
         IF entry.m_cDetails > DetailsMax THEN DetailsMax ELSE entry.m_cDetails)

(* A set, empty for null or FALSE.                                         *)
steam_stats_get_downloaded_entry(h, index) ==
  LET i == ToScore(index) + 1 IN
  IF Found(Board) /\ downloads[h] # NoEntries /\ i \in DOMAIN downloads[h]
    THEN LET entry == downloads[h][i] IN
         {[player |-> entry.player, score |-> entry.score,
           details |-> ReadDetails(entry)]}
    ELSE {}

-----------------------------------------------------------------------------
steam_init(client) ==
  /\ SteamAPI_InitFlat(client)
  /\ UNCHANGED boardVars

(* What is under way may be lost; what was downloaded is.                  *)
steam_shutdown ==
  /\ SteamAPI_Shutdown
  /\ requests' = <<>>
  /\ downloads' = [h \in Downloads |-> NoEntries]
  /\ UNCHANGED board

LeaderboardsInit ==
  /\ board = [p \in Players |-> NoEntry]
  /\ requests = <<>>
  /\ downloads = [h \in Downloads |-> NoEntries]

Init == IfaceInit /\ LeaderboardsInit

Next ==
  \/ \E client \in Clients : steam_init(client)
  \/ steam_shutdown
  \/ SteamWorks
  \/ \E rival \in Rivals, score \in Scores : RivalUploads(rival, score)
  \/ \E score \in Scores, list \in DetailLists,
        args \in {<<>>, <<"KEEP_BEST">>, <<"FORCE_UPDATE">>} :
       steam_stats_upload_score(score, args, list)
  \/ steam_stats_attach_leaderboard_ugc
  \/ \E first, last \in Ranks : steam_stats_download_leaderboard_entries(first, last)
  \/ steam_stats_board_read

Spec == Init /\ [][Next]_vars

-----------------------------------------------------------------------------
Int32 == (-ScoreMax - 1)..ScoreMax

(* Among the types: no upload writes past the end of its array of details. *)
BoardTypeOK ==
  /\ IfaceTypeOK
  /\ \A p \in Players : board[p].score \in Int32
  /\ Len(requests) <= MaxRequests
  /\ \A i \in DOMAIN requests :
       requests[i].fn = "upload" =>
         /\ requests[i].score \in Int32
         /\ requests[i].details \in Seq(Int32) /\ Len(requests[i].details) <= DetailsMax

(* From upload to reading: an entry of the local player that is read under *)
(* any handle and index shows the score and the details of one upload as   *)
(* the script passed them, the details up to the limit and none beside     *)
(* them, whatever was uploaded, forced or downloaded in between; an index  *)
(* inside the range finds its entry, and one outside finds none.           *)
EntryAsUploaded ==
  Found(Board) =>
    \A h \in Downloads, index \in Indices \cap Int32 :
      LET read == steam_stats_get_downloaded_entry(h, index) IN
      IF downloads[h] # NoEntries /\ index + 1 \in DOMAIN downloads[h]
        THEN LET asked == downloads[h][index + 1].asked IN
             \E e \in read :
               /\ e.score = ToScore(asked.score)
               /\ IsPrefix(e.details, [i \in DOMAIN asked.details |-> ToScore(asked.details[i])])
               /\ Len(e.details) < Len(asked.details) => Len(e.details) = DetailsMax
        ELSE read = {}

(* The best score stays on the board unless the script forces another one: *)
(* an upload without a method, the usual call, never replaces a better     *)
(* score (the default of steam_stats_upload_score).                        *)
BestScoreKept ==
  [][ board[Me] # NoEntry /\ board'[Me].score < board[Me].score =>
        Head(requests).forced ]_vars

=============================================================================
