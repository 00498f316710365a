---------------------------- MODULE SteamRemote ----------------------------
(***************************************************************************)
(* Remote storage (src/modules/steam_remote.c): the user's cloud files,    *)
(* and shared files of other players that are read in pieces.              *)
(*                                                                         *)
(* Steam may synchronise the cloud files at any time, also between two of  *)
(* the Steam calls one PHP function makes; reading and listing files is    *)
(* therefore modelled Steam call by Steam call.  Integers keep their       *)
(* relative widths: a C int32 and uint32 are cut to small moduli, PHP's    *)
(* integers and string lengths are not.                                    *)
(*                                                                         *)
(* Sharing and downloading are asynchronous calls: see SteamCallResults.   *)
(***************************************************************************)
EXTENDS SteamInterfaces, SequencesExt

CONSTANTS
  Names,       (* File names.                                               *)
  SharedFiles, (* UGCHandle_t -> the size of the file behind it.            *)
  INT32_MAX,   (* Largest int32; a uint32 goes up to twice as much plus 1.  *)
  Lengths,     (* The string lengths, sizes and offsets a script passes.    *)
  MaxVersions  (* Bound: how many contents are ever stored.                 *)

UINT32_MAX == 2 * INT32_MAX + 1

ASSUME RemoteAssumption ==
  /\ INT32_MAX \in Nat \ {0} /\ MaxVersions \in Nat
  /\ IsFiniteSet(Names) /\ Lengths \subseteq Int
  /\ SharedFiles \in [DOMAIN SharedFiles -> 1..INT32_MAX]

VARIABLES
  files,       (* Steam: name -> content or NoFile.                         *)
  version,     (* Contents stored so far.                                   *)
  call,        (* The PHP function in progress, or Idle; quiet records that *)
               (* no file has changed since it started.                     *)
  returned,    (* What the function that has just ended got and returned.   *)
  downloaded,  (* Steam: the shared files in the local cache.               *)
  opened,      (* Steam: the shared files it keeps open.                    *)
  assembled    (* History: file -> bytes put together by a script that      *)
               (* asks for the byte after the ones it has.                  *)

cloudVars == <<files, version, call>>
sharedVars == <<downloaded, opened, assembled>>
vars == <<ifaceVars, cloudVars, sharedVars, returned>>

NoFile == [version |-> 0, size |-> 0]
Idle == [fn |-> "none", quiet |-> FALSE]

(* What a function returns: FALSE, or a string (its bytes), or an array of *)
(* names; for some functions with the arguments it got.                    *)
Nothing == [fn |-> "none", ok |-> FALSE]
ReadResult(ok, bytes) == [fn |-> "read", ok |-> ok, bytes |-> bytes]
ListResult(ok, names) == [fn |-> "list", ok |-> ok, names |-> names]
WriteResult(ok, length, stored) ==
  [fn |-> "write", ok |-> ok, length |-> length, stored |-> stored]
Piece(ok, bytes, u, size, offset) ==
  [fn |-> "ugc_read", ok |-> ok, bytes |-> bytes,
   ugc |-> u, size |-> size, offset |-> offset]

(* The byte at position i of a content, and what a buffer holds before     *)
(* anything is written to it.                                              *)
Garbage == <<0, 0>>
Bytes(content, n) == [i \in 1..n |-> <<content.version, i>>]

Least(a, b) == IF a < b THEN a ELSE b

(* C's conversions, as the platforms of Steam do them.                     *)
ToUint32(n) == n % (UINT32_MAX + 1)

ToInt32(n) == IF ToUint32(n) > INT32_MAX THEN ToUint32(n) - UINT32_MAX - 1 ELSE ToUint32(n)

Remote == "ISteamRemoteStorage"
RemoteCall == call = Idle /\ steamworks_resolve(Remote)

-----------------------------------------------------------------------------
(* Steam stores, synchronises and removes files.                           *)

Store(name, size) ==
  /\ version < MaxVersions
  /\ version' = version + 1
  /\ files' = [files EXCEPT ![name] = [version |-> version + 1, size |-> size]]

SteamSynchronises(name) ==
  /\ user = 1
  /\ \/ \E size \in 0..INT32_MAX : Store(name, size)
     \/ files[name] # NoFile /\ files' = [files EXCEPT ![name] = NoFile] /\ UNCHANGED version
  /\ call' = [call EXCEPT !.quiet = FALSE]
  /\ returned' = Nothing
  /\ UNCHANGED <<ifaceVars, sharedVars>>

(* The file names in the order Steam numbers them.                         *)
Directory == SetToSeq({n \in Names : files[n] # NoFile})

-----------------------------------------------------------------------------
(* Cloud files.                                                            *)

(* Steam refuses to write nothing, or less than nothing.                   *)
steam_remote_file_write(name, length) ==
  /\ length >= 0
  /\ RemoteCall
  /\ LET size == ToInt32(length) IN
       \/ /\ Found(Remote) /\ size > 0
          /\ Store(name, size)
          /\ returned' = WriteResult(TRUE, length, size)
       \/ /\ UNCHANGED <<files, version>>
          /\ returned' = WriteResult(FALSE, length, 0)
  /\ UNCHANGED <<call, sharedVars>>

steam_remote_file_delete(name) ==
  /\ RemoteCall
  /\ files' = IF Found(Remote) THEN [files EXCEPT ![name] = NoFile] ELSE files
  /\ returned' = Nothing
  /\ UNCHANGED <<version, call, sharedVars>>

(* The first half of steam_remote_file_read(): the buffer is allocated     *)
(* for the size Steam reports now.                                         *)
GetFileSize(name) ==
  /\ RemoteCall
  /\ IF Found(Remote) /\ files[name].size > 0
       THEN /\ call' = [fn |-> "read", quiet |-> TRUE,
                        name |-> name, size |-> files[name].size]
            /\ returned' = Nothing
       ELSE /\ returned' = ReadResult(FALSE, <<>>)
            /\ UNCHANGED call
  /\ UNCHANGED <<files, version, sharedVars>>

(* A slip: the string made as long as the buffer.                          *)
FileReadString_Whole(buffer, read) == buffer

(* The string made of the buffer: as long as FileRead says.                *)
FileReadString(buffer, read) == SubSeq(buffer, 1, read)

(* The second half: the buffer is filled from the file as it is by now.    *)
FileRead ==
  /\ call.fn = "read" /\ call' = Idle
  /\ LET content == files[call.name]
         read == Least(content.size, call.size)
         buffer == [i \in 1..call.size |->
                      IF i <= read THEN <<content.version, i>> ELSE Garbage]
     IN returned' = IF read <= 0 THEN ReadResult(FALSE, <<>>)
                    ELSE ReadResult(TRUE, FileReadString(buffer, read))
  /\ UNCHANGED <<ifaceVars, files, version, sharedVars>>

(* steam_remote_file_list() asks for the count, then for one name after    *)
(* the other; Steam has no name ("") for a number beyond the last file.    *)
GetFileCount ==
  /\ RemoteCall
  /\ IF Found(Remote)
       THEN /\ call' = [fn |-> "list", quiet |-> TRUE,
                        count |-> Len(Directory), names |-> <<>>]
            /\ returned' = Nothing
       ELSE /\ returned' = ListResult(FALSE, <<>>)
            /\ UNCHANGED call
  /\ UNCHANGED <<files, version, sharedVars>>

(* A slip: numbering the files from 1.                                     *)
FileNumber_FromOne(names) == Len(names) + 1

(* The number of the next file to ask for, counted from 0.                 *)
FileNumber(names) == Len(names)

GetFileNameAndSize ==
  /\ call.fn = "list" /\ Len(call.names) < call.count
  /\ LET i == FileNumber(call.names) + 1
         name == IF i \in DOMAIN Directory THEN Directory[i] ELSE ""
     IN call' = [call EXCEPT !.names = Append(@, name)]
  /\ UNCHANGED <<ifaceVars, files, version, sharedVars, returned>>

FileListDone ==
  /\ call.fn = "list" /\ Len(call.names) = call.count
  /\ returned' = ListResult(TRUE, call.names)
  /\ call' = Idle
  /\ UNCHANGED <<ifaceVars, files, version, sharedVars>>

(* Passes on what Steam answers.                                           *)
steam_remote_file_exists ==
  /\ RemoteCall
  /\ returned' = Nothing
  /\ UNCHANGED <<cloudVars, sharedVars>>

-----------------------------------------------------------------------------
(* Shared files.                                                           *)

UGCDownloaded(u) ==
  /\ user = 1 /\ u \notin downloaded
  /\ downloaded' = downloaded \cup {u}
  /\ returned' = Nothing
  /\ UNCHANGED <<ifaceVars, cloudVars, opened, assembled>>

Content(u) == [version |-> u, size |-> SharedFiles[u]]

(* UGCRead copies up to size bytes from the offset and returns how many.   *)
(* ContinueReadingUntilFinished keeps the file open until its last byte    *)
(* has been read.                                                          *)
UGCRead(u, size, offset) ==
  IF u \in downloaded /\ offset < SharedFiles[u]
    THEN Least(size, SharedFiles[u] - offset) ELSE 0

(* A slip: k_EUGCRead_ContinueReading, which never closes.                 *)
StaysOpen_Always(u, last) == TRUE

StaysOpen(u, last) == last < SharedFiles[u]

(* A slip: only negative offsets refused.                                  *)
ArgumentsRefused_NoUpperOffset(size, offset) ==
  size <= 0 \/ size > INT32_MAX \/ offset < 0

ArgumentsRefused(size, offset) ==
  \/ size <= 0 \/ size > INT32_MAX
  \/ offset < 0 \/ offset > UINT32_MAX

(* zend_string_truncate() to what was read.                                *)
Truncated(buffer, read) ==
  IF read < Len(buffer) THEN SubSeq(buffer, 1, read) ELSE buffer

ReadPiece(u, size, offset) ==
  LET start == ToUint32(offset)
      read == UGCRead(u, ToInt32(size), start)
      buffer == [i \in 1..size |-> IF i <= read THEN <<u, start + i>> ELSE Garbage]
  IN IF read <= 0
       THEN returned' = Piece(FALSE, <<>>, u, size, offset) /\ UNCHANGED opened
       ELSE /\ returned' = Piece(TRUE, Truncated(buffer, read), u, size, offset)
            /\ opened' = IF StaysOpen(u, start + read) THEN opened \cup {u} ELSE opened \ {u}

steam_remote_ugc_read(u, size, offset) ==
  /\ call = Idle
  /\ IF ArgumentsRefused(size, offset)
       THEN UNCHANGED ifaceVars ELSE steamworks_resolve(Remote)
  /\ IF ~ ArgumentsRefused(size, offset) /\ Found(Remote)
       THEN ReadPiece(u, size, offset)
       ELSE returned' = Piece(FALSE, <<>>, u, size, offset) /\ UNCHANGED opened
  /\ assembled' =
       IF returned'.ok /\ offset = Len(assembled[u])
         THEN [assembled EXCEPT ![u] = @ \o returned'.bytes] ELSE assembled
  /\ UNCHANGED <<cloudVars, downloaded>>

(* FALSE, or the file's size and name, once it has been downloaded.        *)
steam_remote_get_ugc_details ==
  /\ RemoteCall
  /\ returned' = Nothing
  /\ UNCHANGED <<cloudVars, sharedVars>>

-----------------------------------------------------------------------------
steam_init(client) ==
  /\ call = Idle
  /\ SteamAPI_InitFlat(client)
  /\ returned' = Nothing
  /\ UNCHANGED <<cloudVars, sharedVars>>

(* Steam closes the shared files; a later session downloads them again.    *)
steam_shutdown ==
  /\ call = Idle
  /\ SteamAPI_Shutdown
  /\ downloaded' = {} /\ opened' = {}
  /\ returned' = Nothing
  /\ UNCHANGED <<cloudVars, assembled>>

Init ==
  /\ IfaceInit
  /\ files = [n \in Names |-> NoFile] /\ version = 0
  /\ call = Idle /\ returned = Nothing
  /\ downloaded = {} /\ opened = {}
  /\ assembled = [u \in DOMAIN SharedFiles |-> <<>>]

CloudFiles ==
  \/ \E n \in Names :
       \/ SteamSynchronises(n)
       \/ \E length \in Lengths : steam_remote_file_write(n, length)
       \/ steam_remote_file_delete(n)
       \/ GetFileSize(n)
  \/ FileRead
  \/ GetFileCount
  \/ GetFileNameAndSize
  \/ FileListDone
  \/ steam_remote_file_exists

SharedReads ==
  \/ steam_remote_get_ugc_details
  \/ \E u \in DOMAIN SharedFiles :
       \/ UGCDownloaded(u)
       \/ \E size, offset \in Lengths : steam_remote_ugc_read(u, size, offset)

Next ==
  \/ \E client \in Clients : steam_init(client)
  \/ steam_shutdown
  \/ CloudFiles
  \/ SharedReads

Spec == Init /\ [][Next]_vars

-----------------------------------------------------------------------------
Contents(v) == [version : v, size : 0..INT32_MAX]
FileIds == DOMAIN SharedFiles

TypeOK ==
  /\ IfaceTypeOK
  /\ files \in [Names -> Contents(0..MaxVersions)] /\ version \in 0..MaxVersions
  /\ \/ call = Idle
     \/ call.fn = "read" /\ call.name \in Names /\ call.size \in 1..INT32_MAX
     \/ call.fn = "list" /\ Len(call.names) <= call.count /\ call.count <= Cardinality(Names)
  /\ returned.ok \in BOOLEAN
  /\ opened \subseteq downloaded /\ downloaded \subseteq FileIds
  /\ assembled \in [FileIds -> Seq(FileIds \X (1..INT32_MAX))]

(* The bytes are those of one version, from its beginning.                 *)
IsOneVersion(bytes) ==
  \E v \in 1..MaxVersions : bytes = Bytes([version |-> v], Len(bytes))

(* Whatever Steam changes between two of its calls, a read returns bytes   *)
(* of one version of the file from its beginning, never what the buffer    *)
(* held before; and if nothing changed, the whole file                     *)
(* (steam_remote_file_read).                                               *)
ReadIsOneVersion ==
  [][FileRead /\ returned'.ok =>
       /\ IsOneVersion(returned'.bytes)
       /\ Len(returned'.bytes) <= call.size
       /\ call.quiet => returned'.bytes = Bytes(files[call.name], files[call.name].size)]_vars

(* If nothing changed meanwhile, the list names every file once and only   *)
(* files (steam_remote_file_list).                                         *)
ListIsExact ==
  [][FileListDone /\ call.quiet =>
       /\ ToSet(returned'.names) = {n \in Names : files[n] # NoFile}
       /\ IsInjective(returned'.names)]_vars

(* A piece is the bytes of the file at the offset the script passed, as    *)
(* many as it asked for or as there are, and FALSE only if there is none   *)
(* to read, for every size and offset of PHP's range: no conversion to     *)
(* int32 or uint32 moves it elsewhere, and the last, shorter piece is no   *)
(* failure (the checks of steam_remote_ugc_read and its truncation).  The  *)
(* types hold too.                                                         *)
Readable(u, size, offset) ==
  /\ Found(Remote) /\ u \in downloaded
  /\ size \in 1..INT32_MAX /\ offset \in 0..(SharedFiles[u] - 1)

PieceIsExact ==
  /\ TypeOK
  /\ returned.fn = "ugc_read" =>
       LET u == returned.ugc  size == returned.size  offset == returned.offset
       IN /\ returned.ok = Readable(u, size, offset)
          /\ returned.ok =>
               returned.bytes = [i \in 1..Least(size, SharedFiles[u] - offset) |->
                                   <<u, offset + i>>]

(* Pieces read one after the other make up the file, and when the last     *)
(* byte has just been read Steam does not keep the file open               *)
(* (k_EUGCRead_ContinueReadingUntilFinished).                              *)
PiecesMakeUpTheFile ==
  /\ \A u \in FileIds : IsPrefix(assembled[u], Bytes(Content(u), SharedFiles[u]))
  /\ returned.fn = "ugc_read" /\ returned.ok =>
       (returned.offset + Len(returned.bytes) = SharedFiles[returned.ugc] =>
          returned.ugc \notin opened)

(* stubs/steamworks.php says of steam_remote_file_write() that it writes   *)
(* the data and returns true on success.  The length is cut to int32.      *)
TrueMeansWritten ==
  returned.fn = "write" /\ returned.ok => returned.stored = returned.length

=============================================================================
