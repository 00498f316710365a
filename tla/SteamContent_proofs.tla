------------------------- MODULE SteamContent_proofs -------------------------
(***************************************************************************)
(* Proofs about what a script stores with Steam and lists: remote storage  *)
(* (SteamRemote) and the workshop (SteamWorkshop).                         *)
(*                                                                         *)
(* In both, Steam changes what there is between two Steam calls of one PHP *)
(* function, and the invariant says what the function knows in between:    *)
(* something that was so when it asked, and is so as long as nothing       *)
(* changed.  In both, numbers pass through narrower or signed types on     *)
(* their way; that nothing is lost is a lemma about each conversion.       *)
(*                                                                         *)
(* The steps of a script (SteamContent) are those of one of the two, which *)
(* leave the other's state alone; a last section puts them together.       *)
(***************************************************************************)
EXTENDS SteamContent, SteamInterfaces_proofs, FiniteSetTheorems, SequenceTheorems,
        WellFoundedInduction

-----------------------------------------------------------------------------
(* The invariant of remote storage.                                        *)

(* The function under way: reading, or listing, in which case the names so *)
(* far are those of the files that were there, as long as nothing changes. *)
Reading == [fn : {"read"}, quiet : BOOLEAN, name : Names, size : 1..INT32_MAX]
Listing == [fn : {"list"}, quiet : BOOLEAN, count : 0..Cardinality(Names),
            names : Seq(Names \cup {""})]

CallInv ==
  /\ call \in {Idle} \cup Reading \cup Listing
  /\ call.fn = "read" /\ call.quiet => call.size = files[call.name].size
  /\ call.fn = "list" =>
       /\ Len(call.names) <= call.count
       /\ call.quiet =>
            /\ call.count = Len(Directory)
            /\ \A i \in 1..Len(call.names) : call.names[i] = Directory[i]

(* A file with bytes in it has been stored at some time.                   *)
FilesInv ==
  /\ files \in [Names -> Contents(0..MaxVersions)] /\ version \in 0..MaxVersions
  /\ \A n \in Names : files[n].size > 0 => files[n].version >= 1

(* What a script has put together of a shared file is its beginning.       *)
SharedInv ==
  /\ opened \subseteq downloaded /\ downloaded \subseteq FileIds
  /\ \A u \in FileIds : \E n \in 0..SharedFiles[u] : assembled[u] = Bytes(Content(u), n)
  /\ assembled = [u \in FileIds |-> assembled[u]]

(* A piece that was asked for, as it should be.                            *)
ExactPiece(r) ==
  /\ r.ugc \in FileIds /\ r.size \in Int /\ r.offset \in Int
  /\ r.ok = Readable(r.ugc, r.size, r.offset)
  /\ r.ok =>
       /\ r.bytes = [i \in 1..Least(r.size, SharedFiles[r.ugc] - r.offset) |->
                       <<r.ugc, r.offset + i>>]
       /\ r.offset + Least(r.size, SharedFiles[r.ugc] - r.offset) = SharedFiles[r.ugc] =>
            r.ugc \notin opened

ReturnedInv ==
  returned.ok \in BOOLEAN /\ (returned.fn = "ugc_read" => ExactPiece(returned))

RemoteInv == IfaceTypeOK /\ CallInv /\ FilesInv /\ SharedInv /\ ReturnedInv

LEMMA RemoteIsInterface == Remote \in Interfaces
BY DEF Remote, Interfaces, versions

Files == {n \in Names : files[n] # NoFile}

(* Steam's numbering of the files names each of them once.                 *)
LEMMA DirectoryNamesFiles ==
  /\ Cardinality(Names) \in Nat /\ Len(Directory) \in 0..Cardinality(Names)
  /\ Directory \in Seq(Files) /\ IsInjective(Directory)
  /\ DOMAIN Directory = 1..Len(Directory)
  /\ {Directory[i] : i \in 1..Len(Directory)} = Files
<1> DEFINE n == Cardinality(Files)
<1>1. /\ IsFiniteSet(Files) /\ n \in Nat /\ n \in 0..Cardinality(Names)
      /\ Cardinality(Names) \in Nat
  BY RemoteAssumption, FS_Subset, FS_CardinalityType DEF Files
<1>2. \E f \in [1..n -> Files] : IsInjective(f)
  BY <1>1, FS_CardinalityType DEF ExistsBijection, Bijection, Injection
<1>3. Directory \in [1..n -> Files] /\ IsInjective(Directory)
  BY <1>2 DEF Directory, SetToSeq, Files
<1>4. Directory \in Injection(1..n, Files)
  BY <1>3 DEF Injection
<1>5. IsFiniteSet(1..n) /\ Cardinality(1..n) = n
  BY <1>1, FS_Interval
<1>6. Directory \in Surjection(1..n, Files)
  BY <1>1, <1>4, <1>5, FS_Injection
<1> HIDE DEF n
<1>7. Directory \in Seq(Files) /\ Len(Directory) = n
  BY <1>1, <1>3
<1>8. {Directory[i] : i \in 1..n} = Files
  BY <1>3, <1>6 DEF Surjection
<1> QED
  BY <1>1, <1>3, <1>7, <1>8

LEMMA RemoteInitially == Init => RemoteInv
<1> SUFFICES ASSUME Init PROVE RemoteInv
  OBVIOUS
<1>1. IfaceTypeOK
  BY IfaceInitTypes DEF Init
<1>2. CallInv
  BY DEF Init, CallInv, Idle
<1>3. FilesInv
  BY RemoteAssumption DEF Init, FilesInv, NoFile, Contents
<1>4. SharedInv
  <2>1. \A u \in FileIds : Bytes(Content(u), 0) = <<>> /\ 0 \in 0..SharedFiles[u]
    BY RemoteAssumption DEF FileIds, Bytes
  <2> QED
    BY <2>1 DEF Init, SharedInv, FileIds
<1>5. ReturnedInv
  BY DEF Init, ReturnedInv, Nothing
<1> QED
  BY <1>1, <1>2, <1>3, <1>4, <1>5 DEF RemoteInv

-----------------------------------------------------------------------------
(* Interfaces and results.                                                 *)

LEMMA RemoteInterfaces ==
  ASSUME IfaceTypeOK, Next
  PROVE  IfaceTypeOK'
<1>1. ASSUME NEW client \in Clients, SteamAPI_InitFlat(client) PROVE IfaceTypeOK'
  BY <1>1, InitFlatTypes
<1>2. CASE SteamAPI_Shutdown
  BY <1>2, ShutdownTypes
<1>3. CASE steamworks_resolve(Remote)
  BY <1>3, ResolveTypes, RemoteIsInterface
<1>4. CASE UNCHANGED ifaceVars
  BY <1>4 DEF IfaceTypeOK, ifaceVars
<1> QED
  BY <1>1, <1>2, <1>3, <1>4
     DEF Next, CloudFiles, SharedReads, steam_init, steam_shutdown, SteamSynchronises,
         steam_remote_file_write, steam_remote_file_delete, GetFileSize, FileRead,
         GetFileCount, GetFileNameAndSize, FileListDone, steam_remote_file_exists,
         steam_remote_get_ugc_details, UGCDownloaded, steam_remote_ugc_read, RemoteCall

(* Within the checks of steam_remote_ugc_read() no cast loses a bit.       *)
LEMMA ArgumentsFit ==
  ASSUME NEW size \in Int, NEW offset \in Int, ~ArgumentsRefused(size, offset)
  PROVE  size \in 1..INT32_MAX /\ ToInt32(size) = size /\ ToUint32(offset) = offset
<1> DEFINE m == UINT32_MAX + 1
<1>1. INT32_MAX \in Nat /\ m = 2 * INT32_MAX + 2 /\ m \in Nat /\ m > 0
  BY RemoteAssumption DEF UINT32_MAX
<1>2. size \in 1..INT32_MAX /\ offset \in 0..UINT32_MAX
  BY <1>1 DEF ArgumentsRefused, UINT32_MAX
<1>3. ASSUME NEW k \in 0..(m - 1) PROVE k % m = k
  BY <1>1, <1>3
<1>4. ToUint32(size) = size /\ ToUint32(offset) = offset
  BY <1>1, <1>2, <1>3 DEF ToUint32, UINT32_MAX
<1> QED
  BY <1>2, <1>4, <1>1 DEF ToInt32

-----------------------------------------------------------------------------
(* Cloud files.                                                            *)

LEMMA StoreKeeps ==
  ASSUME FilesInv, NEW name \in Names, NEW size \in 0..INT32_MAX, Store(name, size)
  PROVE  FilesInv'
<1>1. /\ version' = version + 1 /\ version' \in 1..MaxVersions
      /\ files' = [files EXCEPT ![name] = [version |-> version + 1, size |-> size]]
  BY RemoteAssumption DEF Store, FilesInv
<1>2. [version |-> version + 1, size |-> size] \in Contents(0..MaxVersions)
  BY <1>1 DEF Contents
<1> QED
  BY <1>1, <1>2 DEF FilesInv

LEMMA RemovingKeeps ==
  ASSUME FilesInv, NEW name \in Names, files' = [files EXCEPT ![name] = NoFile],
         UNCHANGED version
  PROVE  FilesInv'
<1>1. NoFile \in Contents(0..MaxVersions) /\ NoFile.size = 0
  BY RemoteAssumption DEF NoFile, Contents
<1> QED
  BY <1>1 DEF FilesInv

LEMMA Int32IsInt ==
  ASSUME NEW n \in Int
  PROVE  ToInt32(n) \in Int /\ ToInt32(n) <= INT32_MAX
<1> DEFINE m == UINT32_MAX + 1
<1>1. INT32_MAX \in Nat /\ m = 2 * INT32_MAX + 2 /\ m \in Nat /\ m > 0
  BY RemoteAssumption DEF UINT32_MAX
<1>2. n % m \in 0..(m - 1)
  BY <1>1
<1> QED
  BY <1>1, <1>2 DEF ToInt32, ToUint32, UINT32_MAX

LEMMA FilesKept ==
  ASSUME FilesInv, [Next]_vars
  PROVE  FilesInv'
<1>1. ASSUME NEW n \in Names, SteamSynchronises(n) PROVE FilesInv'
  BY <1>1, StoreKeeps, RemovingKeeps DEF SteamSynchronises
<1>2. ASSUME NEW n \in Names, NEW length \in Lengths, steam_remote_file_write(n, length)
      PROVE  FilesInv'
  <2>1. ToInt32(length) \in Int /\ ToInt32(length) <= INT32_MAX
    BY Int32IsInt, RemoteAssumption
  <2>2. CASE ToInt32(length) > 0 /\ Store(n, ToInt32(length))
    BY <2>1, <2>2, StoreKeeps
  <2>3. CASE UNCHANGED <<files, version>>
    BY <2>3 DEF FilesInv
  <2> QED
    BY <1>2, <2>2, <2>3 DEF steam_remote_file_write
<1>3. ASSUME NEW n \in Names, steam_remote_file_delete(n) PROVE FilesInv'
  <2>1. CASE UNCHANGED <<files, version>>
    BY <2>1 DEF FilesInv
  <2> QED
    BY <1>3, <2>1, RemovingKeeps DEF steam_remote_file_delete
<1>4. CASE UNCHANGED <<files, version>>
  BY <1>4 DEF FilesInv
<1> QED
  BY <1>1, <1>2, <1>3, <1>4
     DEF Next, CloudFiles, SharedReads, steam_init, steam_shutdown, GetFileSize, FileRead,
         GetFileCount, GetFileNameAndSize, FileListDone, steam_remote_file_exists,
         steam_remote_get_ugc_details, UGCDownloaded, steam_remote_ugc_read, vars, cloudVars

LEMMA NamesReplaced ==
  ASSUME NEW c \in Listing, NEW names \in Seq(Names \cup {""})
  PROVE  LET new == [c EXCEPT !.names = names]
         IN new \in Listing /\ new.names = names /\ new.count = c.count /\ new.quiet = c.quiet
BY DEF Listing

(* As long as no file changes, what the function under way knows is so.    *)
LEMMA CallKept ==
  ASSUME FilesInv, CallInv, [Next]_vars
  PROVE  CallInv'
<1>1. ASSUME NEW n \in Names, SteamSynchronises(n) PROVE CallInv'
  <2>1. call' = [call EXCEPT !.quiet = FALSE] /\ call \in {Idle} \cup Reading \cup Listing
    BY <1>1 DEF SteamSynchronises, CallInv
  <2>2. CASE call = Idle
    <3>1. call' = Idle
      BY <2>1, <2>2 DEF Idle
    <3> QED
      BY <3>1 DEF CallInv, Idle
  <2>3. CASE call \in Reading
    <3>1. call' \in Reading /\ call'.quiet = FALSE
      BY <2>1, <2>3 DEF Reading
    <3> QED
      BY <3>1 DEF CallInv, Reading
  <2>4. CASE call \in Listing
    <3>1. /\ call' \in Listing /\ call'.quiet = FALSE
          /\ call'.names = call.names /\ call'.count = call.count
      BY <2>1, <2>4 DEF Listing
    <3>2. Len(call.names) <= call.count
      BY <2>4 DEF CallInv, Listing
    <3> QED
      BY <3>1, <3>2 DEF CallInv, Listing
  <2> QED
    BY <2>1, <2>2, <2>3, <2>4
<1>2. CASE call' = Idle
  BY <1>2 DEF CallInv, Idle
<1>3. ASSUME NEW n \in Names, GetFileSize(n) PROVE CallInv'
  <2>1. CASE call' = [fn |-> "read", quiet |-> TRUE, name |-> n, size |-> files[n].size]
             /\ files[n].size > 0
    <3>1. files[n].size \in 1..INT32_MAX
      BY <2>1, RemoteAssumption DEF FilesInv, Contents
    <3>2. call' \in Reading /\ files' = files
      BY <1>3, <2>1, <3>1 DEF Reading, GetFileSize
    <3> QED
      BY <2>1, <3>2 DEF CallInv, Reading
  <2>2. CASE UNCHANGED call
    BY <1>3, <2>2 DEF GetFileSize, RemoteCall, CallInv, Idle
  <2> QED
    BY <1>3, <2>1, <2>2 DEF GetFileSize
<1>4. CASE GetFileCount
  <2>1. CASE call' = [fn |-> "list", quiet |-> TRUE, count |-> Len(Directory), names |-> <<>>]
    <3>1. files' = files
      BY <1>4 DEF GetFileCount
    <3>2. call' \in Listing
      BY <2>1, DirectoryNamesFiles DEF Listing
    <3>3. Len(Directory) \in Nat
      BY DirectoryNamesFiles
    <3> QED
      BY <2>1, <3>1, <3>2, <3>3 DEF CallInv, Directory
  <2>2. CASE UNCHANGED call
    BY <1>4, <2>2 DEF GetFileCount, RemoteCall, CallInv, Idle
  <2> QED
    BY <1>4, <2>1, <2>2 DEF GetFileCount
<1>5. CASE GetFileNameAndSize
  <2> DEFINE name == IF Len(call.names) + 1 \in DOMAIN Directory
                       THEN Directory[Len(call.names) + 1] ELSE ""
  <2> DEFINE S == Names \cup {""}
  <2>1. call \in Listing /\ Len(call.names) < call.count
    <3>1. call.fn = "list" /\ Len(call.names) < call.count
      BY <1>5 DEF GetFileNameAndSize
    <3>2. call \in {Idle} \cup Reading \cup Listing
      BY DEF CallInv
    <3> QED
      BY <3>1, <3>2 DEF Reading, Idle
  <2>2. call' = [call EXCEPT !.names = Append(call.names, name)] /\ files' = files
    BY <1>5 DEF GetFileNameAndSize, FileNumber
  <2>3. name \in Names \cup {""}
    <3>1. ASSUME NEW i \in DOMAIN Directory PROVE Directory[i] \in Names
      <4>1. Directory[i] \in {Directory[j] : j \in 1..Len(Directory)}
        BY <3>1, DirectoryNamesFiles
      <4> QED
        BY <4>1, DirectoryNamesFiles DEF Files
    <3> QED
      BY <3>1
  <2> HIDE DEF name
  <2>4. /\ call' \in Listing /\ call'.names = Append(call.names, name)
        /\ call'.count = call.count /\ call'.quiet = call.quiet
    <3>1. Append(call.names, name) \in Seq(Names \cup {""})
      BY <2>1, <2>3, AppendProperties DEF Listing
    <3> QED
      BY <2>1, <2>2, <3>1, NamesReplaced
  <2>5. /\ Len(Append(call.names, name)) = Len(call.names) + 1 /\ Len(call.names) \in Nat
         /\ \A i \in 1..Len(call.names) : Append(call.names, name)[i] = call.names[i]
         /\ Append(call.names, name)[Len(call.names) + 1] = name
    <3>1. call.names \in Seq(S) /\ name \in S
      BY <2>1, <2>3 DEF Listing
    <3> HIDE DEF S
    <3> QED
      BY <3>1, AppendProperties, LenProperties
  <2>6. Len(call.names) \in Nat /\ Len(call'.names) = Len(call.names) + 1 /\ call.count \in Int
    <3>1. call.count \in 0..Cardinality(Names)
      BY <2>1 DEF Listing
    <3> QED
      BY <2>4, <2>5, <3>1, DirectoryNamesFiles
  <2>7. ASSUME call.quiet, NEW i \in 1..Len(call'.names)
        PROVE  call'.names[i] = Directory[i]
    <3>1. call.count = Len(Directory) /\ DOMAIN Directory = 1..Len(Directory)
      BY <2>1, <2>7, DirectoryNamesFiles DEF CallInv, Listing
    <3>2. CASE i = Len(call.names) + 1
      <4>1. call'.names[i] = name
        BY <2>4, <2>5, <3>2
      <4>2. i \in DOMAIN Directory
        BY <2>1, <2>6, <3>1, <3>2
      <4> QED
        BY <3>2, <4>1, <4>2 DEF name
    <3>3. CASE i \in 1..Len(call.names)
      <4>1. call'.names[i] = call.names[i]
        BY <2>4, <2>5, <3>3
      <4>2. call.names[i] = Directory[i]
        BY <2>1, <2>7, <3>3 DEF Listing, CallInv
      <4> QED
        BY <4>1, <4>2
    <3> QED
      BY <2>6, <2>7, <3>2, <3>3
  <2>8. Directory' = Directory
    BY <2>2 DEF Directory
  <2>9. call.fn = "list" /\ call'.fn = "list"
    BY <2>1, <2>4 DEF Listing
  <2>10. call.quiet => call.count = Len(Directory)
    BY <2>9 DEF CallInv
  <2> QED
    BY <2>1, <2>4, <2>6, <2>7, <2>8, <2>9, <2>10 DEF CallInv
<1>6. CASE UNCHANGED <<call, files>>
  BY <1>6 DEF CallInv, Directory
<1>7. CASE call = Idle /\ UNCHANGED call
  BY <1>2, <1>7
<1> QED
  BY <1>1, <1>2, <1>3, <1>4, <1>5, <1>6, <1>7
     DEF Next, CloudFiles, SharedReads, steam_init, steam_shutdown, FileRead, FileListDone,
         steam_remote_file_write, steam_remote_file_delete, steam_remote_file_exists,
         steam_remote_get_ugc_details, UGCDownloaded, steam_remote_ugc_read, vars, cloudVars,
         RemoteCall
-----------------------------------------------------------------------------
(* Shared files.                                                           *)

LEMMA Beginnings ==
  ASSUME NEW u \in FileIds, NEW n \in Nat, NEW k \in Nat
  PROVE  /\ Bytes(Content(u), n) \in Seq(FileIds \X Int) /\ Len(Bytes(Content(u), n)) = n
         /\ Bytes(Content(u), n) \o [i \in 1..k |-> <<u, n + i>>] = Bytes(Content(u), n + k)
<1>1. /\ Bytes(Content(u), n) = [i \in 1..n |-> <<u, i>>]
      /\ Bytes(Content(u), n + k) = [i \in 1..(n + k) |-> <<u, i>>]
  BY DEF Bytes, Content
<1> DEFINE a == [i \in 1..n |-> <<u, i>>]
           b == [i \in 1..k |-> <<u, n + i>>]
           c == [i \in 1..(n + k) |-> <<u, i>>]
<1>2. /\ a \in Seq(FileIds \X Int) /\ b \in Seq(FileIds \X Int) /\ c \in Seq(FileIds \X Int)
      /\ Len(a) = n /\ Len(b) = k /\ Len(c) = n + k
  OBVIOUS
<1>3. /\ \A i \in 1..n : a[i] = <<u, i>>
      /\ \A i \in 1..k : b[i] = <<u, n + i>>
      /\ \A i \in 1..(n + k) : c[i] = <<u, i>>
  OBVIOUS
<1> DEFINE d == a \o b
<1> HIDE DEF a, b, c
<1>4. /\ d \in Seq(FileIds \X Int) /\ Len(d) = n + k
      /\ \A i \in 1..(n + k) : d[i] = IF i <= n THEN a[i] ELSE b[i - n]
  BY <1>2, ConcatProperties
<1> HIDE DEF d
<1>5. ASSUME NEW i \in 1..(n + k) PROVE d[i] = c[i]
  <2>0. c[i] = <<u, i>>
    BY <1>3, <1>5
  <2>1. CASE i <= n
    <3>1. i \in 1..n /\ d[i] = a[i]
      BY <1>4, <1>5, <2>1
    <3> QED
      BY <1>3, <2>0, <3>1
  <2>2. CASE i > n
    <3>1. i - n \in 1..k /\ n + (i - n) = i /\ d[i] = b[i - n]
      BY <1>4, <1>5, <2>2
    <3>2. b[i - n] = <<u, n + (i - n)>>
      BY <1>3, <3>1
    <3> QED
      BY <2>0, <3>1, <3>2
  <2> QED
    BY <1>5, <2>1, <2>2
<1>6. d = c
  BY <1>2, <1>4, <1>5, SeqEqual
<1> QED
  BY <1>1, <1>2, <1>6 DEF a, b, c, d

(* How many bytes of a file there are at an offset, up to a size.          *)
PieceLength(u, size, offset) == Least(size, SharedFiles[u] - offset)

(* What steam_remote_ugc_read() returns and opens, with checks, interface  *)
(* and Steam's answer together.                                            *)
LEMMA PieceReturned ==
  ASSUME SharedInv, NEW u \in FileIds, NEW size \in Int, NEW offset \in Int,
         steam_remote_ugc_read(u, size, offset)
  PROVE  /\ returned'.fn = "ugc_read" /\ returned'.ugc = u
         /\ returned'.size = size /\ returned'.offset = offset
         /\ returned'.ok = Readable(u, size, offset)
         /\ Readable(u, size, offset) =>
              /\ PieceLength(u, size, offset) \in 1..SharedFiles[u]
              /\ offset + PieceLength(u, size, offset) <= SharedFiles[u]
              /\ returned'.bytes =
                   [i \in 1..PieceLength(u, size, offset) |-> <<u, offset + i>>]
         /\ opened' = IF ~Readable(u, size, offset) THEN opened
                      ELSE IF offset + PieceLength(u, size, offset) < SharedFiles[u]
                             THEN opened \cup {u} ELSE opened \ {u}
<1> DEFINE read == PieceLength(u, size, offset)
           ok == Readable(u, size, offset)
<1>0. ok \in BOOLEAN
  BY DEF Readable
<1>1. SharedFiles[u] \in 1..INT32_MAX /\ INT32_MAX \in Nat \ {0}
  BY RemoteAssumption DEF FileIds
<1>2. CASE ArgumentsRefused(size, offset) \/ ~Found(Remote)
  <2>1. returned' = Piece(FALSE, <<>>, u, size, offset) /\ UNCHANGED opened
    BY <1>2 DEF steam_remote_ugc_read
  <2>2. ok = FALSE
    BY <1>1, <1>2 DEF Readable, ArgumentsRefused, UINT32_MAX
  <2> HIDE DEF ok
  <2> QED
    BY <2>1, <2>2 DEF Piece, ok
<1>3. CASE ~ArgumentsRefused(size, offset) /\ Found(Remote)
  <2>1. ReadPiece(u, size, offset)
    BY <1>3 DEF steam_remote_ugc_read
  <2>2. size \in 1..INT32_MAX /\ ToInt32(size) = size /\ ToUint32(offset) = offset
    BY <1>3, ArgumentsFit
  <2>3. offset >= 0
    BY <1>3 DEF ArgumentsRefused
  <2> DEFINE r == UGCRead(u, size, offset)
  <2>4. r = (IF u \in downloaded /\ offset < SharedFiles[u] THEN read ELSE 0)
    BY DEF UGCRead, PieceLength
  <2>5. ok <=> u \in downloaded /\ offset < SharedFiles[u]
    BY <1>1, <1>3, <2>2, <2>3 DEF Readable
  <2>6. ok => read \in 1..SharedFiles[u] /\ offset + read <= SharedFiles[u] /\ read <= size
    BY <1>1, <2>2, <2>3, <2>5 DEF Least, PieceLength
  <2> DEFINE buffer == [i \in 1..size |-> IF i <= r THEN <<u, offset + i>> ELSE Garbage]
  <2>7. IF r <= 0
          THEN returned' = Piece(FALSE, <<>>, u, size, offset) /\ UNCHANGED opened
          ELSE /\ returned' = Piece(TRUE, Truncated(buffer, r), u, size, offset)
               /\ opened' = IF StaysOpen(u, offset + r) THEN opened \cup {u}
                            ELSE opened \ {u}
    BY <2>1, <2>2 DEF ReadPiece
  <2>8. CASE ~ok
    <3>1. r = 0
      BY <2>4, <2>5, <2>8
    <3>2. ok = FALSE
      BY <1>0, <2>8
    <3> HIDE DEF r, ok
    <3>3. returned' = Piece(FALSE, <<>>, u, size, offset) /\ UNCHANGED opened
      BY <2>7, <3>1
    <3> QED
      BY <3>2, <3>3 DEF Piece, ok
  <2>9. CASE ok
    <3>1. r = read /\ read \in 1..size
      BY <2>2, <2>4, <2>5, <2>6, <2>9
    <3> HIDE DEF r, read, ok
    <3>2. Truncated(buffer, r) = [i \in 1..read |-> <<u, offset + i>>]
      <4>1. Len(buffer) = size
        BY <2>2
      <4>2. CASE read < size
        <5>1. Truncated(buffer, r) = SubSeq(buffer, 1, read)
          BY <3>1, <4>1, <4>2 DEF Truncated
        <5>2. SubSeq(buffer, 1, read) = [i \in 1..read |-> buffer[i]]
          BY <2>2, <3>1, <4>1
        <5> QED
          BY <2>2, <3>1, <5>1, <5>2
      <4>3. CASE read = size
        <5>1. Truncated(buffer, r) = buffer
          BY <3>1, <4>1, <4>3 DEF Truncated
        <5> QED
          BY <2>2, <3>1, <4>3, <5>1
      <4> QED
        BY <2>2, <3>1, <4>2, <4>3
    <3> HIDE DEF buffer
    <3>4. ok = TRUE
      BY <1>0, <2>9
    <3>3. /\ returned' = Piece(TRUE, [i \in 1..read |-> <<u, offset + i>>], u, size, offset)
          /\ opened' = IF StaysOpen(u, offset + read) THEN opened \cup {u} ELSE opened \ {u}
      <4>1. ~(r <= 0)
        BY <2>2, <3>1
      <4> QED
        BY <2>7, <3>1, <3>2, <4>1
    <3> QED
      BY <2>6, <3>3, <3>4 DEF Piece, StaysOpen, ok, read
  <2> QED
    BY <2>8, <2>9
<1> QED
  BY <1>2, <1>3

LEMMA SharedKept ==
  ASSUME SharedInv, [Next]_vars
  PROVE  SharedInv'
<1>1. ASSUME NEW u \in FileIds, NEW size \in Lengths, NEW offset \in Lengths,
             steam_remote_ugc_read(u, size, offset)
      PROVE  SharedInv'
  <2> DEFINE read == PieceLength(u, size, offset)
             piece == [i \in 1..read |-> <<u, offset + i>>]
             ok == Readable(u, size, offset)
  <2>1. size \in Int /\ offset \in Int
    BY <1>1, RemoteAssumption
  <2>2. /\ returned'.ok = ok
        /\ ok => /\ read \in 1..SharedFiles[u] /\ offset + read <= SharedFiles[u]
                 /\ returned'.bytes = piece
        /\ opened' \subseteq opened \cup {u} /\ (~ok => opened' = opened)
    BY <1>1, <2>1, PieceReturned
  <2>3. UNCHANGED downloaded
    BY <1>1 DEF steam_remote_ugc_read
  <2>4. opened' \subseteq downloaded' /\ downloaded' \subseteq FileIds
    BY <2>2, <2>3 DEF SharedInv, Readable
  <2>5. assembled' = IF ok /\ offset = Len(assembled[u])
                       THEN [assembled EXCEPT ![u] = @ \o returned'.bytes] ELSE assembled
    BY <1>1, <2>2 DEF steam_remote_ugc_read
  <2>6. CASE ~(ok /\ offset = Len(assembled[u]))
    BY <2>4, <2>5, <2>6 DEF SharedInv
  <2>7. CASE ok /\ offset = Len(assembled[u])
    <3>1. PICK n \in 0..SharedFiles[u] : assembled[u] = Bytes(Content(u), n)
      BY <1>1 DEF SharedInv
    <3>2. n \in Nat /\ read \in Nat /\ SharedFiles[u] \in Nat
      BY <1>1, <2>2, <2>7, <3>1, RemoteAssumption DEF FileIds
    <3>3. offset = n
      BY <1>1, <2>7, <3>1, <3>2, Beginnings
    <3>4. assembled[u] \o piece = Bytes(Content(u), n + read)
      <4>1. piece = [i \in 1..read |-> <<u, n + i>>]
        BY <3>3
      <4> HIDE DEF piece, read
      <4>2. Bytes(Content(u), n) \o [i \in 1..read |-> <<u, n + i>>] = Bytes(Content(u), n + read)
        BY <1>1, <3>2, Beginnings
      <4> QED
        BY <3>1, <4>1, <4>2
    <3>5. n + read \in 0..SharedFiles[u]
      BY <2>2, <2>7, <3>2, <3>3
    <3>6. assembled' = [assembled EXCEPT ![u] = Bytes(Content(u), n + read)]
      BY <2>2, <2>5, <2>7, <3>4
    <3>7. assembled = [v \in FileIds |-> assembled[v]]
      BY DEF SharedInv
    <3>8. ASSUME NEW v \in FileIds
          PROVE  \E k \in 0..SharedFiles[v] : assembled'[v] = Bytes(Content(v), k)
      <4>1. CASE v = u
        BY <1>1, <3>5, <3>6, <3>7, <4>1
      <4>2. CASE v # u
        <5>1. assembled'[v] = assembled[v]
          BY <3>6, <4>2
        <5> QED
          BY <5>1 DEF SharedInv
      <4> QED
        BY <4>1, <4>2
    <3>9. assembled' = [v \in FileIds |-> assembled'[v]]
      BY <1>1, <3>6, <3>7
    <3> QED
      BY <2>4, <3>8, <3>9 DEF SharedInv
  <2> QED
    BY <2>6, <2>7
<1>2. ASSUME NEW u \in FileIds, UGCDownloaded(u) PROVE SharedInv'
  BY <1>2 DEF UGCDownloaded, SharedInv
<1>3. CASE steam_shutdown
  BY <1>3 DEF steam_shutdown, SharedInv
<1>4. CASE UNCHANGED sharedVars
  BY <1>4 DEF sharedVars, SharedInv
<1> QED
  BY <1>1, <1>2, <1>3, <1>4
     DEF Next, CloudFiles, SharedReads, steam_init, SteamSynchronises,
         steam_remote_file_write, steam_remote_file_delete, GetFileSize, FileRead,
         GetFileCount, GetFileNameAndSize, FileListDone, steam_remote_file_exists,
         steam_remote_get_ugc_details, vars, FileIds

(* The answer to the call that has just ended.                             *)
LEMMA ReturnedKept ==
  ASSUME CallInv, SharedInv, ReturnedInv, [Next]_vars
  PROVE  ReturnedInv'
<1>1. ASSUME NEW u \in FileIds, NEW size \in Lengths, NEW offset \in Lengths,
             steam_remote_ugc_read(u, size, offset)
      PROVE  ReturnedInv'
  <2>1. size \in Int /\ offset \in Int
    BY <1>1, RemoteAssumption
  <2>2. UNCHANGED downloaded /\ (Found(Remote)' <=> Found(Remote))
    <3>1. UNCHANGED ifaceVars \/ steamworks_resolve(Remote)
      BY <1>1 DEF steam_remote_ugc_read
    <3> QED
      BY <1>1, <3>1 DEF ifaceVars, steamworks_resolve, Found, StopsAt, FindOrCreate,
                        steam_remote_ugc_read
  <2>3. Readable(u, size, offset)' <=> Readable(u, size, offset)
    BY <2>2 DEF Readable
  <2> DEFINE read == PieceLength(u, size, offset)
  <2>4. /\ returned'.ugc = u /\ returned'.size = size /\ returned'.offset = offset
        /\ returned'.ok = Readable(u, size, offset)
        /\ returned'.ok =>
             /\ returned'.bytes = [i \in 1..read |-> <<u, offset + i>>]
             /\ offset + read = SharedFiles[u] => u \notin opened'
    <3>1. SharedFiles[u] \in Int
      BY <1>1, RemoteAssumption DEF FileIds
    <3>2. /\ returned'.ugc = u /\ returned'.size = size /\ returned'.offset = offset
          /\ returned'.ok = Readable(u, size, offset)
          /\ Readable(u, size, offset) =>
               /\ returned'.bytes = [i \in 1..read |-> <<u, offset + i>>]
               /\ opened' = IF offset + read < SharedFiles[u]
                              THEN opened \cup {u} ELSE opened \ {u}
      BY <1>1, <2>1, PieceReturned
    <3>3. Readable(u, size, offset) /\ offset + read = SharedFiles[u] => u \notin opened'
      <4> HIDE DEF read
      <4> QED
        BY <3>1, <3>2
    <3> HIDE DEF read
    <3> QED
      BY <3>2, <3>3
  <2>5. returned'.ok \in BOOLEAN
    BY <2>4 DEF Readable
  <2>6. ExactPiece(returned)'
    <3>1. /\ returned'.ok = Readable(u, size, offset)'
          /\ returned'.ok => returned'.bytes =
               [i \in 1..Least(size, SharedFiles[u] - offset) |-> <<u, offset + i>>]
          /\ returned'.ok =>
               (offset + Least(size, SharedFiles[u] - offset) = SharedFiles[u] =>
                  u \notin opened')
      <4>1. Readable(u, size, offset)' \in BOOLEAN /\ Readable(u, size, offset) \in BOOLEAN
        BY DEF Readable
      <4>2. Readable(u, size, offset)' = Readable(u, size, offset)
        BY <2>3, <4>1
      <4> QED
        BY <2>4, <4>2 DEF PieceLength
    <3> QED
      BY <1>1, <2>1, <2>4, <3>1 DEF ExactPiece
  <2> QED
    BY <2>5, <2>6 DEF ReturnedInv
<1>2. CASE returned'.ok \in BOOLEAN /\ returned'.fn # "ugc_read"
  BY <1>2 DEF ReturnedInv
<1>3. CASE UNCHANGED <<returned, opened, downloaded, ifaceVars>>
  BY <1>3 DEF ReturnedInv, ExactPiece, Readable, Found, StopsAt, FindOrCreate, ifaceVars
<1>4. ASSUME NEW n \in Names, NEW length \in Lengths, steam_remote_file_write(n, length)
      PROVE  ReturnedInv'
  <2>1. \/ returned' = WriteResult(TRUE, length, ToInt32(length))
        \/ returned' = WriteResult(FALSE, length, 0)
    BY <1>4 DEF steam_remote_file_write
  <2>2. CASE returned' = WriteResult(TRUE, length, ToInt32(length))
    BY <1>2, <2>2 DEF WriteResult
  <2>3. CASE returned' = WriteResult(FALSE, length, 0)
    BY <1>2, <2>3 DEF WriteResult
  <2> QED
    BY <2>1, <2>2, <2>3
<1>5. ASSUME NEW n \in Names, GetFileSize(n) PROVE ReturnedInv'
  <2>1. returned' = Nothing \/ returned' = ReadResult(FALSE, <<>>)
    BY <1>5 DEF GetFileSize
  <2>2. CASE returned' = Nothing
    BY <1>2, <2>2 DEF Nothing
  <2>3. CASE returned' = ReadResult(FALSE, <<>>)
    BY <1>2, <2>3 DEF ReadResult
  <2> QED
    BY <2>1, <2>2, <2>3
<1>6. CASE FileRead
  BY <1>2, <1>6 DEF FileRead, ReadResult
<1>7. CASE GetFileCount
  <2>1. returned' = Nothing \/ returned' = ListResult(FALSE, <<>>)
    BY <1>7 DEF GetFileCount
  <2>2. CASE returned' = Nothing
    BY <1>2, <2>2 DEF Nothing
  <2>3. CASE returned' = ListResult(FALSE, <<>>)
    BY <1>2, <2>3 DEF ListResult
  <2> QED
    BY <2>1, <2>2, <2>3
<1>8. CASE FileListDone
  BY <1>2, <1>8 DEF FileListDone, ListResult
<1>9. CASE GetFileNameAndSize
  BY <1>3, <1>9 DEF GetFileNameAndSize, sharedVars
<1>10. CASE returned' = Nothing
  BY <1>2, <1>10 DEF Nothing
<1>11. CASE UNCHANGED vars
  BY <1>3, <1>11 DEF vars, sharedVars
<1>12. CASE Next
  BY <1>1, <1>4, <1>5, <1>6, <1>7, <1>8, <1>9, <1>10, <1>12
     DEF Next, CloudFiles, SharedReads, steam_init, steam_shutdown, SteamSynchronises,
         steam_remote_file_delete, steam_remote_file_exists, steam_remote_get_ugc_details,
         UGCDownloaded, FileIds
<1> QED
  BY <1>11, <1>12
-----------------------------------------------------------------------------
(* Every step of remote storage keeps the invariant; it implies the types. *)

LEMMA RemoteStepKeeps ==
  ASSUME RemoteInv, [Next]_vars
  PROVE  RemoteInv'
<1>1. IfaceTypeOK'
  <2>1. CASE UNCHANGED vars
    BY <2>1 DEF RemoteInv, vars, ifaceVars, IfaceTypeOK
  <2> QED
    BY <2>1, RemoteInterfaces DEF RemoteInv
<1> QED
  BY <1>1, CallKept, FilesKept, SharedKept, ReturnedKept DEF RemoteInv

LEMMA RemoteTypes == RemoteInv => TypeOK
<1> SUFFICES ASSUME RemoteInv PROVE TypeOK
  OBVIOUS
<1>1. \/ call = Idle
      \/ call.fn = "read" /\ call.name \in Names /\ call.size \in 1..INT32_MAX
      \/ call.fn = "list" /\ Len(call.names) <= call.count /\ call.count <= Cardinality(Names)
  <2>1. call \in {Idle} \cup Reading \cup Listing
    BY DEF RemoteInv, CallInv
  <2>2. call \in Reading => call.fn = "read" /\ call.name \in Names /\ call.size \in 1..INT32_MAX
    BY DEF Reading
  <2>3. ASSUME call \in Listing
        PROVE  call.fn = "list" /\ Len(call.names) <= call.count
               /\ call.count <= Cardinality(Names)
    <3>1. call.fn = "list" /\ call.count \in 0..Cardinality(Names)
      BY <2>3 DEF Listing
    <3> QED
      BY <3>1, DirectoryNamesFiles DEF RemoteInv, CallInv
  <2> QED
    BY <2>1, <2>2, <2>3
<1>2. assembled \in [FileIds -> Seq(FileIds \X (1..INT32_MAX))]
  <2>1. ASSUME NEW u \in FileIds PROVE assembled[u] \in Seq(FileIds \X (1..INT32_MAX))
    <3>1. SharedFiles[u] \in 1..INT32_MAX /\ INT32_MAX \in Nat
      BY <2>1, RemoteAssumption DEF FileIds
    <3>2. PICK n \in 0..SharedFiles[u] : assembled[u] = Bytes(Content(u), n)
      BY <2>1 DEF RemoteInv, SharedInv
    <3>3. n \in Nat /\ 1..n \subseteq 1..INT32_MAX
      BY <3>1, <3>2
    <3>4. assembled[u] = [i \in 1..n |-> <<u, i>>]
      BY <3>2 DEF Bytes, Content
    <3>5. [i \in 1..n |-> <<u, i>>] \in [1..n -> FileIds \X (1..INT32_MAX)]
      BY <2>1, <3>3
    <3> QED
      BY <3>3, <3>4, <3>5
  <2>2. assembled = [u \in FileIds |-> assembled[u]]
    BY DEF RemoteInv, SharedInv
  <2> QED
    BY <2>1, <2>2
<1> QED
  BY <1>1, <1>2 DEF TypeOK, RemoteInv, FilesInv, SharedInv, ReturnedInv

-----------------------------------------------------------------------------
(* The workshop resolves its interface as remote storage does.  A          *)
(* definition the two share has a copy under the name Workshop: the prover *)
(* has to expand both to see that they are the same.                       *)
LEMMA WorkshopInterfaces ==
  /\ UNCHANGED Workshop!ifaceVars <=> UNCHANGED ifaceVars
  /\ Workshop!IfaceTypeOK <=> IfaceTypeOK
  /\ Workshop!IfaceInit <=> IfaceInit
  /\ Workshop!SteamAPI_Shutdown <=> SteamAPI_Shutdown
  /\ \A c : Workshop!SteamAPI_InitFlat(c) <=> SteamAPI_InitFlat(c)
  /\ \A f : Workshop!steamworks_resolve(f) <=> steamworks_resolve(f)
<1>1. Workshop!versions = versions
  BY DEF Workshop!versions, versions, Workshop!user_versions, user_versions,
         Workshop!friends_versions, friends_versions, Workshop!stats_versions,
         stats_versions, Workshop!remote_versions, remote_versions,
         Workshop!apps_versions, apps_versions, Workshop!timeline_versions,
         timeline_versions, Workshop!ugc_versions, ugc_versions,
         Workshop!net_utils_versions, net_utils_versions, Workshop!matchmaking_versions,
         matchmaking_versions, Workshop!utils_versions, utils_versions,
         Workshop!net_versions, net_versions
<1>2. Workshop!Interfaces = Interfaces
  BY <1>1 DEF Workshop!Interfaces, Interfaces
<1>3. \A f, i : Workshop!StopsAt(f, i) <=> StopsAt(f, i)
  BY <1>1 DEF Workshop!StopsAt, StopsAt, Workshop!FindOrCreate, FindOrCreate
<1>4. \A f : Workshop!Found(f) <=> Found(f)
  BY <1>1, <1>3 DEF Workshop!Found, Found
<1>5. \A f : Workshop!Notice(f) = Notice(f)
  BY <1>3, <1>4 DEF Workshop!Notice, Notice
<1>6. \A f : Workshop!steamworks_resolve(f) <=> steamworks_resolve(f)
  BY <1>5 DEF Workshop!steamworks_resolve, steamworks_resolve
<1> QED
  BY <1>1, <1>2, <1>4, <1>6
     DEF Workshop!ifaceVars, ifaceVars, Workshop!IfaceTypeOK, IfaceTypeOK,
         Workshop!IfaceInit, IfaceInit,
         Workshop!SteamAPI_Shutdown, SteamAPI_Shutdown, Workshop!SteamAPI_InitFlat,
         SteamAPI_InitFlat

LEMMA WorkshopSets ==
  /\ \A S : Workshop!Cardinality(S) = Cardinality(S)
  /\ \A S : Workshop!IsFiniteSet(S) <=> IsFiniteSet(S)
  /\ \A f : Workshop!IsInjective(f) <=> IsInjective(f)
  /\ \A s : Workshop!ToSet(s) = ToSet(s)
  /\ \A f : Workshop!Range(f) = Range(f)
BY DEF Workshop!Cardinality, Cardinality, Workshop!IsFiniteSet, IsFiniteSet,
       Workshop!IsInjective, IsInjective, Workshop!ToSet, ToSet, Workshop!Range, Range

LEMMA UgcIsInterface == Workshop!UGC \in Interfaces
BY DEF Workshop!UGC, Interfaces, versions

LEMMA WorkshopIfaceKept ==
  ASSUME IfaceTypeOK, Workshop!Next
  PROVE  IfaceTypeOK'
<1>1. ASSUME NEW client \in Clients, Workshop!SteamAPI_InitFlat(client) PROVE IfaceTypeOK'
  BY <1>1, InitFlatTypes, WorkshopInterfaces
<1>2. CASE Workshop!SteamAPI_Shutdown
  BY <1>2, ShutdownTypes, WorkshopInterfaces
<1>3. CASE Workshop!steamworks_resolve(Workshop!UGC)
  BY <1>3, ResolveTypes, UgcIsInterface, WorkshopInterfaces
<1>4. CASE UNCHANGED Workshop!ifaceVars
  BY <1>4, WorkshopInterfaces DEF IfaceTypeOK, ifaceVars
<1> QED
  BY <1>1, <1>2, <1>3, <1>4
     DEF Workshop!Next, Workshop!steam_init, Workshop!steam_shutdown, Workshop!UserChanges,
         Workshop!Change, Workshop!steam_ugc_subscribe_item,
         Workshop!steam_ugc_unsubscribe_item, Workshop!Ask, Workshop!UgcCall,
         Workshop!SteamWorks, Workshop!steam_ugc_get_subscribed_items,
         Workshop!GetSubscribedItems, Workshop!steam_ugc_start_item_update,
         Workshop!Setters, Workshop!steam_ugc_set_item_title,
         Workshop!steam_ugc_set_item_description, Workshop!steam_ugc_set_item_content,
         Workshop!steam_ugc_set_item_preview, Workshop!steam_ugc_set_item_visibility,
         Workshop!steam_ugc_set_item_tags, Workshop!SetField,
         Workshop!steam_ugc_submit_item_update, Workshop!PassThrough

-----------------------------------------------------------------------------
(* Subscriptions and their list.                                           *)

(* A listing between its two Steam calls: the buffer has room for what     *)
(* there was, which is what there is as long as nothing changes.           *)
InListing == [fn : {"list"}, disabled : BOOLEAN, quiet : BOOLEAN,
              count : 1..Cardinality(Items)]

ListingInv ==
  /\ listing \in {Workshop!Idle} \cup InListing
  /\ listing.fn = "list" /\ listing.quiet =>
       listing.count = Cardinality(Workshop!Counted(listing.disabled))

SubscriptionTypes ==
  /\ subscribed \in [Items -> {"no", "enabled", "disabled"}]
  /\ changes \in 0..MaxChanges
  /\ jobs \subseteq [item : Items, to : {"enabled", "no"}]

ExactList(r) ==
  /\ r.ids \in Seq(Items) /\ IsInjective(r.ids)
  /\ {r.ids[i] : i \in 1..Len(r.ids)} \subseteq Workshop!Counted(r.disabled)
  /\ r.quiet => {r.ids[i] : i \in 1..Len(r.ids)} = Workshop!Counted(r.disabled)

ListedInv == listed = Workshop!Nothing \/ ExactList(listed)

LEMMA SubscriptionsKept ==
  ASSUME Workshop!WorkshopAssumption, SubscriptionTypes, [Workshop!Next]_(Workshop!vars)
  PROVE  SubscriptionTypes'
<1>1. ASSUME NEW i \in Items, NEW to \in {"no", "enabled", "disabled"},
             Workshop!Change(i, to), jobs' \subseteq jobs
      PROVE  SubscriptionTypes'
  BY <1>1 DEF Workshop!Change, SubscriptionTypes, Workshop!WorkshopAssumption
<1>2. ASSUME NEW i \in Items, Workshop!UserChanges(i) PROVE SubscriptionTypes'
  BY <1>1, <1>2 DEF Workshop!UserChanges
<1>3. ASSUME NEW job \in jobs, Workshop!SteamWorks(job) PROVE SubscriptionTypes'
  <2>1. job.item \in Items /\ job.to \in {"no", "enabled", "disabled"}
    BY <1>3 DEF SubscriptionTypes
  <2> QED
    BY <1>1, <1>3, <2>1 DEF Workshop!SteamWorks
<1>4. ASSUME NEW i \in Items, NEW to \in {"enabled", "no"},
             Workshop!Ask([item |-> i, to |-> to])
      PROVE  SubscriptionTypes'
  BY <1>4 DEF Workshop!Ask, SubscriptionTypes
<1>5. CASE UNCHANGED <<subscribed, changes>> /\ jobs' \subseteq jobs
  BY <1>5 DEF SubscriptionTypes
<1>6. CASE UNCHANGED Workshop!vars
  BY <1>5, <1>6 DEF Workshop!vars, Workshop!listVars
<1>7. CASE Workshop!steam_shutdown
  BY <1>5, <1>7 DEF Workshop!steam_shutdown
<1>8. CASE UNCHANGED <<subscribed, changes, jobs>>
  BY <1>5, <1>8
<1> QED
  BY <1>2, <1>3, <1>4, <1>6, <1>7, <1>8
     DEF Workshop!Next, Workshop!steam_init,
         Workshop!steam_ugc_subscribe_item, Workshop!steam_ugc_unsubscribe_item,
         Workshop!steam_ugc_get_subscribed_items,
         Workshop!GetSubscribedItems, Workshop!steam_ugc_start_item_update,
         Workshop!Setters, Workshop!steam_ugc_set_item_title,
         Workshop!steam_ugc_set_item_description, Workshop!steam_ugc_set_item_content,
         Workshop!steam_ugc_set_item_preview, Workshop!steam_ugc_set_item_visibility,
         Workshop!steam_ugc_set_item_tags, Workshop!SetField,
         Workshop!steam_ugc_submit_item_update, Workshop!PassThrough

LEMMA CountedIsFinite ==
  ASSUME Workshop!WorkshopAssumption, NEW disabled
  PROVE  /\ IsFiniteSet(Workshop!Counted(disabled))
         /\ Workshop!Counted(disabled) \subseteq Items
         /\ Cardinality(Workshop!Counted(disabled)) \in 0..Cardinality(Items)
         /\ Cardinality(Items) \in Nat
<1>1. Workshop!Counted(disabled) \subseteq Items /\ IsFiniteSet(Items)
  BY WorkshopSets DEF Workshop!Counted, Workshop!WorkshopAssumption
<1> QED
  BY <1>1, FS_Subset, FS_CardinalityType

LEMMA ListingKept ==
  ASSUME Workshop!WorkshopAssumption, SubscriptionTypes, ListingInv,
         [Workshop!Next]_(Workshop!vars)
  PROVE  ListingInv'
<1>1. ASSUME NEW i, NEW to, Workshop!Change(i, to) PROVE ListingInv'
  <2>1. /\ listing' = [listing EXCEPT !.quiet = FALSE]
        /\ listing \in {Workshop!Idle} \cup InListing
    BY <1>1 DEF Workshop!Change, ListingInv
  <2>2. CASE listing = Workshop!Idle
    <3>1. listing' = Workshop!Idle
      BY <2>1, <2>2 DEF Workshop!Idle
    <3> QED
      BY <3>1 DEF ListingInv, Workshop!Idle
  <2>3. CASE listing \in InListing
    <3>1. listing' \in InListing /\ listing'.quiet = FALSE
      BY <2>1, <2>3 DEF InListing
    <3> QED
      BY <3>1 DEF ListingInv
  <2> QED
    BY <2>1, <2>2, <2>3
<1>2. ASSUME NEW disabled \in BOOLEAN, Workshop!steam_ugc_get_subscribed_items(disabled)
      PROVE  ListingInv'
  <2>1. CASE UNCHANGED listing
    BY <1>2, <2>1 DEF Workshop!steam_ugc_get_subscribed_items, ListingInv, Workshop!Counted
  <2>2. CASE /\ Workshop!BufferSize(disabled) # 0
             /\ listing' = [fn |-> "list", disabled |-> disabled, quiet |-> TRUE,
                            count |-> Workshop!BufferSize(disabled)]
    <3>1. Workshop!BufferSize(disabled) \in 1..Cardinality(Items)
      BY <2>2, CountedIsFinite, WorkshopSets DEF Workshop!BufferSize
    <3>2. listing' \in InListing
      BY <1>2, <2>2, <3>1 DEF InListing
    <3>3. listing'.count = Cardinality(Workshop!Counted(disabled))
      BY <2>2, WorkshopSets DEF Workshop!BufferSize
    <3>4. Workshop!Counted(disabled)' = Workshop!Counted(disabled)
      BY <1>2 DEF Workshop!steam_ugc_get_subscribed_items, Workshop!Counted
    <3>5. listing'.disabled = disabled
      BY <2>2
    <3>6. Workshop!Counted(listing.disabled)' = Workshop!Counted(disabled)
      BY <1>2, <3>5 DEF Workshop!steam_ugc_get_subscribed_items, Workshop!Counted
    <3> QED
      BY <3>2, <3>3, <3>6 DEF ListingInv
  <2> QED
    BY <1>2, <2>1, <2>2 DEF Workshop!steam_ugc_get_subscribed_items
<1>3. CASE listing' = Workshop!Idle
  BY <1>3 DEF ListingInv, Workshop!Idle
<1>4. CASE UNCHANGED <<listing, subscribed>>
  BY <1>4 DEF ListingInv, Workshop!Counted
<1> QED
  BY <1>1, <1>2, <1>3, <1>4
     DEF Workshop!Next, Workshop!vars, Workshop!listVars, Workshop!steam_init,
         Workshop!steam_shutdown, Workshop!UserChanges, Workshop!SteamWorks, Workshop!Ask,
         Workshop!steam_ugc_subscribe_item, Workshop!steam_ugc_unsubscribe_item,
         Workshop!GetSubscribedItems, Workshop!steam_ugc_start_item_update,
         Workshop!Setters, Workshop!steam_ugc_set_item_title,
         Workshop!steam_ugc_set_item_description, Workshop!steam_ugc_set_item_content,
         Workshop!steam_ugc_set_item_preview, Workshop!steam_ugc_set_item_visibility,
         Workshop!steam_ugc_set_item_tags, Workshop!SetField,
         Workshop!steam_ugc_submit_item_update, Workshop!PassThrough

(* The ids Steam has for a listing: all it counts, each of them once.      *)
LEMMA OrderIsSequence ==
  ASSUME NEW S, IsFiniteSet(S), NEW ids \in Workshop!SetToSeqs(S)
  PROVE  /\ ids \in Seq(S) /\ Len(ids) = Cardinality(S) /\ Len(ids) \in Nat
         /\ \A i, j \in 1..Len(ids) : i # j => ids[i] # ids[j]
         /\ {ids[i] : i \in 1..Len(ids)} = S
<1> DEFINE n == Cardinality(S)
<1>1. n \in Nat
  BY FS_CardinalityType
<1>2. ids \in [1..n -> S] /\ \A i, j \in 1..n : i # j => ids[i] # ids[j]
  BY WorkshopSets DEF Workshop!SetToSeqs
<1>3. IsFiniteSet(1..n) /\ Cardinality(1..n) = n
  <2> HIDE DEF n
  <2> QED
    BY <1>1, FS_Interval
<1>4. ids \in Injection(1..n, S)
  BY <1>2 DEF Injection, IsInjective
<1>5. ids \in Surjection(1..n, S)
  BY <1>3, <1>4, FS_Injection
<1>6. {ids[i] : i \in 1..n} = S
  BY <1>2, <1>5 DEF Surjection
<1> HIDE DEF n
<1>7. ids \in Seq(S) /\ Len(ids) = n
  BY <1>1, <1>2
<1> QED
  BY <1>1, <1>2, <1>6, <1>7 DEF n

(* The second Steam call fills what room there is, and the function        *)
(* returns what was filled.                                                *)
LEMMA ListFilled ==
  ASSUME Workshop!WorkshopAssumption, ListingInv, Workshop!GetSubscribedItems
  PROVE  ExactList(listed)'
<1> DEFINE S == Workshop!Counted(listing.disabled)
<1>1. listing \in InListing
  <2>1. listing \in {Workshop!Idle} \cup InListing
    BY DEF ListingInv
  <2>2. listing.fn = "list"
    BY DEF Workshop!GetSubscribedItems
  <2>3. Workshop!Idle.fn = "none"
    BY DEF Workshop!Idle
  <2> QED
    BY <2>1, <2>2, <2>3
<1>2. /\ listing.disabled \in BOOLEAN /\ listing.fn = "list"
      /\ listing.count \in 1..Cardinality(Items)
  BY <1>1 DEF InListing
<1>3. /\ IsFiniteSet(S) /\ S \subseteq Items /\ Cardinality(S) \in Nat
      /\ Cardinality(Items) \in Nat
  BY CountedIsFinite
<1>4. listing.quiet => listing.count = Cardinality(S)
  BY <1>2 DEF ListingInv
<1>5. Workshop!Counted(listing.disabled)' = Workshop!Counted(listing'.disabled)
  <2>1. UNCHANGED subscribed
    BY DEF Workshop!GetSubscribedItems
  <2> QED
    BY <2>1 DEF Workshop!Counted
<1>6. PICK ids \in Workshop!SetToSeqs(S) :
        LET written == IF Len(ids) < listing.count THEN Len(ids) ELSE listing.count
            buffer == [n \in 1..listing.count |-> IF n <= written THEN ids[n] ELSE 0]
        IN listed' = [fn |-> "list", disabled |-> listing.disabled, quiet |-> listing.quiet,
                      ids |-> Workshop!IdsReturned(buffer, written)]
  BY DEF Workshop!GetSubscribedItems
<1> DEFINE written == IF Len(ids) < listing.count THEN Len(ids) ELSE listing.count
           buffer == [n \in 1..listing.count |-> IF n <= written THEN ids[n] ELSE 0]
           filled == [n \in 1..written |-> ids[n]]
<1>7. listed' = [fn |-> "list", disabled |-> listing.disabled, quiet |-> listing.quiet,
                 ids |-> SubSeq(buffer, 1, written)]
  BY <1>6 DEF Workshop!IdsReturned
<1>8. Workshop!Counted(listed.disabled)' = S
  <2>1. UNCHANGED subscribed
    BY DEF Workshop!GetSubscribedItems
  <2>2. listed'.disabled = listing.disabled
    BY <1>7
  <2> QED
    BY <2>1, <2>2 DEF Workshop!Counted
<1> HIDE DEF S
<1>9. /\ ids \in Seq(S) /\ Len(ids) = Cardinality(S) /\ Len(ids) \in Nat
      /\ \A i, j \in 1..Len(ids) : i # j => ids[i] # ids[j]
      /\ {ids[i] : i \in 1..Len(ids)} = S
  BY <1>3, <1>6, OrderIsSequence
<1>10. listing.count \in Nat /\ written \in Nat /\ written <= listing.count
       /\ written <= Len(ids) /\ (listing.count = Len(ids) => written = Len(ids))
  BY <1>2, <1>3, <1>9
<1>11. SubSeq(buffer, 1, written) = filled
  <2>1. Len(buffer) = listing.count
    BY <1>10
  <2> HIDE DEF written
  <2>2. SubSeq(buffer, 1, written) = [n \in 1..written |-> buffer[n]]
    BY <1>10, <2>1
  <2>3. \A n \in 1..written : buffer[n] = ids[n]
    BY <1>10
  <2> HIDE DEF buffer
  <2> QED
    BY <2>2, <2>3
<1> HIDE DEF buffer, written
<1>12. \A n \in 1..written : filled[n] = ids[n] /\ n \in 1..Len(ids) /\ ids[n] \in S
  BY <1>9, <1>10
<1>13. filled \in Seq(Items) /\ Len(filled) = written /\ DOMAIN filled = 1..written
  <2>1. filled \in [1..written -> Items]
    BY <1>3, <1>12
  <2> QED
    BY <1>10, <2>1
<1> HIDE DEF filled
<1>14. IsInjective(filled)
  BY <1>9, <1>12, <1>13 DEF IsInjective
<1>15. {filled[i] : i \in 1..written} \subseteq S
  BY <1>12
<1>16. listing.quiet => {filled[i] : i \in 1..written} = S
  <2>1. listing.quiet => written = Len(ids)
    BY <1>4, <1>9, <1>10 DEF S
  <2> QED
    BY <1>9, <1>12, <2>1
<1>17. listed'.ids = filled /\ listed'.quiet = listing.quiet
  BY <1>7, <1>11
<1> QED
  BY <1>8, <1>13, <1>14, <1>15, <1>16, <1>17 DEF ExactList

LEMMA ListedKept ==
  ASSUME Workshop!WorkshopAssumption, ListingInv, ListedInv, [Workshop!Next]_(Workshop!vars)
  PROVE  ListedInv'
<1>1. CASE Workshop!GetSubscribedItems
  BY <1>1, ListFilled DEF ListedInv
<1>2. CASE listed' = Workshop!Nothing
  BY <1>2 DEF ListedInv, Workshop!Nothing
<1>3. ASSUME NEW disabled \in BOOLEAN, Workshop!steam_ugc_get_subscribed_items(disabled)
      PROVE  ListedInv'
  <2>1. CASE listed' = Workshop!Nothing
    BY <1>2, <2>1
  <2>2. CASE /\ Workshop!BufferSize(disabled) = 0
             /\ listed' = [fn |-> "list", disabled |-> disabled, quiet |-> TRUE, ids |-> <<>>]
    <3>1. Workshop!Counted(disabled) = {}
      BY <2>2, CountedIsFinite, FS_EmptySet, WorkshopSets DEF Workshop!BufferSize
    <3>2. Workshop!Counted(listed.disabled)' = {}
      <4>1. UNCHANGED subscribed /\ listed'.disabled = disabled
        BY <1>3, <2>2 DEF Workshop!steam_ugc_get_subscribed_items
      <4> QED
        BY <3>1, <4>1 DEF Workshop!Counted
    <3>3. listed'.ids = <<>>
      BY <2>2
    <3> QED
      BY <3>2, <3>3 DEF ListedInv, ExactList, IsInjective
  <2> QED
    BY <1>3, <2>1, <2>2 DEF Workshop!steam_ugc_get_subscribed_items
<1>4. CASE UNCHANGED <<listed, subscribed>>
  BY <1>4 DEF ListedInv, ExactList, Workshop!Counted, Workshop!Nothing
<1> QED
  BY <1>1, <1>2, <1>3, <1>4
     DEF Workshop!Next, Workshop!vars, Workshop!listVars, Workshop!steam_init,
         Workshop!steam_shutdown, Workshop!UserChanges, Workshop!SteamWorks, Workshop!Ask,
         Workshop!Change, Workshop!UgcCall,
         Workshop!steam_ugc_subscribe_item, Workshop!steam_ugc_unsubscribe_item,
         Workshop!steam_ugc_start_item_update,
         Workshop!Setters, Workshop!steam_ugc_set_item_title,
         Workshop!steam_ugc_set_item_description, Workshop!steam_ugc_set_item_content,
         Workshop!steam_ugc_set_item_preview, Workshop!steam_ugc_set_item_visibility,
         Workshop!steam_ugc_set_item_tags, Workshop!SetField,
         Workshop!steam_ugc_submit_item_update, Workshop!PassThrough

-----------------------------------------------------------------------------
(* Drafts of updates.                                                      *)

LEMMA LeastOf ==
  ASSUME NEW S \in SUBSET Nat, S # {}
  PROVE  \E x \in S : \A y \in S : x <= y
<1>1. IsWellFoundedOn({ss \in Nat \X Nat : ss[1] < ss[2]}, Nat)
  BY NatLessThanWellFounded DEF OpToRel
<1>2. PICK x \in S : \A y \in S : ~ (<<y, x>> \in {ss \in Nat \X Nat : ss[1] < ss[2]})
  BY <1>1, WFMin
<1>3. ASSUME NEW y \in S PROVE x <= y
  <2>1. <<y, x>> \in Nat \X Nat /\ <<y, x>>[1] = y /\ <<y, x>>[2] = x
    OBVIOUS
  <2>2. ~(y < x)
    BY <1>2, <2>1
  <2>3. x \in Nat /\ y \in Nat
    OBVIOUS
  <2> QED
    BY <2>2, <2>3
<1> QED
  BY <1>3

(* Every string of an array has a place among its strings, and every such  *)
(* place has a string.                                                     *)
LEMMA StringsAreTexts ==
  ASSUME Workshop!WorkshopAssumption, NEW arr \in TagArrays
  PROVE  /\ DOMAIN Workshop!Strings(arr) = 1..Cardinality(Workshop!StringsAt(arr))
         /\ Cardinality(Workshop!StringsAt(arr)) \in Nat
         /\ \A k \in DOMAIN Workshop!Strings(arr) : Workshop!Strings(arr)[k] \in Texts
<1> DEFINE kept == Workshop!StringsAt(arr)
           upTo(n) == {m \in kept : m <= n}
<1>1. arr \in Seq(Texts \cup {NoString})
  BY DEF Workshop!WorkshopAssumption
<1>2. PICK l \in Nat : DOMAIN arr = 1..l /\ \A n \in 1..l : arr[n] \in Texts \cup {NoString}
  BY <1>1
<1>3. kept \subseteq 1..l /\ \A n \in kept : arr[n] \in Texts
  BY <1>2 DEF Workshop!StringsAt
<1>4. IsFiniteSet(kept) /\ Cardinality(kept) \in Nat
  <2>1. IsFiniteSet(1..l)
    BY <1>2, FS_Interval
  <2> HIDE DEF kept
  <2> QED
    BY <1>3, <2>1, FS_Subset, FS_CardinalityType
<1>5. \A n : Workshop!StringsUpTo(arr, n) = Cardinality(upTo(n))
  BY WorkshopSets DEF Workshop!StringsUpTo
<1>6. Workshop!Strings(arr) =
        [k \in 1..Cardinality(kept) |->
           arr[CHOOSE n \in kept : Workshop!StringsUpTo(arr, n) = k]]
  BY WorkshopSets DEF Workshop!Strings
<1> HIDE DEF kept
<1>9. /\ \A n : upTo(n) \subseteq kept
      /\ upTo(l) = kept /\ upTo(0) = {}
      /\ \A n \in Nat \ {0} : n \notin kept => upTo(n) = upTo(n - 1)
      /\ \A n \in Nat \ {0} : n \in kept => upTo(n) = upTo(n - 1) \cup {n}
      /\ \A n \in Nat \ {0} : n \notin upTo(n - 1)
  <2>1. \A n : upTo(n) \subseteq kept
    OBVIOUS
  <2>2. upTo(l) = kept /\ upTo(0) = {}
    <3>1. \A m \in kept : m \in Int /\ m <= l /\ ~(m <= 0)
      BY <1>2, <1>3
    <3> QED
      BY <3>1
  <2>0. \A m \in kept, n \in Nat \ {0} : m <= n <=> m <= n - 1 \/ m = n
    BY <1>2, <1>3
  <2>3. ASSUME NEW n \in Nat \ {0}, n \notin kept PROVE upTo(n) = upTo(n - 1)
    BY <2>0, <2>3
  <2>4. ASSUME NEW n \in Nat \ {0}, n \in kept PROVE upTo(n) = upTo(n - 1) \cup {n}
    BY <2>0, <2>4
  <2>5. \A n \in Nat \ {0} : n \notin upTo(n - 1)
    BY <1>2, <1>3
  <2> QED
    BY <2>1, <2>2, <2>3, <2>4, <2>5
<1> HIDE DEF upTo
<1>7. ASSUME NEW k \in 1..Cardinality(kept)
      PROVE  \E n \in kept : Cardinality(upTo(n)) = k
  <2> DEFINE S == {n \in Nat : Cardinality(upTo(n)) >= k}
  <2>1. \A n \in Nat : IsFiniteSet(upTo(n)) /\ Cardinality(upTo(n)) \in Nat
    BY <1>4, <1>9, FS_Subset, FS_CardinalityType
  <2>2. upTo(l) = kept
    BY <1>9
  <2>3. l \in S
    BY <1>2, <1>4, <1>7, <2>2
  <2>4. PICK n \in S : \A y \in S : n <= y
    <3> HIDE DEF S
    <3>1. S \in SUBSET Nat /\ S # {}
      BY <2>3 DEF S
    <3> QED
      BY <3>1, LeastOf
  <2>5. n \in Nat /\ Cardinality(upTo(n)) >= k
    BY <2>4
  <2>6. n # 0
    <3>1. upTo(0) = {}
      BY <1>9
    <3> QED
      <4>1. Cardinality(upTo(0)) = 0
        BY <3>1, FS_EmptySet
      <4>2. k \in Nat /\ k >= 1
        BY <1>4, <1>7
      <4> QED
        BY <2>5, <4>1, <4>2
  <2>7. n - 1 \in Nat /\ Cardinality(upTo(n - 1)) < k
    <3>1. n - 1 \in Nat /\ ~(n <= n - 1)
      BY <2>5, <2>6
    <3>2. n - 1 \notin S
      BY <2>4, <3>1
    <3> QED
      BY <1>4, <1>7, <2>1, <3>1, <3>2
  <2>8. n \in kept
    <3> SUFFICES ASSUME n \notin kept PROVE FALSE
      OBVIOUS
    <3>1. upTo(n) = upTo(n - 1)
      BY <1>9, <2>5, <2>6
    <3> QED
      BY <1>4, <1>7, <2>1, <2>5, <2>7, <3>1
  <2>9. upTo(n) = upTo(n - 1) \cup {n} /\ n \notin upTo(n - 1)
    BY <1>9, <2>5, <2>6, <2>8
  <2>10. Cardinality(upTo(n)) = Cardinality(upTo(n - 1)) + 1
    BY <2>1, <2>7, <2>9, FS_AddElement
  <2> QED
    BY <1>4, <1>7, <2>1, <2>5, <2>7, <2>8, <2>10
<1>8. ASSUME NEW k \in 1..Cardinality(kept)
      PROVE  Workshop!Strings(arr)[k] \in Texts
  <2>1. (CHOOSE n \in kept : Workshop!StringsUpTo(arr, n) = k) \in kept
    BY <1>5, <1>7, <1>8
  <2> QED
    BY <1>3, <1>6, <1>8, <2>1
<1> QED
  BY <1>4, <1>6, <1>8 DEF kept

(* A text of one part is its first part.                                   *)
LEMMA OnePart ==
  ASSUME Workshop!WorkshopAssumption, NEW text \in Texts, Len(text) = 1
  PROVE  Workshop!CString(text) = text
<1>1. text \in Seq(Range(text)) /\ text # <<>>
  BY WorkshopSets DEF Workshop!WorkshopAssumption
<1> DEFINE R == Range(text)
<1> HIDE DEF R
<1>2. text \in Seq(R)
  BY <1>1 DEF R
<1>3. text = <<text[1]>>
  BY <1>2
<1> QED
  BY <1>2, <1>3 DEF Workshop!CString

LEMMA Wraps ==
  ASSUME NEW m \in Nat, m >= 2, NEW n \in 0..(m - 1)
  PROVE  n % m = n /\ (n - m) % m = n /\ (n + m) % m = n
OBVIOUS

(* The handle Steam gave out is the one every setter passes on, and no two *)
(* handles are the same PHP integer.                                       *)
LEMMA HandleRoundTrip ==
  ASSUME Workshop!WorkshopAssumption, NEW h \in 0..Workshop!UINT64_MAX
  PROVE  Workshop!ToUint64(Workshop!ToLong(h)) = h
<1> DEFINE m == 2 * INT64_MAX + 2
<1>1. INT64_MAX \in Nat /\ INT64_MAX >= 3 /\ ENUM_MAX \in Nat
  BY DEF Workshop!WorkshopAssumption
<1>2. m \in Nat /\ m >= 2 /\ h \in 0..(m - 1)
  BY <1>1 DEF Workshop!UINT64_MAX
<1>3. Workshop!ToUint64(Workshop!ToLong(h)) = (((h + INT64_MAX + 1) % m) - (INT64_MAX + 1)) % m
  BY <1>1 DEF Workshop!ToUint64, Workshop!ToLong, Workshop!Wrapped, Workshop!UINT64_MAX
<1>4. CASE h <= INT64_MAX
  <2>1. h + INT64_MAX + 1 \in 0..(m - 1)
    BY <1>1, <1>2, <1>4
  <2>2. (h + INT64_MAX + 1) % m = h + INT64_MAX + 1 /\ h % m = h
    <3> HIDE DEF m
    <3> QED
      BY <1>2, <2>1, Wraps
  <2>3. (h + INT64_MAX + 1) - (INT64_MAX + 1) = h
    BY <1>1, <1>2
  <2> QED
    BY <1>3, <2>2, <2>3
<1>5. CASE h > INT64_MAX
  <2> DEFINE k == h - INT64_MAX - 1
  <2>1. k \in 0..(m - 1) /\ h + INT64_MAX + 1 = k + m /\ k - (INT64_MAX + 1) = h - m
    BY <1>1, <1>2, <1>5
  <2>2. (k + m) % m = k /\ (h - m) % m = h
    <3> HIDE DEF m, k
    <3> QED
      BY <1>2, <2>1, Wraps
  <2> HIDE DEF k, m
  <2> QED
    BY <1>3, <2>1, <2>2
<1> QED
  BY <1>1, <1>2, <1>4, <1>5

(* An enumerator of the type is cut to itself.                             *)
LEMMA EnumeratorFits ==
  ASSUME Workshop!WorkshopAssumption, NEW v \in Workshop!VisibilityEnumerators
  PROVE  Workshop!ToInt(v) = v
<1> DEFINE m == 2 * ENUM_MAX + 2
<1>1. ENUM_MAX \in Nat /\ ENUM_MAX >= 3 /\ v \in 0..3
  BY DEF Workshop!WorkshopAssumption, Workshop!VisibilityEnumerators
<1>2. m \in Nat /\ m >= 2 /\ v + ENUM_MAX + 1 \in 0..(m - 1)
  BY <1>1
<1>3. (v + ENUM_MAX + 1) % m = v + ENUM_MAX + 1
  <2> HIDE DEF m
  <2> QED
    BY <1>2, Wraps
<1> QED
  BY <1>1, <1>3 DEF Workshop!ToInt, Workshop!Wrapped

Fields == {"title", "description", "content", "preview", "visibility", "tags"}

(* What a script asks for, what Steam is passed for it, and one kept       *)
(* faithfully for the other, edit by edit.                                 *)
AskedEdits == [field : Fields, value : Texts \cup Visibilities \cup TagArrays]
PassedEdits ==
  [field : Fields,
   value : {Workshop!CString(text) : text \in Texts}
             \cup {Workshop!ToInt(v) : v \in Visibilities}
             \cup {Workshop!ParamStringArray(arr) : arr \in TagArrays}]

SameEdit(asked, edit) ==
  edit.field = asked.field /\ Workshop!IsFaithful(asked, edit.value)

SameEdits(asked, edits) ==
  Len(edits) = Len(asked) /\ \A n \in 1..Len(asked) : SameEdit(asked[n], edits[n])

DraftTypes == drafts \in [UpdateHandles -> {"none", "open", "closed"}]

DraftInv ==
  /\ passed \in [UpdateHandles -> Seq(PassedEdits)]
  /\ meant \in [Workshop!PhpHandles -> Seq(AskedEdits)]
  /\ \A h \in UpdateHandles : SameEdits(meant[Workshop!ToLong(h)], passed[h])

LEMMA TextFaithful ==
  ASSUME Workshop!WorkshopAssumption, NEW text \in Texts,
         NEW field \in {"title", "description", "content", "preview"}
  PROVE  /\ [field |-> field, value |-> text] \in AskedEdits
         /\ [field |-> field, value |-> Workshop!CString(text)] \in PassedEdits
         /\ Workshop!IsFaithful([field |-> field, value |-> text], Workshop!CString(text))
<1>1. field # "tags" /\ field # "visibility" /\ field \in Fields
  BY DEF Fields
<1>2. Workshop!IsFaithful([field |-> field, value |-> text], Workshop!CString(text))
  BY <1>1, OnePart DEF Workshop!IsFaithful
<1>3. [field |-> field, value |-> text] \in AskedEdits
  BY <1>1 DEF AskedEdits
<1>4. [field |-> field, value |-> Workshop!CString(text)] \in PassedEdits
  BY <1>1 DEF PassedEdits
<1> QED
  BY <1>2, <1>3, <1>4

LEMMA VisibilityFaithful ==
  ASSUME Workshop!WorkshopAssumption, NEW v \in Visibilities
  PROVE  /\ [field |-> "visibility", value |-> v] \in AskedEdits
         /\ [field |-> "visibility", value |-> Workshop!ToInt(v)] \in PassedEdits
         /\ Workshop!IsFaithful([field |-> "visibility", value |-> v], Workshop!ToInt(v))
<1>1. Workshop!IsFaithful([field |-> "visibility", value |-> v], Workshop!ToInt(v))
  BY EnumeratorFits DEF Workshop!IsFaithful
<1>2. [field |-> "visibility", value |-> v] \in AskedEdits
  BY DEF AskedEdits, Fields
<1>3. [field |-> "visibility", value |-> Workshop!ToInt(v)] \in PassedEdits
  BY DEF PassedEdits, Fields
<1> QED
  BY <1>1, <1>2, <1>3

LEMMA TagsFaithful ==
  ASSUME Workshop!WorkshopAssumption, NEW arr \in TagArrays
  PROVE  /\ [field |-> "tags", value |-> arr] \in AskedEdits
         /\ [field |-> "tags", value |-> Workshop!ParamStringArray(arr)] \in PassedEdits
         /\ Workshop!IsFaithful([field |-> "tags", value |-> arr],
                                Workshop!ParamStringArray(arr))
<1> DEFINE strings == Workshop!Strings(arr)
<1>1. strings = [k \in DOMAIN strings |-> strings[k]]
  BY DEF Workshop!Strings
<1> HIDE DEF strings
<1>6. \A k \in DOMAIN strings : strings[k] \in Texts
  BY StringsAreTexts DEF strings
<1>2. ASSUME \A n \in DOMAIN strings : Len(strings[n]) = 1
      PROVE  Workshop!ParamStringArray(arr) = strings
  <2>1. \A n \in DOMAIN strings : Workshop!CString(strings[n]) = strings[n]
    BY <1>2, <1>6, OnePart
  <2>2. Workshop!ParamStringArray(arr) =
          [n \in DOMAIN strings |-> Workshop!CString(strings[n])]
    BY DEF Workshop!ParamStringArray, strings
  <2>3. [n \in DOMAIN strings |-> Workshop!CString(strings[n])]
          = [n \in DOMAIN strings |-> strings[n]]
    BY <2>1
  <2> QED
    BY <1>1, <2>2, <2>3
<1>3. Workshop!IsFaithful([field |-> "tags", value |-> arr], Workshop!ParamStringArray(arr))
  BY <1>2 DEF Workshop!IsFaithful, strings
<1>4. [field |-> "tags", value |-> arr] \in AskedEdits
  BY DEF AskedEdits, Fields
<1>5. [field |-> "tags", value |-> Workshop!ParamStringArray(arr)] \in PassedEdits
  BY DEF PassedEdits, Fields
<1> QED
  BY <1>3, <1>4, <1>5

LEMMA EditAdded ==
  ASSUME NEW asked \in Seq(AskedEdits), NEW edits \in Seq(PassedEdits),
         SameEdits(asked, edits), NEW a \in AskedEdits, NEW e \in PassedEdits,
         SameEdit(a, e)
  PROVE  /\ Append(asked, a) \in Seq(AskedEdits) /\ Append(edits, e) \in Seq(PassedEdits)
         /\ SameEdits(Append(asked, a), Append(edits, e))
<1> DEFINE s == Append(asked, a)
           t == Append(edits, e)
<1>1. /\ s \in Seq(AskedEdits) /\ Len(s) = Len(asked) + 1 /\ s[Len(asked) + 1] = a
      /\ \A i \in 1..Len(asked) : s[i] = asked[i]
  BY AppendProperties
<1>2. /\ t \in Seq(PassedEdits) /\ Len(t) = Len(edits) + 1 /\ t[Len(edits) + 1] = e
      /\ \A i \in 1..Len(edits) : t[i] = edits[i]
  BY AppendProperties
<1>3. Len(asked) \in Nat /\ Len(edits) = Len(asked)
      /\ \A n \in 1..Len(asked) : SameEdit(asked[n], edits[n])
  BY DEF SameEdits
<1> HIDE DEF s, t
<1>4. ASSUME NEW n \in 1..Len(s) PROVE SameEdit(s[n], t[n])
  <2>1. CASE n \in 1..Len(asked)
    <3>1. s[n] = asked[n] /\ t[n] = edits[n]
      BY <1>1, <1>2, <1>3, <2>1
    <3> QED
      BY <1>3, <2>1, <3>1
  <2>2. CASE n = Len(asked) + 1
    <3>1. s[n] = a /\ t[n] = e
      BY <1>1, <1>2, <1>3, <2>2
    <3> QED
      BY <3>1
  <2> QED
    BY <1>1, <1>3, <1>4, <2>1, <2>2
<1>5. SameEdits(s, t)
  BY <1>1, <1>2, <1>3, <1>4 DEF SameEdits
<1> QED
  BY <1>1, <1>2, <1>5 DEF s, t

(* A setter appends to the draft of its handle what the script asked for   *)
(* under the same handle, and to no other.                                 *)
LEMMA FieldSet ==
  ASSUME Workshop!WorkshopAssumption, DraftInv,
         NEW handle \in Workshop!PhpHandles
                          \cup {Workshop!ToLong(Workshop!k_UGCUpdateHandleInvalid)},
         NEW field, NEW asked, NEW value,
         [field |-> field, value |-> asked] \in AskedEdits,
         [field |-> field, value |-> value] \in PassedEdits,
         Workshop!IsFaithful([field |-> field, value |-> asked], value),
         Workshop!SetField(handle, field, asked, value)
  PROVE  DraftInv'
<1> DEFINE h == Workshop!ToUint64(handle)
           a == [field |-> field, value |-> asked]
           e == [field |-> field, value |-> value]
<1>1. CASE UNCHANGED Workshop!draftVars
  BY <1>1 DEF Workshop!draftVars, DraftInv
<1>2. CASE /\ Workshop!IsOpen(h)
           /\ passed' = [passed EXCEPT ![h] = Append(@, e)]
           /\ meant' = [meant EXCEPT ![handle] = Append(@, a)]
  <2>1. UpdateHandles \subseteq 0..Workshop!UINT64_MAX
        /\ Workshop!UINT64_MAX \in 0..Workshop!UINT64_MAX
        /\ Workshop!UINT64_MAX \notin UpdateHandles
    BY DEF Workshop!WorkshopAssumption, Workshop!UINT64_MAX
  <2>2. h \in UpdateHandles
    BY <1>2 DEF Workshop!IsOpen
  <2>3. handle = Workshop!ToLong(h) /\ handle \in Workshop!PhpHandles
    <3>1. PICK g \in 0..Workshop!UINT64_MAX : handle = Workshop!ToLong(g)
      BY <2>1 DEF Workshop!PhpHandles, Workshop!k_UGCUpdateHandleInvalid
    <3>2. h = g
      BY <3>1, HandleRoundTrip
    <3> QED
      BY <2>2, <3>1, <3>2 DEF Workshop!PhpHandles
  <2>4. \A g \in UpdateHandles : g # h => Workshop!ToLong(g) # handle
    BY <2>1, <2>3, HandleRoundTrip
  <2>5. \A g \in UpdateHandles : Workshop!ToLong(g) \in Workshop!PhpHandles
    BY DEF Workshop!PhpHandles
  <2>6. a \in AskedEdits /\ e \in PassedEdits /\ SameEdit(a, e)
    BY DEF SameEdit
  <2> HIDE DEF h, a, e
  <2>7. /\ meant[handle] \in Seq(AskedEdits) /\ passed[h] \in Seq(PassedEdits)
        /\ SameEdits(meant[handle], passed[h])
    BY <2>2, <2>3 DEF DraftInv
  <2>8. /\ Append(meant[handle], a) \in Seq(AskedEdits)
        /\ Append(passed[h], e) \in Seq(PassedEdits)
        /\ SameEdits(Append(meant[handle], a), Append(passed[h], e))
    BY <2>6, <2>7, EditAdded
  <2>9. /\ passed' \in [UpdateHandles -> Seq(PassedEdits)]
        /\ meant' \in [Workshop!PhpHandles -> Seq(AskedEdits)]
    BY <1>2, <2>8 DEF DraftInv, h, a, e
  <2>10. ASSUME NEW g \in UpdateHandles
         PROVE  SameEdits(meant'[Workshop!ToLong(g)], passed'[g])
    <3>1. CASE g = h
      <4>1. /\ meant'[handle] = Append(meant[handle], a)
            /\ passed'[h] = Append(passed[h], e)
        BY <1>2, <2>2, <2>3 DEF DraftInv, h, a, e
      <4> QED
        BY <2>3, <2>8, <3>1, <4>1
    <3>2. CASE g # h
      <4>1. /\ meant'[Workshop!ToLong(g)] = meant[Workshop!ToLong(g)]
            /\ passed'[g] = passed[g]
        BY <1>2, <2>4, <2>5, <2>10, <3>2 DEF DraftInv, h
      <4> QED
        BY <2>10, <4>1 DEF DraftInv
    <3> QED
      BY <3>1, <3>2
  <2> QED
    BY <2>9, <2>10 DEF DraftInv
<1> QED
  BY <1>1, <1>2 DEF Workshop!SetField

LEMMA DraftsKept ==
  ASSUME Workshop!WorkshopAssumption, DraftTypes, DraftInv, [Workshop!Next]_(Workshop!vars)
  PROVE  DraftTypes' /\ DraftInv'
<1> DEFINE Handles == Workshop!PhpHandles
                        \cup {Workshop!ToLong(Workshop!k_UGCUpdateHandleInvalid)}
<1>1. ASSUME NEW handle \in Handles, Workshop!Setters(handle) PROVE DraftTypes' /\ DraftInv'
  <2>1. ASSUME NEW field, NEW asked, NEW value,
               Workshop!SetField(handle, field, asked, value)
        PROVE  DraftTypes'
    BY <2>1 DEF Workshop!SetField, Workshop!draftVars, DraftTypes
  <2>2. ASSUME NEW text \in Texts,
               \/ Workshop!steam_ugc_set_item_title(handle, text)
               \/ Workshop!steam_ugc_set_item_description(handle, text)
               \/ Workshop!steam_ugc_set_item_content(handle, text)
               \/ Workshop!steam_ugc_set_item_preview(handle, text)
        PROVE  DraftTypes' /\ DraftInv'
    <3>1. PICK field \in {"title", "description", "content", "preview"} :
            Workshop!SetField(handle, field, text, Workshop!CString(text))
      BY <2>2 DEF Workshop!steam_ugc_set_item_title,
                  Workshop!steam_ugc_set_item_description,
                  Workshop!steam_ugc_set_item_content, Workshop!steam_ugc_set_item_preview
    <3>2. /\ [field |-> field, value |-> text] \in AskedEdits
          /\ [field |-> field, value |-> Workshop!CString(text)] \in PassedEdits
          /\ Workshop!IsFaithful([field |-> field, value |-> text], Workshop!CString(text))
      BY <2>2, TextFaithful
    <3> QED
      BY <1>1, <2>1, <3>1, <3>2, FieldSet
  <2>3. ASSUME NEW v \in Visibilities, Workshop!steam_ugc_set_item_visibility(handle, v)
        PROVE  DraftTypes' /\ DraftInv'
    <3>1. Workshop!SetField(handle, "visibility", v, Workshop!ToInt(v))
      BY <2>3 DEF Workshop!steam_ugc_set_item_visibility
    <3>2. /\ [field |-> "visibility", value |-> v] \in AskedEdits
          /\ [field |-> "visibility", value |-> Workshop!ToInt(v)] \in PassedEdits
          /\ Workshop!IsFaithful([field |-> "visibility", value |-> v], Workshop!ToInt(v))
      BY <2>3, VisibilityFaithful
    <3> QED
      BY <1>1, <2>1, <3>1, <3>2, FieldSet
  <2>4. ASSUME NEW arr \in TagArrays, Workshop!steam_ugc_set_item_tags(handle, arr)
        PROVE  DraftTypes' /\ DraftInv'
    <3>1. Workshop!SetField(handle, "tags", arr, Workshop!ParamStringArray(arr))
      BY <2>4 DEF Workshop!steam_ugc_set_item_tags
    <3>2. /\ [field |-> "tags", value |-> arr] \in AskedEdits
          /\ [field |-> "tags", value |-> Workshop!ParamStringArray(arr)] \in PassedEdits
          /\ Workshop!IsFaithful([field |-> "tags", value |-> arr],
                                 Workshop!ParamStringArray(arr))
      BY <2>4, TagsFaithful
    <3> QED
      BY <1>1, <2>1, <3>1, <3>2, FieldSet
  <2> QED
    BY <1>1, <2>2, <2>3, <2>4 DEF Workshop!Setters
<1>2. CASE UNCHANGED <<passed, meant>> /\ DraftTypes'
  BY <1>2 DEF DraftInv
<1>3. CASE UNCHANGED Workshop!draftVars
  BY <1>2, <1>3 DEF Workshop!draftVars, DraftTypes
<1>4. CASE Workshop!steam_ugc_start_item_update
  BY <1>2, <1>4 DEF Workshop!steam_ugc_start_item_update, DraftTypes
<1>5. ASSUME NEW handle, Workshop!steam_ugc_submit_item_update(handle)
      PROVE  DraftTypes' /\ DraftInv'
  BY <1>2, <1>5 DEF Workshop!steam_ugc_submit_item_update, DraftTypes
<1>6. CASE Workshop!steam_shutdown
  BY <1>2, <1>6 DEF Workshop!steam_shutdown, DraftTypes
<1>7. CASE UNCHANGED Workshop!vars
  BY <1>3, <1>7 DEF Workshop!vars
<1> HIDE DEF Handles
<1>8. CASE Workshop!Next
  <2>1. \/ \E handle \in Handles :
             Workshop!Setters(handle) \/ Workshop!steam_ugc_submit_item_update(handle)
        \/ UNCHANGED Workshop!draftVars \/ Workshop!steam_shutdown
        \/ Workshop!steam_ugc_start_item_update
    BY <1>8
       DEF Handles, Workshop!Next, Workshop!steam_init, Workshop!UserChanges,
           Workshop!SteamWorks, Workshop!Ask, Workshop!Change,
           Workshop!steam_ugc_subscribe_item, Workshop!steam_ugc_unsubscribe_item,
           Workshop!steam_ugc_get_subscribed_items, Workshop!GetSubscribedItems,
           Workshop!PassThrough
  <2> QED
    BY <1>1, <1>3, <1>4, <1>5, <1>6, <2>1
<1> QED
  BY <1>7, <1>8

-----------------------------------------------------------------------------
(* Every step of the workshop keeps the invariant.                         *)

WorkshopInv ==
  IfaceTypeOK /\ SubscriptionTypes /\ ListingInv /\ ListedInv /\ DraftTypes /\ DraftInv

LEMMA WorkshopInitially ==
  ASSUME Workshop!WorkshopAssumption, Workshop!Init
  PROVE  WorkshopInv
<1>1. IfaceTypeOK
  BY IfaceInitTypes, WorkshopInterfaces DEF Workshop!Init
<1>2. SubscriptionTypes
  BY DEF Workshop!Init, Workshop!WorkshopAssumption, SubscriptionTypes
<1>3. ListingInv /\ ListedInv
  BY DEF Workshop!Init, ListingInv, ListedInv, Workshop!Idle
<1>4. DraftTypes
  BY DEF Workshop!Init, DraftTypes
<1>5. DraftInv
  <2>1. \A h \in UpdateHandles : Workshop!ToLong(h) \in Workshop!PhpHandles
    BY DEF Workshop!PhpHandles
  <2>2. \A h \in UpdateHandles : meant[Workshop!ToLong(h)] = <<>> /\ passed[h] = <<>>
    BY <2>1 DEF Workshop!Init
  <2>3. SameEdits(<<>>, <<>>)
    BY DEF SameEdits
  <2>4. /\ passed \in [UpdateHandles -> Seq(PassedEdits)]
        /\ meant \in [Workshop!PhpHandles -> Seq(AskedEdits)]
    <3>1. <<>> \in Seq(PassedEdits) /\ <<>> \in Seq(AskedEdits)
      OBVIOUS
    <3> QED
      BY <3>1 DEF Workshop!Init
  <2> QED
    BY <2>2, <2>3, <2>4 DEF DraftInv
<1> QED
  BY <1>1, <1>2, <1>3, <1>4, <1>5 DEF WorkshopInv

LEMMA WorkshopStepKeeps ==
  ASSUME Workshop!WorkshopAssumption, WorkshopInv, [Workshop!Next]_(Workshop!vars)
  PROVE  WorkshopInv'
<1>1. IfaceTypeOK'
  <2>1. CASE UNCHANGED Workshop!vars
    BY <2>1, WorkshopInterfaces DEF WorkshopInv, Workshop!vars, IfaceTypeOK, ifaceVars
  <2> QED
    BY <2>1, WorkshopIfaceKept DEF WorkshopInv
<1> QED
  BY <1>1, SubscriptionsKept, ListingKept, ListedKept, DraftsKept DEF WorkshopInv

-----------------------------------------------------------------------------
(* Both parts together.  In a behaviour of the workshop, no function of    *)
(* remote storage has returned anything.                                   *)
ContentInv ==
  RemoteInv /\ WorkshopInv /\ (scene # "storage" => returned = Nothing)

LEMMA WorkshopUntouched ==
  ASSUME WorkshopInv, UNCHANGED workshopVars, IfaceTypeOK'
  PROVE  WorkshopInv'
<1>1. /\ subscribed' = subscribed /\ changes' = changes /\ jobs' = jobs
      /\ listing' = listing /\ listed' = listed
      /\ drafts' = drafts /\ passed' = passed /\ meant' = meant
  BY DEF workshopVars
<1>2. \A d : Workshop!Counted(d)' = Workshop!Counted(d)
  BY <1>1 DEF Workshop!Counted
<1>3. SubscriptionTypes' /\ DraftTypes'
  BY <1>1 DEF WorkshopInv, SubscriptionTypes, DraftTypes
<1>4. ListingInv'
  BY <1>1, <1>2 DEF WorkshopInv, ListingInv
<1>5. ListedInv'
  BY <1>1, <1>2 DEF WorkshopInv, ListedInv, ExactList
<1>6. DraftInv'
  BY <1>1 DEF WorkshopInv, DraftInv
<1> QED
  BY <1>3, <1>4, <1>5, <1>6 DEF WorkshopInv

LEMMA StorageKeeps ==
  ASSUME ContentInv, StorageStep
  PROVE  ContentInv'
<1>1. RemoteInv'
  BY RemoteStepKeeps DEF ContentInv, StorageStep
<1>2. UNCHANGED workshopVars /\ scene = "storage" /\ scene' = scene
  BY DEF StorageStep
<1>3. WorkshopInv'
  BY <1>1, <1>2, WorkshopUntouched DEF ContentInv, RemoteInv
<1> QED
  BY <1>1, <1>2, <1>3 DEF ContentInv

LEMMA WorkshopKeeps ==
  ASSUME ContentInv, WorkshopStep
  PROVE  ContentInv'
<1>1. WorkshopInv'
  BY WorkshopStepKeeps, ContentAssumption DEF ContentInv, WorkshopStep
<1>2. /\ UNCHANGED <<cloudVars, sharedVars, returned>>
      /\ scene = "workshop" /\ scene' = scene
  BY DEF WorkshopStep
<1>3. returned = Nothing
  BY <1>2 DEF ContentInv
<1>4. CallInv' /\ FilesInv' /\ SharedInv'
  BY <1>2 DEF ContentInv, RemoteInv, cloudVars, sharedVars, CallInv, FilesInv, SharedInv,
     Directory
<1>5. ReturnedInv'
  BY <1>2, <1>3 DEF ReturnedInv, Nothing
<1> QED
  BY <1>1, <1>2, <1>3, <1>4, <1>5 DEF ContentInv, RemoteInv, WorkshopInv

LEMMA ContentIsKept == ContentSpec => []ContentInv
<1>1. ContentInit => ContentInv
  BY RemoteInitially, WorkshopInitially, ContentAssumption DEF ContentInit, ContentInv, Init
<1>2. ContentInv /\ [ContentNext]_contentVars => ContentInv'
  <2>1. ASSUME ContentInv, UNCHANGED contentVars PROVE ContentInv'
    <3>1. UNCHANGED vars /\ UNCHANGED workshopVars /\ scene' = scene
      BY <2>1 DEF contentVars
    <3>2. RemoteInv'
      BY <2>1, <3>1, RemoteStepKeeps DEF ContentInv
    <3>3. WorkshopInv'
      BY <2>1, <3>1, <3>2, WorkshopUntouched DEF ContentInv, RemoteInv
    <3> QED
      BY <2>1, <3>1, <3>2, <3>3 DEF ContentInv, vars
  <2> QED
    BY <2>1, StorageKeeps, WorkshopKeeps DEF ContentNext
<1> QED
  BY <1>1, <1>2, PTL DEF ContentSpec

-----------------------------------------------------------------------------
(* The theorems.                                                           *)

(* For any files, sizes and widths: a piece is the bytes at the offset the *)
(* script passed, as many as it asked for or as there are, and FALSE only  *)
(* if there is none to read (steam_remote_ugc_read); the types hold.       *)
THEOREM PiecesAreExact == ContentSpec => []PieceIsExact
<1>1. RemoteInv => PieceIsExact
  BY RemoteTypes DEF RemoteInv, ReturnedInv, ExactPiece, PieceIsExact
<1> QED
  BY <1>1, ContentIsKept, PTL DEF ContentInv

(* For any files, sizes and widths: pieces put together are the beginning  *)
(* of the file, and reading its last byte closes it (steam_remote_ugc_read *)
(* with k_EUGCRead_ContinueReadingUntilFinished).                          *)
THEOREM PiecesMakeUpTheWhole == ContentSpec => []PiecesMakeUpTheFile
<1>1. ASSUME RemoteInv PROVE PiecesMakeUpTheFile
  <2>1. ASSUME NEW u \in FileIds
        PROVE  IsPrefix(assembled[u], Bytes(Content(u), SharedFiles[u]))
    <3>1. SharedFiles[u] \in Nat
      BY <2>1, RemoteAssumption DEF FileIds
    <3>2. PICK n \in 0..SharedFiles[u] : assembled[u] = Bytes(Content(u), n)
      BY <1>1, <2>1 DEF RemoteInv, SharedInv
    <3> DEFINE m == SharedFiles[u]
               a == [i \in 1..n |-> <<u, i>>]
               b == [i \in 1..m |-> <<u, i>>]
    <3>3. assembled[u] = a /\ Bytes(Content(u), m) = b
      BY <3>2 DEF Bytes, Content
    <3>4. n \in Nat /\ n <= m /\ Len(a) = n /\ Len(b) = m /\ a \in Seq(FileIds \X Int)
          /\ b \in Seq(FileIds \X Int)
      BY <2>1, <3>1, <3>2
    <3>5. SubSeq(a, 1, n) = [i \in 1..n |-> a[i]] /\ SubSeq(b, 1, n) = [i \in 1..n |-> b[i]]
      BY <3>1, <3>4
    <3>6. \A i \in 1..n : a[i] = b[i]
      BY <3>1, <3>4
    <3> HIDE DEF a, b, m
    <3>7. SubSeq(a, 1, Len(a)) = SubSeq(b, 1, Len(a))
      BY <3>4, <3>5, <3>6
    <3> QED
      BY <3>3, <3>4, <3>7 DEF IsPrefix, m
  <2>2. ASSUME returned.fn = "ugc_read", returned.ok,
               returned.offset + Len(returned.bytes) = SharedFiles[returned.ugc]
        PROVE  returned.ugc \notin opened
    <3> DEFINE u == returned.ugc
               n == Least(returned.size, SharedFiles[u] - returned.offset)
    <3>1. ExactPiece(returned) /\ Readable(u, returned.size, returned.offset)
      BY <1>1, <2>2 DEF RemoteInv, ReturnedInv, ExactPiece
    <3>2. u \in FileIds /\ returned.size \in Int /\ returned.offset \in Int
          /\ SharedFiles[u] \in Int
      BY <3>1, RemoteAssumption DEF ExactPiece, FileIds
    <3>3. n \in Nat
      BY <3>1, <3>2 DEF Readable, Least
    <3>4. returned.bytes = [i \in 1..n |-> <<u, returned.offset + i>>]
      BY <2>2, <3>1 DEF ExactPiece
    <3>5. Len(returned.bytes) = n
      <4> HIDE DEF n, u
      <4> QED
        BY <3>3, <3>4
    <3> QED
      BY <2>2, <3>1, <3>5 DEF ExactPiece
  <2> QED
    BY <2>1, <2>2 DEF PiecesMakeUpTheFile
<1> QED
  BY <1>1, ContentIsKept, PTL DEF ContentInv

(* For any files and whatever Steam changes between its two calls: a read  *)
(* returns one version of the file from its beginning, and all of it if    *)
(* nothing changed (steam_remote_file_read).                               *)
THEOREM ReadsAreOneVersion == ContentSpec => ReadIsOneVersion
<1>1. ASSUME RemoteInv, FileRead, returned'.ok
      PROVE  /\ IsOneVersion(returned'.bytes)
             /\ Len(returned'.bytes) <= call.size
             /\ call.quiet =>
                  returned'.bytes = Bytes(files[call.name], files[call.name].size)
  <2> DEFINE content == files[call.name]
             read == Least(content.size, call.size)
             buffer == [i \in 1..call.size |->
                          IF i <= read THEN <<content.version, i>> ELSE Garbage]
  <2>1. call.fn = "read"
    BY <1>1 DEF FileRead
  <2>2. call.name \in Names /\ call.size \in 1..INT32_MAX /\ INT32_MAX \in Nat
    <3>1. call \in {Idle} \cup Reading \cup Listing
      BY <1>1 DEF RemoteInv, CallInv
    <3>2. call \in Reading
      <4>1. call = Idle => call.fn = "none"
        BY DEF Idle
      <4>2. call \in Listing => call.fn = "list"
        BY DEF Listing
      <4> QED
        BY <2>1, <3>1, <4>1, <4>2
    <3> QED
      BY <3>2, RemoteAssumption DEF Reading
  <2>3. content \in Contents(0..MaxVersions) /\ (content.size > 0 => content.version >= 1)
    BY <1>1, <2>2 DEF RemoteInv, FilesInv
  <2>4. content.size \in Nat /\ content.version \in 0..MaxVersions
    BY <2>2, <2>3 DEF Contents
  <2>5. returned' = IF read <= 0 THEN ReadResult(FALSE, <<>>)
                    ELSE ReadResult(TRUE, FileReadString(buffer, read))
    BY <1>1 DEF FileRead
  <2>6. read \in Nat /\ read <= call.size /\ read <= content.size
    BY <2>2, <2>4 DEF Least
  <2>7. read > 0 /\ returned'.bytes = SubSeq(buffer, 1, read)
    <3>1. CASE read <= 0
      BY <1>1, <2>5, <3>1 DEF ReadResult
    <3>2. CASE ~(read <= 0)
      <4>1. returned' = ReadResult(TRUE, FileReadString(buffer, read))
        BY <2>5, <3>2
      <4> QED
        BY <2>6, <3>2, <4>1 DEF ReadResult, FileReadString
    <3> QED
      BY <3>1, <3>2
  <2>8. SubSeq(buffer, 1, read) = [i \in 1..read |-> <<content.version, i>>]
    <3>1. Len(buffer) = call.size
      BY <2>2
    <3> HIDE DEF read, content
    <3>2. SubSeq(buffer, 1, read) = [i \in 1..read |-> buffer[i]]
      BY <2>2, <2>6, <3>1
    <3>3. \A i \in 1..read : buffer[i] = <<content.version, i>>
      BY <2>2, <2>6
    <3> HIDE DEF buffer
    <3> QED
      BY <3>2, <3>3
  <2> HIDE DEF buffer
  <2>9. returned'.bytes = Bytes(content, read) /\ Len(returned'.bytes) = read
    <3>1. returned'.bytes = [i \in 1..read |-> <<content.version, i>>]
      BY <2>7, <2>8
    <3> HIDE DEF read, content
    <3> QED
      BY <2>6, <3>1 DEF Bytes
  <2>10. IsOneVersion(returned'.bytes)
    <3>1. content.version \in 1..MaxVersions
      BY <2>3, <2>4, <2>6, <2>7, RemoteAssumption
    <3>2. Bytes(content, read) = Bytes([version |-> content.version], read)
      BY DEF Bytes
    <3> QED
      BY <2>9, <3>1, <3>2 DEF IsOneVersion
  <2>11. call.quiet => read = content.size
    BY <1>1, <2>1, <2>4 DEF RemoteInv, CallInv, Least
  <2> QED
    BY <2>6, <2>9, <2>10, <2>11
<1>2. ContentInv /\ [ContentNext]_contentVars => [FileRead /\ returned'.ok =>
       /\ IsOneVersion(returned'.bytes)
       /\ Len(returned'.bytes) <= call.size
       /\ call.quiet => returned'.bytes = Bytes(files[call.name], files[call.name].size)]_vars
  BY <1>1 DEF ContentInv, contentVars
<1> QED
  BY <1>2, ContentIsKept, PTL DEF ContentSpec, ReadIsOneVersion

(* For any files: a list made while none of them changed names each of     *)
(* them once and nothing else (steam_remote_file_list).                    *)
THEOREM ListsAreExact == ContentSpec => ListIsExact
<1>1. ASSUME RemoteInv, FileListDone, call.quiet
      PROVE  /\ ToSet(returned'.names) = {n \in Names : files[n] # NoFile}
             /\ IsInjective(returned'.names)
  <2>1. call.fn = "list" /\ Len(call.names) = call.count
        /\ returned' = ListResult(TRUE, call.names)
    BY <1>1 DEF FileListDone
  <2>2. call.names \in Seq(Names \cup {""})
    <3>1. call \in {Idle} \cup Reading \cup Listing
      BY <1>1 DEF RemoteInv, CallInv
    <3>2. call \in Listing
      BY <2>1, <3>1 DEF Idle, Reading
    <3> QED
      BY <3>2 DEF Listing
  <2>3. /\ call.count = Len(Directory)
        /\ \A i \in 1..Len(call.names) : call.names[i] = Directory[i]
    BY <1>1, <2>1 DEF RemoteInv, CallInv
  <2>4. call.names = Directory
    <3>1. Directory \in Seq(Names \cup {""})
      <4> DEFINE all == Names \cup {""}
      <4>1. Files \subseteq all
        BY DEF Files
      <4> HIDE DEF all
      <4>2. Directory \in Seq(all)
        BY <4>1, DirectoryNamesFiles
      <4> QED
        BY <4>2 DEF all
    <3>2. Len(call.names) = Len(Directory)
      BY <2>1, <2>3
    <3> QED
      BY <2>2, <2>3, <3>1, <3>2, SeqEqual
  <2>5. returned'.names = Directory
    BY <2>1, <2>4 DEF ListResult
  <2> QED
    BY <2>5, DirectoryNamesFiles DEF ToSet, Files
<1>2. ContentInv /\ [ContentNext]_contentVars => [FileListDone /\ call.quiet =>
       /\ ToSet(returned'.names) = {n \in Names : files[n] # NoFile}
       /\ IsInjective(returned'.names)]_vars
  BY <1>1 DEF ContentInv, contentVars
<1> QED
  BY <1>2, ContentIsKept, PTL DEF ContentSpec, ListIsExact

(* For any items and whatever Steam changes between the two calls of       *)
(* steam_ugc_get_subscribed_items(): the list names each item at most      *)
(* once, only subscribed ones, and all of them if nothing changed.         *)
THEOREM ListsAreOfSubscribed == ContentSpec => []ListedAreSubscribed
<1>1. ASSUME WorkshopInv PROVE ListedAreSubscribed
  <2>1. listing.quiet \in BOOLEAN
        /\ (listing.fn = "list" => /\ listing.disabled \in BOOLEAN
                                   /\ listing.count \in 1..Cardinality(Items))
    <3>1. CASE listing = Workshop!Idle
      BY <3>1 DEF Workshop!Idle
    <3>2. CASE listing \in InListing
      BY <3>2 DEF InListing
    <3> QED
      BY <1>1, <3>1, <3>2 DEF WorkshopInv, ListingInv
  <2>2. listed = Workshop!Nothing \/ listed.ids \in Seq(Items)
    BY <1>1 DEF WorkshopInv, ListedInv, ExactList
  <2>3. DOMAIN passed = UpdateHandles /\ DOMAIN meant = Workshop!PhpHandles
    BY <1>1 DEF WorkshopInv, DraftInv
  <2>4. Workshop!TypeOK
    BY <1>1, <2>1, <2>2, <2>3, WorkshopInterfaces, WorkshopSets
       DEF Workshop!TypeOK, WorkshopInv, SubscriptionTypes, DraftTypes
  <2>5. ASSUME listed # Workshop!Nothing
        PROVE  LET ids == listed.ids IN
               /\ Workshop!IsInjective(ids)
               /\ Workshop!ToSet(ids) \subseteq Workshop!Counted(listed.disabled)
               /\ listed.quiet => Workshop!ToSet(ids) = Workshop!Counted(listed.disabled)
    <3>1. ExactList(listed)
      BY <1>1, <2>5 DEF WorkshopInv, ListedInv
    <3>2. ToSet(listed.ids) = {listed.ids[i] : i \in 1..Len(listed.ids)}
      BY <3>1 DEF ExactList, ToSet
    <3> QED
      BY <3>1, <3>2, WorkshopSets DEF ExactList
  <2> QED
    BY <2>4, <2>5 DEF ListedAreSubscribed, Workshop!ListedAreSubscribed
<1> QED
  BY <1>1, ContentIsKept, PTL DEF ContentInv

(* For any handles, texts, enumerators and tags: every draft Steam holds   *)
(* was filled in with what the script set under the integer that           *)
(* steam_ugc_start_item_update() returned for it, edit by edit, and no     *)
(* edit landed on another draft.                                           *)
THEOREM DraftsAreFaithful == ContentSpec => []DraftsAreAsMeant
<1>1. ASSUME WorkshopInv PROVE DraftsAreAsMeant
  <2>1. ASSUME NEW h \in UpdateHandles
        PROVE  LET asked == meant[Workshop!ToLong(h)] IN
               /\ Len(passed[h]) = Len(asked)
               /\ \A n \in DOMAIN asked :
                    /\ passed[h][n].field = asked[n].field
                    /\ Workshop!IsFaithful(asked[n], passed[h][n].value)
    <3>1. /\ meant[Workshop!ToLong(h)] \in Seq(AskedEdits)
          /\ SameEdits(meant[Workshop!ToLong(h)], passed[h])
      BY <1>1, <2>1 DEF WorkshopInv, DraftInv, Workshop!PhpHandles
    <3>2. DOMAIN meant[Workshop!ToLong(h)] = 1..Len(meant[Workshop!ToLong(h)])
      BY <3>1
    <3> QED
      BY <3>1, <3>2 DEF SameEdits, SameEdit
  <2> QED
    BY <2>1 DEF DraftsAreAsMeant, Workshop!DraftsAreAsMeant
<1> QED
  BY <1>1, ContentIsKept, PTL DEF ContentInv

=============================================================================
