CONSTANTS
  i1 = i1
  i2 = i2
  Items <- MCItems
  UpdateHandles <- MCUpdateHandles
  INT64_MAX = 15
  ENUM_MAX = 3
  INT32_MAX = 2
  Texts <- MCTexts
  Visibilities <- MCVisibilities
  TagArrays <- MCTagArrays
  NoString = NoString
  MaxEdits = 1
  MaxChanges = 2
  Names = {"a", "b"}
  SharedFiles <- MCSharedFiles
  Lengths <- MCLengths
  MaxVersions = 2
  Clients <- MCClients
SPECIFICATION ContentSpec
INVARIANTS
  PieceIsExact PiecesMakeUpTheFile
  ListedAreSubscribed DraftsAreAsMeant
PROPERTIES ReadIsOneVersion ListIsExact
