CONSTANTS
  Clients <- MCClients
  Scenes <- MCScenes
  Others = {"u1"}
  Keys <- MCKeys
  Values <- MCValues
  Texts <- MCTexts
  Rooms <- MCRooms
  Types = {0, 2}
  KeyMax = 1
  ValueMax = 2
  ChatMax = 2
  IntMax = 2
  MaxFeed = 2
  IntStats = {"wins"}
  FloatStats = {"rating"}
  Achievements <- MCAchievements
  Numbers <- MCNumbers
  StatMax = 3
  MaxUnlocks = 2
  Rivals = {"rival"}
  Scores = {1, 2, 5}
  DetailLists <- MCDetailLists
  Ranks = {1, 2}
  Indices <- MCIndices
  Downloads = {1}
  DetailsMax = 2
  ScoreMax = 3
  MaxRequests = 1
  Friends = {"f1", "f2"}
  Connects <- MCConnects
  Lines = {0, 1, 2, 3, 4}
  Pictures <- MCPictures
  ConnectMax = 3
  LineMax = 4
  MaxRequested = 2
  EventHandles = {1, 2, 9}
  Titles = {"a", "b"}
  Priorities = {0, 5}
  Durations = {1}
  HalfWidth = 4
  Handles = {1, 2}
  Peers = {1, 9}
  Tickets <- MCTickets
  TicketMax = 3
  IdWidth = 4
  Names <- MCNames
  MockTexts <- MCMockTexts
  Lobbies = {"l1", "l2"}
  Entries = {"", "k1", "k2"}
  Contents = {"x", "y"}
  MaxCallbacks = 8
  ChatSlots = 2
  ChatSize = 2
  KvSlots = 3
  MaxUndrained = 2
SPECIFICATION Spec
INVARIANTS
  MirrorAgrees LobbyAsTold
  StatsAsMeant EntryAsUploaded
  FriendsAsSteamHas ConnectStringArrives
  TimelineAsMeant AuthAsMeant
  LookupInSync MockActsAsSteam
PROPERTY BestScoreKept
