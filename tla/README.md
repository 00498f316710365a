# Verification of php-steamworks

This directory holds TLA+ specifications of php-steamworks, the PHP extension that
wraps the flat C API of Valve's Steamworks SDK, the TLC configurations that check
them on small instances, and proofs checked by TLAPS. Paths below are relative to
the repository root; `modules/` stands for `src/modules/`.

## 1. The system

A PHP script (a game loop) calls functions of the extension; the extension calls
Steam. Both run on one thread: Steam delivers callbacks only while the script is
inside `steam_run_callbacks()`, and no PHP function runs meanwhile. Steam itself works
in the background: it completes calls and posts events at any time.

| Component | State | Operations | Interacts with |
|---|---|---|---|
| module life cycle, `src/php_steamworks.c` | none of its own | `MINIT`, `MSHUTDOWN` | sets up and tears down the registry and the event storage |
| session, `modules/steam_init.c` | Steam's: is a session live | `steam_init`, `steam_shutdown`, `steam_run_callbacks` | registers and unregisters the callbacks |
| interface resolution, `src/steam_iface.c` | a `notified` flag per interface | `steamworks_resolve` behind eleven accessors | every wrapper calls an accessor first |
| call results, `modules/steam_async.c` | registry: handle -> kind | `steamworks_register_call`, `steam_get_call_result` | sixteen wrappers register, the poll asks `ISteamUtils` |
| callbacks, `modules/steam_callback.c` | three queues, a ticket table, the registered flag | `cb_run` for seven objects, three drains, the ticket poll | Steam calls `cb_run`; a chat message resolves `ISteamMatchmaking` |
| wrappers, the other files in `modules/` | none; what they are about lives in Steam: lobbies, statistics, boards, friends, timeline, files, connections | one flat call per PHP function, after checks, defaults and casts | accessors; some start asynchronous calls; a script combines several of them |
| mock SDK and hooks, `ci/mock_sdk`, `modules/steam_mock_hooks.c` | the table of registered callbacks, chat slots, lobby data | stand in for Steam in CI | calls the extension's callback objects; must know the version tables |

What makes the behaviour hard:

* **Sessions.** A process may start and stop Steam several times. `steam_shutdown()`
  leaves the registry, the queues and the tickets as they are; Steam forgets its own
  side and numbers handles anew.
* **Ordering.** Events of four kinds share a queue; the text of a chat message must be
  read while its callback runs, because Steam reuses the slot.
* **Completion.** A call result can be fetched once; the entry is consumed before the
  fetch, so asking for the wrong struct loses it.
* **Versions.** The Steam client may lack an interface or offer only an older version
  of it, and may differ from session to session.
* **Memory.** Stored events are persistent blocks freed along five different paths.
* **Silence.** Many flat functions are void, or ignore what they do not like: only checks
  made before the call, and casts that lose nothing, keep a `true` from being wrong.
* **Loops.** Lists are a count and then one call per index, while Steam changes the list.

Correctness, per component:

* resolution: only pointers of the live client with the SDK 1.65 vtable layout are
  used; every fallback or failure is announced, once per process and interface;
* call results: the registry always knows what each unanswered handle stands for, a call
  is answered once, with what Steam holds, and polling ends;
* callbacks: nothing is lost, doubled or reordered, each object is registered exactly
  while the session lives, no block leaks;
* networking: messages reach the script once, in order, under the right connection, and
  every message Steam hands over is released;
* remote storage: a file is read as it was at one moment, whole, and in pieces exactly;
  what is reported as written is what was passed;
* workshop: the list names what is subscribed; a draft holds what the script set under
  its handle;
* lobbies: a script that follows the events has the members and data Steam has; what it
  was told is set, is set;
* statistics and leaderboards: values read as set, what was stored survives, only a forced
  upload replaces a better score, an entry is one upload with its details;
* friends: lists and avatars are whole, a connect string arrives as it was passed;
* timeline: a call reaches the event the script means;
* session tickets: what the script holds is what Steam issued; Steam has sessions with the
  peers the script let in;
* mock: it offers what the extension asks for, delivers once and in order, keeps data;
* the whole: the parts keep their promises when they share the session, the module's
  life and the interface flags.

`PROJECT.json` lists every component, the ones not modelled included, and under
`hazards` each place where this code is hard to test, with the properties that cover it.

## 2. Modules

| Module | Models | Role |
|---|---|---|
| `SteamInterfaces` | `src/steam_iface.c`, InitFlat/Shutdown | variables and operations every other module EXTENDs |
| `SteamSession` | the accessors used in sessions with changing clients | checked and proved |
| `SteamCallResults` | `modules/steam_async.c` and the sixteen wrappers that start a call | checked and proved |
| `SteamCallbacks` | `modules/steam_callback.c` | checked; every safety property and the refinement proved |
| `EventFeed` | what a drained queue promises | abstract specification, implemented by each of the three queues |
| `SteamExtension` | the process: both parts in one life and session | implements the specifications of both parts, which is checked and proved |
| `SteamNet` | `modules/steam_net.c` | checked; every safety property proved |
| `SteamRemote` | `modules/steam_remote.c` | checked in `SteamContent`; proved but for what `content_write` refutes |
| `SteamWorkshop` | `modules/steam_ugc.c` | checked in `SteamContent`, proved |
| `SteamContent` | remote storage and the workshop, one scene each | extends the first, instantiates the second |
| `SteamLobby` | `modules/steam_matchmaking.c`, with the lobby entries of `steam_callback.c` | checked in `SteamServices`; proved |
| `SteamStats`, `SteamLeaderboards` | the two halves of `modules/steam_stats.c` | checked in `SteamServices`, proved |
| `SteamFriends` | `modules/steam_friends.c`, join requests, the launch command line of `steam_apps.c` | checked in `SteamServices`, proved |
| `SteamTimeline` | the events of `modules/steam_timeline.c` | checked in `SteamServices`, proved |
| `SteamAuth` | the session tickets of `modules/steam_user.c` | checked in `SteamServices`, proved |
| `SteamMock` | `ci/mock_sdk/steam_api_mock.c`, `modules/steam_mock_hooks.c` | checked in `SteamServices`, proved |
| `SteamServices` | the services beside the event loop, one scene each | instantiates the seven modules above |
| `SteamInterfaces_proofs`, `SteamSession_proofs`, `SteamCallResults_proofs`, `SteamCallbacks_proofs`, `SteamExtension_proofs`, `SteamNet_proofs`, `SteamContent_proofs`, `SteamServices_proofs` | | TLAPS proofs, of the module each is named for |
| `MC*` | | constants for TLC |

### How the models correspond to the code

*Names.* An action or operator has the name of the function it models, a variable that of
the C variable where there is one (`steamworks_pending_calls`, `callbacks_registered`,
`notified`). Steam's own state (`user`, `offered`, `steam`, `files`, `drafts` ...) is
part of each model, because what the code does is right or wrong only with respect to it;
it is written from how the code uses Steam and marked external in the map. Variables
called history in their comments record what happened and influence nothing.

*Steps.* PHP and the extension run on one thread, so a PHP function is one action unless
Steam can act between two of its Steam calls and the difference matters: file reads,
file lists and the subscription list are split at each such call (`call` holds the locals),
and `steam_run_callbacks` is a sequence of dispatches during which no PHP function starts.
In every model Steam acts between any two steps.

*Guards.* Argument checks and early returns come first, in the code's order; then
`steamworks_resolve`, which may set a flag and raise a notice, is part of every action
whose function calls an accessor. A function that then finds no interface changes
nothing more.

*Scripts.* Where a promise is about several calls, the script is part of the model: the
loop over the members of a lobby followed by `steam_matchmaking_get_events()` each frame
(`SteamLobby`), the loop over the friends (`SteamFriends`). Others act between any two
rounds of a loop; what the model notes about that is history.

*Scenes.* `SteamServices` and `SteamContent` choose a scene in their initial state and then
let one service act, with the session around it. This loses no behaviour a property is about: the
services share only interface resolution, whose composition `SteamSession` and
`SteamExtension` check, and no function of one touches what another keeps. The two ways in
which they do meet have models of their own: call results and events.

*Data.* A struct is the set of fields the properties tell apart: which call result it is,
which event, which text. Decoded PHP arrays are their type. Clients are sets of the
interface version strings they offer. Integer casts are modelled at a reduced width where
the code relies on them (`SteamRemote`, `SteamWorkshop`, `SteamNet`'s limit, room and type
of a lobby, statistics, scores, ranks and indices, timeline handles and priorities,
SteamIDs in `SteamAuth`),
elsewhere a handle is the value Steam handed out. A PHP string whose length matters is its
length and the position of its first NUL byte, where C takes it to end.

*Memory.* `SteamCallbacks` keeps for each persistent block how often it is allocated and
not freed: an event is stored in one block, and its text or ticket bytes in another.
`HeapBalanced` says that the number is one while the block is stored somewhere and zero
otherwise, which excludes leaks and double frees one by one, where a total could hide one
behind the other. `SteamNet` counts the messages Steam has handed over and not got back.

*Choices of Steam.* Where Steam is free, so is the model: friends come in any order, and
in a new one after a relation changed (`SteamFriends`, `lists`); players of the same score
are ranked either way (`SteamLeaderboards`, `Rankings`); a batch of messages of several
connections is any interleaving that keeps each connection's order (`SteamNet`).

Slips, operators whose comment begins with "A slip", are plausible wrong versions of the
definition that follows. No specification uses them: each is put in the place of its
original to see that a property notices.

## 3. Runs

All with `tlc -workers 2 -config <cfg> <module>`; each takes about two minutes at most.

| Run | Question | Bounds |
|---|---|---|
| `session` | resolution over sessions with changing clients | three clients (current, before SDK 1.65, older than every networking version); nothing else is bounded |
| `session_legacy` | violation, see findings | same |
| `call_results` | registry and polling | two handles, reissued without limit; two clients that differ in `ISteamUtils` |
| `call_results_old_client` | violation | one handle |
| `callbacks` | three queues and the ticket table together | five kinds of event (both layouts of lobby entry, one per other queue), one ticket, three events, two ring slots, two clients that differ in `ISteamMatchmaking` |
| `callbacks_stale` | violation | one ticket, two events |
| `extension` | the parts share one process | one handle, one ticket, one event |
| `net` | connections and poll groups | two connections, one group, two messages each way, batches of two |
| `content`, scene `storage` | files and shared files | two names, two contents after the first, int32 up to 2, every length around both limits |
| scene `workshop` | subscriptions and drafts | two items, two changes, two handles of 5 bits, enumerators of 3 bits, one successful edit |
| `content_write` | violation | one name |
| `services`, scene `lobby` | one lobby | one other user, two undrained events, keys, values and texts at, below and above each limit and with NUL bytes, a C int of 3 bits |
| scene `stats` | statistics | one of each type, two achievements unlocked twice in all, integers around int32 |
| scene `boards` | a leaderboard | one rival, three scores of which one wraps, details above and below the limit, one call under way, one download |
| scenes `list`, `avatars`, `invites`, `joins` | friends | two friends, two relations, every length around the limit of a connect string, two join requests |
| scene `timeline` | timeline events | three handles of four bits, of which one is above the largest PHP integer and shares its low half with another |
| scene `auth` | session tickets | two handles, two peers whose SteamIDs share their low half and of which one is negative in PHP, three tickets: with a NUL byte, starting with one, longer than the buffer |
| scenes `mock events`, `mock data`, `mock lookup` | the mock | three callbacks, two undrained events in each queue, two chat slots, three data slots for more keys than that, every combination of switches |

Why the bounds suffice. Handles, tickets, clients and items are only compared for
equality, and no function relates more than two of them: a second value is there to be
confused with the first. Three events are enough for a ring slot to be reused while an
earlier event waits, for events before, between and after two drains, and for one of each
of three queues; that holds for any number of events and slots is proved (section 4).
One other user is enough to be there before or after the listing, to go, to be kicked and
to be the owner; two undrained events, for one of an earlier stay and one of this stay.
Two messages per direction can be split over two batches or overtake each other, and a
batch of two can hold both connections. The integer widths are chosen so that every
boundary value, the value next to it and one that wraps to a small number are present.
Sessions are never counted: initialisation and shutdown repeat without bound.
`CHECK_DEADLOCK FALSE` is set where the module may exit, after which nothing happens.

What the passing runs show:

* `session`: the flat functions only ever get pointers of the live client with the layout
  of SDK 1.65 (`PointerSafe`); one notice per interface and process
  (`NoticedOncePerProcess`); no NULL and no legacy version without a notice at some time
  before it (`NeverSilent`).
* `call_results`: the registry is exact (`RegistryTracksCalls`), one answer per issue
  (`AnsweredOnce`), the answer is what Steam holds (`AnswerIsSteams`), and polling every
  frame ends wherever `ISteamUtils` resolves (`PollingEndsWithUtils`).
* `callbacks`: what was posted in a session and dispatched
  reaches the script once, in order, with its own text (`DeliveredInOrderOnce`); callbacks
  are registered exactly while the session lives (`RegisteredExactlyOnce`); no block leaks
  or is freed twice, over module shutdown too (`HeapBalanced`); the newest response of a
  ticket is returned, once (`TicketsOnceAndLatest`); a game loop sees every event
  (`EventsReachScript`); each queue implements `EventFeed` (`FeedSpecs`).
* `extension`: composed, both parts still behave as specified on their own
  (`AsyncSpec`, `CallbackSpec`) and are up and down together (`OneLife`).
* `net`: order, attribution, release, reliability and arrival over both receive functions.
* `content`, storage: a read is the content of one moment, cut to the size asked for first
  (`ReadIsOneVersion`); a list made while nothing changed is exact (`ListIsExact`); pieces
  are exact for every argument and make up the file (`PieceIsExact`,
  `PiecesMakeUpTheFile`).
* `content`, workshop: the list is never longer than Steam filled it, and exact when nothing changed
  between its two calls (`ListedAreSubscribed`); handles survive both casts, tags and texts
  arrive as meant (`DraftsAreAsMeant`).

Each property of `services` names the parts of the component's module it conjoins, each
about one scene, types included; the type invariants of `SteamNet`, `SteamRemote` and `SteamWorkshop` are
conjuncts of `NothingHeld`, `PieceIsExact` and `ListedAreSubscribed`.

* `services`, lobbies: a script that lists the members once and follows every event has
  members and data as Steam has them whenever nothing is queued (`MirrorAgrees`). Two
  conditions are needed and part of the property: nobody moved while the loop ran, and no
  event of an earlier stay was still queued, because `steam_matchmaking_leave_lobby()` and
  `steam_shutdown()` leave the queue alone. A script is not told what is not so
  (`LobbyAsTold`): what returned `true` is set (`WritesHold`), a lobby has the room asked
  for as far as 32 bits can count (`RoomAsAsked`), and chat is byte exact
  (`ChatByteExact`).
* statistics (`StatsAsMeant`): values, flags and unlock times read as last set (`StatsAsSet`); what was
  stored, and nothing else, survives the session and a crash (`StoredStatsSurvive`).
* leaderboards (`EntryAsUploaded`): no upload writes beyond its array (`BoardTypeOK`), an
  entry read is one upload with its details up to the limit, and a better score gives
  way only to a forced one (`BestScoreKept`).
* friends: lists and avatars are exact (`FriendsAsSteamHas`: `FriendsListExact`,
  `AvatarWhole`), a connect string leaves and arrives as it was passed
  (`ConnectStringArrives`: `InvitedAsMeant`, `JoinedAsInvited`).
* timeline: every event is as the holder of its handle means it (`TimelineAsMeant`).
* session tickets (`AuthAsMeant`): a ticket the script holds is one Steam still has, byte
  for byte (`TicketsInHand`), and Steam has sessions with exactly the peers let in, each
  for its present ticket (`SessionsAsAdmitted`).
* mock: every version the extension asks for is known, and each interface resolves as the
  switches say (`LookupInSync`); what a test fires is what it drains, and lobby data is a
  map, with full tables too (`MockActsAsSteam`: `FiredOnceInOrder`, `MockKeepsData`).

### Fairness

* `SteamCallResults`: weak fairness of each poll, because the game loop of the
  repository's README polls every handle every frame, and of `SteamCompletes`, because
  Steam ends each accepted call with a result or a failure.
* `SteamCallbacks`: weak fairness of `steam_run_callbacks` and of the three drains (called
  each frame), and of `SteamDispatches` (`SteamAPI_RunCallbacks` returns after its last
  event). Nothing is assumed of Steam posting events.
* `SteamNet`: weak fairness of receiving on each connection, with the least limit a script
  may pass: reading one message per frame has to be enough. Arrivals are not assumed.

The leads-to properties allow the session or the module to end, since no code promises an
answer after that.

### Findings

Four runs show a disagreement between the code and what its documentation says; the
details with both places are under `findings` in `PROJECT.json`.

1. `session_legacy`: the one flag per interface serves the warning about an unsupported
   client and the deprecation of a legacy version; when the warning used it up, a later
   session runs on a legacy version without `E_DEPRECATED`.
2. `call_results_old_client`: without `ISteamUtils`, polling returns `null` for ever.
3. `callbacks_stale`: a ticket response of an earlier session answers for a new ticket
   with the same handle.
4. `content_write`: data longer than 32 bits can count is stored cut off, and `true` is
   returned.

## 4. Proofs

TLAPS checks the following for every value of the constants that satisfies the named
assumptions. `ClientsAssumption`: a client offers a set of strings. `CallsAssumption` and
`CallbacksAssumption`: the other interfaces and kinds are among those of the tables,
there is a slot, the tickets are finitely many, `MaxEvents` is a number of any size.
`NetAssumption`, `RemoteAssumption`, `WorkshopAssumption`, and the assumptions of the seven
services, which `ServicesAssumption` conjoins: there are finitely many names and items, a text
is a sequence that is not empty, sets of lengths, integers and handles are sets of such things, the local player
is none of the others, a limit or a width is a number of any size. Only a lower bound is ever named: an enumerator's type has room for the four values of
a visibility. None of them bounds a set, a length or a number of steps by a particular value.

**Sessions** (`SteamSession_proofs`): `TypesCorrect`, `PointersAreSafe`,
`OneNoticePerProcess`, `NoSilentFallback`. The inductive invariant adds two facts to the
properties: no client offers anything outside a session, and `FlagTellsNotice`, which ties
`notified` to the history of notices; without the latter a flag could be set before any
notice and `NeverSilent` would not be inductive. `SteamInterfaces_proofs` holds the lemmas
on the tables and on `steamworks_resolve`, `ScanFindsNewest` above all, that every other
proof cites.

**Call results** (`SteamCallResults_proofs`): `TypesCorrect`, `RegistryIsExact`,
`OneAnswerPerCall`, `AnswersMatchSteam`. The invariant adds `SteamAgrees` (a call in
Steam's table is the one the handle was last issued for) and `RegistryLives` (the registry
is up exactly while the module runs). `EveryWrapperIsWellPaired` goes through the sixteen
wrappers: each registers the kind whose decoder asks for the struct of its call.
`AnswersMatchSteam` is an action property; only a poll answers (`OnlyPollsAnswer`), and in
a poll the invariant says what Steam's table holds.

**Callbacks** (`SteamCallbacks_proofs`): `CallbacksRegisteredOnce` from `RegistrationInv`;
`EventsDeliveredInOrderOnce` from `QueueInv`, which adds that storage is up while the
module runs (otherwise a dispatched event would be dropped) and that the text in a slot is
still the one of the event being dispatched (`SteamKeepsPosted`), which is why the text
must be read inside the callback; `QueuesAreFeeds`, that each of the three queues implements
`EventFeed`. The argument is made once for any queue (`StepOfFeed`): the module's life opens and
closes its feed, an event dispatched for it is delivered, its own function drains it, and
every other step, those of the other two queues included, leaves it alone.

`CallbackTypes` is type correctness, with the order of what is posted:
every event Steam still holds has an id above all that were dispatched (`PostedInOrder`).
From it follow the two other results. `HeapIsBalanced`, with `HeapInv`: the number of a
block is the number of entries that use it (`Uses`), summed over the three queues and
the ticket table, and no two entries use the same block, because ids are never given out
twice. Each function changes the tables and the heap together; the lemmas from
`AsideFromOne` on count what a longer queue, an emptied queue and a replaced response do
to the sum. `TicketsInOrder`, with `TicketInv`: what is stored for a ticket is the latest
arrival and newer than everything fetched, and a ticket with an arrival and nothing
stored had its latest fetched.

**The process** (`SteamExtension_proofs`): `ProcessImplementsRegistry` and
`ProcessImplementsCallbacks`, that the process seen without one part is the other part's
specification: `StepsOfAsync` and `StepsOfCallback` go through the actions, and
show that a function of one part is for the other a step that resolves an interface or
nothing at all. The proof modules of the parts are then instantiated, and what they prove
holds in the process (`CallsInTheProcess`, `CallbacksInTheProcess`, `FeedsInTheProcess`) and gives
`HalvesLiveTogether`; the only fact proved anew is that a registry which is not up holds
no call (`RegistryEnds`).

**Networking** (`SteamNet_proofs`): `EveryMessageReleased`, `MessagesInOrderOnce`,
`ReliableMessagesArrive`, from `NetInv`. It adds that a connection that is not open has
nothing waiting in either direction, that what was received is a beginning of what
arrived and, until the connection is closed, what waits is all of the rest, and that
what is on the wire is in order, marked as asked for and newer than what the peer
has. The main step is a batch: whatever interleaving Steam chooses, each connection's
part of it is a beginning of its inbox.

**The services** (`SteamServices_proofs`): one invariant per service, kept by
its own steps because they alone touch what it keeps. All are of one kind: what Steam has
is what the script meant, as far as the code lets that be said. The lemmas that matter are
the round trips through C: handles and SteamIDs through PHP's signed integers and back
(`TicketsAndSessions`, `TimelineIsAsMeant`), numbers that fit their casts
(`StatsAreAsMeant`, `BestScoresStay`), and strings through a C buffer
(`ConnectStringsArrive`, `LobbiesAreAsTold`).

* `StatsAreAsMeant`: Steam's copy is what the script set, and the stored copy what it was
  promised, through storing, resets, the end of a session and a crash.
* `EntriesReadAsUploaded`: entries and requests carry what was asked for, cast
  and cut (`AsAsked`), so an entry read later shows the details of one upload up to the
  limit and no value of the uninitialised buffer.
* `FriendsAreAsSteamHas`: the loop invariant `LoopInv` ties the number, the index and what
  the script has so far to the list Steam holds, as long as nothing changed.
* `LobbiesAreAsTold`: the claim of a script that was told `true` is about a lobby it is in
  and owns (`LobbyClaim`), which is why leaving, being kicked and losing the ownership end it.
* `MirrorsAgree`, from `MirrorInv`. What the script has while events are queued is neither
  the lobby nor an earlier state of it, so the invariant says for each user on its own: if
  no event about the user is queued, the picture has it right (`MembersFollow`); if one is,
  the last says whether the user is in (`FeedTells`). For the data, either the picture has
  it or a `data_update` is queued (`DataFollows`). It holds from the listing on because an
  undisturbed loop has exactly the first members (`CountInv`), and from one stay to the
  next because everything queued outside the lobby is old and no event is about the script
  itself (`StayInv`). `QuietStep`, `ChangeStep`, `AdmittedFollows` and `GoneFollows` are the
  four ways a step can disturb this; `ListingStarts`, `ListingGoesOn`, `ListingEnds` and
  `DrainFollows` are the script's own.
* `MockKeepsUp`: a goes-through of the version tables, interface by interface, against the
  switches of the mock.
* `MockIsFaithful`, from `MockEventInv` and `MockDataInv`, for tables of any size. The table of
  registered objects is the extension's list, in its order, or empty: `MockRegistered` says
  so after registering. Unregistering moves the last entry into the gap, so the table is
  shuffled on the way to empty; `UnregisteredFromFull` writes the shuffled table down after each
  of the seven removals. An event is therefore dispatched to one object (`MockDispatches`), and
  what that stores is the text just written into the slot, cut as the slot cuts it
  (`MockFired`). Reading and writing the data use the first slot of an owner and key, so nothing
  need be known of the others: whichever slot a write takes, its own key then reads the new value
  and every other key, of any owner, what it read before (`MockKvSet`, `MockWritten`).

**Remote storage** (`SteamContent_proofs`): `PiecesAreExact`, `PiecesMakeUpTheWhole`,
`ReadsAreOneVersion`, `ListsAreExact`, from `RemoteInv`. Of a function between two Steam
calls it says what the function knows (`CallInv`): the size it allocated is the file's, the
names it has are the first of Steam's numbering, both as long as no file changes. Of the
shared files it says that what a script has put together is a beginning (`SharedInv`).
`ArgumentsFit` is the reason for the checks of `steam_remote_ugc_read`: within them no
cast loses a bit, so `PieceReturned` can say in one formula what checks, interface and
Steam's answer come to.

**The workshop** (the same module):
`ListsAreOfSubscribed` from `ListingInv`, that the buffer has the length of the list for as
long as no subscription changes, and `ListFilled`, that whatever Steam fills in after a
change is cut where it stopped; `DraftsAreFaithful` from `DraftInv`, one edit passed for
each edit meant, through `HandleRoundTrip` (no two handles are the same PHP integer) and a
lemma for each kind of field. `StringsAreTexts` says that the packed tags are strings of
the array, without a gap. `ContentIsKept` puts both parts together: the steps of one leave
the other's state alone.

Sequences are reasoned about element by element: the provers cannot do induction over
data, but the least element of a set of numbers exists (`LeastOf`, from the
well-foundedness of the natural numbers), which is as much of it as these proofs need.

**Only model-checked**: `EventsReachScript`, `PollingEndsWithUtils`, `MessagesReachScript`, which
are liveness and out of the prover's reach, and the four findings, which are counterexamples.
Every invariant, action property and refinement that a passing run checks is proved.

## 5. Not modelled

* The fields of the arrays decoded results, events and messages are turned into.
* Wrappers that pass one value through and keep nothing: the queries of apps and utils,
  reading login state and Steam level, overlays.
* `GetAuthSessionTicketResponse_t`, which tells when Steam's servers know a ticket: the
  extension does not dispatch it (the comment at `steam_user.c:48` says so), and
  `SteamAuth` lets them know it at once.
* That the queues and the registry have no bound: the code sets no limit to check, and
  `EventsReachScript` covers a game loop that drains.
* Game mode, tooltip, game phases and overlay of the timeline: calls without a result
  that are made on whatever phase is current in Steam; one step that changes nothing.
* Lobby invitations beyond their call; more than one lobby or leaderboard at a time (the
  id is passed on in every call); the fields of an upload's result.
* A user error handler that calls back into the extension while a notice is raised.
* The `linger` option of a closing connection, and the relay's start-up.
* The mock's constant answers, which hold no state (among them handles that two different
  asynchronous calls share, so a test cannot have both pending); the function table,
  argument information and constants; build files.

## 6. Plan

Done: everything above. What could come next: the ticket handles of `steam_callback.c` with
their integer widths, as `SteamAuth` has them, and the event feeds in `SteamMock`, whose queues
now have only what is waiting in them.
