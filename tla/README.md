# ForDream: a verification project

ForDream is an iOS dream diary (Swift, `src/ForDream/ForDreamApp/ForDream/`). A user
signs in, writes one dream per date, lists, searches, stars and deletes dreams. The
diary lives in a Firebase Realtime Database; the app reads it through the vendored
Objective-C client (`src/ForDream/ForDreamApp/Pods/FirebaseDatabase/`). The
client's storage engine, leveldb, is vendored beside it
(`src/ForDream/ForDreamApp/Pods/leveldb-library/`). The app
has no tests; its documents are the requirements table
(`src/ForDream/ForDream_요구사항 정의서.numbers`) and the texts of the app's own alerts.

## 1. Inventory

| Part | State | Operations | Interacts with |
|---|---|---|---|
| `Model` (Model/Model.swift) | the shared `DreamContainer` (one array for all screens) | `fetchContainers`, `saveAction`, `removeAction`, `removeAllAction`, `updateAction`, orders | every screen; the SDK |
| Database client (FRepo, FPersistentConnection, FWriteTree, FView, FViewProcessor, FChildrenNode) | server cache, pending writes, registrations, connection, outstanding puts and listens | `set`, `addEventRegistration`, `onDataUpdate`, `ackWrite`, reconnect, resend | main queue (events), server |
| Server | `users/<uid>/dream` | apply a put, push, acknowledge | every connected device |
| `MainVC` | table view, auth listener | list, swipe to delete, delete all, open the other screens | Model, Auth |
| `WriteVC` | the dream being written | pick date, star, save with date check | Model |
| `SearchVC` | `filterdDream`, options | filter, sort, refresh, open a page | Model |
| `DetailPVC`, `SearchDetailPVC`, `StarStorageDetailPVC` and their pages | `currentIndex`, a list | page left and right, delete | Model |
| `StarStorageVC` | `starStorageDreams` | list, open a page | Model |
| `LoginVC`, `JoinVC`, `MenuTVC` | text fields | sign in, sign up, sign out, withdraw | Auth, SDK |
| Storage engine, record log (log_writer.cc, log_reader.cc) | a file of blocks, the writer's offset, the reader's buffer and gathered fragments | `AddRecord`, `ReadRecord` | writing, `Open`, the manifest |
| Storage engine, writing and recovery (db_impl.cc, version_set.cc) | logs, tables, manifest; memtables, current version, `writers_`, `pending_outputs_`, `bg_error_` | `Write`, flush, compaction, `LogAndApply`, `DeleteObsoleteFiles`, `Open` | its callers, one background thread, the file system |
| Storage engine, levels (version_set.cc, db_impl.cc, snapshot.h) | table files by level, snapshots | `Get`, the choice of inputs, what a compaction drops, `GetSnapshot` | the same |

Two threads run on a device: the main thread (taps, blocks of the main dispatch
queue, observers' callbacks) and the SDK's serial queue. The app posts work to the
main queue with `DispatchQueue.main.async`, calls the SDK, which queues the call on
its own queue; the SDK posts each event to the main queue.

The storage engine is part of the database client's sources: FLevelDBStorageEngine
opens it, through APLevelDB, when persistence is enabled (writes without
`sync`, `reuse_logs` off). The app does not enable it, so the engine is verified on its
own, for what it promises its caller, and `DreamSync` has no persistence. Its threads
are the callers of `Write`, who queue up and let the first work for a
group, and one background thread, which flushes and compacts and may flush in the middle
of a compaction.

What is hard here, and what would make each part correct:

- *Model and database client*: a deletion is a removal of the whole node followed by
  one write per remaining dream; a new dream's key is the count of a local array. Both
  are exposed to stale local state, to other devices, to a connection lost while
  writes are unacknowledged (they are sent again) and to the end of the process
  (unacknowledged writes are gone, persistence is off). Correct means: the keys stay
  an array that the forced cast accepts, no dream is lost that the user was not asked
  about, and what is shown is in the end what is stored.
- *Lists and pages*: copies of the container and indices into it that outlive it.
  Correct means: no index out of range, the page shown is the dream deleted.
- *Accounts*: local state that outlives a session (the container, observers, callbacks
  already queued, writes not yet sent), a withdrawal in two requests over two
  connections, a change of user that the database hears of later than the app, and
  answers of Auth that arrive when the screen that asked is no longer in front.
  Correct means: dreams of one account never reach another's diary, a deleted account
  leaves no data behind, no missing user is unwrapped, and who is signed out can sign
  in again.
- *Storage engine*: state read under the mutex and used after it was let go (inputs,
  snapshots, file numbers), file-system calls that fail half-way, crashes between the
  steps of a flush, and bytes a crash cut or damaged. Correct means: a read finds the
  newest version its snapshot may see, an acknowledged write survives the process and
  a synced one the machine as long as no append has failed, no needed file is deleted, no number is used twice, every
  `Write` returns, and the log gives back whole records only.

The full list, line by line, is `hazards` in `PROJECT.json`.

## 2. Modules

- **Dreams**: a dream (`writedDate` and the rest of its content), the stored node as a
  function from the keys `0 .. MaxKey` to a dream or `None`, the SDK's export of such
  a node (array or dictionary, `FChildrenNode valForExport:`), what the forced cast of
  `fetchContainers` makes of it (`CastSucceeds`, `AsArray`), `ascendingOrder` (Swift's
  `sorted` is not stable, so it is a set of results) and the removal by date.
  Dates are integers because `yyyy-MM-dd` strings sort as days do.
- **DreamSync** (the core): one account on any number of devices. Per device: the
  container, the alert on screen with what its handler captured, the two queues, the
  SDK's registrations, cache and pending writes, the connection and the messages on
  their way. One action per tap, per block of the main queue, per call on the SDK's
  queue, per message and per change of the connection:

  | Actions | Code |
  |---|---|
  | `Launch`, `RunFetch`, `RunEvent`, `RunTrap` | MainVC.viewDidLoad, Model.fetchContainers and its callback (the cast succeeds or ends the process) |
  | `DateCheckAndSave`, `ConfirmReplace` | WriteVC, from the confirmed "save?" alert on |
  | `AskDelete`, `ConfirmDelete`, `RunRemove` | MainVC row or detail page, alert, Model.removeAction in a later block |
  | `AskDeleteAll`, `ConfirmDeleteAll`, `RunRemoveAll` | MainVC.allDeleteBtn, Model.removeAllAction |
  | `CancelAlert`, `OpenSearch`, `Refresh` | alerts' cancel, SearchVC.viewDidLoad and refresh |
  | `addEventRegistration`, `ApplyUserOverwrite`, `OnDataUpdate`, `AckWrite` | FRepo, with the overlay of FWriteTree (`Visible`) and the events of FViewProcessor (`raiseEvents`) |
  | `Connect`, `Listen`, `Drop` | FPersistentConnection: reconnect, restoreState, onDisconnect |
  | `ServerApply` | external: the server applies the next put, pushes it, acknowledges it |
  | `Kill` | the process ends; nothing is persisted |

- **MCDreamSync**: the instance for TLC (symmetry of devices and bodies).
- **DreamsProofs**: lemmas on the operators of `Dreams`, used by the proofs about
  `DreamSync` and `Screens`. **DreamSyncProofs**: lemmas and theorems.
- **Session**: accounts on one device. The current user, the accounts at Auth, the
  stack of presented view controllers, the unanswered requests, the queued fetches, the
  container that outlives a session, and the one connection to the database that the
  accounts use in turn: the writes without an answer (`puts`), the diaries listened to and
  what is known of them, the callbacks queued for their observers (`due`), the messages
  both ways (`outbox`, `inbox`), and at the server whom the connection is authenticated
  as (`auth`), what it listens to (`heard`) and what is stored (`diary`, `info`).

  | Actions | Code |
  |---|---|
  | `loginDoneBtn`, `loginEventDone`, `loginEventFailed`, `joinBtn` | LoginVC |
  | `joinDoneBtn`, `joinEventDone`, `Refused`, `WelcomeOK` | JoinVC |
  | `OpenMenu`, `logout`, `withdrawal`, `DeleteDone`, `Refused`, `OpenStar`, `Leave` | MenuTVC, StarStorageVC |
  | `AuthStateDidChange`, `RunFetch`, `RunEvent`, `saveAction`, `removeAction` | MainVC's listener and the calls of Model |
  | `EditTraps`, `OpenMenuTraps`, `WithdrawalTraps` | `currentUser!` or `uid!` meets nil |
  | `onDisconnect`, `tryScheduleReconnect`, `restoreState`, `onDataUpdate`, `onListenRevoked`, `onPutDone`, `onPutDenied` | FPersistentConnection and FSyncTree |
  | `ServeAuth`, `ServeListen`, `ServePut`, `Revoke` | external: the server takes the next message; it ends a listen that is no longer allowed some time later |

- **MCSession**: the instance for TLC (symmetry of accounts).
- **SessionProofs**: lemmas and theorems.
- **DetailPager**: the index of the three page view controllers. `Pager` selects the
  list the pages come from (`ListCount`) and the count compared with the index
  (`EndCount`), which differ between them. `viewControllerBefore` and
  `viewControllerAfter` are UIKit's requests, `SwipeBack` and `SwipeForward` the swipes,
  `ContainerChanges` an observer's callback below an open pager.
- **DetailPagerProofs**: its theorems.
- **Screens**: the lists of one device over the container they share. `DreamSync` treats
  observers alike; here each does what the screen that registered it does, and the SDK
  is only the snapshot it shows. `Push` is another device's change, at any time.

  | Actions | Code |
  |---|---|
  | `DateCheckAndSave`, `ConfirmReplace` | WriteVC |
  | `SwipeRow`, `allDeleteBtn`, `RunRemove`, `RunRemoveAll` | MainVC with `deleteRows`; Model.removeAction, removeAllAction |
  | `OpenPage`, `ClosePage`, `selectedDeleteBtnAction`, `ConfirmDelete`, `ConfirmDeleteAll`, `CancelAlert` | the rows of the three lists, DetailVC, SearchDetailVC, StarStorageDetailVC, MainVC's alerts |
  | `OpenSearch`, `Refresh`, `textDidChange` | SearchVC.viewDidLoad, refresh, searchBar with the three orders |
  | `OpenStars`, `moveToMainBtnAction` | StarStorageVC.viewDidLoad, the way back |
  | `RunFetch`, `RunEvent`, `RunTrap` | Model.fetchContainers, its callback and `loadingIsFinished` of the screen |
  | `addEventRegistration`, `ApplyUserOverwrite`, `Load`, `Push` | FRepo, as far as events go |

- **ScreensProofs**: lemmas and theorems, over those of `DreamsProofs`.
- **LevelLog**: the record log, byte by byte in small blocks. `AddRecord` and `Emit` are
  the writer, `Crash` and `Damage` what happens to the file, `Open`, `ReadBlock`,
  `Resync`, `Start`, `Continue`, `SkipBad` and `ReadEof` the reader, one action for each
  case of ReadRecord's loop.
- **LevelLogProofs**: lemmas and theorems.
- **Levels**: where the versions of a key are. `Write`, `SwitchMemTable`,
  `CompactMemTable`, `BackgroundCompaction` (automatic or manual; a trivial move is done
  at once, any other compaction begins with the mutex let go), `InstallCompactionResults`,
  `GetSnapshot`, `ReleaseSnapshot`. `Get` is the search of DBImpl::Get and Version::Get.
- **LevelsProofs**: lemmas and theorems.
- **KeyStore** (abstract): the writes in effect, which of them are durable, and what each
  caller knows. Writes take effect in order, in groups; a kill may add unacknowledged
  writes and takes away none; a loss of power may take away what is not durable.
- **LevelStore**: the engine's threads and files. It implements `KeyStore`
  (`Store == INSTANCE KeyStore WITH ...`): the writes in effect are what a reader sees
  while the engine is up (`Visible`), and what Open would find while it is not
  (`Recoverable`); durable are the tables of the manifest and the synced records of the
  logs still needed (`Durable`).

  | Actions | Code |
  |---|---|
  | `Enqueue`, `RejectWrite`, `WaitForFlush`, `SwitchMemTable`, `BuildBatchGroup`, `AddRecord`, `SyncLog`, `FinishWrite` | DBImpl::Write, MakeRoomForWrite, BuildBatchGroup |
  | `StartFlush`, `BuildTable`, `InstallFlush`, `GiveUp` | BackgroundCall, CompactMemTable, WriteLevel0Table |
  | `StartCompaction`, `OpenCompactionOutputFile`, `FinishCompactionOutputFile`, `InstallCompactionResults`, `AbortCompaction`, `InstallCompaction` | BackgroundCompaction, DoCompactionWork, CleanupCompaction |
  | `LogEdit`, `LogEditFails` | VersionSet::LogAndApply |
  | `NewIterator`, `DeleteIterator` | a version kept by a reader |
  | `Kill`, `PowerLoss` | the environment |
  | `Recover`, `RecoverLogFile`, `NewLog`, `OpenFails`, `FinishOpen` | DB::Open, DBImpl::Recover, RecoverLogFile, VersionSet::Recover |

- **LevelStoreProofs**: files and numbers; `LevelStore` implements `KeyStore`.

The components meet in the container and in the database: `DreamSync` follows one
account's diary write by write and key by key, `Session` follows several accounts over one
connection but takes an `updateAction` as one write, `Screens` follows the copies of the container on one device, `DetailPager` sees
of it its length. The engine's modules divide one program: `LevelLog` gives `LevelStore`
its records, `Levels` gives it the content of tables, `LevelStore` has the threads and
the files.

Abstractions. The body of a dream is a model value. A data message carries the whole
node where the server may send only the part that changed (the cache after it is the
same). In `DreamSync` writes are not rejected: its one account stays signed in, and the
database's rules are not in the repository. A deletion from a search or star page captures in `DreamSync` a dream of the
container, as a page of the main list does; the stale lists those pages work on are in
`Screens`.
The first block of `viewDidLoad` has run before a tap is delivered (`Ready`), so a
device listens before it writes.
A date may be asked for deletion through any screen: `asked` collects the dates whose
dreams the user agreed to lose, `kept` the dreams ever stored.

In `Session` a dream is its author, a diary the set of the authors of its dreams, and an
`updateAction` one write that replaces the diary. UIKit ignores a `present` by a view controller
that is not in front. `RulesPerUser` says whether the database lets only its owner read and
write a diary: its rules are not in the repository. A change of user (`BecomeUser`) tells the
connection, and nothing else: FIRAuth posts it before its callback runs and FRepo passes it on
by the same serial queue as writes and listens, so the `auth` or `unauth` message precedes
those of the new user, and the old user's writes precede it. The observers of the old account
stay until the server says that the listen is revoked, and callbacks already queued run
whenever their turn comes, under whoever is signed in then. `withdrawal` is a put like
any other and a request to Auth; the put may be unsent, unanswered, sent again on a later connection,
or refused. A connection is opened with the token that was asked for when the last one was lost;
nobody's token needs no fetching, so only an account's token can be stale. Several observers
of one account are one, the holding back of acknowledgements until listens are answered
(FPersistentConnection.m:583) is left out, and so is a token that the server does not accept.
Each account is used on this device only: the late callback of a push by another
device is not in it. `signOut` throwing, the label of a password mismatch and the end of
the process are left out. `WaitAuth`, `WaitListener`, `WaitLoad` and `WaitShown` describe a user
who waits for an answer of Auth, for the listener of MainVC, for the diary before an
edit, and, before leaving an account, for all that is to be shown of it.

In `DetailPager` UIKit asks for each neighbour of the page in front once and keeps the page
that was left as the other neighbour, as `UIPageViewController` does with the scroll
transition. `MayShrink` says whether dreams may disappear below an open pager.

In `Screens` the user is patient (taps when no block or call is queued); a tap in between
is in `DreamSync`. UIKit's table view is external: it knows the rows it asked for last
(`rows`), and ends the process when `deleteRows` does not account for the new number.
Whether the replace alert can be answered is left open, because `WriteVC` dismisses
itself while presenting it and what UIKit makes of that is not in the repository.

In `LevelLog` a cell says what the writer meant by a byte, and a checksum matches exactly
when the cells are the ones written. A failed append or flush leaves any part of the fragment,
all of it included (what stdio buffered may be written by a later flush), and a trailer may
stay short unnoticed (log_writer.cc:53). `LevelStore` takes a record as a whole, and what the log loses from
`LevelLog`: an append that fails (`AddRecord`) leaves the record or not, tears the log, and is
no background error, so the writer goes on in that log; a record appended to a torn log may be
lost to its reader, acknowledged or not (section 4). The manifest is a log too: an edit that fails may be there or not and tears it, and an edit behind a torn end may
be lost, with all that follow it (`manifest.end`). `Levels` takes sizes, seek counts and
`compact_pointer_` as free choices, and a compaction's outputs may be cut anywhere, also
between two versions of a key. `LevelStore` has one output file per compaction, one table per
replayed log, and no trivial moves; the triggers by the number of level-0 files,
the wait for fewer of them (db_impl.cc:1350, which twelve level-0 files would reach and three writes do not),
a write without a batch, a clean close (the same as a kill here) and `reuse_logs` are left out.
A new file is taken to be found after a loss of power: the sync of directory entries
is not in it. A synced write makes no earlier write durable that is in an older, unsynced
log; neither does the code, and `KeyStore` does not promise it.

Two constants of `DreamSync` describe the user: `WaitLoad` (acts only once the diary was loaded) and
`WaitEcho` (acts only when no block or call is queued). With both false a user taps at
any moment.

## 3. Runs

| Run | Instance | Shows |
|---|---|---|
| `sync_patient` | 1 device, 2 dates, 2 bodies, 3 keys, 2 edits, 1 search or refresh, 1 lost connection; patient user | acknowledgements match pending writes (`AcksMatch`), the cast never fails (`NeverTraps`), nothing is lost that was not asked about (`NothingLostUnasked`), the server's echoes are invisible (`EchoIsSilent`) |
| `sync_killed` | 1 device, 3 dreams stored, 2 edits, also before the load, 1 lost connection, 1 killed process, fairness | until the connection is lost the keys are contiguous at every step (`ServerStaysReadable`); every running device settles (`CatchesUp`) |
| `sync_two_devices` | 2 devices, 2 keys, 2 edits, 1 search or refresh, users who never wait | types, no event missing (`EventPipeline`), no push missing (`ServerHeard`), both containers become the database (`TypeOK`, `Convergence`) |
| `session_patient` | 2 accounts, 4 screens, 2 requests, 1 edit, 1 lost connection, fairness; patient user | dreams stay with their author (`OwnDreamsOnly`), no nil is unwrapped (`NeverNil`), signed out means the login screen comes (`SignedOutSeesLogin`); while the connection lasts the data of a deleted account are gone or their removal is under way (`NoOrphanData`), they do go (`WithdrawnDataGoes`), and who is signed in gets to see the diary (`DiaryShown`) |
| `session_hasty` | 2 accounts, 5 screens, 2 requests, 1 edit, a user who never waits, no rules, traps included | `TypeOK`, and late answers present no screen where it does not belong (`WellStacked`) |
| `pager_star` | lists up to 4, 2 changes of the container, which may shrink | the star pager stays in its own copy (`TypeOK`, `PagesInRange`) |
| `screens` | 2 dates, a starred and a plain body, 2 keys, 3 edits, 3 searches or refreshes, 1 push | at rest the main table has the container's rows (`TableFits`) and the search list only dreams of the diary (`NoStaleRow`); `deleteRows` ends the process only after a push or a date saved twice (`NoRowTrap`) |
| `store` | 3 writes, the first and the last synced, a memtable of 1 entry, 1 compaction, 1 kill, 1 loss of power, 1 failing call, 1 iterator, fairness | `LevelStore` implements `KeyStore` (`StoreSpec`), torn logs included, numbers are fresh (`NumbersFresh`), no needed file is deleted (`NeededFilesExist`), every write returns (`EveryWriteReturns`) |
| `levels` | 3 keys, 4 levels, 4 writes, as the client's wrapper uses the engine: no snapshot, no CompactRange | every read finds the version it should (`ReadsCorrect`), because versions are ordered by place (`NewerAbove`) and files of a level are disjoint (`LevelsDisjoint`) |
| `levels_snapshots` | 2 keys, 4 levels, 4 writes, 1 snapshot, automatic and manual compactions | no compaction drops a value that somebody should find (`ValuesKept`), its inputs stay in place (`TypeOK`) |
| `log` | blocks of 4 with headers of 2, 3 records of length 0 to 5, 1 fault and a crash | the reader returns whole, genuine records in order (`Genuine`), loses only what was harmed (`NothingElseLost`), and does not report a crash as corruption (`NoFalseAlarm`) |
| `find_replace` | 1 device, 1 dream stored, 2 edits | violated: a date gets two dreams (`OneDreamPerDate`), see section 4 |

Deadlock is checked in `levels_snapshots`. Elsewhere every bound (`MaxEdits`, `MaxWrites`,
`MaxKills` and so on) can be used up, a log is read to its end, and an app nobody taps
may rest for ever.

Bounds. Two edits are enough for the interactions of a save with a deletion, of two
deletions and of a save with a replacement; three keys let a node hold a hole and two
dreams. One lost connection is enough to send every pending write twice, one kill to
cut an `updateAction` at each of its writes. `ServerStaysReadable` says nothing of the time after
a lost connection, when the keys may have a hole (section 4). Four screens and two requests hold a whole
change of account: a user signed in at launch, menu, logout or withdrawal, login screen, main
screen of the other, who then makes the one edit; with `WaitShown = FALSE` these bounds reach the violation of
`OwnDreamsOnly` of section 4, and with `WaitAuth = FALSE` that of `NeverNil`. The fifth screen of
`session_hasty` is one more to have in front when a late answer comes. Lists of four
have a first, a last and two inner pages. `MaxScreens` bounds an action of the app, not
of the user, and so could hide a screen that should come; `SignedOutSeesLogin` holds
nevertheless, because a signed-out MainVC in front is reached only at launch. The same bound
keeps a screen from coming in `DiaryShown`, which speaks of the MainVC that is in front.

In the engine, a memtable of one entry makes the second write switch and the third wait, so a
flush, a compaction, a waiting writer and a group overlap; a kill and a loss of power
let a recovery be interrupted and done again. Four writes fill
both memtables and two files, or three versions of one key and a neighbour; three keys
leave room for a gap between two files, and
four levels are enough for an output level with two levels below the input. Level-0 inputs that grow
in two rounds (version_set.cc:566) take five writes, because the first table always goes further
down. The run leaves them to the theorem `NewerStaysAbove`; an instance with five writes, two keys,
three levels and `MaxMemCompactLevel = 1` passes too. Records of
up to five bytes in blocks of two payload bytes have one to four fragments and end at
every distance from the end of a block, the trailer of one byte included.

Fairness in `sync_killed`: the two dispatch queues serve every block; the reconnect
timer of `tryScheduleReconnect` always fires again; the server answers a listen and
applies a put that was sent. Nothing is assumed of the user, of lost connections or
of killed processes. No stronger (SF) fairness is needed because connections are lost
finitely often. In `session_patient`: Auth answers every request, its listener
is called when nobody is signed in, the main queue is served, the reconnect timer fires and
its token comes, and server and client take the messages of a connection that lasts; nothing
is assumed of the user, of lost connections or of when a listen is revoked. In `store`: the writer
at the front and the background thread are not starved by the scheduler; nothing is
assumed of callers, readers, faults, kills or Open.

## 4. Findings

- `find_replace`: the alert promises to delete the earlier dream of the date; the code
  stores a second one (WriteVC.swift:99, :102).

Other schedules that break the same or related properties are reached by other constants,
and the passing runs exclude them by name:

- `NothingLostUnasked` with `MaxKills = 1`: deleting one dream while the process ends
  loses others (Model.swift:46-50).
- `NeverTraps` with two devices, patient or not: a save on one interleaved with a deletion
  on the other leaves a hole; the forced cast (Model.swift:25) then ends the process, at
  every launch.
- `CastSucceeds(server)` after a lost connection (`ServerStaysReadable` without
  `used["drops"] = 0`, two edits): a put sent again leaves a hole for a while.
- `JoinAnswered` of `Session`: a refused sign-up builds an alert and never presents it
  (JoinVC.swift:83).
- `NoIndexTrap` of `DetailPager` with `Pager = "search"`: the search pager compares its index
  in the filtered list with the whole container's count and subscripts past the end
  (SearchDetailPVC.swift:60).
- `NothingLostUnasked` with `WaitLoad = FALSE`: a save before the first snapshot goes
  under key 0 and overwrites another date's dream (WriteVC.swift:112).
- `NeverTraps` with `MaxDrops = MaxKills = 1`: a put sent again after a lost connection
  lands behind the removal it preceded, and the process is killed before the rest is
  sent: a hole, with one device.
- `NeverNil` with `WaitAuth = FALSE`: a withdrawal answered behind StarStorageVC leaves
  the menu in front with nobody signed in; a second one unwraps a nil uid
  (MenuTVC.swift:55).
- `OwnDreamsOnly` with `WaitShown = FALSE`: a user saves, logs out at once, and another signs in;
  the callback of the save runs under the new MainVC, fills the container with the first
  user's dreams and counts as loaded; a deletion then stores them under the second
  (MenuTVC.swift:43, Model.swift:46-50). With `WaitLoad = FALSE` the container
  left by the first user does the same. `RulesPerUser` makes no difference to a patient user.
- `NoOrphanData` with `WaitShown = FALSE`: the account is deleted before the first
  connection is up, which is then opened as nobody, and the removal is refused. With a connection lost
  between the two (without `drops = 0` in the property) the same happens to a removal
  sent again. The data stay, and nobody may read them (MenuTVC.swift:55-57).
- A member keeps its `userInfo`: the removal precedes a deletion that may be refused, so an account may
  be left that has neither diary nor `userInfo` (MenuTVC.swift:55-59).
- `DiaryShown` after a lost connection (without `drops > 0`): the token of the old user was
  asked for, the user changes, and the connection is opened with the old token
  (FPersistentConnection.m:404-434); the new user's listen is refused and not tried again.
- `NoIndexTrap` with `Pager = "detail"` and `MayShrink = TRUE`: the end test is an equality and
  misses an index already past the end (DetailPVC.swift:58).

Three more are of the storage engine, in uses or failures the client's wrapper does not have or does not
notice:

- `LevelsDisjoint` of `Levels` with `Manual = TRUE` and `MaxKey = 3` (`NumLevels = 3`,
  `MaxMemCompactLevel = 2`, `MaxSequence = 4`, no snapshot): `DB::CompactRange` may compact files
  with a gap between them, on both levels. DoCompactionWork flushes `imm_` in between
  (db_impl.cc:922), and PickLevelForMemTableOutput, which sees only the files there are now, may put
  the new table into the gap on the output level, inside the range of the output to come. Two files
  of a level then overlap, against version_set.cc:742 and :765. `levels`, with three keys and
  `Manual = FALSE`, has no overlap: an automatic compaction starts from one file or from level-0
  files that overlap, and leaves no gap. The wrapper never calls CompactRange.
- `NewerAbove` and `ReadsCorrect` of `Levels` with `MaxSnapshots = 1` (`MaxKey = 1`, `NumLevels = 3`,
  `MaxMemCompactLevel = 1`, `MaxSequence = 4`): an output file ends where its size says, also between
  two versions of a key (db_impl.cc:998-1004), which only a snapshot keeps apart; the next compaction may
  take the file with the newer version down and leave the older above it, where
  version_set.cc:346-348 counts on the opposite. The wrapper never takes a snapshot.
- `NoWritesLost` of `LevelStore` (two writes, `MaxKills = 1`, `MaxFaults = 1`, nothing else): a failed
  append is no background error (db_impl.cc:1224); the writer goes on in the torn log, and a write
  acknowledged later is lost when the process ends, where options.h:193 says that none is. A failed
  sync is a background error (db_impl.cc:1236), and so is a failed edit of the manifest, after
  which no write is acknowledged; those are in `store`.

## 5. Proofs

The theorems of `DreamSyncProofs` are of `DreamSync!Spec`, for every finite or infinite set of devices,
dates and bodies and every bound, from the named assumptions of `Dreams` and
`DreamSync`: `Dates` are integers, `MaxKey` and the bounds are naturals, `None` is not
a dream and `Unknown` not a node.

- `TypeCorrect`, `AcksCorrect`: neither is inductive alone (taking an acknowledgement
  needs a pending write to retire, and the count of acknowledgements needs the types),
  so the invariant is `TypeInv`, their conjunction. The lemmas under it say what
  `Visible`, `updateAction`, `raiseEvents` and the operators of `Dreams` return.
- `PipelineCorrect`: `EventPipeline` explains why an event is never missing. The case
  that needs care is a container changed locally: a deletion queues a `removeValue`,
  which changes the snapshot unless it is already empty (then the container, emptied,
  shows it); a refresh queues an observe, whose registration gets an event of its own.
- `HeardCorrect`: the last value on its way to a listening device is the server's.
- `ConvergenceCorrect`: in a settled state the queues are empty, so by `ServerHeard`
  the cache is the server's value, by `EventPipeline` the container shows it. `Inv`,
  the conjunction of the three, is inductive.

Four more theorems are about one device (`OneDevice`), for any dates, bodies, keys and bounds:

- `EchoStaysSilent`, without any assumption on the user. The invariant `Echo` says that
  the messages on their way answer, in order, the puts applied on this connection
  (`Answers`), that the value with each answer is the server's but for the keys that
  later puts determine (`Agree`), and that so is the cache (`Own`). The
  overlay of the pending writes hides just those keys, so a value, an acknowledgement
  or the value sent after a reconnect shows nothing new.
- `CastNeverFails`, for a user who waits (`Patient`) when the app is never killed or
  the connection never lost; `DiaryStaysReadable`, for the same user when the connection is
  never lost. `Patience` says what such a device may be doing: reading, about
  to remove, or writing a chain of puts each of which continues the array where the one
  before it stopped (`Chained`); so all it shows, at every moment of an
  `updateAction`, is an array (`Filled`). `Upright` says the same of the server while
  no put is sent twice. A tap finds the queues empty, so by `EventPipeline` the count
  that WriteVC stores under is the first free key.
- `OnlyAskedIsLost`, for the same user when the app is never killed; the connection may be
  lost at any time. By `Careful`, every dream the database ever held, and every one that
  a pending write stores, has a date the user agreed to, or a queued call will store it, or it is
  shown and no queued call removes it. The case that needs care is `RunRemove`: its container
  is the snapshot shown (`EventPipeline` again), so `updateAction` puts back
  every dream of another date.

The hypotheses are needed: section 4 names the schedules that break the properties with a second device, a
user who does not wait, a killed process, and a connection lost before a kill.

`PagerCorrect` and `PagerTypes` (`DetailPagerProofs`): for every length of the lists, the star
pager, and the main pager while no dream disappears below it, never leave their lists. The
assumption `Consistent` says just that; for the search pager, and the main pager on a
shrinking container, the statement is false. `PagesInRange` is not inductive alone: it needs
the types and that `EndCount` is `ListCount`. `PagerTypes` needs no assumption on the pager.

**Session** (`SessionProofs`), for any set of accounts and any bounds:

- `SessionTypes`, `ScreensWellStacked`: without any assumption on the user. The invariant
  `StackInv` says that identities of screens are never used again and that a request
  was made by a screen of the right kind, so a late answer that finds its screen in front
  finds one that may present what the answer asks for.
- `UserNeverNil` under `WaitAuth` and `WaitListener`: a user
  who waits has one request at a time, made by the screen in front (`PatientInv`).
- `NothingOrphaned` under `WaitAuth`, `WaitLoad` and `WaitShown`, with or without rules: while the first connection
  lasts, the data of a deleted account are gone or the put that removes them is still to be
  answered. `PatientInv` is not enough, because put, change of user and deletion travel
  apart. `LinkInv` says of the first connection: before it is up nothing is shown, so nothing but
  a `userInfo` waits to be sent, and the token asked for is the current user's (`Early`); the
  puts on their way wait for answers, each is there once, and no answer on its way back is theirs
  (`Numbered`); a removal on its way is preceded by the news of its own user, whatever changes
  of user are on their way too (`Route`, `InForce`), so that the server allows it; and of an account that
  is gone or about to be (`Leaving`), either all is erased and no put to it is on its way, or the
  last one on its way is the removal (`Going`), because a user who waits makes no put to it
  afterwards.

The hypotheses are those of the run `session_patient`. They are needed: section 4 has the schedules
that break `NeverNil` without `WaitAuth` and `NoOrphanData` without `WaitShown` or after a lost connection.

**Screens** (`ScreensProofs`), for any dates, bodies, bounds, and any number of searches,
refreshes and changes by other devices. None of the properties is inductive: they speak of moments when
nothing is under way.

- `ScreensTypes`: with `Started`, that only MainVC's fetch is under way before the first value.
- `TableStaysFit`, `NoRowGoesStale`: by `Follow`, each list shows the snapshot of the SDK, or
  the last event on its way to the list's observer carries that snapshot, or a queued call will change the
  snapshot (and so raise an event for everybody), or an observer that gets an event
  of its own is on its way. The case that needs care is the one where no event
  comes: a removal from an empty diary, after which the container is empty as well.
- `RowsNeverTrap`: by `Calm`, with one user on one device and no date saved twice, an alert
  or a removal is all that is under way, the row it captured is its dream's, and the
  dates of the dreams stored and about to be stored differ. So `removeAction`, which
  removes by date, takes one dream, and `deleteRows` fits. After `updateAction`'s removal
  its sets may repeat dates of the old snapshot but not each other's.

**LevelStore** (`LevelStoreProofs`), for any set of writes, any
size of the memtable and any number of compactions, readers, faults, kills and losses of power:

- `StoreTypes`, `NumbersStayFresh`, `NeededFilesStay`: the invariant `BaseInv` has the types,
  the queue of writers (`Queue`), which work goes on in which state of the process (`Control`),
  that the tables of every version in use exist and the manifest agrees with the
  version in memory unless there was an error (`Files`), and how the numbers in use, in
  the manifest and in an edit at work compare with the counters (`Numbers`, `Sequences`).
- `EngineKeepsPromises`, `Spec => StoreSpec`: every step of the engine is a step of `KeyStore`
  or a stutter under the mapping of `LevelStore` (`Visible` while up, `Recoverable`
  while not). What `KeyStore` promises is what the code keeps: an acknowledged write is safe
  from the end of the process, and a synced one from that of the machine, unless an earlier
  write has failed and torn the log in use (`Torn`); a new log, and a recovery, end that risk; and a
  write that was safe or durable stays so in any case. `ContentInv` adds to `BaseInv` what the files hold: old logs hold nothing
  that is not in `imm` or a table, and the one in use nothing but `mem`, the record of the group at work
  and what was given up (`LogContents`, `GivenUp`); that record is its last, and synced in time, unless the
  log is torn (`RecordLogged`); an edit that was logged is in the manifest unless the manifest's end is
  lost (`EditRange`);
  the tables hold what they replace (`TableContents`, `Replayed`); no
  write and no sequence number occurs twice (`Pairs`). A flush, a compaction, a switch
  of memtables and a replayed log are then stutters or make more durable; `FinishWrite`
  commits; a kill keeps the recoverable entries, a loss of power the durable ones.

**Levels** (`LevelsProofs`), for any number of keys, levels and writes:

- `LevelsTypes`, `ValuesStayKept`: without hypotheses, snapshots, `DB::CompactRange` and output files
  that end anywhere included. For the second, `KeptInv` says that what each
  snapshot, and the last sequence number, should find of a key is somewhere if it is a value (`Held`), and that the smallest
  snapshot a compaction at work has fixed is older than all that are held: snapshots
  taken meanwhile are newer.
- `LevelsStayDisjoint`, `NewerStaysAbove`, `ReadsStayCorrect`: under `Manual = FALSE` (nobody calls
  CompactRange) and `MaxSnapshots = 0`, as the client's wrapper uses the engine. Both are
  needed: section 4 has the instances that refute the statements without them. The
  invariant `FilesInv` says of a compaction at work that its inputs leave no gap (`Solid`), that no other file of the
  output level meets them and that what stays behind on their level is newer
  (`GoodInputs`); a flush in the middle of it cannot go below a file it overlaps, so it
  stays clear of the output. `GoodWork` says that the smallest snapshot and the deeper keys fixed at the start still
  justify at the end what is dropped. `Remembered` gives the reads: the newest version a
  snapshot may see is somewhere, or is a deletion with nothing older left.

**LevelLog** (`LevelLogProofs`), for any sizes of blocks and headers (a header is smaller than a
block) and any number of records, crashes, torn appends, damaged cells and failed reads:

- `LogTypes`: with the cells of the file, what `Fresh` says of a reader not yet opened, and that a
  round of AddRecord's loop cuts one piece that stays in its block (`EmitCuts`).
- `ReaderGenuine`, `ReaderCalm`, `LossBounded`: the invariant `LogInv` says that there is a sequence `F` of pieces
  of records, one for each round of AddRecord's loop, that explains file and reader.
  `Layout`: pieces follow each other, and a piece starts its record or goes on where the
  one before it stopped. `MadeOf`: each cell of the file is its piece's, or
  a zero, or bad; so a fragment whose header and checksum fit is a piece, whole
  (`FragmentIsPiece`), however much damage there is. `Reader`: what is gathered is all of a
  record up to a piece that is less than a header behind the reader; so a
  fragment that goes on from it is the next piece (`NextPiece`), and what is returned
  is a record. That is `Genuine`. `Aligned`: up to the first failure each piece lies where the
  one before it or the trailer ends (`Seated`), and the undamaged cells of it are there
  (`Intact`). `Quiet`: while nothing went wrong the reader has read the pieces up to
  some `j`, piece `j + 1` is where it stands or at the start of the next block, and it is gathering
  if and only if piece `j` does not end a record (`NextBlock`). So the only
  fragment that does not fit the buffer is one the file ends in. That is `NoFalseAlarm`.
  The last three parts are for `NothingElseLost`, with damage and from any initial offset.
  `Chains`: a record written in full has all its pieces, whole and one behind the other.
  `Gridded`: the writer's blocks are those of the file (its bases are multiples of
  `BlockSize`), and a block that has a piece has one at its start, so a reader that drops a
  buffer is at a piece again with the next block. `Progress`: the buffer ends with a
  block or the file (`InBlock`); the reader is between two pieces, and at one if the buffer
  holds more of them (`Sync`); of the spared records those behind it were returned, the
  one it is in is being gathered, and none of them starts before a reader that still skips
  to its initial offset (`Done`). While a spared record is ahead in the buffer, ReadPhysicalRecord
  gets a fragment, not a bad record or the end of the file (`MustFetch`). So what is
  dropped with a buffer holds none of them, and ReadRecord meets the end of the file
  when they are all behind the reader.

TLC checked the invariants before they were proved, on the instances of the runs
and of variants of them: for `LevelsInv` the constants of `levels`, for `KeptInv` those of
`levels_snapshots`; for `PatientInv` and `LinkInv` of `Session` those of `session_patient`; for
`Follow` and `Calm` those of `screens`, three dates with three edits, and three keys with a
push; for `Aligned` and `Quiet` blocks of 4 cells with headers of 2 and blocks of 3 with headers of 1; for
`Chains`, `Gridded` and `Progress` three instances (`BlockSize`, `HeaderSize`, `MaxLength`,
`MaxRecords`, `MaxFaults`): 4, 2, 3, 3, 1; 3, 1, 2, 3, 2; and 5, 2, 7, 2, 2; for `PatientInv` and `LossInv` of `DreamSync` those of `sync_patient`, three edits, and a killed process
in place of the lost connection. The hypotheses of the theorems are constants of passing runs; `DiaryStaysReadable`
needs a user who waits for the load as well, which `sync_killed` does not.

Model-checked only: liveness (`CatchesUp`, `SignedOutSeesLogin`, `WithdrawnDataGoes`, `DiaryShown`,
`EveryWriteReturns`), which is out of the prover's reach, and `OwnDreamsOnly`. For the latter one
would have to show that what the server sends after a reconnect is what was shown before,
as `DreamSync`'s `Echo` does for one account. Every other invariant and action property of a passing run is
stated by a theorem.

## 6. Not modelled

- UI layout, fonts, colours, pickers; the order in which UIKit carries out a dismissal and
  a presentation asked for together (WriteVC.swift:71-72), which is not in the repository.
- Of the storage engine: DBIter and the merging iterators, the format of tables and
  blocks, the caches, the filter policy, the file-system layer, repair, the C interface, the
  skip list and the arena. Their data are taken to be what was put in.
- Of the database client: persistence (off), transactions, `onDisconnect`, queries with
  parameters; rejected writes are in `Session` only.
- The other pods (Protobuf, nanopb, GTMSessionFetcher, FirebaseAuth and the user-interface
  ones): many are headers of code that is elsewhere, and no state of this program depends
  on them. Swift files that the project does not compile (`Model/DreamContainer.swift`,
  `Model/Config.swift`, `VC/Menu/*`).

## 7. Plan

Modelling left: **DBIter** and the merging iterator, which change direction over memtables
that grow and blocks that may fail to be read.

Proofs left: `OwnDreamsOnly` of `Session`. The liveness properties need reasoning about fairness and ENABLED,
which the proof system cannot do.
