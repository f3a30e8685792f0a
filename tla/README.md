# A TLA+ verification of crossnook

crossnook is an e-book reader for an e-ink device: a small single-threaded C
program that shows EPUBs through an external engine, keeps the reading position
on an SD card and synchronises it with a KOReader ("KOSync") server over its
own HTTP/TLS code.  This directory models what it does between an input event,
a file, a packet and a power loss.  Paths below are relative to the source tree
`src/src/`; documents are in `src/docs/`.

## 1. Inventory

| component | state | operations | talks to | module |
|---|---|---|---|---|
| sync integration `sync/kosync_sync.c`, `kosync_push.c`, `kosync_pull.c`, and the controllers `sync/*_controller.c`, `persisted_sync_profile.c` | result record of one operation | sync, push, pull, each once | progress store, time, DNS, protocol client | `KosyncSync`, `SyncContract` |
| result policy `sync/kosync_policy.c` | none | classify a result into outcome, retry advice, what was mutated | - | `KosyncPolicy` |
| protocol client `sync/kosync.c` | client configuration | GET and PUT of progress, authorize; parsing and writing of JSON | HTTP exchange | `KosyncJson`, `JsonText`, `ServerUrl` |
| HTTP `net/netsimple.c` | one connection, one buffer | connect, send, receive, frame, with a deadline | the server | `NetExchange`, `HttpExchange` |
| TLS `net/tlssimple.c` | engine and descriptor | open (anchors, entropy, handshake), send, receive, close | BearSSL, the server | `TlsOpen`, `TlsConnection` |
| DNS `net/dnssimple.c` | one question, its attempts | resolve; read compressed names | name servers | `DnsClient`, `DnsName` |
| time `time/timesimple.c` | one request | ask, judge, set the clock | time servers | `SntpClient` |
| progress, settings, credential stores `progress/progress_store.c`, `settings/settings_store.c`, `credentials/credential_store.c` | one file each (per book); counter of temporary names | load, save | file system | `AtomicReplace`, `AtomicRegister`, `RecordLoad`, `TextRecord`, `ProgressRecord` |
| device identity `identity/device_identity.c` | `device-identity.v1` | load, load or create | file system, entropy | `DeviceIdentity` |
| account setup `account/account_setup_controller.c`, `account_bootstrap.c`, `sync_activation.c` | the three account files | submit (new/resume, replace), activate existing, inspect | the three stores, server | `AccountSetup` |
| book identity `book/koreader_identity.c`, `progress/book_identity.c` | digest context | KOReader's binary identity, local path token | file system | `BookIdentity`, `BookToken` |
| storage `storage/storage_layout.c`, `platform/storage_verify.c` | directories, a copy of the mount table | normalise a root, verify it, prepare it | kernel, file system | `StoragePath`, `MountLine`, `MountInfo`, `StorageVerify`, `StorageLayout` |
| library `library/library.c` | list of books | scan a directory | file system | `Library` |
| reader `reader/reader.cpp` | document, page, page count, sizes, fonts | open, page, restyle, get and go to a position | CREngine | `ReaderEngine` |
| UI `ui/ui.c` | screen, selection, open book, dialogs | one input event at a time | library, reader, applications | `ReaderUi` |
| account form `ui/ui.c`, `ui/account_text_input.c`, `app/account_setup_ui.c`, `app/account-setup-ui.c` | fields, caret, keyboard, password, phase | edit, submit, execute | account setup | `AccountForm`, `AccountInput` |
| reader session `app/reader_sync.c`, `reader_conflict.c`, `app/sync-conflict-ui-test.c` | reader position, last conflict | save, sync, apply; resolve a conflict | UI, controllers, progress store | `ReaderSession` |
| text `graphics/text.c`, UTF-8 rules of six files | - | decode, wrap, shorten, validate | font library | `TextLayout`, `Utf8` |
| key derivation, pixels, framebuffer and input devices, tests, toolchain | | | | not modelled, section 5 |

### What is hard here

* **Unreliable delivery.**  A PUT that timed out may still be applied later.
  The program keeps no journal: what it tells its caller about the server
  (NONE, CONFIRMED, POSSIBLE) rests on two hand-written lists of failure codes
  that "prove" nothing was sent, one in the policy, one in the push.  DNS and
  time replies come late, twice, or to an earlier attempt.
* **Stale state.**  The local record is read before three or four blocking
  calls and used after them; another device may write the server between the
  GET and the PUT (`milestone-kosync-integration.md:81` accepts that race); a
  conflict is resolved long after it was found; the mount table is a copy.
* **Crash recovery.**  Each store replaces its file by write, fsync, rename and
  directory fsync, with three different policies about temporary names and
  about what a failed directory fsync means.  The identity file is written
  under its final name and relies on `O_EXCL` instead.
* **Partial failure.**  An account is three files with no transaction over them;
  an import is saved before the reader can go there; any allocation may fail.
* **Interleaving.**  The program is single threaded.  Two processes may run at
  once; the identity store and the directory layout are written for that, the
  progress store tolerates it, the settings store excludes it
  (`milestone-persistent-settings.md:166`), and every load may meet a file that
  is being replaced.
* **Several copies of a rule.**  UTF-8, addresses, paths and mount escapes are
  each judged in several places, at save time, at sync time and when shown.
* **Liveness.**  Nothing retries in the background, so the question is whether a
  call returns, and whether "Working" on the screen is ever replaced.

`PROJECT.json` lists every component with its status and every hazard with its
line and the properties that answer it.

## 2. Modules

```
KosyncPolicy > NetExchange > KosyncSync     sync, push, pull end to end    refines SyncContract
    KosyncSyncProofs
AtomicReplace                               saves of the three stores      refines AtomicRegister
DeviceIdentity                              the identity file
    AtomicReplaceProofs                     of both
AccountSetup                                submit, activate, inspect over three files
    AccountSetupProofs

Screens   = ReaderUi, ReaderSession (= ReaderUi + SyncContract), ReaderEngine, Library,
            TextLayout, AccountForm, AccountInput
    SessionProofs > ScreensProofs
Calls     = DnsClient, SntpClient, HttpExchange, TlsConnection, TlsOpen, RecordLoad,
            MountInfo, StorageVerify, StorageLayout, BookIdentity
    CallsProofs
Formats   = KosyncJson, JsonText, Utf8, ServerUrl, DnsName, MountLine, StoragePath,
            TextRecord, ProgressRecord, BookToken
    WrittenProofs > RulesProofs
```

Parameters are CONSTANTS with named assumptions; each module is one component
with its variables, `Init`, one action per operation or system call, and its
properties.  `Screens`, `Calls` and `Formats` are compositions: the program makes
these calls one at a time, so a behaviour exercises one part, named by the
variable `part` and chosen in `Init`; the variables of all other parts hold the
value `"-"` and never change.  The values of the constants for TLC stand at the end
of a module, after what is modelled, and the proofs use none of them.  A run of such a module is one exploration of all
its parts; a property named there is the conjunction, part by part, of the
properties the component states, and its definition lists them.

Conventions.  C identifiers keep their names where TLA+ allows; a code is the C
enumerator without its prefix.  A mutated form of a definition stands before it,
is named after it (`Fsync_unlinks`) and says which slip it models; no
specification uses one.

### The sync core

**KosyncPolicy** - `sync/kosync_policy.c` and the classifiers of the push and
pull controllers, as operators over result records.  A table of the C code is a
set: the failures that prove that the PUT was not sent (`transport_is_pre_put`,
`proven_pre_send`), those that are worth a retry, and so on.

**NetExchange** - `net` is the exchange in progress, one step per blocking call
of `cn_netsimple_exchange`.  `wire` holds the requests that left the device
completely; the server serves a GET or applies a PUT whenever it likes, also long
after the device gave up, and may refuse, garble or lose the answer.  A PUT is
applied at most once: the device never resends.  A send that fails may have
delivered the request all the same: the error path of the exchange calls
`cn_tls_close` (`netsimple.c:733`), which flushes the pending records for up to
200 ms more (`tlssimple.c:642`).  `SendFails` therefore leaves the wire as it was or
puts the request on it, and that is why the SEND failures must not be in
`transport_is_pre_put` nor in `proven_pre_send`: with them there, the runs and the
proofs fail (`transport_is_pre_put_any_send`, `proven_pre_send_any_send`).
`answered` and `applied` are history.

**KosyncSync** - `pc` names the next block of the controller and integration
functions, in the order of the code.  Explicit push skips the GET, explicit pull
the load.  `res` is the C result record, `product` what the caller gets.  `local`
is the persisted record of the one book in play; a position is a member of
`Positions`, those in `XPointers` are the ones the local store accepts.  While
no operation runs the reader may save and the account be enabled or disabled.
`PowerLoss` at any moment forgets the operation and keeps the files, and
leaves the request on the wire.

**SyncContract** - what a caller may rely on, whatever the network does: an
operation asks the server at most once, uploads at most once and only what is
stored, imports only what it was answered, and its report is true of both sides.
`ContractSpec` is `SyncContract!Spec` under the mapping at the end of
`KosyncSync`; `ReaderSession` is built on the contract, not on the network.

### Stores, identity, account

**AtomicReplace** has one step per system call of the three save functions.
`Store` selects the differences: whether a left-over temporary is unlinked
(progress, settings) or skipped by counting on (credentials), whether a directory
that may not have reached the disk is reported (settings, credentials) or ignored
(progress), whether the error exit unlinks although nothing was created.
`cache` is the directory as processes see it, `disk` what a power loss leaves:
`Writeback` makes them equal at any moment, and `Crash` turns every file that
was not synced into `Torn`.  **AtomicRegister** is the abstract promise: a save
commits in one instant, a power loss takes the register back to the last value
persisted, and `OK` means persisted if `Strict`.

**RecordLoad** is the other half: lstat, open, fstat, read, read one more, close,
parse, while another process renames over the file, truncates it or lets it grow.
**TextRecord** and **ProgressRecord** are the two file formats: written, then
damaged, cut off, extended, edited or written by another version, then parsed.

**DeviceIdentity** - `load` and `load_or_create` by several processes, one step
per system call.  `second` is the read after a lost race: if that one finds
nothing again, the code gives up.

**AccountSetup** - `submit` with its two intents, `activate_existing` and
`inspect`: local state, bootstrap (settings, then credentials, each skipped if
equal), identity, authorization, the save that enables, the profile check.  The
saves use what `AtomicRegister` promises and the identity what `DeviceIdentity`
does: each file has a visible content and a `disk` content.  `held` is the
pair the activation has loaded; `authorized`, `uncertain`, `activated` are
history.  Authorization is one step: it changes nothing on the server, and how an
exchange fails is the business of `NetExchange`.

### Screens

**ReaderUi** - the handler of one input event, screen by screen, with the
dialogs of a conflict and of feedback over the open book.  **ReaderSession** -
the event loop of `app/sync-conflict-ui-test.c`, the one application that connects
the screens with the sync: it takes the request the user authorized, runs
`cn_reader_sync_manual_once` or `cn_reader_sync_resolve_conflict`, and shows what
came of it, while other devices upload and another process saves.
**ReaderEngine** - the adapter over CREngine: fonts registered once per process,
sizes, layout, page, positions.  **Library** - the scan with any order of
entries, files that vanish and allocations that fail.  **TextLayout** - decoding,
word wrap and the shortened title.  A decoded text has all its code points counted
and as many stored as the array holds; what is read behind them is arbitrary, as in
the code.  **AccountForm** and **AccountInput** - the
form with its fields, options and messages, its coordinator and loop; the field
with its caret, the layouts of keys, and what a touch hits.  The loop of the form ends
when POWER was held, or when input or display fail (`PollFails`, `DrawRequest`,
`Draw`); `cn_ui_free` follows, whichever it was.

### Calls

**DnsClient**, **SntpClient** - the question is sent to one server after another,
with time in ticks; packets are lost, duplicated, delayed and reordered.
**HttpExchange** - addresses tried in turn, the receive loop with its buffer,
framing and close.  **TlsOpen**, **TlsConnection** - CA file and anchors, entropy
with its wait, handshake, records and close, each against its deadline.
**MountInfo**, **MountLine**, **StorageVerify** - the table read in pieces while
it changes, a line as the kernel escapes it, the judgement of a root.
**StorageLayout** - the directories prepared by two processes.  **BookIdentity** -
the sampled windows of a file that is written to meanwhile.

### Formats

**KosyncJson** - the response body member by member with the buffer it owns.
**JsonText** - strings with their escapes, percentages through decimal and float.
**Utf8** - the six validators and decoders, on every text of four bytes.
**ServerUrl** - the address judged by the settings, taken apart by the client,
judged again by HTTP.  **DnsName** - labels and pointers.  **StoragePath** - the
two normalisers.  **BookToken** - FNV-1a at a smaller width.

## 3. Runs

| run | question | bounds | states |
|---|---|---|---|
| `kosync_sync` | do outcome, evidence and writes agree with what happened? | 2 operations of any kind, 2 positions + 1 the store refuses | 263 350 |
| `kosync_live` | does an operation end whatever the server does, and is it one the contract allows? | 1 operation | 16 994 |
| `progress_store` | does the non-durable save implement the register? | 2 writers, 2 values, 1 name each | 1 437 301 |
| `settings_store` | is OK durable, do left-overs harm? | 1 writer, 2 values | 2 521 |
| `credential_store` | does the save with counted names implement the register? | 1 writer, 2 values, 2 names, 2 tries | 267 243 |
| `device_identity` | one identity, for ever, and does a caller that lost the race return? | 2 processes, 2 ids | 19 335 |
| `account_setup` | is every reachable combination of the files sound? | 2 sites, 2 accounts | 237 646 |
| `account_mixed` | (violated) can an account nobody entered be activated? | as above | ≈ 6 900 |
| `screens` | is what the user sees what is so? | see `Screens` | 522 292 |
| `long_titles` | (violated) does a title of any length stay on its line? | array of 2, text of 5 | ≈ 28 000 |
| `calls` | are answers true, and do calls return? | see `Calls` | 438 006 |
| `formats` | is what is written read back, do copies of a rule agree? | see `Formats` | 1 028 726 |

Why the bounds are enough.  A late PUT can only harm the operation that follows
it, so two operations show every interference between operations; one more
position than the device knows distinguishes "equal", "different" and "not
storable".  In the stores, a save meets at most one other save at a time, and
values are only ever compared; counted names with two names and two tries reach
the skip, the wrap and the give-up: `credential_store` is the run in which names are
counted and taken by left-overs (there `RegisterSpec` answers the hazard of
`credential_store.c:346`), the writers of the other two stores have one name each.
Two identity processes are enough for the race that has a third party - one creates,
one loses, one arrives when the first has failed - because a process whose call has
failed calls again; the theorems are about any number.  In the account,
replacing, resuming and mixing need two of each, and the inputs leave one
registered pair unentered, so that a mixed pair is a real account.

In the composed runs each instance stands on both sides of every limit of its
code.  `screens`: lists shorter and longer than the viewport, a book of two pages
with positions on, between and off them, four sizes, a font that cannot be
loaded, directories of three entries whose titles differ in case, alphabet and
validity, titles up to more than twice their array, a field longer than its box.  `calls`:
two servers and one reply too many, an era of six seconds that begins during the call,
responses around the declared length and the buffer, CA files around the
buffer, files and tables that change twice, books that end at, in and between the
windows (36 bytes with windows of 2: the code's ratio of offset to size is kept).
`formats`: bytes at both ends of every range the UTF-8 code distinguishes, runs of
characters at both sides of every length, every packet of five bytes over labels,
pointers and reserved bytes, every path of seven characters.  The named constants
of each instance are the bounds; there are no others, except `Ops`
(operation numbers), `MaxSeq` (the 32-bit counter of temporary names) and `Tries`
(32 in the code).  Interchangeable model values are symmetric in the
runs that check safety; runs with liveness use no symmetry.  The deadlock check is
off where a behaviour ends: after the last operation number, and in the three
composed runs, whose parts end when a call has returned or an input was read.

### What the properties say

Sync.  `RemoteEvidenceSound` - remote NONE was not applied and never will be,
although a request may still be on the wire; CONFIRMED was.
`UploadOnlyOverNothing` - a sync uploads only after the server really answered,
to this operation, that it stores nothing.  `OutcomeTruthful` - UNCHANGED,
CONFLICT, NO_STATE, IMPORTED, UPLOADED... are true of the stored local record
and of the record the server held when it served this operation.
`LocalWriteIsAnImport` - the only writes of a running operation.
`NetworkOnlyWhenAllowed` - disabled accounts and impossible pushes stay off the
network.  `NeverFailsClosed` - the classifier's defensive branch, which would
erase the evidence of a mutation, is unreachable from the integration.
`ContractSpec` - the refinement.  `OperationEnds` - liveness.

Files.  `LoadNeverCorrupt`, `OKIsDurable`, `LeftoverNeverBlocks`, `RegisterSpec` -
a load meets no half-written file; OK means durable where the interface says so;
left-overs harm nothing.  The progress store checks no `OKIsDurable`: its OK does
not promise it (`progress_store.c:419`).  `OneIdentity`, `CreatedIsForever`,
`NeverRotated`, `CallReturns` - identity.  A torn file blocks the identity for
ever; `milestone-persistent-device-identity.md:65` accepts it and no property
denies it.  `EnabledWasAuthorized`, `NoDeadEnd`, `ActivatedStaysReady`,
`StatusTruthful`, `NeverOverwrites` - account.  The first three are conditional
on no save having been reported uncertain where a power loss could take it back:
a retry finds the visible file equal to what it wants and does not sync again.

Screens.  `SyncKeepsFaith` - a sync that saved first imports nothing over it, a
choice acts on the conflict that was shown or is refused as stale, disk and
screen agree after it or the user is told, the feedback is true of the server.
`ScreensConsistent` - the selection is on the screen, a dialog lies over its book,
a conflict authorizes one choice.  `FormConsistent` - the password does not outlive
the form: it is there only on a form that can be edited, and never after POWER was held
or the program ended; a replacement was confirmed, doubt is inspected before anything is
written; the caret is shown and a touch hits what it is on.
`PagesAndLinesCorrect` - page and count are the engine's, a restored position is
on the page, the list does not depend on the order of the directory and leaks
nothing, lines fit and cut no word, a title whose stored code points decide about it
(`Decided`) stays on its line.  `ScreenFollowsState` - a handler that changes
what is shown asks for a redraw; a refused call moves nothing.  `WorkEnds` -
liveness of "Working".

Calls.  `NetworkAnswersAreTrue` - one reply to the question asked, a time that
misses the true one by half the round trip at most, a whole response, an end that
the peer declared, a handshake with all anchors and all entropy, and each failure
named after what failed.  `StorageAnswersAreTrue` - a record that was stored, a
race not taken for damage, a whole table, a root on the expected card, directories
that are directories, KOReader's identity of an unchanging file.
`FailureLeavesNothing` - no partial output, no descriptor.  `AcceptedWasThere` -
the accepted root was on the card when it was looked at last.  `CallsReturn` -
liveness.

Formats.  `WrittenIsReadBack`, `RulesAgree`, `CallersRecordKept` - round trips
whatever spelling the server prefers; damage, other versions and other books
told from a record; the copies of a rule agree up to the last byte; a failing
call leaves the caller the record it had.

Each property is paired in `PROJECT.json` with mutants - for a composed property
one in each of several of its parts -, plausible slips that make TLC report it
violated.

### Findings

`account_mixed`: after a REPLACE_DISABLED submission that saved the new settings
and then stopped, the account on disk is the new site with the old credentials.
`cn_account_setup_activate_existing` sees two valid files, calls it
COMPLETE_DISABLED, sends the old user's key to the new site, and enables the pair
if the site takes it.  `milestone-sync-account-bootstrap.md:96` says that
readiness must not be inferred from the existence of both files.  The run
shows the shortest such history.

`long_titles`: the comment of `render_fit` (`ui.c:478`) promises one baseline and
"Never draws outside the band".  The count of code points is not cut to the array
(`ui.c:500`, as it is at `:546`), so of a title of more than 160 the width is summed
past what was stored.  If what lies there is narrow, the title is taken for one that
fits and handed whole to `cn_text_render`, which wraps it on further lines.  The run
shows such a title; `TitleIsOneLine`, in `PagesAndLinesCorrect`, is what remains true:
the title is drawn in its band when it was stored whole or what was stored is too wide
already.

### Noticed while modelling

The models follow the code here; no property denies these, and no run
is about them.

* `app/sync-conflict-ui-test.c:655`: the snapshot a choice is compared with is
  taken when the conflict is shown, not when the position was saved.
* `ui/ui.c:652`: a new account that the server rejects leaves a complete disabled
  account, which the form can only inspect, activate or replace.
* `reader/reader.cpp:54`, `:353`: the engine registers a font file once per
  process; a file it refused is taken for registered the second time.
* `reader/reader.cpp:227`: size 0 keeps the old size; `:240`: the page of a
  position is that of the layout it is applied in.
* `library/library.c:267`: a symbolic link to a book is not listed.
* `credentials/credential_store.c:192`: a file of a later version is reported as
  CORRUPT if its lines differ, as unsupported if only the number does.

### Fairness

The user, servers, other devices, other processes and failures are never fair.

* `KosyncSync`: weak fairness of `OperationStep` and `NetworkStep`.  The device
  keeps executing, and each blocking call of the exchange returns, because
  `connect_with_timeout`, `cn_tls_open`, `cn_tls_send_all` and `cn_tls_recv_some`
  poll with a deadline; the failure by deadline is a step of each phase.
* `DeviceIdentity`: weak fairness of each process: no call of the store blocks.
* `Screens`: `Runs` - the loops and the layout of a text are plain code;
  `Answers` - a controller call ends, which is `OperationEnds` of `KosyncSync`.
* `Calls`: `Work` - the process runs, and what is ready is read; `Clock` - time
  passes, so a deadline is met; `Poll` - a wait for entropy that is woken runs on.
  Reading a local file is assumed to end.  Verification and preparation have no wait:
  they end because the copy of the table and the list of paths are finite, whatever is
  mounted or created meanwhile.  Of the processes that prepare, one is fair (`Self`),
  the others are like any other process; stopping it ends its call.

## 4. Proofs

All theorems are about arbitrary constants, under the named ASSUMEs.

* Core: positions, `NoRecord` and `"unanswered"` are distinct, operation numbers
  are positive naturals, `Nothing` is not a value, `Store` is one of the three
  stores, `MaxSeq` and `Tries` are positive, `"none"` is not an id, inputs and
  registrations are pairs of sites and accounts and no site or account is called
  "missing" or "corrupt".
* Screens: a viewport has rows; the engine has pages, sizes are positive, and the
  default page size is the one that size 0 selects; the page of the position
  captured at the top of a page is that page; the capacity of a new list is
  positive and names are byte strings, different in one directory; fields, boxes,
  stops and glyph widths of the form are positive.  Of the text layout only that its
  sizes and widths are numbers, and that the array of `text.c` (512) has room for
  what the one of `ui.c` (160) holds and an ellipsis.
* Calls: one or two DNS and time servers, positive buffers, timeouts and tables,
  finitely many addresses; the window of accepted dates ends within the first era
  (`WindowAssumption`: 2^31 - 1 and 2^32 in the code) and no date during the call is
  a whole era, 136 years, after its lower end (`StartsAssumption`); a call of TLS
  has at least two turns; the expected device is a device, and a root file system
  is mounted first; windows and samples of the book identity are positive.
* Formats: bounds are numbers; bytes of texts are 1 to 255 and of packets 0 to 255;
  a root has room for its suffix; cells are counted modulo an odd number greater
  than any length or progress; the hash has at least two hexadecimal digits and an odd
  prime; `UINT_MAX` is at least 9; a mounted path begins with a slash, an option has
  no comma or space, and none of the optional fields is empty or the dash that ends them.

| module | theorem: property |
|---|---|
| KosyncSyncProofs | EvidenceInvariant: `EvidenceInv`; TypeCorrect; EvidenceSound: `RemoteEvidenceSound`; RecordsInvariant: `RecordsInv`; UploadsOnlyOverNothing: `UploadOnlyOverNothing`; OutcomesTruthful: `OutcomeTruthful`; ClassifierNeverFailsClosed: `NeverFailsClosed`; NetworkWhenAllowed: `NetworkOnlyWhenAllowed`; LocalWritesAreImports: `LocalWriteIsAnImport`; ContractInvariant: `ContractInv`; ContractKept: `ContractSpec` |
| AtomicReplaceProofs | ReplaceInvariant: `ReplaceInv`; NeverCorrupt: `LoadNeverCorrupt`; Refinement: `RegisterSpec`; Durable: `OKIsDurable`; LeftoversHarmless: `LeftoverNeverBlocks`; IdentityInvariant: `IdentityInv`; SameIdentity: `OneIdentity`; CreatedForever: `CreatedIsForever`; RotatesNever: `NeverRotated` |
| AccountSetupProofs | AccountInvariant: `AccountInv`; EnabledOnlyAuthorized: `EnabledWasAuthorized`; SetupInvariant: `SetupInv`; NoDeadEnds: `NoDeadEnd`; ReadyAfterActivated: `ActivatedStaysReady`; ToldTheTruth: `StatusTruthful`; DamagedAndEnabledKept: `NeverOverwrites` |
| CallsProofs | NetworkCallsAnswerTruly: `NetworkAnswersAreTrue`; StorageCallsAnswerTruly: `StorageAnswersAreTrue`; CallsFailCleanly: `FailureLeavesNothing`; AcceptedRootWasThere: `AcceptedWasThere` |
| SessionProofs | lemmas: `UiStrong` and `SessionStrong` are inductive |
| ScreensProofs | ScreensStayConsistent: `ScreensConsistent`; SyncKeepsFaithAlways: `SyncKeepsFaith`; ScreenFollowsStateAlways: `ScreenFollowsState`; FormStaysConsistent: `FormConsistent`; PagesAndLinesStayCorrect: `PagesAndLinesCorrect` |
| WrittenProofs | WrittenIsAlwaysReadBack: `WrittenIsReadBack`; CallersRecordIsKept: `CallersRecordKept` |
| RulesProofs | RulesAlwaysAgree: `RulesAgree` |

So every invariant, every action property and both refinements of the runs that
pass are theorems; what is left to TLC is liveness.  (`DeviceIdentity` calls `Id...`
what `AtomicReplace` has a name for too, so that one module can extend both.)

*Evidence.*  `RemoteEvidenceSound` speaks only of finished operations, so it is
not inductive: the step that reports NONE must know that the running operation
has sent nothing.  `EvidenceInv` adds what each phase of a PUT has let out of
the device (`PutProgress`), that an operation number is used once
(`NumbersFresh`), that a PUT is on the wire at most once and not after it was
applied (`PutHandledOnce`), that the exchange belongs to the call the operation
is blocked in (`ExchangeBelongsToCall`) and which flags of the result can be set
before the step that sets them (`ResultFlags`).  The two tables of failure
codes enter in exactly one place, the return of the PUT, where they must be
contained in the failures of the phases before the send: a failed send may have
delivered the PUT (`SendFails`), so it proves nothing.

*Records.*  `OutcomeTruthful` relates what was read before the network calls to
what is stored after them.  `RecordsInv`, relative to `EvidenceInv`, says that
the stored record is the one loaded until the one step that saves, that what the
GET returned is what the server answered to this operation, and how decision and
flags follow from both.

*Contract.*  The refinement needs to know what the abstract caller has seen:
`ContractInv` says that an operation has at most one GET and one PUT out, that an
answer is not given twice, and which uploads of earlier operations are still on
their way.  Each step of `Next` is then a step of `SyncContract` or changes
nothing the contract sees; the step a request reaches the server is where the
abstract upload takes off, not the call of PUT.

*Stores.*  `ReplaceInv` says which temporary names a writer's step owns, that a
file is synced when its writer is about to rename it, and that the final name is
whole in the cache and on the disk.  The refinement maps `visible` and `durable`
to the final entry of `cache` and `disk`: everything before the rename is
invisible, the rename is the commit, write-back and directory sync are `Persist`.
`DurableInv` adds that a value whose save has returned OK from a store that reports
doubt is on the disk or was replaced there by a later commit.

*Identity.*  `IdentityInv`: at most one process is between its exclusive create
and its return, the file is that process's own, and an id that was created is
whole and synced on both sides.  `NeverRotated` follows: the steps that write an
entry find none or a torn one.

*Account.*  `AccountInv` follows one call through its saves: what the
activation holds is what the files store (`HeldIsStored`), the enabling
save is of an authorized pair (`EnablesAuthorized`), an enabled account is
written no more (`EnabledIsFinal`), the disk is behind the visible files only
by the save in progress or by one reported uncertain (`DiskNotAhead`,
`CredentialsSettled`).  `SetupInv`, inductive on top of it, adds what the place
of a call says of the files (`CallKnows`) and, as long as nothing was ever in
doubt, what the disk holds (`NothingInDoubt`): settings before credentials, all of
a profile before it is enabled, and no file behind but the one being written.

*Compositions.*  `NetworkInv`, `CallsInv` and `ScreensInv` have one conjunct for each
part, guarded by `part`: a part's invariant holds of its variables, and a step of
another part leaves them alone.  Each theorem about a composition is then the
conjunction of what the parts' invariants imply.

*Network.*  `DnsInv` carries the evidence of an answer: a reply to this attempt, by
the server asked, that holds the addresses; a final failure leaves none.
`SntpInv` bounds the true time by the deadline, what is left of the call and the
stamp of each honest reply, so that the difference of two stamps, taken modulo
the era, is the difference of two times, and the date is resolved to the right
era (`SntpMeant`).  `HttpInv` says which connection is in use at which step, and
that a response the peer closed was served whole.  `TlsInv` counts: what the peer
sent is what was taken, what waits in the engine and what is in the records under
way, until the stream is closed, and then, without an error, all was taken.
`OpenInv` says that the anchors are those of the objects before the one read next,
all of them at the end of the file.

*Files and mounts.*  A record is read while others write.  `LoadInv` says that, as
long as nothing disturbed the file, path and descriptor name files that a save
completed and the buffer is a prefix of the second (`LoadRuns`, `LoadPrefix`); so
what is read then parses and is a version that was stored.  `VerifyInv` says which row of
the table was chosen and why (`VerifyChosen`), and, while the mounts are quiet, that
the table is them.  `PrepareInv` is about the directories each process has already
passed, with the others at any step.  `IdentityFed`: the digest was fed KOReader's
windows so far, each byte once and in order, for every length of a file that nobody
writes, and every size and number of windows.

*Session.*  `UiStrong` adds to the checked invariants of the screens that a dialog
that asks finds no pending request.  `SessionStrong` follows one pass of the event
loop: which dialog was up when the event was read and what the user was asked or
told (`Quiet`, `Asking`, `Deciding`, `Told`, `Dismissed`), which call each choice may
make and what it may write (`Effect`), what the controller's report says of the
stored record and of the server while others write both (`Reported`, `Resolved`), and
that the page on the screen is that of the position (`PageShown`).  It rests on
`SyncContract` only.  Both are proved in `SessionProofs` over the two modules and
brought to `Screens` by lemmas that say that the definitions of the two instances
are alike.

*Form and field.*  `FormInv` counts the presses of Continue (`FormConfirmed`), says
which action the loop may find and what it knew of the stored account then, and that
the stops drawn are those of the text whenever the loop waits (`FormLoop`); from POWER on the
loop only draws and ends, so no password comes back (`FormStaysOver`).
`InputInv` relates the stops drawn to the field as it is now and has the highlighted
key in every layout.

*Pages and lines.*  `EngineInv` relates page and page count to the layout last made
and the registered fonts to those the engine can load.  `LibraryInv` says that list and rest of
the directory are disjoint, that the list holds each supported entry met so far
once, and what is allocated.  That the order of the titles does not depend on the
directory needs more: `book_cmp` is a total order on distinct names
(`BookOrder`, `BelowIsTransitive`: the folded codes compare like their first
difference), a list whose neighbours are in order is in order, and two such lists
of one set are equal.  `LayoutInv` judges each line by the one before: it fits, or has no more than one
glyph with a width, cuts no word that fits a line, and is as long as it may be; a
width is the difference of two prefix sums.  Recursive
functions over data are reasoned about from their equation: existence by a greatest
argument, uniqueness by the least one where two would differ.

*What is written.*  `WrittenInv` and `RulesInv` have, like the other compositions,
one conjunct for each part, and with each part goes one lemma for `Init`, one for a
step and one that the invariant implies the part's properties.  `AnswerInv` follows
the buffers of a response through its members: at every place of the parser there is
one owner of the text taken last, and the members read so far say which fields are
set.  `RecordInv` says of every line of a text file that it carries no checksum or
one that was computed over the lines of some file that was sealed.  So when a file is
taken, its lines are those its checksum is over: it is a file that was sealed
(`DamageIsSeen`), and the only spelling of its record (`OkIsCanonical`).
`ProgressInv` knows only that the file is made of cells; that a damaged cell is seen
is a lemma about the checksum (two sequences that differ in one cell have different
sums, because the factor has an inverse modulo an odd number), and that a cut is seen
one about the two lengths in the header: of two files that could be taken, neither
begins the other.  `BookToken` is of the same kind: a step of the hash is one-to-one
in what it was and in the byte, because the prime is odd and the byte changes only the
lowest eight bits, and the digits determine the number.

*Rules that agree.*  For the position the byte ranges of `position_utf8_valid` and the
values of `utf8_valid` are both shown to take, at each place, the character that
`Encoded` writes (`WellFormed`), by the arithmetic of each length; the device name and
the device id then differ from them only in what they refuse more.  For the address,
lengths are sums over the pieces, and host, port, path, endpoint and request head are
bounded one after the other from what the settings accepted.  `NameInv` is a
walk: before the first pointer the end of the stored name is the same from here
as from the beginning, after it that end is in `next`; the number of hops bounds the
steps.  `PathInv` says that the components passed so far are good in the sense of both
normalisers and that the one being read has no slash yet.  For the mount table
the line is a list of fields with one space between them, none of which occurs in a
field because the kernel escapes it: `Split` gives back what was joined,
`unescape` what was escaped, `number` what was written in decimals or, above
`UINT_MAX`, nothing, and the beginning of a line has the beginning of its fields.

*Induction over data.*  The library's induction theorems cannot be instantiated, so
where the argument is an induction over the length of a text it is one over
numbers by hand: the least place at which a recursive function, given by its
equation, would differ from what is claimed of it, does not exist.  `Seq` lemmas at the
beginning of `WrittenProofs` serve all parts.

*Titles.*  A title has any length; of a long one only a beginning is stored, and
`Fit` chooses what is read behind it.  When that beginning is too wide already,
whatever is added to it is too (`BeginningsGrow`, as no width is negative), so the
title is shortened; what is shortened is a beginning of what was stored and an
ellipsis, within the width, and fits the array of `text.c`.  What is not decided by the
beginning is the finding `long_titles`.

### Only model-checked

`OperationEnds`, `CallReturns`, `WorkEnds`, `CallsReturn`: liveness is out of the
prover's reach.  And the fact that two runs which stop at a bound (`MaxUnits`,
`MaxRoot`, `MaxEdits`...) meet their interesting cases below it, which is what TLC
is for; the theorems hold for every value of these bounds.

## 5. Not modelled, and why

* MD5, HMAC and the user key: pure digests.  MD5 is taken to be injective.
* Header assembly, parsing of an IP address and of the status line, the number
  grammar of JSON apart from the percentage, base64: conversions whose result
  enters as valid or not.
* BearSSL, CREngine, the font library: outside the repository; modelled by how
  the code uses them.
* Glyphs, blending, the framebuffer and the evdev and battery devices: output and
  input without a state to check.
* The filename mode of the book identity: nothing but a diagnostic calls it.
* Several books at a time in the sync: records of different books are different
  files and never meet.  `BookToken` shows what separates them.
* A file system that reorders a rename before the data of a synced file, or
  loses synced data.
* The test programs under `app/` and `testapp/`, except the loops of the two
  that are the applications of the screens; the toolchain.

## 6. Plan

Done: all modules above.  What would come next:

1. The loops of `app/reader-test.c` and `app/ui-library-test.c` around `ReaderUi`,
   with the restored position at the opening of a book.
2. `RecordLoad` over the states of `AtomicReplace` instead of its own environment, so
   that the theorem about loads speaks of the saves of the same store.
3. The header assembly of `netsimple.c` with its limits.
