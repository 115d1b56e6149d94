# A verification project for OpenMOS

OpenMOS is a MOS gateway: a device that a newsroom computer system (NCS) talks to
over TCP sockets (MOS 2.x) or WebSockets (MOS 4). It keeps the running orders the
NCS sends, asks for what it lacks, and publishes the committed state of selected
rundowns to a receiver over HTTP. This directory models its stateful parts in
TLA+, checks them with TLC on small instances and proves the most important
properties with TLAPS for every instance.

Paths below are relative to the repository; `internal/` stands for `src/internal/`.

## The system and what can go wrong in it

| Part | State | Operations | Talks to |
|---|---|---|---|
| `messageid/sequence.go` | next identifier, reserved block, mark file | `Open`, `Next`, `reserve` | every sender of messages |
| `server/discovery.go`, `server/resync.go` | queue of running orders to ask for, request in flight, deadline, `discovery.json`; recently asked orders | `begin`, `requestCatalogue`, `registerRequest`, `claimRequest`, `releaseRequest`, `failedRequest`, `enqueueUrgent`, `resolved`, `nudge`; `shouldRequest`, `forget` | all connections share one walk |
| `server/dispatch_ro.go`, `server/source.go` | none of their own | one handler per message | walk, source, service |
| `service/source.go`, `service/source_snapshot.go` | connections and scope owners; the held rundown, its freshness, receipts, the pending snapshot | `Observe`, `RefreshSession`, `Disconnected`, `Uncertain`, `Apply`, `halt` | checkpoint, publisher |
| `service/source_publisher.go` | the body being posted | `RunPublisher`, `publishOnce` | receiver (external) |
| `repository/checkpoint.go` | the checkpoint file and its copy in memory | `OpenCommitted`, `Commit`, `Delivery` | file system |
| `service/source_catalogue*.go`, `repository/catalogue.go` | the catalogue, the inventory of retained rundowns, one source per rundown | `Apply` (listing, enrolling, refusing, updating), `Observe`, `Disconnected`, `publishCatalogueOnce`; publication by four workers | the parts above |
| `service/source_sync.go` | a transfer in parts | start, missing, parts, commit, heartbeat | receiver |
| `server/dedup.go`, `server/dedup_file.go` | receipts of handled messages, append log | lookup, record, compaction | WebSocket server |
| `server/server.go`, `client*.go`, `ws*.go` | connections, lanes, heartbeats | accept, dial, read loops, shutdown | everything |
| `service/mos.go`, `story.go`, `element_action.go`, `onair.go`, ... | none; they edit the repositories | one method per MOS message | repositories, event bus |
| `repository/*.go` | running orders, stories, items, objects; a snapshot file | CRUD, save after each change | file system, MongoDB |
| `internal/xml` | none | parse, validate, generate | - |

What is hard to test: every connection has its own goroutine and all share one
walk, one source and one publisher, each behind a mutex that is released between
the steps of one message; the process may die between any two steps; a write that
failed may have been delivered; answers come late; MOS 2.x answers carry no
identity; saving may fail before or after the rename that commits it. The hazards
are listed, each at its line, in `PROJECT.json`.

## Modules

| Module | Models | State and actions |
|---|---|---|
| `MessageSequence` | `messageid/sequence.go` | `next`, `reservedTo`, `mode` are the fields of `Sequence`, `mark` the file. `Next` is split where it touches the disk, so a crash can fall in between |
| `DiscoveryWalk` | the methods of `discoveryWalk` | no variables: each method is a function from the walk to its result (new walk, request to send, whether it was saved), because each holds the mutex throughout |
| `DiscoveryTracked` | its use under a committed source | `handler[s]` is the goroutine of connection `s`; every call into the walk is one step. `wire` holds what the peer has not answered |
| `DiscoveryUntracked` | its use without one | the same walk, driven without registration; here the question is whether it drains |
| `CommittedSource` | source, publisher, checkpoint, receiver of one rundown | `cp` and `disk` are the checkpoint in memory and on disk, `session` and `owner` the connection maps, `handler[s]` a message between `Observe`, `Apply` and its reply, `publisher` the body being posted, `held` what the receiver has |
| `SourceSet` | `service/source_catalogue.go`, `source_catalogue_publisher.go`, `repository/catalogue.go` | `cat`, `inv` and `store[r]` are the files (catalogue, inventory, one store per rundown), `job` the message the set's mutex is held for and which write comes next, `members` and `refusing` the sources in memory, `broken` the files that failed in this process |
| `ContentStore` | `repository/checkpoint_content.go` | `root` is the checkpoint file, `objects` the content directory, `backup` the `.pre-v2` file; `known` is the map of the same name, `job` the save or upgrade under way and the files it has still to write |
| `SourceTransfer` | `service/source_sync.go`, its use in `publishOnce` | extends `ContentStore`; `transfer` is `sourceTransfer`, `receiver` the external receiver's parts, objects and published revision, `pub` an answer that is not yet recorded |
| `RetryDedup` | `dedup.go`, `dedup_file.go`, `handleRoCreate` | `mem` is the bounded store, `disk` what replaying `dedup.log` gives (replay folds the records, so an append restores one record on top), `cut` what replaying some beginning of it gives, for a process that cannot read on, `handler[h]` a goroutine between `Check`, the service call, `Remember` and its reply. Memory and log have locks of their own and are separate steps |
| `Rundown` | what a newsroom may rely on | the abstract specification: `rundown[r]` is what `roReq` reports, `busy` the messages in hand, `health[r]` how much is promised of it |
| `DurableStore` | `repository/memory.go`, `repository/durable.go` | `mem` and `disk` as three tables, `saving[w]` how far goroutine `w` is in `persist`, `image` the listing in hand, `degraded` |
| `RunningOrders` | `service/*.go`, the handlers of `server/dispatch_ro.go` | extends `DurableStore`; `job[w]` is the message a goroutine handles and its remaining repository calls; `Promise` is `Rundown` instantiated with `View`, what `roReq` would report |
| `MessageSequenceProofs`, `DiscoveryProofs`, `DiscoveryUntrackedProofs`, `CommittedSourceProofs`, `SourceSetProofs`, `ContentStoreProofs`, `RunningOrdersProofs`, `RetryDedupProofs` | - | theorems and proofs; `DiscoveryProofs` is about `DiscoveryTracked`, `ContentStoreProofs` also about `SourceTransfer`, `RunningOrdersProofs` also about `DurableStore` and `Rundown` |
| `MC*` | - | instances for TLC |

`DiscoveryWalk` is extended by both of its users, `DurableStore` by `RunningOrders`,
`ContentStore` by `SourceTransfer`.
Variables marked *history* in the modules record what happened and never influence a
step.

**Abstractions.** Flags are strings or sets of flags. A running order, story, content,
label or messageID is a model value or a small number. A message is its kind and what
coverage, replay or the rundown depend on. Deadlines are "ahead" or "passed", with an
action for time, or in `SourceSet` are decided by the step that looks at the clock.
The mutexes of source, set, walk and store make each locked section one step; nothing
else is atomic, except that repository reads with no write between them are one step.
In `CommittedSource` the checkpoint is one file that is replaced atomically; a failed save
leaves the old or the new file. `ContentStore` takes that apart: each file is, and the
root last. There a checkpoint is its revision, the stories of the pending body and the
accepted revision; everything else of it is the packed part. What the source makes of a message is a free choice in `DiscoveryTracked`
and modelled in `CommittedSource`. In `SourceSet` the life of one member is reduced to
whether its store is installed, used and covered and which receipts it has. The receiver
is external: it takes a newer revision or the one it has, and a "foreign" one may report
a conflict at any time. In `RunningOrders` a story or item is its identifier, its place
and a body, which is its slug, the one field that every handler sets; a status word
changes nothing but the on-air pointer. Number, duration, media, abstract and external
metadata are not modelled, and neither is which handler keeps them: an update of a listed
story drops the external metadata that came with it (`mos.go:312-317`, which the comment
at `mos.go:533` calls a mistake where items are concerned), an `INSERT` stores none, and a
`roStorySend` without a slug leaves the old one.

**Rundown.** The service promises this and no more, and `KeepsItsPromise` says that
the code does. A message that is handled alone and answered OK did what it asked for
(`Asked`, one case per message, on sequences of stories instead of numbered records).
A refusal that asks for a resynchronisation changed nothing. A running order is *torn*
when a message for it was cut off, or when a list left out stories that it had: two
stories may then have one position, so that it is not said where a later `INSERT`, `REPLACE`,
`NEW` or `SWAP` puts things (`AskedSomewhere`: the elements asked for, in some order, and all else as
before). Every other message has its full effect there too, and `roReplace` and `roDelete`
mend it. A running order is *mixed* when messages for it overlapped: of those nothing is
promised until a restart, since the service reads, changes and writes records without a
lock. Other running orders do not
change, and after a restart all are as they were, unless a save failed (`unsaved`). What the
last two exempt is under "Other disagreements" below. `AckedIsSaved` says of the file what
`Rundown` says of restarts, at every acknowledgement and beside the unfinished messages for
other running orders.
An answer is `Closing` (what is said of every message: other running orders, refusals) and
`TakesEffect` (`Asked`); `SpecFor(kinds)` is the promise with the second part for some
kinds of message only, which is what is proved.

An `INSERT` is promised next to its target, on either side: the code puts the new elements
after it, the repository's texts say before. Of a `DELETE` of stories and a `REPLACE` of a story
by others it is promised that the items of the story go, that the new stories stand in its
place and that nothing else changes, but not that the story itself goes: it stays ("Other
disagreements"). `REPLACE items` and a `MOVE items` without a target, which use identifiers of
the wire as keys in the same way and are acknowledged without the effect asked for, are not
among the messages of the run.

## Runs

| Run | Instance | Shows |
|---|---|---|
| `sequence` | limit 7, blocks of 3 | no identifier is reused within a lap of the counter and a restart skips less than a block. Both the wrap inside a block and the clamped last block happen |
| `discovery_overlap` | 2 MOS 2.x connections that overlap, 1 running order | the slot, what is in flight and the goroutine applying an answer always agree |
| `discovery_fence` | 2 MOS 2.x connections one after the other, 2 running orders, failing disk | late answers never resolve a newer request; `discovery.json` is what is left to do |
| `discovery_fence_overlap` | as overlap, 2 unanswered requests | **violation**: see findings |
| `discovery_client` | MOS 4 client, passive and request lane, unsolicited lists | the walk, its callers and the file stay well formed; that answers are matched by messageID here is proved, not checked |
| `discovery_untracked` | 2 connections, 3 running orders, queue of 2, 3 events | the walk drains (liveness) |
| `source_content` | 1 connection, 1 story with content within the limits or not, every kind of message, rosters and deletions under one messageID, failing disk, foreign receiver | no OK that is not durable; revisions go forward; a halted source is frozen; the latest revision is accepted in the end (liveness) |
| `source_sessions` | 2 connections on one scope, 7 revisions, 1 story, a numbered roster, lists and bodies without a number, failing disk | a complete snapshot holds exactly what was sent since continuity was lost, whichever connection speaks; one effect per message, also when it is retried on the other connection |
| `catalogue` | 3 rundowns of which 2 fit, 1 connection, 5 messages that share an identifier, 1 failing file per process | a certified catalogue names enrolled rundowns and what the newsroom last said; a refusal is final; one messageID, one rundown; a restart always finds what it needs |
| `source_transfer` | one story that comes and goes over 3 revisions, 2 kills or failed writes, 2 losses at the receiver, objects of 2 parts asked for one at a time | the checkpoint on disk can always be read; the backup of an upgrade is exact; only published revisions count as accepted; the latest is published in the end (liveness) |
| `dedup` | 3 messages, capacity 2, 2 goroutines, compaction after 2 appends, failing disk, a log that one process may find unreadable from any line on | a stored response survives whatever old goroutines do, compaction and restarts, and is what a later retry gets; no OK for what was not applied, unless its identifier is older than an unread log |
| `rundown` | 2 running orders, 31 messages, 2 goroutines, 3 messages one after another or 2 that overlap, failing disk | the service implements `Rundown`; the file keeps up with memory and holds what is acknowledged |

**Bounds.** `MaxRevision` is the code's own limit (2^53-1) made small, so running
out of revisions happens too. Two connections are enough for every hazard between
connections: a scope has one owner, and a third connection meets the same states. In
`source_content` one connection, one story and four revisions do, because what that run
checks is proved for any number of them, but for `LatestIsAccepted`, which depends on
neither. `source_sessions` needs seven: a connection, a roster and a body bring a complete
snapshot at the fourth, and there must be some left for the other connection to supersede
it, retry and rebuild it; `roDelete` is left to the proof there. No discovery run
lets the queue overflow: that takes three running orders and failed writes, which is out of
reach beside answers and lanes, and `QueueTheorem` proves the bound for every one. `dedup` has three
messages, so that eviction happens with a conflict, and one process that appends to a log it has not
read (`ReadFails` is "once"; the proofs cover "often"), which is enough for the next to join what
does not belong together. Its `InUseView` leaves out what no step
or property looks at again: what is stored under identifiers that are out of use, but for
the room it takes, and what a goroutine with an answer remembers besides it. The
set's mutex lets `catalogue` do with one: what a connection does to it is to be
observed, to fall silent and to be given up. Three messages in sequence reach a torn
rundown, what the next message makes of it and how it is mended; once messages overlap or
a running order is torn the budget is two (`MaxMixed`): one message that tears and one that
follows, since nothing is promised of mixed rundowns.
The queue bound, the resync bound, the attempts in use and the unanswered requests
are named constants. Six attempt identities suffice because an identity that
nothing refers to any more is used again. Deadlock is checked except in `source_content`
and `source_transfer`, because a halted or exhausted source refuses to
start and the system really stops there. In `RetryDedup` the capacity is
at least the number of goroutines at work, as it is with 4096 entries: each old
goroutine can push out one entry. The newsroom takes a new identifier for every
message, and by mistake once the last one again, which makes the conflicts.

**Fairness.** `DiscoveryUntracked`: goroutines run, time passes, and Profile 0
traffic (heartbeats) keeps arriving, as the walk's comments require.
`CommittedSource`: the publisher's timers keep it running (`RunPublisher`), and a
receiver that is posted to again and again answers in the end, in time for the
answer to be recorded (strong fairness of `PostAccepted` and `Accept`). No fairness
is assumed of the newsroom, of connections or of restarts. `SourceTransfer`: a save goes
on, the publisher's timer keeps it asking, and a receiver that is asked without end
answers in the end; `TransferEnds` promises nothing of a source that was killed or cannot
write.

## Findings

1. `discovery_fence_overlap`: `registerRequest` remembers only the last fenced
   MOS 2.x connection. With two connections that overlap, the first is fenced, then
   the second, then the first is written to again, and the late answer to its first
   request resolves the second. `doc/committed-source.md` excludes this.

Other disagreements between text and code, for which the properties make an exemption: `readMark` returns 0 for a file that exists and cannot be
read, so `Open` resumes below the recorded mark, which its comment rules out;
`enqueueUrgent` does not save when a request is in flight, and the README's feature
table says that unfinished discovery work survives a restart; a retry of roCreate that
overlaps the first attempt is applied twice (`handleRoCreate` processes a duplicate that
has no response yet); the first record after a torn line of `dedup.log` is lost with it. Five more are about what
an OK means; without its exemption TLC finds the property named violated:

* `DeleteStories` deletes the items of a story by key and the story by its identifier on the
  wire, under which nothing is stored (`element_action.go:616`): the story stays, empty, and
  the answer is OK. `ReplaceStories` deletes the story it replaces in the same way (`:283`): it
  stays, empty, and shares its position with the new one, under a comment that says "Delete
  the target story and its items" (`:276`). `identity.go:20-30` describes this very mistake as a
  thing of the past ("MOVE, DELETE and SWAP silently did nothing and still acknowledged OK").
  `Asked` takes a story that is gone and one that is empty (`Emptied`).
* `replay` takes a `dedup.log` that it cannot open for one that does not exist yet
  (`dedup_file.go:103`) and ignores a read error, and the store goes on to append. When a
  messageID that was answered is used again for another message, the log gets a second hash
  for it, and the process after that joins the second hash with the first response: if the
  second message was logged and not applied, its retry is answered OK and never applied.
  `handleRoCreate` says "Send roAck only after successful persistence" (`wsserver.go:533`).
  `OKIfLogWasRead` exempts the identifiers in use at such a start.
* `InsertStories` and `InsertItems` put the new elements after the target
  (`element_action.go:162` and `242`). The parameter is called `beforeItemID` (`:202`),
  `doc/interop/README.md:2948` says of `element_target` that it names the story before which
  stories are put and that doing it after was a defect of `MOVE`, and `xml/story_action.go:29`
  says of the sister message "element_target names the story to insert before". `Asked` takes
  either side.
* Every handler that changes a field of a running order reads the record, changes its copy
  and writes all of it back (`SetReadyToAir`, `element_action.go:731`). One that has read
  before a `roCreate` on another connection saves its metadata, and writes after it, undoes
  that, and the `roCreate` is then acknowledged; "an ACK asserts the metadata was saved"
  (`dispatch_ro.go:366`). `KeepsItsPromise` exempts mixed running orders, `AckedIsSaved` those
  on which another goroutine is at work.
* After a failed write of the snapshot messages are acknowledged all the same
  (`durable.go:226`), against the same sentence. Both properties exempt what follows a failed
  write.

Cases that the code leaves open and no property speaks about: a `discovery.json` of more
than 10,000 entries is cut when it is loaded (`discovery.go:135`); at the last revision
nothing can be withdrawn, and a halted or exhausted catalogue stops all rundowns
(`source.go:262`, `source_catalogue.go:137`); a connection that was closed while its
goroutine still handled a message may own its scope until the timeout (`client.go:528`);
an uncompacted `dedup.log` grows with every restart (`dedup_file.go:222`); overlapping
`roDelete` and `roList` leave items without a story until a restart (`mos.go:614`);
inserted items are stored under their bare itemID (`element_action.go:236`); a `roList`
for an unknown rundown may reuse the messageID of a listing (`source_catalogue.go:366`).

## Proofs

All theorems hold for every value of the constants under the named assumptions of the
modules: `SequenceAssumption`, `WalkAssumption`, `TrackedAssumption`, `UntrackedAssumption`,
`SourceAssumption`, `SetAssumption`, `ContentAssumption`, `TransferAssumption` and `DedupAssumption` say what is a
number, that null values are no values, and that a body message has a story and a content;
`ServiceAssumption` says which fields a message of each kind has (`WellFormed`), that the
store starts with records of their kind under keys of their kind (`Consistent`), and that
the budgets are numbers;
`RoomAssumption` says that the deduplication store has room for the goroutines at work
(4096 entries; the code does not enforce it). The theorem on `DiskIsMemory` needs none.
`PromiseIsKept` has a hypothesis besides, `Keyed`: the store has no story under an
identifier of the wire, and no message makes one (`NEW`, `REPLACE`) or deletes items by one
(`REPLACE items`). `identity.go:12` says why it is needed: a storyID is unique within a running order
only. After a `NEW` in one running order a `REPLACE` of the same storyID in another removes
the first one's story (`story.go:150`), and TLC finds the promise broken on these two messages. The
instance of `rundown` meets `Keyed` but for its four `Actions`, as TLC confirms
(`KeyedInstance`).

Each invariant below was checked by TLC on the run's instance before it was proved
(`FrameInv` and `Owed` without the four `Actions`).

* `MessageSequence`: `NoReuse` needs that everything handed out in this lap lies
  below `next` and, while durable, at or below the mark on disk; `SkipBounded` that
  the mark is at most a block ahead of what is being handed out.
* `DiscoveryTracked` (`CoreInv`): the slot matches what is in flight, and the queue with the
  request in the slot has no duplicates and is bounded (`WalkInOrder`); a claim lives from the
  answer to its release (`HandlerInOrder`); at most one goroutine claims the request in the
  slot, which is marked exactly while one does (`SlotHeld`); and the file, while it can be
  written, is what is left to do but for what recovery queued behind a request
  (`DiskInOrder`). One lemma for each method of the walk says that it keeps the slot's
  request or renews it, and that is all the callers need. All safety properties of the module
  follow but `AnswersOwnRequest`, which is proved on MOS 4 without condition, since a messageID
  names one request, and on the MOS 2.x socket where connections do not overlap and the peer
  sends no lists of its own (`AnswerInv`: whatever is on the wire is the slot's request).
  With connections that overlap it is false there: finding 1.
* `DiscoveryUntracked`: `NothingForgotten`, because a method takes a running order off the
  queue only to return it, and a goroutine that enters the walk has nothing left to send, so
  what it is given displaces nothing.
* `CommittedSource`, delivery and replay (`IInv`): memory is the file while the store is usable;
  the receiver, the body being posted and the file are in order (each is the next,
  or has a smaller revision), since a failed save may leave the file ahead of
  memory, but then nothing is published; every effect and every OK, sent or about
  to be, has its receipt in the file, at most one per message. `PostsForward`,
  `AcceptedWasReceived`, `OKIsDurable`, `OneReceiptPerMessage`, `AppliedOnce` follow.
* `HaltedIsFrozen` needs besides that the publisher rests once the file says halted:
  otherwise a late answer could still be recorded.
* `CompleteIsCovered` (`CInv`): the snapshot is the projection of the state it is
  committed with, and a fresh roster means that the stories are those last listed,
  the fresh ones have the very content last heard, and no other has any.
* `SourceSet`, all properties. Every step leaves the catalogue's file, withdraws it, rewrites
  it as the job in hand says or records an answer (`CatalogueMoves`), so revisions go
  forward and a halted catalogue is frozen (`DeliveryInOrder`). A store is used only after
  the inventory names it (`Retention`), which is `Resumable`; the rows of a listing are enrolled or
  still to do at every point of its job (`EnrolmentInOrder`), hence `CompleteIsEnrolled`. A
  store that is not open has no receipts, so `crossReceipt` sees them all
  (`ReceiptsInOrder`): `OneRundownPerMessage`, `RefusedIsFinal`. Whenever the newsroom may
  have said what the set did not hear, the catalogue is withdrawn, unreadable, halted or
  exhausted (`Faithful`): `CompleteIsCurrent`.
* `ContentStore` (`ContentInv`): a process knows only files that are there; while a save
  writes, each file of the next checkpoint is known or still to do; once the root has
  moved, only what it does not use is removed; nothing is saved as version 2 before the
  backup is exact, and then no version 1 source runs any more. `RootReadable` and
  `BackupIsExact` follow, as does the type invariant `ContentTypeOK`.
* `SourceTransfer`: `AcceptedWasPublished`, because an answer that is still to be recorded
  and the revision accepted in the file were both published (`Delivery`).
* `DurableStore` (`StoreInv`): one goroutine holds `Durable.mu`; once no change waits
  for its `persist`, the listing in hand was made after the last change, and so was the
  file; and a file that is loaded lists again as itself (`ListingIsClosed`).
  `DiskIsMemory` follows, whatever the service asks of the store.
* `RunningOrders`, `TypeOK` (`ServiceInv`). A handler reads, decides and writes later, when
  others may have written in between, so the invariant is about the tasks that each has left
  (`JobsInOrder`): whatever they were decided from, each writes a record of its kind under
  a key of its kind (`TaskOK`), for every message and every read, and no call of another
  handler changes that (`TaskStable`).
* `RunningOrders` implements `Rundown` (`PromiseIsKept`: `Promise!SpecFor(Proven)`). The
  tasks left of a message stay `Inside` its running order: they name its record, its
  stories, or items that belong to a running order some message in hand names. So the
  running orders that none names answer a `roReq` as when the messages began, in memory,
  in the listing about to be written and in the file (`FrameInv`), which with the lock and
  the saves of `StoreInv` is what the promise says at an answer and after a crash. A
  message that asks for a resynchronisation did so at its first look (`Fresh`). A message
  handled alone is on its way to its effect (`Owed`): left of it is its first look, the one
  call that has the effect, a call that writes back what was read before the move of the
  on-air pointer, or the removal of the running order after everything in it. This proves the effect of `roDelete`,
  `roMetadataReplace`, `roReadyToAir`, `PLAY`, `STOP`, status reports, `roCtrl` and
  `roItemCue`; all else that the promise says is proved for messages of every kind.
  `FlattenSeq`, by which tasks are made for the elements of a list, is recursive: that it
  has the elements of its parts is proved by induction from the well-foundedness of `<`
  (`Upwards`), and that sorting lists every record once by counting those before it
  (`SortedFacts`).
* `RetryDedup` (`DedupInv`), all properties: every step puts one entry into memory or the
  log, in its place or behind the others (`Put`), and the oldest may go. That this is never
  the entry of the request under way is a count: the entries behind it and the given-up
  goroutines that may still add one are together fewer than the goroutines (`Room`). So memory
  never forgets what the log knows of this request, and no entry joins the hash of one request
  with the response of another while it can be asked for (`CurrentInOrder`,
  `EntriesInOrder`). This holds for the identifiers that no process has appended to an unread
  log (`unread`), of the log as of every beginning of it (`cut`), hence `OKIfLogWasRead`;
  with them it is false ("Other disagreements"). Without room (two goroutines at a capacity of one) TLC finds `ReceiptKept`
  and `OKIfLogWasRead` violated.

Only model-checked: liveness (`WalkDrains`, `LatestIsAccepted`, `TransferEnds`), which needs
fairness; `AckedIsSaved`; and of the refinement `KeepsItsPromise` the effects of messages that carry lists or
move stories and items. What these ask for is stated with `SelectSeq`, whose recursive
definition the provers do not see.

## The plan

1. Done: the sequence, the discovery walk, the committed source with its publisher,
   deduplication of retries, the running orders with their store and abstract
   specification, the catalogue of sources, the checkpoint in parts and the v2 transfer.
2. Done: proofs of every safety property that a run checks but `AckedIsSaved`, and of the
   refinement of `Rundown` as far as said above.
3. Left: `AckedIsSaved`; the effects of the list messages, which need the sorted lists before and after a
   sequence of updates to be compared; `SourceSet` with `CommittedSource` as its members.

## Not modelled

* Of the v2 transfer: the cutting of large arrays into chunks, which only makes more
  objects; answers that are malformed or name another source are lost answers; the halt
  on a conflict is that of `CommittedSource`. The transfer of the catalogue is the same
  code without stories.
* Of the catalogue: rundowns fixed in the configuration, members that halt on their own,
  several scopes, and the order in which four workers publish the members. Each member's
  publication is that of `CommittedSource`.
* Connections below sessions: framing, acknowledgements, heartbeats, the Profile 0
  handshake, reconnect delays and shutdown.
* The directory lock of a checkpoint (one process runs at a time); MongoDB, the objects of Profile 1, an unreadable `runningorders.json` (the
  store then refuses all use).
* The event bus, the timing sender, the gateway adapters and capture: nothing that is
  modelled depends on them.
* XML parsing and generation (pure conversions, tested on documents), configuration,
  process start and logging.
