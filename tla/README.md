# Figgy: specifications, checks and proofs

Figgy is the digital repository of the Princeton University Library: a Rails
application on top of Valkyrie, with PostgreSQL as the metadata store, Solr as
the index, Sidekiq (Redis) for background jobs, a file system and Google Cloud
Storage for files, a Google Cloud function for fixity checks, and pages of the
browser (Vue) in which staff structure and order what has been scanned.

This directory holds TLA+ models of the parts of Figgy whose correctness depends
on the order in which things happen, the TLC runs that check them on small
instances, and theorems that TLAPS proves for instances of any size.

1. [The system: an inventory](#1-the-system-an-inventory)
2. [Files, and how to run them](#2-files-and-how-to-run-them)
3. [Controlled digital lending](#3-controlled-digital-lending)
4. [Preservation](#4-preservation)
5. [Fixity](#5-fixity)
6. [Transactions and shared persisters](#6-transactions-and-shared-persisters)
7. [Deletion and restoring](#7-deletion-and-restoring)
8. [Plan: what is left](#8-plan-what-is-left)
9. [The structure manager](#9-the-structure-manager)
10. [The order manager](#10-the-order-manager)
11. [Runs, bounds and fairness](#11-runs-bounds-and-fairness)
12. [What the code does not keep](#12-what-the-code-does-not-keep)
13. [What is proved, and how](#13-what-is-proved-and-how)
14. [What is not modelled, and why](#14-what-is-not-modelled-and-why)

Paths are relative to the root of the Figgy repository.

## 1. The system: an inventory

What the components share matters more here than what each does alone:

- **One write path.** Everything is saved through a `ChangeSetPersister`
  (`app/change_set_persisters/change_set_persister.rb`). It runs before-save and
  after-save handlers inside a database transaction, and queues of delayed blocks
  after the commit; most background jobs are born there.
- **Optimistic locks.** Resources carry a lock token; a save with a stale token
  raises `Valkyrie::Persistence::StaleObjectError`. A resource that was never
  saved has no token, and some saves pass no token at all.
- **Transactions that cover only the database.** `buffer_into_index` wraps many
  saves in one transaction. Uploads, mails, and jobs queued meanwhile are outside
  of it: they are seen before the commit and survive a rollback.
- **Jobs that come again.** Sidekiq runs several threads, retries a job that
  raised, and (super_fetch) one whose process died. A job may run after the
  resource it is about has changed, moved or gone.
- **Pages that hold a copy.** A page of the browser edits its own copy of what
  the server holds, saves all of it, and shares one clipboard among mouse, menu,
  keyboard and timers.

| Component | State | Operations | Interacts with | What is hard | What makes it correct |
|---|---|---|---|---|---|
| **Lending: charges and holds** (`app/services/cdl/`, `app/controllers/cdl/`) | one `CDL::ResourceChargeList` per title: charged items, hold queue | charge, hold, return; every ten minutes: expire holds, activate holds | bibdata (item ids), mail, `cdl_readable?` | requests and cron job read, think, and write the same row; first save has no lock token; the cron job is one long transaction; retries | one borrower per copy; an active hold has a copy; no charge or hold is lost; who waits is served |
| **Preservation** (`preserver.rb`, `preserve_resource_job.rb`, …) | `PreservationObject` per resource, files in cloud storage, jobs in Redis | preserve metadata, preserve binary, reorganize after a move, preserve children, clean up files | every save, characterization, fixity, restoring | jobs overlap and are retried; uploads are not undone; paths come from parents that move | when the jobs are done the cloud has the last version, at the path of today, and nothing else |
| **Cloud and local fixity** (`cloud_fixity_job.rb`, `repair_cloud_fixity.rb`, `local_fixity_job.rb`, …) | `Event` per file; messages; both copies of a file | request, check, answer, repair from the other copy | preservation, cloud function | answers come late, twice, out of order or never; both copies are repaired from each other | no repair spoils a good copy; in the end all is good, or said to be lost |
| **Change set persister and adapters** | delayed queues, rollback blocks, the transaction, rows, Solr documents | save, save_all, delete, buffer_into_index, buffered index save | everything | one persister is shared by all threads; Solr is written before the commit; blocks that raise | what is committed is indexed and preserved, and an error message belongs to its file set |
| **Deletion and restoring** (`deletion_marker_service.rb`, `create_deletion_marker.rb`, …) | `DeletionMarker`, preserved files | delete, mark, restore | preservation, membership | members are deleted by jobs, in steps that each commit; a restoration is many saves | what was preserved can be restored; what is restored is whole and preserved again |
| **Structure manager** (`StructManager.vue`, Vuex stores) | tree, gallery, clipboard, selection | cut, paste, drag, group, delete, reorder, save | controllers | four ways to edit share one clipboard; editing goes on while a save runs | every file is at one place; what is said to be saved is saved |
| **Order manager** (`OrderManager.vue`, Vuex stores, GraphQL mutations) | cards, selection, clipboard, timers | select, cut, paste, drag, label, save | GraphQL | debounced forms replace the objects that others name; late timers; several mutations per save | no member is lost or doubled; every change can be saved |
| **Files and characterization** | file set, checksum, derivatives | add file, characterize, derive | preservation | two jobs in a chain, saved by different means | every file gets a checksum and a preservation copy |
| **Membership** | `member_ids`, cached parent ids | append to parent, remove, move boxes | preservation paths, workflows | read-modify-write of two parents | a resource has one parent (decision 14) |
| **Workflows** | state of each resource | complete, take down, propagate, auto-complete | preservation, visibility, identifiers | a parent's state is copied to members saved meanwhile | members agree with their parent in the end |
| **Preservation audit** | `PreservationAudit`, failures | run, rerun, count down batch | preservation | Sidekiq batch callbacks, retried jobs | every resource is looked at once per audit |
| **Authorization tokens** | `AuthToken` beside the resource | apply, update, delete | persister | two tables, two saves | a public playlist has exactly one token |
| **Lending: completion and ingest** | PDF files in directories, resources | ingest, complete | file system, bibdata | crash between moving a file and queueing its job | no file is lost |
| **Mosaics, PDFs, OCR, bulk ingest** | cached files, requests | generate, clean up | persister, external programs | stale caches | section 14 |
| **Messages, remote metadata, identifiers** | none of their own | publish, fetch, mint | RabbitMQ, external services | failures are logged or raised | section 14 |
| **Manifests, geo discovery, search, reports, ingest of records** | none | translate | — | — | section 14 |

`PROJECT.json` repeats this list with the source files of every component
(`components`), and lists the hazards at the line where each bites (`hazards`),
with the properties that would catch it going wrong.

## 2. Files, and how to run them

| File | What it is |
|---|---|
| `ChargeList.tla` | a charge list as a value, and what `ChargeManager` computes from it |
| `ControlledDigitalLending.tla` | requests, the cron job and the clock over the lists in the database |
| `Lending.tla`, `LendingRefinement.tla` | the abstract specification: loans, offers, a queue; and the mapping to it |
| `Preservation.tla` | a work, its file sets, their preservation jobs and the cloud |
| `Fixity.tla` | checks and repairs of one file set's files in both places |
| `BufferedSave.tla` | transactions of the persisters that threads share |
| `DeletionRestore.tla` | deletion of a work and its members, markers, restoring |
| `StructManager.tla` | the page that structures a resource |
| `OrderManager.tla` | the page that orders the members of a resource, and its mutations on the server |
| `SequenceLemmas.tla` | lemmas about sequences that several proofs cite |
| `MC….tla`, `*.cfg` | instances for TLC |
| `LendingProofs`, `PreservationProofs`, `FixityProofs`, `BufferedSaveProofs`, `DeletionRestoreProofs`, `StructManagerProofs`, `OrderManagerProofs` | theorems about the module of the same name |
| `PROJECT.json` | components, runs, mutants, the map from definitions to source lines, findings, hazards, theorems |

    tlc -workers 2 -config lending_core.cfg MCLending.tla
    tlapm PreservationProofs.tla

A definition whose comment begins with "Slip:" is no part of the system. It is a
definition of the model as a plausible mistake would have it, and `PROJECT.json`
(`mutants`) says which property fails when it takes the place of the real one.
Every property of every passing run has such a slip.

The modules meet where the components do. `Preservation` is what every save
queues; `Fixity` finds and mends what overlapping preservations leave behind, and
uses the Preserver in the forced form of a repair; `BufferedSave` is the
transaction around the saves of the others, and shows that its delayed
`PreserveResource` is queued with the last version; `DeletionRestore` takes away
and brings back what `Preservation` has stored. They are separate modules because
each keeps another part of the state in full and the rest as one step; only
lending is composed with its abstract specification.

## 3. Controlled digital lending

Copies of a book are set aside; as many patrons may read its scan at once as
there are copies. A patron borrows for three hours (`charge`), or waits in the
title's queue (`hold`). A cron job gives the next patron an hour to borrow
(`activate`).

| Model | Code |
|---|---|
| `lists[t][s]`: rows saved for title `t`; `version` is the optimistic lock token | `CDL::ResourceChargeList`; `Slots` is room for more than one row, since nothing in the database forbids two |
| `FirstRow` | `Wayfinder` `resource_charge_list`: `.first` of a query without an order |
| `Begin`, `Load` | `CDLController#with_charge_manager`, `ChargeManager#initialize`: reads the list, clears expired charges *in memory* |
| `Act`: `CreateCharge`, `CreateHold`, `Return` | `create_charge`, `create_hold`, `return`, with the replies of the controller; deciding and saving is one step, loading is another |
| `SaveNew`, `SaveFresh`, `SaveStale`, `Retry` | the save with its lock token, and `retry_stale`: a loop that starts over with a new manager and, when its tries are used up, goes on as if it had saved |
| `BatchStart` … `BatchCommit` | `BulkHoldProcessor.process!`: in one `buffer_into_index`, for every list with holds, a manager that expires and activates |
| `txn`, `TxnRows` | rows written and not committed: only the job sees them, and its row lock holds up a save that would match |
| `RollBack`, `BatchCrash` | `StaleObjectError`, `ArgumentError` (`first` of a negative number), or the death of the process |
| `mails` | `HoldMailer…deliver_later`: in Redis at once, whatever becomes of the transaction |
| `Tick` | the clock |
| `ChangeItems` | staff set a copy aside or put it back (bibdata, through `EligibleItemService`; external) |

**Abstractions.** A queue is a set of holds with a `place`: the list's version
when the hold was appended, which orders them as the array does, since each save
counts the version up and appends at most one hold. Time is counted in ticks and
moves only while a stored expiry is still ahead; a charge has expired *after* its
time and a hold *at* its time, as in the code. A request's decision and its save
are one step because the save's token check covers all that the decision has read
from the database; what it reads elsewhere (bibdata) is read in that step. The
order of titles in a cron run is free. Event logging, the cookie of the reader,
and what a mail says are left out.

**The abstract specification.** `Lending` has no rows, no clock and no requests:
per title a set of loans, the patrons to whom a copy is offered, and a sequence
of patrons who wait. `CheckOut` takes an offered copy or one nobody waits for;
`Offer` goes to the first in the queue and never beyond the copies there are.
`ImplementsLending` says that every behaviour of the detailed model is one of it.

**Properties.** `PromisesKept`: running charges and active holds never exceed the
copies, so an active hold can be used at once. `OneLiveHoldPerPatron`.
`ActiveHoldsAnnounced`: nobody's hour runs without their having been told.
`ChargesNotLost`, `HoldsNotLost`: no interleaving of saves drops a charge or a
hold. `CopiesLentOnce`: a copy is lent to one patron at a time and a charge names
a copy, while copies come and go. `BatchesGetThrough`: the cron job commits again
and again, whatever failed before. `WaitingPatronsServed`: whoever waits is served
unless no copy is left.

`PromisesKept` and `ImplementsLending` are checked with the copies left alone: a
copy put back on the shelf breaks the promise by itself. `ImplementsLending` also
needs the title's row to exist (`Borrowed`), for the reason that `lending_copies`
gives: with no row yet, two first requests both save one and both lend the only
copy, against `docs/technical/cdl.md:3` (`NoMoreLoansThanCopies`, a finding).

## 4. Preservation

A work (say, a volume) is preserved once its state is public or once it has a
parent that preserves; its file sets are preserved with it. Each has a
`PreservationObject` that records what has been uploaded, and where.

| Model | Code |
|---|---|
| `token` | the resource's optimistic lock token, which is also the version that a `PreserveResourceJob` is for |
| `place` | the part of the path above the work: `NestedStoragePath` builds it from the *current* ancestors at each upload |
| `preservation` | committed `PreservationObject`s, with their own lock token |
| `cloud` | what is stored at each key; metadata is told by the token it was made from |
| `queue` | jobs in Redis. Two identical jobs are one: both would find the same |
| `SaveWork`, `TakeDown`, `Move`, `AddFileSet` | saves through the persister with their `PreserveResource` handler; jobs are queued after the commit with reloaded tokens |
| `Characterize`, `CreateDerivatives` | the chain of jobs after an upload; only the second saves through a change set persister and so queues a preservation |
| `PreserveMembers`, `CleanupFiles` | `PreserveChildrenJob`, `CleanupFilesJob` |
| `Load` | `PreserveResourceJob`: an outdated token ends the job; what else the run will look at in the resource (`Loaded`: state, checksum, `member_ids`) is as it was then |
| `Begin`, `CreateObject` | `Preserver.for`, `preserve?`, the search for the object, and its early save under the unique index on `preserved_object_id` |
| `PreserveBinary`, `PreserveMetadata`, `Reorganize` | the uploads, each at the path of that moment; after a move the binary is uploaded again and the old files are handed to `CleanupFilesJob` |
| `SaveObject`, `Commit` | the last save, with lock token; the children's job is queued *before* the commit |
| `Fail`, `Retry` | an error or a crash at any step: the transaction is rolled back and the job runs again; uploads stay |

The steps of a job are as fine as its effects: every upload, every read of
another row, the save and the commit are steps of their own, so that other
threads and other saves come between any two. Jobs that read and write once
(`Characterize`, …) are one step of a free thread.

**Abstractions.** One work, whose parents are complete works, so that a work with
a parent preserves; works below works are left out. A move is one step. A
checksum is a Boolean.

**Properties.** `AllKept`: when all jobs are done, the last version of the
metadata (`MetadataKept`) and every characterized binary (`BinariesKept`) are in
the cloud and on record. `EveryVersionRecorded`: a version that stays is recorded
in the end. `NothingLeftBehind`: no file stays at a path no record names.
`FirstPreservationAlone`: no two threads are past the creation of an object that
is not committed. `CurrentNamesBinary`: a record with the token that a characterized
file set has now names its binary; a job that began before the checksum was known, and
skipped the binary, is always outdated by another. `BinaryNodesKept`: no thread's save drops the record of a
preserved binary. `JobsRunOut`: nobody waits or retries for ever.

`AllKept` and `EveryVersionRecorded` are checked with one thread, because with two
the code does not keep them (section 12). That this is found and mended is the
business of the fixity checks, and `Settles` of section 5 shows that it is. The
theorems do not assume one thread: they say what holds of any history in which no two
jobs of *one* resource overlap (section 13).

## 5. Fixity

Once a day some preserved file sets are picked. For each file in the cloud a
message goes to a cloud function, which compares checksums and answers through
Pub/Sub; a job records the answer as an `Event` and, when the file is bad or the
preserved metadata is of another version, queues a repair from the local copy.
The local copy is checked as well, and repaired from the cloud.

| Model | Code |
|---|---|
| `content`, `local` | the number of the version a file in the cloud holds, 0 when broken; whether the local binary has its checksum |
| `recorded`, `outdated` | the version that the `PreservationObject` names; the threads whose copy of it another thread has saved since (its lock token) |
| `events`, `localEvent` | current cloud fixity events with their ids, as the optimistic lock of `CloudFixityJob`'s transaction sees them; the local one |
| `CheckFixity`, `Retry`, `LoseResult`, `DeliverAgain` | `cloud_fixity/index.js` with its retries counted in the message; the worker of `cloud_fixity.rb` that acknowledges before it queues; at-least-once delivery |
| `Decide`, `SaveResult`, `QueueRepair` | `CloudFixityJob`: `updated_status` of the previous events, the transaction, the repair that is queued after it |
| `CheckLocal`, `RepairLocal`, `CheckLocalAgain` | `LocalFixityJob`, `RepairLocalFixityJob` |
| `StartRepair`, `GiveUp`, `UploadBinary`, `UploadMetadata`, `Record`, `CheckAgain` | `RepairCloudFixityJob`: checks the local copy, forces a preservation without a transaction, asks for another check |
| `StartPreserve` | `PreserveResourceJob` for a save that comes in between |
| `DailyCheck`, `Edit`, `Corrupt`, `Fault` | a day that picks the file set; a save; a file that breaks; a job that raises or dies and runs again |

**Abstractions.** One file set; its two files are the binary and the metadata. A
checksum that the record gives identifies a version. Messages and jobs are bags,
so the same one may be there twice. `DailyCheck` comes when the checks of the day
before are through. The transaction of `LocalFixityJob`, a copy that is
interrupted half-way, and a local file that is missing altogether are left out.

**Properties.** `GoodCopiesKept`: no repair replaces a good copy of the binary by
a broken one, however checks and repairs of the two copies and what breaks
meanwhile are interleaved. `OneRepairAtATime`: once a first result of a file is
recorded, at most one repair of it is announced (`raced` says that two first
results were taken at once, which nothing forbids). `Settles`: from some time on
all copies are good and the events say so, or no good copy was left and no event
says there is one. `TypeOK` has the ids of events that are still named.

## 6. Transactions and shared persisters

`ChangeSetPersister.default` is one object for all threads of a process, and so
is the persister of `DefaultDerivativeService`. `buffer_into_index` puts a queue
for rollback blocks into the shared object, makes a second persister for the
transaction (`with` captures the queue), commits, and runs the delayed blocks.

| Model | Code |
|---|---|
| `Begin`, `Enter` | a new queue is put into the shared object; `with` hands to the persister of the transaction whatever it finds there by then, an `InstantQueue` if another thread has cleared it |
| `Save`, `Fail`, `FailService` | the lock token and the row lock; a derivative service that fails adds its error message to the queue it was given |
| `Index`, `Commit` | `IndexingAdapter`: Solr is written inside the transaction; the commit clears the shared accessor |
| `RunDelayed`, `RaiseDelayed` | the blocks after the commit, `PreserveResource` with a reloaded token; one that raises keeps the others from running and goes to the rescue |
| `RunNothing` | the derivative job: the delayed queue of its `pyramidal_change_set_persister` is never run |
| `ReadAgain`, `MarkProcessed`, `PreserveFileSet`, `Interrupt` | `CreateDerivativesJob` after the transaction: it reads the file set again, saves it with its lock token, and that save queues the preservation; each of these may raise |
| `Rescue` | the rescue takes the queue that the shared object holds *by then*: its own, another thread's, or none |
| `CallBlock`, `SaveMessage`, `BlockRaises` | `DelayedQueue#run` calls the blocks one by one, and each reads a file set and saves it with the message, under the optimistic lock; one that raises leaves the rest uncalled and nothing cleared |
| `Clear`, `Raise` | the queue gets a new array, the shared object forgets the queue, and the error goes on; Sidekiq runs the job again, a limited number of times |

Two threads may go through one queue at the same time. `Array#each` meets what is
appended while it runs (`FailService` adds to `left` of whoever is in the array), and a
thread that is in the array while another one clears the queue goes on with the old
one (`live`); so a block may be called twice, or long after its job was retried.

**Abstractions.** The two saves of one transaction count as one version. The blocks
of a queue are a set: the order of messages of different file sets tells nothing
apart, and a file set is at most once in one queue, as its next attempt makes a
newer one. A queue that nobody refers to is emptied when its name is used again. Nested
buffers (the inner block runs at once) and OCR derivatives are left out; a process
that dies takes its threads' memory with it and leaves nothing for this model to say.

**Properties.** `IndexNotBehind`: Solr never shows an older version than the
database has (it may show a newer one when the commit fails). `PreservedOrTold`:
the last committed version of a work has been handed to `PreserveResourceJob`, or
a thread is about to, or somebody who saved it got an error; a processed file set
has been handed over as it is, unless a late message has been saved on it, which
nobody hands over (section 12). `DerivativesKept`: such a message, read at one
time and saved at another, never undoes the derivatives that have been made since.

## 7. Deletion and restoring

A request deletes a work in one transaction; its file sets are deleted by
`DeleteMemberJob`s, whose steps each commit. A `DeletionMarker` embeds the
`PreservationObject` of what was deleted. Restoring imports the resource from
preservation storage, lists it in its parent, restores its members, and deletes
the marker.

| Model | Code |
|---|---|
| `Destroy`, `Commit`, `RollBack` | `ResourcesController#destroy`, `after_delete_commit`; `CleanupFilesJob` is queued before the commit, everything else after it |
| `DeleteMember` … `DeleteRow` | `DeleteMemberJob`: the delete handlers one by one, without a transaction |
| `Restore`, `TakeRestore` | `DeletionMarkersController`, `RestoreFromDeletionMarkerJob`: a marker without an object is passed over |
| `Import`, `ImportStale` | `PreservedObjectImporter`: the file under a new identifier; a resource that is there and changed is not written over |
| `AttachToParent`, `ParentGone` | `attach_to_parent` |
| `RestoreMember`, `Finish` | `restore_members` by whichever marker comes first (`.first`), then the marker is deleted and the file set characterized |
| `Reinstate` | `RestoreFromDeletionMarkers`: the file manager's form, in one transaction with the save of the work |
| `FailJob` | a job fails before any of its steps, and Sidekiq runs it again |
| `RunCleanupFiles`, `RunCleanupPreservation`, `PreserveResource`, `PreserveChildren`, `Characterize` | the jobs that follow, as far as they touch what is deleted or restored |

**Abstractions.** One work without a parent and its file sets; at the start all is
preserved. Works below works, intermediate files, and other resources that refer
to the deleted one are left out. A preservation is one step (`Preservation` has
its steps). `untimely` says that a user asked for something while something else
was under way: nothing is promised then except `BinariesThere`, and section 12
says what happens; `failed` has the kinds of failure there have been.

**Properties.** `NeverLost`: what can be recovered stays so, or is back and is not
being deleted, through any failures of jobs and requests. `DoneAsAsked`: when
nothing is left to do exactly what users asked for is there, and a work lists its
members. `PreservedAgain`: what has been restored is preserved again, by the save
of the import, the first preservation of its work, or the save after its
characterization. `BinariesThere`: a file set has its file or is being deleted,
unless a request has failed.

## 8. Plan: what is left

In order of what the system depends on most:

1. **Membership**: `AppendToParent`, `CleanupMembership`, moves of boxes; one
   parent (decision 14). `Preservation.Move` is to become its composition: a
   second parent that lists the resource after two moves (section 12) shows why.
2. **Workflows**: state transitions, propagation to members, `AutoCompleter`.
3. **AuthTokens**, **PreservationAudit**.
4. The viewer's timer, which polls the status of a charge
   (`app/javascript/viewer`), as a client of `ControlledDigitalLending`.
5. Works below works in `Preservation` and `DeletionRestore`.

Theorems: what these modules will promise; the invariants of the present ones are proved
(section 13).

## 9. The structure manager

A user arranges the files of a resource in a tree of folders: `StructManager.vue`
with its tree, gallery and toolbar, the Vuex stores `tree` and `gallery`, and
`saveStructureAJAX`. A file is a card of the gallery as long as it has no place in
the tree.

| Model | Code |
|---|---|
| `folders`: node → the nodes right below it | `tree.structure`; `NormalizeForLoad` sorts files to the end of each folder |
| `items`, `chosen`, `cut`, `cutNode`, `selected` | gallery cards, selected and cut; the cut and the selected node |
| `stale` | `addGalleryItems` replaces the cards by copies while `gallery.cut` keeps the old objects |
| `SelectCards` … `UndoCut` | clicks, the two menus and the shortcuts |
| `PasteCards`, `GroupSelected`, `PasteNode`, `DropCard`, `DropCutCard`, `DropCardBack`, `DropNode` | pasting, grouping, dragging between the gallery and the tree |
| `DeleteFolder` | with its dialog: `end_nodes` is filled before the user confirms |
| `MoveUp`, `MoveDown`, `CreateFolder`, `SaveLabel` | shortcuts and forms |
| `Save`, `SendRequest`, `ServerStores`, `ServerRefuses`, `Answer`, `AnswerLost` | the save: SAVING at once, the request a second later, and its ends |

Handlers run to completion; what comes between them is the user, the delay and
the server. While a save runs the overlay stops the mouse (`MouseFree`) but not
the keyboard. A file's identity is enough for its card; labels count only as a
change. Zoom, the viewer pane, labels in bulk and the layout are left out.

**Mishaps.** `mishap` becomes true when the user does one of the things the code
allows and that cost a file or show it twice: pasting into a file (its children
are cleaned away by the save), pasting or grouping with stale cards, pasting a
node into what is below it, declining the dialog after `end_nodes` was filled, and
dragging a card that is cut into the tree: it leaves the gallery and is put nowhere.
`EveryFileOnce` and `ChosenAreThere` except what follows a mishap, and `structure`
explores only up to the first one, with two files and two folders. `structure_saves`
goes on after mishaps, with one file and one folder: `SelectionExclusive` and what is
said of saves hold there too. The theorems of section 13 cover both, for any tree.

**Properties.** `EveryFileOnce`: each file is one card, or at one place of a
well-formed tree that can be reached from the root. `SelectionExclusive`: tree and
gallery are never both selected. `ChosenAreThere`: what is chosen or cut can be
found again. `SavedIsStored`: "saved" is said only of what the server
holds. `SavedWhole`: the clean-up before the request loses nothing. `SavesEnd`.

## 10. The order manager

A user orders and labels the members of a resource: `OrderManager.vue`, its
gallery and side panel, the stores `resource` and `gallery`, `saveStateGql`; and
the part of the server that takes the mutations one by one.

| Model | Code |
|---|---|
| `heap` | the card objects: a form puts a *copy* in the place of the card, while selection and clipboard keep the old object |
| `items`, `selected`, `cut`, `changeList`, `ogOrder`, `thumbnail` | the stores, cards named by their number in `heap` |
| `typed`, `placed`, `pending` | the form, and the debounced updates 300 ms after the last key, which act on what is selected *then* |
| `Click`, `MetaClick`, `ShiftClick`, `SelectMenu`, `CutSelected`, `Paste`, `DragCard` | the gallery; `Paste` counts its place in the gallery as it was with the cut cards |
| `TypeLabel`, `UpdateSingle`, `TypeNumbering`, `UpdateMultiLabels`, `UpdateThumbnail` | the side panel |
| `Save`, `UpdateResource`, `UpdateMember`, `Refuse`, `Answer`, `Fail` | one request of several mutations, each of which may be refused; the page takes refusals for success |
| `ApplyState` | APPLY_STATE, three seconds after an answer |
| `OthersEdit` | somebody else changes the members; `valid_member_ids?` then refuses anything but a permutation |

Caption and viewing hint are one label, the four properties of the resource one
thumbnail. Saving a multi-volume work (`saveMVW`) is dead code. `mishap` is history
as in section 9: a debounced update that finds another selection, a change while a
save is under way, a clipboard that names replaced objects, a refused mutation.

**Properties.** `NoMemberLost`: the gallery shows all members, always.
`MembersOnce`: and each once, until a clipboard with replaced objects is pasted.
`UnsavedIsSaveable`: when the button is off and nothing is under way, page and
server agree on every label and on the order of the members that both know.
`SavesReorder`: no save drops or doubles a member on the server. `SavesEnd`: the
loader goes away, and so does the alert.

## 11. Runs, bounds and fairness

One run per question; what fits into one instance is asked of one instance.

| Run | Instance | Shows |
|---|---|---|
| `lending_core` | 3 patrons, 1 copy, 1 title with a list, 2 web threads, 4 requests, 2 tries, 1 crash; 744 000 states | `PromisesKept`, `OneLiveHoldPerPatron`, `ActiveHoldsAnnounced`, `ChargesNotLost`, `HoldsNotLost`, and `ImplementsLending` |
| `lending_served` | 2 patrons, 2 copies that may change three times, a title never borrowed, 2 requests, 1 thread, 1 crash, fairness; 76 700 states | `CopiesLentOnce`, `BatchesGetThrough`, `WaitingPatronsServed` |
| `lending_copies` | 2 patrons, a title never borrowed, 2 threads | *violation* of `NoMoreLoansThanCopies` (`docs/technical/cdl.md:3`) |
| `preservation_serial` | 1 thread, 2 saves, 1 error, fairness; 23 300 states | `AllKept`, `EveryVersionRecorded`, through an error at any step |
| `preservation_moves` | 1 thread, 2 parents, 1 save, 2 moves; 1.17 million states | `MetadataKept` while the work moves between the steps of its job; `NothingLeftBehind` |
| `preservation_concurrent` | 2 threads, 1 save, 1 take-down, 1 error, fairness; 105 000 states | `FirstPreservationAlone`, `CurrentNamesBinary`, `BinaryNodesKept`, `JobsRunOut` |
| `fixity` | 2 workers, 2 tries of the function, `PairsOfTroubles`: two saves, two broken files, two errors, or a broken file and an error; fairness | `TypeOK`, `OneRepairAtATime`, `GoodCopiesKept`, `Settles` |
| `buffered` | 2 threads, 2 derivative jobs that may run twice, 2 saves of one work (two repetitions or saves in all); anything may fail, and both may go through one queue at once; 167 000 states | `IndexNotBehind`, `PreservedOrTold`, `DerivativesKept` |
| `deletion` | a work with 2 file sets, 2 threads; 3 deletions and 3 restorations, or 2 of each with a failed job and a failed request; 713 000 states | `TypeOK`, `NeverLost`, `DoneAsAsked`, `PreservedAgain`, `BinariesThere` |
| `structure` | 2 files, 2 folders, no save, up to the first mishap; 10 300 states | `EveryFileOnce`, `ChosenAreThere` |
| `structure_saves` | 1 file, 1 folder, 2 cards of it, 2 saves, and what follows a mishap; fairness; 92 400 states | `SelectionExclusive`, `SavedIsStored`, `SavedWhole`, `SavesEnd` |
| `order` | 2 members and one that others add, 2 labels, 3 objects, 2 saves; fairness | `NoMemberLost`, `MembersOnce`, `UnsavedIsSaveable`, `SavesReorder`, `SavesEnd` |

**Why the bounds are enough.** *Lending*: two requests to overlap, one more patron
than copies for a queue, a third to be overtaken in it, a crash between any two
steps of the cron job; three changes of the copies are what it takes to have more
active holds than copies (none, two, one), where `first` of a negative number fails
the run. *Preservation*: one save behind another, one error anywhere, two moves so
that the first old path may be the last new one. *Fixity*: any two troubles, in
any order; two workers race two results. *BufferedSave*: `Queues` has as many as
two shared persisters and two transactions can name at once, so that a name may be
used again; two threads suffice to put messages into each other's queues and to go
through one queue together; `Mixed` lets both jobs be repeated, or two saves come, or one
of each, as the two kinds have persisters of their own (the full product, 1.58 million
states, passes as well).
*Deletion*: two members, so that one may be skipped and the one behind it matters;
`Mixes` lets behaviours have many requests or failures, and not both. *The pages*:
two files and two folders make a folder in a folder, a selection of several and an
order that can be wrong; `structure` bounds the cards of a file to one because a
second card needs a mishap. `MCOrderManager!Narrow` bounds the exploration and not
what is checked of the states reached: one form or one clipboard at a time.

The order of two members in `order`, the copies of `lending_core` and the file sets
of the others are model values; symmetry is used where no liveness is checked.

**Fairness.** *Lending* (`FairSpec`): `BatchStart` (cron runs the job every ten
minutes, `config/schedule.rb:44-46`), `BatchStep` (a job that runs goes on),
`Tick`; none on patrons, requests, or changes of copies. *Preservation*: each
Sidekiq thread takes what is queued; no save is fair. *Fixity*: each worker goes
on, and `Check \/ DailyCheck`: Pub/Sub delivers, and a day comes that picks the file
set. *The pages*: timers fire, and a request is answered or fails; nothing is
assumed of the user. Troubles, errors and crashes are bounded everywhere, so a
liveness property says that *finitely many* failures do no lasting harm.

Deadlock is checked except in the preservation and deletion runs, where the system
may rest when all jobs are done and nobody asks for anything. `BufferedSave` has
its end as an action (`Finished`), so that everyone waiting for everyone would be
seen.

## 12. What the code does not keep

While the models were written TLC also showed what does *not* hold. One
disagreement with a document of the repository has a run of its own
(`lending_copies`). The others are recorded here; each can be reproduced by changing
an instance as described, or by stating the property.

**Lending.** After its last try a return that never saved is thanked for
(`cdl_controller.rb:70`). A stale token on one title rolls back the cron job's whole
transaction, and with it the activation of another title's hold whose mail has gone
(`charge_manager.rb:95`); the next run activates and tells again.

**Preservation, two threads.** A job for an older version that read the resource
before a newer save may upload after the newer job, and the record of the newer one
then wins (give `preservation_serial` a second worker: `MetadataKept` and
`EveryVersionRecorded` fail); the comment in `preserver.rb:34-36` is true of a first
preservation only. The members' job, queued before its parent's commit, may read "no
member unpreserved" (`preserver.rb:128`; decision 3,
`architecture-decisions/0003-preservation.md:50`).

**Preservation, moves and take-downs.** A file set characterized while its work is
taken down never gets its binary into the cloud (`preserver.rb:86-88`,
`file_set_change_set.rb:30`). A move between the two uploads of a file set leaves
its binary at the old path (`nested_storage_path.rb:13`; against
`architecture-decisions/0003-preservation.md:76-77`). An error between an upload and
its retry after a move leaves a file nobody cleans up, and so do two jobs of one
resource that overlap around a move. A work moved three times, back
to where it was, may lose its live copy to a late `CleanupFilesJob`. A resource
appended to a second parent while the first save waits is listed by both
(`append_to_parent.rb:35`; read in the code, `Membership` is not modelled).

**Fixity.** A result that comes in after the repair was announced and was measured
before it ran says FAILURE of a file that has been repaired, until the next check
(`cloud_fixity_job.rb:46`). The number of files picked per day is the count divided by
365 times `annual_percent`, so that a smaller share checks more files
(`local_fixity.rb:4`, `cloud_fixity.rb:52`; read in the code).

**Transactions.** The message of a failed derivative job is lost when another job on
the shared persister begins or commits meanwhile
(`change_set_persister.rb:144`, `:151`, `:154`; with one thread,
as in `default_derivative_service_spec.rb:72`, it is kept). Two threads may be in one
queue at once (`change_set_persister.rb:194-197`), and a message may be saved after its
job was run again and has succeeded: the file set then shows an error of an earlier
attempt, and its new version is never handed to `PreserveResourceJob`, since the
block saves with the rolled-back transaction's persister, whose delayed queue nobody runs
(`vips_derivative_service.rb:73-75`, `:210-218`; `PreservedOrTold` excepts it, and fails
without the exception). A block that raises `StaleObjectError` leaves those behind it
uncalled and neither the queue nor `after_rollback` cleared
(`change_set_persister.rb:154`): a thread that fails before the next transaction begins
calls them again.

**Deletion and restoring.**

- Restored while the `DeleteMemberJob`s of its deletion still wait, a work comes
  back without markers for its members, and these are deleted after it is back
  (`deletion_marker_service.rb:35`; against `docs/technical/preservation/deletion.md:13`).
  `Timely` excludes this from the run.
- A request that fails after `CleanupFilesJob` was queued leaves a live file set
  without its file (`cleanup_files.rb:10`); `BinariesThere` excepts it.
- Deleted again before `PreserveResourceJob` has run, a resource gets a marker
  without a `PreservationObject`, and cannot be restored from it.
- A `DeleteMemberJob` that fails and runs again leaves a second marker without
  an object; `.first` may pick it, and the member is passed over.
  `PreserveChildrenJob` then stops at the missing member (`preserve_children_job.rb:13`).
- A crash after the commit loses the members' jobs: they stay, without a work.
- Restoring a member whose work is gone imports it and then raises: the file set
  stays, listed nowhere.
- `CleanupStructure` of a `DeleteMemberJob` queues a preservation with a token that
  the save of `CleanupMembership` makes outdated.

**The pages.** What section 9 and 10 call mishaps. Also: the order manager says
"saved" although the server refused some of the mutations (`actions.js:107`); the
structure manager's `tree.modified` stays true after a save, since nothing commits
`APPLY_TREE_STATE`; a thumbnail that was unset is not sent. Dragging a card that is cut
loses a file: nothing in `StructGallery.vue:7-16` keeps it from being dragged; `onStart`
(`:138-141`) does not select it, since it looks disabled, so that the *selection* is cut and
put into the tree instead (`StructManager.vue:414-417`, `:638-679`), while the `v-model`
(`:82-88`) has taken the card itself from the gallery. A
click on a card that is already selected makes a new form in the order manager, and a
label typed less than 300 ms before is dropped (`OrderManagerFilesetForm.vue:126-135`).

## 13. What is proved, and how

TLAPS checks every proof to its last leaf, for instances of any size and from the
named assumptions alone. Each module of proofs has an inductive invariant, one
lemma per action (or per group of actions that change the same state), and one
theorem per property.

**Lending** (`LendingProofs`; `PeriodAssumption`, `ItemsAssumption`,
`LendingAssumption`). `TypeCorrect`; `TokensAlwaysTell`; `NoChargeLost`:
`Spec => ChargesNotLost`; `CopiesAreLentOnce` (`CopiesLentOnce`), `HoldsAreSingle`
(`OneLiveHoldPerPatron`), `HoldsAreAnnounced` (`ActiveHoldsAnnounced`).
That no charge is lost is not inductive: it needs to be known that a request or
the cron job that is about to save still *has* every running charge. `TokensTell`
says so: a list in memory carries a token not ahead of its row's, and if it is
the row's, every running charge of the row is in it; every row the cron job wrote
is ahead of the committed one, and has all its running charges; rows never saved
are empty. `Inv == Typed /\ TokensTell`. A save then is fresh (nothing is lost but
what the operation itself takes), stale (nothing is written) or new (an empty row).
The next three are about what a list says, wherever it is: a row, a list in memory
or a row the cron job has written may each be the base of the next save, so
`EveryListSound` states for all of them that copies and patrons are lent once, that
holds are single and that active holds are announced. An edit keeps a list sound
whether it is fresh or not; time and mail only help (`SoundLater`). That a charge
names a copy, though `create_charge` takes `available_item_ids.first` unseen, needs
counting (`CopyIsLeft`): the charges are fewer than the copies and each is of one copy.
`PromisesAreKept` counts the same lists (`Fits`), and holds in any state in which all
copies are set aside.

`LendingImplemented`: `Borrowed = Titles => (Spec => ImplementsLending)`, and with it
`NoHoldLost` (`HoldsNotLost`), rest on `SavesAreExact`. A title whose list exists keeps
that one row, and `EverySaveExact` says more than `TokensTell`: a list in memory with
the token of its row has the holds and the running charges *of* the row, and a row that
the cron job has written comes from the committed one by dropping expired holds and
activating the first `n` (`Served`), once per row (`BatchOnce`). Each save is then the
abstract operation applied to what is committed: `JoinPromise`, `LeavePromise`,
`CheckOutPromise` for a request, `ServedPromise` for each row of a commit of the cron
job, `Lapses` for the clock. The sequence of waiting patrons is the set of holds sorted
by place (`TurnsAre`, `TurnsJoin`, `TurnsLeave`, `TurnsServed`): a hold that is appended has the greatest place, one
that is removed shifts those behind it, and the first `n` of it are the `n` that are
activated. `Borrowed = Titles` is needed (`lending_copies` shows what happens without);
that copies come and go is not excluded.

**Preservation** (`PreservationProofs`; `PreservationAssumption`,
`NoObjectAssumption`). `PreservationTypeCorrect`, of which the hard part is that a
`CleanupFilesJob` names a path that exists; `FirstAlone`:
`Spec => []FirstPreservationAlone`; `BinariesNeverForgotten`: `Spec => BinaryNodesKept`.
`IInv` is the types with a statement about every thread (`Consistent`): one that
has created its object is past the creation and no other object is committed; one
that found an object read a token not newer than the record's, and if it is the
record's, the run knows every binary the record names. A commit then follows a
creation, or writes over the very version that the thread has read.

`CurrentRecordsAreWhole` (`CurrentNamesBinary`) rests on `BinaryInv`: no job and no run
comes from the future, a run that does not know of the checksum is outdated, because the
save of the characterization counts the version up, and one that knows has dealt with
the binary before it goes on. These four hold for any number of threads, errors, moves
and take-downs.

What two overlapping jobs of one resource can break (section 12) is proved under that
premise and no other of its kind: not one thread, and not the absence of moves, edits
or take-downs. `RunsApart(r)` says of a state that no two threads run jobs of `r`; the
jobs of other resources run at the same time as they like (`RunStep` is what they leave
alone). `NothingOfStays` says of one resource, `NothingStays` of all (`NothingLeftBehind`),
that no file stays that no record names, unless a job of the resource fails after it has
begun to upload (`UploadsEnd`), which leaves such a file indeed. It rests on `NothingLost`:
every file in the cloud is `Accounted` for, by a `CleanupFilesJob` that waits, by the run
that has put it there or found it on record, or, when no run has its resource in hand, by
the record; and nobody saves the record that the run has read (`RunAlone`), so that its
commit is never stale. `WorkIsRecorded` says that a work that preserves is on record
with its last version and its place of now when no job is left, through any errors,
and `WorkIsKept` that its metadata file is in the cloud there as well, unless it comes
back to a place before the `CleanupFilesJob` of its move away has run (`CleanupIsPast`). It
rests on `WorkInv`: the work is recorded as it is, or a job for its current token waits or
runs; a run that is outdated has a successor in the queue, and one that is not has seen
the work as it is (`OnCourse`).

**Fixity** (`FixityProofs`; `FixityAssumption`). `CopiesKept`:
`Spec => GoodCopiesKept`. Repairs check what they copy at the step that copies it;
the invariant is only the shape of the two copies. `RepairsOneAtATime`:
`Spec => []OneRepairAtATime`. `ReadInOrder` says that of two jobs
that may still save, the later has read all that the earlier has; `RepairsSeen`, that
a job which may still save has seen every repair that is announced. The optimistic
lock then lets one of several through. `FixityTypes` (`TypeOK`) needs that a worker has
the job that its step belongs to (`Fits`), that the version is the number of saves plus
one, and a few facts about bags; `FixityAssumption` says that there are finitely many
mixes of troubles, and at least one mix and one id.

**BufferedSave** (`BufferedSaveProofs`; `BufferedAssumption`). `BufferedTypes`,
`SolrFollows` (`IndexNotBehind`), `CommittedIsPreserved` (`PreservedOrTold`),
`MessagesUndoNothing` (`DerivativesKept`). `Inv` (`AlwaysInv`) has, besides the types and
`IndexNotBehind`: `Locks` (a row that a thread holds is the one it read, nobody else holds
it, and Solr has what an indexed row is about to become), `JobsRun` (one thread runs the
job of a file set, and once it has committed the derivatives are made), `FileSetsKept` (a
processed file set has its derivatives, and is preserved as it is or has a message),
`WorksPreserved`. It does not matter whose queue a rescue runs, when, or how often: a
message is saved under the optimistic lock, over the row that was read.

**DeletionRestore** (`DeletionRestoreProofs`; `DeletionAssumption`). `NothingLost`:
`Spec => NeverLost`. As long as nobody is untimely, deletions and restorations keep
apart (`OnePhase`: members are deleted only while their work is gone and nothing is
restored), a request that deletes is alone and its marker has the object (`Alone`), a
member's marker is there before its object goes (`Marked`), and what a restoration has
imported is there when its marker goes (`Here`). `FilesThere`:
`Spec => []BinariesThere`, untimely requests included. `Binaries` says that a
`CleanupFilesJob` names no file newer than the file set's, and if it names that one
the file set is being deleted; an import makes a file that no job knows.

`AsAsked` (`DoneAsAsked`) and `AllPreserved` (`PreservedAgain`) speak of states at rest,
and need to be told what each job under way is going to do. As long as no request is
untimely and nothing has failed, the system is in one of eight phases (`OnCourse`, which
TLC has checked as an invariant of `deletion`): at rest or preserving (`Settled`), a
request deletes (`RequestDeletes`), the members of a deleted work go (`MembersGo`), a
restoration is queued (`RestoreAsked`), imports (`Importing`), lists a file set in its work
(`Attaching`, `Listing`) or brings the members of a work back (`MembersCome`). Each phase
says what `wanted` will have been, which markers there are (`Marks`: one of each resource
that is gone, with its object) and which jobs wait. `Upkeep` is what the jobs that
preserve keep: the work is preserved as it is or a job of its *current* lock token waits
(every save queues one, so the tokens that are stale in other jobs do no harm), and
each file set is preserved or is a member that a job is going to get to, at the latest
the job for all members that the first preservation of a work queues; a
`CleanupPreservationJob` that still waits names nothing that is there.
`DeletionTypes` (`TypeOK`) needs that a marker whose parent is the work is of a file set.
`DeletionAssumption` says that there are finitely many file sets, as `SetToSeqs` needs,
and that null is neither a resource nor a marker.

**The structure manager** (`StructManagerProofs`; `StructAssumption`,
`StoredAssumption`). `StructTypes`, `FilesKept` (`EveryFileOnce`), `OneSelection`,
`ChosenKept`, `SavesWhole`, `SaysSaved`. The bulk is about trees of any
size: `Under` is the least set closed under `Below`, so that a set is shown to contain
it by showing that it is closed. Every edit of the page is one of five: it adds
leaves (`AddLeaves`) or a node (`NewNode`), moves a node to a folder that is not
below it (`Moved`), removes a node with all that is below it (`Deleted`), or permutes
one folder (`Permuted`); each keeps a tree well-formed. `FileInv` adds how many cards
and places a file has.

**The order manager** (`OrderManagerProofs`; `OrderAssumption`). `OrderTypes`,
`MembersKept` (`NoMemberLost`), `NothingDoubled` (`MembersOnce`), `OnlyReordered`
(`SavesReorder`). What `paste`'s filter leaves is a lemma about recursive functions of that form
(`FilterRec` and `Filtered` of `SequenceLemmas`, by induction over the numbers up to a
length; the lists of `DeletionRestore` without a member use it too); the rest follows
what a card's replacement by a form, and a splice, do to the set of ids. `NothingUnsaveable`
(`UnsavedIsSaveable`) has an invariant of its own, `KeptInv`, which TLC has checked on
the instance of `order`. Until a mishap, a card shows the label that the server has
(`Agrees`) if it is not in `changeList` and no debounced form is about to put it there
(`Typing`). Once a save's first mutation, the resource's, has run, the same holds of
every card that is not in `todo`, listed in `changeList` or not; and while the timer of
`APPLY_STATE` runs, of every card. Of the order: server and gallery have the members they
share in one order from that mutation until the timer fires, and otherwise the server
and `ogOrder` do; what others add or remove changes no order of shared members.

**Only model-checked.** Every invariant and every action property that the passing runs
check is proved, and so is the refinement of `Lending`, some under a hypothesis that is
named with the theorem, but for two: `AllKept` and `MetadataKept`. Of these the part about
the work (`WorkIsRecorded`, `WorkIsKept`) and that a current record names the binary
(`CurrentRecordsAreWhole`) are proved, for any number of threads; that the *file sets* are
all recorded and uploaded when no job is left is checked with one thread only. The rest is
liveness (`BatchesGetThrough`, `WaitingPatronsServed`, `EveryVersionRecorded`, `JobsRunOut`,
`Settles`, `SavesEnd` of both pages): this prover treats neither fairness nor `ENABLED`.

## 14. What is not modelled, and why

- *Membership, workflows, preservation audit, authorization tokens*: planned
  (section 8).
- *Mosaics, PDFs, OCR requests, lending ingest*: one cached file or a chain of
  file operations each; a model would be as long as the code. Mosaics may follow.
- *Bulk ingest*: walks of a directory inside one transaction; its control is that
  of `BufferedSave`.
- *Storage adapters*: thin wrappers of file operations without state of their own.
- *Messages to other systems, remote metadata, identifiers*: the other side is
  not in the repository; a failure is logged, or fails the save.
- *Other save handlers*: each sets an attribute of the resource that is saved.
- *Manifests, search, geo discovery, reports, ingest of external records*: pure
  translation of data.
- *Controllers, views, GraphQL*: requests and rendering; what changes state goes
  through the persister. The controllers of lending and of deletion, and the
  mutations of the order manager, are part of their models.
- *Other browser code*: the viewer's timer is planned; the rest reads one part of a
  page and fills in another. `public/uv` is a build of the Universal Viewer with
  vendored libraries (pdf.js, mediaelement, three.js loaders): nine tenths of the
  JavaScript in the repository, none of it Figgy's own. What Figgy itself has of
  JavaScript and Vue with state worth a model are the two pages of sections 9 and 10
  and the cloud function of section 5; the rest of the system is Ruby.
