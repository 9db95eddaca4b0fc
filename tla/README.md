# Procnote: models, checks and proofs

Procnote records test and inspection procedures as event-sourced executions: a
desktop app keeps each execution as a directory of append-only JSON-lines
files, a server keeps the same log in PostgreSQL, devices and browsers that
record offline push what they recorded and pull what others did, and phones
send photographs. The procedures themselves are Markdown files, or documents
that several people edit together. This directory holds TLA+ models of these
parts, TLC configurations that check them on small instances, and TLAPS proofs
of the properties that hold for every size.

- [The system](#the-system) - components, their state, what is hard about them
- [Modules](#modules) - what each module models and how it maps to the code
- [Runs](#runs) - what is checked, with which bounds, and what came out
- [Disagreements found](#disagreements-found)
- [Proofs](#proofs)
- [Not modelled](#not-modelled)
- [Plan](#plan)

Paths below are relative to the repository (`src/` in `PROJECT.json`).

## The system

| Component | Code | State it keeps | Operations | What is hard, and what makes it correct |
|---|---|---|---|---|
| Execution engine | `crates/procnote-core/src/execution/engine.rs` | `ExecutionState`: status, step order and steps (status, content, values, files, notes), global notes, inbox | `apply` for each event, `from_events`, `start`, one `*_event` per client action | Guards are spread over 20 handlers. Captured data stays consistent, a finished record is frozen, uploads are not lost, what was recorded can be taken back |
| Report, summary, page | `crates/procnote-core/src/snapshot.rs`, `crates/procnote-app/src/execution.rs`, `src/lib/run.ts`, `src/lib/inbox.ts`, `src/lib/components/` | none of its own | `render_execution_markdown`, `summarize`, progress and focus, what is offered | Two walks over the same state, and a page that decides on the result of one of them. Nothing recorded is missing, the progress shown is true, what is offered works |
| Event types and log format | `crates/procnote-core/src/event/` | one JSON line per event | `read_log_records`, `append_event` | Which lines a reader takes and which it refuses after a crash |
| Desktop file store | `crates/procnote-app/src/persistence/` | `events.jsonl`, `pending.jsonl`, `rejected.jsonl`, `conflicts.jsonl`, `sync.json`, `attachments/`, a snapshot, a lock file | `create`, `record`, `link`, `outbox`, `settle`, `import_remote`, `record_installed_attachment_batch`, `store_attachment` | Several files change in one operation and the app may stop in between; a sync holds values read from them while others record |
| Application logic | `crates/procnote-app/src/` | none of its own | `record_action`, `receive_files`, `push_event`, `decide_*` | Decisions are made on a state that must still be current when they are stored |
| Sync engine | `crates/procnote-sync/src/` | the link to a server | `sync_all`, `sync_execution`, `open_remote`, client calls, pairing | Requests and answers are lost, repeated or late. Nothing recorded is lost; copies converge |
| Desktop shell | `src-tauri/src/` | workspace, link, status | Tauri commands, the background sync | One sync at a time, but recording and reconnecting go on beside it |
| DropPoint receiver | `src-tauri/src/drop_point/`, `src-tauri/src/commands/drop_point.rs` | a persisted session per target: submissions installed, recorded, acknowledged; an intent to close; a directory per submission | start, resume, poll, import (pick up, install, record, acknowledge), cancel | A crash between any two steps, or any two writes; each submission recorded once and acknowledged only then; nothing left behind when the session ends |
| Server | `crates/procnote-server/src/` | events, conflicts, attachments, upload tokens, links, device tokens, templates | `push_events`, `pull_events`, `create_started_execution`, `record_action`, uploads, live updates, import and export | Handlers run concurrently, and go on when their client has given up |
| Access control | `access.rs`, `device_tokens.rs`, `upload_links.rs` of the server | a file per device token and per upload link | issue, resolve, revoke; get or create, find, revoke | Requests overlap between looking for a file and writing it |
| Offline browser client | `src/lib/offline/localExecutions.ts` | executions and file contents in IndexedDB | the desktop store's and sync's operations, backup and restore | Awaits between load and save, several tabs, contents shared between executions, storage the browser may evict |
| Collaborative editing | `collab/`, `crates/procnote-server/src/collab.rs`, `src/lib/blocknote/convert.ts` | template rows; documents in the memory of the collaboration service | create, seed, connect, edit, store, archive, duplicate, reset | Row and document are kept by two programs; documents are stored late |
| Template parser | `crates/procnote-core/src/template/` | none | parse, `to_markdown` | Three forms of one template (file, steps, document) that must not drift apart |
| Launcher, WebAssembly bindings | `procnote-launcher`, `procnote-wasm` | none shared | process start, bindings | - |

How they interact: a client asks for an action; the application logic decides
it on the replayed state and the store appends the resulting events. In a
workspace connected to a server, an execution is *linked*: `events.jsonl` is a
copy of the server's log and what is recorded here waits in `pending.jsonl`.
The background sync reads the outbox under the log's lock, talks to the server
without the lock (register, push, pull), and settles under the lock again. The
server pushes each event through `push_event`: a duplicate is skipped, an event
that applies is recorded, one that does not is kept as a conflict, and one whose
files it did not get is refused. The browser does the same with IndexedDB in the
place of the files. Whoever writes to an execution at the server then announces
how long its log is, and pages that follow it sync. A template is created as a
row by the server and as a document by the collaboration service, to which the
editors' browsers connect; an execution is started from the stored document.

The hazards this code is exposed to, each at its line and with the properties
that would catch it going wrong, are listed in `PROJECT.json`.

## Modules

    Engine ---- Execution ---- Report ---- Page ---- MCExecution
       |            \_______________________/
       |                ExecutionProofs
       |
       |------- Sync ---- MCSync
       |          |- ReplicatedLog (refined by Sync)
       |          `- SyncProofs
       `------- DropPoint ---- MCDropPoint
                  `- DropPointProofs

    LogFile ---- ExecutionProofs

    Browser  Templates  TemplateText  Live  Access  Attachments  Bundle
        \________\___________\_________|______|________|_________/
                                  MCServices

    Browser ---- BrowserProofs ---------------------------.
    TemplateText ---- TextProofs (uses FoldProofs) --------+- MCServicesProofs
    Templates, Live, Access, Attachments, Bundle           |
        `---- ServicesProofs -----------------------------'

**`Engine`** is `engine.rs` without its variables: each arm of
`ExecutionState::apply` is an operator on a state that returns the set of states
it can end in, empty for `Err`. `Apply` dispatches on an event record and
`Replay` is `from_events`, written as a recursive function so that modules with
proofs can use it. Lists whose order nothing reads (files on an input, notes,
the inbox) are counts per element, so a duplicate in a list stays visible.
Timestamps, wording, units and `seq` are left out. `remove_note` takes the first
hit of a hash map, so `NoteRemoved` returns a state per candidate.

**`Execution`** makes the actions of one execution out of them: one action per
`ExecutionAction` (the engine's `*_event` function, which applies the event to a
candidate, and the append of it), `Start`, and `ReceiveFiles` (`decide_receive`,
which skips content the execution has). The repository records an action
atomically, so a step is one action.

**`Report`** is what is shown of an execution, as functions of its state: the
Markdown report of `snapshot.rs` and the summary of `summarize`. The two walk
the steps on their own; in particular the summary moves an input that a table
shows out of the input block, and the report shows it in both.

**`Page`** is what the execution page reads off the summary: how many steps are
complete, which step it opens on and where "next" leads (`run.ts`), the targets
a received file may be assigned to (`inbox.ts`), and the condition under which
each component offers each action. Which action follows is `Execution`.

**`ReplicatedLog`** is what syncing promises: one log that grows by one new
event at a time, and copies that show a beginning of it and never less than
before.

**`Sync`** is one execution between a server and devices: the files of a linked
copy (`dev`), the sync each device is in (`run`, with what it carries from its
outbox to its settlement), the push requests the server still works on
(`pushes`), and the server's log and conflicts. Grain: every request and answer
is a step; `settle` is three writes with a possible crash between any two;
`push_event` is three transactions; a request that was given up goes on at the
server. `Record` needs the lock that `settle` holds. An event is an id and an
engine event, so whether it applies, and whether a log replays, is decided by
`Engine`. The starting lines, equal in every log, are left out: logs start in
the state `Started`. `author` is a history variable.

**`LogFile`** is one JSON-lines file: pieces written to lines, a write that can
stop at any point (also within a multi-byte character, `CutChar`), and the three
kinds of reader: `read_log_records` (skips a bad last line), `parse_lines`
(skips one without its newline), `conflict_log::parse` (skips none).

**`DropPoint`** is the receiver of files for one attachment input: the private
state file of each session (`file`: phase, and which submissions are installed,
recorded and acknowledged), the bundle directories (`bundles`), how often each
bundle is in the execution's log (`logged`), the relay's side of each session
(`relay`), the session the dialog shows (`shown`), and the one operation that
holds `lock_operation` (`op`). Every durable write and every request is a step,
so an operation can be interrupted between any two: `Stop` is a crash, a write
that failed or a request that did not arrive; `Acknowledge`, `Close` and `Start`
may also take effect and lose their answer; `InstallFails` is an error inside
`install_submission`, after which an import goes on with the next submission.
`op.at` is how far the operation has got and `op.then` what it goes on to after
`record_pending_submissions`, with which every command begins. What the session
holds in memory is not a variable: between two steps it is what its file says,
because every change to it is persisted before the next one. `RecordBatch` asks
`Engine` whether the batch applies, and the user completes, reopens, skips,
unskips and removes files meanwhile. Modelled from how the client uses it: the
relay expires a session at any time, forgets a submission that was acknowledged
and accepts acknowledging it again.

**`Bundle`** is the one step `DropPoint` makes of `install_bundle`, as the file
system operations it consists of: the lock file, removing what a stopped install
left, looking for the submission's directory, creating, writing and syncing each
file and the receipt in a hidden staging directory, renaming it. Programs may
stop anywhere (a lock goes with its holder), any operation may fail, and after a
loss of power an entry that was not synced is there or not.

**`Browser`** is `LocalExecutions`: the copies and kept contents in IndexedDB,
which all tabs of a browser share, and in each tab the operation at the head of
an execution's queue (`op`, with what it has loaded). Every `await` is a step,
and the server's side of a request (create, push event by event, keep a
conflict, pull, record online) is that of `procnote-server`. Tabs close,
connections drop, pushes fail half way, the storage is backed up, evicted and
restored. An event is its number, the content it attaches and whether it
finishes the execution; which events apply otherwise is left to `Sync`.

**`Live`** is following an execution: handlers that write and announce the
length of the log, a session that subscribes, reads the current length, and
falls behind its channel (`Lagged`), a socket that is reconnected, the sync an
announcement asks for, and the store that shows the result.

**`Attachments`** is the content behind the names in a log: staging and copying
a picked file, which other programs may edit meanwhile, pushing contents by hash,
the server's reference rows and object store, downloading what was pulled,
opening a server's execution, and importing and exporting workspaces. A write
may stop half way at each place.

**`Access`** is two protocols of credentials: pairing the desktop with a server
(the loopback port, the connect page, the device token, the stored link, and the
background sync that says whether the token is still good), and the upload link
of an execution, which overlapping requests look for, write and remove.

**`Templates`** is the life of shared templates: the rows of the server
(`rows`), the documents in the memory of the collaboration service (`docs`),
the way of a first content into a document (`seeding`), the requests that create
(`creating`), and what each editor's browser shows (`view`). A document is what
was added to it and what of that was removed, merged by union, which is how
`collab/` uses Yjs. The service stores a document some time after it changed,
unloads documents nobody has open, and may crash; a request whose client is gone
is dropped at its next await, while what it asked of the service goes on.

**`TemplateText`** is one template in three forms: Markdown blocks, the parser's
steps and items, and the blocks of a BlockNote document, with the four
conversions between them (`parser.rs`, `markdown.rs`, `document.ts` with
`convert.ts`) and the checks that refuse what has no Markdown form. Lists keep
their levels, tables their cells, and prose is a sequence of blocks, because
what runs together is what goes wrong here. `stepChildren` hands all prose to
BlockNote, which keeps most of it and turns two kinds of block into others: a
list of tasks and other items, and a table in a quote. What it makes of them is
left open: `OpenFile` opens every file the parser reads, and each such block
becomes any of the sequences of blocks in `Conversions`, none of which holds an
input, because BlockNote's Markdown has none.

`MCExecution`, `MCSync`, `MCDropPoint` and `MCServices` give constants their
values. The seven parts of `MCServices` share no state: the variable `focus`
says which of them a behaviour is about, and the others stay as they began, so
one run checks them side by side instead of their product. Definitions called
"Faulty variant" are plausible slips in the definition that follows them; each
property of each run is shown to fail when one of them replaces the definition
it varies, so no property holds by the shape of the model.

## Runs

| Run | Module, config | Bounds | Distinct states | Result |
|---|---|---|---|---|
| `execution` | `MCExecution`, `MCExecution.cfg` | 2 steps, 1 checkbox, 2 scalar inputs (1 in a table) and 1 attachment input, 2 files, 1 note id, at most 2 copies of a file | 81 969 | holds |
| `sync` | `MCSync`, `MCSync.cfg` | 2 devices and a browser, 3 events (two values for one input and a clear), 1 crash, 1 lost or abandoned request | 1.05 million (devices, and r1 and r2, symmetric) | holds |
| `sync_live` | `MCSync`, `MCSyncLive.cfg` | 2 devices, 2 events that attach the same file, 1 lost or abandoned request | 147 229 | holds |
| `logfile` | `LogFile`, `LogFile.cfg` | all kinds of file, 5 records, batches of at most 2, 3 stopped writes | 24 470 | holds |
| `droppoint` | `MCDropPoint`, `MCDropPoint.cfg` | 1 attachment input, 2 sessions, 1 readable and 1 spoiled submission, 2 interruptions | 161 864 | holds |
| `services` | `MCServices`, `MCServices.cfg` | per part, see below | 488 864 | holds |
| `settle_crash`, `settle_race`, `one_fate`, `droppoint_linked` | `MCSync` | as their cfg says | | violated, see below |
| `torn_tail`, `cut_character` | `LogFile` | 1 stopped write | | violated, see below |

What they show:

- `execution`: under every sequence of actions, a skipped step is empty
  (`SkippedStepIsEmpty`), reversing events restore the state
  (`ReversalRestores`), everything recorded is in the report and in the summary
  (`ReportIsComplete`), the page says that all is done exactly when the report
  has no gap, and otherwise leads to a step with one (`ProgressIsTrue`), the
  engine takes what the page offers (`OfferedActionsWork`), a finished record
  changes in nothing but its name (`FinishedRecordIsFrozen`) and an upload leaves
  the inbox only for an input (`InboxNeverLosesFile`). `MCExecution` also checks
  that the state an execution is created in is the one its log replays to
(`StartReplays`; `StartReplaysAlways` proves it). One
  template step and one that may be added give every order of insertion; a scalar
  input in a table and one outside it are what report and summary treat
  differently; two files and an attachment input let a file be in two places; one
  note id is enough because it can be tried in three places.
- `sync`: with a crash at any point of a settlement and a request lost at any
  point, nothing recorded is lost (`NothingLost`), a device's events keep their
  order (`DeviceOrderKept`), and the whole implements `ReplicatedLog`. Three
  events of which any two conflict in one order and apply in another are what it
  takes for a conflict, a conflict that applies later, and an event behind both.
- `sync_live`: with files the server may refuse, every event recorded in a
  linked copy ends up recorded, kept as a conflict or refused (`Delivered`), and
  the copies end up with the server's log and an empty outbox (`Converges`).
  Both except a copy that has become unreadable, which `settle_race` shows to be
  possible.
- `logfile`: until something is appended to a line that a stopped write left
  unfinished, everything acknowledged is read (`StoppedWriteIsHarmless`; for a
  stop between two characters, and not promised for conflicts), and afterwards
  the outbox and the conflicts never lose a record silently (`NoSilentLoss`).
- `droppoint`: with two interruptions anywhere, the relay is told to forget only
  what is published and in the log (`AcknowledgedIsDurable`), a bundle is
  recorded once (`RecordedOnce`), the private state claims only what happened
  (`PrivateStateIsTrue`), a session that is complete has left no bundle
  unrecorded and is over at the relay (`CompleteLeavesNothing`), an input has one
  session in progress (`OneSession`), what a phone dropped arrives past a
  submission that cannot be read (`DroppedArrives`), and a recorded stop is
  carried out (`StopIsCarriedOut`). The last two end with the input: once the
  execution is finished or the step skipped,
  `start_attachment_drop_point_session` refuses to show the session again, so
  after a restart a pending stop stays pending and the session keeps its
  secrets. One submission that arrives and one that cannot are what it takes for
  an import to go on after an error; the second session is for a start while the
  first one ends; two interruptions, for one during the recovery from another.

What `services` shows, part by part (distinct states in parentheses):

- browser (253 603): what a person was told is recorded is in the log, kept as a
  conflict, or still on the device (`RecordedIsSomewhere`), its content is on the
  device until the server has it, although executions share one kept file
  (`ContentKept`), a refused event needs no new upload (`RefusedIsOnServer`), and
  when failures end everything arrives (`EverythingArrives`). `lost` names the
  only exceptions: a save over another tab's, and storage that was lost. The
  scopes are two tabs on one execution; one tab on two executions; one tab with
  two dropped connections; and one tab with storage lost and restored and one
  drop. Two tabs only interfere on one execution, and executions only share
  contents, so two of each at once would show nothing more.
- templates (77 239): a template whose creation was reported keeps its row and
  first content (`CreatedStays`), an edit is stored or with somebody who has the
  template open, unless all its editors left (`EditsSurvive`), and open editors
  end up with the stored document (`EditorsConverge`). The scopes are two
  creators for one procedure, two editors and a reset, two losses and a crash,
  and two procedures of which one has no file in the workspace.
- text (44 482, files and documents of up to 4 blocks of every kind): a file
  opened as a shared template and read back without a change keeps every step
  with its heading and its inputs, and is the template the parser read
  (`FileSurvives`), with three exceptions. A step with inputs in neighbouring
  blocks gets them in one. A step whose prose holds a mixed list
  (`docs/concepts/templates.md`: "Mixed lists render as prose") or a table in a
  quote gets other blocks for these. A list with another marker than the one
  checklists are written with may run into a checklist when the template is
  written. An export parses to the steps an execution of the document has
  (`ExportReadsBack`), whatever blocks these are. Four blocks are what the wrong
  nestings need: a heading, a checklist, something between, and a checklist.
  `Conversions` has, for each of the two kinds, an outcome with blocks that are
  checklist items, tables or prose and one with a block that may not be there.
- live (27 332): once writing ends, an open page shows all that was announced
  (`AnnouncedIsShown`), with two concurrent writers, three events, a channel that
  keeps one announcement and one failure, unless its last sync failed (`missed`).
- connect (3 157): with two overlapping attempts and two tokens, the status of a
  connected workspace in the end says of the current token whether the server
  takes it (`StatusFollowsToken`).
- links (94): an execution has one upload link unless two requests were creating
  one at once (`OneUploadLink`), with three overlapping requests.
- attachments (81 605): every log that names a file, here, on the server and in
  an archive, has its content, but for what was downloaded in part (`spoilt`) and
  what the server took without an upload (`bare`) (`LoggedHasContent`). Two names
  for one content, two files attached, one write stopped, for an execution that
  begins local, linked, or at the server alone.
- bundle (1 352): what has a submission's name is a whole bundle and stays
  (`PublishedIsWhole`), with two programs that install different bundles and
  three mishaps.

Fairness of `Sync` (`LiveSpec`): weak fairness of a device's sync and of the server's
handling of that device's pushes. `ServerSync::run` syncs every 30 seconds or
when woken, for as long as the app runs, with one sync at a time
(`running`), and the server's handlers run to their end once started
(`spawn_blocking`). Nothing is assumed about people recording, and failures are
bounded by `MaxDrops` and `MaxCrashes`, not excluded.

Fairness of `DropPoint` (`LiveSpec`): weak fairness of the operation that holds
the lock, which runs to its end or is interrupted (at most `MaxStops` times, and
requests have a timeout). Strong fairness of `Resume`, `Import` and `Poll`: the
dialog polls while it is shown, imports what the poll tells it of, and when it
has stopped on an error the user presses Retry or reopens the upload again; a
tokio mutex is handed out in order, so no command waits for ever. Starting,
stopping, navigating away, dropping and expiring are never assumed to happen.

Fairness of `services`: steps that a program takes by itself, and no others. A
tab carries on with a sync it began, syncs again while something is undelivered
(`startSyncing`, every 30 seconds), and the server handles what reached it
(`BrowserFairness`). An editor's browser reconnects, asking for a new token, and
sends and receives over an open connection; the service stores a changed
document and seeds one it was asked to (`TemplatesFairness`). A handler that
wrote announces it, a session sends, a closed socket is opened again, a call of
the page ends (`LiveFairness`). The desktop's background sync runs
(`AccessFairness`). That people record, edit, open or close pages, connect or
revoke is never assumed.

`CHECK_DEADLOCK FALSE` where the system may stop: in `Sync` a device that is not
linked, or whose copy cannot be read, has nothing to do once the event ids are
used up; in `LogFile` the numbered records run out or the file is unreadable; in
`MCServices` a part is at rest when its requests have been answered and its
bounds are used up.

Bounds: `MaxCopies` (Execution) limits how often one file is in an execution;
`MaxCrashes` and `MaxDrops` (Sync) limit failures; the set `EventIds` limits what
is recorded; `MaxStops` (DropPoint) limits interruptions; `MaxRecords`,
`MaxBatch` and `MaxStops` limit `LogFile`; `Scopes` (Browser), `TemplateScopes`
and `MaxTemplates` (Templates), `MaxBlocks` (TemplateText), `MaxLogged` and
`MaxFailures` (Live), `MaxTokens` and `MaxOutages` (Access), `Settings`
(Attachments) and `MaxMishaps` (Bundle) limit what people do and what fails.
`ChannelCapacity` is 64 in the code; any capacity can be exceeded, and one
exceeds it soonest. The proofs hold for every value of them.

## Disagreements found

Each is a run that TLC finds violated by what the code does; `PROJECT.json`
quotes the statement it contradicts.

1. `settle_crash` - stopping between the writes of `settle` leaves an event in
   the log and waiting. Replay does not recognise it, so the copy cannot be read,
   and `sync_all` fails for the whole workspace. The comment calls the crash
   harmless.
2. `settle_race` - an event recorded while a sync is under way can conflict with
   what that sync pulls; `settle` does not look at the waiting lines, and the
   copy cannot be read afterwards.
3. `one_fate` - two deliveries of one push, the first abandoned by its device,
   can record an event and keep it as a conflict.
4. `droppoint_linked` - importing DropPoint files appends to the log of a linked
   execution, which is the server's.
5. `torn_tail` - an append after a torn line is reported as durable and not read.
6. `cut_character` - a write cut short within a multi-byte character makes the
   log unreadable.

Noticed in passing, and not worth a run: the guide says that a note can be
attached to the execution as a whole (`docs/guide/running-an-execution.md`), but
no page offers it and the summary does not carry such notes, though engine and
report have them.

`localExecutions.ts` begins by saying that nothing is lost while the server
cannot be reached. With two tabs on one execution something is: `#exclusive`
serializes within a page, both tabs load the stored copy, and the later save
overwrites the earlier. `RecordedIsSomewhere` excepts exactly these events
(`lost`) and shows that there are no others.

Also noticed: when the storage is lost and the backup of an execution that was
started offline is restored, after its events had already reached the server, the
next sync registers the execution again and saves the server's log as the copy's
records (`localExecutions.ts:376-386`) while the same events still wait in
`pending`. `mergeBackup` doubles nothing, but from then until the push is answered
the copy holds them in both places. No property of `Browser` forbids that, and the
server records them once (`NothingRecordedTwice`).

## Proofs

`ExecutionProofs` proves, for every set of steps, inputs, files, notes, templates
and batches, what concerns the engine in the run `execution`, and four more
invariants that the others rest on: the step order lists every step exactly
(`StepOrderIsExact`), note ids are unique across places (`NoteIdsAreUnique`),
captured data is on declared elements and no input has both a value and files
(`CaptureIsDeclared`), and no input has a file twice (`NoFileTwiceOnInput`).
Its assumptions are those `Engine` and `Execution` name: contents have the right
shape, tick only their own checkboxes and do not declare an input as both scalar
and attachment (`ContentsAssumption`), `None` is no value
(`NoneAssumption`), a template's step ids differ (`TemplatesAssumption`), batches
are sequences of files (`BatchesAssumption`).

- *Type correctness* (`TypeCorrect`) is inductive as it stands, with one lemma
  per handler. It is not idle: counts are natural numbers, so it says that no
  handler takes away what is not there.
- *Captured data* (`CapturedInvariant`): none of the four properties about
  captured data is inductive by itself. That an input has a file once needs to
  know that it may only be attached to a declared input of a present step; that
  a skipped step is empty needs to know that an absent step is; that a note id is
  unique needs it for all places at once. `CapturedInv` collects them, with one
  step of the proof per action, and the four theorems follow from it.
- *Step order* (`StepOrderStaysExact`) is inductive together with the types;
  the work is in two lemmas about inserting into a sequence without repetitions.
- *Action properties* (`FinishedStaysFrozen`, `InboxKeepsFiles`) go through
  the actions one by one under the invariants. The second also needs that
  nothing is recorded before the start (`NothingBeforeStart`).
- *Reversal* (`ReversalsRestore`) uses the uniqueness of note ids: the removed
  note is the one that was added.

Then it proves that *the state is its log* (`StateIsItsLog`): whatever actions,
uploads and starts led to it, there is a log of events whose replay gives that
state and no other, so opening the execution again shows what was shown before.
`ReplayOfAppend` is the step, that a log with an event more replays to what the
log did with the event applied; each action is then one event with one result
(for `NoteRemoved` because note ids are unique), an upload is several
(`ReceivedHasLog`, by induction over the files, each of which must still apply
after those before it), and a start is `StartReplaysAlways`: the events `start`
records replay to the state it leaves, for every template. `EveryLogHasType` is
about logs nobody's actions made, as those of devices that worked apart: whatever
their order, an event is refused or leads to an `ExecutionState`.

The part on `Report` and `Page` builds on these. `RecordInv` adds to `CapturedInv` the step order
and that contents come from templates or added steps (and so that tables name
scalar inputs only, `InTableAssumption`); no page or report property needs more,
because both are functions of the state. `ReportStaysComplete` follows from
captured data being declared and every present step being listed.
`ProgressStaysTrue` shows that summary and report, which list the inputs
differently, agree on what is still to do. `OfferedActionsAlwaysWork` compares
each offer with the handler's guards.

Its last part proves the properties of the run `logfile`. The inductive
invariant (`FileInv`) says that a line that a newline closed ends with a record,
that the records the writer has finished are on closed lines, the one it is
finishing ends the open line, and everything acknowledged is on a closed line.
`NothingIsLostSilently` follows because the stricter readers accept only files
whose closed lines are whole; `AStoppedWriteIsHarmless` because without gluing
every line has one piece.

`SyncProofs` proves the safety properties of the run `sync`, for any number of
devices, events, crashes and lost requests, and never looks into the engine:
whether an event applies does not matter to any of them. `SyncInv` is the
inductive invariant. Its parts say what each holder of a copied value may rely
on: a sync's positions fit its copy, which nobody else changes while it runs
(`Positions`); a waiting line is its device's and waits once (`Authors`); a
linked log is a beginning of the server's, and pulled lines continue it
(`Logs`); a sync that waits for an answer has each line it sent still to do,
dealt with or refused (`Awaiting`), and after the answer only the latter two
(`Settlement`). For the order of a device's events, what a push has to do are
lines in a row, all lines before them having been passed by the server
(`Rows`), and so are all before one that was recorded (`PassedBefore`); this is
what makes an abandoned push, running beside the next one, harmless.
`SyncImplementsReplicatedLog` is the refinement: initial states map to initial
states, and each step grows the log by one new event, lets a copy show more of
it, or is a stutter.

`DropPointProofs` proves the safety properties of the run `droppoint`
for any number of sessions, submissions and interruptions. Assumptions:
none beyond those `Engine` and `DropPoint` name. None of the properties is
inductive alone. `DataInv` collects them with what holds of a session that has
not begun; `OpInv` says what each place of an operation entitles it to: at
`recorded`, that the bundle is in the log; at `acknowledged`, that the relay has
forgotten it; past `discover`, that every bundle directory is in the file; from
`closing` on, that every bundle is recorded; at `complete`, that the relay has
ended the session. An interruption drops `OpInv` and keeps `DataInv`, which
names no operation: that is the argument why it is harmless at any point.
`NothingToMerge` shows that `merge_transition` writes what an operation means to
write, since no operation works on older state than the file's.
`DropPointTypeCorrect` adds that each event a session or its user asks for takes
an execution to an execution (`EventType`).

The seven parts of `services` have proofs of their own, for the part's own
specification (`BrowserSpec`, `TemplatesSpec` and so on). `MCServicesProofs` puts
them together: a step of `MCServices` is a step or a stutter of every part
(`StepOfEveryPart`), so `ServicesInv`, the conjunction of the parts' invariants,
is inductive, and the type invariant of the run follows (`ServicesTypeCorrect`).

`BrowserProofs` proves the three safety invariants checked of `Browser` for any number of
tabs, executions, files and failures. Assumptions: `DraftsAssumption`,
`NoneAssumption`, `ScopesAssumption`, and `NoCopyAssumption`, that `None` is no
log, copy or backup. `BrowserInv` is the inductive invariant. It says one thing,
`Sound`, of every copy there is: stored, loaded by a tab, or in the backup. Such a
copy holds only what the server has, the content of what waits in it is kept
beside it or on the server, and what it lists as refused needs no upload. What a
tab loaded before an `await` may be older than what is stored, and stays sound,
since logs and contents of the server only grow (`Grows`); that is the argument
for every step of somebody else. Beyond that, a push under way has passed or
refused what it counts as done (`PushSound`), its operation still holds the
lines it sent (`PushesOwned`), and whatever is uploaded goes under the name of
the first event that attaches it (`Named`), which is why the server finds the
content for each event it is pushed. `recorded` is never outside the server, the
device and the backup except in `lost`, and `lost` stays empty while each
execution has one tab and no storage is lost (`NothingLost`): then an operation
knows of every line that its save replaces. A tab that closes or loses its
connection is idle again, which no part of the invariant asks anything of, and
the push it leaves behind is nobody's.

Two more properties of `Browser` are proved, from a second invariant on top of
that one (`OrderInv`). `CopyIsBeginning` is what `pull_events` relies on when it
sends the lines after a number: a copy of a registered execution is how the log
of the server begins, whatever was registered twice, saved over by another tab,
restored or abandoned. `NothingRecordedTwice` is what lets a push be repeated:
an event is in the log once. The invariant asks the first of the copies that tabs
have loaded and of those in the backup too, since each may be saved, and that
every event anywhere (log, copy, draft or push) has a number given out before, so
that what others record meanwhile is new to the log. It was model-checked with
the part's bounds before it was proved (253 603 states of the part alone); it is
in no run.

`ServicesProofs` proves the two safety properties of `Templates` and its type
invariant for any number of templates, creators and editors, resets and crashes.
Assumptions: the three of the module's bounds and `UnsetAssumption`, that
`Unset` is no row, document or view. Neither property is inductive. That a
created template stays needs to know that the row a request may still delete is
that request's alone and not reported (`RowsAreOwned`), that a document is
in memory with its first content from when it was applied until it was stored
(`FirstContent`), and that nothing is known of an ID before its row
(`UnusedIds`). That an edit survives needs that a document somebody is connected
to is in memory and holds everything stored (`HeldInMemory`), so that storing it
forgets nothing. `OneHolds` is the unique index on procedure IDs: a request
inserts under it, and taking an archived procedure over would break it.

`TextProofs` proves the two properties of `TemplateText` for files and documents
of any length: what a file holds survives being opened as a shared template, with
the three exceptions named above (`FileAlwaysSurvives`), and an export parses to
the steps an execution of the document has (`ExportAlwaysReadsBack`). Both hold
whatever BlockNote makes of the prose it alters. Assumptions:
`SourceBlocksAssumption` and `DocumentBlocksAssumption`, of what blocks a source
and a document are made, `ConversionsAssumption`, that altered prose becomes some
sequence of blocks without inputs, `NoTextAssumption` and
`MaxBlocksAssumption`. The conversions are folds over a
sequence, so both are by induction on it. The library's induction theorems take a
predicate as parameter, which no prover here instantiates; `FoldProofs` does
without. It has induction over numbers and sequences for a *set* (`NumberInduction`,
`SequenceInduction`: a least element outside it would have a predecessor), and a
theory of one fold whose operator is a constant of the module, so that an
`INSTANCE` per conversion gives what it makes of a sequence with an element more
(`FoldOfAppend`) and what it keeps (`FoldKeeps`). The invariant (`TextInv`) is that
a document nobody has changed is a conversion of the file it was opened from, for
some outcome of what BlockNote alters, and that an export reads back; the rest is said of sequences of blocks and does not mention states.

`ServicesProofs` also holds the smaller ones.

- `Live`: `AnnouncedIsShown` is a liveness property and stays with TLC, but its
  safety half is proved. `QuietIsCurrent` says that an open page that waits for
  nothing shows all that was announced. `LiveInv` is why: the last announcement,
  or a later reading of the log that covers it, is with the session, in its
  channel (or lost there with the session told to read the log again), on the
  wire, in a pull, or shown (`Carried`); and the calls that hold an execution
  come one after another (`CallsInOrder`). From the same invariant,
  `ShownNeverShrinks`: answers are not applied out of order. Any number of
  handlers and events, any capacity of the channel. Both were model-checked with
  the part's bounds before they were proved (546 404 states of the part alone).
- `Attachments`: `AttachmentsInv` adds to `LoggedHasContent` that one
  writer at a time stores a file (`OneWriter`) and what a sync, an import and an
  export under way have established at each place (`SyncSound`, `StoredSound`).
- `Bundle`: `BundleInv` adds who works in the staging directory (the holder
  of the lock) and what is written and on disk at each place of
  `install_bundle`; a loss of power keeps it because the rename comes after the
  directory was synced.
- `Access`: whoever found no link and has not written one is alone, and
  there is none (`LinkInv`), unless two searches overlapped.

Proving about `Browser` corrected the model once: where a sync goes on after an
answer (`Stage`) was a CASE whose guards overlap, which leaves the choice open
where the code tries them in order. It is an IF chain now.

Only model-checked:

- Liveness (`Delivered`, `Converges`, `DroppedArrives`, `StopIsCarriedOut`,
  `EverythingArrives`, `EditorsConverge`, `AnnouncedIsShown`,
  `StatusFollowsToken`): TLAPS does not prove liveness under fairness.

Every safety and action property of a passing run is a theorem.

## Not modelled

- Text: frontmatter of templates, the escaping of Markdown, cell syntax, wording
  and layout of reports and pages. Within `TemplateText`, which blocks BlockNote
  makes of a mixed list or a quoted table: any of `Conversions`.
- Form state of widgets (what is typed and not yet recorded), the pages other
  than the execution's, and wording of conflicts (`describe.ts`).
- Settling a conflict: it marks an entry of the conflicts file or table and
  changes no log. Listing and deleting executions, the template catalog and
  static pages.
- The check of an identity provider's token (`access.rs`): a function of one
  request and of keys fetched when they are missing.
- Path and symlink checks, opening workspaces, the file watcher.
- Two contents whose hashes have the same first digits and therefore one path.
- Merging of Yjs and storage of Hocuspocus: libraries, modelled as the union of
  changes as `collab/` uses them.
- Launcher, WebAssembly bindings.
- Cryptography and multipart parsing of DropPoint (a submission is readable or
  spoiled), and changes others make to a published bundle or a state file, which
  the code detects and refuses. On Windows `rename_without_replacement` looks
  and then renames; `Bundle` has the atomic rename of the other platforms.
- A relay that answers a repeated acknowledgement with an error: `acknowledge`
  would fail and no later import of the session would get past it. What the
  relay does is not in this repository.
- An answer from between client and relay: `terminal` takes a 404 without an
  error code for the relay's end of the session.
- The event log's schema version: one version reads what it wrote.

What of a partly modelled component is left out is in the notes of
`PROJECT.json` "components".

## Plan

All of the plan is done, in this order: `Engine`, `Execution`,
`ExecutionProofs`; `ReplicatedLog`, `Sync`; `LogFile`; `DropPoint`,
`DropPointProofs`; `Report`, `Page`; `Browser`; `Attachments`, `Live`, `Access`;
`Templates`, `TemplateText`; `Bundle`; `SyncProofs`; `BrowserProofs`,
`ServicesProofs`; `FoldProofs`, `TextProofs`, `MCServicesProofs`; the replay part
of `ExecutionProofs`.

What could follow: a `Browser` that decides with `Engine` and refines
`ReplicatedLog` for one tab; `Attachments` over the log of `Sync` instead of
sets; the safety half of `StatusFollowsToken`, as `QuietIsCurrent` is that of
`AnnouncedIsShown`; the wait of the file watcher on what other programs write
into a workspace.
