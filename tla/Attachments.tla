---------------------------- MODULE Attachments ----------------------------
(***************************************************************************)
(* The content of attached files, from the file a person picked to the      *)
(* desktop's copy, the server and an exported workspace (repository.rs,     *)
(* attachment_store.rs and execution_store.rs in procnote-app, engine.rs in *)
(* procnote-sync, postgres.rs and transfer.rs in procnote-server).          *)
(*                                                                          *)
(* One execution.  A file is its content and its name, and so is the path   *)
(* it is stored under (two contents with one hash prefix are left out).     *)
(* Logs are the sets of the files their events reference: Sync and Browser  *)
(* have the events, and what a second event with the same file adds.        *)
(***************************************************************************)
EXTENDS Naturals, Sequences, SequencesExt

CONSTANTS
  Contents,
  FileNames,
  Settings   \* what is considered together, with its bounds

Photos == [content : Contents, name : FileNames]

(* Where the execution begins, the files people attach, whether workspaces  *)
(* are moved; how many files are attached, here and elsewhere; how often    *)
(* something stops half way, or a picked file is edited.                    *)
ASSUME SettingsAssumption ==
  Settings \subseteq [place : {"none", "local", "linked"}, photos : SUBSET Photos,
                     moves : BOOLEAN, maxMade : Nat, maxFaults : Nat]

ASSUME PhotosAssumption == Photos # {}

VARIABLES
  setting,   \* one of Settings
  place,     \* the execution here: "none", "local" or "linked"
  picked,    \* the content behind each name, outside the workspace
  attaching, \* the action that attaches a file: [pc, file]
  onDisk,    \* the files of the execution's directory
  kept,      \* the log here
  outbox,    \* what waits for the server
  fetch,     \* a sync, or opening the server's execution here
  spoilt,    \* history: files whose storing here stopped half way
  serverHas, \* whether the server has the execution
  serverLog,
  fileRows,  \* its attachments table
  contents,  \* its object store
  bare,      \* history: files recorded there without content of their own
  importing, \* [pc, log, todo]
  exporting, \* [pc, log, fileRows, todo]
  archive,   \* the exported directory: [exists, files, logged, log]
  attached, faults

hereVars == << setting, place, picked, attaching, onDisk, kept, outbox, spoilt >>
serverVars == << serverHas, serverLog, fileRows, contents, bare >>
transferVars == << importing, exporting, archive >>

attachmentVars == << setting, place, picked, attaching, onDisk, kept, outbox, fetch,
                     spoilt, serverHas, serverLog, fileRows, contents, bare, importing,
                     exporting, archive, attached, faults >>

-----------------------------------------------------------------------------
AnyPhoto == CHOOSE f \in Photos : TRUE

NotAttaching == [pc |-> "none", file |-> AnyPhoto]
NotFetching  == [pc |-> "idle", opening |-> FALSE, sent |-> << >>, found |-> {},
                 todo |-> {}, file |-> AnyPhoto]
NotImporting == [pc |-> "idle", log |-> {}, todo |-> {}]
NotExporting == [pc |-> "idle", log |-> {}, rows |-> {}, todo |-> {}]

ContentsOf(photos) == {f.content : f \in photos}

(* An execution of this workspace, linked or not, or of the server alone.   *)
AttachmentsInit ==
  /\ setting \in Settings
  /\ place = setting.place
  /\ picked \in [FileNames -> Contents]
  /\ attaching = NotAttaching
  /\ onDisk = [f \in Photos |-> "absent"]
  /\ kept = {}
  /\ outbox = << >>
  /\ fetch = NotFetching
  /\ spoilt = {}
  /\ serverHas = (place # "local")
  /\ serverLog = {}
  /\ fileRows = {}
  /\ contents = {}
  /\ bare = {}
  /\ importing = NotImporting
  /\ exporting = NotExporting
  /\ archive = [exists |-> FALSE, files |-> {}, logged |-> FALSE, log |-> {}]
  /\ attached = 0
  /\ faults = 0

Fault == faults < setting.maxFaults /\ faults' = faults + 1

-----------------------------------------------------------------------------
(* Attaching a picked file. *)

(* StagedFile::new: hashed before any lock is taken.                        *)
Pick(n) ==
  /\ attaching.pc = "none"
  /\ place # "none"
  /\ attached < setting.maxMade
  /\ [content |-> picked[n], name |-> n] \in setting.photos
  /\ attaching' = [pc |-> "staged", file |-> [content |-> picked[n], name |-> n]]
  /\ UNCHANGED << setting, place, picked, onDisk, kept, outbox, fetch, spoilt, serverVars,
                  transferVars, attached, faults >>

(* Another program saves the picked file.                                   *)
EditPicked(n, c) ==
  /\ picked[n] # c
  /\ picked' = [picked EXCEPT ![n] = c]
  /\ Fault
  /\ UNCHANGED << setting, place, attaching, onDisk, kept, outbox, fetch, spoilt, serverVars,
                  transferVars, attached >>

(* AttachmentStore::store: a file of that path is hashed, and anything else *)
(* than the content is taken for a hash-prefix collision.                   *)
StoreFile ==
  LET f == attaching.file IN
  /\ attaching.pc = "staged"
  /\ \/ /\ onDisk[f] = "whole"
        /\ attaching' = [attaching EXCEPT !.pc = "stored"]
        /\ UNCHANGED onDisk
     \/ /\ onDisk[f] = "part"
        /\ attaching' = NotAttaching
        /\ UNCHANGED onDisk
     \/ /\ onDisk[f] = "absent"
        /\ attaching' = [attaching EXCEPT !.pc = "copying"]
        /\ onDisk' = [onDisk EXCEPT ![f] = "part"]
  /\ UNCHANGED << setting, place, picked, kept, outbox, fetch, spoilt, serverVars, transferVars,
                  attached, faults >>

(* Faulty variant of CopyFile: the copy is not hashed.                      *)
CopyFileUnchecked ==
  LET f == attaching.file IN
  /\ attaching.pc = "copying"
  /\ onDisk' = [onDisk EXCEPT ![f] = IF picked[f.name] = f.content THEN "whole" ELSE "part"]
  /\ attaching' = [attaching EXCEPT !.pc = "stored"]
  /\ UNCHANGED << setting, place, picked, kept, outbox, fetch, spoilt, serverVars, transferVars,
                  attached, faults >>

(* write_pending_source: what was copied must still have the staged hash,   *)
(* or the action fails and leaves it where it is.                           *)
CopyFile ==
  LET f == attaching.file IN
  /\ attaching.pc = "copying"
  /\ IF picked[f.name] = f.content
       THEN /\ onDisk' = [onDisk EXCEPT ![f] = "whole"]
            /\ attaching' = [attaching EXCEPT !.pc = "stored"]
            /\ UNCHANGED spoilt
       ELSE /\ spoilt' = spoilt \cup {f}
            /\ attaching' = NotAttaching
            /\ UNCHANGED onDisk
  /\ UNCHANGED << setting, place, picked, kept, outbox, fetch, serverVars,
                  transferVars, attached, faults >>

(* record: the events go to the log, or to pending.jsonl of a linked one.   *)
AppendEvent ==
  LET f == attaching.file IN
  /\ attaching.pc = "stored"
  /\ attached < setting.maxMade
  /\ attaching' = NotAttaching
  /\ attached' = attached + 1
  /\ IF place = "linked"
       THEN outbox' = Append(outbox, f) /\ UNCHANGED kept
       ELSE kept' = kept \cup {f} /\ UNCHANGED outbox
  /\ UNCHANGED << setting, place, picked, onDisk, fetch, spoilt, serverVars, transferVars, faults >>

(* The write fails, or the app stops.                                       *)
StopAttaching ==
  /\ attaching.pc # "none"
  /\ Fault
  /\ attaching' = NotAttaching
  /\ spoilt' = IF attaching.pc = "copying" THEN spoilt \cup {attaching.file} ELSE spoilt
  /\ UNCHANGED << setting, place, picked, onDisk, kept, outbox, fetch, serverVars,
                  transferVars, attached >>

-----------------------------------------------------------------------------
(* Syncing, and opening an execution of the server. *)

StartSync ==
  /\ fetch.pc = "idle"
  /\ place = "linked"
  /\ fetch' = [NotFetching EXCEPT !.pc = "pushing", !.sent = outbox]
  /\ UNCHANGED << hereVars, serverVars, transferVars, attached, faults >>

(* sync_execution uploads each content once, under the name it has in the   *)
(* first of the events.                                                     *)
Uploaded ==
  {fetch.sent[k] : k \in {k \in DOMAIN fetch.sent :
     \A j \in 1..(k - 1) : fetch.sent[j].content # fetch.sent[k].content}}

(* decide_pushed, record_async: an event whose file is not among them is    *)
(* refused; one that does not apply is a conflict, and its file is stored.  *)
PushFiles(clashing) ==
  /\ fetch.pc = "pushing"
  /\ clashing \subseteq Uploaded
  /\ contents' = contents \cup ContentsOf(Uploaded)
  /\ fileRows' = fileRows \cup Uploaded
  /\ serverLog' = serverLog \cup (Uploaded \ clashing)
  /\ fetch' = [fetch EXCEPT !.pc = "pulling"]
  /\ UNCHANGED << hereVars, serverHas, bare, transferVars, attached, faults >>

PullFiles ==
  /\ fetch.pc = "pulling"
  /\ fetch' = [fetch EXCEPT !.pc = "checking", !.found = serverLog \ kept,
                            !.todo = serverLog \ kept]
  /\ UNCHANGED << hereVars, serverVars, transferVars, attached, faults >>

(* open_remote, import_remote: the log first, then the files.               *)
OpenRemote ==
  /\ place = "none"
  /\ place' = "linked"
  /\ kept' = serverLog
  /\ fetch' = [NotFetching EXCEPT !.pc = "checking", !.opening = TRUE, !.todo = serverLog]
  /\ UNCHANGED << setting, picked, attaching, onDisk, outbox, spoilt, serverVars, transferVars,
                  attached, faults >>

(* download_attachments: a file that can be read is not asked for.          *)
SkipPresent(f) ==
  /\ fetch.pc = "checking"
  /\ f \in fetch.todo
  /\ onDisk[f] # "absent"
  /\ fetch' = [fetch EXCEPT !.todo = @ \ {f}]
  /\ UNCHANGED << hereVars, serverVars, transferVars, attached, faults >>

(* PostgresStore::read_attachment answers from the row of the path.         *)
Download(f) ==
  /\ fetch.pc = "checking"
  /\ f \in fetch.todo
  /\ onDisk[f] = "absent"
  /\ f \in fileRows /\ f.content \in contents
  /\ fetch' = [fetch EXCEPT !.pc = "downloaded", !.file = f]
  /\ UNCHANGED << hereVars, serverVars, transferVars, attached, faults >>

(* store_attachment, without the lock: what came to be there while the      *)
(* server answered is left as it is.                                        *)
StoreDownloaded ==
  LET f == fetch.file IN
  /\ fetch.pc = "downloaded"
  /\ IF onDisk[f] = "absent"
       THEN /\ onDisk' = [onDisk EXCEPT ![f] = "part"]
            /\ fetch' = [fetch EXCEPT !.pc = "writing"]
       ELSE /\ fetch' = [fetch EXCEPT !.pc = "checking", !.todo = @ \ {f}]
            /\ UNCHANGED onDisk
  /\ UNCHANGED << setting, place, picked, attaching, kept, outbox, spoilt, serverVars, transferVars,
                  attached, faults >>

WriteDownloaded ==
  /\ fetch.pc = "writing"
  /\ onDisk' = [onDisk EXCEPT ![fetch.file] = "whole"]
  /\ fetch' = [fetch EXCEPT !.pc = "checking", !.todo = @ \ {fetch.file}]
  /\ UNCHANGED << setting, place, picked, attaching, kept, outbox, spoilt, serverVars, transferVars,
                  attached, faults >>

(* settle: the pulled lines, then the outbox as far as it was read.         *)
SettleFiles ==
  /\ fetch.pc = "checking"
  /\ fetch.todo = {}
  /\ kept' = kept \cup fetch.found
  /\ outbox' = SubSeq(outbox, Len(fetch.sent) + 1, Len(outbox))
  /\ fetch' = NotFetching
  /\ UNCHANGED << setting, place, picked, attaching, onDisk, spoilt, serverVars, transferVars,
                  attached, faults >>

(* What stopping leaves behind: the file being written, and of an opening   *)
(* everything not yet asked for, since later syncs fetch only new lines.    *)
Unfinished ==
  (IF fetch.pc = "writing" THEN {fetch.file} ELSE {}) \cup
  (IF fetch.opening THEN fetch.todo ELSE {})

GiveUp ==
  /\ spoilt' = spoilt \cup Unfinished
  /\ fetch' = NotFetching
  /\ UNCHANGED << setting, place, picked, attaching, onDisk, kept, outbox, serverVars,
                  transferVars, attached >>

StopFetching == fetch.pc # "idle" /\ Fault /\ GiveUp

(* "Attachment not found": nothing of the sync is settled.                  *)
NotFound(f) ==
  /\ fetch.pc = "checking"
  /\ f \in fetch.todo \ fileRows
  /\ onDisk[f] = "absent"
  /\ GiveUp
  /\ UNCHANGED faults

-----------------------------------------------------------------------------
(* What others record. *)

PushElsewhere(f) ==
  /\ f \in setting.photos
  /\ serverHas /\ attached < setting.maxMade
  /\ contents' = contents \cup {f.content}
  /\ fileRows' = fileRows \cup {f}
  /\ serverLog' = serverLog \cup {f}
  /\ attached' = attached + 1
  /\ UNCHANGED << hereVars, fetch, serverHas, bare, transferVars, faults >>

(* decide_pushed, has_content: no upload is needed for a content the        *)
(* execution has, under whatever path.                                      *)
PushWithoutContent(f) ==
  /\ f \in setting.photos
  /\ serverHas /\ attached < setting.maxMade
  /\ f.content \in ContentsOf(serverLog)
  /\ serverLog' = serverLog \cup {f}
  /\ bare' = bare \cup {f}
  /\ attached' = attached + 1
  /\ UNCHANGED << hereVars, fetch, serverHas, fileRows, contents, transferVars, faults >>

(* store_content succeeds and its transaction is not committed.             *)
PutAndRollBack(c) ==
  /\ serverHas
  /\ c \notin contents
  /\ contents' = contents \cup {c}
  /\ Fault
  /\ UNCHANGED << hereVars, fetch, serverHas, serverLog, fileRows, bare, transferVars, attached >>

-----------------------------------------------------------------------------
(* Moving a workspace to the server, and back to files. *)

(* import_execution reads the log; PostgresStore::import stores each file   *)
(* it can read whole, and commits the execution with all of them.           *)
StartImport ==
  /\ importing.pc = "idle"
  /\ setting.moves /\ place = "local" /\ ~ serverHas
  /\ importing' = [pc |-> "storing", log |-> kept, todo |-> kept]
  /\ UNCHANGED << hereVars, fetch, serverVars, exporting, archive, attached, faults >>

ImportFile(f) ==
  /\ importing.pc = "storing"
  /\ f \in importing.todo
  /\ IF onDisk[f] = "whole"
       THEN /\ contents' = contents \cup {f.content}
            /\ importing' = [importing EXCEPT !.todo = @ \ {f}]
       ELSE /\ importing' = NotImporting
            /\ UNCHANGED contents
  /\ UNCHANGED << hereVars, fetch, serverHas, serverLog, fileRows, bare, exporting, archive,
                  attached, faults >>

CommitImport ==
  /\ importing.pc = "storing"
  /\ importing.todo = {}
  /\ serverHas' = TRUE
  /\ serverLog' = importing.log
  /\ fileRows' = importing.log
  /\ importing' = NotImporting
  /\ UNCHANGED << hereVars, fetch, contents, bare, exporting, archive, attached, faults >>

StopImport ==
  /\ importing.pc # "idle"
  /\ Fault
  /\ importing' = NotImporting
  /\ UNCHANGED << hereVars, fetch, serverVars, exporting, archive, attached >>

(* PostgresStore::export: the records, then the rows, then their contents.  *)
ReadRecords ==
  /\ exporting.pc = "idle"
  /\ setting.moves /\ serverHas
  /\ exporting' = [NotExporting EXCEPT !.pc = "rows", !.log = serverLog]
  /\ UNCHANGED << hereVars, fetch, serverVars, importing, archive, attached, faults >>

ReadRows ==
  /\ exporting.pc = "rows"
  /\ exporting' = [exporting EXCEPT !.pc = "contents", !.rows = fileRows]
  /\ UNCHANGED << hereVars, fetch, serverVars, importing, archive, attached, faults >>

ReadContents ==
  /\ exporting.pc = "contents"
  /\ exporting' = IF ContentsOf(exporting.rows) \subseteq contents
                    THEN [exporting EXCEPT !.pc = "directory"] ELSE NotExporting
  /\ UNCHANGED << hereVars, fetch, serverVars, importing, archive, attached, faults >>

(* export_execution: a directory that exists is "already present".          *)
MakeDirectory ==
  /\ exporting.pc = "directory"
  /\ IF archive.exists
       THEN exporting' = NotExporting /\ UNCHANGED archive
       ELSE /\ exporting' = [exporting EXCEPT !.pc = "writing", !.todo = exporting.rows]
            /\ archive' = [archive EXCEPT !.exists = TRUE]
  /\ UNCHANGED << hereVars, fetch, serverVars, importing, attached, faults >>

(* write_execution: the files, then events.jsonl.                           *)
ExportFile(f) ==
  /\ exporting.pc = "writing"
  /\ f \in exporting.todo
  /\ archive' = [archive EXCEPT !.files = @ \cup {f}]
  /\ exporting' = [exporting EXCEPT !.todo = @ \ {f}]
  /\ UNCHANGED << hereVars, fetch, serverVars, importing, attached, faults >>

ExportLog ==
  /\ exporting.pc = "writing"
  /\ exporting.todo = {}
  /\ archive' = [archive EXCEPT !.logged = TRUE, !.log = exporting.log]
  /\ exporting' = NotExporting
  /\ UNCHANGED << hereVars, fetch, serverVars, importing, attached, faults >>

StopExport ==
  /\ exporting.pc # "idle"
  /\ Fault
  /\ exporting' = NotExporting
  /\ UNCHANGED << hereVars, fetch, serverVars, importing, archive, attached >>

-----------------------------------------------------------------------------
AttachStep ==
  \/ \E n \in FileNames : Pick(n) \/ \E c \in Contents : EditPicked(n, c)
  \/ StoreFile \/ CopyFile \/ AppendEvent \/ StopAttaching

FetchStep ==
  \/ StartSync \/ \E clashing \in SUBSET Uploaded : PushFiles(clashing)
  \/ PullFiles \/ OpenRemote
  \/ \E f \in Photos : SkipPresent(f) \/ Download(f) \/ NotFound(f)
  \/ StoreDownloaded \/ WriteDownloaded \/ SettleFiles \/ StopFetching

OthersStep ==
  \/ \E f \in Photos : PushElsewhere(f) \/ PushWithoutContent(f)
  \/ \E c \in Contents : PutAndRollBack(c)

TransferStep ==
  \/ StartImport \/ CommitImport \/ StopImport
  \/ ReadRecords \/ ReadRows \/ ReadContents \/ MakeDirectory \/ ExportLog \/ StopExport
  \/ \E f \in Photos : ImportFile(f) \/ ExportFile(f)

AttachmentsNext == AttachStep \/ FetchStep \/ OthersStep \/ TransferStep

AttachmentsSpec == AttachmentsInit /\ [][AttachmentsNext]_attachmentVars

-----------------------------------------------------------------------------
(***************************************************************************)
(* Properties.                                                              *)
(***************************************************************************)

AttachingSet == [pc : {"none", "staged", "copying", "stored"}, file : Photos]

FetchSet ==
  [pc : {"idle", "pushing", "pulling", "checking", "downloaded", "writing"}, opening : BOOLEAN,
   sent : Seq(Photos), found : SUBSET Photos, todo : SUBSET Photos, file : Photos]

ImportSet == [pc : {"idle", "storing"}, log : SUBSET Photos, todo : SUBSET Photos]

ExportSet ==
  [pc : {"idle", "rows", "contents", "directory", "writing"},
   log : SUBSET Photos, rows : SUBSET Photos, todo : SUBSET Photos]

ArchiveSet ==
  [exists : BOOLEAN, files : SUBSET Photos, logged : BOOLEAN, log : SUBSET Photos]

AttachmentsTypeOK ==
  /\ setting \in Settings
  /\ place \in {"none", "local", "linked"}
  /\ picked \in [FileNames -> Contents]
  /\ attaching \in AttachingSet
  /\ onDisk \in [Photos -> {"absent", "part", "whole"}]
  /\ kept \subseteq Photos /\ spoilt \subseteq Photos
  /\ outbox \in Seq(Photos)
  /\ fetch \in FetchSet
  /\ serverHas \in BOOLEAN
  /\ serverLog \subseteq Photos /\ fileRows \subseteq Photos /\ bare \subseteq Photos
  /\ contents \subseteq Contents
  /\ importing \in ImportSet /\ exporting \in ExportSet /\ archive \in ArchiveSet
  /\ attached \in Nat /\ faults \in Nat

Whole(f)     == onDisk[f] = "whole"
BeingStored(f) ==
  \/ attaching.pc = "copying" /\ f = attaching.file
  \/ fetch.opening /\ f \in fetch.todo

(* Every log that names a file has its content: what was recorded here is   *)
(* whole on disk; what was pulled is too, or its storing was stopped (known *)
(* to nobody: a file cut short is taken for the content, and what an        *)
(* interrupted opening did not fetch is not asked for again) or goes on;    *)
(* the server has a row and an object for it, unless it took the event      *)
(* without an upload; and an exported log comes with its files.             *)
LoggedHasContent ==
  /\ \A f \in kept : Whole(f) \/ (place = "linked" /\ (f \in spoilt \/ BeingStored(f)))
  /\ \A f \in ToSet(outbox) : Whole(f)
  /\ serverLog \ bare \subseteq fileRows
  /\ ContentsOf(fileRows) \subseteq contents
  /\ archive.logged => archive.log \ bare \subseteq archive.files
=============================================================================
