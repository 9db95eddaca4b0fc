------------------------------ MODULE Browser ------------------------------
(***************************************************************************)
(* Recording in a browser: what each tab keeps on the device and how it     *)
(* reaches the server (src/lib/offline/localExecutions.ts and the handlers  *)
(* of procnote-server it calls).                                            *)
(*                                                                          *)
(* The tabs of a browser share one IndexedDB: a copy of each execution and  *)
(* the content of attached files, by hash.  Within a tab the operations on  *)
(* one execution are queued (#exclusive), between tabs nothing orders them, *)
(* and every await is a step.  A request that reached the server is carried *)
(* out whether or not its tab still waits.                                  *)
(*                                                                          *)
(* An execution's log is modelled from its first line after the starting    *)
(* ones.  An event is its number (its event_id), the content it attaches,   *)
(* under which name, and whether it finishes the execution: after that no   *)
(* other event applies.                                                     *)
(***************************************************************************)
EXTENDS Naturals, Sequences, FiniteSets, SequencesExt

CONSTANTS
  Tabs, Executions, Files, Names,
  None,           \* no file, no copy, no draft, no backup
  Drafts,         \* what people record: [file, name, closes]
  Scopes          \* what is considered together, with its bounds

ASSUME DraftsAssumption ==
  Drafts \subseteq [file : Files \cup {None}, name : Names, closes : BOOLEAN]
ASSUME NoneAssumption == None \notin Files \cup Drafts \cup Tabs

(* Which tabs work on which executions (pairs); how many events are         *)
(* recorded at most, how many connections are lost, tabs closed and         *)
(* requests failed, and how often the storage is lost.                      *)
ASSUME ScopesAssumption ==
  Scopes \subseteq [actors : SUBSET (Tabs \X Executions), drafts : SUBSET Drafts,
                   maxEvents : Nat, maxDrops : Nat, maxWipes : Nat]

VARIABLES
  scope,       \* one of Scopes
  logs,        \* the server's log of each execution, None before it has one
  conflicts,   \* what it keeps as conflicts
  objects,     \* the contents in its object store
  copies,      \* the device's copy of each execution, or None
  files,       \* the contents kept on the device
  backup,      \* a backup file: copies and contents, or None
  draft,       \* per actor: an action whose files are kept, not yet recorded
  op,          \* per actor: the operation at the head of its queue
  pushes,      \* pushes the server works on
  count,       \* events recorded so far, here and elsewhere
  recorded,    \* history: events whose recording was reported
  lost,        \* history: events saved over by another tab, or wiped unsaved
  drops, wipes

browserVars == << scope, logs, conflicts, objects, copies, files, backup,
                  draft, op, pushes, count, recorded, lost, drops, wipes >>

-----------------------------------------------------------------------------
(* Events, copies and logs. *)

actors == scope.actors

Event == [id : Nat, file : Files \cup {None}, name : Names, closes : BOOLEAN]

Pcs      == {"idle", "decide", "save", "forget", "fetch", "register", "reread", "upload",
             "push", "answer", "pull"}
Uploads  == [file : Files, name : Names]

(* A copy on the device, an operation on it, what is kept of all copies in  *)
(* a backup, and a push the server works on.                                *)
Copy      == [records : Seq(Event), pending : Seq(Event), rejected : SUBSET Event,
              unregistered : BOOLEAN]
Operation == [pc : Pcs, loc : Copy \cup {None}, known : SUBSET Event, uploads : SUBSET Uploads,
              del : SUBSET Files,
              then : {"idle", "sync", "decide", "pull", "recorded", "restored"}]
Saved     == [copies : [Executions -> Copy \cup {None}], files : SUBSET Files]
Pushed    == [by : (Tabs \X Executions) \cup ({None} \X Nat), exec : Executions,
              events : Seq(Event), uploads : SUBSET Uploads, done : Nat, keep : BOOLEAN,
              refused : SUBSET Event]

ASSUME NoCopyAssumption == None \notin Seq(Event) \cup Copy \cup Saved

EventOf(d) == [id |-> count + 1, file |-> d.file, name |-> d.name, closes |-> d.closes]

FilesOf(events) == {e.file : e \in events} \ {None}

(* Whether the next event applies after these. *)
Open(log) == \A e \in ToSet(log) : ~ e.closes

Fresh(log) == [records |-> log, pending |-> << >>, rejected |-> {}, unregistered |-> FALSE]

Undelivered(copy) == copy # None /\ (copy.pending # << >> \/ copy.unregistered)

(* What a copy holds that may be nowhere else. *)
Waiting(copy) == IF copy = None THEN {} ELSE ToSet(copy.pending) \cup copy.rejected

Idle == [pc |-> "idle", loc |-> None, known |-> {}, uploads |-> {}, del |-> {}, then |-> "idle"]

Exec(a) == a[2]

(* Operation a goes on as o; the variables of other operations stay.        *)
Goes(a, o) == op' = [op EXCEPT ![a] = o]

At(a, pc) == a \in actors /\ op[a].pc = pc

(* Faulty variant of Stage: the pending events of an execution that was     *)
(* started here are taken to be registered with it.                         *)
StageWithoutPush(copy) ==
  IF copy.unregistered THEN "register" ELSE "pull"

(* What #syncLocked does next with a copy.                                  *)
Stage(copy) ==
  IF copy.unregistered THEN "register"
  ELSE IF copy.pending # << >> THEN "upload" ELSE "pull"

Loaded(a, pc) ==
  [Idle EXCEPT !.pc = pc, !.loc = copies[Exec(a)], !.known = Waiting(copies[Exec(a)])]

(* #save(loc), then on to pc.                                               *)
Saving(o, copy, pc) == [o EXCEPT !.pc = "save", !.loc = copy, !.then = pc]

-----------------------------------------------------------------------------
BrowserInit ==
  /\ scope \in Scopes
  /\ logs = [x \in Executions |-> None]
  /\ conflicts = [x \in Executions |-> {}]
  /\ objects = {}
  /\ copies = [x \in Executions |-> None]
  /\ files = {}
  /\ backup = None
  /\ draft = [a \in actors |-> None]
  /\ op = [a \in actors |-> Idle]
  /\ pushes = {}
  /\ count = 0
  /\ recorded = {}
  /\ lost = {}
  /\ drops = 0
  /\ wipes = 0

history == << recorded, lost, drops, wipes >>
device  == << copies, files, backup >>
remote  == << logs, conflicts, objects >>

-----------------------------------------------------------------------------
(* Executions appear: started on the server, or on this device. *)

New(x) ==
  /\ logs[x] = None /\ copies[x] = None
  /\ wipes = 0

(* Someone starts x on the server.                                         *)
StartElsewhere(x) ==
  /\ New(x)
  /\ logs' = [logs EXCEPT ![x] = << >>]
  /\ UNCHANGED << scope, conflicts, objects, device, draft, op, pushes, count, history >>

(* Someone records in x on the server.                                      *)
RecordElsewhere(x, d) ==
  /\ count < scope.maxEvents
  /\ logs[x] # None /\ d.file = None
  /\ Open(logs[x])
  /\ logs' = [logs EXCEPT ![x] = Append(@, EventOf(d))]
  /\ count' = count + 1
  /\ UNCHANGED << scope, conflicts, objects, device, draft, op, pushes, history >>

(* #startHere: the starting events are the copy's records.                  *)
StartHere(a) ==
  LET x == Exec(a) IN
  /\ a \in actors /\ New(x)
  /\ copies' = [copies EXCEPT ![x] = [Fresh(<< >>) EXCEPT !.unregistered = TRUE]]
  /\ UNCHANGED << scope, remote, files, backup, draft, op, pushes, count, history >>

-----------------------------------------------------------------------------
(* Recording. *)

(* keepFiles: the chosen file is kept on the device before the action is    *)
(* recorded, and outside the queue.                                         *)
KeepFiles(a, d) ==
  /\ a \in actors /\ draft[a] = None
  /\ count < scope.maxEvents
  /\ draft' = [draft EXCEPT ![a] = EventOf(d)]
  /\ count' = count + 1
  /\ files' = files \cup ({d.file} \ {None})
  /\ UNCHANGED << scope, remote, copies, backup, op, pushes, history >>

(* recordAction and getExecutionState begin by loading the copy; without    *)
(* one they fetch it.                                                       *)
Record(a) ==
  /\ At(a, "idle")
  /\ draft[a] # None
  /\ copies[Exec(a)] # None \/ logs[Exec(a)] # None
  /\ Goes(a, Loaded(a, IF copies[Exec(a)] = None THEN "fetch" ELSE "decide"))
  /\ UNCHANGED << scope, remote, device, draft, pushes, count, history >>

(* #fetch *)
Fetch(a) ==
  /\ At(a, "fetch")
  /\ Goes(a, Saving(op[a], Fresh(logs[Exec(a)]), "decide"))
  /\ UNCHANGED << scope, remote, device, draft, pushes, count, history >>

(* The core decides on the loaded copy.                                     *)
Decide(a) ==
  LET copy == op[a].loc IN
  /\ At(a, "decide")
  /\ draft' = [draft EXCEPT ![a] = None]
  /\ Goes(a, IF draft[a] # None /\ Open(copy.records \o copy.pending)
               THEN Saving(op[a], [copy EXCEPT !.pending = Append(@, draft[a])], "recorded")
               ELSE Idle)
  /\ UNCHANGED << scope, remote, device, pushes, count, history >>

(* What the copy on the device holds and this operation never loaded is     *)
(* overwritten.  A restored copy is no longer taken from the backup.        *)
Save(a) ==
  LET o == op[a]
      x == Exec(a)
  IN
  /\ At(a, "save")
  /\ copies' = [copies EXCEPT ![x] = o.loc]
  /\ lost' = lost \cup (Waiting(copies[x]) \ (o.known \cup Waiting(o.loc)))
  /\ recorded' = recorded \cup (IF o.then = "recorded" THEN {Last(o.loc.pending)} ELSE {})
  /\ backup' = IF o.then = "restored" THEN [backup EXCEPT !.copies[x] = None] ELSE backup
  /\ Goes(a, CASE o.then = "sync" -> [o EXCEPT !.pc = Stage(o.loc)]
               [] o.then \in {"decide", "pull"} -> [o EXCEPT !.pc = o.then]
               [] OTHER -> Idle)
  /\ UNCHANGED << scope, remote, files, draft, pushes, count, drops, wipes >>

-----------------------------------------------------------------------------
(* Syncing: #syncLocked. *)

(* A tab syncs an execution it holds when it opens it, after recording,     *)
(* when the server announces something, and every half minute while         *)
(* something waits.                                                         *)
Sync(a) ==
  /\ At(a, "idle")
  /\ copies[Exec(a)] # None
  /\ Goes(a, Loaded(a, Stage(copies[Exec(a)])))
  /\ UNCHANGED << scope, remote, device, draft, pushes, count, history >>

(* getExecutionState without a copy.                                        *)
OpenExecution(a) ==
  /\ At(a, "idle")
  /\ copies[Exec(a)] = None /\ logs[Exec(a)] # None
  /\ Goes(a, [Idle EXCEPT !.pc = "fetch"])
  /\ UNCHANGED << scope, remote, device, draft, pushes, count, history >>

(* create_started_execution: registering again is a retry.                  *)
Register(a) ==
  LET x == Exec(a) IN
  /\ At(a, "register")
  /\ logs' = [logs EXCEPT ![x] = IF @ = None THEN << >> ELSE @]
  /\ Goes(a, [op[a] EXCEPT !.pc = "reread"])
  /\ UNCHANGED << scope, conflicts, objects, device, draft, pushes, count, history >>

(* The server's log replaces the starting events.                           *)
Reread(a) ==
  /\ At(a, "reread")
  /\ Goes(a, Saving(op[a], [op[a].loc EXCEPT !.records = logs[Exec(a)],
                                             !.unregistered = FALSE], "sync"))
  /\ UNCHANGED << scope, remote, device, draft, pushes, count, history >>

(* Faulty variant of Upload: only the first event's file is sent.           *)
UploadFirst(a) ==
  LET pending == op[a].loc.pending IN
  /\ At(a, "upload")
  /\ Goes(a, [op[a] EXCEPT
        !.pc = "push",
        !.uploads = {[file |-> f, name |-> pending[1].name] : f \in files \cap {pending[1].file}}])
  /\ UNCHANGED << scope, remote, device, draft, pushes, count, history >>

(* Where the first event that attaches f is.                                *)
First(events, f) ==
  CHOOSE i \in DOMAIN events :
    events[i].file = f /\ \A j \in 1..(i - 1) : events[j].file # f

(* #uploadKeptFiles: once per content, under the name of the first event    *)
(* that attaches it, if it is still kept.                                   *)
Upload(a) ==
  LET pending == op[a].loc.pending IN
  /\ At(a, "upload")
  /\ Goes(a, [op[a] EXCEPT
        !.pc = "push",
        !.uploads = {[file |-> f, name |-> pending[First(pending, f)].name] :
                       f \in files \cap FilesOf(ToSet(pending))}])
  /\ UNCHANGED << scope, remote, device, draft, pushes, count, history >>

(* Faulty variant of Push: kept files are deleted once they are sent.       *)
PushForgetting(a) ==
  /\ At(a, "push")
  /\ Goes(a, [op[a] EXCEPT !.pc = "answer"])
  /\ pushes' = pushes \cup {[by |-> a, exec |-> Exec(a), events |-> op[a].loc.pending,
                             uploads |-> op[a].uploads, done |-> 0, keep |-> FALSE,
                             refused |-> {}]}
  /\ files' = files \ {u.file : u \in op[a].uploads}
  /\ UNCHANGED << scope, remote, copies, backup, draft, count, history >>

(* pushEvents reaches the server.                                           *)
Push(a) ==
  /\ At(a, "push")
  /\ Goes(a, [op[a] EXCEPT !.pc = "answer"])
  /\ pushes' = pushes \cup {[by |-> a, exec |-> Exec(a), events |-> op[a].loc.pending,
                             uploads |-> op[a].uploads, done |-> 0, keep |-> FALSE,
                             refused |-> {}]}
  /\ UNCHANGED << scope, remote, device, draft, count, history >>

(* Push r goes on as s; an event is done with.                              *)
Becomes(r, s) == pushes' = (pushes \ {r}) \cup {s}
Handled(r)    == [r EXCEPT !.done = @ + 1, !.keep = FALSE]

(* decide_pushed refuses an event whose content was uploaded under another  *)
(* name, or neither uploaded nor already in the execution.                  *)
Refused(r, e) ==
  /\ e.file # None
  /\ LET uploaded == {u \in r.uploads : u.file = e.file} IN
       \/ \E u \in uploaded : u.name # e.name
       \/ uploaded = {} /\ e.file \notin FilesOf(ToSet(logs[r.exec]))

(* push_event, up to the end of its transaction: what was already recorded  *)
(* or kept as a conflict is left, what applies is recorded; the content is  *)
(* stored in either case.                                                   *)
PushEvent(r) ==
  LET e == r.events[r.done + 1]
      x == r.exec
  IN
  /\ r.done < Len(r.events) /\ ~ r.keep
  /\ \/ /\ e \in conflicts[x] \cup ToSet(logs[x])
        /\ Becomes(r, Handled(r))
        /\ UNCHANGED << logs, objects >>
     \/ /\ e \notin conflicts[x] \cup ToSet(logs[x])
        /\ Refused(r, e)
        /\ Becomes(r, [Handled(r) EXCEPT !.refused = @ \cup {e}])
        /\ UNCHANGED << logs, objects >>
     \/ /\ e \notin conflicts[x] \cup ToSet(logs[x])
        /\ ~ Refused(r, e)
        /\ objects' = objects \cup ({e.file} \ {None})
        /\ IF Open(logs[x])
             THEN logs' = [logs EXCEPT ![x] = Append(@, e)] /\ Becomes(r, Handled(r))
             ELSE UNCHANGED logs /\ Becomes(r, [r EXCEPT !.keep = TRUE])
  /\ UNCHANGED << scope, conflicts, device, draft, op, count, history >>

(* add_conflict, after that transaction.                                    *)
KeepConflict(r) ==
  /\ r.keep
  /\ conflicts' = [conflicts EXCEPT ![r.exec] = @ \cup {r.events[r.done + 1]}]
  /\ Becomes(r, Handled(r))
  /\ UNCHANGED << scope, logs, objects, device, draft, op, count, history >>

(* Faulty variant of Answer: refused events are not kept.                   *)
AnswerDroppingRefused(a, r) ==
  LET copy == op[a].loc IN
  /\ At(a, "answer") /\ r.by = a /\ r.done = Len(r.events)
  /\ pushes' = pushes \ {r}
  /\ Goes(a, [op[a] EXCEPT
        !.pc = "forget",
        !.del = FilesOf(ToSet(copy.pending) \ r.refused),
        !.loc = [copy EXCEPT !.pending = << >>]])
  /\ UNCHANGED << scope, remote, device, draft, count, history >>

(* The answer: what was refused is kept as such, the content of the rest is *)
(* on the server.                                                           *)
Answer(a, r) ==
  LET copy == op[a].loc IN
  /\ At(a, "answer") /\ r.by = a /\ r.done = Len(r.events)
  /\ pushes' = pushes \ {r}
  /\ Goes(a, [op[a] EXCEPT
        !.pc = "forget",
        !.del = FilesOf(ToSet(copy.pending) \ r.refused),
        !.loc = [copy EXCEPT !.pending = << >>, !.rejected = @ \cup r.refused]])
  /\ UNCHANGED << scope, remote, device, draft, count, history >>

(* Kept files are deleted one at a time, then the copy is saved.            *)
Forget(a) ==
  /\ At(a, "forget")
  /\ IF op[a].del = {}
       THEN Goes(a, Saving(op[a], op[a].loc, "pull")) /\ UNCHANGED files
       ELSE \E f \in op[a].del :
              files' = files \ {f} /\ Goes(a, [op[a] EXCEPT !.del = @ \ {f}])
  /\ UNCHANGED << scope, remote, copies, backup, draft, pushes, count, history >>

(* pull_events: the lines after those held; all of them should the log be   *)
(* shorter than what is held.                                               *)
Pull(a) ==
  LET copy == op[a].loc
      log  == logs[Exec(a)]
      new  == IF Len(log) >= Len(copy.records)
                THEN copy.records \o SubSeq(log, Len(copy.records) + 1, Len(log))
                ELSE log
  IN
  /\ At(a, "pull")
  /\ Goes(a, IF Len(log) # Len(copy.records)
               THEN Saving(op[a], [copy EXCEPT !.records = new], "idle")
               ELSE Idle)
  /\ UNCHANGED << scope, remote, device, draft, pushes, count, history >>

-----------------------------------------------------------------------------
(* Failures. *)

Requesting == {"fetch", "register", "reread", "upload", "push", "answer", "pull"}

(* The pushes of these actors, whose answers nobody waits for any more.     *)
Abandoned(by) == {IF r.by \in by THEN [r EXCEPT !.by = << None, drops + 1 >>] ELSE r : r \in pushes}

(* A request fails: lost on its way, or its answer is; the operation ends.  *)
(* What was to be recorded on a copy that couldn't be fetched isn't.        *)
Drop(a) ==
  /\ drops < scope.maxDrops
  /\ a \in actors /\ op[a].pc \in Requesting
  /\ drops' = drops + 1
  /\ Goes(a, Idle)
  /\ draft' = [draft EXCEPT ![a] = IF op[a].pc = "fetch" THEN None ELSE @]
  /\ pushes' = Abandoned({a})
  /\ UNCHANGED << scope, remote, device, count, recorded, lost, wipes >>

(* A tab is closed, whatever it was doing.                                  *)
CloseTab(t) ==
  LET mine == {a \in actors : a[1] = t} IN
  /\ drops < scope.maxDrops
  /\ \E a \in mine : op[a].pc # "idle"
  /\ drops' = drops + 1
  /\ op' = [a \in actors |-> IF a \in mine THEN Idle ELSE op[a]]
  /\ draft' = [a \in actors |-> IF a \in mine THEN None ELSE draft[a]]
  /\ pushes' = Abandoned(mine)
  /\ UNCHANGED << scope, remote, device, count, recorded, lost, wipes >>

(* Handling a push fails between two of its steps; what it did stays.       *)
FailPush(r) ==
  /\ drops < scope.maxDrops
  /\ drops' = drops + 1
  /\ pushes' = pushes \ {r}
  /\ op' = IF r.by \in actors THEN [op EXCEPT ![r.by] = Idle] ELSE op
  /\ UNCHANGED << scope, remote, device, draft, count, recorded, lost, wipes >>

-----------------------------------------------------------------------------
(* Backups. *)

OnDevice == UNION {Waiting(copies[x]) : x \in Executions}

(* backup: the copies with something waiting or refused, and the contents   *)
(* their events attach as far as they are kept.                             *)
Backup ==
  /\ wipes < scope.maxWipes
  /\ backup = None
  /\ \E x \in Executions : Waiting(copies[x]) # {}
  /\ backup' = [copies |-> [x \in Executions |->
                             IF Waiting(copies[x]) = {} THEN None ELSE copies[x]],
                files  |-> files \cap FilesOf(OnDevice)]
  /\ UNCHANGED << scope, remote, copies, files, draft, op, pushes, count, history >>

BackedUp == IF backup = None THEN {} ELSE UNION {Waiting(backup.copies[x]) : x \in Executions}

(* The browser's storage is lost while no tab is at work.                   *)
Wipe ==
  /\ wipes < scope.maxWipes
  /\ \A a \in actors : op[a].pc = "idle" /\ draft[a] = None
  /\ wipes' = wipes + 1
  /\ copies' = [x \in Executions |-> None]
  /\ files' = {}
  /\ lost' = lost \cup (OnDevice \ BackedUp)
  /\ UNCHANGED << scope, remote, backup, draft, op, pushes, count, recorded, drops >>

(* The elements of s that are not known, in their order.                    *)
Unknown(s, known) ==
  LET left     == {i \in DOMAIN s : s[i] \notin known}
      place(i) == Cardinality({j \in left : j <= i})
  IN  [k \in 1..Cardinality(left) |-> s[CHOOSE i \in left : place(i) = k]]

(* mergeBackup: what is in neither the records nor the pending events of    *)
(* the kept copy is pending again.                                          *)
MergeBackup(kept, saved) ==
  IF kept = None THEN saved
  ELSE LET known == ToSet(kept.records \o kept.pending) IN
       [kept EXCEPT !.pending  = @ \o Unknown(saved.pending, known),
                    !.rejected = @ \cup saved.rejected]

(* restore: the contents first, then each copy, in its queue.               *)
Restore(a) ==
  LET x == Exec(a) IN
  /\ At(a, "idle")
  /\ backup # None
  /\ backup.copies[x] # None
  /\ files' = files \cup backup.files
  /\ Goes(a, Saving(Loaded(a, "save"), MergeBackup(copies[x], backup.copies[x]), "restored"))
  /\ UNCHANGED << scope, remote, copies, backup, draft, pushes, count, history >>

-----------------------------------------------------------------------------
SyncStep(a) ==
  \/ Sync(a) \/ Register(a) \/ Reread(a) \/ Upload(a) \/ Push(a)
  \/ \E r \in pushes : Answer(a, r)
  \/ Forget(a) \/ Pull(a) \/ Save(a)

ActorStep(a) ==
  \/ SyncStep(a)
  \/ StartHere(a) \/ OpenExecution(a)
  \/ \E d \in scope.drafts : KeepFiles(a, d)
  \/ Record(a) \/ Fetch(a) \/ Decide(a)
  \/ Drop(a) \/ Restore(a)

ServerStep == \E r \in pushes : PushEvent(r) \/ KeepConflict(r)

BrowserNext ==
  \/ \E a \in actors : ActorStep(a)
  \/ ServerStep
  \/ \E x \in Executions : StartElsewhere(x) \/ \E d \in scope.drafts : RecordElsewhere(x, d)
  \/ \E t \in Tabs : CloseTab(t)
  \/ \E r \in pushes : FailPush(r)
  \/ Backup \/ Wipe

BrowserSpec == BrowserInit /\ [][BrowserNext]_browserVars

(* A tab finishes what it began and, as long as something waits, syncs:     *)
(* startSyncing has it try every half minute.  The server carries out what  *)
(* reaches it.                                                              *)
BrowserFairness ==
  /\ \A a \in UNION {s.actors : s \in Scopes} :
       /\ WF_browserVars(/\ a \in actors /\ op[a].pc = "idle"
                         /\ Undelivered(copies[Exec(a)])
                         /\ Sync(a))
       /\ WF_browserVars(/\ a \in actors /\ op[a].pc # "idle"
                         /\ SyncStep(a) \/ Fetch(a) \/ Decide(a))
  /\ WF_browserVars(ServerStep)

-----------------------------------------------------------------------------
(* Correctness. *)

(* Type invariant of the browser's part: in particular an operation past    *)
(* its first await has a copy, and a push has handled what it was sent.     *)
BrowserTypeOK ==
  /\ scope \in Scopes
  /\ logs \in [Executions -> Seq(Event) \cup {None}]
  /\ conflicts \in [Executions -> SUBSET Event]
  /\ objects \subseteq Files /\ files \subseteq Files
  /\ copies \in [Executions -> Copy \cup {None}]
  /\ backup \in Saved \cup {None}
  /\ draft \in [actors -> Event \cup {None}]
  /\ op \in [actors -> Operation]
  /\ \A a \in actors :
       /\ op[a].pc = "idle" => op[a] = Idle
       /\ op[a].pc \notin {"idle", "fetch"} => op[a].loc # None
  /\ pushes \subseteq Pushed
  /\ \A r \in pushes : r.done \in 0..Len(r.events) /\ r.refused \subseteq ToSet(r.events)
  /\ count \in Nat /\ drops \in Nat /\ wipes \in Nat
  /\ recorded \subseteq Event /\ lost \subseteq Event

OnServer ==
  UNION {conflicts[x] \cup (IF logs[x] = None THEN {} ELSE ToSet(logs[x])) : x \in Executions}

(* An action that was reported as recorded is in the execution's log, kept  *)
(* as a conflict, or still on the device (waiting, refused, or in its       *)
(* backup), whatever requests, answers and tabs are lost in between.  There *)
(* are two exceptions, the only ones: another tab on the same execution     *)
(* saved a copy it had loaded before, or the storage itself was lost.       *)
RecordedIsSomewhere ==
  /\ recorded \subseteq OnServer \cup OnDevice \cup BackedUp \cup lost
  /\ (\A a, b \in actors : Exec(a) = Exec(b) => a = b) /\ wipes = 0 => lost = {}

(* The content of what was recorded is on the device until the server has   *)
(* it, although every execution on the device shares one kept file and any  *)
(* of them deletes it.                                                      *)
ContentKept ==
  \A e \in recorded \ lost :
    \/ e.file \in {None} \cup files \cup objects
    \/ e \in BackedUp /\ e.file \in backup.files

(* The server refuses an event only for content it already has: nothing has *)
(* to be sent again, the event only has to be recorded there.               *)
RefusedIsOnServer ==
  \A x \in Executions : copies[x] # None => FilesOf(copies[x].rejected) \subseteq objects

(* A copy holds a beginning of its execution's log, and nothing of one that *)
(* the server doesn't have.                                                 *)
Follows(copy, log) ==
  copy # None =>
    IF copy.unregistered THEN copy.records = << >>
    ELSE log # None /\ IsPrefix(copy.records, log)

(* pull_events is asked for the lines after those held, by their number, and *)
(* what comes is put behind them: that is right only as long as they are    *)
(* how the server's log begins, whatever was registered twice, saved over,  *)
(* restored or abandoned before.                                            *)
CopyIsBeginning == \A x \in Executions : Follows(copies[x], logs[x])

(* An event is in the log once, however often it is pushed: again after an  *)
(* answer was lost, from a backup, or by two tabs at a time.                *)
NothingRecordedTwice == \A x \in Executions : logs[x] # None => IsInjective(logs[x])

(* When nothing more is recorded or fails, everything recorded on the       *)
(* device reaches the server, and stays settled.                            *)
EverythingArrives == <>[](\A x \in Executions : ~ Undelivered(copies[x]))
=============================================================================
