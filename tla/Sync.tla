--------------------------------- MODULE Sync ---------------------------------
(***************************************************************************)
(* One execution kept by a server and by copies on devices that record      *)
(* while offline: the desktop's store of a linked execution (events.jsonl,  *)
(* pending.jsonl, rejected.jsonl, sync.json), the sync a device runs against *)
(* the server, and the server's handlers, several of which may be at work   *)
(* for the same device when it stopped waiting for one.                     *)
(*                                                                          *)
(* An event is an id (its event_id) and what it does to the execution.  The *)
(* lines that start the execution are the same in every log and left out:   *)
(* logs begin after them, in the state Started.                             *)
(***************************************************************************)
EXTENDS Engine

CONSTANTS
  EventIds,    \* event ids
  What,        \* What[e]: the engine event with id e
  WithFiles,   \* the events that attach files, which the server may refuse
  Started,     \* the state of the execution after its starting lines
  Devices,
  Web,         \* a client that records on the server directly
  MaxCrashes,  \* bound: crashes of a device in the middle of a write
  MaxDrops     \* bound: requests or answers that are lost or given up

ASSUME WithFilesAssumption == WithFiles \subseteq EventIds
ASSUME WebAssumption       == Web \notin Devices /\ None \notin Devices \cup {Web}
ASSUME BoundsAssumption    == MaxCrashes \in Nat /\ MaxDrops \in Nat

VARIABLES
  server,   \* the server: does it have the execution, its log, its conflicts
  dev,      \* each device's files
  run,      \* the sync each device is in
  pushes,   \* push requests the server has not finished
  author,   \* history: who recorded each event (None: nobody)
  crashes, drops

vars == << server, dev, run, pushes, author, crashes, drops >>

-----------------------------------------------------------------------------
(* State. *)

(* pulled_after, pending_upto, registered, rejected and pulled are what one *)
(* sync carries from its outbox to its settlement.                          *)
Idle == [pc |-> "idle", after |-> 0, from |-> 0, upto |-> 0,
         registered |-> FALSE, refused |-> {}, pulled |-> << >>]

NoCopy == [kind |-> "none", registered |-> FALSE, log |-> << >>,
           pending |-> << >>, handled |-> 0, rejected |-> {}]

In(e, ids) == \E k \in DOMAIN ids : ids[k] = e

(* The states a log leads to: none if it does not replay.                   *)
After(ids)      == ReplayFrom(Started, [k \in DOMAIN ids |-> What[ids[k]]])
Applies(e, ids) == After(Append(ids, e)) # {}

Linked(d)  == dev[d].kind = "linked"
Waiting(d) == SubSeq(dev[d].pending, dev[d].handled + 1, Len(dev[d].pending))

(* read_state: the log plus the pending lines not dealt with.               *)
Shown(d)    == dev[d].log \o Waiting(d)
Readable(d) == After(Shown(d)) # {}

(* Nothing else may touch the files of a device that is writing them: the   *)
(* event log's exclusive lock.                                              *)
Settling == {"settle log", "settle rejected", "settle state"}
Locked(d) == run[d].pc \in Settling

Init ==
  /\ server = [exists |-> FALSE, log |-> << >>, kept |-> {}]
  /\ dev = [d \in Devices |-> NoCopy]
  /\ run = [d \in Devices |-> Idle]
  /\ pushes = {}
  /\ author = [e \in EventIds |-> None]
  /\ crashes = 0
  /\ drops = 0

-----------------------------------------------------------------------------
(* Starting, opening and recording. *)

(* start_execution: the directory is created, then linked.  The device may  *)
(* stop in between; nothing links the execution later.                      *)
Start(d) ==
  /\ \A other \in Devices : dev[other].kind = "none"
  /\ ~ server.exists
  /\ dev' = [dev EXCEPT ![d].kind = "starting"]
  /\ UNCHANGED << server, run, pushes, author, crashes, drops >>

Link(d) ==
  /\ dev[d].kind = "starting"
  /\ dev' = [dev EXCEPT ![d].kind = "linked"]
  /\ UNCHANGED << server, run, pushes, author, crashes, drops >>

CrashBeforeLink(d) ==
  /\ dev[d].kind = "starting"
  /\ crashes < MaxCrashes
  /\ crashes' = crashes + 1
  /\ dev' = [dev EXCEPT ![d].kind = "local"]
  /\ UNCHANGED << server, run, pushes, author, drops >>

(* open_remote: a linked copy with the server's log as it was when it was   *)
(* read, which may be behind by now.                                        *)
OpenRemote(d) ==
  /\ dev[d].kind = "none"
  /\ server.exists
  /\ \E n \in 0..Len(server.log) :
       dev' = [dev EXCEPT ![d].kind = "linked", ![d].registered = TRUE,
                          ![d].log = SubSeq(server.log, 1, n)]
  /\ UNCHANGED << server, run, pushes, author, crashes, drops >>

(* ExecutionStore::record.  The event must apply to what the copy shows; it *)
(* waits in pending.jsonl when the execution is linked.  Recording an event *)
(* again (a retry by event id) changes nothing.                             *)
Record(d, e) ==
  /\ dev[d].kind \in {"linked", "local"}
  /\ ~ Locked(d)
  /\ author[e] = None
  /\ Applies(e, Shown(d))
  /\ author' = [author EXCEPT ![e] = d]
  /\ dev' = IF Linked(d) THEN [dev EXCEPT ![d].pending = Append(@, e)]
                         ELSE [dev EXCEPT ![d].log = Append(@, e)]
  /\ UNCHANGED << server, run, pushes, crashes, drops >>

(* A browser records on the server (record_action).                         *)
RecordOnServer(e) ==
  /\ server.exists
  /\ author[e] = None
  /\ Applies(e, server.log)
  /\ author' = [author EXCEPT ![e] = Web]
  /\ server' = [server EXCEPT !.log = Append(@, e)]
  /\ UNCHANGED << dev, run, pushes, crashes, drops >>

-----------------------------------------------------------------------------
(* A device's sync, up to the settlement. *)

(* The step after registering: push if something waits.                     *)
AfterRegister(r) == IF r.upto > r.from THEN "push" ELSE "pull"

(* Faulty variant of OutboxFrom: the oldest waiting line is skipped.        *)
OutboxFromNext(d) == dev[d].handled + 1

(* Where the outbox begins in the pending lines.                            *)
OutboxFrom(d) == dev[d].handled

(* sync_all reads every linked copy first, so an unreadable one stops it;   *)
(* then the outbox is read under the log's lock.                            *)
Begin(d) ==
  /\ run[d].pc = "idle"
  /\ Linked(d)
  /\ Readable(d)
  /\ LET r == [Idle EXCEPT !.after = Len(dev[d].log),
                           !.from  = OutboxFrom(d),
                           !.upto  = Len(dev[d].pending)]
     IN  run' = [run EXCEPT ![d] =
                   [r EXCEPT !.pc = IF dev[d].registered THEN AfterRegister(r) ELSE "register"]]
  /\ UNCHANGED << server, dev, pushes, author, crashes, drops >>

(* create_started_execution: the execution starts with the lines this copy  *)
(* sent; the same start again is a retry and changes nothing.               *)
CreateStarted(d) ==
  server' = IF server.exists THEN server
            ELSE [server EXCEPT !.exists = TRUE,
                                !.log    = SubSeq(dev[d].log, 1, run[d].after)]

(* client.register and its answer.                                          *)
Register(d) ==
  /\ run[d].pc = "register"
  /\ CreateStarted(d)
  /\ run' = [run EXCEPT ![d].pc = AfterRegister(run[d]), ![d].registered = TRUE]
  /\ UNCHANGED << dev, pushes, author, crashes, drops >>

(* The server registered the execution but its answer was lost.             *)
RegisterUnanswered(d) ==
  /\ run[d].pc = "register"
  /\ drops < MaxDrops
  /\ drops' = drops + 1
  /\ CreateStarted(d)
  /\ run' = [run EXCEPT ![d] = Idle]
  /\ UNCHANGED << dev, pushes, author, crashes >>

(* client.push: the server starts on the request.                           *)
Push(d) ==
  /\ run[d].pc = "push"
  /\ pushes' = pushes \cup
       {[from    |-> d,
         todo    |-> SubSeq(dev[d].pending, run[d].from + 1, run[d].upto),
         at      |-> "check",
         refused |-> {},
         awaited |-> TRUE]}
  /\ run' = [run EXCEPT ![d].pc = "pushing"]
  /\ UNCHANGED << server, dev, author, crashes, drops >>

(* The answer to a push; nobody takes it when the device gave up.           *)
Answer(p) ==
  /\ p.todo = << >>
  /\ pushes' = pushes \ {p}
  /\ run' = IF p.awaited
              THEN [run EXCEPT ![p.from].pc = "pull", ![p.from].refused = p.refused]
              ELSE run
  /\ UNCHANGED << server, dev, author, crashes, drops >>

(* How many of the server's lines this copy has: records.len() when the     *)
(* outbox was read.                                                         *)
PulledFrom(d) == run[d].after

(* Faulty variant of Diverged: nothing new is taken for a divergence.       *)
DivergedWithoutNews(d) == Len(server.log) <= PulledFrom(d)

Diverged(d) == Len(server.log) < PulledFrom(d)

(* client.pull, which fails when the copies diverged.                       *)
Pull(d) ==
  /\ run[d].pc = "pull"
  /\ run' = IF Diverged(d)
              THEN [run EXCEPT ![d] = Idle]
              ELSE [run EXCEPT ![d].pc = "settle log",
                               ![d].pulled = SubSeq(server.log, PulledFrom(d) + 1, Len(server.log))]
  /\ UNCHANGED << server, dev, pushes, author, crashes, drops >>

(* The device gives up on the server: no answer, a gateway's error, or the  *)
(* app is closed.  What the server has started it finishes.                 *)
GiveUp(d) ==
  /\ run[d].pc \in {"register", "push", "pushing", "pull"}
  /\ drops < MaxDrops
  /\ drops' = drops + 1
  /\ run' = [run EXCEPT ![d] = Idle]
  /\ pushes' = {IF p.from = d THEN [p EXCEPT !.awaited = FALSE] ELSE p : p \in pushes}
  /\ UNCHANGED << server, dev, author, crashes >>

-----------------------------------------------------------------------------
(* Settlement: three writes in this order under the log's exclusive lock.   *)

(* The pulled lines are appended if they continue this copy's log and the   *)
(* result replays.  The waiting lines are not looked at.                    *)
SettleLog(d) ==
  LET longer == dev[d].log \o run[d].pulled
      fits   == run[d].after = Len(dev[d].log) /\ After(longer) # {}
  IN  /\ run[d].pc = "settle log"
      /\ IF run[d].pulled = << >> \/ fits
           THEN /\ run' = [run EXCEPT ![d].pc = "settle rejected"]
                /\ dev' = [dev EXCEPT ![d].log = longer]
           ELSE /\ run' = [run EXCEPT ![d] = Idle]
                /\ UNCHANGED dev
      /\ UNCHANGED << server, pushes, author, crashes, drops >>

(* append_rejected; read_rejected shows an event written twice once.        *)
SettleRejected(d) ==
  /\ run[d].pc = "settle rejected"
  /\ run' = [run EXCEPT ![d].pc = "settle state"]
  /\ dev' = [dev EXCEPT ![d].rejected = @ \cup run[d].refused]
  /\ UNCHANGED << server, pushes, author, crashes, drops >>

(* Faulty variant of SettledUpto: every line there is by now.               *)
SettledUptoEnd(d) == Len(dev[d].pending)

SettledUpto(d) == IF run[d].upto > dev[d].handled THEN run[d].upto ELSE dev[d].handled

(* write_state: the sync state is replaced at once by a rename.             *)
SettleState(d) ==
  /\ run[d].pc = "settle state"
  /\ run' = [run EXCEPT ![d] = Idle]
  /\ dev' = [dev EXCEPT ![d].registered = @ \/ run[d].registered,
                        ![d].handled    = SettledUpto(d)]
  /\ UNCHANGED << server, pushes, author, crashes, drops >>

(* The device stops between two of the writes.                              *)
CrashSettling(d) ==
  /\ Locked(d)
  /\ crashes < MaxCrashes
  /\ crashes' = crashes + 1
  /\ run' = [run EXCEPT ![d] = Idle]
  /\ UNCHANGED << server, dev, pushes, author, drops >>

-----------------------------------------------------------------------------
(* The server's side of a push: push_event for each event in order. *)

Finish(p, q) == pushes' = (pushes \ {p}) \cup {q}
NextEvent(p) == [p EXCEPT !.todo = Tail(@), !.at = "check"]

(* An event that is kept as a conflict is a duplicate.                      *)
CheckConflicts(p) ==
  /\ p.todo # << >>
  /\ p.at = "check"
  /\ Finish(p, IF Head(p.todo) \in server.kept THEN NextEvent(p) ELSE [p EXCEPT !.at = "record"])
  /\ UNCHANGED << server, dev, run, author, crashes, drops >>

(* Faulty variant of IsRetry: only the last line is compared.               *)
IsRetryOfLast(e) == server.log # << >> /\ server.log[Len(server.log)] = e

(* is_retry: an event with this id is recorded.                             *)
IsRetry(e) == In(e, server.log)

(* The transaction of repository.record with decide_pushed: the event is    *)
(* recorded if it applies to the execution as it is now.                    *)
RecordPushed(p) ==
  LET e == Head(p.todo)
  IN  /\ p.todo # << >>
      /\ p.at = "record"
      /\ \/ /\ IsRetry(e)
            /\ Finish(p, NextEvent(p))
            /\ UNCHANGED server
         \/ /\ ~ IsRetry(e)
            /\ Applies(e, server.log)
            /\ Finish(p, NextEvent(p))
            /\ server' = [server EXCEPT !.log = Append(@, e)]
         \/ /\ ~ IsRetry(e)
            /\ ~ Applies(e, server.log)
            /\ Finish(p, [p EXCEPT !.at = "keep"])
            /\ UNCHANGED server
      /\ UNCHANGED << dev, run, author, crashes, drops >>

(* decide_pushed refuses an event whose files it did not get as recorded.   *)
RefusePushed(p) ==
  LET e == Head(p.todo)
  IN  /\ p.todo # << >>
      /\ p.at = "record"
      /\ e \in WithFiles
      /\ ~ IsRetry(e)
      /\ Finish(p, [NextEvent(p) EXCEPT !.refused = @ \cup {e}])
      /\ UNCHANGED << server, dev, run, author, crashes, drops >>

(* Faulty variant of KeepConflict: the conflict is reported, not kept.      *)
ReportConflict(p) ==
  /\ p.todo # << >>
  /\ p.at = "keep"
  /\ Finish(p, NextEvent(p))
  /\ UNCHANGED << server, dev, run, author, crashes, drops >>

(* add_conflict, in a transaction of its own after the one that refused the *)
(* event.                                                                   *)
KeepConflict(p) ==
  /\ p.todo # << >>
  /\ p.at = "keep"
  /\ server' = [server EXCEPT !.kept = @ \cup {Head(p.todo)}]
  /\ Finish(p, NextEvent(p))
  /\ UNCHANGED << dev, run, author, crashes, drops >>

(* A request is lost, or the server stops in the middle of it.              *)
LosePush(p) ==
  /\ drops < MaxDrops
  /\ drops' = drops + 1
  /\ pushes' = pushes \ {p}
  /\ run' = IF p.awaited THEN [run EXCEPT ![p.from] = Idle] ELSE run
  /\ UNCHANGED << server, dev, author, crashes >>

-----------------------------------------------------------------------------
(* Specifications. *)

Recording(d) ==
  \/ Start(d)
  \/ Link(d)
  \/ CrashBeforeLink(d)
  \/ OpenRemote(d)
  \/ \E e \in EventIds : Record(d, e)

(* What the background sync does by itself. *)
Syncing(d) ==
  \/ Begin(d)
  \/ Register(d)
  \/ Push(d)
  \/ Pull(d)
  \/ SettleLog(d)
  \/ SettleRejected(d)
  \/ SettleState(d)

Failing(d) ==
  \/ RegisterUnanswered(d)
  \/ GiveUp(d)
  \/ CrashSettling(d)

Handling(p) ==
  \/ CheckConflicts(p)
  \/ RecordPushed(p)
  \/ RefusePushed(p)
  \/ KeepConflict(p)
  \/ Answer(p)

Next ==
  \/ \E d \in Devices : Recording(d) \/ Syncing(d) \/ Failing(d)
  \/ \E e \in EventIds : RecordOnServer(e)
  \/ \E p \in pushes : Handling(p) \/ LosePush(p)

Spec == Init /\ [][Next]_vars

(* A device syncs every SYNC_INTERVAL for as long as the app runs, one sync *)
(* at a time, and the server works on what it was sent.  Nobody has to      *)
(* record anything, and failures are bounded, not promised.                 *)
Fairness ==
  /\ \A d \in Devices : WF_vars(Syncing(d))
  /\ \A d \in Devices : WF_vars(\E p \in pushes : p.from = d /\ Handling(p))

LiveSpec == Spec /\ Fairness

(* record_installed_attachment_batch: closing a DropPoint session records   *)
(* the received files in the copy's log itself, linked or not, looking at   *)
(* nothing but that log.                                                    *)
RecordInstalled(d, e) ==
  /\ dev[d].kind \in {"linked", "local"}
  /\ ~ Locked(d)
  /\ author[e] = None
  /\ e \in WithFiles
  /\ Applies(e, dev[d].log)
  /\ author' = [author EXCEPT ![e] = d]
  /\ dev' = [dev EXCEPT ![d].log = Append(@, e)]
  /\ UNCHANGED << server, run, pushes, crashes, drops >>

DropPointNext ==
  \/ Next
  \/ \E d \in Devices, e \in WithFiles : RecordInstalled(d, e)

DropPointSpec == Init /\ [][DropPointNext]_vars

-----------------------------------------------------------------------------
(* Correctness. *)

IsPrefixOf(a, b) == Len(a) <= Len(b) /\ a = SubSeq(b, 1, Len(a))

Recorded(e) == In(e, server.log)
HasFate(e)  == Recorded(e) \/ e \in server.kept \/ \E d \in Devices : e \in dev[d].rejected

(* Type invariant: every variable has the shape the code's types give it,   *)
(* the handled lines are lines of the outbox, and a sync never carries more *)
(* than the outbox holds.                                                   *)
TypeOK ==
  /\ server \in [exists : BOOLEAN, log : Seq(EventIds), kept : SUBSET EventIds]
  /\ \A d \in Devices :
       /\ dev[d] \in [kind : {"none", "starting", "local", "linked"}, registered : BOOLEAN,
                       log : Seq(EventIds), pending : Seq(EventIds), handled : Nat,
                       rejected : SUBSET EventIds]
       /\ dev[d].handled <= Len(dev[d].pending)
       /\ run[d].from <= run[d].upto
       /\ run[d].upto <= Len(dev[d].pending)
       /\ run[d].refused \subseteq EventIds
       /\ run[d].pulled \in Seq(EventIds)
  /\ \A p \in pushes : p.from \in Devices /\ p.todo \in Seq(EventIds)
  /\ author \in [EventIds -> Devices \cup {Web, None}]

(* Nothing recorded offline is ever lost: an event a device recorded is     *)
(* still waiting there, or in the log of a copy that is not linked, or the  *)
(* server recorded it or keeps it as a conflict, or the device lists it as  *)
(* refused - whatever pushes were lost, repeated or answered too late and   *)
(* wherever a crash cut a settlement short.                                 *)
NothingLost ==
  \A d \in Devices : \A e \in EventIds :
    author[e] = d =>
      \/ In(e, Waiting(d))
      \/ dev[d].kind = "local" /\ In(e, dev[d].log)
      \/ Recorded(e)
      \/ e \in server.kept
      \/ e \in dev[d].rejected

(* The server records a device's events in the order the device recorded    *)
(* them, also when several deliveries of the same lines are under way: only *)
(* an event that was kept as a conflict, or one that can be refused for its *)
(* files and accepted on a later try, may come in out of order.             *)
DeviceOrderKept ==
  \A d \in Devices : \A j, k \in DOMAIN dev[d].pending :
    LET e == dev[d].pending[j]
        f == dev[d].pending[k]
    IN  j < k /\ {e, f} \cap (server.kept \cup WithFiles) = {} /\ Recorded(e) /\ Recorded(f)
          => \E m, n \in DOMAIN server.log :
               m < n /\ server.log[m] = e /\ server.log[n] = f

(* A copy with its device's settlements undone is an abstract replicated    *)
(* log: the server's log grows by one new event at a time, and a linked     *)
(* copy's log is always a beginning of it that only gets longer.            *)
Abstract == INSTANCE ReplicatedLog WITH
  log  <- server.log,
  copy <- [d \in Devices |-> IF Linked(d) THEN dev[d].log ELSE << >>]

ReplicatedLogSpec == Abstract!Spec

(* A copy that cannot be read: nothing can be recorded in it or synced any  *)
(* more.                                                                    *)
Stuck(d) == ~ Locked(d) /\ ~ Readable(d)

(* What devices record in linked copies has a fate in the end (recorded,    *)
(* kept as a conflict, or refused), unless the copy became unreadable.      *)
Delivered ==
  <>[](\A d \in Devices : \A e \in EventIds :
         author[e] = d /\ Linked(d) => HasFate(e) \/ Stuck(d))

(* Once nobody records any more, every linked copy that can be read ends up *)
(* with the server's log and with nothing waiting.                          *)
Converges ==
  <>[](\A d \in Devices :
         \/ ~ Linked(d)
         \/ Stuck(d)
         \/ dev[d].log = server.log /\ Waiting(d) = << >>)

(* The promise of `settle`: stopping between its writes costs no more than  *)
(* pushing again, so the copy can still be read.                            *)
CrashWhileSettlingIsHarmless ==
  \A d \in Devices :
    ~ Locked(d) /\ (\E e \in EventIds : In(e, dev[d].log) /\ In(e, Waiting(d)))
      => Readable(d)

(* The execution's state is the log plus the pending lines not dealt with:  *)
(* with nothing but events recorded by its users a copy always has one.     *)
CopyIsReadable == \A d \in Devices : ~ Locked(d) => Readable(d)

(* A pushed event has one fate: a retry of an event that is kept as a       *)
(* conflict is a duplicate and is not recorded too.                         *)
OneFate == \A e \in EventIds : ~ (Recorded(e) /\ e \in server.kept)

(* A linked execution's log is the server's: the copy holds nothing the     *)
(* server has not confirmed.                                                *)
LinkedLogIsTheServers ==
  \A d \in Devices : Linked(d) /\ dev[d].registered => IsPrefixOf(dev[d].log, server.log)
=============================================================================
