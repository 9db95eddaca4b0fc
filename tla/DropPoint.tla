----------------------------- MODULE DropPoint -----------------------------
(***************************************************************************)
(* Receiving files through a DropPoint relay (src-tauri, drop_point/ and    *)
(* commands/drop_point.rs): a session for one attachment input, kept in a   *)
(* private state file, picks up what a phone dropped at the relay, publishes*)
(* it as a bundle directory, records it in the execution's log and only     *)
(* then acknowledges it, so that the relay forgets it.                      *)
(*                                                                          *)
(* The commands hold one lock (lock_operation), so one operation `op` runs  *)
(* at a time; every durable write and every request to the relay is a step  *)
(* of its own, and between two steps the process may stop, a request or its *)
(* answer may be lost, the phone may drop files, the relay may expire the   *)
(* session and the user may change the execution.  Between two steps the    *)
(* session an operation holds in memory is the one in the file, so `op`     *)
(* keeps only how far it has got.                                           *)
(*                                                                          *)
(* A submission is a member of Files: the path of its bundle names it.      *)
(***************************************************************************)
EXTENDS Engine

CONSTANTS
  Sessions,     \* sessions, each with a drop point of its own at the relay
  TargetStep,   \* the step and the input every session here receives for
  TargetInput,
  Begun,        \* the execution when the first session is asked for
  Spoiled,      \* submissions that cannot be decrypted
  MaxStops      \* bound: crashes, failed writes, lost requests and answers

ASSUME TargetAssumption ==
  /\ TargetStep \in Steps
  /\ TargetInput \in Inputs
  /\ Spoiled \subseteq Files
  /\ Begun \in State
  /\ TargetInput \in Begun.content[TargetStep].attach \ Begun.content[TargetStep].scalar
  /\ Begun.value[TargetStep][TargetInput] = None
  /\ OnInput(Begun, TargetStep, TargetInput) = {}

ASSUME StopsAssumption == MaxStops \in Nat

VARIABLES
  exec,     \* the execution
  logged,   \* logged[u]: the AttachmentsAdded events for bundle u in the log
  file,     \* the private state file of each session
  bundles,  \* the bundle directories published for each session
  relay,    \* the relay's side of each session
  shown,    \* the session the input's dialog shows
  op,       \* the operation that holds the lock
  stops     \* interruptions so far

vars == << exec, logged, file, bundles, relay, shown, op, stops >>

Phases == {"None", "Waiting", "ClosePending", "Complete"}
NoFile == [phase |-> "None", installed |-> {}, recorded |-> {}, acknowledged |-> {}]

Idle == [at |-> "idle", s |-> None, u |-> None, todo |-> {}, then |-> "nothing"]

Init ==
  /\ exec = Begun
  /\ logged = [u \in Files |-> 0]
  /\ file = [s \in Sessions |-> NoFile]
  /\ bundles = [s \in Sessions |-> {}]
  /\ relay = [s \in Sessions |-> [status |-> "none", pending |-> {}, acked |-> {}]]
  /\ shown = None
  /\ op = Idle
  /\ stops = 0

Resumable(s) == file[s].phase \in {"Waiting", "ClosePending"}
Open(s)      == relay[s].status = "open"

(* validate_attachment_target: the input's type never changes. *)
TargetValid == Active(exec) /\ Present(exec, TargetStep)

-----------------------------------------------------------------------------
(* The private state file. *)

Rank(phase) == CASE phase = "Complete" -> 2 [] phase = "ClosePending" -> 1 [] OTHER -> 0

(* merge_transition: a write never takes back what the file already says.   *)
Merged(old, new) ==
  IF old.phase = "Complete" \/ Rank(new.phase) < Rank(old.phase)
    THEN old
    ELSE [phase        |-> new.phase,
          installed    |-> old.installed \cup new.installed,
          recorded     |-> old.recorded \cup new.recorded,
          acknowledged |-> old.acknowledged \cup new.acknowledged]

Persist(new) == file' = [file EXCEPT ![op.s] = Merged(@, new)]

At(place)        == op.at = place
Goto(place)      == op' = [op EXCEPT !.at = place]
GotoWith(place, u) == op' = [op EXCEPT !.at = place, !.u = u]

(* One more interruption; the operation in memory is gone, or has returned  *)
(* its error.                                                               *)
Interrupted == stops < MaxStops /\ stops' = stops + 1 /\ op' = Idle

-----------------------------------------------------------------------------
(* Starting a session. *)

(* Faulty variant of Unclaimed. *)
NoneWaiting == \A s \in Sessions : file[s].phase # "Waiting"

(* find_for_target: a session still in progress is shown again instead. *)
Unclaimed == \A s \in Sessions : ~ Resumable(s)

Resume(s) ==
  /\ op = Idle
  /\ TargetValid
  /\ Resumable(s)
  /\ shown' = s
  /\ UNCHANGED << exec, logged, file, bundles, relay, op, stops >>

Start(s) ==
  /\ op = Idle
  /\ TargetValid
  /\ Unclaimed
  /\ relay[s].status = "none"
  /\ relay' = [relay EXCEPT ![s].status = "open"]
  /\ \/ op' = [Idle EXCEPT !.at = "insert", !.s = s] /\ UNCHANGED stops
     \/ Interrupted
  /\ shown' = None
  /\ UNCHANGED << exec, logged, file, bundles >>

Insert ==
  /\ At("insert")
  /\ file' = [file EXCEPT ![op.s].phase = "Waiting"]
  /\ shown' = op.s
  /\ op' = Idle
  /\ UNCHANGED << exec, logged, bundles, relay, stops >>

(* What the relay created cannot be used: it is closed again, if possible. *)
SetupFails ==
  /\ At("insert")
  /\ relay' \in {relay, [relay EXCEPT ![op.s].status = "closed"]}
  /\ Interrupted
  /\ UNCHANGED << exec, logged, file, bundles, shown >>

-----------------------------------------------------------------------------
(* The dialog's commands on the session it shows.  Each one first records   *)
(* what earlier ones left: record_pending_submissions, then what `then`     *)
(* names.                                                                   *)

(* Faulty variant of RecordPending. *)
RecordOnlyKnown(s, then) ==
  op' = [op EXCEPT !.at = "record", !.s = s, !.then = then]

RecordPending(s, then) ==
  op' = [op EXCEPT !.at = "discover", !.s = s, !.then = then]

Import(s) ==
  /\ op = Idle
  /\ shown = s
  /\ file[s].phase # "None"
  /\ file[s].phase = "Waiting" => TargetValid
  /\ RecordPending(s, "acknowledge")
  /\ UNCHANGED << exec, logged, file, bundles, relay, shown, stops >>

(* A poll finishes a stop that is pending, or notices that the relay has    *)
(* ended the session.                                                       *)
Poll(s) ==
  /\ op = Idle
  /\ shown = s
  /\ \/ file[s].phase = "ClosePending" /\ RecordPending(s, "closing")
     \/ file[s].phase = "Waiting" /\ ~ Open(s) /\ RecordPending(s, "complete")
  /\ UNCHANGED << exec, logged, file, bundles, relay, shown, stops >>

Cancel(s) ==
  /\ op = Idle
  /\ shown = s
  /\ Resumable(s)
  /\ RecordPending(s, "closing")
  /\ UNCHANGED << exec, logged, file, bundles, relay, shown, stops >>

-----------------------------------------------------------------------------
(* Recording. *)

Known == file[op.s]

(* A published bundle the file does not name: the process stopped between.  *)
Discover ==
  /\ At("discover")
  /\ LET missing == bundles[op.s] \ Known.installed
     IN  \/ \E u \in missing :
              Persist([Known EXCEPT !.installed = @ \cup {u}]) /\ UNCHANGED op
         \/ missing = {} /\ Goto("record") /\ UNCHANGED file
  /\ UNCHANGED << exec, logged, bundles, relay, shown, stops >>

ToRecord == (IF op.then = "listed" THEN {op.u} ELSE Known.installed) \ Known.recorded

Batch(u) ==
  [type |-> "AttachmentsAdded", step |-> TargetStep, input |-> TargetInput, batch |-> << u >>]

(* Faulty variants of RecordBatch. *)
RecordBatchAgain(u) ==
  exec' \in Apply(exec, Batch(u)) /\ logged' = [logged EXCEPT ![u] = @ + 1]

RecordBatchUnlessRefused(u) ==
  IF logged[u] > 0 \/ Apply(exec, Batch(u)) = {}
    THEN UNCHANGED << exec, logged >>
    ELSE exec' \in Apply(exec, Batch(u)) /\ logged' = [logged EXCEPT ![u] = @ + 1]

(* record_installed_attachment_batch, under the log's lock: an identical    *)
(* batch already in the log is not recorded again.                          *)
RecordBatch(u) ==
  IF logged[u] > 0
    THEN UNCHANGED << exec, logged >>
    ELSE exec' \in Apply(exec, Batch(u)) /\ logged' = [logged EXCEPT ![u] = @ + 1]

Record ==
  /\ At("record")
  /\ \E u \in ToRecord : RecordBatch(u) /\ GotoWith("recorded", u)
  /\ UNCHANGED << file, bundles, relay, shown, stops >>

(* What a failed record_pending_submissions leads to: the end, except that  *)
(* an import goes on with the next listed submission when it was only       *)
(* noticing, during a pickup, that the relay had ended the session.         *)
Failed ==
  op' = IF op.then = "completeListed"
          THEN [op EXCEPT !.at = "next", !.then = "listed"]
          ELSE Idle

(* The execution has ended, or the step was skipped, since the pickup. *)
RecordRefused ==
  /\ At("record")
  /\ \E u \in ToRecord : logged[u] = 0 /\ Apply(exec, Batch(u)) = {}
  /\ Failed
  /\ UNCHANGED << exec, logged, file, bundles, relay, shown, stops >>

(* Faulty variant of Recorded. *)
RecordedAsAcknowledged ==
  /\ At("recorded")
  /\ Persist([Known EXCEPT !.acknowledged = @ \cup {op.u}])
  /\ Goto("record")
  /\ UNCHANGED << exec, logged, bundles, relay, shown, stops >>

Recorded ==
  /\ At("recorded")
  /\ Persist([Known EXCEPT !.recorded = @ \cup {op.u}])
  /\ Goto("record")
  /\ UNCHANGED << exec, logged, bundles, relay, shown, stops >>

AllRecorded ==
  /\ At("record")
  /\ ToRecord = {}
  /\ CASE op.then = "closing" -> Goto("closing")
       [] op.then \in {"complete", "completeListed"} -> Goto("complete")
       [] op.then = "listed" -> Goto("acknowledge")
       [] op.then = "acknowledge" ->
            IF Known.phase = "Waiting" THEN Goto("acknowledge") ELSE op' = Idle
  /\ UNCHANGED << exec, logged, file, bundles, relay, shown, stops >>

-----------------------------------------------------------------------------
(* Acknowledging. *)

ToAcknowledge ==
  (IF op.then = "listed" THEN {op.u} ELSE Known.installed) \ Known.acknowledged

(* The relay answers a repeated acknowledgement as it did the first. *)
Acknowledge ==
  /\ At("acknowledge")
  /\ Open(op.s)
  /\ \E u \in ToAcknowledge :
       /\ u \in Known.recorded
       /\ relay' = [relay EXCEPT ![op.s].pending = @ \ {u}, ![op.s].acked = @ \cup {u}]
       /\ \/ GotoWith("acknowledged", u) /\ UNCHANGED stops
          \/ Interrupted
  /\ UNCHANGED << exec, logged, file, bundles, shown >>

(* Faulty variant of AcknowledgeRefused. *)
AcknowledgeErrorIgnored ==
  /\ At("acknowledge")
  /\ ~ Open(op.s)
  /\ \E u \in ToAcknowledge : GotoWith("acknowledged", u)
  /\ UNCHANGED << exec, logged, file, bundles, relay, shown, stops >>

(* The relay has ended the session: an error, which a poll will look into.  *)
AcknowledgeRefused ==
  /\ At("acknowledge")
  /\ ToAcknowledge # {}
  /\ ~ Open(op.s)
  /\ op' = Idle
  /\ UNCHANGED << exec, logged, file, bundles, relay, shown, stops >>

Acknowledged ==
  /\ At("acknowledged")
  /\ Persist([Known EXCEPT !.acknowledged = @ \cup {op.u}])
  /\ Goto("acknowledge")
  /\ UNCHANGED << exec, logged, bundles, relay, shown, stops >>

AllAcknowledged ==
  /\ At("acknowledge")
  /\ ToAcknowledge = {}
  /\ Goto(IF op.then = "listed" THEN "next" ELSE "list")
  /\ UNCHANGED << exec, logged, file, bundles, relay, shown, stops >>

-----------------------------------------------------------------------------
(* Picking up. *)

List ==
  /\ At("list")
  /\ IF Open(op.s)
       THEN op' = [op EXCEPT !.at = "next", !.then = "listed", !.todo = relay[op.s].pending]
       ELSE RecordPending(op.s, "complete")
  /\ UNCHANGED << exec, logged, file, bundles, relay, shown, stops >>

Take(u, place, then) ==
  op' = [op EXCEPT !.at = place, !.u = u, !.todo = @ \ {u}, !.then = then]

(* Faulty variant of PickUp. *)
PickUpOrEnd ==
  /\ At("next")
  /\ Open(op.s)
  /\ \E u \in op.todo \ Known.installed :
       IF u \in Spoiled THEN op' = Idle ELSE Take(u, "publish", "listed")
  /\ UNCHANGED << exec, logged, file, bundles, relay, shown, stops >>

(* install_submission, as far as the decrypted files in memory.  What the   *)
(* file names was acknowledged before the relay was asked for its list, so  *)
(* none of the listed submissions is in the file by now.                    *)
PickUp ==
  /\ At("next")
  /\ Open(op.s)
  /\ \E u \in op.todo \ Known.installed :
       Take(u, IF u \in Spoiled THEN "next" ELSE "publish", "listed")
  /\ UNCHANGED << exec, logged, file, bundles, relay, shown, stops >>

(* The relay has ended the session: install_submission finalizes it. *)
PickUpTooLate ==
  /\ At("next")
  /\ ~ Open(op.s)
  /\ \E u \in op.todo \ Known.installed : Take(u, "discover", "completeListed")
  /\ UNCHANGED << exec, logged, file, bundles, relay, shown, stops >>

(* install_bundle: the directory appears whole, by a rename. *)
Publish ==
  /\ At("publish")
  /\ bundles' = [bundles EXCEPT ![op.s] = @ \cup {op.u}]
  /\ Goto("installed")
  /\ UNCHANGED << exec, logged, file, relay, shown, stops >>

Installed ==
  /\ At("installed")
  /\ Persist([Known EXCEPT !.installed = @ \cup {op.u}])
  /\ Goto("record")
  /\ UNCHANGED << exec, logged, bundles, relay, shown, stops >>

(* An error of install_submission is kept for the end: the import goes on   *)
(* with the next listed submission.                                         *)
InstallFails ==
  /\ stops < MaxStops
  /\ \/ At("next") /\ \E u \in op.todo \ Known.installed : Take(u, "next", "listed")
     \/ (At("publish") \/ At("installed")) /\ Goto("next")
     \/ op.then = "completeListed" /\ Failed
  /\ stops' = stops + 1
  /\ UNCHANGED << exec, logged, file, bundles, relay, shown >>

ImportEnds ==
  /\ At("next")
  /\ op.todo = {}
  /\ op' = Idle
  /\ UNCHANGED << exec, logged, file, bundles, relay, shown, stops >>

-----------------------------------------------------------------------------
(* Closing. *)

(* The intent is durable before the relay is asked. *)
Closing ==
  /\ At("closing")
  /\ Persist([Known EXCEPT !.phase = "ClosePending"])
  /\ Goto("close")
  /\ UNCHANGED << exec, logged, bundles, relay, shown, stops >>

Close ==
  /\ At("close")
  /\ Open(op.s)
  /\ relay' = [relay EXCEPT ![op.s].status = "closed"]
  /\ \/ Goto("complete") /\ UNCHANGED stops
     \/ Interrupted
  /\ UNCHANGED << exec, logged, file, bundles, shown >>

(* Faulty variant of CloseTooLate. *)
CloseTooLateIsAnError ==
  /\ At("close")
  /\ ~ Open(op.s)
  /\ op' = Idle
  /\ UNCHANGED << exec, logged, file, bundles, relay, shown, stops >>

(* Closed or expired already: finalize_terminal_session. *)
CloseTooLate ==
  /\ At("close")
  /\ ~ Open(op.s)
  /\ RecordPending(op.s, "complete")
  /\ UNCHANGED << exec, logged, file, bundles, relay, shown, stops >>

(* with_complete: the session's secrets are gone. *)
Complete ==
  /\ At("complete")
  /\ Persist([Known EXCEPT !.phase = "Complete"])
  /\ op' = Idle
  /\ UNCHANGED << exec, logged, bundles, relay, shown, stops >>

-----------------------------------------------------------------------------
(* Whatever else happens. *)

(* A crash, a failed write, or a request that did not reach the relay: the  *)
(* operation is over, and all it leaves is on disk.  After a crash the      *)
(* dialog is gone too (Leave).                                              *)
Stop ==
  /\ op # Idle
  /\ Interrupted
  /\ UNCHANGED << exec, logged, file, bundles, relay, shown >>

(* The user navigates away, or the process has stopped.  An operation that  *)
(* is running goes on meanwhile: for it this is a Leave after its end.      *)
Leave ==
  /\ op = Idle
  /\ shown # None
  /\ shown' = None
  /\ UNCHANGED << exec, logged, file, bundles, relay, op, stops >>

(* The link is shown once the session is in its file. *)
Drop(s, u) ==
  /\ file[s].phase # "None"
  /\ Open(s)
  /\ \A t \in Sessions : u \notin relay[t].pending \cup relay[t].acked
  /\ relay' = [relay EXCEPT ![s].pending = @ \cup {u}]
  /\ UNCHANGED << exec, logged, file, bundles, shown, op, stops >>

Expire(s) ==
  /\ Open(s)
  /\ relay' = [relay EXCEPT ![s].status = "expired"]
  /\ UNCHANGED << exec, logged, file, bundles, shown, op, stops >>

(* The user's other commands, as far as recording a bundle depends on them. *)
UserEvents ==
  {[type |-> "ExecutionCompleted", outcome |-> "Pass"], [type |-> "ExecutionReopened"],
   [type |-> "StepSkipped", step |-> TargetStep], [type |-> "StepUnskipped", step |-> TargetStep]}
  \cup {[type |-> "AttachmentFileRemoved", step |-> TargetStep, input |-> TargetInput,
         file |-> u] : u \in Files}

User ==
  /\ \E e \in UserEvents : exec' \in Apply(exec, e)
  /\ UNCHANGED << logged, file, bundles, relay, shown, op, stops >>

-----------------------------------------------------------------------------

(* What the running operation does next when nothing interrupts it. *)
Proceed ==
  \/ Insert
  \/ Discover \/ Record \/ RecordRefused \/ Recorded \/ AllRecorded
  \/ Acknowledge \/ AcknowledgeRefused \/ Acknowledged \/ AllAcknowledged
  \/ List \/ PickUp \/ PickUpTooLate \/ Publish \/ Installed \/ ImportEnds
  \/ Closing \/ Close \/ CloseTooLate \/ Complete

Next ==
  \/ Proceed
  \/ SetupFails \/ InstallFails \/ Stop
  \/ \E s \in Sessions :
       \/ Start(s) \/ Resume(s) \/ Import(s) \/ Poll(s) \/ Cancel(s)
       \/ Expire(s)
       \/ \E u \in Files : Drop(s, u)
  \/ Leave \/ User

Spec == Init /\ [][Next]_vars

(* An operation goes on until it ends, and lock_operation is a fair lock.   *)
(* The user reopens the upload as long as the input lets one; the dialog    *)
(* polls the session it shows and imports what it is told of, again and     *)
(* again (Retry receiving after an error).                                  *)
Fairness ==
  /\ WF_vars(Proceed)
  /\ SF_vars(\E s \in Sessions : Resume(s))
  /\ SF_vars(\E s \in Sessions : Import(s))
  /\ SF_vars(\E s \in Sessions : Poll(s))

LiveSpec == Spec /\ Fairness

-----------------------------------------------------------------------------
(* Properties. *)

Stages == {"idle", "insert", "discover", "record", "recorded", "acknowledge", "acknowledged",
            "list", "next", "publish", "installed", "closing", "close", "complete"}

FileType ==
  [phase : Phases, installed : SUBSET Files, recorded : SUBSET Files, acknowledged : SUBSET Files]

(* Every variable has its type, and every private state file passes the     *)
(* check made when it is read: what is acknowledged is recorded (`validate` *)
(* would refuse the session from then on).                                  *)
TypeOK ==
  /\ exec \in State
  /\ logged \in [Files -> Nat]
  /\ file \in [Sessions -> FileType]
  /\ \A s \in Sessions : file[s].acknowledged \subseteq file[s].recorded
  /\ bundles \in [Sessions -> SUBSET Files]
  /\ relay \in [Sessions -> [status : {"none", "open", "closed", "expired"},
                             pending : SUBSET Files, acked : SUBSET Files]]
  /\ shown \in Sessions \cup {None}
  /\ op \in [at : Stages, s : Sessions \cup {None}, u : Files \cup {None}, todo : SUBSET Files,
             then : {"nothing", "acknowledge", "closing", "complete", "completeListed", "listed"}]
  /\ stops \in 0..MaxStops

(* The relay forgets a submission only after its files and its attachment   *)
(* event are durable here (docs/guide/drop-point.md: "acknowledges only     *)
(* after both files and attachment events are durable").                    *)
AcknowledgedIsDurable ==
  \A s \in Sessions : \A u \in relay[s].acked : u \in bundles[s] /\ logged[u] > 0

(* Retries record a bundle once, wherever the first attempt stopped and     *)
(* whatever the user did to the files in between.                           *)
RecordedOnce == \A u \in Files : logged[u] <= 1

(* What the private state says of a submission has happened.                *)
PrivateStateIsTrue ==
  \A s \in Sessions :
    /\ file[s].installed \subseteq bundles[s]
    /\ file[s].recorded \subseteq file[s].installed \cap {u \in Files : logged[u] > 0}
    /\ file[s].acknowledged \subseteq file[s].recorded \cap relay[s].acked

(* A session is over only when no bundle it installed is left unrecorded,   *)
(* which nothing would look for any more, and the relay has ended it too:   *)
(* its secrets are needed until then.                                       *)
CompleteLeavesNothing ==
  \A s \in Sessions : file[s].phase = "Complete" =>
    /\ bundles[s] = file[s].recorded
    /\ ~ Open(s)

(* One session in progress for an input: with two of them every start would *)
(* fail ("multiple resumable DropPoint sessions target ...").               *)
OneSession ==
  \A s, t \in Sessions : Resumable(s) /\ Resumable(t) => s = t

(* What a phone dropped arrives, past any submission that cannot be read,   *)
(* while the session lasts and the input accepts files.                     *)
DroppedArrives ==
  \A s \in Sessions : \A u \in Files \ Spoiled :
    u \in relay[s].pending
      ~> u \in relay[s].acked \/ ~ Open(s) \/ ~ TargetValid

(* A stop that was recorded is carried out ("A failed stop remains pending  *)
(* and is retried on resume"), unless the execution ended or the step was   *)
(* skipped: the upload of such an input cannot be reopened.                 *)
StopIsCarriedOut ==
  \A s \in Sessions :
    file[s].phase = "ClosePending" ~> file[s].phase = "Complete" \/ ~ TargetValid
=============================================================================
