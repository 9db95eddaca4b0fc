-------------------------- MODULE DropPointProofs --------------------------
(***************************************************************************)
(* What DropPoint promises, for every number of sessions, submissions and   *)
(* interruptions.                                                           *)
(*                                                                          *)
(* The place an operation has reached says what it has made sure of: it is  *)
(* entitled to its next write because of what is on disk or at the relay by *)
(* then (OpKnows, OpFinishes), and an operation that ends, for whatever     *)
(* reason, leaves only what is on disk (DataInv).                           *)
(***************************************************************************)
EXTENDS DropPoint, FiniteSetTheorems, TLAPS

(* A session nothing has been received for.                                 *)
Fresh(s) == file[s] = NoFile /\ bundles[s] = {} /\ relay[s].acked = {}

Thens == {"nothing", "acknowledge", "closing", "complete", "completeListed", "listed"}

OpType ==
  [at : Stages, s : Sessions \cup {None}, u : Files \cup {None}, todo : SUBSET Files, then : Thens]

RelayType ==
  [status : {"none", "open", "closed", "expired"}, pending : SUBSET Files, acked : SUBSET Files]

DataType ==
  /\ logged \in [Files -> Nat]
  /\ file \in [Sessions -> FileType]
  /\ bundles \in [Sessions -> SUBSET Files]
  /\ relay \in [Sessions -> RelayType]

(* A session without a file is fresh, and one the relay has not created has *)
(* no file.                                                                 *)
SessionsBegin ==
  /\ \A s \in Sessions : file[s].phase = "None" => Fresh(s)
  /\ \A s \in Sessions : relay[s].status = "none" => file[s].phase = "None"

(* What holds of the disk and the relay at any time.                        *)
DataInv ==
  /\ DataType
  /\ AcknowledgedIsDurable
  /\ RecordedOnce
  /\ PrivateStateIsTrue
  /\ CompleteLeavesNothing
  /\ OneSession
  /\ SessionsBegin

(* Where an operation is recording, receiving, or ending the session.       *)
Recording == {"record", "recorded"}
Receiving == {"acknowledge", "acknowledged", "list", "next", "publish", "installed"}
Ending    == {"closing", "close", "complete"}

(* Whom an operation is for: the session has a file and is in progress      *)
(* wherever the operation would write to it.                                *)
OpHolds ==
  /\ op.at # "idle" => op.s \in Sessions
  /\ op.at = "insert" => file[op.s].phase = "None" /\ Unclaimed /\ relay[op.s].status # "none"
  /\ op.at \in {"discover"} \cup Recording => file[op.s].phase # "None" /\ op.then # "nothing"
  /\ op.at = "discover" => op.then # "listed"
  /\ op.at \in {"recorded", "acknowledged", "publish", "installed"} => op.u \in Files
  /\ op.at \in {"next", "publish", "installed"} => op.then = "listed"
  /\ op.then = "completeListed" => op.at \in {"discover", "complete"} \cup Recording
  /\ op.at \in Receiving \/ (op.at \in Recording /\ op.then = "listed")
        \/ op.then = "completeListed"
       => file[op.s].phase = "Waiting"
  /\ op.at \in Ending \/ (op.at \in Recording \cup {"discover"} /\ op.then # "acknowledge")
       => Resumable(op.s)
  /\ op.at = "recorded" => Resumable(op.s)

(* What an operation has made sure of about the submission in hand.         *)
OpKnows ==
  /\ op.at \in Recording /\ op.then = "listed" => op.u \in file[op.s].installed
  /\ op.at = "recorded" => op.u \in file[op.s].installed /\ logged[op.u] > 0
  /\ op.at = "acknowledged" => op.u \in file[op.s].recorded /\ op.u \in relay[op.s].acked
  /\ op.at = "installed" => op.u \in bundles[op.s]

(* What an operation that may end the session has made sure of: every       *)
(* bundle is in the file, later every bundle is recorded, and the relay has *)
(* ended it.                                                                *)
OpFinishes ==
  /\ op.at \in Recording /\ op.then # "listed" => bundles[op.s] \subseteq file[op.s].installed
  /\ op.at \in Ending => bundles[op.s] \subseteq file[op.s].recorded
  /\ op.at = "complete" \/ (op.at \in Recording \cup {"discover"}
                              /\ op.then \in {"complete", "completeListed"})
       => relay[op.s].status # "open"

OpInv == op \in OpType /\ OpHolds /\ OpKnows /\ OpFinishes

IInv == DataInv /\ OpInv

-----------------------------------------------------------------------------
(* What the operators on `op` make of it. *)

(* Moving on keeps the session, the submission and the purpose.             *)
LEMMA GotoIs ==
  ASSUME op \in OpType, NEW place \in Stages, Goto(place)
  PROVE  /\ op' \in OpType
         /\ op'.at = place /\ op'.s = op.s /\ op'.u = op.u
         /\ op'.todo = op.todo /\ op'.then = op.then
BY DEF OpType, Goto

(* Moving on with a submission keeps the session and the purpose.           *)
LEMMA GotoWithIs ==
  ASSUME op \in OpType, NEW place \in Stages, NEW u \in Files, GotoWith(place, u)
  PROVE  /\ op' \in OpType
         /\ op'.at = place /\ op'.s = op.s /\ op'.u = u
         /\ op'.todo = op.todo /\ op'.then = op.then
BY DEF OpType, GotoWith

(* Taking the next listed submission keeps the session.                     *)
LEMMA TakeIs ==
  ASSUME op \in OpType, NEW place \in Stages, NEW then \in Thens, NEW u \in Files,
         Take(u, place, then)
  PROVE  /\ op' \in OpType
         /\ op'.at = place /\ op'.s = op.s /\ op'.u = u /\ op'.then = then
BY DEF OpType, Take

(* Every command begins by looking for bundles its file does not name.      *)
LEMMA RecordPendingIs ==
  ASSUME op \in OpType, NEW s \in Sessions, NEW then \in Thens, RecordPending(s, then)
  PROVE  /\ op' \in OpType
         /\ op'.at = "discover" /\ op'.s = s /\ op'.then = then
BY DEF OpType, RecordPending, Stages

(* An operation that is over owes nothing: what is on disk suffices.        *)
LEMMA IdleHolds ==
  ASSUME op' = Idle
  PROVE  OpInv'
<1>1. op'.at = "idle" /\ op'.then = "nothing" /\ op' \in OpType
  BY DEF Idle, OpType, Stages, Thens
<1> QED BY <1>1 DEF OpInv, OpHolds, OpKnows, OpFinishes, Recording, Receiving, Ending

(* A step that only moves the operation on leaves the disk and relay alone. *)
LEMMA DataFrame ==
  ASSUME DataInv, UNCHANGED << logged, file, bundles, relay >>
  PROVE  DataInv'
BY DEF DataInv, DataType, AcknowledgedIsDurable, RecordedOnce, PrivateStateIsTrue,
       CompleteLeavesNothing, OneSession, SessionsBegin, Fresh, Resumable, Open

-----------------------------------------------------------------------------
(* What a write to the private state file makes of it while the session is  *)
(* in progress.                                                             *)

(* merge_transition writes the new state as it is when that one says at     *)
(* least as much as the old and the session is not complete.                *)
LEMMA NothingToMerge ==
  ASSUME NEW old \in FileType, NEW new \in FileType,
         old.phase \in {"Waiting", "ClosePending"},
         new.phase \in {"ClosePending", "Complete"} \/ new.phase = old.phase,
         old.installed \subseteq new.installed,
         old.recorded \subseteq new.recorded,
         old.acknowledged \subseteq new.acknowledged
  PROVE  Merged(old, new) = new
<1>1. Merged(old, new) = [phase        |-> new.phase,
                          installed    |-> old.installed \cup new.installed,
                          recorded     |-> old.recorded \cup new.recorded,
                          acknowledged |-> old.acknowledged \cup new.acknowledged]
  BY DEF Merged, Rank, FileType, Phases
<1>2. /\ old.installed \cup new.installed = new.installed
      /\ old.recorded \cup new.recorded = new.recorded
      /\ old.acknowledged \cup new.acknowledged = new.acknowledged
  BY DEF FileType
<1> QED BY <1>1, <1>2 DEF FileType

(* with_installed_submission: the file names one more installed bundle.     *)
LEMMA InstalledIsPersisted ==
  ASSUME DataType, op.s \in Sessions, Resumable(op.s), NEW u \in Files,
         Persist([Known EXCEPT !.installed = @ \cup {u}])
  PROVE  /\ file' \in [Sessions -> FileType]
         /\ \A t \in Sessions : t # op.s => file'[t] = file[t]
         /\ file'[op.s].phase = file[op.s].phase
         /\ file'[op.s].installed = file[op.s].installed \cup {u}
         /\ file'[op.s].recorded = file[op.s].recorded
         /\ file'[op.s].acknowledged = file[op.s].acknowledged
<1> DEFINE new == [Known EXCEPT !.installed = @ \cup {u}]
<1>1. Known \in FileType /\ new \in FileType BY SMTT(30) DEF DataType, FileType, Phases, Known
<1>2. Merged(Known, new) = new
  BY <1>1, NothingToMerge DEF Resumable, Known, FileType
<1>3. file' = [file EXCEPT ![op.s] = new] BY <1>2 DEF Persist, Known
<1> QED BY <1>1, <1>3 DEF DataType, FileType, Known

(* with_recorded_submission: the file names one more recorded bundle.       *)
LEMMA RecordedIsPersisted ==
  ASSUME DataType, op.s \in Sessions, Resumable(op.s), NEW u \in Files,
         Persist([Known EXCEPT !.recorded = @ \cup {u}])
  PROVE  /\ file' \in [Sessions -> FileType]
         /\ \A t \in Sessions : t # op.s => file'[t] = file[t]
         /\ file'[op.s].phase = file[op.s].phase
         /\ file'[op.s].installed = file[op.s].installed
         /\ file'[op.s].recorded = file[op.s].recorded \cup {u}
         /\ file'[op.s].acknowledged = file[op.s].acknowledged
<1> DEFINE new == [Known EXCEPT !.recorded = @ \cup {u}]
<1>1. Known \in FileType /\ new \in FileType BY DEF DataType, FileType, Phases, Known
<1>2. Merged(Known, new) = new
  BY <1>1, NothingToMerge DEF Resumable, Known, FileType
<1>3. file' = [file EXCEPT ![op.s] = new] BY <1>2 DEF Persist, Known
<1> QED BY <1>1, <1>3 DEF DataType, FileType, Known

(* with_acknowledged_submission: the file names one more acknowledgement.   *)
LEMMA AcknowledgedIsPersisted ==
  ASSUME DataType, op.s \in Sessions, Resumable(op.s), NEW u \in Files,
         Persist([Known EXCEPT !.acknowledged = @ \cup {u}])
  PROVE  /\ file' \in [Sessions -> FileType]
         /\ \A t \in Sessions : t # op.s => file'[t] = file[t]
         /\ file'[op.s].phase = file[op.s].phase
         /\ file'[op.s].installed = file[op.s].installed
         /\ file'[op.s].recorded = file[op.s].recorded
         /\ file'[op.s].acknowledged = file[op.s].acknowledged \cup {u}
<1> DEFINE new == [Known EXCEPT !.acknowledged = @ \cup {u}]
<1>1. Known \in FileType /\ new \in FileType BY SMTT(30) DEF DataType, FileType, Phases, Known
<1>2. Merged(Known, new) = new
  BY <1>1, NothingToMerge DEF Resumable, Known, FileType
<1>3. file' = [file EXCEPT ![op.s] = new] BY <1>2 DEF Persist, Known
<1> QED BY <1>1, <1>3 DEF DataType, FileType, Known

(* with_close_pending and with_complete: only the phase changes.            *)
LEMMA PhaseIsPersisted ==
  ASSUME DataType, op.s \in Sessions, Resumable(op.s), NEW phase \in {"ClosePending", "Complete"},
         Persist([Known EXCEPT !.phase = phase])
  PROVE  /\ file' \in [Sessions -> FileType]
         /\ \A t \in Sessions : t # op.s => file'[t] = file[t]
         /\ file'[op.s].phase = phase
         /\ file'[op.s].installed = file[op.s].installed
         /\ file'[op.s].recorded = file[op.s].recorded
         /\ file'[op.s].acknowledged = file[op.s].acknowledged
<1> DEFINE new == [Known EXCEPT !.phase = phase]
<1>1. Known \in FileType /\ new \in FileType BY DEF DataType, FileType, Phases, Known
<1>2. Merged(Known, new) = new
  BY <1>1, NothingToMerge DEF Resumable, Known, FileType
<1>3. file' = [file EXCEPT ![op.s] = new] BY <1>2 DEF Persist, Known
<1> QED BY <1>1, <1>3 DEF DataType, FileType, Known

-----------------------------------------------------------------------------
(* Starting. *)

(* Starting a session, and a setup that fails, keep the invariant: the only *)
(* file that appears is that of a fresh session, and only while no other is *)
(* in progress.                                                             *)
LEMMA StartingHolds ==
  ASSUME IInv, (\E s \in Sessions : Start(s)) \/ Insert \/ SetupFails
  PROVE  IInv'
<1> USE DEF IInv, OpInv, OpHolds, OpKnows, OpFinishes, Recording, Receiving, Ending, Resumable,
            Unclaimed, Known, At, Open
<1>1. ASSUME NEW s \in Sessions, Start(s) PROVE IInv'
  <2>1. file[s].phase = "None" /\ ~ Open(s) BY <1>1 DEF Start, DataInv, SessionsBegin
  <2>2. /\ relay' \in [Sessions -> RelayType]
        /\ relay'[s].status = "open" /\ relay'[s].acked = relay[s].acked
        /\ \A t \in Sessions : t # s => relay'[t] = relay[t]
    BY <1>1 DEF Start, DataInv, DataType, RelayType
  <2>3. UNCHANGED << logged, file, bundles >> BY <1>1 DEF Start
  <2>4. DataInv'
    BY <2>1, <2>2, <2>3
       DEF DataInv, DataType, AcknowledgedIsDurable, RecordedOnce, PrivateStateIsTrue,
           CompleteLeavesNothing, OneSession, SessionsBegin, Fresh
  <2>5. CASE op' = Idle BY <2>4, <2>5, IdleHolds
  <2>6. CASE op' = [Idle EXCEPT !.at = "insert", !.s = s]
    <3>1. op' \in OpType /\ op'.at = "insert" /\ op'.s = s /\ op'.then = "nothing"
      BY <2>6 DEF Idle, OpType, Stages, Thens
    <3> QED BY <1>1, <2>1, <2>2, <2>3, <2>4, <3>1 DEF Start
  <2> QED BY <1>1, <2>5, <2>6 DEF Start, Interrupted
<1>2. CASE Insert
  <2>1. op.s \in Sessions /\ Fresh(op.s) /\ relay[op.s].status # "none"
    BY <1>2 DEF Insert, DataInv, SessionsBegin
  <2>2. /\ file' \in [Sessions -> FileType]
        /\ file'[op.s] = [NoFile EXCEPT !.phase = "Waiting"]
        /\ \A t \in Sessions : t # op.s => file'[t] = file[t]
    BY <1>2, <2>1 DEF Insert, Fresh, NoFile, DataInv, DataType, FileType, Phases
  <2>3. /\ file'[op.s].phase = "Waiting" /\ file'[op.s].installed = {}
        /\ file'[op.s].recorded = {} /\ file'[op.s].acknowledged = {}
    BY <2>2 DEF NoFile
  <2>4. UNCHANGED << logged, bundles, relay >> /\ op' = Idle BY <1>2 DEF Insert
  <2>5. OneSession' BY <1>2, <2>2 DEF Insert, OneSession
  <2>6. DataType' /\ AcknowledgedIsDurable' /\ RecordedOnce'
    BY <2>2, <2>4 DEF DataInv, DataType, AcknowledgedIsDurable, RecordedOnce
  <2>7. PrivateStateIsTrue' BY <2>2, <2>3, <2>4 DEF DataInv, PrivateStateIsTrue
  <2>8. CompleteLeavesNothing' BY <2>2, <2>3, <2>4 DEF DataInv, CompleteLeavesNothing
  <2>9. SessionsBegin' BY <2>1, <2>2, <2>3, <2>4, ZenonT(40) DEF DataInv, SessionsBegin, Fresh
  <2>10. DataInv' BY <2>5, <2>6, <2>7, <2>8, <2>9 DEF DataInv
  <2> QED BY <2>4, <2>10, IdleHolds
<1>3. CASE SetupFails
  <2>1. op.s \in Sessions /\ file[op.s].phase = "None" BY <1>3 DEF SetupFails
  <2>2. UNCHANGED << logged, file, bundles >> /\ op' = Idle
    BY <1>3 DEF SetupFails, Interrupted
  <2>3. /\ relay' \in [Sessions -> RelayType]
        /\ relay'[op.s].status = "none" => relay[op.s].status = "none"
        /\ relay'[op.s].acked = relay[op.s].acked
        /\ \A t \in Sessions : t # op.s => relay'[t] = relay[t]
    BY <1>3, <2>1, SMTT(30) DEF SetupFails, DataInv, DataType, RelayType
  <2>4. DataInv'
    BY <2>1, <2>2, <2>3, SMTT(30)
       DEF DataInv, DataType, AcknowledgedIsDurable, RecordedOnce, PrivateStateIsTrue,
           CompleteLeavesNothing, OneSession, SessionsBegin, Fresh
  <2> QED BY <2>2, <2>4, IdleHolds
<1> QED BY <1>1, <1>2, <1>3

-----------------------------------------------------------------------------
(* Commands on a session. *)

(* Import, poll and cancel only take the lock, for a session whose phase    *)
(* the command has looked at.                                               *)
LEMMA CommandHolds ==
  ASSUME IInv, \E s \in Sessions : Resume(s) \/ Import(s) \/ Poll(s) \/ Cancel(s)
  PROVE  IInv'
<1> USE DEF IInv, OpInv, OpHolds, OpKnows, OpFinishes, Recording, Receiving, Ending, Resumable,
            Unclaimed, Known, At, Open
<1>0. UNCHANGED << logged, file, bundles, relay >> => DataInv' BY DataFrame
<1>1. ASSUME NEW s \in Sessions, Import(s) PROVE IInv'
  <2>1. UNCHANGED << logged, file, bundles, relay >> BY <1>1 DEF Import
  <2>2. op' \in OpType /\ op'.at = "discover" /\ op'.s = s
    BY <1>1, RecordPendingIs DEF Import, Thens
  <2>3. op'.then = "acknowledge" BY <1>1, RecordPendingIs DEF Import, Thens
  <2> QED BY <1>0, <1>1, <2>1, <2>2, <2>3 DEF Import
<1>2. ASSUME NEW s \in Sessions, Poll(s) PROVE IInv'
  <2>1. UNCHANGED << logged, file, bundles, relay >> BY <1>2 DEF Poll
  <2>2. op' \in OpType /\ op'.at = "discover" /\ op'.s = s
    BY <1>2, RecordPendingIs DEF Poll, Thens
  <2>3. \/ op'.then = "closing" /\ file[s].phase = "ClosePending"
        \/ op'.then = "complete" /\ file[s].phase = "Waiting" /\ ~ Open(s)
    BY <1>2, RecordPendingIs DEF Poll, Thens
  <2> QED BY <1>0, <1>2, <2>1, <2>2, <2>3 DEF Poll
<1>3. ASSUME NEW s \in Sessions, Cancel(s) PROVE IInv'
  <2>1. UNCHANGED << logged, file, bundles, relay >> BY <1>3 DEF Cancel
  <2>2. op' \in OpType /\ op'.at = "discover" /\ op'.s = s
    BY <1>3, RecordPendingIs DEF Cancel, Thens
  <2>3. op'.then = "closing" BY <1>3, RecordPendingIs DEF Cancel, Thens
  <2> QED BY <1>0, <1>3, <2>1, <2>2, <2>3 DEF Cancel
<1>4. ASSUME NEW s \in Sessions, Resume(s) PROVE IInv'
  <2>1. UNCHANGED << logged, file, bundles, relay, op >> BY <1>4 DEF Resume
  <2> QED BY <1>0, <2>1
<1> QED BY <1>1, <1>2, <1>3, <1>4

-----------------------------------------------------------------------------

(* A write to the file keeps the invariant when what it says has happened,  *)
(* and when, if it ends the session, every bundle is recorded and the relay *)
(* has ended it.                                                            *)
LEMMA OneFileChanges ==
  ASSUME DataInv, UNCHANGED << logged, bundles, relay >>, op.s \in Sessions, Resumable(op.s),
         file' \in [Sessions -> FileType],
         \A t \in Sessions : t # op.s => file'[t] = file[t],
         \/ file'[op.s].phase = file[op.s].phase
         \/ file'[op.s].phase = "ClosePending"
         \/ /\ file'[op.s].phase = "Complete"
            /\ bundles[op.s] = file'[op.s].recorded
            /\ ~ Open(op.s),
         file'[op.s].installed \subseteq bundles[op.s],
         file'[op.s].recorded \subseteq file'[op.s].installed,
         \A u \in file'[op.s].recorded : logged[u] > 0,
         file'[op.s].acknowledged \subseteq file'[op.s].recorded,
         file'[op.s].acknowledged \subseteq relay[op.s].acked
  PROVE  DataInv'
<1>1. DataType' /\ AcknowledgedIsDurable' /\ RecordedOnce'
  BY DEF DataInv, DataType, AcknowledgedIsDurable, RecordedOnce
<1>2. PrivateStateIsTrue'
  <2> SUFFICES ASSUME NEW s \in Sessions
               PROVE  /\ file'[s].installed \subseteq bundles[s]
                      /\ file'[s].recorded \subseteq file'[s].installed
                      /\ file'[s].recorded \subseteq {u \in Files : logged'[u] > 0}
                      /\ file'[s].acknowledged \subseteq file'[s].recorded
                      /\ file'[s].acknowledged \subseteq relay[s].acked
    BY DEF PrivateStateIsTrue
  <2>1. CASE s = op.s BY <2>1 DEF FileType
  <2>2. CASE s # op.s BY <2>2 DEF DataInv, PrivateStateIsTrue
  <2> QED BY <2>1, <2>2
<1>3. CompleteLeavesNothing' BY DEF DataInv, CompleteLeavesNothing, Resumable, Open
<1>4. OneSession' BY DEF DataInv, OneSession, Resumable
<1>5. SessionsBegin' BY DEF DataInv, SessionsBegin, Resumable, Fresh
<1> QED BY <1>1, <1>2, <1>3, <1>4, <1>5 DEF DataInv

-----------------------------------------------------------------------------
(* Recording. *)

(* Discovering bundles, recording them in the log and then in the file keep *)
(* the invariant: a batch enters the log only where it is not there yet,    *)
(* and the file says so only after the log does.                            *)
LEMMA RecordingHolds ==
  ASSUME IInv, Discover \/ Record \/ RecordRefused \/ Recorded \/ AllRecorded
  PROVE  IInv'
<1> USE DEF IInv, OpInv, OpHolds, OpKnows, OpFinishes, Recording, Receiving, Ending, Resumable,
            Unclaimed, Known, At, Open
<1>0. UNCHANGED << logged, file, bundles, relay >> => DataInv' BY DataFrame, SMTT(30)
<1>1. CASE Discover
  <2>1. op \in OpType /\ op.at = "discover" /\ op.s \in Sessions BY <1>1 DEF Discover
  <2>2. CASE bundles[op.s] \subseteq file[op.s].installed /\ Goto("record") /\ UNCHANGED file
    <3>1. UNCHANGED << logged, file, bundles, relay >> BY <1>1, <2>2 DEF Discover
    <3>2. op' \in OpType /\ op'.at = "record" /\ op'.s = op.s /\ op'.then = op.then
      BY <2>1, <2>2, GotoIs DEF Stages
    <3> QED BY <1>0, <2>1, <2>2, <3>1, <3>2
  <2>3. ASSUME NEW u \in bundles[op.s] \ file[op.s].installed, UNCHANGED op,
               Persist([Known EXCEPT !.installed = @ \cup {u}])
        PROVE  IInv'
    <3>1. u \in Files /\ Resumable(op.s)
      BY <2>1 DEF DataInv, DataType, CompleteLeavesNothing, PrivateStateIsTrue, FileType, Phases
    <3>2. UNCHANGED << logged, bundles, relay >> BY <1>1 DEF Discover
    <3>3. /\ file' \in [Sessions -> FileType]
          /\ \A t \in Sessions : t # op.s => file'[t] = file[t]
          /\ file'[op.s].phase = file[op.s].phase
          /\ file'[op.s].installed = file[op.s].installed \cup {u}
          /\ file'[op.s].recorded = file[op.s].recorded
          /\ file'[op.s].acknowledged = file[op.s].acknowledged
      BY <2>1, <2>3, <3>1, InstalledIsPersisted DEF DataInv
    <3>4. DataInv'
      BY <2>1, <2>3, <3>1, <3>2, <3>3, OneFileChanges DEF DataInv, DataType, PrivateStateIsTrue
    <3> QED BY <2>1, <2>3, <3>1, <3>2, <3>3, <3>4
  <2> QED BY <1>1, <2>2, <2>3 DEF Discover
<1>2. CASE Record
  <2>1. op \in OpType /\ op.at = "record" /\ op.s \in Sessions BY <1>2 DEF Record
  <2>2. PICK u \in ToRecord : RecordBatch(u) /\ GotoWith("recorded", u) BY <1>2 DEF Record
  <2>3. u \in Files /\ u \in file[op.s].installed /\ u \notin file[op.s].recorded
    BY <2>1 DEF ToRecord, DataInv, DataType, FileType
  <2>4. Resumable(op.s)
    BY <2>1, <2>3 DEF DataInv, DataType, CompleteLeavesNothing, PrivateStateIsTrue, FileType, Phases
  <2>5. /\ op' \in OpType /\ op'.at = "recorded" /\ op'.s = op.s
        /\ op'.u = u /\ op'.then = op.then
    BY <2>1, <2>2, <2>3, GotoWithIs DEF Stages
  <2>6. UNCHANGED << file, bundles, relay >> BY <1>2 DEF Record
  <2>7. /\ logged' \in [Files -> Nat] /\ logged'[u] = 1
        /\ \A w \in Files : w # u => logged'[w] = logged[w]
    BY <2>2, <2>3 DEF RecordBatch, DataInv, DataType, RecordedOnce
  <2>8. DataType' /\ RecordedOnce' BY <2>6, <2>7 DEF DataInv, DataType, RecordedOnce
  <2>9. AcknowledgedIsDurable' /\ PrivateStateIsTrue'
    <3>1. \A w \in Files : logged[w] > 0 => logged'[w] > 0 BY <2>7
    <3>2. \A s \in Sessions : relay[s].acked \subseteq Files BY DEF DataInv, DataType, RelayType
    <3>3. AcknowledgedIsDurable' BY <2>6, <3>1, <3>2 DEF DataInv, AcknowledgedIsDurable
    <3>4. PrivateStateIsTrue' BY <2>6, <3>1 DEF DataInv, PrivateStateIsTrue
    <3> QED BY <3>3, <3>4
  <2>10. CompleteLeavesNothing' /\ OneSession' /\ SessionsBegin'
    BY <2>6 DEF DataInv, CompleteLeavesNothing, OneSession, SessionsBegin, Fresh
  <2>11. DataInv' BY <2>8, <2>9, <2>10 DEF DataInv
  <2>12. logged'[u] > 0 BY <2>7
  <2>13. op.then = "listed" => u = op.u BY <2>2 DEF ToRecord
  <2> QED BY <2>1, <2>3, <2>4, <2>5, <2>6, <2>11, <2>12, <2>13
<1>3. CASE RecordRefused
  <2>1. UNCHANGED << logged, file, bundles, relay >> BY <1>3 DEF RecordRefused
  <2>2. CASE op.then = "completeListed"
    <3>1. op' \in OpType /\ op'.at = "next" /\ op'.s = op.s /\ op'.then = "listed"
      BY <1>3, <2>2 DEF RecordRefused, Failed, OpType, Stages, Thens
    <3> QED BY <1>0, <1>3, <2>1, <2>2, <3>1 DEF RecordRefused
  <2>3. CASE op.then # "completeListed"
    BY <1>0, <1>3, <2>1, <2>3, IdleHolds DEF RecordRefused, Failed
  <2> QED BY <2>2, <2>3
<1>4. CASE Recorded
  <2>1. op \in OpType /\ op.at = "recorded" /\ op.s \in Sessions /\ op.u \in Files
    BY <1>4 DEF Recorded
  <2>2. op' \in OpType /\ op'.at = "record" /\ op'.s = op.s /\ op'.u = op.u /\ op'.then = op.then
    BY <1>4, <2>1, GotoIs DEF Recorded, Stages
  <2>3. UNCHANGED << logged, bundles, relay >> BY <1>4 DEF Recorded
  <2>4. /\ file' \in [Sessions -> FileType]
        /\ \A t \in Sessions : t # op.s => file'[t] = file[t]
        /\ file'[op.s].phase = file[op.s].phase
        /\ file'[op.s].installed = file[op.s].installed
        /\ file'[op.s].recorded = file[op.s].recorded \cup {op.u}
        /\ file'[op.s].acknowledged = file[op.s].acknowledged
    BY <1>4, <2>1, RecordedIsPersisted DEF Recorded, DataInv
  <2>5. DataInv' BY <2>1, <2>3, <2>4, OneFileChanges DEF DataInv, DataType, PrivateStateIsTrue
  <2> QED BY <2>1, <2>2, <2>3, <2>4, <2>5
<1>5. CASE AllRecorded
  <2>1. UNCHANGED << logged, file, bundles, relay >> BY <1>5 DEF AllRecorded
  <2>2. op \in OpType /\ op.at = "record" BY <1>5 DEF AllRecorded
  <2>3. CASE op' = Idle BY <1>0, <2>1, <2>3, IdleHolds
  <2>4. ASSUME NEW place \in {"closing", "complete", "acknowledge"}, Goto(place),
               place = "closing" => op.then = "closing",
               place = "complete" => op.then \in {"complete", "completeListed"},
               place = "acknowledge" =>
                 op.then = "listed" \/ (op.then = "acknowledge" /\ Known.phase = "Waiting")
        PROVE  IInv'
    <3>1. op' \in OpType /\ op'.at = place /\ op'.s = op.s /\ op'.u = op.u /\ op'.then = op.then
      BY <2>2, <2>4, GotoIs DEF Stages
    <3> QED BY <1>0, <1>5, <2>1, <2>2, <2>4, <3>1 DEF AllRecorded, ToRecord
  <2> QED BY <1>5, <2>2, <2>3, <2>4 DEF AllRecorded, OpType, Thens
<1> QED BY <1>1, <1>2, <1>3, <1>4, <1>5

-----------------------------------------------------------------------------
(* Acknowledging. *)

(* Acknowledging keeps the invariant: only a submission the file calls      *)
(* recorded is acknowledged, so its bundle is published and its event in    *)
(* the log.                                                                 *)
LEMMA AcknowledgingHolds ==
  ASSUME IInv, Acknowledge \/ AcknowledgeRefused \/ Acknowledged \/ AllAcknowledged
  PROVE  IInv'
<1> USE DEF IInv, OpInv, OpHolds, OpKnows, OpFinishes, Recording, Receiving, Ending, Resumable,
            Unclaimed, Known, At, Open
<1>0. UNCHANGED << logged, file, bundles, relay >> => DataInv' BY DataFrame
<1>1. CASE Acknowledge
  <2>1. op \in OpType /\ op.at = "acknowledge" /\ op.s \in Sessions BY <1>1 DEF Acknowledge
  <2>2. PICK u \in ToAcknowledge :
          /\ u \in file[op.s].recorded
          /\ relay' = [relay EXCEPT ![op.s].pending = @ \ {u}, ![op.s].acked = @ \cup {u}]
          /\ GotoWith("acknowledged", u) \/ op' = Idle
    BY <1>1 DEF Acknowledge, Interrupted
  <2>3. u \in Files /\ u \in bundles[op.s] /\ logged[u] > 0
    BY <2>1, <2>2 DEF DataInv, DataType, FileType, PrivateStateIsTrue
  <2>4. UNCHANGED << logged, file, bundles >> BY <1>1 DEF Acknowledge
  <2>5. /\ relay' \in [Sessions -> RelayType]
        /\ relay'[op.s].status = relay[op.s].status
        /\ relay'[op.s].acked = relay[op.s].acked \cup {u}
        /\ \A t \in Sessions : t # op.s => relay'[t] = relay[t]
    BY <2>1, <2>2, <2>3, SMTT(30) DEF DataInv, DataType, RelayType
  <2>6. DataType' /\ RecordedOnce' BY <2>4, <2>5 DEF DataInv, DataType, RecordedOnce
  <2>7. AcknowledgedIsDurable' BY <2>3, <2>4, <2>5 DEF DataInv, AcknowledgedIsDurable
  <2>8. PrivateStateIsTrue'
    <3>1. \A s \in Sessions : relay[s].acked \subseteq relay'[s].acked BY <2>5
    <3> QED BY <2>4, <3>1 DEF DataInv, PrivateStateIsTrue
  <2>9. CompleteLeavesNothing' /\ OneSession'
    BY <2>4, <2>5 DEF DataInv, CompleteLeavesNothing, OneSession
  <2>10. SessionsBegin' BY <2>1, <2>4, <2>5 DEF DataInv, SessionsBegin, Fresh
  <2>11. DataInv' BY <2>6, <2>7, <2>8, <2>9, <2>10 DEF DataInv
  <2>12. CASE op' = Idle BY <2>11, <2>12, IdleHolds
  <2>13. CASE GotoWith("acknowledged", u)
    <3>1. /\ op' \in OpType /\ op'.at = "acknowledged" /\ op'.s = op.s
          /\ op'.u = u /\ op'.then = op.then
      BY <2>1, <2>3, <2>13, GotoWithIs DEF Stages
    <3> QED BY <2>1, <2>2, <2>3, <2>4, <2>5, <2>11, <3>1
  <2> QED BY <2>2, <2>12, <2>13
<1>2. CASE AcknowledgeRefused
  BY <1>0, <1>2, IdleHolds DEF AcknowledgeRefused
<1>3. CASE Acknowledged
  <2>1. op \in OpType /\ op.at = "acknowledged" /\ op.s \in Sessions /\ op.u \in Files
    BY <1>3 DEF Acknowledged
  <2>2. op' \in OpType /\ op'.at = "acknowledge" /\ op'.s = op.s /\ op'.u = op.u /\ op'.then = op.then
    BY <1>3, <2>1, GotoIs DEF Acknowledged, Stages
  <2>3. UNCHANGED << logged, bundles, relay >> BY <1>3 DEF Acknowledged
  <2>4. /\ file' \in [Sessions -> FileType]
        /\ \A t \in Sessions : t # op.s => file'[t] = file[t]
        /\ file'[op.s].phase = file[op.s].phase
        /\ file'[op.s].installed = file[op.s].installed
        /\ file'[op.s].recorded = file[op.s].recorded
        /\ file'[op.s].acknowledged = file[op.s].acknowledged \cup {op.u}
    BY <1>3, <2>1, AcknowledgedIsPersisted DEF Acknowledged, DataInv
  <2>5. DataInv' BY <2>1, <2>3, <2>4, OneFileChanges DEF DataInv, DataType, PrivateStateIsTrue
  <2> QED BY <2>1, <2>2, <2>3, <2>4, <2>5
<1>4. CASE AllAcknowledged
  <2>1. UNCHANGED << logged, file, bundles, relay >> BY <1>4 DEF AllAcknowledged
  <2>2. op' \in OpType /\ op'.at \in {"next", "list"} /\ op'.s = op.s /\ op'.then = op.then
        /\ (op'.at = "next" => op.then = "listed")
    BY <1>4, GotoIs DEF AllAcknowledged, Stages
  <2> QED BY <1>0, <1>4, <2>1, <2>2 DEF AllAcknowledged
<1> QED BY <1>1, <1>2, <1>3, <1>4

-----------------------------------------------------------------------------
(* Picking up. *)

(* Picking up keeps the invariant: a bundle is published before the file    *)
(* names it, and the session cannot end while one is in hand.               *)
LEMMA PickingUpHolds ==
  ASSUME IInv, \/ List \/ PickUp \/ PickUpTooLate
                \/ Publish \/ Installed \/ InstallFails \/ ImportEnds
  PROVE  IInv'
<1> USE DEF IInv, OpInv, OpHolds, OpKnows, OpFinishes, Recording, Receiving, Ending, Resumable,
            Unclaimed, Known, At, Open
<1>0. UNCHANGED << logged, file, bundles, relay >> => DataInv' BY DataFrame
<1>1. CASE List
  <2>1. UNCHANGED << logged, file, bundles, relay >> BY <1>1 DEF List
  <2>2. CASE Open(op.s)
    <3>1. op' \in OpType /\ op'.at = "next" /\ op'.s = op.s /\ op'.then = "listed"
      BY <1>1, <2>2, ZenonT(40) DEF List, OpType, Stages, Thens, DataInv, DataType, RelayType
    <3> QED BY <1>0, <1>1, <2>1, <3>1 DEF List
  <2>3. CASE ~ Open(op.s)
    <3>1. op' \in OpType /\ op'.at = "discover" /\ op'.s = op.s /\ op'.then = "complete"
      BY <1>1, <2>3, RecordPendingIs DEF List, Thens
    <3> QED BY <1>0, <1>1, <2>1, <2>3, <3>1 DEF List
  <2> QED BY <2>2, <2>3
<1>2. CASE PickUp
  <2>1. UNCHANGED << logged, file, bundles, relay >> BY <1>2 DEF PickUp
  <2>2. PICK u \in op.todo \ Known.installed :
          Take(u, IF u \in Spoiled THEN "next" ELSE "publish", "listed")
    BY <1>2 DEF PickUp
  <2>3. u \in Files BY <2>2 DEF OpType
  <2>4. /\ op' \in OpType /\ op'.at \in {"next", "publish"} /\ op'.s = op.s
        /\ op'.u = u /\ op'.then = "listed"
    BY <2>2, <2>3, TakeIs DEF Stages, Thens
  <2> QED BY <1>0, <1>2, <2>1, <2>3, <2>4 DEF PickUp
<1>3. CASE PickUpTooLate
  <2>1. UNCHANGED << logged, file, bundles, relay >> BY <1>3 DEF PickUpTooLate
  <2>2. PICK u \in op.todo \ Known.installed : Take(u, "discover", "completeListed")
    BY <1>3 DEF PickUpTooLate
  <2>3. u \in Files BY <2>2 DEF OpType
  <2>4. /\ op' \in OpType /\ op'.at = "discover" /\ op'.s = op.s
        /\ op'.then = "completeListed"
    BY <2>2, <2>3, TakeIs DEF Stages, Thens
  <2> QED BY <1>0, <1>3, <2>1, <2>4 DEF PickUpTooLate
<1>4. CASE Publish
  <2>1. /\ op \in OpType /\ op.at = "publish" /\ op.s \in Sessions /\ op.u \in Files
        /\ file[op.s].phase = "Waiting"
    BY <1>4 DEF Publish
  <2>2. op' \in OpType /\ op'.at = "installed" /\ op'.s = op.s /\ op'.u = op.u /\ op'.then = op.then
    BY <1>4, <2>1, GotoIs DEF Publish, Stages
  <2>3. UNCHANGED << logged, file, relay >> BY <1>4 DEF Publish
  <2>4. /\ bundles' \in [Sessions -> SUBSET Files]
        /\ bundles'[op.s] = bundles[op.s] \cup {op.u}
        /\ \A t \in Sessions : t # op.s => bundles'[t] = bundles[t]
    BY <1>4, <2>1 DEF Publish, DataInv, DataType
  <2>5. \A s \in Sessions : bundles[s] \subseteq bundles'[s] BY <2>4
  <2>6. DataType' /\ RecordedOnce' /\ OneSession'
    BY <2>3, <2>4 DEF DataInv, DataType, RecordedOnce, OneSession
  <2>7. AcknowledgedIsDurable' /\ PrivateStateIsTrue'
    BY <2>3, <2>5 DEF DataInv, AcknowledgedIsDurable, PrivateStateIsTrue
  <2>8. CompleteLeavesNothing' /\ SessionsBegin'
    BY <2>1, <2>3, <2>4 DEF DataInv, CompleteLeavesNothing, SessionsBegin, Fresh
  <2>9. DataInv' BY <2>6, <2>7, <2>8 DEF DataInv
  <2> QED BY <2>1, <2>2, <2>3, <2>4, <2>9
<1>5. CASE Installed
  <2>1. op \in OpType /\ op.at = "installed" /\ op.s \in Sessions /\ op.u \in Files
    BY <1>5 DEF Installed
  <2>2. op' \in OpType /\ op'.at = "record" /\ op'.s = op.s /\ op'.u = op.u /\ op'.then = op.then
    BY <1>5, <2>1, GotoIs DEF Installed, Stages
  <2>3. UNCHANGED << logged, bundles, relay >> BY <1>5 DEF Installed
  <2>4. /\ file' \in [Sessions -> FileType]
        /\ \A t \in Sessions : t # op.s => file'[t] = file[t]
        /\ file'[op.s].phase = file[op.s].phase
        /\ file'[op.s].installed = file[op.s].installed \cup {op.u}
        /\ file'[op.s].recorded = file[op.s].recorded
        /\ file'[op.s].acknowledged = file[op.s].acknowledged
    BY <1>5, <2>1, InstalledIsPersisted DEF Installed, DataInv
  <2>5. DataInv' BY <2>1, <2>3, <2>4, OneFileChanges DEF DataInv, DataType, PrivateStateIsTrue
  <2> QED BY <2>1, <2>2, <2>3, <2>4, <2>5
<1>6. CASE InstallFails
  <2>1. UNCHANGED << logged, file, bundles, relay >> BY <1>6 DEF InstallFails
  <2>2. op' \in OpType /\ op'.at = "next" /\ op'.s = op.s /\ op'.then = "listed"
    <3>1. CASE op.at = "next"
      <4>1. PICK u \in op.todo \ Known.installed : Take(u, "next", "listed")
        BY <1>6, <3>1 DEF InstallFails
      <4>2. u \in Files BY <4>1 DEF OpType
      <4> QED BY <4>1, <4>2, TakeIs DEF Stages, Thens
    <3>2. CASE op.then = "completeListed"
      <4>1. op' = [op EXCEPT !.at = "next", !.then = "listed"] BY <1>6, <3>2 DEF InstallFails, Failed
      <4> QED BY <4>1 DEF OpType, Stages, Thens
    <3>3. CASE op.at # "next" /\ op.then # "completeListed"
      BY <1>6, <3>3, GotoIs DEF InstallFails, Stages, OpType
    <3> QED BY <3>1, <3>2, <3>3
  <2> QED BY <1>0, <1>6, <2>1, <2>2 DEF InstallFails
<1>7. CASE ImportEnds
  BY <1>0, <1>7, IdleHolds DEF ImportEnds
<1> QED BY <1>1, <1>2, <1>3, <1>4, <1>5, <1>6, <1>7

-----------------------------------------------------------------------------

(* The end of the relay's session, by a close or by itself, takes nothing   *)
(* back of what was acknowledged.                                           *)
LEMMA RelayEnds ==
  ASSUME DataInv, UNCHANGED << logged, file, bundles >>, NEW s \in Sessions,
         relay[s].status # "none", relay' \in [Sessions -> RelayType],
         relay'[s].status \in {"closed", "expired"}, relay'[s].acked = relay[s].acked,
         \A t \in Sessions : t # s => relay'[t] = relay[t]
  PROVE  DataInv'
BY DEF DataInv, DataType, AcknowledgedIsDurable, RecordedOnce, PrivateStateIsTrue,
       CompleteLeavesNothing, OneSession, SessionsBegin, Fresh, Resumable, Open

-----------------------------------------------------------------------------
(* Closing. *)

(* Closing keeps the invariant: the session is complete only after all its  *)
(* bundles were recorded and the relay closed it, or had ended it.          *)
LEMMA ClosingHolds ==
  ASSUME IInv, Closing \/ Close \/ CloseTooLate \/ Complete
  PROVE  IInv'
<1> USE DEF IInv, OpInv, OpHolds, OpKnows, OpFinishes, Recording, Receiving, Ending, Resumable,
            Unclaimed, Known, At, Open
<1>0. UNCHANGED << logged, file, bundles, relay >> => DataInv' BY DataFrame
<1>1. ASSUME NEW phase \in {"ClosePending", "Complete"}, Persist([Known EXCEPT !.phase = phase]),
             op.at \in Ending, phase = "Complete" => op.at = "complete",
             UNCHANGED << logged, bundles, relay >>
      PROVE  /\ file' \in [Sessions -> FileType]
             /\ file'[op.s].phase = phase
             /\ file'[op.s].recorded = file[op.s].recorded
             /\ DataInv'
  <2>1. op.s \in Sessions /\ Resumable(op.s) BY <1>1
  <2>2. /\ file' \in [Sessions -> FileType]
        /\ \A t \in Sessions : t # op.s => file'[t] = file[t]
        /\ file'[op.s].phase = phase
        /\ file'[op.s].installed = file[op.s].installed
        /\ file'[op.s].recorded = file[op.s].recorded
        /\ file'[op.s].acknowledged = file[op.s].acknowledged
    BY <1>1, <2>1, PhaseIsPersisted DEF DataInv
  <2>3. /\ file[op.s].installed \subseteq bundles[op.s]
        /\ file[op.s].recorded \subseteq file[op.s].installed
        /\ \A u \in file[op.s].recorded : logged[u] > 0
        /\ file[op.s].acknowledged \subseteq file[op.s].recorded
        /\ file[op.s].acknowledged \subseteq relay[op.s].acked
    BY <2>1 DEF DataInv, PrivateStateIsTrue
  <2>4. phase = "Complete" => bundles[op.s] = file[op.s].recorded /\ ~ Open(op.s)
    BY <1>1, <2>3
  <2>5. DataInv' BY <1>1, <2>1, <2>2, <2>3, <2>4, OneFileChanges
  <2> QED BY <2>2, <2>5
<1>2. CASE Closing
  <2>1. op \in OpType /\ op.at = "closing" /\ op.s \in Sessions BY <1>2 DEF Closing
  <2>2. op' \in OpType /\ op'.at = "close" /\ op'.s = op.s /\ op'.then = op.then
    BY <1>2, <2>1, GotoIs DEF Closing, Stages
  <2>3. UNCHANGED << logged, bundles, relay >> BY <1>2 DEF Closing
  <2>4. /\ file'[op.s].phase = "ClosePending"
        /\ file'[op.s].recorded = file[op.s].recorded
        /\ DataInv'
    BY <1>1, <1>2, <2>1, <2>3 DEF Closing
  <2> QED BY <2>1, <2>2, <2>3, <2>4
<1>3. CASE Close
  <2>1. op \in OpType /\ op.at = "close" /\ op.s \in Sessions BY <1>3 DEF Close
  <2>2. UNCHANGED << logged, file, bundles >> BY <1>3 DEF Close
  <2>3. /\ relay' \in [Sessions -> RelayType]
        /\ relay'[op.s].status = "closed" /\ relay'[op.s].acked = relay[op.s].acked
        /\ \A t \in Sessions : t # op.s => relay'[t] = relay[t]
    BY <1>3, <2>1 DEF Close, DataInv, DataType, RelayType
  <2>4. relay[op.s].status # "none" BY <1>3 DEF Close
  <2>5. DataInv' BY <2>1, <2>2, <2>3, <2>4, RelayEnds
  <2>6. CASE op' = Idle BY <2>5, <2>6, IdleHolds
  <2>7. CASE Goto("complete")
    <3>1. op' \in OpType /\ op'.at = "complete" /\ op'.s = op.s /\ op'.then = op.then
      BY <2>1, <2>7, GotoIs DEF Stages
    <3> QED BY <2>1, <2>2, <2>3, <2>5, <3>1
  <2> QED BY <1>3, <2>6, <2>7 DEF Close, Interrupted
<1>4. CASE CloseTooLate
  <2>1. UNCHANGED << logged, file, bundles, relay >> BY <1>4 DEF CloseTooLate
  <2>2. op' \in OpType /\ op'.at = "discover" /\ op'.s = op.s /\ op'.then = "complete"
    BY <1>4, RecordPendingIs DEF CloseTooLate, Thens
  <2> QED BY <1>0, <1>4, <2>1, <2>2 DEF CloseTooLate
<1>5. CASE Complete
  <2>1. UNCHANGED << logged, bundles, relay >> /\ op' = Idle BY <1>5 DEF Complete
  <2>2. DataInv' BY <1>1, <1>5, <2>1 DEF Complete
  <2> QED BY <2>1, <2>2, IdleHolds
<1> QED BY <1>2, <1>3, <1>4, <1>5

-----------------------------------------------------------------------------
(* Whatever else happens. *)

(* A crash, a drop, an expiry and the user's own commands keep the          *)
(* invariant at every point of an operation.                                *)
LEMMA OthersHold ==
  ASSUME IInv, \/ Stop \/ Leave \/ User \/ UNCHANGED vars
                \/ \E s \in Sessions : Expire(s) \/ \E u \in Files : Drop(s, u)
  PROVE  IInv'
<1> USE DEF IInv, OpInv, OpHolds, OpKnows, OpFinishes, Recording, Receiving, Ending, Resumable,
            Unclaimed, Known, At, Open
<1>0. UNCHANGED << logged, file, bundles, relay >> => DataInv' BY DataFrame
<1>1. CASE Stop
  BY <1>0, <1>1, IdleHolds DEF Stop, Interrupted
<1>2. ASSUME NEW s \in Sessions, NEW u \in Files, Drop(s, u) PROVE IInv'
  <2>1. UNCHANGED << logged, file, bundles, op >> BY <1>2 DEF Drop
  <2>2. /\ relay' \in [Sessions -> RelayType]
        /\ \A t \in Sessions : relay'[t].status = relay[t].status /\ relay'[t].acked = relay[t].acked
    BY <1>2 DEF Drop, DataInv, DataType, RelayType
  <2>3. DataInv'
    BY <2>1, <2>2 DEF DataInv, DataType, AcknowledgedIsDurable, RecordedOnce, PrivateStateIsTrue,
       CompleteLeavesNothing, OneSession, SessionsBegin, Fresh
  <2> QED BY <2>1, <2>2, <2>3
<1>3. ASSUME NEW s \in Sessions, Expire(s) PROVE IInv'
  <2>1. UNCHANGED << logged, file, bundles, op >> BY <1>3 DEF Expire
  <2>2. /\ relay' \in [Sessions -> RelayType]
        /\ relay'[s].status = "expired" /\ relay'[s].acked = relay[s].acked
        /\ \A t \in Sessions : t # s => relay'[t] = relay[t]
    BY <1>3 DEF Expire, DataInv, DataType, RelayType
  <2>3. DataInv' BY <1>3, <2>1, <2>2, RelayEnds DEF Expire
  <2>4. \A t \in Sessions : /\ relay'[t].acked = relay[t].acked
                            /\ relay'[t].status \in {relay[t].status, "expired"}
    BY <2>2
  <2> QED BY <2>1, <2>3, <2>4
<1>4. CASE User
  <2>1. UNCHANGED << logged, file, bundles, relay, op >> BY <1>4 DEF User
  <2> QED BY <1>0, <2>1
<1>5. CASE UNCHANGED vars
  <2>1. UNCHANGED << logged, file, bundles, relay, op >> BY <1>5 DEF vars
  <2> QED BY <1>0, <2>1
<1>6. CASE Leave
  <2>1. UNCHANGED << logged, file, bundles, relay, op >> BY <1>6 DEF Leave
  <2> QED BY <1>0, <2>1
<1> QED BY <1>1, <1>2, <1>3, <1>4, <1>5, <1>6

-----------------------------------------------------------------------------
(* The theorems. *)

(* The invariant holds always, whatever is interrupted wherever.            *)
THEOREM InvariantHolds == Spec => []IInv
<1>1. Init => IInv
  <2> SUFFICES ASSUME Init PROVE IInv OBVIOUS
  <2>1. op.at = "idle" /\ op.then = "nothing" /\ op \in OpType
    BY DEF Init, Idle, OpType, Stages, Thens
  <2>2. OpInv BY <2>1 DEF OpInv, OpHolds, OpKnows, OpFinishes, Recording, Receiving, Ending
  <2>3. DataInv
    BY DEF Init, DataInv, DataType, FileType, RelayType, Phases, NoFile, AcknowledgedIsDurable,
           RecordedOnce, PrivateStateIsTrue, CompleteLeavesNothing, OneSession, Resumable,
           SessionsBegin, Fresh, Open
  <2> QED BY <2>2, <2>3 DEF IInv
<1>2. IInv /\ [Next]_vars => IInv'
  BY StartingHolds, CommandHolds, RecordingHolds, AcknowledgingHolds, PickingUpHolds,
     ClosingHolds, OthersHold DEF Next, Proceed
<1> QED BY <1>1, <1>2, PTL DEF Spec

(* However often receiving stops and is tried again, the relay forgets a    *)
(* submission only after its files and its attachment event are durable.    *)
THEOREM AcknowledgedIsAlwaysDurable == Spec => []AcknowledgedIsDurable
<1>1. IInv => AcknowledgedIsDurable BY DEF IInv, DataInv
<1> QED BY <1>1, InvariantHolds, PTL

(* However often recording a bundle is tried, the log holds it once.        *)
THEOREM RecordedAtMostOnce == Spec => []RecordedOnce
<1>1. IInv => RecordedOnce BY DEF IInv, DataInv
<1> QED BY <1>1, InvariantHolds, PTL

(* What the private state file claims of a submission has happened.         *)
THEOREM PrivateStateIsAlwaysTrue == Spec => []PrivateStateIsTrue
<1>1. IInv => PrivateStateIsTrue BY DEF IInv, DataInv
<1> QED BY <1>1, InvariantHolds, PTL

(* A session is over only when nothing it installed is left unrecorded and  *)
(* the relay has ended it too.                                              *)
THEOREM CompleteNeverLeavesAnything == Spec => []CompleteLeavesNothing
<1>1. IInv => CompleteLeavesNothing BY DEF IInv, DataInv
<1> QED BY <1>1, InvariantHolds, PTL

(* An input never has two sessions in progress.                             *)
THEOREM OneSessionAtATime == Spec => []OneSession
<1>1. IInv => OneSession BY DEF IInv, DataInv
<1> QED BY <1>1, InvariantHolds, PTL

-----------------------------------------------------------------------------
(* Types. *)

(* Each event of a session or of its user takes a state to a state.         *)
LEMMA EventType ==
  ASSUME NEW s \in State, NEW e, NEW t \in Apply(s, e),
         e \in UserEvents \/ \E u \in Files : e = Batch(u)
  PROVE  t \in State
<1>0. /\ s.step \in StepSet /\ s.files \in FilesSet
      /\ TargetStep \in Steps /\ TargetInput \in Inputs
  BY TargetAssumption DEF State
<1>1. CASE e = [type |-> "ExecutionCompleted", outcome |-> "Pass"]
  <2>1. t = [s EXCEPT !.status = "Pass"]
    BY <1>1 DEF Apply, ExecutionCompleted, Result
  <2> QED BY <2>1 DEF State, StatusSet, Outcomes
<1>2. CASE e = [type |-> "ExecutionReopened"]
  <2>1. t = [s EXCEPT !.status = "Active"]
    BY <1>2 DEF Apply, ExecutionReopened, Result
  <2> QED BY <2>1 DEF State, StatusSet
<1>3. CASE e = [type |-> "StepSkipped", step |-> TargetStep]
  <2>1. t = [s EXCEPT !.step[TargetStep] = "skipped"]
    BY <1>3 DEF Apply, StepSkipped, Result
  <2>2. [s.step EXCEPT ![TargetStep] = "skipped"] \in StepSet
    BY <1>0 DEF StepSet
  <2> QED BY <2>1, <2>2 DEF State
<1>4. CASE e = [type |-> "StepUnskipped", step |-> TargetStep]
  <2>1. t = [s EXCEPT !.step[TargetStep] = "present"]
    BY <1>4 DEF Apply, StepUnskipped, Result
  <2>2. [s.step EXCEPT ![TargetStep] = "present"] \in StepSet
    BY <1>0 DEF StepSet
  <2> QED BY <2>1, <2>2 DEF State
<1>5. ASSUME NEW u \in Files,
             e = [type |-> "AttachmentFileRemoved", step |-> TargetStep, input |-> TargetInput,
                  file |-> u]
      PROVE  t \in State
  <2>1. /\ s.files[TargetStep][TargetInput][u] > 0
        /\ t = [s EXCEPT !.files[TargetStep][TargetInput][u] = @ - 1]
    BY <1>5 DEF Apply, AttachmentFileRemoved, Result, OnInput
  <2>2. [s.files EXCEPT ![TargetStep] = [s.files[TargetStep] EXCEPT ![TargetInput] =
           [s.files[TargetStep][TargetInput] EXCEPT
              ![u] = s.files[TargetStep][TargetInput][u] - 1]]] \in FilesSet
    BY <1>0, <2>1 DEF FilesSet
  <2> QED BY <2>1, <2>2 DEF State
<1>6. ASSUME NEW u \in Files, e = Batch(u) PROVE t \in State
  <2> DEFINE added == [f \in Files |-> s.files[TargetStep][TargetInput][f] + Occurrences(f, << u >>)]
  <2>1. t = [s EXCEPT !.files[TargetStep][TargetInput] = added]
    BY <1>6 DEF Batch, Apply, AttachmentsAdded, Attach, Result
  <2>2. ASSUME NEW f \in Files PROVE Occurrences(f, << u >>) \in Nat
    <3>1. {k \in {1} : << u >>[k] = f} \subseteq {1} /\ DOMAIN << u >> = {1}
      OBVIOUS
    <3> QED BY <3>1, FS_Singleton, FS_Subset, FS_CardinalityType DEF Occurrences
  <2>3. added \in [Files -> Nat]
    BY <1>0, <2>2 DEF FilesSet
  <2> HIDE DEF added
  <2>4. [s.files EXCEPT ![TargetStep] = [s.files[TargetStep] EXCEPT ![TargetInput] = added]]
          \in FilesSet
    BY <1>0, <2>3 DEF FilesSet
  <2> QED BY <2>1, <2>4 DEF State
<1> QED BY <1>1, <1>2, <1>3, <1>4, <1>5, <1>6 DEF UserEvents

(* What the invariant leaves out: the execution, the dialog and the bound.  *)
RestType == exec \in State /\ shown \in Sessions \cup {None} /\ stops \in 0..MaxStops

(* Every step keeps their types.                                            *)
LEMMA RestStep ==
  ASSUME IInv, RestType, [Next]_vars
  PROVE  RestType'
<1> USE DEF RestType
<1>1. exec' \in State
  <2>1. \/ exec' = exec
        \/ \E u \in Files : exec' \in Apply(exec, Batch(u))
        \/ \E e \in UserEvents : exec' \in Apply(exec, e)
    <3>1. CASE Record
      <4>1. PICK u \in ToRecord : RecordBatch(u)
        BY <3>1 DEF Record
      <4>2. op.s \in Sessions /\ (op.then = "listed" => op.u \in Known.installed)
        BY <3>1 DEF IInv, OpInv, OpHolds, OpKnows, Recording, Known, Record, At
      <4>3. Known.installed \subseteq Files
        BY <4>2 DEF IInv, DataInv, DataType, FileType, Known
      <4>4. u \in Files
        BY <4>2, <4>3 DEF ToRecord
      <4> QED BY <4>1, <4>4 DEF RecordBatch
    <3>2. CASE User
      BY <3>2 DEF User
    <3>3. CASE exec' = exec
      BY <3>3, SMTT(30)
    <3> QED BY <3>1, <3>2, <3>3
            DEF Next, Proceed, vars, Insert, Discover, RecordRefused, Recorded, AllRecorded,
                Acknowledge, AcknowledgeRefused, Acknowledged, AllAcknowledged, List, PickUp,
                PickUpTooLate, Publish, Installed, ImportEnds, Closing, Close, CloseTooLate,
                Complete, SetupFails, InstallFails, Stop, Start, Resume, Import, Poll, Cancel,
                Expire, Drop, Leave
  <2> QED BY <2>1, EventType, SMTT(30)
<1>2. shown' \in Sessions \cup {None}
  <2>1. At("insert") => op.s \in Sessions
    BY DEF IInv, OpInv, OpHolds, At
  <2> QED BY <2>1, ZenonT(40)
          DEF Next, Proceed, vars, Insert, Discover, Record, RecordRefused, Recorded, AllRecorded,
              Acknowledge, AcknowledgeRefused, Acknowledged, AllAcknowledged, List, PickUp,
              PickUpTooLate, Publish, Installed, ImportEnds, Closing, Close, CloseTooLate,
              Complete, SetupFails, InstallFails, Stop, Start, Resume, Import, Poll, Cancel,
              Expire, Drop, Leave, User
<1>3. stops' \in 0..MaxStops
  <2>1. stops' = stops \/ (stops < MaxStops /\ stops' = stops + 1)
    BY DEF Next, Proceed, vars, Insert, Discover, Record, RecordRefused, Recorded, AllRecorded,
           Acknowledge, AcknowledgeRefused, Acknowledged, AllAcknowledged, List, PickUp,
           PickUpTooLate, Publish, Installed, ImportEnds, Closing, Close, CloseTooLate,
           Complete, SetupFails, InstallFails, Stop, Start, Resume, Import, Poll, Cancel,
           Expire, Drop, Leave, User, Interrupted
  <2> QED BY <2>1, StopsAssumption
<1> QED BY <1>1, <1>2, <1>3

(* Every variable has its type, and every private state file passes the     *)
(* check made when it is read, for any finite number of interruptions.      *)
THEOREM DropPointTypeCorrect == Spec => []TypeOK
<1>1. Init => RestType
  BY TargetAssumption, StopsAssumption DEF Init, RestType
<1>2. IInv /\ RestType /\ [Next]_vars => RestType'
  BY RestStep
<1>3. IInv /\ RestType => TypeOK
  BY DEF IInv, OpInv, OpType, Thens, DataInv, DataType, RelayType, PrivateStateIsTrue, RestType, TypeOK
<1> QED BY <1>1, <1>2, <1>3, InvariantHolds, PTL DEF Spec
=============================================================================
