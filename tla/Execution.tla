------------------------------ MODULE Execution ------------------------------
(***************************************************************************)
(* One execution of a procedure, from its start to its end: the actions a  *)
(* client can ask for (procnote-app's ExecutionAction, decided by           *)
(* decide_action, and the upload page's decide_receive), each recorded      *)
(* atomically by the repository.  An action that the engine refuses leaves  *)
(* the execution as it is, so only accepted actions are steps.              *)
(***************************************************************************)
EXTENDS Engine

CONSTANTS
  Templates,  \* templates an execution can be started from
  Hash,       \* Hash[f]: the SHA-256 of the content stored at path f
  Batches,    \* the batches of files an action or an upload may bring
  MaxCopies   \* bound: how often one file may be in the execution at once

TemplateStep == [step : Steps, content : Contents]

(* A template's steps carry the ids `start` gives them, all different. *)
ASSUME TemplatesAssumption ==
  \A t \in Templates :
    /\ t \in Seq(TemplateStep)
    /\ \A j, k \in DOMAIN t : t[j].step = t[k].step => j = k

ASSUME BatchesAssumption == Batches \subseteq Seq(Files)

VARIABLE exec  \* the ExecutionState

vars == << exec >>

Init == exec = New

-----------------------------------------------------------------------------
(* Starting. *)

(* The template's entry for step i, if it has one. *)
TemplateHas(t, i)     == \E k \in DOMAIN t : t[k].step = i
TemplateContent(t, i) == t[CHOOSE k \in DOMAIN t : t[k].step = i].content

(* The state `start` leaves: it applies ExecutionStarted, an automatic name *)
(* and one StepAdded per template step.  MCExecution checks that this is    *)
(* what those events replay to.                                             *)
StartedFrom(t, name) ==
  [New EXCEPT
    !.status  = "Active",
    !.name    = name,
    !.order   = [k \in DOMAIN t |-> t[k].step],
    !.step    = [i \in Steps |-> IF TemplateHas(t, i) THEN "present" ELSE "absent"],
    !.content = [i \in Steps |-> IF TemplateHas(t, i) THEN TemplateContent(t, i) ELSE NoContent],
    !.checked = [i \in Steps |-> IF TemplateHas(t, i) THEN TemplateContent(t, i).ticked ELSE {}]]

StartEvents(t, name) ==
  << [type |-> "ExecutionStarted"], [type |-> "ExecutionRenamed", name |-> name] >>
    \o [k \in DOMAIN t |-> [type |-> "StepAdded", step |-> t[k].step,
                            content |-> t[k].content, after |-> None]]

Start(t, name) ==
  /\ exec.status = "Pending"
  /\ exec' = StartedFrom(t, name)

-----------------------------------------------------------------------------
(* Actions on a started execution: ExecutionAction, in its order. *)

(* How often file f is in the execution, wherever it is. *)
Placed(s, f) == {p \in Steps \X Inputs : s.files[p[1]][p[2]][f] > 0}
Copies(s, f) == s.inbox[f] + Cardinality(Placed(s, f))

SkipStep(i)              == exec' \in StepSkipped(exec, i)
UnskipStep(i)            == exec' \in StepUnskipped(exec, i)
ToggleCheckbox(i, b, on) == exec' \in CheckboxToggled(exec, i, b, on)
RecordInput(i, x, v)     == exec' \in InputRecorded(exec, i, x, v)
ClearInput(i, x)         == exec' \in InputCleared(exec, i, x)
AddNote(n, p)            == exec' \in NoteAdded(exec, n, p)
RemoveNote(n)            == exec' \in NoteRemoved(exec, n)
AddStep(i, c, after)     == exec' \in StepAdded(exec, i, c, after)

AddAttachments(i, x, batch) ==
  /\ \A k \in DOMAIN batch : Copies(exec, batch[k]) < MaxCopies
  /\ exec' \in AttachmentsAdded(exec, i, x, batch)

RemoveAttachmentFile(i, x, f) == exec' \in AttachmentFileRemoved(exec, i, x, f)
ClearAttachments(i, x)        == exec' \in AttachmentsCleared(exec, i, x)
AssignAttachment(i, x, f)     == exec' \in AttachmentAssigned(exec, i, x, f)
UnassignAttachment(i, x, f)   == exec' \in AttachmentUnassigned(exec, i, x, f)

Complete(outcome) == exec' \in ExecutionCompleted(exec, outcome)
Abort             == exec' \in ExecutionAborted(exec)
RenameExecution(name) == exec' \in ExecutionRenamed(exec, name)
ReopenExecution   == exec' \in ExecutionReopened(exec)

-----------------------------------------------------------------------------
(* Files received through the upload link. *)

(* has_content: the execution holds a file with this content. *)
HasContent(s, h) == \E f \in Files : Hash[f] = h /\ HasAttachmentPath(s, f)

(* decide_receive skips content the execution or an earlier file of the     *)
(* batch already has.  A file held under the same path has the same content *)
(* (paths are content-addressed), so the path test adds nothing here.       *)
Received(s, batch) ==
  {k \in DOMAIN batch :
     /\ ~ HasContent(s, Hash[batch[k]])
     /\ \A j \in 1..(k - 1) : Hash[batch[j]] # Hash[batch[k]]}

WithReceived(s, batch) ==
  [s EXCEPT !.inbox =
     [f \in Files |-> IF \E k \in Received(s, batch) : batch[k] = f THEN @[f] + 1 ELSE @[f]]]

(* With nothing new to receive the request succeeds and records nothing. *)
ReceiveFiles(batch) ==
  /\ Received(exec, batch) # {}
  /\ Active(exec)
  /\ exec' = WithReceived(exec, batch)

-----------------------------------------------------------------------------
Next ==
  \/ \E t \in Templates, name \in Names : Start(t, name)
  \/ \E i \in Steps : SkipStep(i)
  \/ \E i \in Steps : UnskipStep(i)
  \/ \E i \in Steps, b \in Boxes, on \in BOOLEAN : ToggleCheckbox(i, b, on)
  \/ \E i \in Steps, x \in Inputs, v \in Values : RecordInput(i, x, v)
  \/ \E i \in Steps, x \in Inputs : ClearInput(i, x)
  \/ \E n \in Notes, p \in Places : AddNote(n, p)
  \/ \E n \in Notes : RemoveNote(n)
  \/ \E i \in Steps, c \in Contents, after \in Steps \cup {None} : AddStep(i, c, after)
  \/ \E i \in Steps, x \in Inputs, batch \in Batches : AddAttachments(i, x, batch)
  \/ \E i \in Steps, x \in Inputs, f \in Files : RemoveAttachmentFile(i, x, f)
  \/ \E i \in Steps, x \in Inputs : ClearAttachments(i, x)
  \/ \E i \in Steps, x \in Inputs, f \in Files : AssignAttachment(i, x, f)
  \/ \E i \in Steps, x \in Inputs, f \in Files : UnassignAttachment(i, x, f)
  \/ \E outcome \in Outcomes : Complete(outcome)
  \/ Abort
  \/ \E name \in Names : RenameExecution(name)
  \/ ReopenExecution
  \/ \E batch \in Batches : ReceiveFiles(batch)

Spec == Init /\ [][Next]_vars

-----------------------------------------------------------------------------
(* Properties. *)

(* The state is an ExecutionState; in particular no count goes below zero,  *)
(* whatever is removed, cleared, assigned and returned in whatever order.   *)
TypeOK == exec \in State

(* A step that is skipped (or was never added) holds nothing an operator    *)
(* recorded: StepSkipped refuses a step with captured data, and no later    *)
(* event may put data on a step while it is skipped.  Otherwise a report    *)
(* would leave out, as skipped, a step that was performed.                  *)
SkippedStepIsEmpty ==
  \A i \in Steps : exec.step[i] # "present" => ~ HasCapturedData(exec, i)

(* step_order lists every added step exactly once, wherever steps were      *)
(* inserted: it and the steps map never drift apart.                        *)
StepOrderIsExact ==
  /\ \A j, k \in DOMAIN exec.order : exec.order[j] = exec.order[k] => j = k
  /\ \A i \in Steps :
       exec.step[i] # "absent" <=> \E k \in DOMAIN exec.order : exec.order[k] = i

(* A note id names one note of the whole execution: NoteRemoved, which      *)
(* carries no step, can only remove the note that was meant.                *)
NoteIdsAreUnique ==
  \A n \in Notes : \A p, q \in Places :
    exec.notes[p][n] > 0 /\ exec.notes[q][n] > 0 => p = q /\ exec.notes[p][n] = 1

(* Everything captured on a step belongs to an element of the step: values  *)
(* to scalar inputs, files to attachment inputs, ticks to its checkboxes.   *)
(* So no input ever holds both a value and files, whichever of the five     *)
(* handlers that put something on an input ran in between.                  *)
CaptureIsDeclared ==
  \A i \in Steps :
    /\ exec.checked[i] \subseteq exec.content[i].boxes
    /\ \A x \in Inputs :
         /\ exec.value[i][x] # None => x \in exec.content[i].scalar
         /\ OnInput(exec, i, x) # {} => x \in exec.content[i].attach

(* No file is twice on the same input, whether it came as a batch or from   *)
(* the inbox: removing it once removes it.                                  *)
NoFileTwiceOnInput ==
  \A i \in Steps, x \in Inputs, f \in Files : exec.files[i][x][f] \in {0, 1}

(* What an action records can be taken back: the reversing event the        *)
(* concepts page pairs with it applies in the state it leads to and brings  *)
(* back the state before it.                                                *)
ReversalRestores ==
  /\ \A i \in Steps :
       \A t \in StepSkipped(exec, i) : exec \in StepUnskipped(t, i)
  /\ \A i \in Steps, x \in Inputs :
       /\ \A v \in Values : \A t \in InputRecorded(exec, i, x, v) : exec \in InputCleared(t, i, x)
       /\ \A f \in Files :
            /\ \A t \in AttachmentsAdded(exec, i, x, << f >>) :
                 exec \in AttachmentFileRemoved(t, i, x, f)
            /\ \A t \in AttachmentAssigned(exec, i, x, f) :
                 exec \in AttachmentUnassigned(t, i, x, f)
  /\ \A n \in Notes, p \in Places :
       \A t \in NoteAdded(exec, n, p) : exec \in NoteRemoved(t, n)
  /\ \A outcome \in Outcomes :
       \A t \in ExecutionCompleted(exec, outcome) : exec \in ExecutionReopened(t)

(* A finished execution is a record: until it is reopened nothing of it but *)
(* its name changes, and reopening itself changes nothing that was          *)
(* recorded.                                                                *)
FinishedRecordIsFrozen ==
  [][Finished(exec) =>
       \E outcome \in Outcomes \cup {"Active"}, name \in Names \cup {None} :
         exec' = [exec EXCEPT !.status = outcome, !.name = name]]_vars

(* A file someone uploaded is not lost on its way: it leaves the inbox only *)
(* for an input, one copy at a time, and an input's file goes back to the   *)
(* inbox without a copy staying behind.                                     *)
InboxNeverLosesFile ==
  [][\A f \in Files :
       exec'.inbox[f] < exec.inbox[f] =>
         /\ exec'.inbox[f] = exec.inbox[f] - 1
         /\ \E i \in Steps, x \in Inputs :
              exec'.files = [exec.files EXCEPT ![i][x][f] = @ + 1]]_vars
=============================================================================
