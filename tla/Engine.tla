------------------------------- MODULE Engine -------------------------------
(***************************************************************************)
(* The execution state machine of procnote-core (execution/engine.rs): the *)
(* state an event log replays to, and what `ExecutionState::apply` does to  *)
(* it for each event.                                                       *)
(*                                                                          *)
(* The module has no variables.  An arm of `apply` is an operator on a      *)
(* state that returns the set of states it may end in: one state for `Ok`,  *)
(* none for `Err`.  Execution.tla builds the actions of one execution from  *)
(* them and Sync.tla replays the logs of several copies with them.          *)
(*                                                                          *)
(* Abstracted: timestamps, wording, units, the text of notes and content.   *)
(* A file is identified by its stored path; lists whose order nothing reads *)
(* (files on an input, notes, the inbox) are counts per element, so that a  *)
(* duplicate in a list stays visible.                                       *)
(***************************************************************************)
EXTENDS Naturals, Sequences, FiniteSets

CONSTANTS
  Steps,      \* step ids
  Boxes,      \* checkbox ids within a step
  Inputs,     \* input ids within a step
  Values,     \* recorded scalar values
  Files,      \* stored attachment paths
  Notes,      \* note ids
  Names,      \* execution names
  Contents,   \* contents a step may be added with
  None        \* no value, no name, no anchor step; also the place of global notes

ContentType ==
  [boxes : SUBSET Boxes, ticked : SUBSET Boxes, scalar : SUBSET Inputs, attach : SUBSET Inputs]

(* What a step declares are finite lists; an input is of one kind; a box    *)
(* that begins ticked is a box of the step.                                 *)
ASSUME ContentsAssumption ==
  \A c \in Contents :
    /\ c \in ContentType
    /\ IsFiniteSet(c.boxes) /\ IsFiniteSet(c.scalar) /\ IsFiniteSet(c.attach)
    /\ c.ticked \subseteq c.boxes
    /\ c.scalar \cap c.attach = {}

ASSUME NoneAssumption == None \notin Steps \cup Values \cup Names

Outcomes == {"Pass", "Fail", "Aborted"}
Places   == Steps \cup {None}

NoContent == [boxes |-> {}, ticked |-> {}, scalar |-> {}, attach |-> {}]

(* The type of ExecutionState, field by field. *)
StatusSet  == {"Pending", "Active"} \cup Outcomes
NameSet    == Names \cup {None}
OrderSet   == Seq(Steps)
StepSet    == [Steps -> {"absent", "present", "skipped"}]
ContentSet == [Steps -> ContentType]
CheckedSet == [Steps -> SUBSET Boxes]
ValueSet   == [Steps -> [Inputs -> Values \cup {None}]]
FilesSet   == [Steps -> [Inputs -> [Files -> Nat]]]
NotesSet   == [Places -> [Notes -> Nat]]
InboxSet   == [Files -> Nat]

State ==
  [ status : StatusSet, name : NameSet, order : OrderSet, step : StepSet,
    content : ContentSet, checked : CheckedSet, value : ValueSet, files : FilesSet,
    notes : NotesSet, inbox : InboxSet ]

(* ExecutionState::new *)
New ==
  [ status     |-> "Pending",
    name       |-> None,
    order      |-> << >>,
    step       |-> [i \in Steps |-> "absent"],
    content    |-> [i \in Steps |-> NoContent],
    checked    |-> [i \in Steps |-> {}],
    value      |-> [i \in Steps |-> [x \in Inputs |-> None]],
    files      |-> [i \in Steps |-> [x \in Inputs |-> [f \in Files |-> 0]]],
    notes      |-> [p \in Places |-> [n \in Notes |-> 0]],
    inbox      |-> [f \in Files |-> 0] ]

-----------------------------------------------------------------------------
(* Results and the helpers of `apply`. *)

(* Ok(t) when ok holds, Err otherwise. *)
Result(ok, t) == IF ok THEN {t} ELSE {}

Active(s)     == s.status = "Active"
Finished(s)   == s.status \in Outcomes
Present(s, i) == s.step[i] = "present"

(* A faulty variant of NoteExists (see "Faulty variants" below). *)
NoteExistsAmongGlobalNotes(s, n) == s.notes[None][n] > 0

NoteExists(s, n) == \E p \in Places : s.notes[p][n] > 0

HasCapturedData(s, i) ==
  \/ \E x \in Inputs : s.value[i][x] # None
  \/ \E x \in Inputs, f \in Files : s.files[i][x][f] > 0
  \/ \E n \in Notes : s.notes[i][n] > 0
  \/ s.checked[i] # s.content[i].ticked

HasAttachmentPath(s, f) ==
  \/ s.inbox[f] > 0
  \/ \E i \in Steps, x \in Inputs : s.files[i][x][f] > 0

OnInput(s, i, x) == {f \in Files : s.files[i][x][f] > 0}

(* The step's elements: the kind of an input is that of its definition, the *)
(* checkboxes are those of the list and of table cells.                     *)
IsAttachmentInput(s, i, x) == x \in s.content[i].attach
IsScalarInput(s, i, x)     == x \in s.content[i].scalar
Checkboxes(s, i)           == s.content[i].boxes

(* How often a file occurs in a batch of attachment records. *)
Occurrences(f, batch) == Cardinality({k \in DOMAIN batch : batch[k] = f})

(* Faulty variant of CanAttach. *)
CanAttachToAnyInput(s, i, x, batch) ==
  /\ batch # << >>
  /\ s.value[i][x] = None
  /\ \A j, k \in DOMAIN batch : batch[j] = batch[k] => j = k
  /\ \A k \in DOMAIN batch : batch[k] \notin OnInput(s, i, x)

(* add_attachments_to_step: the guard and the effect. *)
CanAttach(s, i, x, batch) ==
  /\ batch # << >>
  /\ IsAttachmentInput(s, i, x)
  /\ s.value[i][x] = None
  /\ \A j, k \in DOMAIN batch : batch[j] = batch[k] => j = k
  /\ \A k \in DOMAIN batch : batch[k] \notin OnInput(s, i, x)

Attach(s, i, x, batch) ==
  [s EXCEPT !.files[i][x] = [f \in Files |-> @[f] + Occurrences(f, batch)]]

-----------------------------------------------------------------------------
(* Faulty variants: plausible slips in the definitions that follow.  The    *)
(* project's mutant runs put each in place of the definition it varies and  *)
(* expect a property to fail; nothing else uses them.                       *)

NoteAddedToSkippedStep(s, n, p) ==
  Result(/\ Active(s)
         /\ ~ NoteExists(s, n)
         /\ p # None => s.step[p] # "absent",
         [s EXCEPT !.notes[p][n] = @ + 1])

AttachmentFileRemovedUnchecked(s, i, x, f) ==
  Result(Active(s) /\ Present(s, i), [s EXCEPT !.files[i][x][f] = @ - 1])

AttachmentAssignedAfterEnd(s, i, x, f) ==
  Result(s.inbox[f] > 0 /\ Present(s, i) /\ CanAttach(s, i, x, << f >>),
         [Attach(s, i, x, << f >>) EXCEPT !.inbox[f] = @ - 1])

AttachmentAssignedIgnoringDuplicate(s, i, x, f) ==
  Result(/\ Active(s)
         /\ s.inbox[f] > 0
         /\ Present(s, i)
         /\ CanAttach(s, i, x, << f >>) \/ f \in OnInput(s, i, x),
         [s EXCEPT !.files[i][x][f] = 1, !.inbox[f] = @ - 1])

AttachmentUnassignedForgotten(s, i, x, f) ==
  Result(/\ Active(s)
         /\ Present(s, i)
         /\ f \in OnInput(s, i, x),
         [s EXCEPT !.files[i][x][f] = @ - 1])

-----------------------------------------------------------------------------
(* One operator per arm of `apply`. *)

ExecutionStarted(s) ==
  Result(s.status = "Pending", [s EXCEPT !.status = "Active"])

ExecutionCompleted(s, outcome) ==
  Result(Active(s), [s EXCEPT !.status = outcome])

ExecutionAborted(s) ==
  Result(Active(s), [s EXCEPT !.status = "Aborted"])

ExecutionReopened(s) ==
  Result(Finished(s), [s EXCEPT !.status = "Active"])

(* Renaming is metadata: it only needs the execution to have been started. *)
ExecutionRenamed(s, name) ==
  Result(s.status # "Pending", [s EXCEPT !.name = name])

(* A new step goes after its anchor, or last without one. *)
StepAdded(s, i, c, after) ==
  LET position == CHOOSE k \in DOMAIN s.order : s.order[k] = after
      order    == IF after = None
                    THEN Append(s.order, i)
                    ELSE SubSeq(s.order, 1, position) \o << i >>
                           \o SubSeq(s.order, position + 1, Len(s.order))
  IN  Result(/\ Active(s)
             /\ s.step[i] = "absent"
             /\ after # None => \E k \in DOMAIN s.order : s.order[k] = after,
             [s EXCEPT !.order      = order,
                       !.step[i]    = "present",
                       !.content[i] = c,
                       !.checked[i] = c.ticked])

StepSkipped(s, i) ==
  Result(/\ Active(s)
         /\ Present(s, i)
         /\ ~ HasCapturedData(s, i),
         [s EXCEPT !.step[i] = "skipped"])

StepUnskipped(s, i) ==
  Result(Active(s) /\ s.step[i] = "skipped", [s EXCEPT !.step[i] = "present"])

CheckboxToggled(s, i, b, on) ==
  Result(/\ Active(s)
         /\ Present(s, i)
         /\ b \in Checkboxes(s, i),
         [s EXCEPT !.checked[i] = IF on THEN @ \cup {b} ELSE @ \ {b}])

InputRecorded(s, i, x, v) ==
  Result(/\ Active(s)
         /\ Present(s, i)
         /\ IsScalarInput(s, i, x)
         /\ s.value[i][x] = None
         /\ OnInput(s, i, x) = {},
         [s EXCEPT !.value[i][x] = v])

InputCleared(s, i, x) ==
  Result(/\ Active(s)
         /\ Present(s, i)
         /\ s.value[i][x] # None,
         [s EXCEPT !.value[i][x] = None])

(* A note belongs to a present step, or to the execution (place None). *)
NoteAdded(s, n, p) ==
  Result(/\ Active(s)
         /\ ~ NoteExists(s, n)
         /\ p # None => Present(s, p),
         [s EXCEPT !.notes[p][n] = @ + 1])

(* remove_note looks among the global notes first, then in the steps, whose *)
(* order (a hash map) is arbitrary; it does not ask whether the step is     *)
(* present.                                                                 *)
NoteRemoved(s, n) ==
  LET at == {p \in IF s.notes[None][n] > 0 THEN {None} ELSE Steps : s.notes[p][n] > 0}
  IN  IF Active(s) THEN {[s EXCEPT !.notes[p][n] = @ - 1] : p \in at} ELSE {}

(* AttachmentAdded is the batch of one file. *)
AttachmentsAdded(s, i, x, batch) ==
  Result(/\ Active(s)
         /\ Present(s, i)
         /\ CanAttach(s, i, x, batch),
         Attach(s, i, x, batch))

AttachmentFileRemoved(s, i, x, f) ==
  Result(/\ Active(s)
         /\ Present(s, i)
         /\ f \in OnInput(s, i, x),
         [s EXCEPT !.files[i][x][f] = @ - 1])

(* AttachmentsCleared, and the older AttachmentRemoved. *)
AttachmentsCleared(s, i, x) ==
  Result(/\ Active(s)
         /\ Present(s, i)
         /\ OnInput(s, i, x) # {},
         [s EXCEPT !.files[i][x] = [f \in Files |-> 0]])

AttachmentReceived(s, f) ==
  Result(Active(s) /\ ~ HasAttachmentPath(s, f), [s EXCEPT !.inbox[f] = @ + 1])

AttachmentAssigned(s, i, x, f) ==
  Result(/\ Active(s)
         /\ s.inbox[f] > 0
         /\ Present(s, i)
         /\ CanAttach(s, i, x, << f >>),
         [Attach(s, i, x, << f >>) EXCEPT !.inbox[f] = @ - 1])

AttachmentUnassigned(s, i, x, f) ==
  Result(/\ Active(s)
         /\ Present(s, i)
         /\ f \in OnInput(s, i, x),
         [s EXCEPT !.files[i][x][f] = @ - 1, !.inbox[f] = @ + 1])

-----------------------------------------------------------------------------
(* `apply` on an event record, and replay (ExecutionState::from_events). *)

Apply(s, e) ==
  CASE e.type = "ExecutionStarted"      -> ExecutionStarted(s)
    [] e.type = "ExecutionCompleted"    -> ExecutionCompleted(s, e.outcome)
    [] e.type = "ExecutionAborted"      -> ExecutionAborted(s)
    [] e.type = "ExecutionReopened"     -> ExecutionReopened(s)
    [] e.type = "ExecutionRenamed"      -> ExecutionRenamed(s, e.name)
    [] e.type = "StepAdded"             -> StepAdded(s, e.step, e.content, e.after)
    [] e.type = "StepSkipped"           -> StepSkipped(s, e.step)
    [] e.type = "StepUnskipped"         -> StepUnskipped(s, e.step)
    [] e.type = "CheckboxToggled"       -> CheckboxToggled(s, e.step, e.box, e.on)
    [] e.type = "InputRecorded"         -> InputRecorded(s, e.step, e.input, e.value)
    [] e.type = "InputCleared"          -> InputCleared(s, e.step, e.input)
    [] e.type = "NoteAdded"             -> NoteAdded(s, e.note, e.place)
    [] e.type = "NoteRemoved"           -> NoteRemoved(s, e.note)
    [] e.type = "AttachmentsAdded"      -> AttachmentsAdded(s, e.step, e.input, e.batch)
    [] e.type = "AttachmentFileRemoved" -> AttachmentFileRemoved(s, e.step, e.input, e.file)
    [] e.type = "AttachmentsCleared"    -> AttachmentsCleared(s, e.step, e.input)
    [] e.type = "AttachmentReceived"    -> AttachmentReceived(s, e.file)
    [] e.type = "AttachmentAssigned"    -> AttachmentAssigned(s, e.step, e.input, e.file)
    [] e.type = "AttachmentUnassigned"  -> AttachmentUnassigned(s, e.step, e.input, e.file)

(* The states a sequence of events leads to from state s0: none if one of   *)
(* them is refused.                                                         *)
ReplayFrom(s0, events) ==
  LET after[k \in 0..Len(events)] ==
        IF k = 0 THEN {s0} ELSE UNION {Apply(s, events[k]) : s \in after[k - 1]}
  IN  after[Len(events)]

(* ExecutionState::from_events *)
Replay(events) == ReplayFrom(New, events)
=============================================================================
