--------------------------- MODULE ExecutionProofs ---------------------------
(***************************************************************************)
(* Theorems about Execution, about Report and Page on top of it, and about  *)
(* LogFile under it, for all steps, inputs, files, templates and batches.   *)
(* Every arm of `apply` gets a lemma about the states it returns; the       *)
(* invariance theorems combine them action by action.                       *)
(***************************************************************************)
EXTENDS Page, LogFile, FiniteSetTheorems, SequenceTheorems, WellFoundedInduction, TLAPS

(* What an element of a step is, is looked up in the step's content.        *)
USE DEF IsAttachmentInput, IsScalarInput, Checkboxes

(* A file occurs a natural number of times in a batch. *)
LEMMA OccurrencesType ==
  ASSUME NEW group \in Seq(Files), NEW f \in Files
  PROVE  Occurrences(f, group) \in Nat
<1>1. IsFiniteSet(DOMAIN group)
  BY FS_Interval
<1>2. IsFiniteSet({k \in DOMAIN group : group[k] = f})
  BY <1>1, FS_Subset
<1> QED
  BY <1>2, FS_CardinalityType DEF Occurrences

(* A state has each field in its set ... *)
LEMMA FieldTypes ==
  ASSUME NEW s \in State
  PROVE  /\ s.status \in StatusSet
         /\ s.name \in NameSet
         /\ s.order \in OrderSet
         /\ s.step \in StepSet
         /\ s.content \in ContentSet
         /\ s.checked \in CheckedSet
         /\ s.value \in ValueSet
         /\ s.files \in FilesSet
         /\ s.notes \in NotesSet
         /\ s.inbox \in InboxSet
BY DEF State

(* Adding a step keeps every field of the state in its set.                 *)
LEMMA StepAddedType ==
  ASSUME NEW s \in State, NEW i \in Steps, NEW c \in Contents,
         NEW after \in Steps \cup {None}, NEW t \in StepAdded(s, i, c, after)
  PROVE  t \in State
<1> DEFINE position == CHOOSE k \in DOMAIN s.order : s.order[k] = after
           order    == IF after = None
                         THEN Append(s.order, i)
                         ELSE SubSeq(s.order, 1, position) \o << i >>
                                \o SubSeq(s.order, position + 1, Len(s.order))
<1>1. /\ t = [s EXCEPT !.order = order, !.step[i] = "present",
                       !.content[i] = c, !.checked[i] = c.ticked]
      /\ after # None => \E k \in DOMAIN s.order : s.order[k] = after
  BY DEF StepAdded, Result
<1>2. order \in OrderSet
  <2> s.order \in Seq(Steps)
    BY FieldTypes DEF OrderSet
  <2>1. CASE after = None
    BY <2>1 DEF OrderSet
  <2>2. CASE after # None
    <3>1. position \in DOMAIN s.order
      BY <1>1, <2>2
    <3>2. position \in 1..Len(s.order)
      BY <3>1
    <3> HIDE DEF position
    <3>3. SubSeq(s.order, 1, position) \in Seq(Steps)
      BY <3>2
    <3>4. SubSeq(s.order, position + 1, Len(s.order)) \in Seq(Steps)
      BY <3>2
    <3> QED
      BY <2>2, <3>3, <3>4 DEF OrderSet
  <2> QED
    BY <2>1, <2>2
<1>3. [s.step EXCEPT ![i] = "present"] \in StepSet
  BY FieldTypes DEF StepSet
<1>4. c \in ContentType /\ c.ticked \in SUBSET Boxes
  BY ContentsAssumption DEF ContentType
<1>5. /\ [s.content EXCEPT ![i] = c] \in ContentSet
      /\ [s.checked EXCEPT ![i] = c.ticked] \in CheckedSet
  BY <1>4, FieldTypes DEF ContentSet, CheckedSet
<1> HIDE DEF order
<1> QED
  BY <1>1, <1>2, <1>3, <1>5 DEF State

(* Removing a note takes one away where there is one.                       *)
LEMMA NoteRemovedType ==
  ASSUME NEW s \in State, NEW n \in Notes, NEW t \in NoteRemoved(s, n)
  PROVE  t \in State
<1>1. PICK p \in Places : s.notes[p][n] > 0 /\ t = [s EXCEPT !.notes[p][n] = @ - 1]
  BY DEF NoteRemoved, Places
<1>2. [s.notes EXCEPT ![p] = [s.notes[p] EXCEPT ![n] = s.notes[p][n] - 1]] \in NotesSet
  BY <1>1, FieldTypes DEF NotesSet
<1> QED
  BY <1>1, <1>2 DEF State

(* Attaching a batch adds natural numbers to natural numbers.               *)
LEMMA AttachType ==
  ASSUME NEW s \in State, NEW i \in Steps, NEW x \in Inputs, NEW group \in Seq(Files)
  PROVE  Attach(s, i, x, group) \in State
<1> DEFINE added == [f \in Files |-> s.files[i][x][f] + Occurrences(f, group)]
<1>1. added \in [Files -> Nat]
  BY OccurrencesType, FieldTypes DEF FilesSet
<1> HIDE DEF added
<1>2. [s.files EXCEPT ![i] = [s.files[i] EXCEPT ![x] = added]] \in FilesSet
  BY <1>1, FieldTypes DEF FilesSet
<1> QED
  BY <1>2 DEF State, Attach, added

(* Returning a file to the inbox takes it from where there is one.          *)
LEMMA UnassignedType ==
  ASSUME NEW s \in State, NEW i \in Steps, NEW x \in Inputs, NEW f \in Files,
         NEW t \in AttachmentUnassigned(s, i, x, f)
  PROVE  t \in State
<1>1. /\ s.files[i][x][f] > 0
      /\ t = [s EXCEPT !.files[i][x][f] = @ - 1, !.inbox[f] = @ + 1]
  BY DEF AttachmentUnassigned, Result, OnInput
<1>2. [s.files EXCEPT ![i] = [s.files[i] EXCEPT ![x] =
         [s.files[i][x] EXCEPT ![f] = s.files[i][x][f] - 1]]] \in FilesSet
  BY <1>1, FieldTypes DEF FilesSet
<1>3. [s.inbox EXCEPT ![f] = s.inbox[f] + 1] \in InboxSet
  BY FieldTypes DEF InboxSet
<1> QED
  BY <1>1, <1>2, <1>3 DEF State

(* Assigning a file takes it from an inbox that has it.                     *)
LEMMA AssignedType ==
  ASSUME NEW s \in State, NEW i \in Steps, NEW x \in Inputs, NEW f \in Files,
         NEW t \in AttachmentAssigned(s, i, x, f)
  PROVE  t \in State
<1> DEFINE u == Attach(s, i, x, << f >>)
<1>1. /\ s.inbox[f] > 0
      /\ t = [u EXCEPT !.inbox[f] = @ - 1]
  BY DEF AttachmentAssigned, Result
<1>2. u \in State
  <2>1. << f >> \in Seq(Files)
    OBVIOUS
  <2> QED
    BY <2>1, AttachType
<1>3. u.inbox = s.inbox
  BY DEF Attach, State
<1> HIDE DEF u
<1>4. [u.inbox EXCEPT ![f] = u.inbox[f] - 1] \in InboxSet
  BY <1>1, <1>3, FieldTypes DEF InboxSet
<1> QED
  BY <1>1, <1>2, <1>4 DEF State

(* Removing a file from an input takes away one that is there.              *)
LEMMA FileRemovedType ==
  ASSUME NEW s \in State, NEW i \in Steps, NEW x \in Inputs, NEW f \in Files,
         NEW t \in AttachmentFileRemoved(s, i, x, f)
  PROVE  t \in State
<1>1. /\ s.files[i][x][f] > 0
      /\ t = [s EXCEPT !.files[i][x][f] = @ - 1]
  BY DEF AttachmentFileRemoved, Result, OnInput
<1>2. [s.files EXCEPT ![i] = [s.files[i] EXCEPT ![x] =
         [s.files[i][x] EXCEPT ![f] = s.files[i][x][f] - 1]]] \in FilesSet
  BY <1>1, FieldTypes DEF FilesSet
<1> QED
  BY <1>1, <1>2 DEF State

(* Clearing an input leaves it with no file.                                *)
LEMMA ClearedType ==
  ASSUME NEW s \in State, NEW i \in Steps, NEW x \in Inputs,
         NEW t \in AttachmentsCleared(s, i, x)
  PROVE  t \in State
<1>1. t = [s EXCEPT !.files[i][x] = [f \in Files |-> 0]]
  BY DEF AttachmentsCleared, Result
<1>2. [s.files EXCEPT ![i] = [s.files[i] EXCEPT ![x] = [f \in Files |-> 0]]] \in FilesSet
  BY FieldTypes DEF FilesSet
<1> QED
  BY <1>1, <1>2 DEF State

(* Receiving files adds them to the inbox.                                  *)
LEMMA ReceivedType ==
  ASSUME NEW s \in State, NEW group \in Batches
  PROVE  WithReceived(s, group) \in State
<1> DEFINE inbox == [f \in Files |-> IF \E k \in Received(s, group) : group[k] = f
                                       THEN s.inbox[f] + 1 ELSE s.inbox[f]]
<1>1. inbox \in InboxSet
  BY FieldTypes DEF InboxSet
<1> HIDE DEF inbox
<1> QED
  BY <1>1 DEF State, WithReceived, inbox

(* The state an execution starts in is an ExecutionState.                   *)
LEMMA StartedType ==
  ASSUME NEW t \in Templates, NEW name \in Names
  PROVE  StartedFrom(t, name) \in State
<1> DEFINE order   == [k \in DOMAIN t |-> t[k].step]
           step    == [i \in Steps |-> IF TemplateHas(t, i) THEN "present" ELSE "absent"]
           content == [i \in Steps |-> IF TemplateHas(t, i) THEN TemplateContent(t, i) ELSE NoContent]
           checked == [i \in Steps |-> IF TemplateHas(t, i) THEN TemplateContent(t, i).ticked ELSE {}]
<1>1. t \in Seq(TemplateStep)
  BY TemplatesAssumption
<1>2. order \in OrderSet
  <2>1. /\ Len(t) \in Nat
        /\ DOMAIN t = 1..Len(t)
        /\ \A k \in 1..Len(t) : t[k] \in TemplateStep
    BY <1>1
  <2>2. \A k \in 1..Len(t) : t[k].step \in Steps
    BY <2>1 DEF TemplateStep
  <2> QED
    BY <2>1, <2>2 DEF OrderSet
<1>3. step \in StepSet
  BY DEF StepSet
<1>4. ASSUME NEW i \in Steps, TemplateHas(t, i)
      PROVE  TemplateContent(t, i) \in Contents
  <2>1. PICK k \in DOMAIN t : TemplateContent(t, i) = t[k].content
    BY <1>4 DEF TemplateHas, TemplateContent
  <2>2. t[k] \in TemplateStep
    BY <1>1
  <2> QED
    BY <2>1, <2>2 DEF TemplateStep
<1>5. NoContent \in ContentType
  BY DEF NoContent, ContentType
<1>6. content \in ContentSet
  BY <1>4, <1>5, ContentsAssumption DEF ContentSet
<1>7. ASSUME NEW c \in Contents
      PROVE  c.ticked \in SUBSET Boxes
  BY ContentsAssumption DEF ContentType
<1>8. checked \in CheckedSet
  BY <1>4, <1>7 DEF CheckedSet
<1>9. New \in State
  BY DEF New, State, StatusSet, NameSet, OrderSet, StepSet, ContentSet, CheckedSet, ValueSet,
         FilesSet, NotesSet, InboxSet, NoContent, ContentType
<1>10. "Active" \in StatusSet /\ name \in NameSet
  BY DEF StatusSet, NameSet
<1>11. StartedFrom(t, name) =
        [New EXCEPT !.status = "Active", !.name = name, !.order = order,
                    !.step = step, !.content = content, !.checked = checked]
  BY DEF StartedFrom
<1> HIDE DEF order, step, content, checked
<1> QED
  BY <1>2, <1>3, <1>6, <1>8, <1>9, <1>10, <1>11 DEF State

(* Every step of the execution keeps the state an ExecutionState. *)
LEMMA StepType ==
  ASSUME TypeOK, Next
  PROVE  TypeOK'
<1> USE DEF TypeOK
<1> exec \in State
  OBVIOUS
<1>1. ASSUME NEW t \in Templates, NEW name \in Names, Start(t, name)
      PROVE  exec' \in State
  BY <1>1, StartedType DEF Start
<1>2. ASSUME NEW i \in Steps, SkipStep(i) \/ UnskipStep(i)
      PROVE  exec' \in State
  <2>1. \E p \in {"present", "skipped"} : exec' = [exec EXCEPT !.step[i] = p]
    BY <1>2 DEF SkipStep, UnskipStep, StepSkipped, StepUnskipped, Result
  <2>2. \A p \in {"present", "skipped"} : [exec.step EXCEPT ![i] = p] \in StepSet
    BY FieldTypes DEF StepSet
  <2> QED
    BY <2>1, <2>2 DEF State
<1>3. ASSUME NEW i \in Steps, NEW b \in Boxes, NEW on \in BOOLEAN, ToggleCheckbox(i, b, on)
      PROVE  exec' \in State
  <2>1. exec' = [exec EXCEPT !.checked[i] = IF on THEN @ \cup {b} ELSE @ \ {b}]
    BY <1>3 DEF ToggleCheckbox, CheckboxToggled, Result
  <2>2. [exec.checked EXCEPT ![i] = IF on THEN exec.checked[i] \cup {b} ELSE exec.checked[i] \ {b}]
          \in CheckedSet
    BY FieldTypes DEF CheckedSet
  <2> QED
    BY <2>1, <2>2 DEF State
<1>4. ASSUME NEW i \in Steps, NEW x \in Inputs, NEW v \in Values, RecordInput(i, x, v)
      PROVE  exec' \in State
  <2>1. exec' = [exec EXCEPT !.value[i][x] = v]
    BY <1>4 DEF RecordInput, InputRecorded, Result
  <2>2. [exec.value EXCEPT ![i] = [exec.value[i] EXCEPT ![x] = v]] \in ValueSet
    BY FieldTypes DEF ValueSet
  <2> QED
    BY <2>1, <2>2 DEF State
<1>5. ASSUME NEW n \in Notes, NEW p \in Places, AddNote(n, p)
      PROVE  exec' \in State
  <2>1. exec' = [exec EXCEPT !.notes[p][n] = @ + 1]
    BY <1>5 DEF AddNote, NoteAdded, Result
  <2>2. [exec.notes EXCEPT ![p] = [exec.notes[p] EXCEPT ![n] = exec.notes[p][n] + 1]] \in NotesSet
    BY FieldTypes DEF NotesSet
  <2> QED
    BY <2>1, <2>2 DEF State
<1>6. ASSUME NEW n \in Notes, RemoveNote(n)
      PROVE  exec' \in State
  BY <1>6, NoteRemovedType DEF RemoveNote
<1>7. ASSUME NEW i \in Steps, NEW c \in Contents, NEW after \in Steps \cup {None},
             AddStep(i, c, after)
      PROVE  exec' \in State
  BY <1>7, StepAddedType DEF AddStep
<1>8. ASSUME NEW i \in Steps, NEW x \in Inputs, NEW group \in Batches, AddAttachments(i, x, group)
      PROVE  exec' \in State
  <2>1. exec' = Attach(exec, i, x, group)
    BY <1>8 DEF AddAttachments, AttachmentsAdded, Result
  <2> QED
    BY <2>1, AttachType, BatchesAssumption
<1>9. ASSUME NEW i \in Steps, NEW x \in Inputs, NEW f \in Files,
             \/ RemoveAttachmentFile(i, x, f)
             \/ AssignAttachment(i, x, f)
             \/ UnassignAttachment(i, x, f)
      PROVE  exec' \in State
  BY <1>9, FileRemovedType, AssignedType, UnassignedType
     DEF RemoveAttachmentFile, AssignAttachment, UnassignAttachment
<1>10. ASSUME NEW i \in Steps, NEW x \in Inputs, ClearAttachments(i, x)
       PROVE  exec' \in State
  BY <1>10, ClearedType DEF ClearAttachments
<1>11. ASSUME \/ \E outcome \in Outcomes : Complete(outcome)
              \/ Abort \/ ReopenExecution
       PROVE  exec' \in State
  <2>1. \E u \in StatusSet : exec' = [exec EXCEPT !.status = u]
    BY <1>11 DEF Complete, Abort, ReopenExecution, ExecutionCompleted, ExecutionAborted,
                 ExecutionReopened, Result, StatusSet, Outcomes
  <2> QED
    BY <2>1 DEF State
<1>12. ASSUME NEW name \in Names, RenameExecution(name)
       PROVE  exec' \in State
  <2>1. exec' = [exec EXCEPT !.name = name] /\ name \in NameSet
    BY <1>12 DEF RenameExecution, ExecutionRenamed, Result, NameSet
  <2> QED
    BY <2>1 DEF State
<1>13. ASSUME NEW group \in Batches, ReceiveFiles(group)
       PROVE  exec' \in State
  BY <1>13, ReceivedType DEF ReceiveFiles
<1>14. ASSUME NEW i \in Steps, NEW x \in Inputs, ClearInput(i, x)
       PROVE  exec' \in State
  <2>1. exec' = [exec EXCEPT !.value[i][x] = None]
    BY <1>14 DEF ClearInput, InputCleared, Result
  <2>2. [exec.value EXCEPT ![i] = [exec.value[i] EXCEPT ![x] = None]] \in ValueSet
    BY FieldTypes DEF ValueSet
  <2> QED
    BY <2>1, <2>2 DEF State
<1> QED
  BY <1>1, <1>2, <1>3, <1>4, <1>5, <1>6, <1>7, <1>8, <1>9, <1>10, <1>11, <1>12, <1>13, <1>14
     DEF Next

(* Whatever is done to an execution in whatever order, its state stays an   *)
(* ExecutionState: no removal takes away what is not there.                 *)
THEOREM TypeCorrect == Spec => []TypeOK
<1>1. Init => TypeOK
  BY DEF Init, TypeOK, New, State, StatusSet, NameSet, OrderSet, StepSet, ContentSet, CheckedSet,
         ValueSet, FilesSet, NotesSet, InboxSet, NoContent, ContentType
<1>2. TypeOK /\ [Next]_vars => TypeOK'
  BY StepType DEF TypeOK, vars
<1> QED
  BY <1>1, <1>2, PTL DEF Spec

-----------------------------------------------------------------------------
(* Captured data: what steps hold, and where it may be. *)

(* A file that occurs in a batch without duplicates occurs in it once.      *)
LEMMA OccursOnce ==
  ASSUME NEW group \in Seq(Files), NEW f \in Files,
         \A j, k \in DOMAIN group : group[j] = group[k] => j = k
  PROVE  /\ (\E k \in DOMAIN group : group[k] = f) => Occurrences(f, group) = 1
         /\ (\A k \in DOMAIN group : group[k] # f) => Occurrences(f, group) = 0
<1> DEFINE there == {k \in DOMAIN group : group[k] = f}
<1>1. ASSUME NEW k \in DOMAIN group, group[k] = f
      PROVE  Cardinality(there) = 1
  <2>1. there = {k}
    BY <1>1
  <2> QED
    BY <2>1, FS_Singleton
<1>2. ASSUME \A k \in DOMAIN group : group[k] # f
      PROVE  Cardinality(there) = 0
  <2>1. there = {}
    BY <1>2
  <2> QED
    BY <2>1, FS_EmptySet
<1> QED
  BY <1>1, <1>2 DEF Occurrences

(* The inductive invariant.  SkippedStepIsEmpty makes a step that is added  *)
(* start without values and files, which CaptureIsDeclared needs; the       *)
(* others are inductive given the types of the counts.                      *)
CapturedInv ==
  /\ TypeOK
  /\ SkippedStepIsEmpty
  /\ NoteIdsAreUnique
  /\ CaptureIsDeclared
  /\ NoFileTwiceOnInput

(* The parts of CapturedInv beside the types, as one predicate of what they *)
(* read: they survive a step that leaves those fields alone.                *)
LEMMA CapturedFrame ==
  ASSUME CapturedInv, TypeOK',
         exec'.step = exec.step, exec'.content = exec.content, exec'.checked = exec.checked,
         exec'.value = exec.value, exec'.files = exec.files, exec'.notes = exec.notes
  PROVE  CapturedInv'
BY DEF CapturedInv, SkippedStepIsEmpty, NoteIdsAreUnique, CaptureIsDeclared, NoFileTwiceOnInput,
       HasCapturedData, OnInput

(* Files of a batch are attached to a declared input of a present step.     *)
LEMMA AttachKeepsCaptured ==
  ASSUME CapturedInv, TypeOK', NEW i \in Steps, NEW x \in Inputs, NEW group \in Seq(Files),
         Present(exec, i), CanAttach(exec, i, x, group),
         exec'.files = Attach(exec, i, x, group).files,
         exec'.step = exec.step, exec'.content = exec.content, exec'.checked = exec.checked,
         exec'.value = exec.value, exec'.notes = exec.notes
  PROVE  CapturedInv'
<1> exec \in State
  BY DEF CapturedInv, TypeOK
<1>1. exec'.files = [exec.files EXCEPT ![i][x] =
                       [f \in Files |-> exec.files[i][x][f] + Occurrences(f, group)]]
  BY DEF Attach, State
<1>2. exec.files \in [Steps -> [Inputs -> [Files -> Nat]]]
  BY FieldTypes DEF FilesSet
<1>3. \A j \in Steps, y \in Inputs :
        (j # i \/ y # x) => exec'.files[j][y] = exec.files[j][y]
  BY <1>1, <1>2
<1>4. \A f \in Files : exec'.files[i][x][f] = exec.files[i][x][f] + Occurrences(f, group)
  BY <1>1, <1>2
<1>5. SkippedStepIsEmpty'
  BY <1>3 DEF CapturedInv, SkippedStepIsEmpty, HasCapturedData, Present
<1>6. NoteIdsAreUnique'
  BY DEF CapturedInv, NoteIdsAreUnique
<1>7. CaptureIsDeclared'
  BY <1>3 DEF CapturedInv, CaptureIsDeclared, OnInput, CanAttach
<1>8. NoFileTwiceOnInput'
  <2>1. ASSUME NEW f \in Files
        PROVE  exec'.files[i][x][f] \in {0, 1}
    <3>1. exec.files[i][x][f] \in {0, 1}
      BY DEF CapturedInv, NoFileTwiceOnInput
    <3>2. CASE \E k \in DOMAIN group : group[k] = f
      <4>1. exec.files[i][x][f] = 0
        BY <3>1, <3>2 DEF CanAttach, OnInput
      <4>2. Occurrences(f, group) = 1
        BY <3>2, OccursOnce DEF CanAttach
      <4> QED
        BY <4>1, <4>2, <1>4
    <3>3. CASE \A k \in DOMAIN group : group[k] # f
      <4>1. Occurrences(f, group) = 0
        BY <3>3, OccursOnce DEF CanAttach
      <4> QED
        BY <3>1, <4>1, <1>4
    <3> QED
      BY <3>2, <3>3
  <2> QED
    BY <2>1, <1>3 DEF CapturedInv, NoFileTwiceOnInput
<1> QED
  BY <1>5, <1>6, <1>7, <1>8 DEF CapturedInv

(* A file is taken from an input.                                           *)
LEMMA DetachKeepsCaptured ==
  ASSUME CapturedInv, TypeOK', NEW i \in Steps, NEW x \in Inputs, NEW left \in [Files -> Nat],
         \A f \in Files : left[f] <= exec.files[i][x][f],
         exec'.files = [exec.files EXCEPT ![i][x] = left],
         exec'.step = exec.step, exec'.content = exec.content, exec'.checked = exec.checked,
         exec'.value = exec.value, exec'.notes = exec.notes
  PROVE  CapturedInv'
<1> exec \in State
  BY DEF CapturedInv, TypeOK
<1>1. exec.files \in [Steps -> [Inputs -> [Files -> Nat]]]
  BY FieldTypes DEF FilesSet
<1>2. \A j \in Steps, y \in Inputs, f \in Files :
        /\ exec'.files[j][y][f] \in Nat
        /\ exec.files[j][y][f] \in Nat
        /\ exec'.files[j][y][f] <= exec.files[j][y][f]
  BY <1>1
<1>3. \A j \in Steps, y \in Inputs, f \in Files :
        exec'.files[j][y][f] > 0 => exec.files[j][y][f] > 0
  BY <1>2
<1>4. SkippedStepIsEmpty'
  BY <1>3 DEF CapturedInv, SkippedStepIsEmpty, HasCapturedData
<1>5. NoteIdsAreUnique'
  BY DEF CapturedInv, NoteIdsAreUnique
<1>6. CaptureIsDeclared'
  BY <1>3 DEF CapturedInv, CaptureIsDeclared, OnInput
<1>7. NoFileTwiceOnInput'
  BY <1>2 DEF CapturedInv, NoFileTwiceOnInput
<1> QED
  BY <1>4, <1>5, <1>6, <1>7 DEF CapturedInv

(* The started execution holds nothing but the ticks its template sets.     *)
LEMMA StartKeepsCaptured ==
  ASSUME CapturedInv, TypeOK', NEW t \in Templates, NEW name \in Names, Start(t, name)
  PROVE  CapturedInv'
<1>1. exec' = StartedFrom(t, name)
  BY DEF Start
<1>2. /\ exec'.step = [i \in Steps |-> IF TemplateHas(t, i) THEN "present" ELSE "absent"]
      /\ exec'.content = [i \in Steps |-> IF TemplateHas(t, i) THEN TemplateContent(t, i) ELSE NoContent]
      /\ exec'.checked = [i \in Steps |-> IF TemplateHas(t, i) THEN TemplateContent(t, i).ticked ELSE {}]
      /\ exec'.value = [i \in Steps |-> [x \in Inputs |-> None]]
      /\ exec'.files = [i \in Steps |-> [x \in Inputs |-> [f \in Files |-> 0]]]
      /\ exec'.notes = [p \in Places |-> [n \in Notes |-> 0]]
  BY <1>1 DEF StartedFrom, New
<1>3. ASSUME NEW i \in Steps, TemplateHas(t, i)
      PROVE  TemplateContent(t, i).ticked \subseteq TemplateContent(t, i).boxes
  <2>1. PICK k \in DOMAIN t : TemplateContent(t, i) = t[k].content
    BY <1>3 DEF TemplateHas, TemplateContent
  <2>2. t \in Seq(TemplateStep)
    BY TemplatesAssumption
  <2>3. t[k] \in TemplateStep
    BY <2>2
  <2>4. t[k].content \in Contents
    BY <2>3 DEF TemplateStep
  <2> QED
    BY <2>1, <2>4, ContentsAssumption
<1>4. \A i \in Steps : exec'.checked[i] \subseteq exec'.content[i].boxes
  BY <1>2, <1>3 DEF NoContent
<1>5. SkippedStepIsEmpty'
  BY <1>2 DEF SkippedStepIsEmpty, HasCapturedData, NoContent, Places
<1>6. NoteIdsAreUnique'
  BY <1>2 DEF NoteIdsAreUnique
<1>7. CaptureIsDeclared'
  BY <1>2, <1>4 DEF CaptureIsDeclared, OnInput
<1>8. NoFileTwiceOnInput'
  BY <1>2 DEF NoFileTwiceOnInput
<1> QED
  BY <1>5, <1>6, <1>7, <1>8 DEF CapturedInv

(* A step that is added was absent, so it holds no value and no file.       *)
LEMMA AddStepKeepsCaptured ==
  ASSUME CapturedInv, TypeOK', NEW i \in Steps, NEW c \in Contents,
         NEW after \in Steps \cup {None}, AddStep(i, c, after)
  PROVE  CapturedInv'
<1> exec \in State
  BY DEF CapturedInv, TypeOK
<1>1. exec.step[i] = "absent"
  BY DEF AddStep, StepAdded, Result
<1>2. PICK order : exec' = [exec EXCEPT !.order = order, !.step[i] = "present",
                                        !.content[i] = c, !.checked[i] = c.ticked]
  BY DEF AddStep, StepAdded, Result
<1>3. /\ exec'.step = [exec.step EXCEPT ![i] = "present"]
      /\ exec'.content = [exec.content EXCEPT ![i] = c]
      /\ exec'.checked = [exec.checked EXCEPT ![i] = c.ticked]
      /\ exec'.value = exec.value
      /\ exec'.files = exec.files
      /\ exec'.notes = exec.notes
  BY <1>2 DEF State
<1>4. /\ exec.step \in [Steps -> {"absent", "present", "skipped"}]
      /\ exec.content \in [Steps -> ContentType]
      /\ exec.checked \in [Steps -> SUBSET Boxes]
  BY FieldTypes DEF StepSet, ContentSet, CheckedSet
<1>5. ~ HasCapturedData(exec, i)
  BY <1>1 DEF CapturedInv, SkippedStepIsEmpty
<1>6. SkippedStepIsEmpty'
  BY <1>3, <1>4 DEF CapturedInv, SkippedStepIsEmpty, HasCapturedData
<1>7. NoteIdsAreUnique'
  BY <1>3 DEF CapturedInv, NoteIdsAreUnique
<1>8. CaptureIsDeclared'
  <2>1. ASSUME NEW j \in Steps, j # i
        PROVE  exec'.content[j] = exec.content[j] /\ exec'.checked[j] = exec.checked[j]
    BY <2>1, <1>3, <1>4
  <2>2. exec'.checked[i] \subseteq exec'.content[i].boxes
    <3>1. exec'.checked[i] = c.ticked /\ exec'.content[i] = c
      BY <1>3, <1>4
    <3> QED
      BY <3>1, ContentsAssumption
  <2>3. \A x \in Inputs : exec'.value[i][x] = None /\ OnInput(exec', i, x) = {}
    BY <1>3, <1>5 DEF HasCapturedData, OnInput
  <2> QED
    BY <2>1, <2>2, <2>3, <1>3 DEF CapturedInv, CaptureIsDeclared, OnInput
<1>9. NoFileTwiceOnInput'
  BY <1>3 DEF CapturedInv, NoFileTwiceOnInput
<1> QED
  BY <1>6, <1>7, <1>8, <1>9 DEF CapturedInv

(* Notes come under a new id and go one at a time.                          *)
LEMMA NotesKeepCaptured ==
  ASSUME CapturedInv, TypeOK', NEW n \in Notes, NEW p \in Places,
         AddNote(n, p) \/ RemoveNote(n)
  PROVE  CapturedInv'
<1> exec \in State
  BY DEF CapturedInv, TypeOK
<1>1. exec.notes \in [Places -> [Notes -> Nat]]
  BY FieldTypes DEF NotesSet
<1>2. CASE AddNote(n, p)
  <2>1. /\ \A q \in Places : ~ (exec.notes[q][n] > 0)
        /\ p # None => Present(exec, p)
        /\ exec' = [exec EXCEPT !.notes[p][n] = @ + 1]
    BY <1>2 DEF AddNote, NoteAdded, NoteExists, Result
  <2>2. /\ exec'.notes = [exec.notes EXCEPT ![p][n] = @ + 1]
        /\ exec'.step = exec.step /\ exec'.content = exec.content /\ exec'.checked = exec.checked
        /\ exec'.value = exec.value /\ exec'.files = exec.files
    BY <2>1 DEF State
  <2>3. \A q \in Places : exec.notes[q][n] = 0
    BY <2>1, <1>1
  <2>4. exec'.notes[p][n] = 1
    BY <2>2, <2>3, <1>1
  <2>5. \A q \in Places, m \in Notes : q # p \/ m # n => exec'.notes[q][m] = exec.notes[q][m]
    BY <2>2, <1>1
  <2>6. NoteIdsAreUnique'
    BY <2>3, <2>4, <2>5 DEF CapturedInv, NoteIdsAreUnique
  <2>7. SkippedStepIsEmpty'
    <3>1. ASSUME NEW i \in Steps, exec'.step[i] # "present"
          PROVE  \A m \in Notes : exec'.notes[i][m] = exec.notes[i][m]
      BY <3>1, <2>1, <2>2, <2>5, NoneAssumption DEF Places, Present
    <3> QED
      BY <3>1, <2>2 DEF CapturedInv, SkippedStepIsEmpty, HasCapturedData, Places
  <2>8. CaptureIsDeclared' /\ NoFileTwiceOnInput'
    BY <2>2 DEF CapturedInv, CaptureIsDeclared, NoFileTwiceOnInput, OnInput
  <2> QED
    BY <2>6, <2>7, <2>8 DEF CapturedInv
<1>3. CASE RemoveNote(n)
  <2>1. PICK q \in Places : exec.notes[q][n] > 0 /\ exec' = [exec EXCEPT !.notes[q][n] = @ - 1]
    BY <1>3 DEF RemoveNote, NoteRemoved, Places
  <2>2. /\ exec'.notes = [exec.notes EXCEPT ![q][n] = @ - 1]
        /\ exec'.step = exec.step /\ exec'.content = exec.content /\ exec'.checked = exec.checked
        /\ exec'.value = exec.value /\ exec'.files = exec.files
    BY <2>1 DEF State
  <2>3. exec.notes[q][n] = 1
    BY <2>1 DEF CapturedInv, NoteIdsAreUnique
  <2>4. exec'.notes[q][n] = 0
    BY <2>2, <2>3, <1>1
  <2>5. \A r \in Places, m \in Notes : r # q \/ m # n => exec'.notes[r][m] = exec.notes[r][m]
    BY <2>2, <1>1
  <2>6. NoteIdsAreUnique'
    BY <2>4, <2>5 DEF CapturedInv, NoteIdsAreUnique
  <2>7. \A i \in Steps, m \in Notes : exec'.notes[i][m] > 0 => exec.notes[i][m] > 0
    BY <2>1, <2>4, <2>5 DEF Places
  <2>8. SkippedStepIsEmpty'
    BY <2>2, <2>7 DEF CapturedInv, SkippedStepIsEmpty, HasCapturedData
  <2>9. CaptureIsDeclared' /\ NoFileTwiceOnInput'
    BY <2>2 DEF CapturedInv, CaptureIsDeclared, NoFileTwiceOnInput, OnInput
  <2> QED
    BY <2>6, <2>8, <2>9 DEF CapturedInv
<1> QED
  BY <1>2, <1>3

(* Every step of an execution keeps CapturedInv.                            *)
LEMMA StepKeepsCaptured ==
  ASSUME CapturedInv, Next
  PROVE  CapturedInv'
<1> exec \in State
  BY DEF CapturedInv, TypeOK
<1> USE StepType DEF CapturedInv
<1>1. TypeOK'
  OBVIOUS
<1> USE <1>1
<1>2. ASSUME NEW i \in Steps, SkipStep(i)
      PROVE  CapturedInv'
  <2>1. ~ HasCapturedData(exec, i) /\ exec' = [exec EXCEPT !.step[i] = "skipped"]
    BY <1>2 DEF SkipStep, StepSkipped, Result
  <2>2. /\ exec'.step = [exec.step EXCEPT ![i] = "skipped"]
        /\ exec'.content = exec.content /\ exec'.checked = exec.checked
        /\ exec'.value = exec.value /\ exec'.files = exec.files /\ exec'.notes = exec.notes
    BY <2>1 DEF State
  <2>3. SkippedStepIsEmpty'
    BY <2>1, <2>2, FieldTypes DEF SkippedStepIsEmpty, HasCapturedData, StepSet
  <2> QED
    BY <2>2, <2>3 DEF NoteIdsAreUnique, CaptureIsDeclared, NoFileTwiceOnInput, OnInput
<1>3. ASSUME NEW i \in Steps, UnskipStep(i)
      PROVE  CapturedInv'
  <2>1. exec' = [exec EXCEPT !.step[i] = "present"]
    BY <1>3 DEF UnskipStep, StepUnskipped, Result
  <2>2. /\ exec'.step = [exec.step EXCEPT ![i] = "present"]
        /\ exec'.content = exec.content /\ exec'.checked = exec.checked
        /\ exec'.value = exec.value /\ exec'.files = exec.files /\ exec'.notes = exec.notes
    BY <2>1 DEF State
  <2>3. SkippedStepIsEmpty'
    BY <2>2, FieldTypes DEF SkippedStepIsEmpty, HasCapturedData, StepSet
  <2> QED
    BY <2>2, <2>3 DEF NoteIdsAreUnique, CaptureIsDeclared, NoFileTwiceOnInput, OnInput
<1>4. ASSUME NEW i \in Steps, NEW b \in Boxes, NEW on \in BOOLEAN, ToggleCheckbox(i, b, on)
      PROVE  CapturedInv'
  <2>1. /\ Present(exec, i) /\ b \in exec.content[i].boxes
        /\ exec' = [exec EXCEPT !.checked[i] = IF on THEN @ \cup {b} ELSE @ \ {b}]
    BY <1>4 DEF ToggleCheckbox, CheckboxToggled, Result
  <2>2. /\ exec'.checked = [exec.checked EXCEPT ![i] = IF on THEN @ \cup {b} ELSE @ \ {b}]
        /\ exec'.step = exec.step /\ exec'.content = exec.content
        /\ exec'.value = exec.value /\ exec'.files = exec.files /\ exec'.notes = exec.notes
    BY <2>1 DEF State
  <2>3. \A j \in Steps : j # i => exec'.checked[j] = exec.checked[j]
    BY <2>2, FieldTypes DEF CheckedSet
  <2>4. exec'.checked[i] \subseteq exec.checked[i] \cup {b}
    BY <2>2, FieldTypes DEF CheckedSet
  <2>5. SkippedStepIsEmpty'
    BY <2>1, <2>2, <2>3 DEF SkippedStepIsEmpty, HasCapturedData, Present
  <2>6. CaptureIsDeclared'
    BY <2>1, <2>2, <2>3, <2>4 DEF CaptureIsDeclared, OnInput
  <2> QED
    BY <2>2, <2>5, <2>6 DEF NoteIdsAreUnique, NoFileTwiceOnInput
<1>5. ASSUME NEW i \in Steps, NEW x \in Inputs, NEW v \in Values, RecordInput(i, x, v)
      PROVE  CapturedInv'
  <2>1. /\ Present(exec, i) /\ x \in exec.content[i].scalar
        /\ exec' = [exec EXCEPT !.value[i][x] = v]
    BY <1>5 DEF RecordInput, InputRecorded, Result
  <2>2. /\ exec'.value = [exec.value EXCEPT ![i][x] = v]
        /\ exec'.step = exec.step /\ exec'.content = exec.content
        /\ exec'.checked = exec.checked /\ exec'.files = exec.files /\ exec'.notes = exec.notes
    BY <2>1 DEF State
  <2>3. \A j \in Steps, y \in Inputs : j # i \/ y # x => exec'.value[j][y] = exec.value[j][y]
    BY <2>2, FieldTypes DEF ValueSet
  <2>4. SkippedStepIsEmpty'
    BY <2>1, <2>2, <2>3 DEF SkippedStepIsEmpty, HasCapturedData, Present
  <2>5. CaptureIsDeclared'
    BY <2>1, <2>2, <2>3 DEF CaptureIsDeclared, OnInput
  <2> QED
    BY <2>2, <2>4, <2>5 DEF NoteIdsAreUnique, NoFileTwiceOnInput
<1>6. ASSUME NEW i \in Steps, NEW x \in Inputs, ClearInput(i, x)
      PROVE  CapturedInv'
  <2>1. exec' = [exec EXCEPT !.value[i][x] = None]
    BY <1>6 DEF ClearInput, InputCleared, Result
  <2>2. /\ exec'.value = [exec.value EXCEPT ![i][x] = None]
        /\ exec'.step = exec.step /\ exec'.content = exec.content
        /\ exec'.checked = exec.checked /\ exec'.files = exec.files /\ exec'.notes = exec.notes
    BY <2>1 DEF State
  <2>3. \A j \in Steps, y \in Inputs : exec'.value[j][y] # None => exec.value[j][y] # None
    BY <2>2, FieldTypes DEF ValueSet
  <2>4. SkippedStepIsEmpty'
    BY <2>2, <2>3 DEF SkippedStepIsEmpty, HasCapturedData
  <2>5. CaptureIsDeclared'
    BY <2>2, <2>3 DEF CaptureIsDeclared, OnInput
  <2> QED
    BY <2>2, <2>4, <2>5 DEF NoteIdsAreUnique, NoFileTwiceOnInput
<1>7. ASSUME NEW i \in Steps, NEW x \in Inputs, NEW group \in Batches, AddAttachments(i, x, group)
      PROVE  CapturedInv'
  <2>1. /\ Present(exec, i) /\ CanAttach(exec, i, x, group)
        /\ exec' = Attach(exec, i, x, group)
    BY <1>7 DEF AddAttachments, AttachmentsAdded, Result
  <2>2. /\ exec'.step = exec.step /\ exec'.content = exec.content /\ exec'.checked = exec.checked
        /\ exec'.value = exec.value /\ exec'.notes = exec.notes
    BY <2>1 DEF Attach, State
  <2> QED
    BY <2>1, <2>2, AttachKeepsCaptured, BatchesAssumption
<1>8. ASSUME NEW i \in Steps, NEW x \in Inputs, NEW f \in Files, AssignAttachment(i, x, f)
      PROVE  CapturedInv'
  <2> DEFINE u == Attach(exec, i, x, << f >>)
  <2>1. /\ Present(exec, i) /\ CanAttach(exec, i, x, << f >>)
        /\ exec' = [u EXCEPT !.inbox[f] = @ - 1]
    BY <1>8 DEF AssignAttachment, AttachmentAssigned, Result
  <2>2. << f >> \in Seq(Files)
    OBVIOUS
  <2>3. u \in State
    BY <2>2, AttachType
  <2>4. /\ u.step = exec.step /\ u.content = exec.content /\ u.checked = exec.checked
        /\ u.value = exec.value /\ u.notes = exec.notes
    BY DEF Attach, State
  <2> HIDE DEF u
  <2>5. /\ exec'.step = u.step /\ exec'.content = u.content /\ exec'.checked = u.checked
        /\ exec'.value = u.value /\ exec'.notes = u.notes /\ exec'.files = u.files
    BY <2>1, <2>3 DEF State
  <2> QED
    BY <2>1, <2>2, <2>4, <2>5, AttachKeepsCaptured DEF u
<1>9. ASSUME NEW i \in Steps, NEW x \in Inputs, NEW f \in Files,
             RemoveAttachmentFile(i, x, f) \/ UnassignAttachment(i, x, f)
      PROVE  CapturedInv'
  <2> DEFINE left == [exec.files[i][x] EXCEPT ![f] = exec.files[i][x][f] - 1]
  <2>1. /\ exec.files[i][x][f] > 0
        /\ \/ exec' = [exec EXCEPT !.files[i][x][f] = @ - 1]
           \/ exec' = [exec EXCEPT !.files[i][x][f] = @ - 1, !.inbox[f] = @ + 1]
    BY <1>9 DEF RemoveAttachmentFile, UnassignAttachment, AttachmentFileRemoved,
                AttachmentUnassigned, Result, OnInput
  <2>2. exec.files[i][x] \in [Files -> Nat]
    BY FieldTypes DEF FilesSet
  <2>3. left \in [Files -> Nat] /\ \A g \in Files : left[g] <= exec.files[i][x][g]
    BY <2>1, <2>2
  <2>4. /\ exec'.files = [exec.files EXCEPT ![i][x] = left]
        /\ exec'.step = exec.step /\ exec'.content = exec.content /\ exec'.checked = exec.checked
        /\ exec'.value = exec.value /\ exec'.notes = exec.notes
    BY <2>1 DEF State
  <2> HIDE DEF left
  <2> QED
    BY <2>3, <2>4, DetachKeepsCaptured
<1>10. ASSUME NEW i \in Steps, NEW x \in Inputs, ClearAttachments(i, x)
       PROVE  CapturedInv'
  <2> DEFINE left == [f \in Files |-> 0]
  <2>1. exec' = [exec EXCEPT !.files[i][x] = left]
    BY <1>10 DEF ClearAttachments, AttachmentsCleared, Result
  <2>2. exec.files[i][x] \in [Files -> Nat]
    BY FieldTypes DEF FilesSet
  <2>3. left \in [Files -> Nat] /\ \A g \in Files : left[g] <= exec.files[i][x][g]
    BY <2>2
  <2> HIDE DEF left
  <2>4. /\ exec'.files = [exec.files EXCEPT ![i][x] = left]
        /\ exec'.step = exec.step /\ exec'.content = exec.content /\ exec'.checked = exec.checked
        /\ exec'.value = exec.value /\ exec'.notes = exec.notes
    BY <2>1 DEF State
  <2> QED
    BY <2>3, <2>4, DetachKeepsCaptured
<1>11. ASSUME \/ \E outcome \in Outcomes : Complete(outcome)
              \/ \E name \in Names : RenameExecution(name)
              \/ Abort \/ ReopenExecution
       PROVE  CapturedInv'
  <2>1. \E u, m : exec' = [exec EXCEPT !.status = u] \/ exec' = [exec EXCEPT !.name = m]
    BY <1>11 DEF Complete, Abort, ReopenExecution, RenameExecution, ExecutionCompleted,
                 ExecutionAborted, ExecutionReopened, ExecutionRenamed, Result
  <2>2. /\ exec'.step = exec.step /\ exec'.content = exec.content /\ exec'.checked = exec.checked
        /\ exec'.value = exec.value /\ exec'.notes = exec.notes /\ exec'.files = exec.files
    BY <2>1 DEF State
  <2> QED
    BY <2>2, CapturedFrame
<1>12. ASSUME NEW group \in Batches, ReceiveFiles(group)
       PROVE  CapturedInv'
  <2>1. /\ exec'.step = exec.step /\ exec'.content = exec.content /\ exec'.checked = exec.checked
        /\ exec'.value = exec.value /\ exec'.notes = exec.notes /\ exec'.files = exec.files
    BY <1>12 DEF ReceiveFiles, WithReceived, State
  <2> QED
    BY <2>1, CapturedFrame
<1> QED
  <2>1. None \in Places
    BY DEF Places
  <2> QED
    BY <1>2, <1>3, <1>4, <1>5, <1>6, <1>7, <1>8, <1>9, <1>10, <1>11, <1>12, <2>1,
       StartKeepsCaptured, AddStepKeepsCaptured, NotesKeepCaptured DEF Next

(* What is captured on a step is consistent after every sequence of actions:*)
(* the inductive invariant behind the four theorems that follow.            *)
THEOREM CapturedInvariant == Spec => []CapturedInv
<1>1. Init => CapturedInv
  <2> SUFFICES ASSUME Init
               PROVE  CapturedInv
    OBVIOUS
  <2>1. TypeOK
    BY DEF Init, TypeOK, New, State, StatusSet, NameSet, OrderSet, StepSet, ContentSet, CheckedSet,
           ValueSet, FilesSet, NotesSet, InboxSet, NoContent, ContentType
  <2>2. /\ exec.content = [i \in Steps |-> NoContent]
        /\ exec.checked = [i \in Steps |-> {}]
        /\ exec.value = [i \in Steps |-> [x \in Inputs |-> None]]
        /\ exec.files = [i \in Steps |-> [x \in Inputs |-> [f \in Files |-> 0]]]
        /\ exec.notes = [p \in Places |-> [n \in Notes |-> 0]]
    BY DEF Init, New
  <2>3. SkippedStepIsEmpty
    BY <2>2 DEF SkippedStepIsEmpty, HasCapturedData, NoContent, Places
  <2>4. NoteIdsAreUnique
    BY <2>2 DEF NoteIdsAreUnique
  <2>5. CaptureIsDeclared
    BY <2>2 DEF CaptureIsDeclared, OnInput
  <2>6. NoFileTwiceOnInput
    BY <2>2 DEF NoFileTwiceOnInput
  <2> QED
    BY <2>1, <2>3, <2>4, <2>5, <2>6 DEF CapturedInv
<1>2. CapturedInv /\ [Next]_vars => CapturedInv'
  BY StepKeepsCaptured
     DEF vars, CapturedInv, TypeOK, SkippedStepIsEmpty, NoteIdsAreUnique, CaptureIsDeclared,
         NoFileTwiceOnInput
<1> QED
  BY <1>1, <1>2, PTL DEF Spec

(* No sequence of actions leaves data on a step that is skipped.            *)
THEOREM SkippedStepsStayEmpty == Spec => []SkippedStepIsEmpty
BY CapturedInvariant, PTL DEF CapturedInv

(* A note id names one note, globally or on one step.                       *)
THEOREM NoteIdsStayUnique == Spec => []NoteIdsAreUnique
BY CapturedInvariant, PTL DEF CapturedInv

(* Values, files and ticks are only on elements their step declares.        *)
THEOREM CaptureStaysDeclared == Spec => []CaptureIsDeclared
BY CapturedInvariant, PTL DEF CapturedInv

(* No input holds the same file twice.                                      *)
THEOREM InputFilesStayDistinct == Spec => []NoFileTwiceOnInput
BY CapturedInvariant, PTL DEF CapturedInv

-----------------------------------------------------------------------------
(* A finished execution is frozen: every action but Reopen and Rename asks  *)
(* for an active execution, and Start for one that was never started.       *)
THEOREM FinishedStaysFrozen == Spec => FinishedRecordIsFrozen
<1> DEFINE Frozen == Finished(exec) =>
             \E outcome \in Outcomes \cup {"Active"}, name \in Names \cup {None} :
               exec' = [exec EXCEPT !.status = outcome, !.name = name]
<1>1. TypeOK /\ Next => Frozen
  <2> SUFFICES ASSUME TypeOK, Next, Finished(exec)
               PROVE  \E outcome \in Outcomes \cup {"Active"}, name \in Names \cup {None} :
                        exec' = [exec EXCEPT !.status = outcome, !.name = name]
    OBVIOUS
  <2>1. exec \in State
    BY DEF TypeOK
  <2>2. /\ ~ Active(exec) /\ exec.status # "Pending" /\ exec.status \in Outcomes
        /\ exec.name \in Names \cup {None}
    BY <2>1 DEF Finished, Active, Outcomes, State, NameSet
  <2>3. ReopenExecution \/ \E name \in Names : RenameExecution(name)
    BY <2>2
       DEF Next, Start, SkipStep, UnskipStep, ToggleCheckbox, RecordInput, ClearInput, AddNote,
           RemoveNote, AddStep, AddAttachments, RemoveAttachmentFile, ClearAttachments,
           AssignAttachment, UnassignAttachment, Complete, Abort, ReceiveFiles, Result,
           StepSkipped, StepUnskipped, CheckboxToggled, InputRecorded, InputCleared, NoteAdded,
           NoteRemoved, StepAdded, AttachmentsAdded, AttachmentFileRemoved, AttachmentsCleared,
           AttachmentAssigned, AttachmentUnassigned, ExecutionCompleted, ExecutionAborted
  <2>4. CASE ReopenExecution
    <3>1. exec' = [exec EXCEPT !.status = "Active"]
      BY <2>4 DEF ReopenExecution, ExecutionReopened, Result
    <3>2. exec' = [exec EXCEPT !.status = "Active", !.name = exec.name]
      BY <2>1, <3>1 DEF State
    <3> QED
      BY <2>2, <3>2
  <2>5. ASSUME NEW name \in Names, RenameExecution(name)
        PROVE  \E outcome \in Outcomes \cup {"Active"}, m \in Names \cup {None} :
                 exec' = [exec EXCEPT !.status = outcome, !.name = m]
    <3>1. exec' = [exec EXCEPT !.name = name]
      BY <2>5 DEF RenameExecution, ExecutionRenamed, Result
    <3>2. exec' = [exec EXCEPT !.status = exec.status, !.name = name]
      BY <2>1, <3>1 DEF State
    <3> QED
      BY <2>2, <3>2
  <2> QED
    BY <2>3, <2>4, <2>5
<1> QED
  BY <1>1, TypeCorrect, PTL DEF Spec, FinishedRecordIsFrozen

-----------------------------------------------------------------------------
(* The order of the steps. *)

(* r is q with i inserted after position p.                                 *)
GrownAt(q, r, i, p) ==
  /\ Len(r) = Len(q) + 1
  /\ \A k \in 1..p : r[k] = q[k]
  /\ r[p + 1] = i
  /\ \A k \in (p + 2)..(Len(q) + 1) : r[k] = q[k - 1]

(* Cutting q at p and joining the parts around i inserts i.                 *)
LEMMA Inserted ==
  ASSUME NEW S, NEW q \in Seq(S), NEW i \in S, NEW p \in 1..Len(q)
  PROVE  GrownAt(q, SubSeq(q, 1, p) \o << i >> \o SubSeq(q, p + 1, Len(q)), i, p)
<1> DEFINE head == SubSeq(q, 1, p)
           tail == SubSeq(q, p + 1, Len(q))
<1>1. /\ head \in Seq(S) /\ Len(head) = p
      /\ \A k \in 1..p : head[k] = q[k]
  OBVIOUS
<1>2. /\ tail \in Seq(S) /\ Len(tail) = Len(q) - p
      /\ \A k \in 1..(Len(q) - p) : tail[k] = q[k + p]
  OBVIOUS
<1> HIDE DEF head, tail
<1> DEFINE front == head \o << i >>
<1>3. /\ front \in Seq(S) /\ Len(front) = p + 1
      /\ \A k \in 1..p : front[k] = q[k]
      /\ front[p + 1] = i
  BY <1>1
<1> HIDE DEF front
<1>4. /\ Len(front \o tail) = Len(q) + 1
      /\ \A k \in 1..(p + 1) : (front \o tail)[k] = front[k]
      /\ \A k \in (p + 2)..(Len(q) + 1) : (front \o tail)[k] = tail[k - (p + 1)]
  <2>1. /\ Len(front \o tail) = Len(front) + Len(tail)
        /\ \A k \in 1..(Len(front) + Len(tail)) :
             (front \o tail)[k] = IF k <= Len(front) THEN front[k] ELSE tail[k - Len(front)]
    BY <1>2, <1>3, ConcatProperties
  <2>2. Len(front) = p + 1 /\ Len(front) + Len(tail) = Len(q) + 1
    BY <1>2, <1>3
  <2>3. /\ \A k \in 1..(p + 1) : k \in 1..(Len(q) + 1) /\ k <= p + 1
        /\ \A k \in (p + 2)..(Len(q) + 1) : k \in 1..(Len(q) + 1) /\ ~ (k <= p + 1)
    OBVIOUS
  <2> QED
    BY <2>1, <2>2, <2>3
<1>5. ASSUME NEW k \in (p + 2)..(Len(q) + 1)
      PROVE  tail[k - (p + 1)] = q[k - 1]
  <2>1. /\ k - (p + 1) \in 1..(Len(q) - p)
        /\ (k - (p + 1)) + p = k - 1
    OBVIOUS
  <2> QED
    BY <2>1, <1>2
<1> DEFINE r == front \o tail
<1>6. /\ Len(r) = Len(q) + 1
      /\ \A k \in 1..p : r[k] = q[k]
      /\ r[p + 1] = i
      /\ \A k \in (p + 2)..(Len(q) + 1) : r[k] = q[k - 1]
  <2> p \in Nat /\ p + 1 \in 1..(p + 1) /\ \A k \in 1..p : k \in 1..(p + 1)
    OBVIOUS
  <2> QED
    BY <1>3, <1>4, <1>5
<1>7. r = SubSeq(q, 1, p) \o << i >> \o SubSeq(q, p + 1, Len(q))
  BY DEF head, tail, front
<1> HIDE DEF r
<1> QED
  BY <1>6, <1>7 DEF GrownAt

(* The two ways a step joins the order.                                     *)
LEMMA OrderGrows ==
  ASSUME NEW q \in Seq(Steps), NEW r \in Seq(Steps), NEW i \in Steps, NEW p \in 0..Len(q),
         \A j, k \in DOMAIN q : q[j] = q[k] => j = k,
         \A k \in DOMAIN q : q[k] # i,
         GrownAt(q, r, i, p)
  PROVE  /\ \A j, k \in DOMAIN r : r[j] = r[k] => j = k
         /\ \A m \in Steps : (\E k \in DOMAIN r : r[k] = m)
                             <=> m = i \/ \E k \in DOMAIN q : q[k] = m
<1> USE DEF GrownAt
<1>1. DOMAIN q = 1..Len(q) /\ DOMAIN r = 1..(Len(q) + 1) /\ Len(q) \in Nat /\ p \in Nat
  OBVIOUS
<1> DEFINE old(k) == IF k <= p THEN k ELSE k - 1
<1>2. \A k \in DOMAIN r : k # p + 1 => old(k) \in DOMAIN q /\ r[k] = q[old(k)]
  BY <1>1
<1>3. \A j, k \in DOMAIN r : r[j] = r[k] => j = k
  <2> SUFFICES ASSUME NEW j \in DOMAIN r, NEW k \in DOMAIN r, r[j] = r[k]
               PROVE  j = k
    OBVIOUS
  <2>1. CASE j = p + 1 \/ k = p + 1
    BY <2>1, <1>1, <1>2
  <2>2. CASE j # p + 1 /\ k # p + 1
    <3>1. old(j) = old(k)
      BY <2>2, <1>2
    <3> QED
      BY <3>1, <2>2, <1>1
  <2> QED
    BY <2>1, <2>2
<1>4. ASSUME NEW k \in DOMAIN q
      PROVE  \E j \in DOMAIN r : r[j] = q[k]
  <2>1. CASE k <= p
    BY <2>1, <1>1
  <2>2. CASE k > p
    <3>1. k + 1 \in (p + 2)..(Len(q) + 1)
      BY <2>2, <1>1
    <3>2. r[k + 1] = q[k]
      BY <3>1, <1>1
    <3> QED
      BY <3>1, <3>2, <1>1
  <2> QED
    BY <2>1, <2>2, <1>1
<1>5. p + 1 \in DOMAIN r
  BY <1>1
<1> HIDE DEF old
<1>6. ASSUME NEW m \in Steps, NEW k \in DOMAIN r, r[k] = m
      PROVE  m = i \/ \E j \in DOMAIN q : q[j] = m
  BY <1>2, <1>6
<1>7. ASSUME NEW m \in Steps
      PROVE  (\E k \in DOMAIN r : r[k] = m) <=> m = i \/ \E k \in DOMAIN q : q[k] = m
  <2>1. ASSUME m = i
        PROVE  \E k \in DOMAIN r : r[k] = m
    BY <2>1, <1>5
  <2>2. ASSUME NEW k \in DOMAIN q, q[k] = m
        PROVE  \E j \in DOMAIN r : r[j] = m
    BY <2>2, <1>4
  <2> QED
    BY <2>1, <2>2, <1>6
<1> QED
  BY <1>3, <1>7

(* AddStep puts the new step, which no position held, after its anchor or   *)
(* last.                                                                    *)
LEMMA AddStepKeepsOrder ==
  ASSUME TypeOK, StepOrderIsExact, NEW i \in Steps, NEW c \in Contents,
         NEW after \in Steps \cup {None}, AddStep(i, c, after)
  PROVE  StepOrderIsExact'
<1> DEFINE q        == exec.order
           position == CHOOSE k \in DOMAIN q : q[k] = after
           inserted == SubSeq(q, 1, position) \o << i >> \o SubSeq(q, position + 1, Len(q))
           r        == IF after = None THEN Append(q, i) ELSE inserted
<1> exec \in State
  BY DEF TypeOK
<1>1. /\ exec.step[i] = "absent"
      /\ after # None => \E k \in DOMAIN q : q[k] = after
      /\ exec' = [exec EXCEPT !.order = r, !.step[i] = "present",
                              !.content[i] = c, !.checked[i] = c.ticked]
  BY DEF AddStep, StepAdded, Result
<1>2. q \in Seq(Steps)
  BY FieldTypes DEF OrderSet
<1>3. \A k \in DOMAIN q : q[k] # i
  BY <1>1 DEF StepOrderIsExact
<1>4. \A j, k \in DOMAIN q : q[j] = q[k] => j = k
  BY DEF StepOrderIsExact
<1> HIDE DEF q
<1>5. /\ \A j, k \in DOMAIN r : r[j] = r[k] => j = k
      /\ \A m \in Steps : (\E k \in DOMAIN r : r[k] = m)
                          <=> m = i \/ \E k \in DOMAIN q : q[k] = m
  <2>1. CASE after = None
    <3>1. /\ r \in Seq(Steps) /\ Len(r) = Len(q) + 1
          /\ \A k \in 1..Len(q) : r[k] = q[k]
          /\ r[Len(q) + 1] = i
      BY <2>1, <1>2
    <3> HIDE DEF r
    <3>2. Len(q) \in 0..Len(q) /\ \A k \in (Len(q) + 2)..(Len(q) + 1) : FALSE
      BY <1>2
    <3>3. GrownAt(q, r, i, Len(q))
      BY <3>1, <3>2 DEF GrownAt
    <3> QED
      BY <3>1, <3>2, <3>3, <1>2, <1>3, <1>4, OrderGrows, SMTT(30)
  <2>2. CASE after # None
    <3>1. position \in DOMAIN q
      BY <1>1, <2>2
    <3>2. position \in 1..Len(q) /\ position \in 0..Len(q)
      BY <3>1, <1>2
    <3> HIDE DEF position
    <3>3. r = inserted
      BY <2>2
    <3>4. inserted \in Seq(Steps)
      BY <3>2, <1>2
    <3>5. GrownAt(q, inserted, i, position)
      BY <3>2, <1>2, Inserted
    <3> HIDE DEF inserted, r
    <3> QED
      BY <3>2, <3>3, <3>4, <3>5, <1>2, <1>3, <1>4, OrderGrows
  <2> QED
    BY <2>1, <2>2
<1> HIDE DEF r
<1>6. /\ exec'.order = r
      /\ exec'.step = [exec.step EXCEPT ![i] = "present"]
  BY <1>1 DEF State
<1>7. exec.step \in [Steps -> {"absent", "present", "skipped"}]
  BY FieldTypes DEF StepSet
<1>8. \A m \in Steps : exec'.step[m] # "absent" <=> m = i \/ \E k \in DOMAIN q : q[k] = m
  BY <1>6, <1>7 DEF StepOrderIsExact, q
<1> QED
  BY <1>5, <1>6, <1>8 DEF StepOrderIsExact

(* step_order and the steps map agree after every sequence of actions.      *)
THEOREM StepOrderStaysExact == Spec => []StepOrderIsExact
<1>1. Init => StepOrderIsExact
  BY DEF Init, New, StepOrderIsExact
<1>2. ASSUME TypeOK, StepOrderIsExact, Next
      PROVE  StepOrderIsExact'
  <2> exec \in State
    BY <1>2 DEF TypeOK
  <2>1. ASSUME NEW t \in Templates, NEW name \in Names, Start(t, name)
        PROVE  StepOrderIsExact'
    <3>1. /\ exec'.order = [k \in DOMAIN t |-> t[k].step]
          /\ exec'.step = [i \in Steps |-> IF TemplateHas(t, i) THEN "present" ELSE "absent"]
      BY <2>1 DEF Start, StartedFrom, New
    <3>2. \A j, k \in DOMAIN t : t[j].step = t[k].step => j = k
      BY TemplatesAssumption
    <3> QED
      BY <3>1, <3>2 DEF StepOrderIsExact, TemplateHas
  <2>2. ASSUME NEW i \in Steps, NEW c \in Contents, NEW after \in Steps \cup {None},
               AddStep(i, c, after)
        PROVE  StepOrderIsExact'
    BY <1>2, <2>2, AddStepKeepsOrder
  <2>3. ASSUME NEW i \in Steps, SkipStep(i) \/ UnskipStep(i)
        PROVE  StepOrderIsExact'
    <3>1. PICK p \in {"present", "skipped"} :
            exec.step[i] # "absent" /\ exec' = [exec EXCEPT !.step[i] = p]
      BY <2>3 DEF SkipStep, UnskipStep, StepSkipped, StepUnskipped, Result, Present
    <3>2. exec'.order = exec.order /\ exec'.step = [exec.step EXCEPT ![i] = p]
      BY <3>1 DEF State
    <3> QED
      BY <3>1, <3>2, <1>2, FieldTypes DEF StepOrderIsExact, StepSet
  <2>4. ASSUME exec'.order = exec.order, exec'.step = exec.step
        PROVE  StepOrderIsExact'
    BY <2>4, <1>2 DEF StepOrderIsExact
  <2>5. ASSUME NEW i \in Steps, NEW x \in Inputs, NEW group \in Batches, AddAttachments(i, x, group)
        PROVE  exec'.order = exec.order /\ exec'.step = exec.step
    BY <2>5 DEF AddAttachments, AttachmentsAdded, Attach, Result, State
  <2>6. ASSUME NEW i \in Steps, NEW x \in Inputs, NEW f \in Files, AssignAttachment(i, x, f)
        PROVE  exec'.order = exec.order /\ exec'.step = exec.step
    <3> DEFINE u == Attach(exec, i, x, << f >>)
    <3>1. exec' = [u EXCEPT !.inbox[f] = @ - 1]
      BY <2>6 DEF AssignAttachment, AttachmentAssigned, Result
    <3>2. << f >> \in Seq(Files)
      OBVIOUS
    <3>3. u \in State
      BY <3>2, AttachType
    <3>4. u.order = exec.order /\ u.step = exec.step
      BY DEF Attach, State
    <3> HIDE DEF u
    <3> QED
      BY <3>1, <3>3, <3>4 DEF State
  <2>7. ASSUME NEW i \in Steps, NEW x \in Inputs, NEW f \in Files,
               RemoveAttachmentFile(i, x, f) \/ UnassignAttachment(i, x, f)
        PROVE  exec'.order = exec.order /\ exec'.step = exec.step
    BY <2>7 DEF RemoveAttachmentFile, UnassignAttachment, AttachmentFileRemoved,
                AttachmentUnassigned, Result, State
  <2>8. ASSUME NEW i \in Steps, NEW x \in Inputs, ClearAttachments(i, x)
        PROVE  exec'.order = exec.order /\ exec'.step = exec.step
    BY <2>8 DEF ClearAttachments, AttachmentsCleared, Result, State
  <2>9. ASSUME \/ \E i \in Steps, b \in Boxes, on \in BOOLEAN : ToggleCheckbox(i, b, on)
               \/ \E i \in Steps, x \in Inputs, v \in Values : RecordInput(i, x, v)
               \/ \E i \in Steps, x \in Inputs : ClearInput(i, x)
        PROVE  exec'.order = exec.order /\ exec'.step = exec.step
    BY <2>9 DEF ToggleCheckbox, RecordInput, ClearInput, CheckboxToggled, InputRecorded,
                InputCleared, Result, State
  <2>10. ASSUME \/ \E n \in Notes, p \in Places : AddNote(n, p)
                \/ \E n \in Notes : RemoveNote(n)
         PROVE  exec'.order = exec.order /\ exec'.step = exec.step
    BY <2>10 DEF AddNote, RemoveNote, NoteAdded, NoteRemoved, Result, State
  <2>11. ASSUME \/ \E outcome \in Outcomes : Complete(outcome)
                \/ \E name \in Names : RenameExecution(name)
                \/ Abort \/ ReopenExecution
         PROVE  exec'.order = exec.order /\ exec'.step = exec.step
    BY <2>11 DEF Complete, Abort, ReopenExecution, RenameExecution, ExecutionCompleted,
                 ExecutionAborted, ExecutionReopened, ExecutionRenamed, Result, State
  <2>12. ASSUME NEW group \in Batches, ReceiveFiles(group)
         PROVE  exec'.order = exec.order /\ exec'.step = exec.step
    BY <2>12 DEF ReceiveFiles, WithReceived, State
  <2> QED
    BY <1>2, <2>1, <2>2, <2>3, <2>4, <2>5, <2>6, <2>7, <2>8, <2>9, <2>10, <2>11, <2>12 DEF Next
<1>3. TypeOK /\ StepOrderIsExact /\ [Next]_vars => StepOrderIsExact'
  BY <1>2 DEF vars, StepOrderIsExact
<1> QED
  BY <1>1, <1>3, TypeCorrect, PTL DEF Spec

-----------------------------------------------------------------------------
(* Taking back what was recorded. *)

(* Nothing is recorded before the start: no step leads back to Pending.     *)
LEMMA NothingBeforeStart == Spec => [](exec.status = "Pending" => exec = New)
<1> DEFINE Fresh == exec.status = "Pending" => exec = New
<1>1. Init => Fresh
  BY DEF Init
<1>2. ASSUME TypeOK, Next
      PROVE  exec'.status # "Pending"
  <2> exec \in State
    BY <1>2 DEF TypeOK
  <2>1. ASSUME Active(exec), exec'.status = exec.status
        PROVE  exec'.status # "Pending"
    BY <2>1 DEF Active
  <2>2. ASSUME NEW t \in Templates, NEW name \in Names, Start(t, name)
        PROVE  exec'.status # "Pending"
    BY <2>2 DEF Start, StartedFrom, New
  <2>3. ASSUME \/ \E i \in Steps : SkipStep(i) \/ UnskipStep(i)
               \/ \E i \in Steps, b \in Boxes, on \in BOOLEAN : ToggleCheckbox(i, b, on)
               \/ \E i \in Steps, x \in Inputs, v \in Values : RecordInput(i, x, v)
               \/ \E i \in Steps, x \in Inputs : ClearInput(i, x)
        PROVE  Active(exec) /\ exec'.status = exec.status
    BY <2>3 DEF SkipStep, UnskipStep, ToggleCheckbox, RecordInput, ClearInput, StepSkipped,
                StepUnskipped, CheckboxToggled, InputRecorded, InputCleared, Result, State
  <2>4. ASSUME NEW n \in Notes, NEW p \in Places, AddNote(n, p)
        PROVE  Active(exec) /\ exec'.status = exec.status
    BY <2>4 DEF AddNote, NoteAdded, Result, State
  <2>10. ASSUME NEW i \in Steps, NEW c \in Contents, NEW after \in Steps \cup {None},
                AddStep(i, c, after)
         PROVE  Active(exec) /\ exec'.status = exec.status
    <3>1. /\ Active(exec)
          /\ \E order : exec' = [exec EXCEPT !.order = order, !.step[i] = "present",
                                             !.content[i] = c, !.checked[i] = c.ticked]
      BY <2>10 DEF AddStep, StepAdded, Result
    <3> QED
      BY <3>1 DEF State
  <2>9. ASSUME NEW n \in Notes, RemoveNote(n)
        PROVE  Active(exec) /\ exec'.status = exec.status
    <3>1. Active(exec) /\ \E p \in Places : exec' = [exec EXCEPT !.notes[p][n] = @ - 1]
      BY <2>9 DEF RemoveNote, NoteRemoved, Places
    <3> QED
      BY <3>1 DEF State
  <2>5. ASSUME \/ \E i \in Steps, x \in Inputs, group \in Batches : AddAttachments(i, x, group)
               \/ \E i \in Steps, x \in Inputs, g \in Files : RemoveAttachmentFile(i, x, g)
               \/ \E i \in Steps, x \in Inputs : ClearAttachments(i, x)
               \/ \E i \in Steps, x \in Inputs, g \in Files : UnassignAttachment(i, x, g)
        PROVE  Active(exec) /\ exec'.status = exec.status
    BY <2>5 DEF AddAttachments, RemoveAttachmentFile, ClearAttachments, UnassignAttachment,
                AttachmentsAdded, Attach, AttachmentFileRemoved, AttachmentsCleared,
                AttachmentUnassigned, Result, State
  <2>6. ASSUME NEW i \in Steps, NEW x \in Inputs, NEW g \in Files, AssignAttachment(i, x, g)
        PROVE  Active(exec) /\ exec'.status = exec.status
    <3> DEFINE u == Attach(exec, i, x, << g >>)
    <3>1. Active(exec) /\ exec' = [u EXCEPT !.inbox[g] = @ - 1]
      BY <2>6 DEF AssignAttachment, AttachmentAssigned, Result
    <3>2. << g >> \in Seq(Files)
      OBVIOUS
    <3>3. u \in State
      BY <3>2, AttachType
    <3>4. u.status = exec.status
      BY DEF Attach, State
    <3> HIDE DEF u
    <3> QED
      BY <3>1, <3>3, <3>4 DEF State
  <2>7. ASSUME \/ \E outcome \in Outcomes : Complete(outcome)
               \/ \E name \in Names : RenameExecution(name)
               \/ Abort \/ ReopenExecution
        PROVE  exec'.status # "Pending"
    BY <2>7 DEF Complete, Abort, ReopenExecution, RenameExecution, ExecutionCompleted, Outcomes,
                ExecutionAborted, ExecutionReopened, ExecutionRenamed, Result, State
  <2>8. ASSUME NEW group \in Batches, ReceiveFiles(group)
        PROVE  Active(exec) /\ exec'.status = exec.status
    BY <2>8 DEF ReceiveFiles, WithReceived, State
  <2> QED
    BY <1>2, <2>1, <2>2, <2>3, <2>4, <2>5, <2>6, <2>7, <2>8, <2>9, <2>10 DEF Next
<1>3. TypeOK /\ Fresh /\ [Next]_vars => Fresh'
  BY <1>2 DEF vars
<1> QED
  BY <1>1, <1>3, TypeCorrect, PTL DEF Spec

(* A file that arrived in the inbox leaves it only for an input.            *)
THEOREM InboxKeepsFiles == Spec => InboxNeverLosesFile
<1> DEFINE Kept ==
      \A f \in Files :
        exec'.inbox[f] < exec.inbox[f] =>
          /\ exec'.inbox[f] = exec.inbox[f] - 1
          /\ \E i \in Steps, x \in Inputs :
               exec'.files = [exec.files EXCEPT ![i][x][f] = @ + 1]
     Fresh == exec.status = "Pending" => exec = New
<1>1. ASSUME TypeOK, Fresh, Next, NEW f \in Files, exec'.inbox[f] < exec.inbox[f]
      PROVE  /\ exec'.inbox[f] = exec.inbox[f] - 1
             /\ \E i \in Steps, x \in Inputs :
                  exec'.files = [exec.files EXCEPT ![i][x][f] = @ + 1]
  <2> exec \in State
    BY <1>1 DEF TypeOK
  <2> exec.inbox \in [Files -> Nat] /\ ~ (exec.inbox[f] < exec.inbox[f])
    BY FieldTypes DEF InboxSet
  <2>1. ASSUME exec'.inbox = exec.inbox
        PROVE  FALSE
    BY <2>1, <1>1
  <2>2. ASSUME NEW t \in Templates, NEW name \in Names, Start(t, name)
        PROVE  FALSE
    <3>1. exec.inbox[f] = 0
      BY <2>2, <1>1 DEF Start, New
    <3>2. exec'.inbox[f] = 0
      BY <2>2 DEF Start, StartedFrom, New
    <3> QED
      BY <3>1, <3>2, <1>1
  <2>3. ASSUME NEW i \in Steps, NEW x \in Inputs, NEW g \in Files, AssignAttachment(i, x, g)
        PROVE  /\ exec'.inbox[f] = exec.inbox[f] - 1
               /\ \E j \in Steps, y \in Inputs :
                    exec'.files = [exec.files EXCEPT ![j][y][f] = @ + 1]
    <3> DEFINE u == Attach(exec, i, x, << g >>)
    <3>1. exec' = [u EXCEPT !.inbox[g] = @ - 1]
      BY <2>3 DEF AssignAttachment, AttachmentAssigned, Result
    <3>2. << g >> \in Seq(Files)
      OBVIOUS
    <3>3. u \in State
      BY <3>2, AttachType
    <3>4. /\ u.inbox = exec.inbox
          /\ u.files = [exec.files EXCEPT ![i][x] =
                          [h \in Files |-> exec.files[i][x][h] + Occurrences(h, << g >>)]]
      BY DEF Attach, State
    <3> HIDE DEF u
    <3>5. exec'.inbox = [exec.inbox EXCEPT ![g] = @ - 1] /\ exec'.files = u.files
      BY <3>1, <3>3, <3>4 DEF State
    <3>6. g = f /\ exec'.inbox[f] = exec.inbox[f] - 1
      BY <3>5, <1>1
    <3>7. exec.files \in [Steps -> [Inputs -> [Files -> Nat]]]
      BY FieldTypes DEF FilesSet
    <3>8. \A h \in Files : Occurrences(h, << f >>) = IF h = f THEN 1 ELSE 0
      <4>1. << f >> \in Seq(Files) /\ DOMAIN << f >> = {1} /\ << f >>[1] = f
        OBVIOUS
      <4> QED
        BY <4>1, OccursOnce
    <3>9. [h \in Files |-> exec.files[i][x][h] + Occurrences(h, << f >>)]
            = [exec.files[i][x] EXCEPT ![f] = @ + 1]
      BY <3>7, <3>8
    <3>10. exec'.files = [exec.files EXCEPT ![i][x][f] = @ + 1]
      BY <3>4, <3>5, <3>6, <3>9
    <3> QED
      BY <3>6, <3>10
  <2>4. ASSUME NEW i \in Steps, NEW x \in Inputs, NEW g \in Files, UnassignAttachment(i, x, g)
        PROVE  FALSE
    <3>1. exec'.inbox = [exec.inbox EXCEPT ![g] = @ + 1]
      BY <2>4 DEF UnassignAttachment, AttachmentUnassigned, Result, State
    <3> QED
      BY <3>1, <1>1
  <2>5. ASSUME NEW group \in Batches, ReceiveFiles(group)
        PROVE  FALSE
    <3>1. exec'.inbox[f] \in {exec.inbox[f], exec.inbox[f] + 1}
      BY <2>5 DEF ReceiveFiles, WithReceived, State
    <3> QED
      BY <3>1, <1>1
  <2>6. ASSUME \/ \E i \in Steps : SkipStep(i) \/ UnskipStep(i)
               \/ \E i \in Steps, b \in Boxes, on \in BOOLEAN : ToggleCheckbox(i, b, on)
               \/ \E i \in Steps, x \in Inputs, v \in Values : RecordInput(i, x, v)
               \/ \E i \in Steps, x \in Inputs : ClearInput(i, x)
        PROVE  exec'.inbox = exec.inbox
    BY <2>6 DEF SkipStep, UnskipStep, ToggleCheckbox, RecordInput, ClearInput, StepSkipped,
                StepUnskipped, CheckboxToggled, InputRecorded, InputCleared, Result, State
  <2>7. ASSUME \/ \E n \in Notes, p \in Places : AddNote(n, p)
               \/ \E n \in Notes : RemoveNote(n)
        PROVE  exec'.inbox = exec.inbox
    BY <2>7 DEF AddNote, RemoveNote, NoteAdded, NoteRemoved, Result, State
  <2>11. ASSUME NEW i \in Steps, NEW c \in Contents, NEW after \in Steps \cup {None},
                AddStep(i, c, after)
         PROVE  exec'.inbox = exec.inbox
    <3>1. \E order : exec' = [exec EXCEPT !.order = order, !.step[i] = "present",
                                         !.content[i] = c, !.checked[i] = c.ticked]
      BY <2>11 DEF AddStep, StepAdded, Result
    <3> QED
      BY <3>1 DEF State
  <2>8. ASSUME \/ \E i \in Steps, x \in Inputs, group \in Batches : AddAttachments(i, x, group)
               \/ \E i \in Steps, x \in Inputs, g \in Files : RemoveAttachmentFile(i, x, g)
               \/ \E i \in Steps, x \in Inputs : ClearAttachments(i, x)
        PROVE  exec'.inbox = exec.inbox
    BY <2>8 DEF AddAttachments, RemoveAttachmentFile, ClearAttachments, AttachmentsAdded, Attach,
                AttachmentFileRemoved, AttachmentsCleared, Result, State
  <2>9. ASSUME \/ \E outcome \in Outcomes : Complete(outcome)
               \/ \E name \in Names : RenameExecution(name)
               \/ Abort \/ ReopenExecution
        PROVE  exec'.inbox = exec.inbox
    BY <2>9 DEF Complete, Abort, ReopenExecution, RenameExecution, ExecutionCompleted,
                ExecutionAborted, ExecutionReopened, ExecutionRenamed, Result, State
  <2>10. \E i \in Steps, x \in Inputs, g \in Files : AssignAttachment(i, x, g)
    <3>1. exec'.inbox # exec.inbox
      BY <2>1
    <3> QED
      BY <1>1, <3>1, <2>2, <2>4, <2>5, <2>6, <2>7, <2>8, <2>9, <2>11, ZenonT(60) DEF Next
  <2> QED
    BY <2>3, <2>10
<1>2. TypeOK /\ Fresh /\ Next => Kept
  BY <1>1
<1> QED
  BY <1>2, TypeCorrect, NothingBeforeStart, PTL DEF Spec, InboxNeverLosesFile

(* A file put on an input raises its count there by one, and no other.      *)
LEMMA AttachOne ==
  ASSUME NEW s \in State, NEW i \in Steps, NEW x \in Inputs, NEW f \in Files
  PROVE  /\ Attach(s, i, x, << f >>) \in State
         /\ Attach(s, i, x, << f >>) = [s EXCEPT !.files[i][x][f] = @ + 1]
<1>1. << f >> \in Seq(Files) /\ DOMAIN << f >> = {1} /\ << f >>[1] = f
  OBVIOUS
<1>2. \A h \in Files : Occurrences(h, << f >>) = IF h = f THEN 1 ELSE 0
  BY <1>1, OccursOnce
<1>3. s.files[i][x] \in [Files -> Nat]
  BY FieldTypes DEF FilesSet
<1>4. [h \in Files |-> s.files[i][x][h] + Occurrences(h, << f >>)] = [s.files[i][x] EXCEPT ![f] = @ + 1]
  BY <1>2, <1>3
<1>5. Attach(s, i, x, << f >>) =
        [s EXCEPT !.files = [s.files EXCEPT ![i] = [s.files[i] EXCEPT ![x] =
           [h \in Files |-> s.files[i][x][h] + Occurrences(h, << f >>)]]]]
  BY DEF Attach
<1>6. Attach(s, i, x, << f >>) = [s EXCEPT !.files[i][x][f] = @ + 1]
  BY <1>4, <1>5
<1>7. Attach(s, i, x, << f >>) \in State
  BY <1>1, AttachType
<1> QED
  BY <1>6, <1>7

(* Taking back, event by event: s is the state before.                      *)
LEMMA SkipReversal ==
  ASSUME NEW s \in State, NEW i \in Steps, NEW t \in StepSkipped(s, i)
  PROVE  s \in StepUnskipped(t, i)
<1>1. Active(s) /\ s.step[i] = "present" /\ t = [s EXCEPT !.step = [s.step EXCEPT ![i] = "skipped"]]
  BY DEF StepSkipped, Result, Present
<1>2. t.status = s.status /\ t.step = [s.step EXCEPT ![i] = "skipped"]
  BY <1>1 DEF State
<1>3. s.step \in [Steps -> {"absent", "present", "skipped"}]
  BY FieldTypes DEF StepSet
<1>4. t.step[i] = "skipped" /\ [t.step EXCEPT ![i] = "present"] = s.step
  BY <1>1, <1>2, <1>3
<1>5. [t EXCEPT !.step = s.step] = s
  BY <1>1 DEF State
<1> QED
  BY <1>1, <1>2, <1>4, <1>5 DEF StepUnskipped, Result, Active

(* Clearing a value gives back the state before it was recorded.            *)
LEMMA InputReversal ==
  ASSUME NEW s \in State, NEW i \in Steps, NEW x \in Inputs, NEW v \in Values,
         NEW t \in InputRecorded(s, i, x, v)
  PROVE  s \in InputCleared(t, i, x)
<1> DEFINE values == [s.value EXCEPT ![i] = [s.value[i] EXCEPT ![x] = v]]
<1>1. Active(s) /\ Present(s, i) /\ s.value[i][x] = None /\ t = [s EXCEPT !.value = values]
  BY DEF InputRecorded, Result
<1>2. s.value \in [Steps -> [Inputs -> Values \cup {None}]]
  BY FieldTypes DEF ValueSet
<1>3. values[i][x] = v /\ [values EXCEPT ![i] = [values[i] EXCEPT ![x] = None]] = s.value
  BY <1>1, <1>2
<1> HIDE DEF values
<1>4. t.status = s.status /\ t.step = s.step /\ t.value = values
  BY <1>1 DEF State
<1>5. [t EXCEPT !.value = s.value] = s
  BY <1>1 DEF State
<1>6. v # None
  BY NoneAssumption
<1> QED
  BY <1>1, <1>3, <1>4, <1>5, <1>6 DEF InputCleared, Result, Active, Present

(* Removing an attached file, returning an assigned one.                    *)
LEMMA FileReversals ==
  ASSUME NEW s \in State, NEW i \in Steps, NEW x \in Inputs, NEW f \in Files
  PROVE  /\ \A t \in AttachmentsAdded(s, i, x, << f >>) : s \in AttachmentFileRemoved(t, i, x, f)
         /\ \A t \in AttachmentAssigned(s, i, x, f) : s \in AttachmentUnassigned(t, i, x, f)
<1> DEFINE more == [s.files EXCEPT ![i] = [s.files[i] EXCEPT ![x] =
                      [s.files[i][x] EXCEPT ![f] = s.files[i][x][f] + 1]]]
<1>3. s.files \in [Steps -> [Inputs -> [Files -> Nat]]]
  BY FieldTypes DEF FilesSet
<1>4. /\ more[i][x][f] > 0
      /\ [more EXCEPT ![i] = [more[i] EXCEPT ![x] = [more[i][x] EXCEPT ![f] = more[i][x][f] - 1]]]
           = s.files
  BY <1>3
<1>5. Attach(s, i, x, << f >>) = [s EXCEPT !.files = more]
  BY AttachOne
<1> HIDE DEF more
<1>6. ASSUME NEW t \in AttachmentsAdded(s, i, x, << f >>)
      PROVE  s \in AttachmentFileRemoved(t, i, x, f)
  <2>1. Active(s) /\ Present(s, i) /\ t = [s EXCEPT !.files = more]
    BY <1>5 DEF AttachmentsAdded, Result
  <2>2. t.status = s.status /\ t.step = s.step /\ t.files = more
    BY <2>1 DEF State
  <2>3. [t EXCEPT !.files = s.files] = s
    BY <2>1 DEF State
  <2> QED
    BY <2>1, <2>2, <2>3, <1>4 DEF AttachmentFileRemoved, Result, Active, Present, OnInput
<1>7. ASSUME NEW t \in AttachmentAssigned(s, i, x, f)
      PROVE  s \in AttachmentUnassigned(t, i, x, f)
  <2> DEFINE u    == Attach(s, i, x, << f >>)
             less == [s.inbox EXCEPT ![f] = s.inbox[f] - 1]
  <2>1. Active(s) /\ Present(s, i) /\ s.inbox[f] > 0 /\ t = [u EXCEPT !.inbox[f] = @ - 1]
    BY DEF AttachmentAssigned, Result
  <2>2. u.inbox = s.inbox
    BY <1>5 DEF State
  <2>3. t = [s EXCEPT !.files = more, !.inbox = less]
    BY <2>1, <2>2, <1>5
  <2>4. s.inbox \in [Files -> Nat]
    BY FieldTypes DEF InboxSet
  <2>5. [less EXCEPT ![f] = less[f] + 1] = s.inbox
    BY <2>4
  <2> HIDE DEF u, less
  <2>6. t.status = s.status /\ t.step = s.step /\ t.files = more /\ t.inbox = less
    BY <2>3 DEF State
  <2>7. [t EXCEPT !.files = s.files, !.inbox = s.inbox] = s
    BY <2>3 DEF State
  <2>8. [t EXCEPT !.files[i][x][f] = @ - 1, !.inbox[f] = @ + 1] = s
    BY <2>5, <2>6, <2>7, <1>4
  <2>9. Active(t) /\ Present(t, i) /\ f \in OnInput(t, i, x)
    BY <2>1, <2>6, <1>4 DEF Active, Present, OnInput
  <2> QED
    BY <2>8, <2>9 DEF AttachmentUnassigned, Result
<1> QED
  BY <1>6, <1>7

(* Removing a note that was just added finds that note and no other.        *)
LEMMA NoteReversal ==
  ASSUME NEW s \in State, NEW n \in Notes, NEW p \in Places, NEW t \in NoteAdded(s, n, p)
  PROVE  s \in NoteRemoved(t, n)
<1> DEFINE more == [s.notes EXCEPT ![p] = [s.notes[p] EXCEPT ![n] = s.notes[p][n] + 1]]
<1>1. Active(s) /\ (\A q \in Places : ~ (s.notes[q][n] > 0)) /\ t = [s EXCEPT !.notes = more]
  BY DEF NoteAdded, NoteExists, Result
<1>2. s.notes \in [Places -> [Notes -> Nat]]
  BY FieldTypes DEF NotesSet
<1>3. /\ more[p][n] > 0
      /\ \A q \in Places : q # p => ~ (more[q][n] > 0)
      /\ [more EXCEPT ![p] = [more[p] EXCEPT ![n] = more[p][n] - 1]] = s.notes
  BY <1>1, <1>2
<1> HIDE DEF more
<1>4. t.status = s.status /\ t.notes = more
  BY <1>1 DEF State
<1>5. [t EXCEPT !.notes = s.notes] = s
  BY <1>1 DEF State
<1>6. [t EXCEPT !.notes[p][n] = @ - 1] = s
  BY <1>3, <1>4, <1>5
<1>7. p \in {q \in IF t.notes[None][n] > 0 THEN {None} ELSE Steps : t.notes[q][n] > 0}
  BY <1>3, <1>4, NoneAssumption DEF Places
<1> QED
  BY <1>1, <1>4, <1>6, <1>7 DEF NoteRemoved, Active

(* What was recorded can be taken back at once.                             *)
THEOREM ReversalsRestore == Spec => []ReversalRestores
<1>1. TypeOK => ReversalRestores
  <2> SUFFICES ASSUME TypeOK
               PROVE  ReversalRestores
    OBVIOUS
  <2> exec \in State
    BY DEF TypeOK
  <2>1. ASSUME NEW outcome \in Outcomes, NEW t \in ExecutionCompleted(exec, outcome)
        PROVE  exec \in ExecutionReopened(t)
    <3>1. exec.status = "Active" /\ t = [exec EXCEPT !.status = outcome]
      BY <2>1 DEF ExecutionCompleted, Result, Active
    <3>2. t.status = outcome /\ [t EXCEPT !.status = "Active"] = exec
      BY <3>1 DEF State
    <3> QED
      BY <3>2 DEF ExecutionReopened, Result, Finished
  <2> QED
    BY <2>1, SkipReversal, InputReversal, FileReversals, NoteReversal DEF ReversalRestores
<1> QED
  BY <1>1, TypeCorrect, PTL
-----------------------------------------------------------------------------
(* The log.  `from_events` replays an event at a time: what a log gives, it  *)
(* gives step by step, and a state that was reached by actions is what the   *)
(* events they recorded give.                                                *)

(* The states that a set of states leads to with one event more.            *)
AfterEvent(states, e) == UNION {Apply(s, e) : s \in states}

(* Induction over numbers and sequences.                                    *)
Induction == INSTANCE FoldProofs WITH Op <- AfterEvent, Base <- {New}

(* The function ReplayFrom is defined by.                                   *)
Trace(s0, events, n, f) ==
  f = [k \in 0..n |-> IF k = 0 THEN {s0} ELSE AfterEvent(f[k - 1], events[k])]

(* There is such a function.                                                *)
LEMMA TraceExists ==
  ASSUME NEW s0, NEW events
  PROVE  \A n \in Nat : \E f : Trace(s0, events, n, f)
<1> DEFINE Numbers == {n \in Nat : \E f : Trace(s0, events, n, f)}
<1>1. 0 \in Numbers
  <2>1. Trace(s0, events, 0, [k \in 0..0 |-> {s0}])
    BY DEF Trace
  <2> QED
    BY <2>1
<1>2. ASSUME NEW n \in Nat, n \in Numbers
      PROVE  n + 1 \in Numbers
  <2>1. PICK f : Trace(s0, events, n, f)
    BY <1>2
  <2> DEFINE g == [k \in 0..(n + 1) |->
                     IF k = n + 1 THEN AfterEvent(f[n], events[n + 1]) ELSE f[k]]
  <2>2. /\ \A k \in 0..n : g[k] = f[k]
        /\ g[n + 1] = AfterEvent(f[n], events[n + 1])
    OBVIOUS
  <2>3. \A k \in 0..n : f[k] = IF k = 0 THEN {s0} ELSE AfterEvent(f[k - 1], events[k])
    BY <2>1 DEF Trace
  <2>4. ASSUME NEW k \in 0..(n + 1)
        PROVE  g[k] = IF k = 0 THEN {s0} ELSE AfterEvent(g[k - 1], events[k])
    <3> HIDE DEF g
    <3>1. CASE k = n + 1
      <4>1. n \in 0..n /\ k # 0 /\ k - 1 = n
        BY <3>1
      <4> QED
        BY <2>2, <3>1, <4>1
    <3>2. CASE k \in 0..n /\ k # 0
      <4>1. k - 1 \in 0..n
        BY <3>2
      <4> QED
        BY <2>2, <2>3, <3>2, <4>1
    <3>3. CASE k = 0
      BY <2>2, <2>3, <3>3
    <3> QED
      BY <3>1, <3>2, <3>3
  <2>5. Trace(s0, events, n + 1, g)
    BY <2>4 DEF Trace
  <2> QED
    BY <2>5
<1> HIDE DEF Numbers
<1>3. \A n \in Nat : n \in Numbers
  BY <1>1, <1>2, Induction!NumberInduction
<1> QED
  BY <1>3 DEF Numbers

(* The first k elements of two sequences are the same.                       *)
BeginAlike(s, t, k) == \A i \in 1..k : s[i] = t[i]

(* What it gives for the first events depends on them alone.                *)
LEMMA TraceOfBeginning ==
  ASSUME NEW s0, NEW s, NEW t, NEW n \in Nat, NEW m \in Nat, NEW f, NEW g,
         Trace(s0, s, n, f), Trace(s0, t, m, g)
  PROVE  \A k \in Nat : k <= n /\ k <= m /\ BeginAlike(s, t, k) => f[k] = g[k]
<1> DEFINE Numbers == {k \in Nat : k <= n /\ k <= m /\ BeginAlike(s, t, k) => f[k] = g[k]}
<1>1. /\ \A k \in 0..n : f[k] = IF k = 0 THEN {s0} ELSE AfterEvent(f[k - 1], s[k])
      /\ \A k \in 0..m : g[k] = IF k = 0 THEN {s0} ELSE AfterEvent(g[k - 1], t[k])
  BY DEF Trace
<1>2. 0 \in Numbers
  BY <1>1
<1>3. ASSUME NEW k \in Nat, k \in Numbers
      PROVE  k + 1 \in Numbers
  <2> SUFFICES ASSUME k + 1 <= n, k + 1 <= m, BeginAlike(s, t, k + 1)
               PROVE  f[k + 1] = g[k + 1]
    OBVIOUS
  <2>1. BeginAlike(s, t, k) /\ s[k + 1] = t[k + 1]
    BY DEF BeginAlike
  <2>2. f[k] = g[k]
    BY <1>3, <2>1
  <2>3. /\ f[k + 1] = AfterEvent(f[k], s[k + 1])
        /\ g[k + 1] = AfterEvent(g[k], t[k + 1])
    <3>1. k + 1 \in 0..n /\ k + 1 \in 0..m /\ k + 1 # 0 /\ (k + 1) - 1 = k
      OBVIOUS
    <3> QED
      BY <1>1, <3>1
  <2> QED
    BY <2>1, <2>2, <2>3
<1> HIDE DEF Numbers
<1>4. \A k \in Nat : k \in Numbers
  BY <1>2, <1>3, Induction!NumberInduction
<1> QED
  BY <1>4 DEF Numbers

(* ReplayFrom is its last value.                                            *)
LEMMA ReplayIsTrace ==
  ASSUME NEW s0, NEW events, Len(events) \in Nat
  PROVE  \E f : Trace(s0, events, Len(events), f) /\ ReplayFrom(s0, events) = f[Len(events)]
<1> DEFINE f == CHOOSE g : Trace(s0, events, Len(events), g)
<1>1. Trace(s0, events, Len(events), f)
  BY TraceExists
<1>2. ReplayFrom(s0, events) = f[Len(events)]
  BY DEF ReplayFrom, Trace, AfterEvent
<1> QED
  BY <1>1, <1>2

(* Nothing is replayed of an empty log.                                     *)
LEMMA ReplayOfNone ==
  ASSUME NEW s0
  PROVE  ReplayFrom(s0, << >>) = {s0}
<1>1. Len(<< >>) = 0
  OBVIOUS
<1>2. PICK f : Trace(s0, << >>, 0, f) /\ ReplayFrom(s0, << >>) = f[0]
  BY <1>1, ReplayIsTrace
<1>3. 0 \in 0..0
  OBVIOUS
<1> QED
  BY <1>2, <1>3 DEF Trace

(* A log with an event more replays to what the log did, with the event     *)
(* applied (from_events).                                                   *)
THEOREM ReplayOfAppend ==
  ASSUME NEW s0, NEW E, NEW log \in Seq(E), NEW e
  PROVE  ReplayFrom(s0, Append(log, e)) = AfterEvent(ReplayFrom(s0, log), e)
<1> DEFINE n == Len(log)
           more == Append(log, e)
<1>1. /\ n \in Nat /\ Len(more) = n + 1 /\ more[n + 1] = e
      /\ \A i \in 1..n : log[i] = more[i]
  <2>1. log \in Seq(E \cup {e})
    OBVIOUS
  <2> QED
    BY <2>1, AppendProperties, LenProperties
<1> HIDE DEF n, more
<1>2. PICK f : Trace(s0, log, n, f) /\ ReplayFrom(s0, log) = f[n]
  <2>1. n = Len(log) /\ Len(log) \in Nat
    BY <1>1 DEF n
  <2>2. \E f : Trace(s0, log, Len(log), f) /\ ReplayFrom(s0, log) = f[Len(log)]
    BY <2>1, ReplayIsTrace, Zenon
  <2> QED
    BY <2>1, <2>2, Zenon
<1>3. PICK g : Trace(s0, more, n + 1, g) /\ ReplayFrom(s0, more) = g[n + 1]
  <2>1. Len(more) = n + 1 /\ Len(more) \in Nat
    BY <1>1
  <2>2. \E g : Trace(s0, more, Len(more), g) /\ ReplayFrom(s0, more) = g[Len(more)]
    BY <2>1, ReplayIsTrace, Zenon
  <2> QED
    BY <2>1, <2>2, Zenon
<1>4. f[n] = g[n]
  <2>1. n \in Nat /\ n + 1 \in Nat /\ n <= n /\ n <= n + 1
    BY <1>1
  <2>2. Trace(s0, log, n, f) /\ Trace(s0, more, n + 1, g)
    BY <1>2, <1>3
  <2>3. BeginAlike(log, more, n)
    BY <1>1 DEF BeginAlike
  <2> QED
    BY <2>1, <2>2, <2>3, TraceOfBeginning
<1>5. g[n + 1] = AfterEvent(g[n], more[n + 1])
  <2>1. n + 1 \in 0..(n + 1) /\ n + 1 # 0 /\ (n + 1) - 1 = n
    BY <1>1
  <2> QED
    BY <1>3, <2>1 DEF Trace
<1>6. ReplayFrom(s0, more) = AfterEvent(ReplayFrom(s0, log), e)
  BY <1>1, <1>2, <1>3, <1>4, <1>5
<1> QED
  BY <1>6 DEF more

(* The events of an execution, with anything an event may name.             *)
Event ==
  [type : {"ExecutionStarted", "ExecutionAborted", "ExecutionReopened"}]
    \cup [type : {"ExecutionCompleted"}, outcome : Outcomes]
    \cup [type : {"ExecutionRenamed"}, name : Names]
    \cup [type : {"StepAdded"}, step : Steps, content : Contents, after : Steps \cup {None}]
    \cup [type : {"StepSkipped", "StepUnskipped"}, step : Steps]
    \cup [type : {"CheckboxToggled"}, step : Steps, box : Boxes, on : BOOLEAN]
    \cup [type : {"InputRecorded"}, step : Steps, input : Inputs, value : Values]
    \cup [type : {"InputCleared", "AttachmentsCleared"}, step : Steps, input : Inputs]
    \cup [type : {"NoteAdded"}, note : Notes, place : Places]
    \cup [type : {"NoteRemoved"}, note : Notes]
    \cup [type : {"AttachmentsAdded"}, step : Steps, input : Inputs, batch : Seq(Files)]
    \cup [type : {"AttachmentFileRemoved", "AttachmentAssigned", "AttachmentUnassigned"},
          step : Steps, input : Inputs, file : Files]
    \cup [type : {"AttachmentReceived"}, file : Files]

(* Every event takes a state to a state.                                    *)
LEMMA EventTypes ==
  ASSUME NEW s \in State, NEW e \in Event, NEW t \in Apply(s, e)
  PROVE  t \in State
<1>1. CASE e \in [type : {"ExecutionStarted", "ExecutionAborted", "ExecutionReopened"}]
  <2>1. \E u \in StatusSet : t = [s EXCEPT !.status = u]
    BY <1>1 DEF Apply, ExecutionStarted, ExecutionAborted, ExecutionReopened, Result,
                StatusSet, Outcomes
  <2> QED
    BY <2>1 DEF State
<1>2. CASE e \in [type : {"ExecutionCompleted"}, outcome : Outcomes]
  <2>1. \E u \in StatusSet : t = [s EXCEPT !.status = u]
    BY <1>2 DEF Apply, ExecutionCompleted, Result, StatusSet
  <2> QED
    BY <2>1 DEF State
<1>3. CASE e \in [type : {"ExecutionRenamed"}, name : Names]
  <2>1. t = [s EXCEPT !.name = e.name] /\ e.name \in NameSet
    BY <1>3 DEF Apply, ExecutionRenamed, Result, NameSet
  <2> QED
    BY <2>1 DEF State
<1>4. CASE e \in [type : {"StepAdded"}, step : Steps, content : Contents,
                  after : Steps \cup {None}]
  <2>1. t \in StepAdded(s, e.step, e.content, e.after)
    BY <1>4 DEF Apply
  <2> QED
    BY <1>4, <2>1, StepAddedType
<1>5. CASE e \in [type : {"StepSkipped", "StepUnskipped"}, step : Steps]
  <2>1. \E p \in {"present", "skipped"} : t = [s EXCEPT !.step[e.step] = p]
    BY <1>5 DEF Apply, StepSkipped, StepUnskipped, Result
  <2>2. \A p \in {"present", "skipped"} : [s.step EXCEPT ![e.step] = p] \in StepSet
    BY <1>5, FieldTypes DEF StepSet
  <2> QED
    BY <2>1, <2>2 DEF State
<1>6. CASE e \in [type : {"CheckboxToggled"}, step : Steps, box : Boxes, on : BOOLEAN]
  <2>1. t = [s EXCEPT !.checked[e.step] = IF e.on THEN @ \cup {e.box} ELSE @ \ {e.box}]
    BY <1>6 DEF Apply, CheckboxToggled, Result
  <2>2. \A c \in SUBSET Boxes : [s.checked EXCEPT ![e.step] = c] \in CheckedSet
    BY <1>6, FieldTypes DEF CheckedSet
  <2>3. /\ s.checked[e.step] \cup {e.box} \in SUBSET Boxes
        /\ s.checked[e.step] \ {e.box} \in SUBSET Boxes
    BY <1>6, FieldTypes DEF CheckedSet
  <2>4. PICK c \in SUBSET Boxes : t = [s EXCEPT !.checked[e.step] = c]
    BY <2>1, <2>3
  <2> QED
    BY <2>2, <2>4 DEF State
<1>7. CASE e \in [type : {"InputRecorded"}, step : Steps, input : Inputs, value : Values]
  <2>1. t = [s EXCEPT !.value[e.step][e.input] = e.value]
    BY <1>7 DEF Apply, InputRecorded, Result
  <2>2. [s.value EXCEPT ![e.step] = [s.value[e.step] EXCEPT ![e.input] = e.value]] \in ValueSet
    BY <1>7, FieldTypes DEF ValueSet
  <2> QED
    BY <2>1, <2>2 DEF State
<1>8. CASE e \in [type : {"InputCleared", "AttachmentsCleared"}, step : Steps, input : Inputs]
  <2>1. CASE e.type = "InputCleared"
    <3>1. t = [s EXCEPT !.value[e.step][e.input] = None]
      BY <2>1 DEF Apply, InputCleared, Result
    <3>2. [s.value EXCEPT ![e.step] = [s.value[e.step] EXCEPT ![e.input] = None]] \in ValueSet
      BY <1>8, FieldTypes DEF ValueSet
    <3> QED
      BY <3>1, <3>2 DEF State
  <2>2. CASE e.type = "AttachmentsCleared"
    <3>1. t \in AttachmentsCleared(s, e.step, e.input)
      BY <2>2 DEF Apply
    <3> QED
      BY <1>8, <3>1, ClearedType
  <2> QED
    BY <1>8, <2>1, <2>2
<1>9. CASE e \in [type : {"NoteAdded"}, note : Notes, place : Places]
  <2>1. t = [s EXCEPT !.notes[e.place][e.note] = @ + 1]
    BY <1>9 DEF Apply, NoteAdded, Result
  <2>2. [s.notes EXCEPT ![e.place] =
           [s.notes[e.place] EXCEPT ![e.note] = s.notes[e.place][e.note] + 1]] \in NotesSet
    BY <1>9, FieldTypes DEF NotesSet
  <2> QED
    BY <2>1, <2>2 DEF State
<1>10. CASE e \in [type : {"NoteRemoved"}, note : Notes]
  <2>1. t \in NoteRemoved(s, e.note)
    BY <1>10 DEF Apply
  <2> QED
    BY <1>10, <2>1, NoteRemovedType
<1>11. CASE e \in [type : {"AttachmentsAdded"}, step : Steps, input : Inputs, batch : Seq(Files)]
  <2>1. t = Attach(s, e.step, e.input, e.batch)
    BY <1>11 DEF Apply, AttachmentsAdded, Result
  <2> QED
    BY <1>11, <2>1, AttachType
<1>12. CASE e \in [type : {"AttachmentFileRemoved", "AttachmentAssigned",
                           "AttachmentUnassigned"},
                   step : Steps, input : Inputs, file : Files]
  <2>1. \/ t \in AttachmentFileRemoved(s, e.step, e.input, e.file)
        \/ t \in AttachmentAssigned(s, e.step, e.input, e.file)
        \/ t \in AttachmentUnassigned(s, e.step, e.input, e.file)
    BY <1>12 DEF Apply
  <2> QED
    BY <1>12, <2>1, FileRemovedType, AssignedType, UnassignedType
<1>13. CASE e \in [type : {"AttachmentReceived"}, file : Files]
  <2>1. t = [s EXCEPT !.inbox[e.file] = @ + 1]
    BY <1>13 DEF Apply, AttachmentReceived, Result
  <2>2. [s.inbox EXCEPT ![e.file] = s.inbox[e.file] + 1] \in InboxSet
    BY <1>13, FieldTypes DEF InboxSet
  <2> QED
    BY <2>1, <2>2 DEF State
<1> QED
  BY <1>1, <1>2, <1>3, <1>4, <1>5, <1>6, <1>7, <1>8, <1>9, <1>10, <1>11, <1>12, <1>13 DEF Event

(* Every log of events, also one that devices wrote without knowing of each *)
(* other, replays to an ExecutionState or is refused: no event takes away   *)
(* what is not there (from_events).                                         *)
THEOREM EveryLogHasType ==
  \A log \in Seq(Event) : Replay(log) \subseteq State
<1> DEFINE Typed == {log \in Seq(Event) : Replay(log) \subseteq State}
<1>1. << >> \in Typed
  <2>1. New \in State
    BY DEF New, State, StatusSet, NameSet, OrderSet, StepSet, ContentSet, CheckedSet, ValueSet,
           FilesSet, NotesSet, InboxSet, NoContent, ContentType
  <2>2. << >> \in Seq(Event)
    OBVIOUS
  <2> QED
    BY <2>1, <2>2, ReplayOfNone DEF Replay
<1>2. ASSUME NEW log \in Seq(Event), NEW e \in Event, log \in Typed
      PROVE  Append(log, e) \in Typed
  <2>1. Replay(Append(log, e)) = AfterEvent(Replay(log), e)
    BY ReplayOfAppend DEF Replay
  <2>2. ASSUME NEW t \in AfterEvent(Replay(log), e)
        PROVE  t \in State
    <3>1. PICK s \in Replay(log) : t \in Apply(s, e)
      BY <2>2 DEF AfterEvent
    <3> QED
      BY <1>2, <3>1, EventTypes
  <2>3. Append(log, e) \in Seq(Event)
    OBVIOUS
  <2> QED
    BY <2>1, <2>2, <2>3
<1>3. \A log \in Seq(Event) : log \in Typed
  <2> HIDE DEF Typed
  <2> QED
    BY <1>1, <1>2, Induction!SequenceInduction
<1> QED
  BY <1>3

(* A log that replays to one state, and an event that leads from a state to *)
(* one state.                                                               *)
ReplaysTo(log, s)  == log \in Seq(Event) /\ Replay(log) = {s}
LeadsTo(s, e, t)   == e \in Event /\ Apply(s, e) = {t}

(* Such an event appended to such a log.                                    *)
LEMMA OneMore ==
  ASSUME NEW log, NEW s, NEW e, NEW t, ReplaysTo(log, s), LeadsTo(s, e, t)
  PROVE  ReplaysTo(Append(log, e), t)
<1>1. Replay(Append(log, e)) = AfterEvent(Replay(log), e)
  BY ReplayOfAppend DEF Replay, ReplaysTo
<1>2. AfterEvent({s}, e) = {t}
  BY DEF AfterEvent, LeadsTo
<1>3. Append(log, e) \in Seq(Event)
  BY DEF ReplaysTo, LeadsTo
<1> QED
  BY <1>1, <1>2, <1>3 DEF ReplaysTo

-----------------------------------------------------------------------------
(* The steps of a beginning p of a template have different ids.             *)
StepsDiffer(p) == \A j, k \in DOMAIN p : p[j].step = p[k].step => j = k

(* The event that adds a step of a template.                                *)
Adds(entry) == [type |-> "StepAdded", step |-> entry.step, content |-> entry.content,
                after |-> None]

(* What a template says of a step is what its one entry for it says.        *)
LEMMA ContentOfEntry ==
  ASSUME NEW p, StepsDiffer(p), NEW k \in DOMAIN p
  PROVE  /\ TemplateHas(p, p[k].step)
         /\ TemplateContent(p, p[k].step) = p[k].content
<1> DEFINE j == CHOOSE m \in DOMAIN p : p[m].step = p[k].step
<1>1. j \in DOMAIN p /\ p[j].step = p[k].step
  OBVIOUS
<1>2. j = k
  BY <1>1 DEF StepsDiffer
<1>3. TemplateContent(p, p[k].step) = p[j].content
  BY DEF TemplateContent
<1> HIDE DEF j
<1> QED
  BY <1>2, <1>3 DEF TemplateHas

(* A started execution with these steps.                                    *)
Started(name, order, step, content, checked) ==
  [ status |-> "Active", name |-> name, order |-> order, step |-> step, content |-> content,
    checked |-> checked, value |-> New.value, files |-> New.files, notes |-> New.notes,
    inbox |-> New.inbox ]

(* A new execution once started, and an execution with a step changed.      *)
Begun(name, order, step, content, checked) ==
  [New EXCEPT !.status = "Active", !.name = name, !.order = order,
              !.step = step, !.content = content, !.checked = checked]

Changed(f, i, v) == [f EXCEPT ![i] = v]

WithStep(s, order, i, p, c, b) ==
  [s EXCEPT !.order = order, !.step[i] = p, !.content[i] = c, !.checked[i] = b]

(* What the first of the two is field by field.                             *)
LEMMA BegunFields ==
  ASSUME NEW name, NEW order, NEW step, NEW content, NEW checked
  PROVE  Begun(name, order, step, content, checked)
           = Started(name, order, step, content, checked)
<1> DEFINE s == Started(name, order, step, content, checked)
           value == [j \in Steps |-> [x \in Inputs |-> None]]
           files == [j \in Steps |-> [x \in Inputs |-> [f \in Files |-> 0]]]
           notes == [r \in Places |-> [n \in Notes |-> 0]]
           inbox == [f \in Files |-> 0]
           absent == [j \in Steps |-> "absent"]
           none == [j \in Steps |-> NoContent]
           empty == [j \in Steps |-> {}]
<1>1. New = [ status |-> "Pending", name |-> None, order |-> << >>, step |-> absent,
              content |-> none, checked |-> empty, value |-> value, files |-> files,
              notes |-> notes, inbox |-> inbox ]
  BY DEF New
<1> HIDE DEF value, files, notes, inbox, absent, none, empty
<1> DEFINE record(status, called, listed, states, contents, ticks) ==
             [ status |-> status, name |-> called, order |-> listed, step |-> states,
               content |-> contents, checked |-> ticks, value |-> value, files |-> files,
               notes |-> notes, inbox |-> inbox ]
<1>2. [New EXCEPT !.status = "Active", !.name = name, !.order = order,
                  !.step = step, !.content = content, !.checked = checked]
        = record("Active", name, order, step, content, checked)
  <2>1. [record("Pending", None, << >>, absent, none, empty) EXCEPT !.status = "Active"]
          = record("Active", None, << >>, absent, none, empty)
    OBVIOUS
  <2>2. [record("Active", None, << >>, absent, none, empty) EXCEPT !.name = name]
          = record("Active", name, << >>, absent, none, empty)
    OBVIOUS
  <2>3. [record("Active", name, << >>, absent, none, empty) EXCEPT !.order = order]
          = record("Active", name, order, absent, none, empty)
    OBVIOUS
  <2>4. [record("Active", name, order, absent, none, empty) EXCEPT !.step = step]
          = record("Active", name, order, step, none, empty)
    OBVIOUS
  <2>5. [record("Active", name, order, step, none, empty) EXCEPT !.content = content]
          = record("Active", name, order, step, content, empty)
    OBVIOUS
  <2>6. [record("Active", name, order, step, content, empty) EXCEPT !.checked = checked]
          = record("Active", name, order, step, content, checked)
    OBVIOUS
  <2> HIDE DEF record
  <2>7. New = record("Pending", None, << >>, absent, none, empty)
    BY <1>1 DEF record
  <2>8. [New EXCEPT !.status = "Active", !.name = name, !.order = order]
          = record("Active", name, order, absent, none, empty)
    BY <2>1, <2>2, <2>3, <2>7
  <2>9. [record("Active", name, order, absent, none, empty) EXCEPT
            !.step = step, !.content = content, !.checked = checked]
          = record("Active", name, order, step, content, checked)
    BY <2>4, <2>5, <2>6
  <2> QED
    BY <2>8, <2>9
<1>3. s = record("Active", name, order, step, content, checked)
  BY <1>1 DEF Started
<1> HIDE DEF record
<1> QED
  BY <1>2, <1>3 DEF Begun

(* What the second is field by field.                                       *)
LEMMA WithStepFields ==
  ASSUME NEW name, NEW order, NEW step, NEW content, NEW checked,
         NEW longer, NEW i, NEW p, NEW c, NEW b
  PROVE  WithStep(Started(name, order, step, content, checked), longer, i, p, c, b)
           = Started(name, longer, Changed(step, i, p), Changed(content, i, c),
                     Changed(checked, i, b))
<1> DEFINE s == Started(name, order, step, content, checked)
           value == [j \in Steps |-> [x \in Inputs |-> None]]
           files == [j \in Steps |-> [x \in Inputs |-> [f \in Files |-> 0]]]
           notes == [r \in Places |-> [n \in Notes |-> 0]]
           inbox == [f \in Files |-> 0]
           absent == [j \in Steps |-> "absent"]
           none == [j \in Steps |-> NoContent]
           empty == [j \in Steps |-> {}]
<1>1. New = [ status |-> "Pending", name |-> None, order |-> << >>, step |-> absent,
              content |-> none, checked |-> empty, value |-> value, files |-> files,
              notes |-> notes, inbox |-> inbox ]
  BY DEF New
<1> HIDE DEF value, files, notes, inbox, absent, none, empty
<1> DEFINE record(status, called, listed, states, contents, ticks) ==
             [ status |-> status, name |-> called, order |-> listed, step |-> states,
               content |-> contents, checked |-> ticks, value |-> value, files |-> files,
               notes |-> notes, inbox |-> inbox ]
<1>3. s = record("Active", name, order, step, content, checked)
  BY <1>1 DEF Started
<1>4. [s EXCEPT !.order = longer, !.step[i] = p, !.content[i] = c, !.checked[i] = b]
        = record("Active", name, longer, [step EXCEPT ![i] = p], [content EXCEPT ![i] = c],
                 [checked EXCEPT ![i] = b])
  <2>1. [record("Active", name, order, step, content, checked) EXCEPT !.order = longer]
          = record("Active", name, longer, step, content, checked)
    OBVIOUS
  <2>2. [record("Active", name, longer, step, content, checked) EXCEPT !.step[i] = p]
          = record("Active", name, longer, [step EXCEPT ![i] = p], content, checked)
    OBVIOUS
  <2>3. [record("Active", name, longer, [step EXCEPT ![i] = p], content, checked) EXCEPT !.content[i] = c]
          = record("Active", name, longer, [step EXCEPT ![i] = p], [content EXCEPT ![i] = c], checked)
    OBVIOUS
  <2>4. [record("Active", name, longer, [step EXCEPT ![i] = p], [content EXCEPT ![i] = c], checked) EXCEPT !.checked[i] = b]
          = record("Active", name, longer, [step EXCEPT ![i] = p], [content EXCEPT ![i] = c], [checked EXCEPT ![i] = b])
    OBVIOUS
  <2>5. /\ record("Active", name, longer, step, content, checked).step = step
        /\ record("Active", name, longer, [step EXCEPT ![i] = p], content, checked).content
             = content
        /\ record("Active", name, longer, [step EXCEPT ![i] = p], [content EXCEPT ![i] = c],
                  checked).checked = checked
    OBVIOUS
  <2> HIDE DEF record, s
  <2> QED
    BY <1>3, <2>1, <2>2, <2>3, <2>4, <2>5
<1>5. Started(name, longer, [step EXCEPT ![i] = p], [content EXCEPT ![i] = c],
              [checked EXCEPT ![i] = b])
        = record("Active", name, longer, [step EXCEPT ![i] = p], [content EXCEPT ![i] = c],
                 [checked EXCEPT ![i] = b])
  BY <1>1 DEF Started
<1> HIDE DEF record
<1>6. WithStep(s, longer, i, p, c, b)
        = record("Active", name, longer, [step EXCEPT ![i] = p], [content EXCEPT ![i] = c],
                 [checked EXCEPT ![i] = b])
  BY <1>4 DEF WithStep
<1> QED
  BY <1>5, <1>6 DEF Changed

(* With one entry more, a template starts executions that have its step     *)
(* added at the end.                                                        *)
LEMMA StartsWithOneMore ==
  ASSUME NEW p \in Seq(TemplateStep), NEW entry \in TemplateStep, NEW name,
         StepsDiffer(Append(p, entry))
  PROVE  Apply(StartedFrom(p, name), Adds(entry)) = {StartedFrom(Append(p, entry), name)}
<1> DEFINE q == Append(p, entry)
           n == Len(p)
           i == entry.step
           s == StartedFrom(p, name)
           u == StartedFrom(q, name)
<1>1. /\ n \in Nat /\ DOMAIN p = 1..n /\ DOMAIN q = 1..(n + 1)
      /\ q[n + 1] = entry /\ \A k \in 1..n : q[k] = p[k]
  OBVIOUS
<1>2. i \in Steps /\ entry.content \in Contents
  BY DEF TemplateStep
<1>3. StepsDiffer(q)
  OBVIOUS
<1> HIDE DEF q, n
<1>4. StepsDiffer(p)
  BY <1>1, <1>3 DEF StepsDiffer
<1>5. ~ TemplateHas(p, i) /\ TemplateHas(q, i) /\ TemplateContent(q, i) = entry.content
  <2>1. n + 1 \in DOMAIN q
    BY <1>1
  <2>2. ASSUME NEW k \in DOMAIN p, p[k].step = i
        PROVE  FALSE
    <3>1. k \in DOMAIN q /\ q[k].step = q[n + 1].step /\ k # n + 1
      BY <1>1, <2>2
    <3> QED
      BY <1>3, <2>1, <3>1 DEF StepsDiffer
  <2>3. q[n + 1].step = i /\ q[n + 1].content = entry.content
    BY <1>1
  <2>4. TemplateHas(q, q[n + 1].step) /\ TemplateContent(q, q[n + 1].step) = q[n + 1].content
    BY <1>3, <2>1, ContentOfEntry
  <2> QED
    BY <2>2, <2>3, <2>4 DEF TemplateHas
<1>6. ASSUME NEW j \in Steps, j # i
      PROVE  /\ TemplateHas(q, j) <=> TemplateHas(p, j)
             /\ TemplateHas(p, j) => TemplateContent(q, j) = TemplateContent(p, j)
  <2>1. ASSUME NEW k \in DOMAIN p, p[k].step = j
        PROVE  TemplateHas(q, j) /\ TemplateContent(q, j) = TemplateContent(p, j)
    <3>1. k \in DOMAIN q /\ q[k] = p[k]
      BY <1>1
    <3>2. TemplateHas(q, q[k].step) /\ TemplateContent(q, q[k].step) = q[k].content
      BY <1>3, <3>1, ContentOfEntry
    <3>3. TemplateContent(p, p[k].step) = p[k].content
      BY <1>4, ContentOfEntry
    <3> QED
      BY <2>1, <3>1, <3>2, <3>3
  <2>2. ASSUME NEW k \in DOMAIN q, q[k].step = j
        PROVE  TemplateHas(p, j)
    <3>1. k \in DOMAIN p /\ q[k] = p[k]
      BY <1>1, <1>6, <2>2
    <3> QED
      BY <2>2, <3>1 DEF TemplateHas
  <2> QED
    BY <2>1, <2>2 DEF TemplateHas
<1> DEFINE order(t)   == [k \in DOMAIN t |-> t[k].step]
           step(t)    == [j \in Steps |-> IF TemplateHas(t, j) THEN "present" ELSE "absent"]
           content(t) == [j \in Steps |-> IF TemplateHas(t, j) THEN TemplateContent(t, j)
                                                               ELSE NoContent]
           checked(t) == [j \in Steps |-> IF TemplateHas(t, j) THEN TemplateContent(t, j).ticked
                                                               ELSE {}]
<1>7. /\ s = Started(name, order(p), step(p), content(p), checked(p))
      /\ u = Started(name, order(q), step(q), content(q), checked(q))
  <2>1. /\ s = Begun(name, order(p), step(p), content(p), checked(p))
        /\ u = Begun(name, order(q), step(q), content(q), checked(q))
    BY Zenon DEF StartedFrom, Begun
  <2> HIDE DEF order, step, content, checked, s, u
  <2> QED
    BY <2>1, BegunFields
<1> HIDE DEF s, u
<1>8. order(q) = Append(order(p), i)
  <2>1. \A k \in 1..n : p[k].step \in Steps
    <3>1. \A k \in 1..n : p[k] \in TemplateStep
      BY <1>1 DEF n
    <3> QED
      BY <3>1 DEF TemplateStep
  <2>2. order(p) \in Seq(Steps) /\ Len(order(p)) = n
    BY <1>1, <2>1
  <2>3. /\ Append(order(p), i) \in Seq(Steps)
        /\ Len(Append(order(p), i)) = n + 1
        /\ Append(order(p), i)[n + 1] = i
        /\ \A k \in 1..n : Append(order(p), i)[k] = order(p)[k]
    BY <1>2, <2>2, AppendProperties
  <2>4. order(q) \in Seq(Steps) /\ Len(order(q)) = n + 1
    BY <1>1, <1>2, <2>1
  <2>5. \A k \in 1..(n + 1) : order(q)[k] = Append(order(p), i)[k]
    BY <1>1, <2>3
  <2> QED
    BY <2>3, <2>4, <2>5, SeqEqual
<1>9. step(q) = [step(p) EXCEPT ![i] = "present"] /\ step(p)[i] = "absent"
  BY <1>2, <1>5, <1>6
<1>10. content(q) = [content(p) EXCEPT ![i] = entry.content]
  BY <1>2, <1>5, <1>6
<1>11. checked(q) = [checked(p) EXCEPT ![i] = entry.content.ticked]
  <2>1. checked(q)[i] = entry.content.ticked
    BY <1>2, <1>5
  <2>2. \A j \in Steps : j # i => checked(q)[j] = checked(p)[j]
    BY <1>6
  <2>3. /\ checked(q) = [j \in Steps |-> checked(q)[j]]
        /\ checked(p) = [j \in Steps |-> checked(p)[j]]
    OBVIOUS
  <2> HIDE DEF checked
  <2> QED
    BY <1>2, <2>1, <2>2, <2>3
<1> HIDE DEF order, step, content, checked
<1>12. s.status = "Active" /\ s.order = order(p) /\ s.step = step(p)
  BY <1>7 DEF Started
<1>13. u = WithStep(s, order(q), i, "present", entry.content, entry.content.ticked)
  <2>1. /\ step(q) = Changed(step(p), i, "present")
        /\ content(q) = Changed(content(p), i, entry.content)
        /\ checked(q) = Changed(checked(p), i, entry.content.ticked)
    BY <1>9, <1>10, <1>11 DEF Changed
  <2> QED
    BY <1>7, <2>1, WithStepFields
<1>14. Apply(s, Adds(entry)) = StepAdded(s, i, entry.content, None)
  BY DEF Apply, Adds
<1>15. StepAdded(s, i, entry.content, None) = {u}
  <2>1. /\ [s EXCEPT !.order = Append(s.order, i), !.step[i] = "present",
                     !.content[i] = entry.content, !.checked[i] = entry.content.ticked]
             = WithStep(s, Append(s.order, i), i, "present", entry.content, entry.content.ticked)
    BY DEF WithStep
  <2> QED
    BY <1>8, <1>9, <1>12, <1>13, <2>1 DEF StepAdded, Result, Active
<1> QED
  BY <1>14, <1>15 DEF s, u, q

(* StartEvents with a step more.                                            *)
LEMMA EventsOfStart ==
  ASSUME NEW name,
         NEW p \in Seq(TemplateStep), NEW entry \in TemplateStep
  PROVE  StartEvents(Append(p, entry), name) = Append(StartEvents(p, name), Adds(entry))
<1> DEFINE head == << [type |-> "ExecutionStarted"],
                      [type |-> "ExecutionRenamed", name |-> name] >>
           added(t) == [k \in DOMAIN t |-> Adds(t[k])]
           E == {head[1], head[2]} \cup {Adds(t) : t \in TemplateStep}
           n == Len(p)
           q == Append(p, entry)
<1>1. head \in Seq(E)
  OBVIOUS
<1>2. \A t : StartEvents(t, name) = head \o added(t)
  BY DEF StartEvents, Adds
<1>3. /\ n \in Nat /\ DOMAIN p = 1..n /\ DOMAIN q = 1..(n + 1) /\ q[n + 1] = entry
      /\ \A k \in 1..n : q[k] = p[k] /\ p[k] \in TemplateStep
  OBVIOUS
<1> HIDE DEF head, n, q
<1>5. \A t \in TemplateStep : Adds(t) \in E
  OBVIOUS
<1> HIDE DEF E
<1>6. /\ added(p) \in Seq(E) /\ Len(added(p)) = n
      /\ added(q) \in Seq(E) /\ Len(added(q)) = n + 1
  BY <1>3, <1>5
<1>7. added(q) = Append(added(p), Adds(entry))
  <2>1. /\ Append(added(p), Adds(entry)) \in Seq(E)
        /\ Len(Append(added(p), Adds(entry))) = n + 1
        /\ Append(added(p), Adds(entry))[n + 1] = Adds(entry)
        /\ \A k \in 1..n : Append(added(p), Adds(entry))[k] = added(p)[k]
    BY <1>5, <1>6, AppendProperties
  <2>2. \A k \in 1..(n + 1) : added(q)[k] = Append(added(p), Adds(entry))[k]
    BY <1>3, <2>1
  <2> HIDE DEF added
  <2> QED
    BY <1>6, <2>1, <2>2, SeqEqual
<1> HIDE DEF added
<1>9. head \o Append(added(p), Adds(entry)) = Append(head \o added(p), Adds(entry))
  <2>1. head \o added(p) \in Seq(E)
    BY <1>1, <1>6, ConcatProperties
  <2>2. << Adds(entry) >> \in Seq(E)
    BY <1>5
  <2>3. Append(added(p), Adds(entry)) = added(p) \o << Adds(entry) >>
    BY <1>5, <1>6, AppendIsConcat
  <2>4. Append(head \o added(p), Adds(entry)) = (head \o added(p)) \o << Adds(entry) >>
    BY <1>5, <2>1, AppendIsConcat
  <2> QED
    BY <1>1, <1>6, <2>2, <2>3, <2>4, ConcatAssociative
<1> QED
  BY <1>2, <1>7, <1>9 DEF q

(* A template without steps starts an execution with a name and no steps.   *)
LEMMA EmptyStart ==
  ASSUME NEW name \in Names
  PROVE  ReplaysTo(StartEvents(<< >>, name), StartedFrom(<< >>, name))
<1> DEFINE e1 == [type |-> "ExecutionStarted"]
           e2 == [type |-> "ExecutionRenamed", name |-> name]
           s1 == [New EXCEPT !.status = "Active"]
           s2 == [s1 EXCEPT !.name = name]
           order   == [k \in DOMAIN << >> |-> << >>[k].step]
           step    == [j \in Steps |-> IF TemplateHas(<< >>, j) THEN "present" ELSE "absent"]
           content == [j \in Steps |-> IF TemplateHas(<< >>, j)
                                         THEN TemplateContent(<< >>, j) ELSE NoContent]
           checked == [j \in Steps |-> IF TemplateHas(<< >>, j)
                                         THEN TemplateContent(<< >>, j).ticked ELSE {}]
<1>1. e1 \in Event /\ e2 \in Event
  BY DEF Event
<1>2. New.status = "Pending" /\ s1.status = "Active"
  BY DEF New
<1>3. LeadsTo(New, e1, s1)
  BY <1>1, <1>2 DEF LeadsTo, Apply, ExecutionStarted, Result
<1>4. LeadsTo(s1, e2, s2)
  <2>1. Apply(s1, e2) = ExecutionRenamed(s1, name)
    BY DEF Apply
  <2> HIDE DEF s1, s2
  <2> QED
    BY <1>1, <1>2, <2>1 DEF LeadsTo, ExecutionRenamed, Result, s2
<1>5. ReplaysTo(<< >>, New)
  BY ReplayOfNone DEF Replay, ReplaysTo
<1>6. \A i \in Steps : ~ TemplateHas(<< >>, i)
  BY DEF TemplateHas
<1>7. /\ order = << >> /\ step = New.step /\ content = New.content /\ checked = New.checked
      /\ New.order = << >>
  BY <1>6 DEF New
<1>8. StartedFrom(<< >>, name) = Begun(name, order, step, content, checked)
  BY Zenon DEF StartedFrom, Begun
<1>9. StartedFrom(<< >>, name) = Started(name, New.order, New.step, New.content, New.checked)
  BY <1>7, <1>8, BegunFields
<1>10. s2 = Started(name, New.order, New.step, New.content, New.checked)
  <2>1. New \in [status : {New.status}, name : {New.name}, order : {New.order}, step : {New.step},
                 content : {New.content}, checked : {New.checked}, value : {New.value},
                 files : {New.files}, notes : {New.notes}, inbox : {New.inbox}]
    BY DEF New
  <2>2. s1 = [status |-> "Active", name |-> New.name, order |-> New.order, step |-> New.step,
              content |-> New.content, checked |-> New.checked, value |-> New.value,
              files |-> New.files, notes |-> New.notes, inbox |-> New.inbox]
    BY <2>1
  <2> HIDE DEF s1
  <2> QED
    BY <2>2 DEF Started
<1> HIDE DEF e1, e2, s1, s2
<1>11. ReplaysTo(Append(Append(<< >>, e1), e2), s2)
  BY <1>3, <1>4, <1>5, OneMore
<1>12. << e1, e2 >> \in Seq(Event)
  BY <1>1
<1>13. Append(Append(<< >>, e1), e2) = << e1, e2 >>
  <2>1. Append(<< >>, e1) \in Seq(Event) /\ Len(Append(<< >>, e1)) = 1 /\ Append(<< >>, e1)[1] = e1
    <3>1. << >> \in Seq(Event) /\ Len(<< >>) = 0
      OBVIOUS
    <3> QED
      BY <1>1, <3>1, AppendProperties
  <2>2. /\ Append(Append(<< >>, e1), e2) \in Seq(Event)
        /\ Len(Append(Append(<< >>, e1), e2)) = 2
        /\ Append(Append(<< >>, e1), e2)[1] = e1
        /\ Append(Append(<< >>, e1), e2)[2] = e2
    BY <1>1, <2>1, AppendProperties
  <2>3. Len(<< e1, e2 >>) = 2 /\ << e1, e2 >>[1] = e1 /\ << e1, e2 >>[2] = e2
    OBVIOUS
  <2>4. \A k \in 1..2 : Append(Append(<< >>, e1), e2)[k] = << e1, e2 >>[k]
    BY <2>2, <2>3
  <2> QED
    BY <1>12, <2>2, <2>3, <2>4, SeqEqual
<1>14. StartEvents(<< >>, name) = << e1, e2 >>
  <2> DEFINE none == [k \in DOMAIN << >> |->
                        [type |-> "StepAdded", step |-> << >>[k].step,
                         content |-> << >>[k].content, after |-> None]]
  <2>1. StartEvents(<< >>, name) = << e1, e2 >> \o none
    BY DEF StartEvents, e1, e2
  <2>2. none = << >>
    OBVIOUS
  <2> QED
    BY <1>12, <2>1, <2>2, ConcatEmptySeq
<1> QED
  BY <1>9, <1>10, <1>11, <1>13, <1>14

(* What `start` leaves is what the events it records replay to, for every   *)
(* template and name.                                                       *)
THEOREM StartReplaysAlways ==
  \A t \in Templates, name \in Names :
    /\ StartEvents(t, name) \in Seq(Event)
    /\ Replay(StartEvents(t, name)) = {StartedFrom(t, name)}
<1> SUFFICES ASSUME NEW t \in Templates, NEW name \in Names
             PROVE  ReplaysTo(StartEvents(t, name), StartedFrom(t, name))
  BY DEF ReplaysTo
<1> DEFINE first(n) == SubSeq(t, 1, n)
           Numbers == {n \in Nat : n <= Len(t) => ReplaysTo(StartEvents(first(n), name),
                                                           StartedFrom(first(n), name))}
<1>1. t \in Seq(TemplateStep) /\ StepsDiffer(t) /\ Len(t) \in Nat /\ DOMAIN t = 1..Len(t)
  BY TemplatesAssumption DEF StepsDiffer
<1>2. 0 \in Numbers
  <2>1. first(0) = << >>
    BY <1>1, SubSeqEmpty
  <2> QED
    BY <2>1, EmptyStart
<1>3. ASSUME NEW n \in Nat, n \in Numbers
      PROVE  n + 1 \in Numbers
  <2> SUFFICES ASSUME n + 1 <= Len(t)
               PROVE  ReplaysTo(StartEvents(first(n + 1), name), StartedFrom(first(n + 1), name))
    OBVIOUS
  <2> DEFINE entry == t[n + 1]
  <2>1. ReplaysTo(StartEvents(first(n), name), StartedFrom(first(n), name))
    BY <1>1, <1>3
  <2>2. entry \in TemplateStep
    BY <1>1
  <2>3. /\ first(n) \in Seq(TemplateStep) /\ Len(first(n)) = n
        /\ first(n + 1) \in Seq(TemplateStep) /\ Len(first(n + 1)) = n + 1
        /\ \A k \in 1..n : first(n)[k] = t[k]
        /\ \A k \in 1..(n + 1) : first(n + 1)[k] = t[k]
    BY <1>1
  <2> HIDE DEF first, entry
  <2>4. first(n + 1) = Append(first(n), entry)
    <3>1. /\ Append(first(n), entry) \in Seq(TemplateStep)
          /\ Len(Append(first(n), entry)) = n + 1
          /\ Append(first(n), entry)[n + 1] = entry
          /\ \A k \in 1..n : Append(first(n), entry)[k] = first(n)[k]
      BY <2>2, <2>3, AppendProperties
    <3>2. \A k \in 1..(n + 1) : first(n + 1)[k] = Append(first(n), entry)[k]
      BY <2>3, <3>1 DEF entry
    <3> QED
      BY <2>3, <3>1, <3>2, SeqEqual
  <2>5. StepsDiffer(Append(first(n), entry))
    <3>1. DOMAIN first(n + 1) = 1..(n + 1)
      BY <2>3, LenProperties
    <3>2. StepsDiffer(first(n + 1))
      BY <1>1, <2>3, <3>1 DEF StepsDiffer
    <3> QED
      BY <2>4, <3>2
  <2>6. StartEvents(Append(first(n), entry), name) = Append(StartEvents(first(n), name), Adds(entry))
    BY <2>2, <2>3, EventsOfStart
  <2>7. LeadsTo(StartedFrom(first(n), name), Adds(entry), StartedFrom(Append(first(n), entry), name))
    <3>1. Apply(StartedFrom(first(n), name), Adds(entry))
            = {StartedFrom(Append(first(n), entry), name)}
      BY <2>2, <2>3, <2>5, StartsWithOneMore
    <3>2. Adds(entry) \in Event
      BY <2>2 DEF Adds, Event, TemplateStep
    <3> QED
      BY <3>1, <3>2 DEF LeadsTo
  <2> QED
    BY <2>1, <2>4, <2>6, <2>7, OneMore
<1> HIDE DEF Numbers
<1>4. Len(t) \in Numbers
  BY <1>1, <1>2, <1>3, Induction!NumberInduction
<1>5. first(Len(t)) = t
  BY <1>1, SubSeqFull
<1> HIDE DEF first
<1> QED
  BY <1>1, <1>4, <1>5 DEF Numbers

-----------------------------------------------------------------------------
(* An execution state with a log that replays to it.                        *)
HasLog(s) == \E log : ReplaysTo(log, s)

(* An event more keeps that.                                                *)
LEMMA OneMoreLogged ==
  ASSUME NEW s, NEW e, NEW t, HasLog(s), LeadsTo(s, e, t)
  PROVE  HasLog(t)
BY OneMore DEF HasLog

(* WithReceived after the first n files of an upload.                       *)
ReceivedFirst(s, group, n) ==
  [s EXCEPT !.inbox =
     [f \in Files |-> IF \E k \in Received(s, group) : k <= n /\ group[k] = f
                        THEN s.inbox[f] + 1 ELSE s.inbox[f]]]

(* decide_receive records an AttachmentReceived for each file that it does  *)
(* not skip, and all of them apply: what an upload leaves has a log.        *)
LEMMA ReceivedHasLog ==
  ASSUME NEW s \in State, NEW group \in Seq(Files), Active(s), HasLog(s)
  PROVE  HasLog(WithReceived(s, group))
<1> DEFINE taken == Received(s, group)
           inbox(n) == [f \in Files |-> IF \E k \in taken : k <= n /\ group[k] = f
                                          THEN s.inbox[f] + 1 ELSE s.inbox[f]]
           after(n) == ReceivedFirst(s, group, n)
           Numbers == {n \in Nat : n <= Len(group) => HasLog(after(n))}
<1>1. /\ Len(group) \in Nat /\ DOMAIN group = 1..Len(group)
      /\ \A k \in 1..Len(group) : group[k] \in Files
  OBVIOUS
<1>2. s.inbox \in [Files -> Nat]
  BY FieldTypes DEF InboxSet
<1>3. /\ taken \subseteq 1..Len(group)
      /\ \A k \in taken : ~ HasContent(s, Hash[group[k]])
      /\ \A k \in taken : \A j \in 1..(k - 1) : Hash[group[j]] # Hash[group[k]]
  BY <1>1 DEF Received
<1> HIDE DEF taken
<1>4. ASSUME NEW n \in Nat
      PROVE  /\ after(n) = [s EXCEPT !.inbox = inbox(n)]
             /\ inbox(n) \in InboxSet
  <2>1. inbox(n) \in InboxSet
    BY <1>2 DEF InboxSet
  <2> QED
    BY <2>1, Zenon DEF ReceivedFirst, taken
<1> HIDE DEF inbox, after
<1>5. ASSUME NEW n \in Nat
      PROVE  /\ after(n).status = "Active" /\ after(n).inbox = inbox(n)
             /\ after(n).files = s.files /\ after(n) \in State
  BY <1>4 DEF State, Active
<1>6. \A n \in Nat : \A f \in Files :
        inbox(n)[f] = IF \E k \in taken : k <= n /\ group[k] = f
                        THEN s.inbox[f] + 1 ELSE s.inbox[f]
  BY DEF inbox
<1>7. 0 \in Numbers
  <2>1. inbox(0) = s.inbox
    <3>1. \A f \in Files : inbox(0)[f] = s.inbox[f]
      BY <1>1, <1>3, <1>6
    <3>2. inbox(0) \in [Files -> Nat]
      BY <1>4 DEF InboxSet
    <3> QED
      BY <1>2, <3>1, <3>2
  <2>2. [s EXCEPT !.inbox = s.inbox] = s
    BY DEF State
  <2>3. after(0) = s
    BY <1>4, <2>1, <2>2
  <2> QED
    BY <2>3
<1>8. ASSUME NEW n \in Nat, n \in Numbers
      PROVE  n + 1 \in Numbers
  <2> SUFFICES ASSUME n + 1 <= Len(group)
               PROVE  HasLog(after(n + 1))
    OBVIOUS
  <2> DEFINE f == group[n + 1]
             e == [type |-> "AttachmentReceived", file |-> f]
  <2>1. HasLog(after(n)) /\ f \in Files /\ n + 1 \in Nat
    BY <1>1, <1>8
  <2>2. CASE n + 1 \notin taken
    <3>1. \A g \in Files : inbox(n + 1)[g] = inbox(n)[g]
      BY <1>1, <1>3, <1>6, <2>2
    <3>2. inbox(n + 1) = inbox(n)
      BY <1>4, <2>1, <3>1 DEF InboxSet
    <3>3. after(n + 1) = after(n)
      BY <1>4, <2>1, <3>2
    <3> QED
      BY <2>1, <3>3
  <2>3. CASE n + 1 \in taken
    <3>1. ~ HasAttachmentPath(s, f)
      BY <1>3, <2>1, <2>3 DEF HasContent
    <3>2. \A k \in taken : k <= n => group[k] # f
      BY <1>1, <1>3, <2>3
    <3>3. inbox(n)[f] = s.inbox[f]
      BY <1>6, <2>1, <3>2
    <3>4. ~ HasAttachmentPath(after(n), f)
      BY <1>5, <3>1, <3>3 DEF HasAttachmentPath
    <3>5. inbox(n + 1)[f] = inbox(n)[f] + 1
      BY <1>6, <2>1, <2>3, <3>3
    <3>6. \A g \in Files : g # f => inbox(n + 1)[g] = inbox(n)[g]
      BY <1>1, <1>3, <1>6
    <3>7. inbox(n + 1) = [inbox(n) EXCEPT ![f] = @ + 1]
      BY <1>4, <2>1, <3>5, <3>6 DEF InboxSet
    <3>8. after(n + 1) = [after(n) EXCEPT !.inbox = inbox(n + 1)]
      <4>1. after(n) = [s EXCEPT !.inbox = inbox(n)] /\ after(n + 1) = [s EXCEPT !.inbox = inbox(n + 1)]
        BY <1>4, <2>1
      <4> QED
        BY <4>1 DEF State
    <3>9. after(n + 1) = [after(n) EXCEPT !.inbox[f] = @ + 1]
      BY <1>5, <3>7, <3>8
    <3>10. Apply(after(n), e) = {after(n + 1)}
      <4>1. Apply(after(n), e) = AttachmentReceived(after(n), f)
        BY DEF Apply
      <4> QED
        BY <1>5, <3>4, <3>9, <4>1 DEF AttachmentReceived, Result, Active
    <3>11. e \in Event
      BY <2>1 DEF Event
    <3> QED
      BY <2>1, <3>10, <3>11, OneMoreLogged DEF LeadsTo
  <2> QED
    BY <2>2, <2>3
<1> HIDE DEF Numbers
<1>9. Len(group) \in Numbers
  BY <1>1, <1>7, <1>8, Induction!NumberInduction
<1>10. after(Len(group)) = WithReceived(s, group)
  <2> DEFINE all == [f \in Files |-> IF \E k \in taken : group[k] = f
                                       THEN s.inbox[f] + 1 ELSE s.inbox[f]]
  <2>1. WithReceived(s, group) = [s EXCEPT !.inbox = all]
    BY Zenon DEF WithReceived, taken
  <2>2. ASSUME NEW f \in Files
        PROVE  all[f] = inbox(Len(group))[f]
    <3>1. (\E k \in taken : group[k] = f)
            <=> \E k \in taken : k <= Len(group) /\ group[k] = f
      BY <1>1, <1>3
    <3>2. inbox(Len(group))[f] = IF \E k \in taken : k <= Len(group) /\ group[k] = f
                                   THEN s.inbox[f] + 1 ELSE s.inbox[f]
      BY <1>1, <1>6
    <3> QED
      BY <3>1, <3>2
  <2>3. all = inbox(Len(group))
    BY <1>1, <1>4, <2>2 DEF InboxSet
  <2> HIDE DEF all
  <2> QED
    BY <1>1, <1>4, <2>1, <2>3
<1> QED
  BY <1>1, <1>9, <1>10 DEF Numbers

(* The step of an action whose event has one result.                        *)
LEMMA ActionLogged ==
  ASSUME HasLog(exec), NEW e \in Event, NEW ok \in BOOLEAN, NEW t,
         Apply(exec, e) = Result(ok, t), exec' \in Apply(exec, e)
  PROVE  HasLog(exec')
<1>1. Apply(exec, e) = {exec'}
  BY DEF Result
<1> QED
  BY <1>1, OneMoreLogged DEF LeadsTo

(* There is a log that replays to the state as it is: restarting the        *)
(* program, which opens an execution with from_events, brings back what     *)
(* was shown before.                                                        *)
StateHasLog == HasLog(exec)

(* Every step of the execution keeps StateHasLog.                           *)
LEMMA StepKeepsLog ==
  ASSUME StateHasLog, TypeOK, NoteIdsAreUnique, [Next]_vars
  PROVE  StateHasLog'
<1> USE DEF StateHasLog
<1>1. ASSUME NEW t \in Templates, NEW name \in Names, Start(t, name)
      PROVE  HasLog(exec')
  BY <1>1, StartReplaysAlways DEF Start, HasLog, ReplaysTo
<1>2. ASSUME NEW i \in Steps, SkipStep(i)
      PROVE  HasLog(exec')
  <2> DEFINE e == [type |-> "StepSkipped", step |-> i]
  <2>1. e \in Event
    BY DEF Event
  <2>2. Apply(exec, e) = StepSkipped(exec, i)
    BY DEF Apply
  <2>3. \E ok \in BOOLEAN : \E t : StepSkipped(exec, i) = Result(ok, t)
    BY Zenon DEF StepSkipped
  <2>4. exec' \in StepSkipped(exec, i)
    BY <1>2 DEF SkipStep
  <2> HIDE DEF e
  <2> QED
    BY <2>1, <2>2, <2>3, <2>4, ActionLogged
<1>3. ASSUME NEW i \in Steps, UnskipStep(i)
      PROVE  HasLog(exec')
  <2> DEFINE e == [type |-> "StepUnskipped", step |-> i]
  <2>1. e \in Event
    BY DEF Event
  <2>2. Apply(exec, e) = StepUnskipped(exec, i)
    BY DEF Apply
  <2>3. \E ok \in BOOLEAN : \E t : StepUnskipped(exec, i) = Result(ok, t)
    BY Zenon DEF StepUnskipped
  <2>4. exec' \in StepUnskipped(exec, i)
    BY <1>3 DEF UnskipStep
  <2> HIDE DEF e
  <2> QED
    BY <2>1, <2>2, <2>3, <2>4, ActionLogged
<1>4. ASSUME NEW i \in Steps, NEW b \in Boxes, NEW on \in BOOLEAN, ToggleCheckbox(i, b, on)
      PROVE  HasLog(exec')
  <2> DEFINE e == [type |-> "CheckboxToggled", step |-> i, box |-> b, on |-> on]
  <2>1. e \in Event
    BY DEF Event
  <2>2. Apply(exec, e) = CheckboxToggled(exec, i, b, on)
    BY DEF Apply
  <2>3. \E ok \in BOOLEAN : \E t : CheckboxToggled(exec, i, b, on) = Result(ok, t)
    BY Zenon DEF CheckboxToggled
  <2>4. exec' \in CheckboxToggled(exec, i, b, on)
    BY <1>4 DEF ToggleCheckbox
  <2> HIDE DEF e
  <2> QED
    BY <2>1, <2>2, <2>3, <2>4, ActionLogged
<1>5. ASSUME NEW i \in Steps, NEW x \in Inputs, NEW v \in Values, RecordInput(i, x, v)
      PROVE  HasLog(exec')
  <2> DEFINE e == [type |-> "InputRecorded", step |-> i, input |-> x, value |-> v]
  <2>1. e \in Event
    BY DEF Event
  <2>2. Apply(exec, e) = InputRecorded(exec, i, x, v)
    BY DEF Apply
  <2>3. \E ok \in BOOLEAN : \E t : InputRecorded(exec, i, x, v) = Result(ok, t)
    BY Zenon DEF InputRecorded
  <2>4. exec' \in InputRecorded(exec, i, x, v)
    BY <1>5 DEF RecordInput
  <2> HIDE DEF e
  <2> QED
    BY <2>1, <2>2, <2>3, <2>4, ActionLogged
<1>6. ASSUME NEW i \in Steps, NEW x \in Inputs, ClearInput(i, x)
      PROVE  HasLog(exec')
  <2> DEFINE e == [type |-> "InputCleared", step |-> i, input |-> x]
  <2>1. e \in Event
    BY DEF Event
  <2>2. Apply(exec, e) = InputCleared(exec, i, x)
    BY DEF Apply
  <2>3. \E ok \in BOOLEAN : \E t : InputCleared(exec, i, x) = Result(ok, t)
    BY Zenon DEF InputCleared
  <2>4. exec' \in InputCleared(exec, i, x)
    BY <1>6 DEF ClearInput
  <2> HIDE DEF e
  <2> QED
    BY <2>1, <2>2, <2>3, <2>4, ActionLogged
<1>7. ASSUME NEW n \in Notes, NEW p \in Places, AddNote(n, p)
      PROVE  HasLog(exec')
  <2> DEFINE e == [type |-> "NoteAdded", note |-> n, place |-> p]
  <2>1. e \in Event
    BY DEF Event
  <2>2. Apply(exec, e) = NoteAdded(exec, n, p)
    BY DEF Apply
  <2>3. \E ok \in BOOLEAN : \E t : NoteAdded(exec, n, p) = Result(ok, t)
    BY Zenon DEF NoteAdded
  <2>4. exec' \in NoteAdded(exec, n, p)
    BY <1>7 DEF AddNote
  <2> HIDE DEF e
  <2> QED
    BY <2>1, <2>2, <2>3, <2>4, ActionLogged
<1>8. ASSUME NEW i \in Steps, NEW c \in Contents, NEW after \in Steps \cup {None}, AddStep(i, c, after)
      PROVE  HasLog(exec')
  <2> DEFINE e == [type |-> "StepAdded", step |-> i, content |-> c, after |-> after]
  <2>1. e \in Event
    BY DEF Event
  <2>2. Apply(exec, e) = StepAdded(exec, i, c, after)
    BY DEF Apply
  <2>3. \E ok \in BOOLEAN : \E t : StepAdded(exec, i, c, after) = Result(ok, t)
    BY Zenon DEF StepAdded
  <2>4. exec' \in StepAdded(exec, i, c, after)
    BY <1>8 DEF AddStep
  <2> HIDE DEF e
  <2> QED
    BY <2>1, <2>2, <2>3, <2>4, ActionLogged
<1>9. ASSUME NEW i \in Steps, NEW x \in Inputs, NEW group \in Batches, AddAttachments(i, x, group)
      PROVE  HasLog(exec')
  <2> DEFINE e == [type |-> "AttachmentsAdded", step |-> i, input |-> x, batch |-> group]
  <2>1. e \in Event
    BY BatchesAssumption DEF Event
  <2>2. Apply(exec, e) = AttachmentsAdded(exec, i, x, group)
    BY DEF Apply
  <2>3. \E ok \in BOOLEAN : \E t : AttachmentsAdded(exec, i, x, group) = Result(ok, t)
    BY Zenon DEF AttachmentsAdded
  <2>4. exec' \in AttachmentsAdded(exec, i, x, group)
    BY <1>9 DEF AddAttachments
  <2> HIDE DEF e
  <2> QED
    BY <2>1, <2>2, <2>3, <2>4, ActionLogged
<1>10. ASSUME NEW i \in Steps, NEW x \in Inputs, NEW f \in Files, RemoveAttachmentFile(i, x, f)
      PROVE  HasLog(exec')
  <2> DEFINE e == [type |-> "AttachmentFileRemoved", step |-> i, input |-> x, file |-> f]
  <2>1. e \in Event
    BY DEF Event
  <2>2. Apply(exec, e) = AttachmentFileRemoved(exec, i, x, f)
    BY DEF Apply
  <2>3. \E ok \in BOOLEAN : \E t : AttachmentFileRemoved(exec, i, x, f) = Result(ok, t)
    BY Zenon DEF AttachmentFileRemoved
  <2>4. exec' \in AttachmentFileRemoved(exec, i, x, f)
    BY <1>10 DEF RemoveAttachmentFile
  <2> HIDE DEF e
  <2> QED
    BY <2>1, <2>2, <2>3, <2>4, ActionLogged
<1>11. ASSUME NEW i \in Steps, NEW x \in Inputs, ClearAttachments(i, x)
      PROVE  HasLog(exec')
  <2> DEFINE e == [type |-> "AttachmentsCleared", step |-> i, input |-> x]
  <2>1. e \in Event
    BY DEF Event
  <2>2. Apply(exec, e) = AttachmentsCleared(exec, i, x)
    BY DEF Apply
  <2>3. \E ok \in BOOLEAN : \E t : AttachmentsCleared(exec, i, x) = Result(ok, t)
    BY Zenon DEF AttachmentsCleared
  <2>4. exec' \in AttachmentsCleared(exec, i, x)
    BY <1>11 DEF ClearAttachments
  <2> HIDE DEF e
  <2> QED
    BY <2>1, <2>2, <2>3, <2>4, ActionLogged
<1>12. ASSUME NEW i \in Steps, NEW x \in Inputs, NEW f \in Files, AssignAttachment(i, x, f)
      PROVE  HasLog(exec')
  <2> DEFINE e == [type |-> "AttachmentAssigned", step |-> i, input |-> x, file |-> f]
  <2>1. e \in Event
    BY DEF Event
  <2>2. Apply(exec, e) = AttachmentAssigned(exec, i, x, f)
    BY DEF Apply
  <2>3. \E ok \in BOOLEAN : \E t : AttachmentAssigned(exec, i, x, f) = Result(ok, t)
    BY Zenon DEF AttachmentAssigned
  <2>4. exec' \in AttachmentAssigned(exec, i, x, f)
    BY <1>12 DEF AssignAttachment
  <2> HIDE DEF e
  <2> QED
    BY <2>1, <2>2, <2>3, <2>4, ActionLogged
<1>13. ASSUME NEW i \in Steps, NEW x \in Inputs, NEW f \in Files, UnassignAttachment(i, x, f)
      PROVE  HasLog(exec')
  <2> DEFINE e == [type |-> "AttachmentUnassigned", step |-> i, input |-> x, file |-> f]
  <2>1. e \in Event
    BY DEF Event
  <2>2. Apply(exec, e) = AttachmentUnassigned(exec, i, x, f)
    BY DEF Apply
  <2>3. \E ok \in BOOLEAN : \E t : AttachmentUnassigned(exec, i, x, f) = Result(ok, t)
    BY Zenon DEF AttachmentUnassigned
  <2>4. exec' \in AttachmentUnassigned(exec, i, x, f)
    BY <1>13 DEF UnassignAttachment
  <2> HIDE DEF e
  <2> QED
    BY <2>1, <2>2, <2>3, <2>4, ActionLogged
<1>14. ASSUME NEW outcome \in Outcomes, Complete(outcome)
      PROVE  HasLog(exec')
  <2> DEFINE e == [type |-> "ExecutionCompleted", outcome |-> outcome]
  <2>1. e \in Event
    BY DEF Event
  <2>2. Apply(exec, e) = ExecutionCompleted(exec, outcome)
    BY DEF Apply
  <2>3. \E ok \in BOOLEAN : \E t : ExecutionCompleted(exec, outcome) = Result(ok, t)
    BY Zenon DEF ExecutionCompleted, Active
  <2>4. exec' \in ExecutionCompleted(exec, outcome)
    BY <1>14 DEF Complete
  <2> HIDE DEF e
  <2> QED
    BY <2>1, <2>2, <2>3, <2>4, ActionLogged
<1>15. ASSUME Abort
      PROVE  HasLog(exec')
  <2> DEFINE e == [type |-> "ExecutionAborted"]
  <2>1. e \in Event
    BY DEF Event
  <2>2. Apply(exec, e) = ExecutionAborted(exec)
    BY DEF Apply
  <2>3. \E ok \in BOOLEAN : \E t : ExecutionAborted(exec) = Result(ok, t)
    BY Zenon DEF ExecutionAborted, Active
  <2>4. exec' \in ExecutionAborted(exec)
    BY <1>15 DEF Abort
  <2> HIDE DEF e
  <2> QED
    BY <2>1, <2>2, <2>3, <2>4, ActionLogged
<1>16. ASSUME NEW name \in Names, RenameExecution(name)
      PROVE  HasLog(exec')
  <2> DEFINE e == [type |-> "ExecutionRenamed", name |-> name]
  <2>1. e \in Event
    BY DEF Event
  <2>2. Apply(exec, e) = ExecutionRenamed(exec, name)
    BY DEF Apply
  <2>3. \E ok \in BOOLEAN : \E t : ExecutionRenamed(exec, name) = Result(ok, t)
    BY Zenon DEF ExecutionRenamed
  <2>4. exec' \in ExecutionRenamed(exec, name)
    BY <1>16 DEF RenameExecution
  <2> HIDE DEF e
  <2> QED
    BY <2>1, <2>2, <2>3, <2>4, ActionLogged
<1>17. ASSUME ReopenExecution
      PROVE  HasLog(exec')
  <2> DEFINE e == [type |-> "ExecutionReopened"]
  <2>1. e \in Event
    BY DEF Event
  <2>2. Apply(exec, e) = ExecutionReopened(exec)
    BY DEF Apply
  <2>3. \E ok \in BOOLEAN : \E t : ExecutionReopened(exec) = Result(ok, t)
    <3>1. Finished(exec) \in BOOLEAN
      BY DEF Finished
    <3> QED
      BY <3>1, Zenon DEF ExecutionReopened
  <2>4. exec' \in ExecutionReopened(exec)
    BY <1>17 DEF ReopenExecution
  <2> HIDE DEF e
  <2> QED
    BY <2>1, <2>2, <2>3, <2>4, ActionLogged
<1>18. ASSUME NEW n \in Notes, RemoveNote(n)
      PROVE  HasLog(exec')
  <2> DEFINE e == [type |-> "NoteRemoved", note |-> n]
             result(p) == [exec EXCEPT !.notes[p][n] = @ - 1]
             from == {p \in IF exec.notes[None][n] > 0 THEN {None} ELSE Steps :
                         exec.notes[p][n] > 0}
  <2>1. e \in Event
    BY DEF Event
  <2>2. Apply(exec, e) = NoteRemoved(exec, n)
    BY DEF Apply
  <2>3. exec' \in NoteRemoved(exec, n)
    BY <1>18 DEF RemoveNote
  <2>4. NoteRemoved(exec, n) = IF Active(exec) THEN {result(p) : p \in from} ELSE {}
    BY Zenon DEF NoteRemoved
  <2>5. \A p, q \in from : p = q
    BY DEF NoteIdsAreUnique, Places
  <2> HIDE DEF result, from, e
  <2>6. NoteRemoved(exec, n) = {exec'}
    BY <2>3, <2>4, <2>5
  <2> QED
    BY <2>1, <2>2, <2>6, OneMoreLogged DEF LeadsTo
<1>19. ASSUME NEW group \in Batches, ReceiveFiles(group)
      PROVE  HasLog(exec')
  <2>1. group \in Seq(Files) /\ exec \in State
    BY BatchesAssumption DEF TypeOK
  <2> QED
    BY <1>19, <2>1, ReceivedHasLog DEF ReceiveFiles
<1>20. CASE UNCHANGED vars
  BY <1>20 DEF vars
<1> QED
  BY <1>1, <1>2, <1>3, <1>4, <1>5, <1>6, <1>7, <1>8, <1>9, <1>10, <1>11, <1>12, <1>13, <1>14, <1>15, <1>16, <1>17, <1>18, <1>19, <1>20 DEF Next

(* The state of an execution is always what a log of its events replays to, *)
(* whatever actions, uploads and starts led to it.                          *)
THEOREM StateIsItsLog == Spec => []StateHasLog
<1>1. Init => StateHasLog
  <2>1. << >> \in Seq(Event) /\ Replay(<< >>) = {New}
    BY ReplayOfNone DEF Replay
  <2> QED
    BY <2>1 DEF Init, StateHasLog, HasLog, ReplaysTo
<1>2. StateHasLog /\ TypeOK /\ NoteIdsAreUnique /\ [Next]_vars => StateHasLog'
  BY StepKeepsLog
<1> QED
  BY <1>1, <1>2, TypeCorrect, NoteIdsStayUnique, PTL DEF Spec

-----------------------------------------------------------------------------
(***************************************************************************)
(* Report and Page: the report and the page show all that was recorded, and *)
(* the engine does what the page offers.  All follow from one invariant of  *)
(* Execution, RecordInv.                                                    *)
(***************************************************************************)

(* Every step's content came from the template or with the step.            *)
ContentsKnown == \A i \in Steps : exec.content[i] \in Contents \cup {NoContent}

RecordInv == CapturedInv /\ StepOrderIsExact /\ ContentsKnown

(* Starting takes the contents of the template.                             *)
LEMMA StartKnowsContents ==
  ASSUME NEW t \in Templates, NEW name \in Names, Start(t, name)
  PROVE  ContentsKnown'
<1>1. exec'.content = [i \in Steps |-> IF TemplateHas(t, i) THEN TemplateContent(t, i) ELSE NoContent]
  BY DEF Start, StartedFrom, New
<1>2. ASSUME NEW i \in Steps, TemplateHas(t, i)
      PROVE  TemplateContent(t, i) \in Contents
  <2>1. PICK k \in DOMAIN t : TemplateContent(t, i) = t[k].content
    BY <1>2 DEF TemplateHas, TemplateContent
  <2>2. t[k] \in TemplateStep
    BY TemplatesAssumption
  <2> QED
    BY <2>1, <2>2 DEF TemplateStep
<1> QED
  BY <1>1, <1>2 DEF ContentsKnown

(* What a step declares never changes once the step is there.               *)
LEMMA ContentsStayKnown == Spec => []ContentsKnown
<1>1. Init => ContentsKnown
  BY DEF Init, New, ContentsKnown
<1>2. ASSUME TypeOK, ContentsKnown, Next
      PROVE  ContentsKnown'
  <2> exec \in State
    BY <1>2 DEF TypeOK
  <2>1. ASSUME NEW i \in Steps, NEW c \in Contents, NEW after \in Steps \cup {None},
               AddStep(i, c, after)
        PROVE  ContentsKnown'
    <3>1. exec'.content = [exec.content EXCEPT ![i] = c]
      BY <2>1 DEF AddStep, StepAdded, Result, State
    <3> QED
      BY <3>1, <1>2, FieldTypes DEF ContentsKnown, ContentSet
  <2>2. ASSUME NEW i \in Steps, SkipStep(i) \/ UnskipStep(i)
        PROVE  exec'.content = exec.content
    BY <2>2 DEF SkipStep, UnskipStep, StepSkipped, StepUnskipped, Result, State
  <2>3. ASSUME NEW i \in Steps, NEW x \in Inputs, NEW group \in Batches, AddAttachments(i, x, group)
        PROVE  exec'.content = exec.content
    BY <2>3 DEF AddAttachments, AttachmentsAdded, Attach, Result, State
  <2>4. ASSUME NEW i \in Steps, NEW x \in Inputs, NEW f \in Files, AssignAttachment(i, x, f)
        PROVE  exec'.content = exec.content
    <3> DEFINE u == Attach(exec, i, x, << f >>)
    <3>1. exec' = [u EXCEPT !.inbox[f] = @ - 1]
      BY <2>4 DEF AssignAttachment, AttachmentAssigned, Result
    <3>2. u \in State
      BY AttachOne
    <3>3. u.content = exec.content
      BY DEF Attach, State
    <3> HIDE DEF u
    <3> QED
      BY <3>1, <3>2, <3>3 DEF State
  <2>5. ASSUME NEW i \in Steps, NEW x \in Inputs, NEW f \in Files,
               RemoveAttachmentFile(i, x, f) \/ UnassignAttachment(i, x, f)
        PROVE  exec'.content = exec.content
    BY <2>5 DEF RemoveAttachmentFile, UnassignAttachment, AttachmentFileRemoved,
                AttachmentUnassigned, Result, State
  <2>6. ASSUME NEW i \in Steps, NEW x \in Inputs, ClearAttachments(i, x)
        PROVE  exec'.content = exec.content
    BY <2>6 DEF ClearAttachments, AttachmentsCleared, Result, State
  <2>7. ASSUME \/ \E i \in Steps, b \in Boxes, on \in BOOLEAN : ToggleCheckbox(i, b, on)
               \/ \E i \in Steps, x \in Inputs, v \in Values : RecordInput(i, x, v)
               \/ \E i \in Steps, x \in Inputs : ClearInput(i, x)
        PROVE  exec'.content = exec.content
    BY <2>7 DEF ToggleCheckbox, RecordInput, ClearInput, CheckboxToggled, InputRecorded,
                InputCleared, Result, State
  <2>8. ASSUME \/ \E n \in Notes, p \in Places : AddNote(n, p)
               \/ \E n \in Notes : RemoveNote(n)
        PROVE  exec'.content = exec.content
    BY <2>8 DEF AddNote, RemoveNote, NoteAdded, NoteRemoved, Result, State
  <2>9. ASSUME \/ \E outcome \in Outcomes : Complete(outcome)
               \/ \E name \in Names : RenameExecution(name)
               \/ Abort \/ ReopenExecution
        PROVE  exec'.content = exec.content
    BY <2>9 DEF Complete, Abort, ReopenExecution, RenameExecution, ExecutionCompleted,
                ExecutionAborted, ExecutionReopened, ExecutionRenamed, Result, State
  <2>10. ASSUME NEW group \in Batches, ReceiveFiles(group)
         PROVE  exec'.content = exec.content
    BY <2>10 DEF ReceiveFiles, WithReceived, State
  <2>11. ASSUME exec'.content = exec.content
         PROVE  ContentsKnown'
    BY <2>11, <1>2 DEF ContentsKnown
  <2> QED
    BY <1>2, <2>1, <2>2, <2>3, <2>4, <2>5, <2>6, <2>7, <2>8, <2>9, <2>10, <2>11,
       StartKnowsContents DEF Next
<1>3. TypeOK /\ ContentsKnown /\ [Next]_vars => ContentsKnown'
  BY <1>2 DEF vars, ContentsKnown
<1> QED
  BY <1>1, <1>3, TypeCorrect, PTL DEF Spec

(* The invariant that the theorems about the report and the page use.       *)
THEOREM RecordStaysSound == Spec => []RecordInv
BY CapturedInvariant, StepOrderStaysExact, ContentsStayKnown, PTL DEF RecordInv

(* An input a step declares takes a value or files, not both.               *)
LEMMA DeclaredApart ==
  ASSUME RecordInv, NEW i \in Steps
  PROVE  exec.content[i].scalar \cap exec.content[i].attach = {}
BY ContentsAssumption DEF RecordInv, ContentsKnown, NoContent

-----------------------------------------------------------------------------
(* The report and the summary. *)

(* A list of the steps in step_order lists every step that holds anything.  *)
LEMMA ListsAll ==
  ASSUME RecordInv, NEW steps, DOMAIN steps = DOMAIN exec.order,
         \A k \in DOMAIN exec.order : steps[k].step = exec.order[k]
  PROVE  ListedOnce(steps, exec)
BY DEF ListedOnce, RecordInv, CapturedInv, SkippedStepIsEmpty, StepOrderIsExact

(* A list of files has an entry for what is on the input.                   *)
LEMMA EntriesOnInput ==
  ASSUME NEW i \in Steps, NEW x \in Inputs, exec \in State
  PROVE  DOMAIN Entries(exec.files[i][x]) = OnInput(exec, i, x)
BY FieldTypes DEF Entries, OnInput, FilesSet

(* What the report lists under a step is what the state holds for it.       *)
LEMMA StepReported ==
  ASSUME RecordInv, NEW i \in Steps
  PROVE  ReportShows(RenderStep(exec, i), exec)
<1> DEFINE r == RenderStep(exec, i)
<1>0. exec \in State /\ CaptureIsDeclared
  BY DEF RecordInv, CapturedInv, TypeOK
<1>1. /\ exec.content[i] \in ContentType
      /\ exec.checked[i] \subseteq exec.content[i].boxes
      /\ exec.value[i] \in [Inputs -> Values \cup {None}]
  BY <1>0, FieldTypes DEF ContentSet, ValueSet, CaptureIsDeclared
<1>2. /\ r.step = i /\ (r.skipped <=> exec.step[i] = "skipped")
      /\ r.boxes = ShownBoxes(exec, i)
      /\ r.rows = RenderInputRows(exec, i)
      /\ r.files = RenderAttachmentInputs(exec, i)
      /\ r.notes = Entries(exec.notes[i])
  BY DEF RenderStep
<1> HIDE DEF r
<1>3. {b \in DOMAIN r.boxes : r.boxes[b]} = exec.checked[i]
  BY <1>1, <1>2 DEF ShownBoxes
<1>4. Filled(r.rows) = HeldValues(exec, i)
  <2>1. DOMAIN r.rows = exec.content[i].scalar
        /\ \A x \in exec.content[i].scalar : r.rows[x] = exec.value[i][x]
    BY <1>2 DEF RenderInputRows
  <2>2. exec.content[i].scalar \subseteq Inputs
    BY <1>1 DEF ContentType
  <2>3. {y \in DOMAIN r.rows : r.rows[y] # None} = {y \in DOMAIN exec.value[i] : exec.value[i][y] # None}
    BY <1>0, <1>1, <2>1, <2>2 DEF CaptureIsDeclared
  <2> QED
    BY <2>1, <2>3 DEF Filled, HeldValues
<1>5. Carrying(r.files) = HeldFiles(exec, i)
  <2> DEFINE held == [x \in Inputs |-> Entries(exec.files[i][x])]
  <2>1. DOMAIN r.files = exec.content[i].attach
        /\ \A x \in exec.content[i].attach : r.files[x] = Entries(exec.files[i][x])
    BY <1>2 DEF RenderAttachmentInputs
  <2>2. exec.content[i].attach \subseteq Inputs
    BY <1>1 DEF ContentType
  <2>3. \A x \in Inputs : held[x] = Entries(exec.files[i][x])
    OBVIOUS
  <2>4. \A x \in Inputs : DOMAIN Entries(exec.files[i][x]) # {} => x \in exec.content[i].attach
    BY <1>0, EntriesOnInput DEF CaptureIsDeclared
  <2>5. {y \in DOMAIN r.files : DOMAIN r.files[y] # {}} = {y \in Inputs : DOMAIN held[y] # {}}
    BY <2>1, <2>2, <2>3, <2>4
  <2>6. DOMAIN held = Inputs
    OBVIOUS
  <2> HIDE DEF held
  <2>7. Carrying(r.files) = Carrying(held)
    BY <2>1, <2>2, <2>3, <2>5, <2>6 DEF Carrying
  <2> QED
    BY <2>7 DEF HeldFiles, held
<1> QED
  BY <1>2, <1>3, <1>4, <1>5 DEF ReportShows, r

(* The inputs that a step's summary shows, and what it shows of each.       *)
LEMMA SummaryInputs ==
  ASSUME NEW i \in Steps
  PROVE  LET view == StepSummary(exec, i) IN
         /\ view.step = i /\ view.status = exec.step[i]
         /\ view.boxes = ShownBoxes(exec, i)
         /\ view.notes = Entries(exec.notes[i])
         /\ DOMAIN view.cells \cap DOMAIN view.block = {}
         /\ InputsOf(view) = Definitions(exec, i)
         /\ \A x \in InputsOf(view) : InputIn(view, x) = InputSummary(exec, i, x)
         /\ DOMAIN view.block \subseteq InputsOf(view)
         /\ \A x \in DOMAIN view.block : view.block[x] = InputSummary(exec, i, x)
<1> DEFINE view == StepSummary(exec, i)
<1>1. /\ view.step = i /\ view.status = exec.step[i]
      /\ view.boxes = ShownBoxes(exec, i)
      /\ view.notes = Entries(exec.notes[i])
      /\ view.cells = TableSummary(exec, i)
      /\ view.block = BlockSummary(exec, i)
  BY DEF StepSummary
<1> HIDE DEF view
<1>2. /\ DOMAIN view.cells = Definitions(exec, i) \cap InTable
      /\ DOMAIN view.block = Definitions(exec, i) \ InTable
      /\ \A x \in DOMAIN view.cells : view.cells[x] = InputSummary(exec, i, x)
      /\ \A x \in DOMAIN view.block : view.block[x] = InputSummary(exec, i, x)
  BY <1>1 DEF TableSummary, BlockSummary
<1>3. InputsOf(view) = Definitions(exec, i)
  BY <1>2 DEF InputsOf
<1>4. \A x \in InputsOf(view) : InputIn(view, x) = InputSummary(exec, i, x)
  BY <1>2 DEF InputsOf, InputIn
<1>5. DOMAIN view.block \subseteq InputsOf(view) /\ DOMAIN view.cells \cap DOMAIN view.block = {}
  BY <1>2 DEF InputsOf
<1> QED
  BY <1>1, <1>2, <1>3, <1>4, <1>5 DEF view

(* What the page shows under a step is what the state holds for it.         *)
LEMMA StepSummarized ==
  ASSUME RecordInv, NEW i \in Steps
  PROVE  SummaryShows(StepSummary(exec, i), exec)
<1> DEFINE view == StepSummary(exec, i)
           values == [x \in InputsOf(view) |-> InputIn(view, x).recorded]
           files == [x \in InputsOf(view) |-> InputIn(view, x).attachments]
<1>0. exec \in State /\ CaptureIsDeclared
  BY DEF RecordInv, CapturedInv, TypeOK
<1>1. /\ exec.content[i] \in ContentType
      /\ exec.checked[i] \subseteq exec.content[i].boxes
      /\ exec.value[i] \in [Inputs -> Values \cup {None}]
  BY <1>0, FieldTypes DEF ContentSet, ValueSet, CaptureIsDeclared
<1>2. /\ view.step = i /\ view.status = exec.step[i]
      /\ view.boxes = ShownBoxes(exec, i)
      /\ view.notes = Entries(exec.notes[i])
      /\ DOMAIN view.cells \cap DOMAIN view.block = {}
      /\ InputsOf(view) = Definitions(exec, i)
      /\ \A x \in InputsOf(view) : InputIn(view, x) = InputSummary(exec, i, x)
  BY SummaryInputs
<1>3. Definitions(exec, i) \subseteq Inputs
  BY <1>1 DEF Definitions, ContentType
<1>4. /\ DOMAIN values = Definitions(exec, i) /\ DOMAIN files = Definitions(exec, i)
      /\ \A x \in Definitions(exec, i) :
           values[x] = exec.value[i][x] /\ files[x] = Entries(exec.files[i][x])
  BY <1>2 DEF InputSummary
<1> HIDE DEF view, values, files
<1>5. {b \in DOMAIN view.boxes : view.boxes[b]} = exec.checked[i]
  BY <1>1, <1>2 DEF ShownBoxes
<1>6. Filled(values) = HeldValues(exec, i)
  <2>1. {y \in DOMAIN values : values[y] # None} = {y \in DOMAIN exec.value[i] : exec.value[i][y] # None}
    BY <1>0, <1>1, <1>3, <1>4 DEF CaptureIsDeclared, Definitions
  <2> QED
    BY <1>4, <2>1 DEF Filled, HeldValues
<1>7. Carrying(files) = HeldFiles(exec, i)
  <2> DEFINE held == [x \in Inputs |-> Entries(exec.files[i][x])]
  <2>1. DOMAIN held = Inputs /\ \A x \in Inputs : held[x] = Entries(exec.files[i][x])
    OBVIOUS
  <2>2. \A x \in Inputs : DOMAIN Entries(exec.files[i][x]) # {} => x \in Definitions(exec, i)
    BY <1>0, EntriesOnInput DEF CaptureIsDeclared, Definitions
  <2>3. {y \in DOMAIN files : DOMAIN files[y] # {}} = {y \in Inputs : DOMAIN held[y] # {}}
    BY <1>3, <1>4, <2>1, <2>2
  <2> HIDE DEF held
  <2>4. Carrying(files) = Carrying(held)
    BY <1>3, <1>4, <2>1, <2>3 DEF Carrying
  <2> QED
    BY <2>4 DEF HeldFiles, held
<1> QED
  BY <1>2, <1>5, <1>6, <1>7 DEF SummaryShows, view, values, files

(* Nothing that was recorded is missing from the report or from the page.   *)
THEOREM ReportStaysComplete == Spec => []ReportIsComplete
<1>1. ASSUME RecordInv
      PROVE  ReportIsComplete
  <2> DEFINE report  == RenderExecution(exec)
             summary == Summarize(exec)
  <2>0. exec \in State /\ exec.order \in Seq(Steps)
    BY <1>1, FieldTypes DEF RecordInv, CapturedInv, TypeOK, OrderSet
  <2>1. /\ report.steps = [k \in DOMAIN exec.order |-> RenderStep(exec, exec.order[k])]
        /\ report.inbox = Entries(exec.inbox) /\ report.notes = Entries(exec.notes[None])
        /\ summary.steps = [k \in DOMAIN exec.order |-> StepSummary(exec, exec.order[k])]
        /\ summary.inbox = Entries(exec.inbox)
    BY DEF RenderExecution, Summarize, RenderInbox, RenderGlobalNotes
  <2> HIDE DEF report, summary
  <2>2. \A k \in DOMAIN exec.order : exec.order[k] \in Steps
    BY <2>0
  <2>3. \A k \in DOMAIN report.steps : ReportShows(report.steps[k], exec)
    BY <1>1, <2>1, <2>2, StepReported
  <2>4. \A k \in DOMAIN summary.steps : SummaryShows(summary.steps[k], exec)
    BY <1>1, <2>1, <2>2, StepSummarized
  <2>5. ListedOnce(report.steps, exec)
    <3>1. \A k \in DOMAIN exec.order : report.steps[k].step = exec.order[k]
      BY <2>1 DEF RenderStep
    <3> QED
      BY <1>1, <2>1, <3>1, ListsAll
  <2>6. ListedOnce(summary.steps, exec)
    <3>1. \A k \in DOMAIN exec.order : summary.steps[k].step = exec.order[k]
      BY <2>1, <2>2, SummaryInputs
    <3> QED
      BY <1>1, <2>1, <3>1, ListsAll
  <2>7. ASSUME NEW f \in Files, HasAttachmentPath(exec, f)
        PROVE  FindAttachment(exec, f)
    <3>1. CASE exec.inbox[f] > 0
      BY <3>1 DEF FindAttachment
    <3>2. ASSUME NEW i \in Steps, NEW x \in Inputs, exec.files[i][x][f] > 0
          PROVE  FindAttachment(exec, f)
      <4>1. exec.step[i] # "absent"
        BY <1>1, <3>2 DEF RecordInv, CapturedInv, SkippedStepIsEmpty, HasCapturedData
      <4>2. \E k \in DOMAIN exec.order : exec.order[k] = i
        BY <1>1, <4>1 DEF RecordInv, StepOrderIsExact
      <4> QED
        BY <3>2, <4>2 DEF FindAttachment
    <3> QED
      BY <2>7, <3>1, <3>2 DEF HasAttachmentPath
  <2> QED
    BY <2>1, <2>3, <2>4, <2>5, <2>6, <2>7 DEF ReportIsComplete, report, summary
<1> QED
  BY <1>1, RecordStaysSound, PTL

-----------------------------------------------------------------------------
(* What the page offers and what the engine does. *)

(* The page reads off the record when a step can be worked on.              *)
LEMMA OfferedWhen ==
  ASSUME RecordInv, NEW i \in Steps
  PROVE  LET page == Summarize(exec) view == StepSummary(exec, i) IN
         /\ ExecutionActive(page) <=> Active(exec)
         /\ IsInteractable(page, view) <=> Active(exec) /\ Present(exec, i)
BY SummaryInputs DEF ExecutionActive, IsInteractable, Summarize, Active, Present

(* What is offered of an input, in terms of the record.                     *)
LEMMA OfferedInput ==
  ASSUME RecordInv, NEW i \in Steps, NEW x \in Inputs
  PROVE  LET view == StepSummary(exec, i) IN
         /\ x \in StepInputs(view) /\ ~ InputIn(view, x).attachment => x \in exec.content[i].scalar
         /\ x \in StepInputs(view) => InputIn(view, x).recorded = exec.value[i][x]
         /\ x \in AttachmentFields(view) =>
              /\ x \in exec.content[i].attach
              /\ DOMAIN view.block[x].attachments = OnInput(exec, i, x)
<1> DEFINE view == StepSummary(exec, i)
<1>1. exec \in State
  BY DEF RecordInv, CapturedInv, TypeOK
<1>2. /\ InputsOf(view) = Definitions(exec, i)
      /\ \A y \in InputsOf(view) : InputIn(view, y) = InputSummary(exec, i, y)
      /\ \A y \in DOMAIN view.block : view.block[y] = InputSummary(exec, i, y)
  BY SummaryInputs
<1> HIDE DEF view
<1>3. x \in StepInputs(view) => InputIn(view, x).recorded = exec.value[i][x]
  BY <1>2 DEF StepInputs, InputSummary
<1>4. /\ InputSummary(exec, i, x).attachment <=> x \in exec.content[i].attach
      /\ InputSummary(exec, i, x).attachments = Entries(exec.files[i][x])
  BY DEF InputSummary
<1>5. x \in StepInputs(view) /\ ~ InputIn(view, x).attachment => x \in exec.content[i].scalar
  BY <1>2, <1>4 DEF StepInputs, Definitions
<1>6. ASSUME x \in AttachmentFields(view)
      PROVE  /\ x \in exec.content[i].attach
             /\ DOMAIN view.block[x].attachments = OnInput(exec, i, x)
  <2>1. view.block[x] = InputSummary(exec, i, x) /\ view.block[x].attachment
    BY <1>2, <1>6 DEF AttachmentFields
  <2> QED
    BY <1>1, <1>4, <2>1, EntriesOnInput
<1> QED
  BY <1>3, <1>5, <1>6 DEF view

(* An attachment input holds no value, a scalar input no file, and a step   *)
(* that is not present holds neither.                                       *)
LEMMA HeldApart ==
  ASSUME RecordInv, NEW i \in Steps, NEW x \in Inputs
  PROVE  /\ x \in exec.content[i].attach => exec.value[i][x] = None
         /\ x \in exec.content[i].scalar => OnInput(exec, i, x) = {}
         /\ exec.value[i][x] # None => Present(exec, i)
BY DeclaredApart DEF RecordInv, CapturedInv, CaptureIsDeclared, SkippedStepIsEmpty, HasCapturedData, Present

(* A file that is not on an attachment input of a present step can be put   *)
(* there.                                                                   *)
LEMMA AttachWorks ==
  ASSUME RecordInv, NEW i \in Steps, NEW x \in Inputs, NEW f \in Files,
         Active(exec), Present(exec, i), x \in exec.content[i].attach, f \notin OnInput(exec, i, x)
  PROVE  /\ AttachmentsAdded(exec, i, x, << f >>) # {}
         /\ exec.inbox[f] > 0 => AttachmentAssigned(exec, i, x, f) # {}
<1>1. CanAttach(exec, i, x, << f >>)
  <2>1. exec.value[i][x] = None
    BY HeldApart
  <2>2. DOMAIN << f >> = {1} /\ << f >>[1] = f /\ << f >> # << >>
    OBVIOUS
  <2> QED
    BY <2>1, <2>2 DEF CanAttach
<1> QED
  BY <1>1 DEF AttachmentsAdded, AttachmentAssigned, Result

(* A file on an input of a present step can be removed or moved back to the *)
(* inbox, and is then not there any more.                                   *)
LEMMA DetachWorks ==
  ASSUME RecordInv, NEW i \in Steps, NEW x \in Inputs, NEW f \in OnInput(exec, i, x),
         Active(exec), Present(exec, i)
  PROVE  /\ \E t \in AttachmentFileRemoved(exec, i, x, f) : f \notin OnInput(t, i, x)
         /\ \E t \in AttachmentUnassigned(exec, i, x, f) :
              f \notin OnInput(t, i, x) /\ t.inbox[f] > 0
<1> DEFINE t == [exec EXCEPT !.files[i][x][f] = @ - 1]
           u == [exec EXCEPT !.files[i][x][f] = @ - 1, !.inbox[f] = @ + 1]
           files == [exec.files EXCEPT ![i] = [exec.files[i] EXCEPT ![x] =
                       [exec.files[i][x] EXCEPT ![f] = @ - 1]]]
<1>0. exec \in State /\ f \in Files
  BY DEF RecordInv, CapturedInv, TypeOK, OnInput
<1>1. /\ exec.files \in [Steps -> [Inputs -> [Files -> Nat]]]
      /\ exec.inbox \in [Files -> Nat]
  BY <1>0, FieldTypes DEF FilesSet, InboxSet
<1>2. exec.files[i][x][f] = 1
  BY <1>0 DEF OnInput, RecordInv, CapturedInv, NoFileTwiceOnInput
<1>3. files[i][x][f] = 0
  BY <1>0, <1>1, <1>2
<1>4. t.files = files /\ u.files = files /\ u.inbox = [exec.inbox EXCEPT ![f] = @ + 1]
  BY <1>0 DEF State
<1>5. t \in AttachmentFileRemoved(exec, i, x, f) /\ u \in AttachmentUnassigned(exec, i, x, f)
  BY DEF AttachmentFileRemoved, AttachmentUnassigned, Result
<1> HIDE DEF files, t, u
<1>6. f \notin OnInput(t, i, x) /\ f \notin OnInput(u, i, x)
  BY <1>3, <1>4 DEF OnInput
<1>7. u.inbox[f] > 0
  BY <1>0, <1>1, <1>4
<1> QED
  BY <1>6, <1>7, <1>5

(* What is offered of an input works.                                       *)
InputOffersWork(page, view, i, x) ==
  /\ OffersRecord(page, view, x) => \A v \in Values : InputRecorded(exec, i, x, v) # {}
  /\ OffersClear(page, view, x) => \E t \in InputCleared(exec, i, x) : t.value[i][x] = None
  /\ OffersAttach(page, view, x) =>
       \A f \in Files : f \in DOMAIN view.block[x].attachments
                        \/ AttachmentsAdded(exec, i, x, << f >>) # {}
  /\ OffersRemoveAll(page, view, x) =>
       \E t \in AttachmentsCleared(exec, i, x) : OnInput(t, i, x) = {}
  /\ \A f \in Files : OffersFile(page, view, x, f) =>
       /\ \E t \in AttachmentFileRemoved(exec, i, x, f) : f \notin OnInput(t, i, x)
       /\ \E t \in AttachmentUnassigned(exec, i, x, f) :
            f \notin OnInput(t, i, x) /\ t.inbox[f] > 0

(* What the page offers for an input works.                                 *)
LEMMA OfferedInputWorks ==
  ASSUME RecordInv, NEW i \in Steps, NEW x \in Inputs
  PROVE  InputOffersWork(Summarize(exec), StepSummary(exec, i), i, x)
<1> DEFINE page == Summarize(exec)
           view == StepSummary(exec, i)
<1>0. exec \in State
  BY DEF RecordInv, CapturedInv, TypeOK
<1>1. /\ ExecutionActive(page) <=> Active(exec)
      /\ IsInteractable(page, view) <=> Active(exec) /\ Present(exec, i)
  BY OfferedWhen
<1>2. /\ x \in StepInputs(view) /\ ~ InputIn(view, x).attachment => x \in exec.content[i].scalar
      /\ x \in StepInputs(view) => InputIn(view, x).recorded = exec.value[i][x]
      /\ x \in AttachmentFields(view) =>
           /\ x \in exec.content[i].attach
           /\ DOMAIN view.block[x].attachments = OnInput(exec, i, x)
  BY OfferedInput
<1> HIDE DEF page, view
<1>3. ASSUME OffersRecord(page, view, x), NEW v \in Values
      PROVE  InputRecorded(exec, i, x, v) # {}
  BY <1>1, <1>2, <1>3, HeldApart DEF OffersRecord, InputRecorded, Result
<1>4. ASSUME OffersClear(page, view, x)
      PROVE  \E t \in InputCleared(exec, i, x) : t.value[i][x] = None
  <2> DEFINE t == [exec EXCEPT !.value[i][x] = None]
  <2>1. Active(exec) /\ exec.value[i][x] # None /\ Present(exec, i)
    BY <1>1, <1>2, <1>4, HeldApart DEF OffersClear
  <2>2. t \in InputCleared(exec, i, x)
    BY <2>1 DEF InputCleared, Result
  <2>3. t.value[i][x] = None
    BY <1>0, FieldTypes DEF ValueSet, State
  <2> QED
    BY <2>2, <2>3
<1>5. ASSUME OffersAttach(page, view, x), NEW f \in Files
      PROVE  f \in DOMAIN view.block[x].attachments \/ AttachmentsAdded(exec, i, x, << f >>) # {}
  BY <1>1, <1>2, <1>5, AttachWorks DEF OffersAttach
<1>6. ASSUME OffersRemoveAll(page, view, x)
      PROVE  \E t \in AttachmentsCleared(exec, i, x) : OnInput(t, i, x) = {}
  <2> DEFINE t == [exec EXCEPT !.files[i][x] = [f \in Files |-> 0]]
  <2>1. Active(exec) /\ Present(exec, i) /\ OnInput(exec, i, x) # {}
    BY <1>1, <1>2, <1>6 DEF OffersRemoveAll
  <2>2. t \in AttachmentsCleared(exec, i, x)
    BY <2>1 DEF AttachmentsCleared, Result
  <2>3. t.files[i][x] = [f \in Files |-> 0]
    BY <1>0, FieldTypes DEF FilesSet, State
  <2> HIDE DEF t
  <2> QED
    BY <2>2, <2>3 DEF OnInput
<1>7. ASSUME NEW f \in Files, OffersFile(page, view, x, f)
      PROVE  /\ \E t \in AttachmentFileRemoved(exec, i, x, f) : f \notin OnInput(t, i, x)
             /\ \E t \in AttachmentUnassigned(exec, i, x, f) :
                  f \notin OnInput(t, i, x) /\ t.inbox[f] > 0
  BY <1>1, <1>2, <1>7, DetachWorks DEF OffersFile
<1> QED
  BY <1>3, <1>4, <1>5, <1>6, <1>7 DEF page, view, InputOffersWork

(* What is offered of a step works: ticks, notes, taking back a skip.       *)
StepOffersWork(page, view, i) ==
  /\ \A b \in Boxes, on \in BOOLEAN :
       OffersTick(page, view, b) => CheckboxToggled(exec, i, b, on) # {}
  /\ OffersNote(page, view) =>
       \A n \in Notes : ~ NoteExists(exec, n) => NoteAdded(exec, n, i) # {}
  /\ \A n \in Notes : OffersNoteRemoval(page, view, n) =>
       /\ NoteRemoved(exec, n) # {}
       /\ \A t \in NoteRemoved(exec, n) : t.notes[i][n] = 0
  /\ OffersUnskip(page, view) => StepUnskipped(exec, i) # {}

(* What the page offers for a step works.                                   *)
LEMMA OfferedStepWorks ==
  ASSUME RecordInv, NEW i \in Steps
  PROVE  StepOffersWork(Summarize(exec), StepSummary(exec, i), i)
<1> DEFINE page == Summarize(exec)
           view == StepSummary(exec, i)
<1>0. exec \in State
  BY DEF RecordInv, CapturedInv, TypeOK
<1>1. /\ ExecutionActive(page) <=> Active(exec)
      /\ IsInteractable(page, view) <=> Active(exec) /\ Present(exec, i)
  BY OfferedWhen
<1>2. /\ view.status = exec.step[i]
      /\ view.boxes = ShownBoxes(exec, i)
      /\ view.notes = Entries(exec.notes[i])
  BY SummaryInputs
<1> HIDE DEF page, view
<1>3. ASSUME NEW b \in Boxes, NEW on \in BOOLEAN, OffersTick(page, view, b)
      PROVE  CheckboxToggled(exec, i, b, on) # {}
  BY <1>1, <1>2, <1>3 DEF OffersTick, ShownBoxes, CheckboxToggled, Result
<1>4. ASSUME OffersNote(page, view), NEW n \in Notes, ~ NoteExists(exec, n)
      PROVE  NoteAdded(exec, n, i) # {}
  BY <1>1, <1>4 DEF OffersNote, NoteAdded, Result
<1>5. ASSUME NEW n \in Notes, OffersNoteRemoval(page, view, n)
      PROVE  /\ NoteRemoved(exec, n) # {}
             /\ \A t \in NoteRemoved(exec, n) : t.notes[i][n] = 0
  <2> DEFINE there == {p \in IF exec.notes[None][n] > 0 THEN {None} ELSE Steps : exec.notes[p][n] > 0}
             t == [exec EXCEPT !.notes[i][n] = @ - 1]
             notes == [exec.notes EXCEPT ![i] = [exec.notes[i] EXCEPT ![n] = @ - 1]]
  <2>1. Active(exec) /\ n \in DOMAIN Entries(exec.notes[i])
    BY <1>1, <1>2, <1>5 DEF OffersNoteRemoval
  <2>2. exec.notes \in [Places -> [Notes -> Nat]]
    BY <1>0, FieldTypes DEF NotesSet
  <2>3. i \in Places /\ None \in Places /\ i # None
    BY NoneAssumption DEF Places
  <2>4. exec.notes[i][n] > 0
    BY <2>1 DEF Entries
  <2>5. /\ exec.notes[i][n] = 1
        /\ \A p \in Places : exec.notes[p][n] > 0 => p = i
    BY <2>3, <2>4 DEF RecordInv, CapturedInv, NoteIdsAreUnique
  <2>6. there = {i}
    BY <2>3, <2>4, <2>5 DEF Places
  <2>7. NoteRemoved(exec, n) = {t}
    BY <2>1, <2>6 DEF NoteRemoved
  <2>8. t.notes = notes
    BY <1>0 DEF State
  <2>9. notes[i][n] = 0
    BY <2>2, <2>3, <2>5
  <2> QED
    BY <2>7, <2>8, <2>9
<1>6. ASSUME OffersUnskip(page, view)
      PROVE  StepUnskipped(exec, i) # {}
  BY <1>1, <1>2, <1>6 DEF OffersUnskip, StepUnskipped, Result
<1> QED
  BY <1>3, <1>4, <1>5, <1>6 DEF page, view, StepOffersWork

(* The engine does what an up-to-date page offers.                          *)
THEOREM OfferedActionsAlwaysWork == Spec => []OfferedActionsWork
<1>1. ASSUME RecordInv
      PROVE  OfferedActionsWork
  <2> DEFINE page == Summarize(exec)
  <2>0. exec \in State /\ exec.order \in Seq(Steps)
    BY <1>1, FieldTypes DEF RecordInv, CapturedInv, TypeOK, OrderSet
  <2>1. /\ page.status = exec.status /\ page.inbox = Entries(exec.inbox)
        /\ page.steps = [k \in DOMAIN exec.order |-> StepSummary(exec, exec.order[k])]
    BY DEF Summarize
  <2>2. \A k \in DOMAIN exec.order : exec.order[k] \in Steps
    BY <2>0
  <2>3. ExecutionActive(page) <=> Active(exec)
    BY <2>1 DEF ExecutionActive, Active
  <2>4. \A k \in DOMAIN page.steps :
          /\ page.steps[k] = StepSummary(exec, exec.order[k])
          /\ page.steps[k].step = exec.order[k]
          /\ page.steps[k].status = exec.step[exec.order[k]]
    BY <2>1, <2>2, SummaryInputs
  <2>5. ASSUME NEW i \in Steps, NEW x \in Inputs, NEW f \in Files, OffersAssign(page, i, x, f)
        PROVE  f \in OnInput(exec, i, x) \/ AttachmentAssigned(exec, i, x, f) # {}
    <3>1. Active(exec) /\ exec.inbox[f] > 0 /\ << i, x >> \in AssignTargets(page)
      BY <2>1, <2>3, <2>5 DEF OffersAssign, Entries
    <3>2. PICK k \in DOMAIN page.steps :
            page.steps[k].status = "present" /\ page.steps[k].step = i
            /\ x \in AttachmentFields(page.steps[k])
      BY <3>1 DEF AssignTargets
    <3>3. Present(exec, i) /\ x \in AttachmentFields(StepSummary(exec, i))
      BY <2>4, <3>2 DEF Present
    <3>4. x \in exec.content[i].attach
      BY <1>1, <3>3, OfferedInput
    <3> QED
      BY <1>1, <3>1, <3>3, <3>4, AttachWorks
  <2>6. ASSUME NEW i \in Steps, NEW after \in Steps \cup {None}, NEW c \in Contents,
               OffersAddStep(page, i, after)
        PROVE  StepAdded(exec, i, c, after) # {}
    <3>1. /\ Active(exec)
          /\ \A k \in DOMAIN exec.order : exec.order[k] # i
          /\ after = None \/ \E k \in DOMAIN exec.order : exec.order[k] = after
      BY <2>1, <2>3, <2>4, <2>6 DEF OffersAddStep
    <3>2. exec.step[i] = "absent"
      BY <1>1, <3>1 DEF RecordInv, StepOrderIsExact
    <3> QED
      BY <3>1, <3>2 DEF StepAdded, Result
  <2>7. OffersFinish(page) => \A outcome \in Outcomes : ExecutionCompleted(exec, outcome) # {}
    BY <2>3 DEF OffersFinish, ExecutionCompleted, Result
  <2>8. OffersReopen(page) => ExecutionReopened(exec) # {}
    BY <2>1 DEF OffersReopen, IsFinished, Finished, ExecutionReopened, Result
  <2> HIDE DEF page
  <2>9. \A k \in DOMAIN page.steps :
          StepOffersWork(page, page.steps[k], page.steps[k].step)
    BY <1>1, <2>1, <2>2, <2>4, OfferedStepWorks DEF page
  <2>10. \A k \in DOMAIN page.steps, x \in Inputs :
           InputOffersWork(page, page.steps[k], page.steps[k].step, x)
    BY <1>1, <2>1, <2>2, <2>4, OfferedInputWorks DEF page
  <2>11. ASSUME NEW k \in DOMAIN page.steps, NEW x \in Inputs, NEW f \in Files,
                OffersAssign(page, page.steps[k].step, x, f)
         PROVE  \/ f \in DOMAIN page.steps[k].block[x].attachments
                \/ AttachmentAssigned(exec, page.steps[k].step, x, f) # {}
    <3> DEFINE i == exec.order[k]
    <3>1. i \in Steps /\ page.steps[k] = StepSummary(exec, i) /\ page.steps[k].step = i
      BY <2>1, <2>2, <2>4
    <3>2. PICK j \in DOMAIN page.steps :
            page.steps[j].step = i /\ x \in AttachmentFields(page.steps[j])
      BY <2>11, <3>1 DEF OffersAssign, AssignTargets
    <3>3. x \in AttachmentFields(StepSummary(exec, i))
      BY <2>4, <3>2
    <3> HIDE DEF i
    <3>4. DOMAIN StepSummary(exec, i).block[x].attachments = OnInput(exec, i, x)
      BY <1>1, <3>1, <3>3, OfferedInput
    <3> QED
      BY <2>5, <2>11, <3>1, <3>4
  <2> QED
    BY <2>6, <2>7, <2>8, <2>9, <2>10, <2>11, SMTT(30)
    DEF OfferedActionsWork, StepOffersWork, InputOffersWork, page
<1> QED
  BY <1>1, RecordStaysSound, PTL

-----------------------------------------------------------------------------
(* Progress. *)

(* A set of positions has a first one.                                      *)
LEMMA FirstIsFirst ==
  ASSUME NEW positions \in SUBSET Nat, positions # {}
  PROVE  First(positions) \in positions
<1>1. IsWellFoundedOn(OpToRel(<, Nat), Nat)
  BY NatLessThanWellFounded
<1>2. PICK k \in positions : \A j \in positions : ~ (<< j, k >> \in OpToRel(<, Nat))
  BY <1>1, WFMin
<1>3. \A j \in positions : ~ (j < k)
  BY <1>2 DEF OpToRel
<1>4. \A j \in positions : k <= j
  BY <1>3
<1> QED
  BY <1>4 DEF First

(* What a step declares is finite.                                          *)
LEMMA DeclaredFinite ==
  ASSUME RecordInv, NEW i \in Steps
  PROVE  /\ IsFiniteSet(exec.content[i].boxes)
         /\ IsFiniteSet(exec.content[i].scalar)
         /\ IsFiniteSet(exec.content[i].attach)
<1>1. CASE exec.content[i] \in Contents
  BY <1>1, ContentsAssumption
<1>2. CASE exec.content[i] = NoContent
  <2>1. /\ exec.content[i].boxes = {}
        /\ exec.content[i].scalar = {} /\ exec.content[i].attach = {}
    BY <1>2 DEF NoContent
  <2> QED
    BY <2>1, FS_EmptySet
<1> QED
  BY <1>1, <1>2 DEF RecordInv, ContentsKnown

(* The report of a step has an open checkbox, an empty row or an attachment *)
(* input without a file.                                                    *)
HasGap(r) ==
  \/ \E b \in DOMAIN r.boxes : ~ r.boxes[b]
  \/ \E x \in DOMAIN r.rows : r.rows[x] = None
  \/ \E x \in DOMAIN r.files : DOMAIN r.files[x] = {}

(* The page counts nothing left to do exactly when the report has no gap.   *)
LEMMA CompleteMeansNoGap ==
  ASSUME RecordInv, NEW i \in Steps
  PROVE  StepComplete(StepSummary(exec, i)) <=> ~ HasGap(RenderStep(exec, i))
<1> DEFINE view  == StepSummary(exec, i)
           r     == RenderStep(exec, i)
           boxes == {b \in DOMAIN view.boxes : ~ view.boxes[b]}
           empty == {x \in StepInputs(view) : ~ IsInputFilled(InputIn(view, x))}
<1>1. /\ view.boxes = ShownBoxes(exec, i)
      /\ InputsOf(view) = Definitions(exec, i)
      /\ \A x \in InputsOf(view) : InputIn(view, x) = InputSummary(exec, i, x)
  BY SummaryInputs
<1>2. /\ r.boxes = ShownBoxes(exec, i)
      /\ r.rows = RenderInputRows(exec, i)
      /\ r.files = RenderAttachmentInputs(exec, i)
  BY DEF RenderStep
<1>3. Remaining(view) = Cardinality(boxes) + Cardinality(empty)
  BY DEF Remaining
<1> HIDE DEF view, r
<1>4. DOMAIN view.boxes = exec.content[i].boxes
  BY <1>1 DEF ShownBoxes
<1>5. StepInputs(view) = exec.content[i].scalar \cup exec.content[i].attach
  BY <1>1 DEF StepInputs, Definitions
<1>6. IsFiniteSet(boxes) /\ IsFiniteSet(empty)
  <2>1. IsFiniteSet(exec.content[i].scalar \cup exec.content[i].attach)
    BY DeclaredFinite, FS_Union
  <2> QED
    BY <1>4, <1>5, <2>1, DeclaredFinite, FS_Subset
<1>7. StepComplete(view) <=> boxes = {} /\ empty = {}
  <2> HIDE DEF boxes, empty
  <2>1. Cardinality(boxes) \in Nat /\ Cardinality(empty) \in Nat
    BY <1>6, FS_CardinalityType
  <2>2. Remaining(view) = 0 <=> Cardinality(boxes) = 0 /\ Cardinality(empty) = 0
    BY <1>3, <2>1
  <2> QED
    BY <1>6, <2>2, FS_EmptySet DEF StepComplete
<1>8. boxes = {} <=> \A b \in DOMAIN r.boxes : r.boxes[b]
  BY <1>1, <1>2
<1>9. ASSUME NEW x \in exec.content[i].scalar
      PROVE  IsInputFilled(InputIn(view, x)) <=> r.rows[x] # None
  <2>1. InputIn(view, x) = InputSummary(exec, i, x)
    BY <1>1, <1>9 DEF Definitions
  <2>2. ~ InputSummary(exec, i, x).attachment
    BY <1>9, DeclaredApart DEF InputSummary
  <2>3. InputSummary(exec, i, x).recorded = exec.value[i][x]
    BY DEF InputSummary
  <2>4. r.rows[x] = exec.value[i][x]
    BY <1>2, <1>9 DEF RenderInputRows
  <2> QED
    BY <2>1, <2>2, <2>3, <2>4 DEF IsInputFilled
<1>10. ASSUME NEW x \in exec.content[i].attach
       PROVE  IsInputFilled(InputIn(view, x)) <=> DOMAIN r.files[x] # {}
  <2>1. InputIn(view, x) = InputSummary(exec, i, x)
    BY <1>1, <1>10 DEF Definitions
  <2>2. InputSummary(exec, i, x).attachment
    BY <1>10 DEF InputSummary
  <2>3. InputSummary(exec, i, x).attachments = Entries(exec.files[i][x])
    BY DEF InputSummary
  <2>4. r.files[x] = Entries(exec.files[i][x])
    BY <1>2, <1>10 DEF RenderAttachmentInputs
  <2> QED
    BY <2>1, <2>2, <2>3, <2>4 DEF IsInputFilled
<1>11. DOMAIN r.rows = exec.content[i].scalar /\ DOMAIN r.files = exec.content[i].attach
  BY <1>2 DEF RenderInputRows, RenderAttachmentInputs
<1>12. empty = {} <=> /\ \A x \in DOMAIN r.rows : r.rows[x] # None
                      /\ \A x \in DOMAIN r.files : DOMAIN r.files[x] # {}
  BY <1>5, <1>9, <1>10, <1>11
<1> HIDE DEF boxes, empty
<1> QED
  BY <1>7, <1>8, <1>12 DEF HasGap, view, r

(* What the page says of the progress is true of the record.                *)
THEOREM ProgressStaysTrue == Spec => []ProgressIsTrue
<1>1. ASSUME RecordInv
      PROVE  ProgressIsTrue
  <2> DEFINE report == RenderExecution(exec).steps
             steps  == Summarize(exec).steps
             gap    == {k \in DOMAIN report : ~ report[k].skipped /\ HasGap(report[k])}
             missing   == {k \in DOMAIN steps : IsOpen(steps[k])}
             n      == Len(exec.order)
  <2>0. exec \in State /\ exec.order \in Seq(Steps) /\ exec.step \in StepSet
    BY <1>1, FieldTypes DEF RecordInv, CapturedInv, TypeOK, OrderSet
  <2>1. /\ report = [k \in DOMAIN exec.order |-> RenderStep(exec, exec.order[k])]
        /\ steps = [k \in DOMAIN exec.order |-> StepSummary(exec, exec.order[k])]
    BY DEF RenderExecution, Summarize
  <2>2. n \in Nat /\ DOMAIN exec.order = 1..n /\ \A k \in 1..n : exec.order[k] \in Steps
    BY <2>0
  <2> HIDE DEF report, steps, n
  <2>3. DOMAIN report = 1..n /\ DOMAIN steps = 1..n /\ Len(steps) = n
    BY <2>1, <2>2
  <2>4. ASSUME NEW k \in 1..n
        PROVE  /\ steps[k].status \in {"present", "skipped"}
               /\ report[k].skipped <=> steps[k].status = "skipped"
               /\ StepComplete(steps[k]) <=> ~ HasGap(report[k])
    <3>1. PICK i \in Steps : i = exec.order[k]
      BY <2>2
    <3>2. steps[k] = StepSummary(exec, i) /\ report[k] = RenderStep(exec, i)
      BY <2>1, <2>2, <3>1
    <3>3. steps[k].status = exec.step[i]
      BY <3>2, SummaryInputs
    <3>4. report[k].skipped <=> exec.step[i] = "skipped"
      <4>1. RenderStep(exec, i).skipped <=> exec.step[i] = "skipped"
        BY DEF RenderStep
      <4> QED
        BY <3>2, <4>1
    <3>5. exec.step[i] # "absent"
      BY <1>1, <2>2, <3>1 DEF RecordInv, StepOrderIsExact
    <3> QED
      BY <1>1, <2>0, <3>2, <3>3, <3>4, <3>5, CompleteMeansNoGap DEF StepSet
  <2>5. gap = missing
    BY <2>3, <2>4 DEF IsOpen
  <2>6. AllDone(steps) <=> missing = {}
    <3> DEFINE complete == CompleteSteps(steps)
               skipped == SkippedSteps(steps)
    <3>1. /\ complete \cap skipped = {}
          /\ complete \cup skipped = (1..n) \ missing
          /\ complete \subseteq 1..n /\ skipped \subseteq 1..n
      BY <2>3, <2>4 DEF CompleteSteps, SkippedSteps, IsOpen
    <3>2. AllDone(steps) <=> Cardinality(complete) + Cardinality(skipped) = n
      BY <2>3 DEF AllDone
    <3> HIDE DEF complete, skipped
    <3>3. IsFiniteSet(1..n) /\ Cardinality(1..n) = n
      BY <2>2, FS_Interval
    <3>4. IsFiniteSet(complete) /\ IsFiniteSet(skipped)
      BY <3>1, <3>3, FS_Subset
    <3>5. Cardinality(complete) \in Nat /\ Cardinality(skipped) \in Nat
      BY <3>4, FS_CardinalityType
    <3>6. Cardinality(complete \cup skipped) = Cardinality(complete) + Cardinality(skipped)
      <4>1. Cardinality(complete \cap skipped) = 0
        BY <3>1, FS_EmptySet
      <4>2. Cardinality(complete \cup skipped) =
              Cardinality(complete) + Cardinality(skipped) - Cardinality(complete \cap skipped)
        BY <3>4, FS_Union
      <4> QED
        BY <3>5, <4>1, <4>2
    <3>7. Cardinality(complete \cup skipped) = n <=> complete \cup skipped = 1..n
      <4>1. complete \cup skipped \in SUBSET (1..n)
        BY <3>1
      <4> QED
        BY <3>3, <4>1, FS_Subset
    <3>8. complete \cup skipped = 1..n <=> missing = {}
      BY <2>3, <3>1
    <3> QED
      BY <3>2, <3>6, <3>7, <3>8
  <2>7. missing \subseteq Nat
    BY <2>2, <2>3
  <2>8. missing # {} => DefaultFocus(steps) \in missing
    BY <2>7, FirstIsFirst DEF DefaultFocus
  <2>9. ASSUME NEW k \in DOMAIN steps, missing \ {k} # {}
        PROVE  NextStep(steps, k) \in missing
    <3> DEFINE after == {j \in missing : j > k}
               below == {j \in missing : j < k}
    <3>1. after # {} \/ below # {}
      BY <2>2, <2>3, <2>7, <2>9
    <3>2. after \subseteq Nat /\ below \subseteq Nat /\ after \subseteq missing /\ below \subseteq missing
      BY <2>7
    <3>3. NextStep(steps, k) = CASE after # {}               -> First(after)
                                 [] after = {} /\ below # {} -> First(below)
                                 [] after = {} /\ below = {} -> IF k < Len(steps) THEN k + 1 ELSE 0
      BY DEF NextStep
    <3> HIDE DEF after, below, missing
    <3>4. CASE after # {}
      BY <3>2, <3>3, <3>4, FirstIsFirst
    <3>5. CASE after = {}
      BY <3>1, <3>2, <3>3, <3>5, FirstIsFirst
    <3> QED
      BY <3>4, <3>5
  <2> QED
    BY <2>5, <2>6, <2>8, <2>9 DEF ProgressIsTrue, HasGap, report, steps
<1> QED
  BY <1>1, RecordStaysSound, PTL
-----------------------------------------------------------------------------
(***************************************************************************)
(* LogFile, the file the events of an execution are written to, for every   *)
(* number of records, size of batch and number of stopped writes.           *)
(*                                                                          *)
(* A line is closed when a newline follows it.  Closed lines never change,  *)
(* so the proofs need to know of them only that they end with a record and  *)
(* that what was written in full, and so all that was acknowledged, is in   *)
(* one of them.                                                             *)
(***************************************************************************)

Pieces == Nat \cup {Torn, CutChar}

Closed(k) == k \in DOMAIN lines /\ (k < Len(lines) \/ ~ open)

OnClosedLine(r) == \E k \in DOMAIN lines : Closed(k) /\ \E j \in DOMAIN lines[k] : lines[k][j] = r

LastPiece(k) == lines[k][Len(lines[k])]

(* Every line has a piece, and a closed one ends with a record.             *)
LinesEndWell ==
  /\ \A k \in DOMAIN lines : lines[k] # << >>
  /\ \A k \in DOMAIN lines : Closed(k) => LastPiece(k) \notin {Torn, CutChar}

(* What the writer has finished is on closed lines; what it is finishing    *)
(* ends the open one.                                                       *)
WriterInv ==
  /\ \A i \in 1..done : OnClosedLine(batch[i])
  /\ at = "newline" => LastPiece(Len(lines)) = batch[done + 1]
  /\ at = "sync" => done = Len(batch)
  /\ \A i \in DOMAIN batch : batch[i] \in 1..(next - 1)

AckedInv == \A r \in acked : OnClosedLine(r)

FileInv == FileTypeOK /\ LinesEndWell /\ WriterInv /\ AckedInv

-----------------------------------------------------------------------------
(* Putting a piece: the file keeps its shape and its closed lines.          *)
LEMMA PutKeeps ==
  ASSUME FileTypeOK, LinesEndWell, NEW piece \in Pieces, Put(piece)
  PROVE  /\ lines' \in Seq(Seq(Pieces))
         /\ lines' # << >>
         /\ open'
         /\ LinesEndWell'
         /\ LastPiece(Len(lines))' = piece
         /\ \A r : OnClosedLine(r) => OnClosedLine(r)'
<1> USE DEF Pieces
<1>0. lines \in Seq(Seq(Pieces)) /\ open' BY DEF FileTypeOK, Put
<1>1. CASE open
  <2> DEFINE n == Len(lines)
  <2>1. n \in Nat \ {0} /\ n \in DOMAIN lines BY <1>0, <1>1 DEF FileTypeOK
  <2>2. lines[n] \in Seq(Pieces) BY <1>0, <2>1
  <2>3. lines' = [lines EXCEPT ![n] = Append(lines[n], piece)] BY <1>1 DEF Put
  <2>4. Append(lines[n], piece) \in Seq(Pieces) BY <2>2
  <2>5. /\ lines' \in Seq(Seq(Pieces)) /\ Len(lines') = n /\ DOMAIN lines' = DOMAIN lines
    BY <1>0, <2>1, <2>3, <2>4
  <2>6. lines'[n] = Append(lines[n], piece) BY <2>1, <2>3
  <2>7. \A k \in DOMAIN lines : k # n => lines'[k] = lines[k] BY <2>3
  <2>8. /\ Len(lines'[n]) = Len(lines[n]) + 1 /\ lines'[n][Len(lines[n]) + 1] = piece
    BY <2>2, <2>6
  <2>9. \A k : Closed(k) <=> Closed(k)'
    BY <1>0, <1>1, <2>1, <2>5 DEF Closed
  <2>10. \A k : Closed(k) => k \in DOMAIN lines /\ k # n
    BY <1>1, <2>1 DEF Closed
  <2>11. LinesEndWell'
    BY <2>2, <2>5, <2>6, <2>7, <2>8, <2>9, <2>10 DEF LinesEndWell, LastPiece
  <2>12. LastPiece(Len(lines))' = piece
    BY <2>5, <2>8 DEF LastPiece
  <2>13. \A r : OnClosedLine(r) => OnClosedLine(r)'
    BY <2>5, <2>7, <2>9, <2>10 DEF OnClosedLine
  <2> QED BY <1>0, <2>1, <2>5, <2>11, <2>12, <2>13
<1>2. CASE ~ open
  <2> DEFINE n == Len(lines)
  <2>1. lines' = Append(lines, << piece >>) /\ << piece >> \in Seq(Pieces) /\ n \in Nat
    BY <1>0, <1>2 DEF Put
  <2>2. /\ lines' \in Seq(Seq(Pieces)) /\ Len(lines') = n + 1
        /\ DOMAIN lines = 1..n /\ DOMAIN lines' = 1..(n + 1)
    BY <1>0, <2>1
  <2>3. lines'[n + 1] = << piece >> /\ \A k \in DOMAIN lines : lines'[k] = lines[k]
    BY <1>0, <2>1
  <2>4. \A k : k \in DOMAIN lines <=> Closed(k)'
    BY <1>0, <2>1, <2>2 DEF Closed
  <2>5. \A k \in DOMAIN lines : Closed(k) BY <1>2 DEF Closed
  <2>6. LinesEndWell'
    BY <2>1, <2>2, <2>3, <2>4, <2>5 DEF LinesEndWell, LastPiece
  <2>7. LastPiece(Len(lines))' = piece
    BY <2>2, <2>3 DEF LastPiece
  <2>8. \A r : OnClosedLine(r) => OnClosedLine(r)'
    BY <2>2, <2>3, <2>4 DEF OnClosedLine
  <2> QED BY <1>0, <2>2, <2>6, <2>7, <2>8
<1> QED BY <1>1, <1>2

-----------------------------------------------------------------------------
(* The file starts empty and its writer idle.                               *)
LEMMA FileInvInit == FileInit => FileInv
<1> SUFFICES ASSUME FileInit PROVE FileInv OBVIOUS
<1>1. FileTypeOK BY DEF FileInit, FileTypeOK
<1>2. LinesEndWell /\ WriterInv /\ AckedInv
  BY DEF FileInit, LinesEndWell, WriterInv, AckedInv
<1> QED BY <1>1, <1>2 DEF FileInv

(* Nothing that the closed lines are made of changes.                       *)
LEMMA SameFile ==
  ASSUME UNCHANGED << lines, open >>
  PROVE  /\ LinesEndWell => LinesEndWell'
         /\ \A r : OnClosedLine(r) => OnClosedLine(r)'
         /\ \A k : LastPiece(k)' = LastPiece(k)
BY DEF LinesEndWell, OnClosedLine, LastPiece, Closed

(* Beginning an append.                                                     *)
LEMMA BeginInv ==
  ASSUME FileInv, NEW n \in 1..MaxBatch, Begin(n)
  PROVE  FileInv'
<1> USE DEF FileInv
<1>0. MaxBatch \in Nat /\ MaxRecords \in Nat BY BoundsAssumption
<1>1. n \in Nat \ {0} BY <1>0
<1>2. /\ UNCHANGED << kind, lines, open, acked, stops >> /\ at' = "record"
      /\ batch' = [k \in 1..n |-> next + k - 1] /\ done' = 0 /\ next' = next + n
  BY DEF Begin
<1>3. next \in Nat BY DEF FileTypeOK
<1>4. next > 0 \/ next = 0 BY <1>3
<1>5. batch' \in Seq(Nat) /\ Len(batch') = n /\ DOMAIN batch' = 1..n
  <2>1. next # 0 BY DEF FileTypeOK
  <2>2. \A k \in 1..n : next + k - 1 \in Nat BY <1>1, <1>3, <2>1
  <2> QED BY <1>1, <1>2, <2>2
<1>6. FileTypeOK' BY <1>1, <1>2, <1>3, <1>5 DEF FileTypeOK
<1>7. AckedInv' /\ LinesEndWell' BY <1>2, SameFile DEF AckedInv
<1>8. WriterInv' BY <1>1, <1>2, <1>3, <1>5 DEF WriterInv, FileTypeOK
<1> QED BY <1>6, <1>7, <1>8

(* Writing a record: it ends the open last line.                            *)
LEMMA WriteRecordInv ==
  ASSUME FileInv, WriteRecord
  PROVE  FileInv'
<1> USE DEF FileInv
<1> DEFINE piece == batch[done + 1]
<1>1. /\ UNCHANGED << kind, batch, done, next, acked, stops >> /\ at' = "newline"
      /\ Put(piece) /\ at = "record"
  BY DEF WriteRecord
<1>2. /\ done + 1 \in DOMAIN batch /\ piece \in Nat /\ piece \in Pieces
      /\ done < Len(batch)
  BY <1>1 DEF FileTypeOK, Pieces
<1>3. /\ lines' \in Seq(Seq(Pieces)) /\ lines' # << >> /\ open'
      /\ LinesEndWell' /\ LastPiece(Len(lines))' = piece
      /\ \A r : OnClosedLine(r) => OnClosedLine(r)'
  BY <1>1, <1>2, PutKeeps
<1>4. open' \in BOOLEAN BY <1>1 DEF Put
<1>5. FileTypeOK' BY <1>1, <1>2, <1>3, <1>4 DEF FileTypeOK, Pieces
<1>6. WriterInv' BY <1>1, <1>2, <1>3 DEF WriterInv
<1>7. AckedInv' BY <1>1, <1>3 DEF AckedInv
<1> QED BY <1>3, <1>5, <1>6, <1>7

(* Writing its newline closes the line with the record at its end.          *)
LEMMA WriteNewlineInv ==
  ASSUME FileInv, WriteNewline
  PROVE  FileInv'
<1> USE DEF FileInv
<1> DEFINE n == Len(lines)
<1>1. /\ UNCHANGED << kind, lines, batch, next, acked, stops >> /\ at = "newline"
      /\ open' = FALSE /\ done' = done + 1
      /\ at' = IF done + 1 = Len(batch) THEN "sync" ELSE "record"
  BY DEF WriteNewline
<1>2. /\ open /\ lines # << >> /\ n \in DOMAIN lines /\ n \in Nat
      /\ done \in Nat /\ Len(batch) \in Nat /\ done < Len(batch)
  BY <1>1 DEF FileTypeOK
<1>3. FileTypeOK' BY <1>1, <1>2 DEF FileTypeOK
<1>4. LastPiece(n) = batch[done + 1] /\ batch[done + 1] \in Nat
  BY <1>1, <1>2 DEF WriterInv, FileTypeOK
<1>5. batch[done + 1] \notin {Torn, CutChar} BY <1>4, TornAssumption
<1>6. \A k : Closed(k)' <=> k \in DOMAIN lines BY <1>1, <1>2 DEF Closed
<1>7. \A k \in DOMAIN lines : Closed(k) \/ k = n BY <1>2 DEF Closed, FileTypeOK
<1>8. LinesEndWell'
  BY <1>1, <1>4, <1>5, <1>6, <1>7 DEF LinesEndWell, LastPiece
<1>9. \A r : OnClosedLine(r) => OnClosedLine(r)'
  BY <1>1, <1>2 DEF OnClosedLine, Closed
<1>10. \A r : r = batch[done + 1] => OnClosedLine(r)'
  <2>1. lines[n] \in Seq(Nat \cup {Torn, CutChar}) /\ lines[n] # << >> BY <1>2 DEF FileTypeOK, LinesEndWell
  <2>2. Len(lines[n]) \in DOMAIN lines[n] BY <2>1
  <2>3. lines[n][Len(lines[n])] = batch[done + 1] BY <1>4 DEF LastPiece
  <2> QED BY <1>1, <1>2, <1>6, <2>2, <2>3 DEF OnClosedLine
<1>11. WriterInv'
  <2>1. ASSUME NEW i \in 1..done' PROVE \A r : r = batch[i] => OnClosedLine(r)'
    <3>1. CASE i \in 1..done BY <1>9, <3>1 DEF WriterInv
    <3>2. CASE i = done + 1 BY <1>10, <3>2
    <3> QED BY <1>1, <1>2, <3>1, <3>2
  <2>2. \A i \in 1..done' : OnClosedLine(batch[i])' BY <1>1, <2>1
  <2> QED BY <1>1, <2>2 DEF WriterInv
<1>12. AckedInv' BY <1>1, <1>9 DEF AckedInv
<1> QED BY <1>3, <1>8, <1>11, <1>12

(* What is acknowledged has been written in full.                           *)
LEMMA SyncInv ==
  ASSUME FileInv, Sync
  PROVE  FileInv'
<1> USE DEF FileInv
<1>1. /\ UNCHANGED << kind, lines, open, next, stops >> /\ at = "sync" /\ at' = "idle"
      /\ acked' = acked \cup {batch[k] : k \in DOMAIN batch} /\ batch' = << >> /\ done' = 0
  BY DEF Sync
<1>2. LinesEndWell' BY <1>1, SameFile
<1>7. \A r : OnClosedLine(r) => OnClosedLine(r)' BY <1>1, SameFile
<1>3. DOMAIN batch = 1..done BY <1>1 DEF WriterInv, FileTypeOK
<1>4. FileTypeOK'
  <2>1. acked' \subseteq 1..(next - 1) BY <1>1 DEF FileTypeOK, WriterInv
  <2>2. << >> \in Seq(Nat) /\ Len(<< >>) = 0 OBVIOUS
  <2> QED BY <1>1, <2>1, <2>2 DEF FileTypeOK
<1>5. WriterInv' BY <1>1 DEF WriterInv
<1>6. AckedInv'
  <2> SUFFICES ASSUME NEW r \in acked' PROVE OnClosedLine(r)' BY DEF AckedInv
  <2>1. OnClosedLine(r) BY <1>1, <1>3 DEF AckedInv, WriterInv
  <2> QED BY <1>7, <2>1
<1> QED BY <1>2, <1>4, <1>5, <1>6

(* A stop leaves at most the beginning of a record on the open last line.   *)
LEMMA StopInv ==
  ASSUME FileInv, Stop
  PROVE  FileInv'
<1> USE DEF FileInv
<1>1. /\ UNCHANGED << kind, next, acked >> /\ at' = "idle" /\ stops' = stops + 1
      /\ batch' = << >> /\ done' = 0
      /\ UNCHANGED << lines, open >> \/ \E piece \in {Torn, CutChar} : Put(piece)
  BY DEF Stop
<1>2. /\ lines' \in Seq(Seq(Nat \cup {Torn, CutChar}))
      /\ open' => lines' # << >>
      /\ LinesEndWell'
      /\ \A r : OnClosedLine(r) => OnClosedLine(r)'
  <2>1. CASE UNCHANGED << lines, open >> BY <2>1, SameFile DEF FileTypeOK
  <2>2. ASSUME NEW piece \in {Torn, CutChar}, Put(piece)
        PROVE  /\ lines' \in Seq(Seq(Pieces)) /\ lines' # << >> /\ LinesEndWell'
               /\ \A r : OnClosedLine(r) => OnClosedLine(r)'
    <3>1. piece \in Pieces BY DEF Pieces
    <3> QED BY <2>2, <3>1, PutKeeps
  <2>3. CASE \E piece \in {Torn, CutChar} : Put(piece) BY <2>2, <2>3 DEF Pieces
  <2> QED BY <1>1, <2>1, <2>3
<1>3. FileTypeOK' BY <1>1, <1>2 DEF FileTypeOK
<1>4. WriterInv' BY <1>1 DEF WriterInv
<1>5. AckedInv' BY <1>1, <1>2 DEF AckedInv
<1> QED BY <1>2, <1>3, <1>4, <1>5

(* The invariant is inductive.                                              *)
LEMMA FileInvStep == FileInv /\ [FileNext]_fileVars => FileInv'
<1> SUFFICES ASSUME FileInv, [FileNext]_fileVars PROVE FileInv' OBVIOUS
<1>1. ASSUME NEW n \in 1..MaxBatch, Begin(n) PROVE FileInv' BY <1>1, BeginInv
<1>2. CASE WriteRecord  BY <1>2, WriteRecordInv
<1>3. CASE WriteNewline BY <1>3, WriteNewlineInv
<1>4. CASE Sync         BY <1>4, SyncInv
<1>5. CASE Stop         BY <1>5, StopInv
<1>6. CASE UNCHANGED fileVars
  <2>1. FileTypeOK' BY <1>6 DEF fileVars, FileTypeOK, FileInv
  <2>2. LinesEndWell' /\ AckedInv' /\ WriterInv'
    BY <1>6, SameFile DEF fileVars, FileInv, AckedInv, WriterInv
  <2> QED BY <2>1, <2>2 DEF FileInv
<1> QED BY <1>1, <1>2, <1>3, <1>4, <1>5, <1>6 DEF FileNext

(* The invariant holds in every reachable state.                            *)
THEOREM FileStaysSound == FileSpec => []FileInv
BY FileInvInit, FileInvStep, PTL DEF FileSpec

-----------------------------------------------------------------------------
(* The writer, its file and what it acknowledged have their types, and the  *)
(* writer is never past the end of its batch.                               *)
THEOREM FileTypeCorrect == FileSpec => []FileTypeOK
<1>1. FileInv => FileTypeOK BY DEF FileInv
<1> QED BY <1>1, FileStaysSound, PTL

(* A record on a closed line is read, if that line is whole.                *)
LEMMA ReadFromClosedLine ==
  ASSUME NEW r, OnClosedLine(r), \A k \in DOMAIN lines : Closed(k) => Whole(lines[k]),
         FileTypeOK
  PROVE  r \in Read
<1>1. PICK k \in DOMAIN lines : Closed(k) /\ \E j \in DOMAIN lines[k] : lines[k][j] = r
  BY DEF OnClosedLine
<1>2. lines[k] \in Seq(Nat \cup {Torn, CutChar}) BY DEF FileTypeOK
<1>3. Whole(lines[k]) BY <1>1
<1>4. lines[k][1] = r /\ k \notin BadLines BY <1>1, <1>2, <1>3 DEF Whole, BadLines
<1> QED BY <1>4 DEF Read

(* pending.jsonl, rejected.jsonl and conflicts.jsonl never lose a durable   *)
(* record silently: a reader that accepts the file returns all of them.     *)
THEOREM NothingIsLostSilently == FileSpec => []NoSilentLoss
<1>1. FileInv => NoSilentLoss
  <2> SUFFICES ASSUME FileInv, kind # "events", Readable, NEW r \in acked
               PROVE  r \in Read
    BY DEF NoSilentLoss
  <2>1. kind \in AllKinds BY KindsAssumption DEF FileInv, FileTypeOK
  <2>2. ASSUME NEW k \in DOMAIN lines, Closed(k) PROVE Whole(lines[k])
    <3> SUFFICES ASSUME k \in BadLines PROVE FALSE BY DEF BadLines
    <3>1. CASE kind \in {"pending", "rejected"}
      <4>1. open /\ k = Len(lines) BY <3>1 DEF Readable
      <4> QED BY <2>2, <4>1 DEF Closed
    <3>2. CASE kind = "conflicts" BY <3>2 DEF Readable
    <3> QED BY <2>1, <3>1, <3>2 DEF AllKinds
  <2> QED BY <2>2, ReadFromClosedLine DEF FileInv, AckedInv
<1> QED BY <1>1, FileStaysSound, PTL

(* A write cut short loses nothing durable and leaves the file readable,    *)
(* until something is appended to the line it left unfinished.              *)
THEOREM AStoppedWriteIsHarmless == FileSpec => []StoppedWriteIsHarmless
<1>1. FileInv => StoppedWriteIsHarmless
  <2> SUFFICES ASSUME FileInv, kind # "conflicts", ~ Glued, Decodes
               PROVE  Readable /\ acked \subseteq Read
    BY DEF StoppedWriteIsHarmless
  <2>1. kind \in AllKinds BY KindsAssumption DEF FileInv, FileTypeOK
  <2>2. ASSUME NEW k \in DOMAIN lines PROVE lines[k] \in Seq(Nat \cup {Torn, CutChar}) /\ Len(lines[k]) = 1
    <3>1. lines[k] \in Seq(Nat \cup {Torn, CutChar}) BY DEF FileInv, FileTypeOK
    <3>2. lines[k] # << >> /\ ~ Len(lines[k]) > 1 BY DEF FileInv, LinesEndWell, Glued
    <3>3. Len(lines[k]) \in Nat \ {0} BY <3>1, <3>2, EmptySeq, Zenon
    <3>4. ASSUME NEW m \in Nat \ {0}, ~ m > 1 PROVE m = 1 BY <3>4
    <3> QED BY <3>1, <3>2, <3>3, <3>4, Zenon
  <2>3. ASSUME NEW k \in DOMAIN lines, Closed(k) PROVE Whole(lines[k])
    BY <2>2, <2>3 DEF FileInv, LinesEndWell, LastPiece, Whole
  <2>4. \A k \in BadLines : k = Len(lines) /\ open
    BY <2>3 DEF BadLines, Closed, FileInv, FileTypeOK
  <2>5. Readable BY <2>1, <2>4 DEF Readable, AllKinds
  <2>6. acked \subseteq Read BY <2>3, ReadFromClosedLine DEF FileInv, AckedInv
  <2> QED BY <2>5, <2>6
<1> QED BY <1>1, FileStaysSound, PTL
=============================================================================
