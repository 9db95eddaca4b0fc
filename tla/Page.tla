--------------------------------- MODULE Page ---------------------------------
(***************************************************************************)
(* The execution page (ExecutionPage.tsx, RunView.tsx, StepBody.tsx and the *)
(* fields they are made of; run.ts and inbox.ts): how far along it says the *)
(* execution is, where it goes next and which actions it offers, all read   *)
(* off the summary of Report.tla.  `page` is such a summary and `view` one  *)
(* of its steps.                                                            *)
(*                                                                          *)
(* Asking for an offered action is an action of Execution.tla; what the     *)
(* page offers is compared with what the engine accepts.                    *)
(***************************************************************************)
EXTENDS Report

-----------------------------------------------------------------------------
(* Progress (run.ts). *)

(* A faulty variant of StepInputs. *)
StepInputsOfBlocks(view) == DOMAIN view.block

(* The step's inputs, those in table cells included. *)
StepInputs(view) == InputsOf(view)

IsInputFilled(input) ==
  IF input.attachment THEN DOMAIN input.attachments # {} ELSE input.recorded # None

(* stepProgress: the checkboxes and inputs still to do. *)
Remaining(view) ==
  Cardinality({b \in DOMAIN view.boxes : ~ view.boxes[b]})
    + Cardinality({x \in StepInputs(view) : ~ IsInputFilled(InputIn(view, x))})

StepComplete(view) == Remaining(view) = 0
IsOpen(view)       == view.status = "present" /\ ~ StepComplete(view)

(* runProgress, and what RunView concludes from it. *)
CompleteSteps(steps) == {k \in DOMAIN steps : steps[k].status = "present" /\ StepComplete(steps[k])}
SkippedSteps(steps)  == {k \in DOMAIN steps : steps[k].status = "skipped"}

AllDone(steps) == Cardinality(CompleteSteps(steps)) + Cardinality(SkippedSteps(steps)) = Len(steps)

(* The first of a set of positions. *)
First(positions) == CHOOSE k \in positions : \A j \in positions : k <= j

(* The position in focus by default: the first open step, else the last.    *)
DefaultFocus(steps) ==
  LET open == {k \in DOMAIN steps : IsOpen(steps[k])}
  IN  IF open # {} THEN First(open) ELSE Len(steps)

(* Where "next" goes from position k, or 0: the next open step after it,    *)
(* wrapping to the earlier ones, else the following step.                   *)
NextStep(steps, k) ==
  LET open  == {j \in DOMAIN steps : IsOpen(steps[j])}
      after == {j \in open : j > k}
      below == {j \in open : j < k}
  IN  CASE after # {}                 -> First(after)
        [] after = {} /\ below # {}   -> First(below)
        [] after = {} /\ below = {}   -> IF k < Len(steps) THEN k + 1 ELSE 0

-----------------------------------------------------------------------------
(* What the page offers. *)

ExecutionActive(page)      == page.status = "Active"
IsFinished(page)           == page.status \in Outcomes
IsInteractable(page, view) == view.status = "present" /\ ExecutionActive(page)

(* A checkbox, in the list or in a table cell, can be set either way.       *)
OffersTick(page, view, b) == IsInteractable(page, view) /\ b \in DOMAIN view.boxes

(* An input that is not an attachment can be recorded while it has no       *)
(* value; a value can be deleted in any step of an active execution.        *)
OffersRecord(page, view, x) ==
  /\ IsInteractable(page, view)
  /\ x \in StepInputs(view)
  /\ ~ InputIn(view, x).attachment
  /\ InputIn(view, x).recorded = None

OffersClear(page, view, x) ==
  /\ ExecutionActive(page)
  /\ x \in StepInputs(view)
  /\ ~ InputIn(view, x).attachment
  /\ InputIn(view, x).recorded # None

(* Attachments are shown in the block only.  Each file can be removed or    *)
(* moved back to the inbox; with more than one entry all can be removed.    *)
AttachmentFields(view) == {x \in DOMAIN view.block : view.block[x].attachment}

OffersAttach(page, view, x) == IsInteractable(page, view) /\ x \in AttachmentFields(view)

OffersFile(page, view, x, f) ==
  /\ IsInteractable(page, view)
  /\ x \in AttachmentFields(view)
  /\ f \in DOMAIN view.block[x].attachments

OffersRemoveAll(page, view, x) ==
  /\ IsInteractable(page, view)
  /\ x \in AttachmentFields(view)
  /\ LET list == view.block[x].attachments
     IN  \E f, g \in DOMAIN list : f # g \/ list[f] > 1

(* A note can be added to a present step and deleted from any.              *)
OffersNote(page, view)          == IsInteractable(page, view)
OffersNoteRemoval(page, view, n) == ExecutionActive(page) /\ n \in DOMAIN view.notes

OffersUnskip(page, view) == ExecutionActive(page) /\ view.status = "skipped"

(* Where a file of the inbox can be put. *)
AssignTargets(page) ==
  UNION {{<< page.steps[k].step, x >> : x \in AttachmentFields(page.steps[k])} :
           k \in {j \in DOMAIN page.steps : page.steps[j].status = "present"}}

OffersAssign(page, i, x, f) ==
  ExecutionActive(page) /\ f \in DOMAIN page.inbox /\ << i, x >> \in AssignTargets(page)

(* A step is added at the end or after any listed step, under a new id.     *)
OffersAddStep(page, i, after) ==
  /\ ExecutionActive(page)
  /\ \A k \in DOMAIN page.steps : page.steps[k].step # i
  /\ after = None \/ \E k \in DOMAIN page.steps : page.steps[k].step = after

OffersFinish(page) == ExecutionActive(page)
OffersReopen(page) == IsFinished(page)

-----------------------------------------------------------------------------
(* Properties. *)

(* What the page says of the progress is true of the record: "All steps are *)
(* done" appears exactly when the report of every step that was not skipped *)
(* has no empty row, no attachment input without a file and no open         *)
(* checkbox; and until then the page opens on, and "next" leads to, a step  *)
(* that has one.  Report and progress are computed apart, from different    *)
(* lists of inputs.                                                         *)
ProgressIsTrue ==
  LET report == RenderExecution(exec).steps
      steps  == Summarize(exec).steps
      gap    == {k \in DOMAIN report :
                   /\ ~ report[k].skipped
                   /\ \/ \E b \in DOMAIN report[k].boxes : ~ report[k].boxes[b]
                      \/ \E x \in DOMAIN report[k].rows : report[k].rows[x] = None
                      \/ \E x \in DOMAIN report[k].files : DOMAIN report[k].files[x] = {}}
  IN  /\ AllDone(steps) <=> gap = {}
      /\ gap # {} => DefaultFocus(steps) \in gap
      /\ \A k \in DOMAIN steps : gap \ {k} # {} => NextStep(steps, k) \in gap

(* The engine does what an up-to-date page offers: no offered action is     *)
(* refused (a file that already is on the chosen input aside), and what is  *)
(* deleted or moved is gone from where it was shown.  So what has been      *)
(* recorded can be corrected from the page, in whatever state earlier       *)
(* actions, of this operator or of others, left the execution.  Skipping is *)
(* not among them: the page offers it for every present step and shows the  *)
(* refusal.                                                                 *)
OfferedActionsWork ==
  LET page == Summarize(exec) IN
  /\ \A k \in DOMAIN page.steps : LET view == page.steps[k] i == view.step IN
       /\ \A b \in Boxes, on \in BOOLEAN :
            OffersTick(page, view, b) => CheckboxToggled(exec, i, b, on) # {}
       /\ OffersNote(page, view) =>
            \A n \in Notes : ~ NoteExists(exec, n) => NoteAdded(exec, n, i) # {}
       /\ \A n \in Notes : OffersNoteRemoval(page, view, n) =>
            /\ NoteRemoved(exec, n) # {}
            /\ \A t \in NoteRemoved(exec, n) : t.notes[i][n] = 0
       /\ OffersUnskip(page, view) => StepUnskipped(exec, i) # {}
       /\ \A x \in Inputs :
            /\ OffersRecord(page, view, x) =>
                 \A v \in Values : InputRecorded(exec, i, x, v) # {}
            /\ OffersClear(page, view, x) =>
                 \E t \in InputCleared(exec, i, x) : t.value[i][x] = None
            /\ OffersAttach(page, view, x) =>
                 \A f \in Files : f \in DOMAIN view.block[x].attachments
                                  \/ AttachmentsAdded(exec, i, x, << f >>) # {}
            /\ OffersRemoveAll(page, view, x) =>
                 \E t \in AttachmentsCleared(exec, i, x) : OnInput(t, i, x) = {}
            /\ \A f \in Files : OffersFile(page, view, x, f) =>
                 /\ \E t \in AttachmentFileRemoved(exec, i, x, f) : f \notin OnInput(t, i, x)
                 /\ \E t \in AttachmentUnassigned(exec, i, x, f) :
                      f \notin OnInput(t, i, x) /\ t.inbox[f] > 0
            /\ \A f \in Files : OffersAssign(page, i, x, f) =>
                 \/ f \in DOMAIN view.block[x].attachments
                 \/ AttachmentAssigned(exec, i, x, f) # {}
  /\ \A i \in Steps, after \in Steps \cup {None}, c \in Contents :
       OffersAddStep(page, i, after) => StepAdded(exec, i, c, after) # {}
  /\ OffersFinish(page) => \A outcome \in Outcomes : ExecutionCompleted(exec, outcome) # {}
  /\ OffersReopen(page) => ExecutionReopened(exec) # {}
=============================================================================
