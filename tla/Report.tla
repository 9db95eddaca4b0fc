-------------------------------- MODULE Report --------------------------------
(***************************************************************************)
(* What is shown of an execution: the Markdown report that procnote-core    *)
(* writes beside the log (snapshot.rs) and the summary that every page gets *)
(* (`summarize` in procnote-app's execution.rs).  Both are computed from    *)
(* the ExecutionState alone, by walking the steps in step_order and the     *)
(* elements each step declares, so what is not under a declared element of  *)
(* a listed step is not shown.                                              *)
(*                                                                          *)
(* A document is a record; a list of files or notes is a function from its  *)
(* members to how often they are listed.  Wording, escaping, times, units   *)
(* and prose are left out.                                                  *)
(***************************************************************************)
EXTENDS Execution

CONSTANT
  InTable  \* the inputs a step shows in a cell of a table, where it has them

(* The template parser refuses an attachment input in a table cell.         *)
ASSUME InTableAssumption ==
  /\ InTable \subseteq Inputs
  /\ \A c \in Contents : InTable \cap c.attach = {}

-----------------------------------------------------------------------------
(* What both are made of. *)

(* A list as it is printed: its members, each with its number of entries.   *)
Entries(count) == [e \in {d \in DOMAIN count : count[d] > 0} |-> count[e]]

(* The inputs of a step's `inputs` blocks. *)
Definitions(s, i) == s.content[i].scalar \cup s.content[i].attach

(* Every checkbox, in the list or in a table, with its tick. *)
ShownBoxes(s, i) == [b \in s.content[i].boxes |-> b \in s.checked[i]]

-----------------------------------------------------------------------------
(* The report. *)

(* A table shows the values of the inputs named in its cells. *)
RenderTable(s, i) == [x \in InTable \cap s.content[i].scalar |-> s.value[i][x]]

(* An input block lists every scalar input of the step, also those a table  *)
(* shows, and then the attachment inputs with their files.                  *)
RenderInputRows(s, i)        == [x \in s.content[i].scalar |-> s.value[i][x]]
RenderAttachmentInputs(s, i) == [x \in s.content[i].attach |-> Entries(s.files[i][x])]

RenderStep(s, i) ==
  [ step    |-> i,
    skipped |-> s.step[i] = "skipped",
    boxes   |-> ShownBoxes(s, i),
    cells   |-> RenderTable(s, i),
    rows    |-> RenderInputRows(s, i),
    files   |-> RenderAttachmentInputs(s, i),
    notes   |-> Entries(s.notes[i]) ]

RenderGlobalNotes(s) == Entries(s.notes[None])

RenderInbox(s) == Entries(s.inbox)

(* The frontmatter and the summary table. *)
RenderHead(s) == [status |-> s.status, name |-> s.name]

(* render_execution_markdown *)
RenderExecution(s) ==
  [ head  |-> RenderHead(s),
    notes |-> RenderGlobalNotes(s),
    inbox |-> RenderInbox(s),
    steps |-> [k \in DOMAIN s.order |-> RenderStep(s, s.order[k])] ]

-----------------------------------------------------------------------------
(* The summary. *)

InputSummary(s, i, x) ==
  [ attachment  |-> x \in s.content[i].attach,
    recorded    |-> s.value[i][x],
    attachments |-> Entries(s.files[i][x]) ]

(* An input is shown once: in its cell, or else in its block. *)
TableSummary(s, i) == [x \in Definitions(s, i) \cap InTable |-> InputSummary(s, i, x)]
BlockSummary(s, i) == [x \in Definitions(s, i) \ InTable |-> InputSummary(s, i, x)]

StepSummary(s, i) ==
  [ step   |-> i,
    status |-> s.step[i],
    boxes  |-> ShownBoxes(s, i),
    cells  |-> TableSummary(s, i),
    block  |-> BlockSummary(s, i),
    notes  |-> Entries(s.notes[i]) ]

(* `summarize`.  Notes of the execution as a whole are not part of it.      *)
Summarize(s) ==
  [ status |-> s.status,
    name   |-> s.name,
    inbox  |-> Entries(s.inbox),
    steps  |-> [k \in DOMAIN s.order |-> StepSummary(s, s.order[k])] ]

(* find_attachment: the file a preview of path f opens, looked for in the   *)
(* listed steps and in the inbox.                                           *)
FindAttachment(s, f) ==
  \/ \E k \in DOMAIN s.order, x \in Inputs : s.files[s.order[k]][x][f] > 0
  \/ s.inbox[f] > 0

-----------------------------------------------------------------------------
(* Properties. *)

(* The values and files a document's functions show. *)
Filled(value)  == [x \in {y \in DOMAIN value : value[y] # None} |-> value[x]]
Carrying(list) == [x \in {y \in DOMAIN list : DOMAIN list[y] # {}} |-> list[x]]

(* The values and files the state holds for a step. *)
HeldValues(s, i) == Filled(s.value[i])
HeldFiles(s, i)  == Carrying([x \in Inputs |-> Entries(s.files[i][x])])

(* The summaries of a step's inputs, wherever they are shown. *)
InputsOf(view)   == DOMAIN view.cells \cup DOMAIN view.block
InputIn(view, x) == IF x \in DOMAIN view.cells THEN view.cells[x] ELSE view.block[x]

ReportShows(r, s) ==
  /\ r.skipped <=> s.step[r.step] = "skipped"
  /\ {b \in DOMAIN r.boxes : r.boxes[b]} = s.checked[r.step]
  /\ Filled(r.rows) = HeldValues(s, r.step)
  /\ Carrying(r.files) = HeldFiles(s, r.step)
  /\ r.notes = Entries(s.notes[r.step])

SummaryShows(v, s) ==
  /\ v.status = s.step[v.step]
  /\ {b \in DOMAIN v.boxes : v.boxes[b]} = s.checked[v.step]
  /\ DOMAIN v.cells \cap DOMAIN v.block = {}
  /\ Filled([x \in InputsOf(v) |-> InputIn(v, x).recorded]) = HeldValues(s, v.step)
  /\ Carrying([x \in InputsOf(v) |-> InputIn(v, x).attachments]) = HeldFiles(s, v.step)
  /\ v.notes = Entries(s.notes[v.step])

(* Every step that holds anything is listed, and once. *)
ListedOnce(steps, s) ==
  \A i \in Steps :
    s.step[i] # "absent" \/ HasCapturedData(s, i) =>
      \E k \in DOMAIN steps : \A j \in DOMAIN steps : steps[j].step = i <=> j = k

(* Nothing that was recorded is missing from the report or from the page:   *)
(* every value, file, tick and note is shown under its own step, every file *)
(* of the inbox under the inbox, and every file can be opened, whatever was *)
(* skipped, added in between, cleared or moved before and whether or not    *)
(* the execution has ended.                                                 *)
ReportIsComplete ==
  LET report  == RenderExecution(exec)
      summary == Summarize(exec)
  IN  /\ ListedOnce(report.steps, exec) /\ ListedOnce(summary.steps, exec)
      /\ \A k \in DOMAIN report.steps : ReportShows(report.steps[k], exec)
      /\ \A k \in DOMAIN summary.steps : SummaryShows(summary.steps[k], exec)
      /\ report.inbox = Entries(exec.inbox) /\ summary.inbox = Entries(exec.inbox)
      /\ report.notes = Entries(exec.notes[None])
      /\ \A f \in Files : HasAttachmentPath(exec, f) => FindAttachment(exec, f)
=============================================================================
