---------------------------- MODULE TemplateText ----------------------------
(***************************************************************************)
(* A template as Markdown, as the parser's steps and items, and as the      *)
(* blocks of a shared document: parser.rs reads the first into the second,  *)
(* markdown.rs writes it back, convert.ts goes between the second and the   *)
(* third.                                                                   *)
(*                                                                          *)
(* A file is a sequence of Markdown blocks:                                 *)
(*   [k |-> "para"], [k |-> "head", named]      a level-2 heading           *)
(*   [k |-> "list", marker, items]              items [task, level]         *)
(*   [k |-> "inputs", defs]                     a fenced `inputs` block     *)
(*   [k |-> "table", cells]                     body cells [kind, id]       *)
(*   [k |-> "quote", cells]                     a table in a block quote    *)
(* The words of headings, items and paragraphs, and the frontmatter, are    *)
(* carried along unchanged and left out.                                    *)
(***************************************************************************)
EXTENDS Naturals, FiniteSets, Sequences, SequencesExt

CONSTANTS
  SourceBlocks,  \* blocks an author puts into a file
  DocumentBlocks,\* blocks an editor adds to a step of a shared document
  Conversions,   \* what BlockNote may make of a list and of a quote it alters
  MaxBlocks,     \* bound: blocks of the file and changes of the document
  NoText         \* no document, or a file that was refused

ASSUME MaxBlocksAssumption == MaxBlocks \in Nat

(* An input's definition and a table cell (types.rs), as they are written:  *)
(* an ID may be missing, a range may lack an end or run backwards.          *)
InputDefinition ==
  [id : STRING, type : {"measurement", "text", "selection", "attachment"}, label : BOOLEAN,
   options : BOOLEAN, expected : {"none", "exact", "range", "half range", "reversed range"}]
TableCell == [kind : {"text", "input", "box"}, id : STRING]

(* What makes neighbouring list items of one list: the bullet, or how the   *)
(* numbers end.                                                             *)
Markers == {"-", "*", "+", ".", ")"}

MarkdownBlock ==
  [k : {"para"}] \cup [k : {"head"}, named : BOOLEAN]
    \cup [k : {"list"}, marker : Markers, items : Seq([task : BOOLEAN, level : Nat])]
    \cup [k : {"inputs"}, defs : Seq(InputDefinition)]
    \cup [k : {"table", "quote"}, cells : Seq(TableCell)]

(* Lists nest one level at a time.                                          *)
NestedItems(items) ==
  /\ items # << >> /\ items[1].level = 0
  /\ \A i \in 2..Len(items) : items[i].level <= items[i - 1].level + 1

ASSUME SourceBlocksAssumption ==
  SourceBlocks \subseteq {b \in MarkdownBlock : b.k = "list" => NestedItems(b.items)}

(* A child of a step in a document: see Documents below.                    *)
StepChild ==
  [k : {"checkListItem"}, depth : Nat] \cup [k : {"procnoteInput"}, def : InputDefinition]
    \cup [k : {"table"}, cells : Seq(TableCell)] \cup [k : {"stray"}]
    \cup [k : {"text"}, text : Seq(MarkdownBlock)]

ASSUME DocumentBlocksAssumption == DocumentBlocks \subseteq StepChild

(* BlockNote does not know inputs: there are none in what it reads.         *)
MarkdownChild == {b \in StepChild : b.k # "procnoteInput"}

ASSUME ConversionsAssumption ==
  /\ DOMAIN Conversions = {"list", "quote"}
  /\ \A k \in {"list", "quote"} :
       Conversions[k] # {} /\ Conversions[k] \subseteq Seq(MarkdownChild)
ASSUME NoTextAssumption == NoText \notin Seq(MarkdownBlock)

VARIABLES
  file,      \* the workspace file
  document,  \* the shared document made of it, or NoText
  changes,   \* blocks added to the document
  export     \* the document's template as Markdown, NoText when it was refused

textVars == << file, document, changes, export >>

-----------------------------------------------------------------------------
(* Reading Markdown. *)

(* CommonMark: neighbouring lists with the same marker are one list.        *)
JoinLists(blocks, b) ==
  IF /\ blocks # << >>
     /\ b.k = "list" /\ Last(blocks).k = "list" /\ Last(blocks).marker = b.marker
    THEN [blocks EXCEPT ![Len(blocks)].items = @ \o b.items]
    ELSE Append(blocks, b)

MarkdownBlocks(text) == FoldLeft(JoinLists, << >>, text)

(* is_pure_task_list: every item at every level has a marker of its own.    *)
PureTaskList(b) == b.k = "list" /\ \A i \in DOMAIN b.items : b.items[i].task

Fillable(cells) == \E i \in DOMAIN cells : cells[i].kind # "text"

Checkbox(level)  == [k |-> "checkbox", level |-> level]
Prose(text)      == [k |-> "prose", text |-> text]
InputBlock(defs) == [k |-> "inputs", defs |-> defs]
Table(cells)     == [k |-> "table", cells |-> cells]

(* push_prose: a block that is not a segment of its own joins the prose.    *)
WithProse(content, text) ==
  IF text = << >> THEN content
  ELSE IF content # << >> /\ Last(content).k = "prose"
    THEN [content EXCEPT ![Len(content)].text = @ \o text]
    ELSE Append(content, Prose(text))

(* content_segments and parse_step_content, one block after another.        *)
ReadBlock(content, b) ==
  CASE PureTaskList(b) ->
         content \o [i \in DOMAIN b.items |-> Checkbox(b.items[i].level)]
    [] b.k = "inputs" -> Append(content, InputBlock(b.defs))
    [] b.k = "table" /\ Fillable(b.cells) -> Append(content, Table(b.cells))
    [] OTHER -> WithProse(content, <<b>>)

Defs(content) ==
  FlattenSeq([i \in DOMAIN content |->
    IF content[i].k = "inputs" THEN content[i].defs ELSE << >>])

Cells(content) ==
  FlattenSeq([i \in DOMAIN content |->
    IF content[i].k = "table" THEN content[i].cells ELSE << >>])

(* The definition find() takes: the first with the ID.                      *)
Definition(defs, id) ==
  defs[CHOOSE i \in DOMAIN defs :
         defs[i].id = id /\ \A j \in 1..(i - 1) : defs[j].id # id]

(* validate_table_inputs, and table_cell's refusal of a missing ID.         *)
CellsDefined(content) ==
  LET cells  == Cells(content)
      defs   == Defs(content)
      inputs == {i \in DOMAIN cells : cells[i].kind = "input"}
  IN \A i \in inputs :
       /\ cells[i].id # ""
       /\ \E k \in DOMAIN defs : defs[k].id = cells[i].id
       /\ Definition(defs, cells[i].id).type # "attachment"
       /\ \A j \in inputs : cells[j].id = cells[i].id => j = i

(* parse_inputs_block: a range has both ends.                               *)
InputsReadable(content) ==
  \A i \in DOMAIN Defs(content) : Defs(content)[i].expected # "half range"

(* step_headings and parse_body: a step from each heading up to the next.   *)
ReadBody(steps, b) ==
  IF b.k = "head" THEN Append(steps, [named |-> b.named, content |-> << >>])
  ELSE IF steps = << >> THEN steps
  ELSE [steps EXCEPT ![Len(steps)].content = ReadBlock(@, b)]

StepsOf(blocks) == FoldLeft(ReadBody, << >>, blocks)

(* parse_template: a template's steps, or NoText for an error.              *)
ParseTemplate(text) ==
  LET blocks == MarkdownBlocks(text)
      steps  == StepsOf(blocks)
  IN IF /\ blocks # << >> /\ blocks[1].k = "head"
        /\ \A n \in DOMAIN steps :
             CellsDefined(steps[n].content) /\ InputsReadable(steps[n].content)
       THEN steps
       ELSE NoText

-----------------------------------------------------------------------------
(* Writing Markdown. *)

(* normalized: consecutive prose is joined, empty prose left out.           *)
NormalizedItem(content, item) ==
  IF item.k = "prose" THEN WithProse(content, item.text) ELSE Append(content, item)

NormalizedContent(content) == FoldLeft(NormalizedItem, << >>, content)

Normalized(steps) ==
  [n \in DOMAIN steps |-> [steps[n] EXCEPT !.content = NormalizedContent(@)]]

(* table_markdown: a cell as the source that reads back as it.              *)
TableMarkdown(item) == [k |-> "table", cells |-> item.cells]

(* Consecutive checkboxes form one task list.                               *)
WriteItem(out, item) ==
  CASE item.k = "checkbox" /\ out.listOpen ->
         [out EXCEPT !.blocks[Len(out.blocks)].items =
            Append(@, [task |-> TRUE, level |-> item.level])]
    [] item.k = "checkbox" /\ ~ out.listOpen ->
         [blocks |-> Append(out.blocks, [k |-> "list", marker |-> "-",
                       items |-> <<[task |-> TRUE, level |-> item.level]>>]),
          listOpen |-> TRUE]
    [] item.k = "prose" ->
         [blocks |-> out.blocks \o item.text, listOpen |-> FALSE]
    [] item.k = "table" ->
         [blocks |-> Append(out.blocks, TableMarkdown(item)), listOpen |-> FALSE]
    [] OTHER -> [blocks |-> Append(out.blocks, item), listOpen |-> FALSE]

NothingWritten == [blocks |-> << >>, listOpen |-> FALSE]

WriteContent(content) == FoldLeft(WriteItem, NothingWritten, content)

WriteStep(step) ==
  <<[k |-> "head", named |-> step.named]>> \o WriteContent(step.content).blocks

WriteSteps(steps) == FlattenSeq([n \in DOMAIN steps |-> WriteStep(steps[n])])

(* Faulty variant of ToMarkdown: only the number of steps is compared.      *)
ToMarkdownCountingSteps(steps) ==
  LET out == WriteSteps(Normalized(steps))
  IN IF ParseTemplate(out) # NoText /\ Len(ParseTemplate(out)) = Len(steps)
       THEN out ELSE NoText

(* first_difference finds none.                                             *)
ReadsBackAs(out, wanted) == ParseTemplate(out) = wanted

(* to_markdown: NoText when what was written reads back differently.        *)
ToMarkdown(steps) ==
  LET wanted == Normalized(steps)
      out    == WriteSteps(wanted)
  IN IF ReadsBackAs(out, wanted) THEN out ELSE NoText

-----------------------------------------------------------------------------
(* Documents.  A step's children: [k |-> "checkListItem", depth] (the tree  *)
(* of checklist items in pre-order), [k |-> "procnoteInput", def],          *)
(* [k |-> "table", cells], [k |-> "text", text] for any other block, which  *)
(* BlockNote writes as the Markdown blocks text, and [k |-> "stray"], a     *)
(* block where none may be: a step in a step, anything but a checklist item *)
(* under one, anything under an input.                                      *)

(* Faulty variant of Enclosing: an item hangs under its elder sibling.      *)
EnclosingSibling(content, i) ==
  {j \in 1..(i - 1) : /\ \A l \in j..i : content[l].k = "checkbox"
                      /\ \A l \in (j + 1)..i : content[j].level <= content[l].level}

(* checklistBlocks: the items of the same run still on the stack when an    *)
(* item was compared with them, those that no later one was above.          *)
Enclosing(content, i) ==
  {j \in 1..(i - 1) : /\ \A l \in j..i : content[l].k = "checkbox"
                      /\ \A l \in (j + 1)..i : content[j].level < content[l].level}

(* inputToProps.                                                            *)
InputChild(def) == [k |-> "procnoteInput", def |-> def]

(* What BlockNote turns into blocks of other kinds than they are: a list    *)
(* with a task in it, and a table in a quote.                               *)
KeptByBlockNote(b) ==
  /\ b.k # "quote"
  /\ b.k = "list" => ~ \E i \in DOMAIN b.items : b.items[i].task

(* A Markdown block in the hands of BlockNote: as it is, or what other, a   *)
(* function on the blocks that are altered, says of it.                     *)
ProseChild(b) == IF b.k = "table" THEN b ELSE [k |-> "text", text |-> << b >>]

ProseChildren(b, other) ==
  IF b \in DOMAIN other THEN other[b] ELSE << ProseChild(b) >>

(* stepChildren.                                                            *)
ItemChildren(content, i, other) ==
  CASE content[i].k = "checkbox" ->
         << [k |-> "checkListItem", depth |-> Cardinality(Enclosing(content, i))] >>
    [] content[i].k = "prose" ->
         FlattenSeq([j \in DOMAIN content[i].text |->
           ProseChildren(content[i].text[j], other)])
    [] content[i].k = "table" -> << TableMarkdown(content[i]) >>
    [] content[i].k = "inputs" ->
         [j \in DOMAIN content[i].defs |-> InputChild(content[i].defs[j])]

StepChildren(content, other) ==
  FlattenSeq([i \in DOMAIN content |-> ItemChildren(content, i, other)])

TemplateToBlocks(steps, other) ==
  [n \in DOMAIN steps |->
    [k |-> "step", named |-> steps[n].named,
     children |-> StepChildren(steps[n].content, other)]]

(* tableItem: a table block with an input or a checkbox in its body.        *)
IsTableItem(b) == b.k = "table" /\ Fillable(b.cells)

(* convertStepChildren: consecutive inputs form one block, other blocks     *)
(* one prose item.  (Prose on both sides of a stray block is joined here,   *)
(* not there: such a document is not usable anyway.)                        *)
ReadChild(content, b) ==
  CASE b.k = "checkListItem" -> Append(content, Checkbox(b.depth))
    [] b.k = "procnoteInput" ->
         IF content # << >> /\ Last(content).k = "inputs"
           THEN [content EXCEPT ![Len(content)].defs = Append(@, b.def)]
           ELSE Append(content, InputBlock(<<b.def>>))
    [] IsTableItem(b) -> Append(content, Table(b.cells))
    [] b.k = "table" /\ ~ IsTableItem(b) -> WithProse(content, <<b>>)
    [] b.k = "stray" -> content
    [] b.k = "text" -> WithProse(content, b.text)

ReadChildren(children) == FoldLeft(ReadChild, << >>, children)

(* blocksToTemplate: what is outside a step is not part of it.              *)
ReadDocumentBlock(steps, b) ==
  IF b.k = "step"
    THEN Append(steps, [named |-> b.named, content |-> ReadChildren(b.children)])
    ELSE steps

BlocksToTemplate(doc) == FoldLeft(ReadDocumentBlock, << >>, doc)

(* propsToInput.                                                            *)
InputUsable(def) ==
  /\ def.id # "" /\ def.label
  /\ def.type = "selection" => def.options
  /\ def.expected # "reversed range"

AllDefs(steps) == FlattenSeq([n \in DOMAIN steps |-> Defs(steps[n].content)])

(* blocksToTemplate reports no issue.                                       *)
Usable(doc) ==
  LET steps == BlocksToTemplate(doc)
      defs  == AllDefs(steps)
  IN /\ steps # << >>
     /\ \A i \in DOMAIN doc :
          /\ doc[i].k = "step" /\ doc[i].named
          /\ \A j \in DOMAIN doc[i].children : doc[i].children[j].k # "stray"
     /\ \A i \in DOMAIN defs : InputUsable(defs[i])
     /\ \A i, j \in DOMAIN defs : defs[i].id = defs[j].id => i = j

-----------------------------------------------------------------------------
TextInit ==
  /\ file = << >>
  /\ document = NoText
  /\ changes = 0
  /\ export = NoText

(* The author of the workspace file goes on.                                *)
WriteFile(b) ==
  /\ document = NoText
  /\ Len(file) < MaxBlocks
  /\ file' = Append(file, b)
  /\ UNCHANGED << document, changes, export >>

(* The prose of a file that BlockNote alters, and what it may make of it.   *)
AlteredBlocks(blocks) ==
  {b \in Range(blocks) : ~ PureTaskList(b) /\ ~ KeptByBlockNote(b)}

Alterations(blocks) ==
  {other \in [AlteredBlocks(blocks) -> Conversions["list"] \cup Conversions["quote"]] :
     \A b \in DOMAIN other : other[b] \in Conversions[b.k]}

(* open_collab_template, templateToUpdate: the file becomes a document.     *)
OpenFile ==
  LET steps == ParseTemplate(file) IN
  /\ document = NoText
  /\ steps # NoText
  /\ \E other \in Alterations(MarkdownBlocks(file)) :
       document' = TemplateToBlocks(steps, other)
  /\ UNCHANGED << file, changes, export >>

(* An editor adds a step, content outside every step, or a block to the     *)
(* last step.                                                               *)
Compose(doc) ==
  /\ document # NoText
  /\ Len(file) + changes < MaxBlocks
  /\ document' = doc
  /\ changes' = changes + 1
  /\ export' = NoText
  /\ UNCHANGED file

AddStep(named) ==
  /\ document # NoText
  /\ Compose(Append(document, [k |-> "step", named |-> named, children |-> << >>]))

AddOutside ==
  document # NoText /\ Compose(Append(document, [k |-> "outside"]))

AddBlock(b) ==
  /\ document # NoText /\ Last(document).k = "step"
  /\ Compose([document EXCEPT ![Len(document)].children = Append(@, b)])

(* collab_template_markdown: only a template without issues is written.     *)
ExportTemplate ==
  /\ document # NoText
  /\ export = NoText
  /\ Usable(document)
  /\ export' = ToMarkdown(BlocksToTemplate(document))
  /\ UNCHANGED << file, document, changes >>

TextNext ==
  \/ \E b \in SourceBlocks : WriteFile(b)
  \/ OpenFile
  \/ \E named \in BOOLEAN : AddStep(named)
  \/ AddOutside
  \/ \E b \in DocumentBlocks : AddBlock(b)
  \/ ExportTemplate

TextSpec == TextInit /\ [][TextNext]_textVars

-----------------------------------------------------------------------------
(***************************************************************************)
(* Properties.                                                              *)
(***************************************************************************)

DocumentBlock ==
  [k : {"outside"}] \cup [k : {"step"}, named : BOOLEAN, children : Seq(StepChild)]

TextTypeOK ==
  /\ file \in Seq(SourceBlocks) /\ Len(file) <= MaxBlocks
  /\ document # NoText => document \in Seq(DocumentBlock)
  /\ changes \in 0..MaxBlocks
  /\ export # NoText => document # NoText /\ export \in Seq(MarkdownBlock)

(* One `inputs` block after another, or one that defines nothing, which a   *)
(* document cannot keep apart.                                              *)
InputsApart(content) ==
  \A i \in DOMAIN content : content[i].k = "inputs" =>
    /\ content[i].defs # << >>
    /\ i < Len(content) => content[i + 1].k # "inputs"

ProseKept(content) ==
  \A i \in DOMAIN content : content[i].k = "prose" =>
    \A b \in Range(content[i].text) : KeptByBlockNote(b)

(* A workspace file survives its way through the service: opened as a       *)
(* shared template and read back from the document without a change, it is  *)
(* the template the parser read, and it can be written as Markdown again    *)
(* that reads as the same template.  Three exceptions, the first two for    *)
(* the step they are in: inputs in neighbouring blocks end in one; prose    *)
(* that BlockNote alters (a list of tasks and other items, which            *)
(* docs/concepts/templates.md lets authors write as prose, or a table in a  *)
(* quote) becomes blocks of other kinds; and a list with another marker     *)
(* than the one checklists are written with may run into a checklist.       *)
(* Whatever a file holds, each step keeps its heading and its inputs.       *)
FileSurvives ==
  LET steps == ParseTemplate(file)
      read  == BlocksToTemplate(document)
      Survives(n) == InputsApart(steps[n].content) /\ ProseKept(steps[n].content)
  IN
  document # NoText /\ changes = 0 =>
    /\ Len(read) = Len(steps)
    /\ \A n \in DOMAIN steps :
         /\ read[n].named = steps[n].named
         /\ Defs(read[n].content) = Defs(steps[n].content)
         /\ Survives(n) => read[n] = steps[n]
    /\ /\ \A n \in DOMAIN steps : Survives(n)
       /\ \A i \in DOMAIN file : file[i].k = "list" => file[i].marker = "-"
       => ToMarkdown(read) # NoText /\ ParseTemplate(ToMarkdown(read)) = steps

(* The Markdown exported of a shared template is read back as exactly the   *)
(* steps an execution of the document has, whatever the editors wrote into  *)
(* it: headings, lists and code blocks in prose, cells without a            *)
(* definition.  What cannot be written so is refused.                       *)
ExportReadsBack ==
  export # NoText => ParseTemplate(export) = BlocksToTemplate(document)
=============================================================================
