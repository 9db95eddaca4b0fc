----------------------------- MODULE MCServices -----------------------------
(***************************************************************************)
(* Small instances of the parts that share no state: what the browser keeps *)
(* (Browser), the content of attached files (Attachments), shared templates *)
(* (Templates), a template as a file and as a document (TemplateText),      *)
(* following an execution (Live), credentials (Access), and the directory   *)
(* of what a phone sent (Bundle).  One part is looked at in each behaviour: *)
(* focus says which, the others stay as they began.                         *)
(***************************************************************************)
EXTENDS Browser, Templates, TemplateText, Live, Access, Attachments, Bundle

CONSTANTS t1, t2, x1, x2, f1, n1, n2, c1, c2

VARIABLE focus

-----------------------------------------------------------------------------
(* Browser: an action with a file, one with the same content under another  *)
(* name, and one that finishes the execution.  Two tabs work on one         *)
(* execution, one tab on two, or one tab on one, with failures and then     *)
(* with the storage lost.                                                   *)

Attaching == [file |-> f1, name |-> n1, closes |-> FALSE]
Renamed   == [file |-> f1, name |-> n2, closes |-> FALSE]
Closing   == [file |-> None, name |-> n1, closes |-> TRUE]

MCDrafts == {Attaching, Renamed, Closing}

OneTab == [actors |-> {<< t1, x1 >>}, drafts |-> MCDrafts,
           maxEvents |-> 2, maxDrops |-> 1, maxWipes |-> 1]

MCScopes == {
  [OneTab EXCEPT !.actors = {<< t1, x1 >>, << t2, x1 >>}, !.drafts = {Attaching},
                 !.maxDrops = 0, !.maxWipes = 0],
  [OneTab EXCEPT !.actors = {<< t1, x1 >>, << t1, x2 >>}, !.drafts = {Attaching},
                 !.maxDrops = 0, !.maxWipes = 0],
  [OneTab EXCEPT !.maxDrops = 2, !.maxWipes = 0],
  [OneTab EXCEPT !.drafts = {Attaching, Closing}] }

-----------------------------------------------------------------------------
(* Attachments: one content under two names, of an execution that is        *)
(* linked, opened from the server, or imported there and exported again.    *)

SameContent == {[content |-> c1, name |-> n1], [content |-> c1, name |-> n2]}

MCSettings ==
  {[place |-> p, photos |-> SameContent, moves |-> p = "local", maxMade |-> 2, maxFaults |-> 1] :
     p \in {"none", "local", "linked"}}

-----------------------------------------------------------------------------
(* Templates: "p" has a workspace file, "q" has none.  Two creators, two    *)
(* editors, connections and requests lost, or a template that is duplicated.*)

OneEditor == [creators |-> {1}, editors |-> {1}, procedures |-> {"p"}, maxTemplates |-> 1,
              maxEdits |-> 1, maxResets |-> 0, maxLosses |-> 1, maxCrashes |-> 1]

MCTemplateScopes == {
  [OneEditor EXCEPT !.creators = {1, 2}, !.maxTemplates = 2, !.maxCrashes = 0],
  [OneEditor EXCEPT !.editors = {1, 2}, !.maxResets = 1, !.maxLosses = 0],
  [OneEditor EXCEPT !.maxLosses = 2],
  [OneEditor EXCEPT !.procedures = {"p", "q"}, !.maxTemplates = 2, !.maxLosses = 0,
                    !.maxCrashes = 0] }

-----------------------------------------------------------------------------
(* TemplateText: a block of every kind and the odd ones (a list of both     *)
(* kinds, inputs that define nothing or badly, cells without a definition). *)

Def(id, type) ==
  [id |-> id, type |-> type, label |-> TRUE, options |-> FALSE, expected |-> "none"]
Cell(kind, id)       == [kind |-> kind, id |-> id]
Task(level)          == [task |-> TRUE, level |-> level]
Plain(level)         == [task |-> FALSE, level |-> level]
ListOf(marker, items) == [k |-> "list", marker |-> marker, items |-> items]
InputsOf(defs)       == [k |-> "inputs", defs |-> defs]
TableOf(cells)       == [k |-> "table", cells |-> cells]
Text(block)          == [k |-> "text", text |-> << block >>]

Heading == [k |-> "head", named |-> TRUE]
Para    == [k |-> "para"]

MCSourceBlocks == {
  Heading, Para,
  ListOf("-", << Task(0), Task(1), Task(1), Task(0) >>), ListOf("*", << Task(0) >>),
  ListOf("-", << Plain(0) >>), ListOf("-", << Task(0), Plain(1) >>),
  InputsOf(<< Def("a", "text"), Def("b", "attachment") >>), InputsOf(<< >>),
  InputsOf(<< [Def("c", "text") EXCEPT !.expected = "half range"] >>),
  TableOf(<< Cell("input", "a"), Cell("box", ""), Cell("text", "") >>),
  TableOf(<< Cell("input", "b") >>), TableOf(<< Cell("text", "") >>),
  [k |-> "quote", cells |-> << Cell("input", "a") >>] }

MCDocumentBlocks == {
  [k |-> "checkListItem", depth |-> 0], [k |-> "stray"],
  [k |-> "procnoteInput", def |-> Def("a", "text")],
  [k |-> "procnoteInput", def |-> [Def("c", "selection") EXCEPT !.options = TRUE]],
  [k |-> "procnoteInput", def |-> [Def("d", "text") EXCEPT !.expected = "reversed range"]],
  TableOf(<< Cell("input", "a") >>), TableOf(<< Cell("input", "") >>),
  [k |-> "text", text |-> << >>], Text(Para), Text(Heading),
  Text(ListOf("-", << Plain(0) >>)), Text(InputsOf(<< Def("e", "text") >>)) }

(* Of a list with a task: its items, a task with something under it, or one  *)
(* list item with what is under it; of a quoted table: the table, or its    *)
(* text.                                                                    *)
MCConversions == [
  list |-> {
    << Text(ListOf("-", << Plain(0) >>)), [k |-> "checkListItem", depth |-> 0],
       [k |-> "checkListItem", depth |-> 1] >>,
    << [k |-> "checkListItem", depth |-> 0], [k |-> "stray"] >>,
    << Text(ListOf("-", << Plain(0), Task(1) >>)) >> },
  quote |-> { << TableOf(<< Cell("input", "a") >>) >>, << Text(Para) >> }]

-----------------------------------------------------------------------------
(* Bundle: two programs, and two bundles under the same name.               *)

MCBundles == {{n1}, {n1, n2}}

-----------------------------------------------------------------------------
vars == << focus, browserVars, templateVars, textVars, liveVars, accessVars,
           attachmentVars, bundleVars >>

Init ==
  /\ focus \in {"browser", "templates", "text", "live", "connect", "links", "attachments",
               "bundle"}
  /\ BrowserInit
  /\ focus # "browser" => scope = CHOOSE s \in Scopes : TRUE
  /\ TemplatesInit
  /\ focus # "templates" => limits = CHOOSE l \in TemplateScopes : TRUE
  /\ TextInit
  /\ LiveInit
  /\ focus # "live" => held = NotHeld
  /\ AccessInit
  /\ AttachmentsInit
  /\ focus # "attachments" => setting = CHOOSE s \in Settings : TRUE
  /\ picked = [n \in FileNames |-> c1]
  /\ BundleInit

Next ==
  /\ UNCHANGED focus
  /\ \/ /\ focus = "browser"
        /\ BrowserNext
        /\ UNCHANGED << templateVars, textVars, liveVars, accessVars, attachmentVars,
                        bundleVars >>
     \/ /\ focus = "templates"
        /\ TemplatesNext
        /\ UNCHANGED << browserVars, textVars, liveVars, accessVars, attachmentVars,
                        bundleVars >>
     \/ /\ focus = "text"
        /\ TextNext
        /\ UNCHANGED << browserVars, templateVars, liveVars, accessVars, attachmentVars,
                        bundleVars >>
     \/ /\ focus = "live"
        /\ LiveNext
        /\ UNCHANGED << browserVars, templateVars, textVars, accessVars, attachmentVars,
                        bundleVars >>
     \/ /\ focus = "connect"
        /\ ConnectNext
        /\ UNCHANGED << browserVars, templateVars, textVars, liveVars, uploadVars,
                        attachmentVars, bundleVars >>
     \/ /\ focus = "links"
        /\ UploadLinkNext
        /\ UNCHANGED << browserVars, templateVars, textVars, liveVars, connectVars,
                        attachmentVars, bundleVars >>
     \/ /\ focus = "attachments"
        /\ AttachmentsNext
        /\ UNCHANGED << browserVars, templateVars, textVars, liveVars, accessVars,
                        bundleVars >>
     \/ /\ focus = "bundle"
        /\ BundleNext
        /\ UNCHANGED << browserVars, templateVars, textVars, liveVars, accessVars,
                        attachmentVars >>

(* What is fair in a part is not enabled while it is as it began.           *)
Fairness ==
  /\ BrowserFairness
  /\ TemplatesFairness
  /\ LiveFairness
  /\ AccessFairness

Spec == Init /\ [][Next]_vars /\ Fairness

(* The type invariant of the part that is looked at.                        *)
TypeOK ==
  /\ focus = "browser"               => BrowserTypeOK
  /\ focus = "templates"             => TemplatesTypeOK
  /\ focus = "text"                  => TextTypeOK
  /\ focus = "live"                  => LiveTypeOK
  /\ focus \in {"connect", "links"} => AccessTypeOK
  /\ focus = "attachments"           => AttachmentsTypeOK
  /\ focus = "bundle"                => BundleTypeOK
=============================================================================
