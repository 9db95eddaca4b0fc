----------------------------- MODULE Templates -----------------------------
(***************************************************************************)
(* Shared templates: the rows procnote-server creates, archives and deletes *)
(* (collab.rs, lib.rs), the documents the collab service keeps in memory    *)
(* and stores (collab/server.ts, document.ts), and the editors connected to *)
(* them.  The service and Yjs are modelled as src/ uses them.               *)
(*                                                                          *)
(* A document is a Yjs document: what was ever added to it and what of that *)
(* was removed, merged by union.  What is added: the content a template is  *)
(* created with, an editor's change, or the workspace file it is reset to.  *)
(* Every await of a request is a step; the server drops a request whose     *)
(* client is gone, while what it asked of the collab service goes on.       *)
(***************************************************************************)
EXTENDS Naturals, FiniteSets

CONSTANTS
  Creators,       \* requests that create a template
  Editors,
  Procedures,     \* procedure IDs
  FileProcedures, \* those with a template in the workspace
  MaxTemplates,   \* bound: rows ever inserted
  Unset,          \* no row, no document, no view
  TemplateScopes  \* bounds considered together

ASSUME FileProceduresAssumption == FileProcedures \subseteq Procedures
ASSUME MaxTemplatesAssumption   == MaxTemplates \in Nat

Ids == 1..MaxTemplates

(* Who creates and edits, for which procedures; how many rows, changes,     *)
(* resets, connections or requests lost and crashes of the collab service   *)
(* there are at most.                                                       *)
ASSUME TemplateScopesAssumption ==
  TemplateScopes \subseteq
    [creators : SUBSET Creators, editors : SUBSET Editors,
     procedures : SUBSET Procedures, maxTemplates : Ids, maxEdits : Nat,
     maxResets : Nat, maxLosses : Nat, maxCrashes : Nat]

VARIABLES
  limits,      \* one of TemplateScopes
  rows,        \* the templates table: by ID, [proc, state, archived] or Unset
  docs,        \* the collab service's documents in memory, or Unset
  seeding,     \* per template, its first content's way into its document
  creating,    \* per creator: [pc, kind, proc, id]
  view,        \* per editor: [id, doc, link] or Unset
  resetting,   \* templates whose reset was let through
  made,        \* IDs used so far
  edits,       \* history: changes made, with their template
  abandoned,   \* history: changes whose editor left before they were stored
  created,     \* history: templates whose creation was reported
  resets, losses, crashes

templateVars == << limits, rows, docs, seeding, creating, view, resetting, made,
                   edits, abandoned, created, resets, losses, crashes >>

-----------------------------------------------------------------------------
(* Documents. *)

Change == ({"seed"} \X Ids) \cup ({"edit", "file"} \X Nat)
Doc    == [added : SUBSET Change, removed : SUBSET Change]
Row    == [proc : Procedures, state : Doc, archived : BOOLEAN]
View   == [id : Ids, doc : Doc, link : {"token", "on", "off"}]

Request == [pc : {"idle", "read", "insert", "holder", "seeding", "cleanup"},
            kind : {"open", "create"}, proc : Procedures \cup {Unset}, id : 0..MaxTemplates]

ASSUME UnsetAssumption == Unset \notin Row \cup Doc \cup View

EmptyDoc    == [added |-> {}, removed |-> {}]
Merge(d, e) == [added |-> d.added \cup e.added, removed |-> d.removed \cup e.removed]
Add(d, x)   == [d EXCEPT !.added = @ \cup {x}]

(* replaceContent: everything is removed, the source's content added.       *)
Replaced(d, x) == [added |-> d.added \cup {x}, removed |-> d.added]

Resting == [pc |-> "idle", kind |-> "create", proc |-> Unset, id |-> 0]

Exists(id) == rows[id] # Unset
Active(id) == Exists(id) /\ ~ rows[id].archived

(* Faulty variant of InMemory: a document is opened empty.                  *)
InMemoryEmpty(id) == IF docs[id] = Unset THEN EmptyDoc ELSE docs[id]

(* The document as the service has or loads it (fetch).                     *)
InMemory(id) == IF docs[id] = Unset THEN rows[id].state ELSE docs[id]

TemplateHolding(p) == {id \in Ids : Exists(id) /\ rows[id].proc = p}

(* Faulty variant of Free: an archived template does not hold its ID.       *)
FreeOfActive(p) == ~ \E id \in TemplateHolding(p) : Active(id)

(* The unique index on procedure_id covers archived templates too.          *)
Free(p) == TemplateHolding(p) = {}

bounds == << edits, abandoned, created, resets, losses, crashes >>

-----------------------------------------------------------------------------
TemplatesInit ==
  /\ limits \in TemplateScopes
  /\ rows = [id \in Ids |-> Unset]
  /\ docs = [id \in Ids |-> Unset]
  /\ seeding = [id \in Ids |-> "none"]
  /\ creating = [c \in Creators |-> Resting]
  /\ view = [e \in Editors |-> Unset]
  /\ resetting = {}
  /\ made = 0
  /\ edits = {}
  /\ abandoned = {}
  /\ created = {}
  /\ resets = 0
  /\ losses = 0
  /\ crashes = 0

-----------------------------------------------------------------------------
(* Creating. *)

(* open_collab_template of a workspace file's procedure,                    *)
(* create_blank_template and duplicate_template for an ID no file has.      *)
Create(c, kind, p) ==
  /\ c \in limits.creators
  /\ creating[c].pc = "idle"
  /\ (kind = "open") <=> (p \in FileProcedures)
  /\ made < limits.maxTemplates
  /\ creating' = [creating EXCEPT ![c] = [@ EXCEPT !.pc = "insert", !.kind = kind, !.proc = p]]
  /\ UNCHANGED << limits, rows, docs, seeding, view, resetting, made, bounds >>

(* The template that is duplicated is active, then read from its document.  *)
Duplicate(c, p, source) ==
  /\ c \in limits.creators
  /\ creating[c].pc = "idle"
  /\ p \notin FileProcedures
  /\ made < limits.maxTemplates
  /\ Active(source)
  /\ creating' = [creating EXCEPT ![c] =
                    [pc |-> "read", kind |-> "create", proc |-> p, id |-> source]]
  /\ UNCHANGED << limits, rows, docs, seeding, view, resetting, made, bounds >>

ReadSource(c) ==
  LET source == creating[c].id IN
  /\ creating[c].pc = "read"
  /\ IF Exists(source)
       THEN /\ docs' = [docs EXCEPT ![source] = InMemory(source)]
            /\ creating' = [creating EXCEPT ![c].pc = "insert"]
       ELSE creating' = [creating EXCEPT ![c] = Resting] /\ UNCHANGED docs
  /\ UNCHANGED << limits, rows, seeding, view, resetting, made, bounds >>

(* insert: one row per procedure ID, then its content is sent.              *)
Insert(c) ==
  LET p == creating[c].proc
      id == made + 1
  IN
  /\ creating[c].pc = "insert"
  /\ made < limits.maxTemplates
  /\ IF ~ Free(p)
       THEN /\ creating' = [creating EXCEPT ![c].pc = "holder"]
            /\ UNCHANGED << rows, seeding, made >>
       ELSE /\ rows' = [rows EXCEPT ![id] = [proc |-> p, state |-> EmptyDoc, archived |-> FALSE]]
            /\ seeding' = [seeding EXCEPT ![id] = "sent"]
            /\ creating' = [creating EXCEPT ![c] = [@ EXCEPT !.pc = "seeding", !.id = id]]
            /\ made' = id
  /\ UNCHANGED << limits, docs, view, resetting, bounds >>

(* holder: the answer depends on the row that has the ID now; it is an      *)
(* error that none has any more.                                            *)
Holder(c) ==
  /\ creating[c].pc = "holder"
  /\ creating' = [creating EXCEPT ![c] = Resting]
  /\ UNCHANGED << limits, rows, docs, seeding, view, resetting, made, bounds >>

(* POST at the collab service (seed): only an empty document is filled.     *)
Seed(id) ==
  /\ seeding[id] = "sent"
  /\ IF Exists(id)
       THEN IF InMemory(id).added = {}
              THEN /\ docs' = [docs EXCEPT ![id] = Add(EmptyDoc, << "seed", id >>)]
                   /\ seeding' = [seeding EXCEPT ![id] = "applied"]
              ELSE /\ docs' = [docs EXCEPT ![id] = InMemory(id)]
                   /\ seeding' = [seeding EXCEPT ![id] = "refused"]
       ELSE seeding' = [seeding EXCEPT ![id] = "refused"] /\ UNCHANGED docs
  /\ UNCHANGED << limits, rows, creating, view, resetting, made, bounds >>

Stored(id) == rows' = IF Exists(id) THEN [rows EXCEPT ![id].state = docs[id]] ELSE rows

(* The document is stored before the request is answered.                   *)
SeedStored(id) ==
  /\ seeding[id] = "applied"
  /\ Stored(id)
  /\ seeding' = [seeding EXCEPT ![id] = "stored"]
  /\ UNCHANGED << limits, docs, creating, view, resetting, made, bounds >>

(* Faulty variant of SeedAnswered: answered before the document is stored.  *)
SeedAnsweredEarly(c) ==
  LET id == creating[c].id IN
  /\ creating[c].pc = "seeding"
  /\ seeding[id] \in {"applied", "stored", "refused"}
  /\ IF seeding[id] = "refused"
       THEN creating' = [creating EXCEPT ![c].pc = "cleanup"] /\ UNCHANGED created
       ELSE creating' = [creating EXCEPT ![c] = Resting] /\ created' = created \cup {id}
  /\ UNCHANGED << limits, rows, docs, seeding, view, resetting, made,
                  edits, abandoned, resets, losses, crashes >>

SeedAnswered(c) ==
  LET id == creating[c].id IN
  /\ creating[c].pc = "seeding"
  /\ seeding[id] \in {"stored", "refused"}
  /\ IF seeding[id] = "refused"
       THEN creating' = [creating EXCEPT ![c].pc = "cleanup"] /\ UNCHANGED created
       ELSE creating' = [creating EXCEPT ![c] = Resting] /\ created' = created \cup {id}
  /\ UNCHANGED << limits, rows, docs, seeding, view, resetting, made,
                  edits, abandoned, resets, losses, crashes >>

(* The row of a template that could not be filled is deleted, unless that   *)
(* fails too.                                                               *)
Cleanup(c) ==
  /\ creating[c].pc = "cleanup"
  /\ \/ rows' = [rows EXCEPT ![creating[c].id] = Unset] /\ UNCHANGED losses
     \/ losses < limits.maxLosses /\ losses' = losses + 1 /\ UNCHANGED rows
  /\ creating' = [creating EXCEPT ![c] = Resting]
  /\ UNCHANGED << limits, docs, seeding, view, resetting, made,
                  edits, abandoned, created, resets, crashes >>

(* The connection to the collab service is lost, before or after it got the *)
(* content.                                                                 *)
SeedLost(c) ==
  LET id == creating[c].id IN
  /\ creating[c].pc = "seeding"
  /\ losses < limits.maxLosses
  /\ losses' = losses + 1
  /\ creating' = [creating EXCEPT ![c].pc = "cleanup"]
  /\ \/ UNCHANGED seeding
     \/ seeding[id] = "sent" /\ seeding' = [seeding EXCEPT ![id] = "refused"]
  /\ UNCHANGED << limits, rows, docs, view, resetting, made,
                  edits, abandoned, created, resets, crashes >>

(* The client is gone: the request is dropped where it is.                  *)
CreatorGone(c) ==
  LET id == creating[c].id IN
  /\ creating[c].pc # "idle"
  /\ losses < limits.maxLosses
  /\ losses' = losses + 1
  /\ creating' = [creating EXCEPT ![c] = Resting]
  /\ \/ UNCHANGED seeding
     \/ /\ creating[c].pc = "seeding" /\ seeding[id] = "sent"
        /\ seeding' = [seeding EXCEPT ![id] = "refused"]
  /\ UNCHANGED << limits, rows, docs, view, resetting, made,
                  edits, abandoned, created, resets, crashes >>

-----------------------------------------------------------------------------
(* Archiving and resetting. *)

Archive(id) ==
  /\ Active(id)
  /\ rows' = [rows EXCEPT ![id].archived = TRUE]
  /\ UNCHANGED << limits, docs, seeding, creating, view, resetting, made, bounds >>

(* reset_template lets the reset of an active template through, and then    *)
(* reads the file.                                                          *)
Reset(id) ==
  /\ resets < limits.maxResets
  /\ Active(id) /\ rows[id].proc \in FileProcedures
  /\ resets' = resets + 1
  /\ resetting' = resetting \cup {id}
  /\ UNCHANGED << limits, rows, docs, seeding, creating, view, made,
                  edits, abandoned, created, losses, crashes >>

(* PUT at the collab service (replace).                                     *)
Replace(id) ==
  /\ id \in resetting
  /\ resetting' = resetting \ {id}
  /\ docs' = IF Exists(id)
               THEN [docs EXCEPT ![id] = Replaced(InMemory(id), << "file", resets >>)]
               ELSE docs
  /\ UNCHANGED << limits, rows, seeding, creating, view, made, bounds >>

-----------------------------------------------------------------------------
(* The collab service. *)

(* Faulty variant of Store: only the first change is stored.                *)
StoreFirst(id) ==
  /\ docs[id] # Unset
  /\ Exists(id) /\ rows[id].state = EmptyDoc /\ rows[id].state # docs[id]
  /\ Stored(id)
  /\ UNCHANGED << limits, docs, seeding, creating, view, resetting, made, bounds >>

(* Changes are stored a while after they were made, and when the last       *)
(* connection closes; nothing happens when the row is gone.                 *)
Store(id) ==
  /\ docs[id] # Unset
  /\ Exists(id) /\ rows[id].state # docs[id]
  /\ Stored(id)
  /\ UNCHANGED << limits, docs, seeding, creating, view, resetting, made, bounds >>

InUse(id) ==
  \/ seeding[id] = "applied"
  \/ \E e \in Editors : view[e] # Unset /\ view[e].id = id /\ view[e].link = "on"

Unload(id) ==
  /\ docs[id] # Unset /\ ~ InUse(id)
  /\ Exists(id) => rows[id].state = docs[id]
  /\ docs' = [docs EXCEPT ![id] = Unset]
  /\ UNCHANGED << limits, rows, seeding, creating, view, resetting, made, bounds >>

(* The service stops and starts again: memory and connections are gone.     *)
CollabCrash ==
  /\ crashes < limits.maxCrashes
  /\ crashes' = crashes + 1
  /\ docs' = [id \in Ids |-> Unset]
  /\ seeding' = [id \in Ids |->
                   IF seeding[id] \in {"sent", "applied"} THEN "refused" ELSE seeding[id]]
  /\ view' = [e \in Editors |-> IF view[e] = Unset THEN Unset ELSE [view[e] EXCEPT !.link = "off"]]
  /\ UNCHANGED << limits, rows, creating, resetting, made,
                  edits, abandoned, created, resets, losses >>

-----------------------------------------------------------------------------
(* Editors. *)

(* collab_token for a template that is opened, or when reconnecting.        *)
Token(e, id) ==
  /\ e \in limits.editors
  /\ Active(id)
  /\ \/ /\ view[e] = Unset
        /\ view' = [view EXCEPT ![e] = [id |-> id, doc |-> EmptyDoc, link |-> "token"]]
     \/ /\ view[e] # Unset /\ view[e].id = id /\ view[e].link = "off"
        /\ view' = [view EXCEPT ![e].link = "token"]
  /\ UNCHANGED << limits, rows, docs, seeding, creating, resetting, made, bounds >>

(* onAuthenticate and the loading of the document; an archived template is  *)
(* opened as well.                                                          *)
Connect(e) ==
  /\ view[e] # Unset /\ view[e].link = "token"
  /\ LET id == view[e].id IN
       IF Exists(id)
         THEN /\ docs' = [docs EXCEPT ![id] = InMemory(id)]
              /\ view' = [view EXCEPT ![e].link = "on"]
         ELSE view' = [view EXCEPT ![e].link = "off"] /\ UNCHANGED docs
  /\ UNCHANGED << limits, rows, seeding, creating, resetting, made, bounds >>

Edit(e) ==
  LET change == << "edit", Cardinality(edits) + 1 >> IN
  /\ view[e] # Unset
  /\ Cardinality(edits) < limits.maxEdits
  /\ view' = [view EXCEPT ![e].doc = Add(@, change)]
  /\ edits' = edits \cup {<< view[e].id, change >>}
  /\ UNCHANGED << limits, rows, docs, seeding, creating, resetting, made,
                  abandoned, created, resets, losses, crashes >>

(* An editor and the service exchange what the other does not have yet.     *)
Connected(e) == view[e] # Unset /\ view[e].link = "on"

Up(e) ==
  /\ Connected(e)
  /\ docs[view[e].id] # Merge(docs[view[e].id], view[e].doc)
  /\ docs' = [docs EXCEPT ![view[e].id] = Merge(@, view[e].doc)]
  /\ UNCHANGED << limits, rows, seeding, creating, view, resetting, made, bounds >>

Down(e) ==
  /\ Connected(e)
  /\ view[e].doc # Merge(view[e].doc, docs[view[e].id])
  /\ view' = [view EXCEPT ![e].doc = Merge(@, docs[view[e].id])]
  /\ UNCHANGED << limits, rows, docs, seeding, creating, resetting, made, bounds >>

(* An editor loses its connection, or closes the template.                  *)
Lose(e) ==
  /\ Connected(e)
  /\ losses < limits.maxLosses
  /\ losses' = losses + 1
  /\ view' = [view EXCEPT ![e].link = "off"]
  /\ UNCHANGED << limits, rows, docs, seeding, creating, resetting, made,
                  edits, abandoned, created, resets, crashes >>

Leave(e) ==
  LET id     == view[e].id
      stored == IF Exists(id) THEN rows[id].state.added ELSE {}
  IN
  /\ view[e] # Unset
  /\ losses < limits.maxLosses
  /\ losses' = losses + 1
  /\ view' = [view EXCEPT ![e] = Unset]
  /\ abandoned' = abandoned \cup (view[e].doc.added \ stored)
  /\ UNCHANGED << limits, rows, docs, seeding, creating, resetting, made,
                  edits, created, resets, crashes >>

-----------------------------------------------------------------------------
CreatorStep(c) ==
  \/ \E p \in limits.procedures : \/ \E kind \in {"open", "create"} : Create(c, kind, p)
                           \/ \E source \in Ids : Duplicate(c, p, source)
  \/ ReadSource(c) \/ Insert(c) \/ Holder(c) \/ SeedAnswered(c) \/ Cleanup(c)
  \/ SeedLost(c) \/ CreatorGone(c)

TemplateStep(id) ==
  \/ Seed(id) \/ SeedStored(id) \/ Archive(id) \/ Reset(id) \/ Replace(id)
  \/ Store(id) \/ Unload(id)

EditorStep(e) ==
  \/ \E id \in Ids : Token(e, id)
  \/ Connect(e) \/ Edit(e) \/ Up(e) \/ Down(e) \/ Lose(e) \/ Leave(e)

TemplatesNext ==
  \/ \E c \in Creators : CreatorStep(c)
  \/ \E id \in Ids : TemplateStep(id)
  \/ \E e \in Editors : EditorStep(e)
  \/ CollabCrash

TemplatesSpec == TemplatesInit /\ [][TemplatesNext]_templateVars

(* Editors reconnect by themselves, connections carry what is to be sent,   *)
(* and the service stores what changed.                                     *)
TemplatesFairness ==
  /\ \A e \in Editors :
       /\ WF_templateVars(\E id \in Ids : view[e] # Unset /\ view[e].id = id /\ Token(e, id))
       /\ WF_templateVars(Connect(e))
       /\ WF_templateVars(Up(e))
       /\ WF_templateVars(Down(e))
  /\ \A id \in Ids : WF_templateVars(Store(id)) /\ WF_templateVars(Seed(id) \/ SeedStored(id))

-----------------------------------------------------------------------------
(* Correctness. *)

(* Type invariant of the templates' part: one row per procedure ID.         *)
TemplatesTypeOK ==
  /\ limits \in TemplateScopes
  /\ rows \in [Ids -> Row \cup {Unset}]
  /\ docs \in [Ids -> Doc \cup {Unset}]
  /\ seeding \in [Ids -> {"none", "sent", "applied", "stored", "refused"}]
  /\ creating \in [Creators -> Request]
  /\ view \in [Editors -> View \cup {Unset}]
  /\ resetting \subseteq Ids
  /\ made \in 0..MaxTemplates
  /\ \A p \in Procedures : Cardinality(TemplateHolding(p)) <= 1

(* A template whose creation was reported keeps its row and its first       *)
(* content, whatever happens to the collab service and to other requests    *)
(* for the same procedure.                                                  *)
CreatedStays ==
  \A id \in created : Exists(id) /\ << "seed", id >> \in rows[id].state.added

(* An editor's change is stored or with somebody who still has the template *)
(* open; it is lost only if its editors left before it was stored, or with  *)
(* a template that could not be created.                                    *)
EditsSurvive ==
  \A x \in edits :
    \/ ~ Exists(x[1]) /\ x[1] \notin created
    \/ Exists(x[1]) /\ x[2] \in rows[x[1]].state.added
    \/ \E e \in Editors : view[e] # Unset /\ view[e].id = x[1] /\ x[2] \in view[e].doc.added
    \/ x[2] \in abandoned

(* Once nobody changes anything, all who have an active template open show  *)
(* the same document, and it is the stored one.                             *)
EditorsConverge ==
  <>[](\A e \in Editors :
         view[e] # Unset /\ Active(view[e].id) =>
           view[e].doc = docs[view[e].id] /\ docs[view[e].id] = rows[view[e].id].state)
=============================================================================
